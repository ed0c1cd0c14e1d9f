----------------------------- MODULE SumProofs -----------------------------
(***************************************************************************)
(* What SumOver adds up to, over any finite set: the laws of sums every    *)
(* proof about figures of an order, stock or pallets owed rests on.        *)
(*                                                                         *)
(* SumOver is a fold, whose recursive function exists and is the only one  *)
(* by induction over the subsets of the set; the induction is stated for a *)
(* set of subsets (`Good`), and rests on there being no smallest subset    *)
(* outside it.                                                             *)
(***************************************************************************)
EXTENDS LedgerMath, FiniteSetTheorems, WellFoundedInduction, TLAPS

(* There is no endless descent through the subsets of a finite set.         *)
LEMMA SubsetsWellFounded ==
  ASSUME NEW S, IsFiniteSet(S)
  PROVE  IsWellFoundedOn(StrictSubsetOrdering(S), SUBSET S)
  BY FS_FiniteSubsetsOfFinite, FS_StrictSubsetOrderingWellFounded

(* Induction over the subsets of a finite set, for a set of subsets.       *)
LEMMA SubsetInduction ==
  ASSUME NEW S, IsFiniteSet(S), NEW Good,
         \A T \in SUBSET S : (\A U \in SUBSET S : U \subseteq T /\ U # T => U \in Good) => T \in Good
  PROVE  \A T \in SUBSET S : T \in Good
<1> SUFFICES ASSUME NEW T0 \in SUBSET S, T0 \notin Good PROVE FALSE
  OBVIOUS
<1> DEFINE Bad == {T \in SUBSET S : T \notin Good}
<1>1. IsWellFoundedOn(StrictSubsetOrdering(S), SUBSET S)
  BY SubsetsWellFounded
<1>2. Bad \subseteq SUBSET S /\ Bad # {}
  OBVIOUS
<1>3. PICK T \in Bad : \A U \in Bad : ~ (<<U, T>> \in StrictSubsetOrdering(S))
  <2> HIDE DEF Bad
  <2> QED BY <1>1, <1>2, WFMin
<1>4. \A U \in SUBSET S : U \subseteq T /\ U # T => U \in Good
  BY <1>3 DEF StrictSubsetOrdering
<1> QED BY <1>3, <1>4

-----------------------------------------------------------------------------
(* The member the fold adds first, and the function it computes: g adds f up *)
(* over every subset of S.                                                  *)
Some(s) == CHOOSE x \in s : TRUE
LEMMA SomeIsIn == ASSUME NEW s, s # {} PROVE Some(s) \in s
  BY DEF Some

Adds(g, S, f) ==
    g = [s \in SUBSET S |-> IF s = {} THEN 0 ELSE f[Some(s)] + g[s \ {Some(s)}]]

LEMMA SumIsChosen ==
  ASSUME NEW S, NEW f PROVE SumOver(S, f) = (CHOOSE g : Adds(g, S, f))[S]
  BY DEF SumOver, MapThenSumSet, MapThenFoldSet, Adds, Some

LEMMA AddsAt ==
  ASSUME NEW S, NEW f, NEW g, Adds(g, S, f), NEW s \in SUBSET S
  PROVE  g[s] = IF s = {} THEN 0 ELSE f[Some(s)] + g[s \ {Some(s)}]
  BY DEF Adds

(* Two such functions agree wherever both are defined.                      *)
LEMMA AddsAgree ==
  ASSUME NEW f, NEW A, NEW B, NEW g, NEW h, Adds(g, A, f), Adds(h, B, f),
         NEW C, IsFiniteSet(C), C \subseteq A, C \subseteq B
  PROVE  g[C] = h[C]
<1> DEFINE Good == {T \in SUBSET C : g[T] = h[T]}
<1>1. ASSUME NEW T \in SUBSET C, \A U \in SUBSET C : U \subseteq T /\ U # T => U \in Good
      PROVE  T \in Good
  <2>1. /\ g[T] = IF T = {} THEN 0 ELSE f[Some(T)] + g[T \ {Some(T)}]
        /\ h[T] = IF T = {} THEN 0 ELSE f[Some(T)] + h[T \ {Some(T)}]
    BY AddsAt
  <2>2. CASE T # {}
    <3>1. T \ {Some(T)} \in Good
      BY <1>1, <2>2, SomeIsIn
    <3> QED BY <2>1, <2>2, <3>1
  <2> QED BY <2>1, <2>2
<1> HIDE DEF Good
<1>2. \A T \in SUBSET C : T \in Good
  BY <1>1, SubsetInduction
<1> QED BY <1>2 DEF Good

(* There is one for every finite set.                                       *)
LEMMA SumExists ==
  ASSUME NEW S, IsFiniteSet(S), NEW f
  PROVE  Adds(CHOOSE g : Adds(g, S, f), S, f)
<1> DEFINE Good == {T \in SUBSET S : \E g : Adds(g, T, f)}
<1>1. ASSUME NEW T \in SUBSET S, \A U \in SUBSET S : U \subseteq T /\ U # T => U \in Good
      PROVE  T \in Good
  <2> DEFINE G == [s \in SUBSET T |-> IF s = {} THEN 0
                                      ELSE f[Some(s)] + SumOver(s \ {Some(s)}, f)]
  <2>1. ASSUME NEW s \in SUBSET T, s # {} PROVE G[s \ {Some(s)}] = SumOver(s \ {Some(s)}, f)
    <3> DEFINE U == s \ {Some(s)}
               V == U \ {Some(U)}
               gU == CHOOSE g : Adds(g, U, f)
               gV == CHOOSE g : Adds(g, V, f)
    <3>1. U \in SUBSET T /\ U # T
      BY <2>1, SomeIsIn
    <3>2. U \in Good
      BY <1>1, <3>1
    <3>3. Adds(gU, U, f)
      BY <3>2
    <3>4. SumOver(U, f) = gU[U]
      BY SumIsChosen
    <3>5. gU[U] = IF U = {} THEN 0 ELSE f[Some(U)] + gU[V]
      <4>1. U \in SUBSET U
        OBVIOUS
      <4> HIDE DEF gU, U
      <4> QED BY <3>3, <4>1, AddsAt
    <3>6. G[U] = IF U = {} THEN 0 ELSE f[Some(U)] + SumOver(V, f)
      BY <3>1
    <3>7. ASSUME U # {} PROVE gU[V] = SumOver(V, f)
      <4>1. V \in SUBSET T /\ V # T /\ V \subseteq U
        BY <3>1, <3>7, SomeIsIn
      <4>2. V \in Good
        BY <1>1, <4>1
      <4>3. Adds(gV, V, f)
        BY <4>2
      <4>4. IsFiniteSet(V)
        BY <4>1, FS_Subset
      <4>5. gU[V] = gV[V]
        <5> HIDE DEF gU, gV, V, U
        <5> QED BY <3>3, <4>1, <4>3, <4>4, AddsAgree
      <4> QED BY <4>5, SumIsChosen
    <3> HIDE DEF G, U, V, gU, gV
    <3>8. G[U] = SumOver(U, f)
      BY <3>4, <3>5, <3>6, <3>7
    <3> QED BY <3>8 DEF U
  <2>2. Adds(G, T, f)
    BY <2>1 DEF Adds
  <2> QED BY <2>2
<1>2. S \in Good
  <2> HIDE DEF Good
  <2> QED BY <1>1, SubsetInduction
<1> QED BY <1>2

(* So a sum is one member's value and the sum of the rest.                  *)
LEMMA SumUnfolds ==
  ASSUME NEW S, IsFiniteSet(S), NEW f
  PROVE  SumOver(S, f) = IF S = {} THEN 0 ELSE f[Some(S)] + SumOver(S \ {Some(S)}, f)
<1> DEFINE g == CHOOSE g : Adds(g, S, f)
           T == S \ {Some(S)}
           h == CHOOSE h : Adds(h, T, f)
<1>1. Adds(g, S, f)
  BY SumExists
<1>2. SumOver(S, f) = g[S] /\ SumOver(T, f) = h[T]
  BY SumIsChosen
<1>3. IsFiniteSet(T) /\ T \subseteq S
  BY FS_Subset
<1>4. Adds(h, T, f)
  BY <1>3, SumExists
<1> HIDE DEF g, h
<1>5. g[S] = IF S = {} THEN 0 ELSE f[Some(S)] + g[T]
  BY <1>1, AddsAt
<1>6. g[T] = h[T]
  <2> HIDE DEF T
  <2> QED BY <1>1, <1>3, <1>4, AddsAgree
<1> QED BY <1>2, <1>5, <1>6

-----------------------------------------------------------------------------
(* The laws of sums. *)
LEMMA SumOfNone == ASSUME NEW f PROVE SumOver({}, f) = 0
  BY SumUnfolds, FS_EmptySet

LEMMA SumIsInt ==
  ASSUME NEW S, IsFiniteSet(S), NEW f, \A x \in S : f[x] \in Int
  PROVE  SumOver(S, f) \in Int
<1> DEFINE Good == {T \in SUBSET S : SumOver(T, f) \in Int}
<1>1. ASSUME NEW T \in SUBSET S, \A U \in SUBSET S : U \subseteq T /\ U # T => U \in Good
      PROVE  T \in Good
  <2>1. IsFiniteSet(T)
    BY FS_Subset
  <2>2. SumOver(T, f) = IF T = {} THEN 0 ELSE f[Some(T)] + SumOver(T \ {Some(T)}, f)
    BY <2>1, SumUnfolds
  <2>3. CASE T # {}
    <3>1. T \ {Some(T)} \in Good /\ Some(T) \in S
      BY <1>1, <2>3, SomeIsIn
    <3> QED BY <2>2, <2>3, <3>1
  <2> QED BY <2>2, <2>3
<1>2. S \in Good
  <2> HIDE DEF Good
  <2> QED BY <1>1, SubsetInduction
<1> QED BY <1>2

(* Any member may be taken out first.                                       *)
LEMMA SumTakesOut ==
  ASSUME NEW S, IsFiniteSet(S), NEW f, \A x \in S : f[x] \in Int, NEW x \in S
  PROVE  SumOver(S, f) = f[x] + SumOver(S \ {x}, f)
<1> DEFINE Good == {T \in SUBSET S : \A y \in T : SumOver(T, f) = f[y] + SumOver(T \ {y}, f)}
<1>1. ASSUME NEW T \in SUBSET S, \A U \in SUBSET S : U \subseteq T /\ U # T => U \in Good
      PROVE  T \in Good
  <2> SUFFICES ASSUME NEW y \in T PROVE SumOver(T, f) = f[y] + SumOver(T \ {y}, f)
    OBVIOUS
  <2> DEFINE c == Some(T)
             A == T \ {c}
             B == T \ {y}
             C == (T \ {c}) \ {y}
  <2>1. /\ IsFiniteSet(T) /\ IsFiniteSet(C)
        /\ \A u \in C : f[u] \in Int
    BY FS_Subset
  <2>2. SumOver(T, f) = f[c] + SumOver(A, f) /\ c \in T
    BY <2>1, SumUnfolds, SomeIsIn
  <2>3. CASE y # c
    <3>1. A \in Good /\ B \in Good /\ y \in A /\ c \in B /\ B \ {c} = C
      BY <1>1, <2>2, <2>3
    <3>2. SumOver(A, f) = f[y] + SumOver(C, f) /\ SumOver(B, f) = f[c] + SumOver(C, f)
      BY <3>1
    <3>3. SumOver(C, f) \in Int
      BY <2>1, SumIsInt
    <3>4. f[c] \in Int /\ f[y] \in Int
      BY <2>2
    <3> HIDE DEF c, A, B, C
    <3> QED BY <2>2, <3>2, <3>3, <3>4 DEF B
  <2> QED BY <2>2, <2>3
<1>2. S \in Good
  <2> HIDE DEF Good
  <2> QED BY <1>1, SubsetInduction
<1> QED BY <1>2

LEMMA SumOfOne ==
  ASSUME NEW x, NEW f, f[x] \in Int PROVE SumOver({x}, f) = f[x]
<1>1. IsFiniteSet({x}) /\ {x} \ {x} = {} /\ x \in {x}
  BY FS_Singleton
<1>2. SumOver({x}, f) = f[x] + SumOver({x} \ {x}, f)
  BY <1>1, SumTakesOut
<1> QED BY <1>1, <1>2, SumOfNone

(* A sum depends on the values at the members alone.                        *)
LEMMA SumAgrees ==
  ASSUME NEW S, IsFiniteSet(S), NEW f, NEW g, \A x \in S : f[x] = g[x]
  PROVE  SumOver(S, f) = SumOver(S, g)
<1> DEFINE Good == {T \in SUBSET S : SumOver(T, f) = SumOver(T, g)}
<1>1. ASSUME NEW T \in SUBSET S, \A U \in SUBSET S : U \subseteq T /\ U # T => U \in Good
      PROVE  T \in Good
  <2>1. IsFiniteSet(T)
    BY FS_Subset
  <2>2. /\ SumOver(T, f) = IF T = {} THEN 0 ELSE f[Some(T)] + SumOver(T \ {Some(T)}, f)
        /\ SumOver(T, g) = IF T = {} THEN 0 ELSE g[Some(T)] + SumOver(T \ {Some(T)}, g)
    BY <2>1, SumUnfolds
  <2>3. CASE T # {}
    <3>1. T \ {Some(T)} \in Good /\ Some(T) \in S
      BY <1>1, <2>3, SomeIsIn
    <3> QED BY <2>2, <2>3, <3>1
  <2> QED BY <2>2, <2>3
<1>2. S \in Good
  <2> HIDE DEF Good
  <2> QED BY <1>1, SubsetInduction
<1> QED BY <1>2

(* Sums are in the order of their terms.                                    *)
LEMMA SumAtMost ==
  ASSUME NEW S, IsFiniteSet(S), NEW f, NEW g,
         \A x \in S : f[x] \in Int /\ g[x] \in Int /\ f[x] <= g[x]
  PROVE  SumOver(S, f) <= SumOver(S, g)
<1> DEFINE Good == {T \in SUBSET S : SumOver(T, f) <= SumOver(T, g)}
<1>1. ASSUME NEW T \in SUBSET S, \A U \in SUBSET S : U \subseteq T /\ U # T => U \in Good
      PROVE  T \in Good
  <2>1. IsFiniteSet(T) /\ IsFiniteSet(T \ {Some(T)})
    BY FS_Subset
  <2>2. /\ SumOver(T, f) = IF T = {} THEN 0 ELSE f[Some(T)] + SumOver(T \ {Some(T)}, f)
        /\ SumOver(T, g) = IF T = {} THEN 0 ELSE g[Some(T)] + SumOver(T \ {Some(T)}, g)
    BY <2>1, SumUnfolds
  <2>3. CASE T # {}
    <3>1. T \ {Some(T)} \in Good /\ Some(T) \in S
      BY <1>1, <2>3, SomeIsIn
    <3>2. /\ SumOver(T \ {Some(T)}, f) \in Int
          /\ SumOver(T \ {Some(T)}, g) \in Int
          /\ SumOver(T \ {Some(T)}, f) <= SumOver(T \ {Some(T)}, g)
      BY <2>1, <3>1, SumIsInt
    <3>3. f[Some(T)] \in Int /\ g[Some(T)] \in Int /\ f[Some(T)] <= g[Some(T)]
      BY <3>1
    <3> QED BY <2>2, <2>3, <3>2, <3>3
  <2>4. CASE T = {}
    BY <2>2, <2>4
  <2> QED BY <2>3, <2>4
<1>2. S \in Good
  <2> HIDE DEF Good
  <2> QED BY <1>1, SubsetInduction
<1> QED BY <1>2

LEMMA SumOfZeros ==
  ASSUME NEW S, IsFiniteSet(S), NEW f, \A x \in S : f[x] = 0
  PROVE  SumOver(S, f) = 0
<1> DEFINE Good == {T \in SUBSET S : SumOver(T, f) = 0}
<1>1. ASSUME NEW T \in SUBSET S, \A U \in SUBSET S : U \subseteq T /\ U # T => U \in Good
      PROVE  T \in Good
  <2>1. IsFiniteSet(T)
    BY FS_Subset
  <2>2. SumOver(T, f) = IF T = {} THEN 0 ELSE f[Some(T)] + SumOver(T \ {Some(T)}, f)
    BY <2>1, SumUnfolds
  <2>3. CASE T # {}
    <3>1. T \ {Some(T)} \in Good /\ Some(T) \in S
      BY <1>1, <2>3, SomeIsIn
    <3> QED BY <2>2, <2>3, <3>1
  <2> QED BY <2>2, <2>3
<1>2. S \in Good
  <2> HIDE DEF Good
  <2> QED BY <1>1, SubsetInduction
<1> QED BY <1>2

LEMMA SumIsNat ==
  ASSUME NEW S, IsFiniteSet(S), NEW f, \A x \in S : f[x] \in Nat
  PROVE  SumOver(S, f) \in Nat
<1> DEFINE zero == [x \in S |-> 0]
<1>1. SumOver(S, f) \in Int
  BY SumIsInt
<1>2. SumOver(S, zero) = 0
  BY SumOfZeros
<1>3. SumOver(S, zero) <= SumOver(S, f)
  <2>1. \A x \in S : zero[x] \in Int /\ f[x] \in Int /\ zero[x] <= f[x]
    OBVIOUS
  <2> HIDE DEF zero
  <2> QED BY <2>1, SumAtMost
<1> QED BY <1>1, <1>2, <1>3

(* Sums of integers add term by term.                                       *)
LEMMA SumOfSums ==
  ASSUME NEW S, IsFiniteSet(S), NEW f, NEW g, NEW h,
         \A x \in S : f[x] \in Int /\ g[x] \in Int /\ h[x] = f[x] + g[x]
  PROVE  SumOver(S, h) = SumOver(S, f) + SumOver(S, g)
<1> DEFINE Good == {T \in SUBSET S : SumOver(T, h) = SumOver(T, f) + SumOver(T, g)}
<1>1. ASSUME NEW T \in SUBSET S, \A U \in SUBSET S : U \subseteq T /\ U # T => U \in Good
      PROVE  T \in Good
  <2>1. IsFiniteSet(T) /\ IsFiniteSet(T \ {Some(T)})
    BY FS_Subset
  <2>2. /\ SumOver(T, f) = IF T = {} THEN 0 ELSE f[Some(T)] + SumOver(T \ {Some(T)}, f)
        /\ SumOver(T, g) = IF T = {} THEN 0 ELSE g[Some(T)] + SumOver(T \ {Some(T)}, g)
        /\ SumOver(T, h) = IF T = {} THEN 0 ELSE h[Some(T)] + SumOver(T \ {Some(T)}, h)
    BY <2>1, SumUnfolds
  <2>3. CASE T # {}
    <3>1. T \ {Some(T)} \in Good /\ Some(T) \in S
      BY <1>1, <2>3, SomeIsIn
    <3>2. /\ SumOver(T \ {Some(T)}, f) \in Int
          /\ SumOver(T \ {Some(T)}, g) \in Int
          /\ SumOver(T \ {Some(T)}, h) =
                SumOver(T \ {Some(T)}, f) + SumOver(T \ {Some(T)}, g)
      BY <2>1, <3>1, SumIsInt
    <3>3. /\ f[Some(T)] \in Int /\ g[Some(T)] \in Int
          /\ h[Some(T)] = f[Some(T)] + g[Some(T)]
      BY <3>1
    <3> QED BY <2>2, <2>3, <3>2, <3>3
  <2>4. CASE T = {}
    BY <2>2, <2>4
  <2> QED BY <2>3, <2>4
<1>2. S \in Good
  <2> HIDE DEF Good
  <2> QED BY <1>1, SubsetInduction
<1> QED BY <1>2

(* A sum splits into the sums over a part and over the rest.                *)
LEMMA SumSplits ==
  ASSUME NEW S, IsFiniteSet(S), NEW f, \A x \in S : f[x] \in Int, NEW P \in SUBSET S
  PROVE  SumOver(S, f) = SumOver(P, f) + SumOver(S \ P, f)
<1> DEFINE Good == {T \in SUBSET P : SumOver(S, f) = SumOver(T, f) + SumOver(S \ T, f)}
<1>0. IsFiniteSet(P) /\ IsFiniteSet({})
  BY FS_Subset, FS_EmptySet
<1>1. ASSUME NEW T \in SUBSET P, \A U \in SUBSET P : U \subseteq T /\ U # T => U \in Good
      PROVE  T \in Good
  <2>1. /\ IsFiniteSet(T) /\ IsFiniteSet(T \ {Some(T)})
        /\ IsFiniteSet(S \ T) /\ IsFiniteSet(S \ (T \ {Some(T)}))
    BY FS_Subset
  <2>2. SumOver(T, f) = IF T = {} THEN 0 ELSE f[Some(T)] + SumOver(T \ {Some(T)}, f)
    BY <2>1, SumUnfolds
  <2>3. SumOver(S, f) \in Int
    BY SumIsInt
  <2>4. CASE T # {}
    <3> DEFINE c == Some(T)
               R == S \ (T \ {c})
    <3>1. T \ {c} \in Good /\ c \in S /\ c \in T
      BY <1>1, <2>4, SomeIsIn
    <3>2. c \in R /\ R \ {c} = S \ T /\ R \subseteq S
      BY <3>1
    <3>3. SumOver(R, f) = f[c] + SumOver(S \ T, f)
      <4> HIDE DEF R, c
      <4>1. SumOver(R, f) = f[c] + SumOver(R \ {c}, f)
        BY <2>1, <3>2, SumTakesOut DEF R, c
      <4> QED BY <3>2, <4>1
    <3>4. SumOver(S, f) = SumOver(T \ {c}, f) + SumOver(R, f)
      BY <3>1
    <3>5. /\ SumOver(S \ T, f) \in Int /\ SumOver(T \ {c}, f) \in Int
          /\ f[c] \in Int
      BY <2>1, <3>1, SumIsInt
    <3>6. SumOver(T, f) = f[c] + SumOver(T \ {c}, f)
      BY <2>2, <2>4
    <3>7. SumOver(S, f) = SumOver(T, f) + SumOver(S \ T, f)
      <4> HIDE DEF R, c
      <4> QED BY <3>3, <3>4, <3>5, <3>6
    <3> QED BY <3>7
  <2>5. CASE T = {}
    <3>1. S \ T = S
      BY <2>5
    <3> QED BY <2>2, <2>3, <2>5, <3>1
  <2> QED BY <2>4, <2>5
<1>2. P \in Good
  <2>1. P \in SUBSET P
    OBVIOUS
  <2> HIDE DEF Good
  <2> QED BY <1>0, <1>1, <2>1, SubsetInduction
<1> QED BY <1>2

(* One member's value replaced.                                             *)
LEMMA SumOneChanged ==
  ASSUME NEW S, IsFiniteSet(S), NEW f, NEW g, NEW x \in S,
         \A y \in S : f[y] \in Int /\ g[y] \in Int,
         \A y \in S \ {x} : f[y] = g[y]
  PROVE  SumOver(S, g) = SumOver(S, f) - f[x] + g[x]
<1>1. IsFiniteSet(S \ {x})
  BY FS_Subset
<1>2. /\ SumOver(S, f) = f[x] + SumOver(S \ {x}, f)
      /\ SumOver(S, g) = g[x] + SumOver(S \ {x}, g)
  BY SumTakesOut
<1>3. SumOver(S \ {x}, f) = SumOver(S \ {x}, g)
  BY <1>1, SumAgrees
<1>4. SumOver(S \ {x}, f) \in Int
  BY <1>1, SumIsInt
<1> QED BY <1>2, <1>3, <1>4

(* A member added.                                                          *)
LEMMA SumOneAdded ==
  ASSUME NEW S, IsFiniteSet(S), NEW f, NEW x, x \notin S,
         \A y \in S \cup {x} : f[y] \in Int
  PROVE  SumOver(S \cup {x}, f) = SumOver(S, f) + f[x]
<1>1. IsFiniteSet(S \cup {x}) /\ (S \cup {x}) \ {x} = S
  BY FS_AddElement
<1>2. SumOver(S \cup {x}, f) = f[x] + SumOver((S \cup {x}) \ {x}, f)
  <2>1. x \in S \cup {x}
    OBVIOUS
  <2> QED BY <1>1, <2>1, SumTakesOut
<1>3. SumOver((S \cup {x}) \ {x}, f) = SumOver(S, f)
  BY <1>1
<1>4. SumOver(S, f) \in Int /\ f[x] \in Int
  BY SumIsInt
<1> QED BY <1>2, <1>3, <1>4

(* Where nothing but one member counts, the sum is its value; and where     *)
(* nothing outside a part counts, the sum over the part.                    *)
LEMMA SumOfPart ==
  ASSUME NEW S, IsFiniteSet(S), NEW f, NEW P \in SUBSET S,
         \A x \in P : f[x] \in Int, \A x \in S \ P : f[x] = 0
  PROVE  SumOver(S, f) = SumOver(P, f)
<1>1. SumOver(S, f) = SumOver(P, f) + SumOver(S \ P, f)
  BY SumSplits
<1>2. SumOver(S \ P, f) = 0
  BY FS_Subset, SumOfZeros
<1>3. SumOver(P, f) \in Int
  BY FS_Subset, SumIsInt
<1> QED BY <1>1, <1>2, <1>3

(* A sum of what is never negative is at least the sum over a part of it.   *)
LEMMA SumOfPartAtMost ==
  ASSUME NEW S, IsFiniteSet(S), NEW f, NEW P \in SUBSET S, \A x \in S : f[x] \in Nat
  PROVE  SumOver(P, f) <= SumOver(S, f)
<1>1. SumOver(S, f) = SumOver(P, f) + SumOver(S \ P, f)
  BY SumSplits
<1>2. SumOver(P, f) \in Nat /\ SumOver(S \ P, f) \in Nat
  BY FS_Subset, SumIsNat
<1> QED BY <1>1, <1>2

(* The members renamed, no two alike.                                       *)
LEMMA SumRenamed ==
  ASSUME NEW S, IsFiniteSet(S), NEW f, NEW g, NEW b,
         \A x \in S : f[x] \in Int /\ g[b[x]] = f[x],
         \A x, y \in S : b[x] = b[y] => x = y
  PROVE  SumOver({b[x] : x \in S}, g) = SumOver(S, f)
<1> DEFINE Image(T) == {b[x] : x \in T}
           Good == {T \in SUBSET S : /\ IsFiniteSet(Image(T))
                                     /\ SumOver(Image(T), g) = SumOver(T, f)}
<1>1. ASSUME NEW T \in SUBSET S, \A U \in SUBSET S : U \subseteq T /\ U # T => U \in Good
      PROVE  T \in Good
  <2>1. IsFiniteSet(T)
    BY FS_Subset
  <2>2. SumOver(T, f) = IF T = {} THEN 0 ELSE f[Some(T)] + SumOver(T \ {Some(T)}, f)
    BY <2>1, SumUnfolds
  <2>3. CASE T # {}
    <3> DEFINE c == Some(T)
    <3>1. T \ {c} \in Good /\ c \in S /\ c \in T
      BY <1>1, <2>3, SomeIsIn
    <3>2. b[c] \in Image(T) /\ Image(T) \ {b[c]} = Image(T \ {c})
      BY <3>1
    <3>3. /\ \A y \in Image(T) : g[y] \in Int
          /\ IsFiniteSet(Image(T))
      <4>1. Image(T) = Image(T \ {c}) \cup {b[c]} /\ IsFiniteSet(Image(T \ {c}))
        BY <3>1
      <4>2. IsFiniteSet(Image(T))
        <5>1. PICK rest : rest = Image(T \ {c})
          OBVIOUS
        <5>2. Image(T) = rest \cup {b[c]} /\ IsFiniteSet(rest)
          BY <4>1, <5>1
        <5> HIDE DEF Image, c
        <5> QED BY <5>2, FS_AddElement
      <4> QED BY <4>2
    <3>4. SumOver(Image(T), g) = g[b[c]] + SumOver(Image(T) \ {b[c]}, g)
      <4> HIDE DEF Image, c
      <4> QED BY <3>2, <3>3, SumTakesOut
    <3>5. g[b[c]] = f[c] /\ SumOver(Image(T \ {c}), g) = SumOver(T \ {c}, f)
      BY <3>1
    <3>6. SumOver(T, f) = f[c] + SumOver(T \ {c}, f)
      BY <2>2, <2>3
    <3>7. SumOver(Image(T), g) = SumOver(T, f)
      <4> HIDE DEF Image, c
      <4> QED BY <3>2, <3>4, <3>5, <3>6
    <3> QED BY <3>3, <3>7
  <2>4. CASE T = {}
    <3>1. Image(T) = {} /\ IsFiniteSet(Image(T))
      BY <2>4, FS_EmptySet
    <3> QED BY <2>2, <2>4, <3>1, SumOfNone
  <2> QED BY <2>3, <2>4
<1>2. S \in Good
  <2> HIDE DEF Good
  <2> QED BY <1>1, SubsetInduction
<1> QED BY <1>2

(* A sum in parts, each of what some function takes to one place.           *)
PartAt(S, g, i) == {x \in S : g[x] = i}
LEMMA SumByParts ==
  ASSUME NEW I, IsFiniteSet(I), NEW S, IsFiniteSet(S), NEW f, \A x \in S : f[x] \in Int,
         NEW g, \A x \in S : g[x] \in I,
         NEW h, \A i \in I : h[i] = SumOver(PartAt(S, g, i), f)
  PROVE  SumOver(I, h) = SumOver(S, f)
<1> DEFINE Part(J) == {x \in S : g[x] \in J}
           Good == {J \in SUBSET I : SumOver(J, h) = SumOver(Part(J), f)}
<1>1. ASSUME NEW J \in SUBSET I, \A K \in SUBSET I : K \subseteq J /\ K # J => K \in Good
      PROVE  J \in Good
  <2>1. CASE J = {}
    <3>1. Part(J) = {}
      BY <2>1
    <3> QED BY <2>1, <3>1, SumOfNone
  <2>2. CASE J # {}
    <3>1. PICK j \in J : TRUE
      BY <2>2
    <3>2. PICK K, A, B, C : K = J \ {j} /\ A = Part(J) /\ B = Part(K) /\ C = {x \in S : g[x] = j}
      OBVIOUS
    <3>3. K \in SUBSET I /\ K \subseteq J /\ K # J
      BY <3>1, <3>2
    <3>4. SumOver(K, h) = SumOver(B, f)
      BY <1>1, <3>2, <3>3
    <3>5. IsFiniteSet(J) /\ IsFiniteSet(A) /\ B \in SUBSET A /\ A \ B = C /\ A \subseteq S
      <4>1. A \subseteq S /\ B \in SUBSET A /\ A \ B = C
        BY <3>1, <3>2
      <4> QED BY <4>1, FS_Subset
    <3>6. SumOver(A, f) = SumOver(B, f) + SumOver(C, f)
      <4>1. \A x \in A : f[x] \in Int
        BY <3>5
      <4>2. SumOver(A, f) = SumOver(B, f) + SumOver(A \ B, f)
        BY ONLY <3>5, <4>1, SumSplits
      <4> QED BY <3>5, <4>2
    <3>7. h[j] = SumOver(C, f)
      BY <3>1, <3>2 DEF PartAt
    <3>8. \A i \in J : h[i] \in Int
      <4> SUFFICES ASSUME NEW i \in J PROVE h[i] \in Int
        OBVIOUS
      <4>1. PICK D : D = PartAt(S, g, i)
        OBVIOUS
      <4>2. IsFiniteSet(D) /\ \A x \in D : f[x] \in Int
        BY <4>1, FS_Subset DEF PartAt
      <4>3. SumOver(D, f) \in Int
        BY ONLY <4>2, SumIsInt
      <4> QED BY <4>1, <4>3
    <3>9. SumOver(J, h) = h[j] + SumOver(K, h)
      <4>1. SumOver(J, h) = h[j] + SumOver(J \ {j}, h)
        BY ONLY <3>1, <3>5, <3>8, SumTakesOut
      <4> QED BY <3>2, <4>1
    <3>10. PICK x \in Int, y \in Int : x = SumOver(B, f) /\ y = SumOver(C, f)
      <4>1. (\A z \in B : f[z] \in Int) /\ (\A z \in C : f[z] \in Int)
        BY <3>5
      <4>2. IsFiniteSet(B) /\ IsFiniteSet(C)
        BY <3>5, FS_Subset
      <4> QED BY ONLY <4>1, <4>2, SumIsInt
    <3> QED BY <3>2, <3>4, <3>6, <3>7, <3>9, <3>10
  <2> QED BY <2>1, <2>2
<1>2. I \in Good
  <2> HIDE DEF Good
  <2> QED BY <1>1, SubsetInduction
<1>3. Part(I) = S
  OBVIOUS
<1> QED BY <1>2, <1>3

LEMMA ImageIsFinite ==
  ASSUME NEW S, IsFiniteSet(S), NEW b PROVE IsFiniteSet({b[x] : x \in S})
<1>1. [x \in S |-> b[x]] \in Surjection(S, {b[x] : x \in S})
  BY DEF Surjection
<1> QED BY <1>1, FS_Surjection

(* A factor all terms have.                                                 *)
LEMMA SumTimes ==
  ASSUME NEW S, IsFiniteSet(S), NEW c \in Int, NEW f, NEW g,
         \A x \in S : f[x] \in Int /\ g[x] = f[x] * c
  PROVE  SumOver(S, g) = SumOver(S, f) * c
<1> DEFINE Good == {T \in SUBSET S : SumOver(T, g) = SumOver(T, f) * c}
<1>1. ASSUME NEW T \in SUBSET S, \A U \in SUBSET S : U \subseteq T /\ U # T => U \in Good
      PROVE  T \in Good
  <2>1. IsFiniteSet(T) /\ IsFiniteSet(T \ {Some(T)})
    BY FS_Subset
  <2>2. /\ SumOver(T, f) = IF T = {} THEN 0 ELSE f[Some(T)] + SumOver(T \ {Some(T)}, f)
        /\ SumOver(T, g) = IF T = {} THEN 0 ELSE g[Some(T)] + SumOver(T \ {Some(T)}, g)
    BY <2>1, SumUnfolds
  <2>3. CASE T # {}
    <3>1. T \ {Some(T)} \in Good /\ Some(T) \in S
      BY <1>1, <2>3, SomeIsIn
    <3>2. PICK x \in Int, y \in Int : x = f[Some(T)] /\ y = SumOver(T \ {Some(T)}, f)
      BY <2>1, <3>1, SumIsInt
    <3>3. SumOver(T, g) = x * c + y * c /\ SumOver(T, f) = x + y
      BY <2>2, <2>3, <3>1, <3>2
    <3>4. x * c + y * c = (x + y) * c
      BY ONLY x \in Int, y \in Int, c \in Int
    <3> QED BY <3>3, <3>4
  <2>4. CASE T = {}
    BY <2>2, <2>4
  <2> QED BY <2>3, <2>4
<1>2. S \in Good
  <2> HIDE DEF Good
  <2> QED BY <1>1, SubsetInduction
<1> QED BY <1>2

(* A table summed by rows or by columns.                                    *)
Transposed(S, T, f, g) == \A x \in S, y \in T : f[x][y] \in Int /\ g[y][x] = f[x][y]
SumsOf(S, T, f, rows)  == \A x \in S : rows[x] = SumOver(T, f[x])
LEMMA SumExchanged ==
  ASSUME NEW S, IsFiniteSet(S), NEW T, IsFiniteSet(T), NEW f, NEW g, Transposed(S, T, f, g),
         NEW rows, SumsOf(S, T, f, rows), NEW columns, SumsOf(T, S, g, columns)
  PROVE  SumOver(S, rows) = SumOver(T, columns)
<1>0. /\ \A x \in S, y \in T : f[x][y] \in Int /\ g[y][x] = f[x][y]
      /\ \A x \in S : rows[x] = SumOver(T, f[x])
      /\ \A y \in T : columns[y] = SumOver(S, g[y])
  BY DEF Transposed, SumsOf
<1> DEFINE Part(J) == [y \in T |-> SumOver(J, g[y])]
           Good == {J \in SUBSET S : SumOver(J, rows) = SumOver(T, Part(J))}
<1>1. ASSUME NEW J \in SUBSET S, \A K \in SUBSET S : K \subseteq J /\ K # J => K \in Good
      PROVE  J \in Good
  <2>1. CASE J = {}
    <3>1. \A y \in T : Part(J)[y] = 0
      BY <2>1, SumOfNone
    <3>2. SumOver(T, Part(J)) = 0
      BY ONLY <3>1, IsFiniteSet(T), SumOfZeros
    <3> QED BY <2>1, <3>2, SumOfNone
  <2>2. CASE J # {}
    <3>1. PICK j \in J : TRUE
      BY <2>2
    <3>2. PICK K, p, q : K = J \ {j} /\ p = Part(J) /\ q = Part(K)
      OBVIOUS
    <3>3. SumOver(K, rows) = SumOver(T, q) /\ IsFiniteSet(J) /\ IsFiniteSet(K) /\ K \subseteq S
      <4>1. K \in SUBSET S /\ K \subseteq J /\ K # J
        BY <3>1, <3>2
      <4> QED BY <1>1, <3>2, <4>1, FS_Subset
    <3>4. \A x \in J : rows[x] \in Int
      <4> SUFFICES ASSUME NEW x \in J PROVE rows[x] \in Int
        OBVIOUS
      <4>1. \A y \in T : f[x][y] \in Int
        BY <1>0
      <4>2. SumOver(T, f[x]) \in Int
        BY ONLY <4>1, IsFiniteSet(T), SumIsInt
      <4> QED BY <1>0, <4>2
    <3>5. SumOver(J, rows) = rows[j] + SumOver(K, rows)
      <4>1. SumOver(J, rows) = rows[j] + SumOver(J \ {j}, rows)
        BY ONLY <3>1, <3>3, <3>4, SumTakesOut
      <4> QED BY <3>2, <4>1
    <3>6. \A y \in T : f[j][y] \in Int /\ q[y] \in Int /\ p[y] = f[j][y] + q[y]
      <4> SUFFICES ASSUME NEW y \in T
                   PROVE  f[j][y] \in Int /\ q[y] \in Int /\ p[y] = f[j][y] + q[y]
        OBVIOUS
      <4>1. (\A x \in J : g[y][x] \in Int) /\ (\A x \in K : g[y][x] \in Int)
        BY <1>0, <3>3
      <4>2. PICK h : h = g[y]
        OBVIOUS
      <4>3. SumOver(J, h) = h[j] + SumOver(J \ {j}, h) /\ SumOver(K, h) \in Int
        BY ONLY <3>1, <3>3, <4>1, <4>2, SumTakesOut, SumIsInt
      <4> QED BY <1>0, <3>1, <3>2, <4>2, <4>3
    <3>7. SumOver(T, p) = SumOver(T, f[j]) + SumOver(T, q)
      <4>1. PICK h : h = f[j]
        OBVIOUS
      <4> QED BY ONLY <3>6, <4>1, IsFiniteSet(T), SumOfSums
    <3>8. rows[j] = SumOver(T, f[j])
      BY <1>0, <3>1
    <3> QED BY <3>2, <3>3, <3>5, <3>7, <3>8
  <2> QED BY <2>1, <2>2
<1>2. S \in Good
  <2> HIDE DEF Good
  <2> QED BY <1>1, SubsetInduction
<1>3. SumOver(S, rows) = SumOver(T, Part(S))
  BY <1>2
<1>4. SumOver(T, Part(S)) = SumOver(T, columns)
  <2>1. \A y \in T : Part(S)[y] = columns[y]
    BY <1>0
  <2> QED BY ONLY <2>1, IsFiniteSet(T), SumAgrees
<1> QED BY <1>3, <1>4

(* A sum over pairs, first by first.                                        *)
OfPairs(S, T, f, rows) ==
    \A x \in S : /\ \A y \in T : f[<<x, y>>] \in Int
                 /\ rows[x] = SumOver(T, [y \in T |-> f[<<x, y>>]])
LEMMA SumOverPairs ==
  ASSUME NEW S, IsFiniteSet(S), NEW T, IsFiniteSet(T),
         NEW f, NEW rows, OfPairs(S, T, f, rows)
  PROVE  SumOver(S \X T, f) = SumOver(S, rows)
<1>0. /\ \A x \in S, y \in T : f[<<x, y>>] \in Int
      /\ \A x \in S : rows[x] = SumOver(T, [y \in T |-> f[<<x, y>>]])
  BY DEF OfPairs
<1>1. PICK X, key : X = S \X T /\ key = [x \in X |-> x[1]]
  OBVIOUS
<1>2. IsFiniteSet(X) /\ (\A x \in X : f[x] \in Int) /\ (\A x \in X : key[x] \in S)
  BY <1>0, <1>1, FS_Product
<1>3. \A x \in S : rows[x] = SumOver(PartAt(X, key, x), f)
  <2> SUFFICES ASSUME NEW x \in S PROVE rows[x] = SumOver(PartAt(X, key, x), f)
    OBVIOUS
  <2>1. PICK b, h : b = [y \in T |-> <<x, y>>] /\ h = [y \in T |-> f[<<x, y>>]]
    OBVIOUS
  <2>2. PartAt(X, key, x) = {b[y] : y \in T}
    BY <1>1, <2>1 DEF PartAt
  <2>3. \A y \in T : h[y] \in Int /\ f[b[y]] = h[y]
    BY <1>0, <2>1
  <2>4. \A y, z \in T : b[y] = b[z] => y = z
    BY <2>1
  <2>5. SumOver({b[y] : y \in T}, f) = SumOver(T, h)
    BY ONLY <2>3, <2>4, IsFiniteSet(T), SumRenamed
  <2> QED BY <1>0, <2>1, <2>2, <2>5
<1>4. SumOver(S, rows) = SumOver(X, f)
  BY ONLY <1>2, <1>3, IsFiniteSet(S), SumByParts
<1> QED BY <1>1, <1>4

(* Two sets that share nothing.                                             *)
LEMMA SumOfBoth ==
  ASSUME NEW A, IsFiniteSet(A), NEW B, IsFiniteSet(B), A \cap B = {},
         NEW f, \A x \in A \cup B : f[x] \in Int
  PROVE  SumOver(A \cup B, f) = SumOver(A, f) + SumOver(B, f)
<1>1. PICK S : S = A \cup B
  OBVIOUS
<1>2. IsFiniteSet(S) /\ A \in SUBSET S /\ S \ A = B /\ \A x \in S : f[x] \in Int
  BY <1>1, FS_Union
<1>3. SumOver(S, f) = SumOver(A, f) + SumOver(S \ A, f)
  BY ONLY <1>2, SumSplits
<1> QED BY <1>1, <1>2, <1>3

(* No term exceeds a sum of what is never negative.                         *)
LEMMA TermAtMostSum ==
  ASSUME NEW S, IsFiniteSet(S), NEW f, \A x \in S : f[x] \in Nat, NEW x \in S
  PROVE  f[x] <= SumOver(S, f)
<1>1. {x} \in SUBSET S /\ f[x] \in Int
  OBVIOUS
<1>2. SumOver({x}, f) <= SumOver(S, f)
  BY ONLY <1>1, IsFiniteSet(S), \A y \in S : f[y] \in Nat, SumOfPartAtMost
<1>3. SumOver({x}, f) = f[x]
  BY <1>1, SumOfOne
<1> QED BY <1>2, <1>3
=============================================================================
