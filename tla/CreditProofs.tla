---------------------------- MODULE CreditProofs ----------------------------
(***************************************************************************)
(* The ledger of pallets owed, for every value of the constants: read by   *)
(* item it says what it says by return, by order and by hand-back, and it  *)
(* is never taken below zero.                                              *)
(*                                                                         *)
(* What is taken back of a return's surplus is what remains of it when the *)
(* oldest surplus goes out first; so what remains over all returns has to  *)
(* be what is owed, whatever corrections have done to the places surplus   *)
(* goes out in. A deleted return of a visit takes the visit's surplus with *)
(* it, whichever return of the visit carries it by then. And a correction  *)
(* keeps the place of what it replaces, so what has gone out stays where   *)
(* it is.                                                                  *)
(***************************************************************************)
EXTENDS PalletProofs

LEMMA SmallestCount ==
  ASSUME NEW M \in Nat, NEW S \in SUBSET (0 .. M), S # {}
  PROVE  Min(S) \in S /\ \A n \in S : Min(S) <= n
<1>1. PICK T : T = {M - n : n \in S}
  OBVIOUS
<1>2. T \in SUBSET (0 .. M) /\ T # {}
  <2>1. \A n \in S : M - n \in 0 .. M
    OBVIOUS
  <2> QED BY <1>1, <2>1
<1>3. Max(T) \in T /\ \A n \in T : n <= Max(T)
  BY <1>2, LargestCount
<1>4. PICK m \in S : Max(T) = M - m
  BY <1>1, <1>3
<1>5. \A n \in S : m <= n
  <2> SUFFICES ASSUME NEW n \in S PROVE m <= n
    OBVIOUS
  <2>1. M - n \in T
    BY <1>1
  <2>2. M - n <= M - m
    BY <1>3, <1>4, <2>1
  <2>3. n \in Int /\ m \in Int
    OBVIOUS
  <2> QED BY <2>2, <2>3
<1> QED BY <1>5 DEF Min

-----------------------------------------------------------------------------
(* The place of a return's surplus is a return: its own, or that of the     *)
(* oldest correction behind it.                                             *)
Behind(i, r) == {q \in Replaced(r) : q < r /\ i \in credited[q]}
Places(i, place, T) ==
    place = [r \in T |-> IF Behind(i, r) = {} THEN r ELSE place[Min(Behind(i, r))]]

LEMMA PlaceIsChosen ==
  ASSUME NEW i PROVE Place(i) = CHOOSE place : Places(i, place, ReturnIds)
BY DEF Place, Places, Behind

LEMMA BehindIsBefore ==
  ASSUME NEW i, NEW r \in ReturnIds, Behind(i, r) # {}
  PROVE  Min(Behind(i, r)) \in ReturnIds /\ Min(Behind(i, r)) < r
<1>1. Behind(i, r) \subseteq ReturnIds /\ \A q \in Behind(i, r) : q < r
  BY DEF Behind, Replaced
<1>2. Behind(i, r) \in SUBSET (0 .. MaxReturns)
  BY <1>1, BoundsAssumption DEF ReturnIds
<1>3. Min(Behind(i, r)) \in Behind(i, r)
  BY <1>2, BoundsAssumption, SmallestCount
<1> QED BY <1>1, <1>3

ClosedBelow(T) == \A r \in T, q \in ReturnIds : q < r => q \in T

LEMMA LastOut ==
  ASSUME NEW T \in SUBSET ReturnIds, T # {}, ClosedBelow(T)
  PROVE  \E m \in T : /\ \A r \in T : r <= m
                      /\ T \ {m} \in SUBSET ReturnIds /\ ClosedBelow(T \ {m})
<1>1. T \in SUBSET (0 .. MaxReturns)
  BY BoundsAssumption DEF ReturnIds
<1>2. PICK m \in T : \A r \in T : r <= m
  BY <1>1, BoundsAssumption, LargestCount
<1>3. \A r \in T : r \in Int
  BY <1>1
<1>4. ClosedBelow(T \ {m})
  <2> SUFFICES ASSUME NEW r \in T \ {m}, NEW q \in ReturnIds, q < r PROVE q \in T \ {m}
    BY DEF ClosedBelow
  <2>1. q \in T /\ r <= m /\ r # m
    BY <1>2 DEF ClosedBelow
  <2>2. q # m
    BY <1>3, <2>1
  <2> QED BY <2>1, <2>2
<1> QED BY <1>2, <1>4

LEMMA PlacesExist ==
  ASSUME NEW i PROVE Places(i, Place(i), ReturnIds)
<1> DEFINE Good == {T \in SUBSET ReturnIds : ClosedBelow(T) => \E place : Places(i, place, T)}
<1>1. ASSUME NEW T \in SUBSET ReturnIds,
             \A U \in SUBSET ReturnIds : U \subseteq T /\ U # T => U \in Good
      PROVE  T \in Good
  <2> SUFFICES ASSUME ClosedBelow(T) PROVE \E place : Places(i, place, T)
    OBVIOUS
  <2>1. CASE T = {}
    <3>1. Places(i, [r \in T |-> r], T)
      BY <2>1 DEF Places
    <3> QED BY <3>1
  <2>2. CASE T # {}
    <3>1. PICK m \in T : /\ \A r \in T : r <= m
                         /\ T \ {m} \in SUBSET ReturnIds /\ ClosedBelow(T \ {m})
      BY <2>2, LastOut
    <3>2. PICK g : Places(i, g, T \ {m})
      <4>1. T \ {m} \in Good
        BY <1>1, <3>1
      <4> QED BY <3>1, <4>1
    <3> DEFINE at(h, r) == IF Behind(i, r) = {} THEN r ELSE h[Min(Behind(i, r))]
               f == [r \in T |-> IF r = m THEN at(g, m) ELSE g[r]]
    <3>3. \A r \in T \ {m} : g[r] = at(g, r)
      BY <3>2 DEF Places
    <3>4. ASSUME NEW r \in T, Behind(i, r) # {}
          PROVE  f[Min(Behind(i, r))] = g[Min(Behind(i, r))]
      <4>1. PICK b : b = Min(Behind(i, r)) /\ b \in ReturnIds /\ b < r
        BY <3>4, BehindIsBefore
      <4>2. b \in T
        BY <4>1 DEF ClosedBelow
      <4>3. r <= m /\ r \in Int /\ b \in Int /\ m \in Int
        BY <3>1, <4>1 DEF ReturnIds
      <4>4. b # m
        BY <4>1, <4>3
      <4> QED BY <4>1, <4>2, <4>4
    <3>5. \A r \in T : f[r] = at(g, r)
      BY <3>3
    <3>6. \A r \in T : at(f, r) = at(g, r)
      <4> HIDE DEF f
      <4> QED BY <3>4
    <3>7. Places(i, f, T)
      <4>1. \A r \in T : f[r] = at(f, r)
        <5> HIDE DEF f, at
        <5> QED BY <3>5, <3>6
      <4>2. f = [r \in T |-> f[r]]
        OBVIOUS
      <4>3. [r \in T |-> f[r]] = [r \in T |-> at(f, r)]
        <5> HIDE DEF f, at
        <5> QED BY <4>1
      <4>4. f = [r \in T |-> at(f, r)]
        <5> HIDE DEF f, at
        <5> QED BY <4>2, <4>3
      <4> HIDE DEF f
      <4> QED BY <4>4 DEF Places
    <3> QED BY <3>7
  <2> QED BY <2>1, <2>2
<1>2. ReturnIds \in Good
  <2> HIDE DEF Good
  <2> QED BY <1>1, RowsAreFinite, SubsetInduction
<1>3. \E place : Places(i, place, ReturnIds)
  BY <1>2 DEF ClosedBelow
<1> QED BY <1>3, PlaceIsChosen

LEMMA PlaceIsReturn ==
  ASSUME NEW i PROVE \A r \in ReturnIds : Place(i)[r] \in ReturnIds
<1> DEFINE P == Place(i)
           Good == {T \in SUBSET ReturnIds : ClosedBelow(T) => \A r \in T : P[r] \in ReturnIds}
<1>1. ASSUME NEW T \in SUBSET ReturnIds,
             \A U \in SUBSET ReturnIds : U \subseteq T /\ U # T => U \in Good
      PROVE  T \in Good
  <2> SUFFICES ASSUME ClosedBelow(T), NEW s \in T PROVE P[s] \in ReturnIds
    OBVIOUS
  <2>1. PICK m \in T : /\ \A r \in T : r <= m
                       /\ T \ {m} \in SUBSET ReturnIds /\ ClosedBelow(T \ {m})
    BY LastOut
  <2>2. \A r \in T \ {m} : P[r] \in ReturnIds
    <3>1. T \ {m} \in Good
      BY <1>1, <2>1
    <3> QED BY <2>1, <3>1
  <2>3. P[m] = IF Behind(i, m) = {} THEN m ELSE P[Min(Behind(i, m))]
    <3>1. Places(i, P, ReturnIds)
      BY PlacesExist
    <3> HIDE DEF P
    <3> QED BY <3>1 DEF Places
  <2>4. Behind(i, m) # {} => Min(Behind(i, m)) \in T \ {m}
    <3> SUFFICES ASSUME Behind(i, m) # {} PROVE Min(Behind(i, m)) \in T \ {m}
      OBVIOUS
    <3>1. PICK b : b = Min(Behind(i, m)) /\ b \in ReturnIds /\ b < m
      BY BehindIsBefore
    <3>2. m \in Int /\ b \in Int /\ b \in T
      BY <3>1 DEF ReturnIds, ClosedBelow
    <3> QED BY <3>1, <3>2
  <2> HIDE DEF P
  <2>5. P[m] \in ReturnIds
    BY <2>2, <2>3, <2>4
  <2> QED BY <2>2, <2>5
<1>2. ReturnIds \in Good
  <2> HIDE DEF Good
  <2> QED BY <1>1, RowsAreFinite, SubsetInduction
<1> QED BY <1>2 DEF ClosedBelow
-----------------------------------------------------------------------------
(* Surplus goes out in the order of its places: of what is gone each takes  *)
(* what those before it leave, so that what remains adds up to what is owed.*)
Before(place, q, r) == \/ place[q] < place[r]
                       \/ place[q] = place[r] /\ q < r
OlderIn(place, T, r) == {q \in T : Before(place, q, r)}

LEMMA LastPlaced ==
  ASSUME NEW S, IsFiniteSet(S), S \subseteq Int, NEW place, \A r \in S : place[r] \in Int
  PROVE  \A T \in SUBSET S : T # {} => \E m \in T : \A q \in T \ {m} : Before(place, q, m)
<1> DEFINE Good == {T \in SUBSET S :
                      T # {} => \E m \in T : \A q \in T \ {m} : Before(place, q, m)}
<1>1. ASSUME NEW T \in SUBSET S,
             \A U \in SUBSET S : U \subseteq T /\ U # T => U \in Good
      PROVE  T \in Good
  <2> SUFFICES ASSUME T # {} PROVE \E m \in T : \A q \in T \ {m} : Before(place, q, m)
    OBVIOUS
  <2>1. PICK x \in T : TRUE
    OBVIOUS
  <2>2. T \ {x} \in Good
    BY <1>1, <2>1
  <2>3. CASE T \ {x} = {}
    BY <2>1, <2>3
  <2>4. CASE T \ {x} # {}
    <3>1. PICK m \in T \ {x} : \A q \in (T \ {x}) \ {m} : Before(place, q, m)
      BY <2>2, <2>4
    <3>2. Before(place, x, m) \/ Before(place, m, x)
      <4>1. x \in Int /\ m \in Int /\ place[x] \in Int /\ place[m] \in Int /\ x # m
        BY <2>1
      <4> QED BY <4>1 DEF Before
    <3>3. CASE Before(place, x, m)
      BY <3>1, <3>3
    <3>4. CASE Before(place, m, x)
      <4>1. ASSUME NEW q \in T \ {x} PROVE Before(place, q, x)
        <5>1. CASE q = m
          BY <3>4, <5>1
        <5>2. CASE q # m
          <6>1. Before(place, q, m)
            BY <3>1, <5>2
          <6>2. /\ place[q] \in Int /\ place[m] \in Int /\ place[x] \in Int
                /\ q \in Int /\ m \in Int /\ x \in Int
            BY <2>1, <3>1
          <6> QED BY <3>4, <6>1, <6>2 DEF Before
        <5> QED BY <5>1, <5>2
      <4> QED BY <2>1, <4>1
    <3> QED BY <3>2, <3>3, <3>4
  <2> QED BY <2>3, <2>4
<1>2. \A T \in SUBSET S : T \in Good
  <2> HIDE DEF Good
  <2> QED BY <1>1, SubsetInduction
<1> QED BY <1>2

Gone(place, T, left, gone) ==
    [r \in T |-> LesserOf(ZeroOrMore(gone - SumOver(OlderIn(place, T, r), left)), left[r])]

LEMMA GoneInOrder ==
  ASSUME NEW S, IsFiniteSet(S), S \subseteq Int, NEW place, \A r \in S : place[r] \in Int,
         NEW left, \A r \in S : left[r] \in Nat, NEW gone \in Nat
  PROVE  SumOver(S, Gone(place, S, left, gone)) = LesserOf(gone, SumOver(S, left))
<1> DEFINE Good == {T \in SUBSET S : SumOver(T, Gone(place, T, left, gone))
                                       = LesserOf(gone, SumOver(T, left))}
<1>1. ASSUME NEW T \in SUBSET S,
             \A U \in SUBSET S : U \subseteq T /\ U # T => U \in Good
      PROVE  T \in Good
  <2>1. CASE T = {}
    <3>1. SumOver(T, Gone(place, T, left, gone)) = 0 /\ SumOver(T, left) = 0
      BY <2>1, SumOfNone
    <3> QED BY <3>1 DEF LesserOf
  <2>2. CASE T # {}
    <3>1. PICK m \in T : \A q \in T \ {m} : Before(place, q, m)
      BY <2>2, LastPlaced
    <3>2. PICK U : U = T \ {m}
      OBVIOUS
    <3>3. U \in SUBSET S /\ U \subseteq T /\ U # T /\ m \notin U
      BY <3>2
    <3>4. SumOver(U, Gone(place, U, left, gone)) = LesserOf(gone, SumOver(U, left))
      BY <1>1, <3>3
    <3>5. \A q \in T : q \in Int /\ place[q] \in Int
      OBVIOUS
    <3>6. OlderIn(place, T, m) = U
      <4>1. ~ Before(place, m, m)
        BY <3>5 DEF Before
      <4> QED BY <3>1, <3>2, <4>1 DEF OlderIn
    <3>7. ASSUME NEW r \in U PROVE OlderIn(place, T, r) = OlderIn(place, U, r)
      <4>1. ~ Before(place, m, r)
        <5>1. Before(place, r, m)
          BY <3>1, <3>2
        <5>2. r \in Int /\ m \in Int /\ place[r] \in Int /\ place[m] \in Int
          BY <3>2, <3>5
        <5> QED BY <5>1, <5>2 DEF Before
      <4> QED BY <3>2, <4>1 DEF OlderIn
    <3>8. PICK f, g : f = Gone(place, T, left, gone) /\ g = Gone(place, U, left, gone)
      OBVIOUS
    <3>9. \A r \in U : f[r] = g[r]
      BY <3>3, <3>7, <3>8 DEF Gone
    <3>10. f[m] = LesserOf(ZeroOrMore(gone - SumOver(U, left)), left[m])
      BY <3>6, <3>8 DEF Gone
    <3>11. IsFiniteSet(T) /\ IsFiniteSet(U)
      BY <3>3, FS_Subset
    <3>12. SumOver(U, left) \in Nat
      BY <3>3, <3>11, SumIsNat
    <3>13. SumOver(T, left) = left[m] + SumOver(U, left)
      <4>1. \A r \in T : left[r] \in Int
        OBVIOUS
      <4> QED BY <3>2, <3>11, <4>1, SumTakesOut
    <3>14. SumOver(T, f) = f[m] + SumOver(U, f)
      <4>1. \A r \in T : f[r] \in Int
        <5> SUFFICES ASSUME NEW r \in T PROVE f[r] \in Int
          OBVIOUS
        <5>1. SumOver(OlderIn(place, T, r), left) \in Int
          <6>1. OlderIn(place, T, r) \subseteq T
            BY DEF OlderIn
          <6>2. IsFiniteSet(OlderIn(place, T, r))
            BY <3>11, <6>1, FS_Subset
          <6>3. \A q \in OlderIn(place, T, r) : left[q] \in Int
            <7>1. \A q \in T : left[q] \in Int
              OBVIOUS
            <7> QED BY <6>1, <7>1
          <6> QED BY <6>2, <6>3, SumIsInt
        <5>2. f[r] = LesserOf(ZeroOrMore(gone - SumOver(OlderIn(place, T, r), left)), left[r])
          BY <3>8 DEF Gone
        <5>3. left[r] \in Nat
          OBVIOUS
        <5> QED BY <5>1, <5>2, <5>3 DEF LesserOf, ZeroOrMore
      <4> QED BY <3>2, <3>11, <4>1, SumTakesOut
    <3>15. SumOver(U, f) = SumOver(U, g)
      BY <3>9, <3>11, SumAgrees
    <3>16. left[m] \in Nat
      OBVIOUS
    <3>17. SumOver(T, f) = LesserOf(gone, SumOver(T, left))
      BY <3>4, <3>8, <3>10, <3>12, <3>13, <3>14, <3>15, <3>16 DEF LesserOf, ZeroOrMore
    <3> QED BY <3>8, <3>17
  <2> QED BY <2>1, <2>2
<1>2. S \in Good
  <2> HIDE DEF Good
  <2> QED BY <1>1, SubsetInduction
<1> QED BY <1>2

(* So what remains of all surplus of an item is what is owed of it, and of  *)
(* some of the returns no more.                                             *)
SurplusSum(i) == SumOver(ReturnIds, [r \in ReturnIds |-> surplus[r][i]])

LEMMA RemainingAddsUp ==
  ASSUME TypeOK, NEW i \in Items, owing[i] >= 0, owing[i] <= SurplusSum(i)
  PROVE  /\ \A r \in ReturnIds : RemainingByReturn(i)[r] \in 0 .. surplus[r][i]
         /\ SumOver(ReturnIds, RemainingByReturn(i)) = owing[i]
<1> DEFINE place == Place(i)
           left == [r \in ReturnIds |-> surplus[r][i]]
           older == [r \in ReturnIds |->
                       {q \in ReturnIds : \/ place[q] < place[r]
                                          \/ place[q] = place[r] /\ q < r}]
           gone == SumOver(ReturnIds, left) - owing[i]
           used == Gone(place, ReturnIds, left, gone)
<1>1. \A r \in ReturnIds : place[r] \in Int /\ left[r] \in Nat
  BY PlaceIsReturn DEF ReturnIds, TypeOK, Counts
<1>2. owing[i] \in Int /\ SumOver(ReturnIds, left) = SurplusSum(i)
  BY BoundsAssumption DEF TypeOK, Figures, SurplusSum
<1>3. \A r \in ReturnIds : RemainingByReturn(i)[r]
        = left[r] - LesserOf(ZeroOrMore(gone - SumOver(older[r], left)), left[r])
  BY DEF RemainingByReturn
<1>4. RemainingByReturn(i) = [r \in ReturnIds |-> RemainingByReturn(i)[r]]
  BY DEF RemainingByReturn
<1>5. \A r \in ReturnIds : older[r] = OlderIn(place, ReturnIds, r)
  <2> HIDE DEF place
  <2> SUFFICES ASSUME NEW r \in ReturnIds PROVE older[r] = OlderIn(place, ReturnIds, r)
    OBVIOUS
  <2> QED BY DEF OlderIn, Before
<1>6. PICK rem : rem = RemainingByReturn(i)
  OBVIOUS
<1> HIDE DEF place, older
<1>7. \A r \in ReturnIds : rem[r] = left[r] - used[r]
  <2> SUFFICES ASSUME NEW r \in ReturnIds PROVE rem[r] = left[r] - used[r]
    OBVIOUS
  <2>1. used[r] = LesserOf(ZeroOrMore(gone - SumOver(OlderIn(place, ReturnIds, r), left)), left[r])
    BY DEF Gone
  <2> HIDE DEF left, gone, used
  <2> QED BY <1>3, <1>5, <1>6, <2>1
<1>8. ReturnIds \subseteq Int
  BY DEF ReturnIds
<1> HIDE DEF left
<1>9. gone \in Nat
  <2>1. SumOver(ReturnIds, left) \in Nat
    BY <1>1, RowsAreFinite, SumIsNat
  <2> QED BY <1>2, <2>1
<1> HIDE DEF gone
<1>10. SumOver(ReturnIds, used) = LesserOf(gone, SumOver(ReturnIds, left))
  BY <1>1, <1>8, <1>9, RowsAreFinite, GoneInOrder
<1>11. \A r \in ReturnIds : used[r] \in 0 .. left[r]
  <2> SUFFICES ASSUME NEW r \in ReturnIds PROVE used[r] \in 0 .. left[r]
    OBVIOUS
  <2>1. used[r] = LesserOf(ZeroOrMore(gone - SumOver(OlderIn(place, ReturnIds, r), left)), left[r])
    BY DEF Gone
  <2>2. SumOver(OlderIn(place, ReturnIds, r), left) \in Int
    <3>1. OlderIn(place, ReturnIds, r) \subseteq ReturnIds
      BY DEF OlderIn
    <3>2. IsFiniteSet(OlderIn(place, ReturnIds, r))
      BY <3>1, RowsAreFinite, FS_Subset
    <3> QED BY <1>1, <3>1, <3>2, SumIsInt
  <2> HIDE DEF used
  <2> QED BY <1>1, <1>9, <2>1, <2>2 DEF LesserOf, ZeroOrMore
<1> HIDE DEF used
<1>12. \A r \in ReturnIds : rem[r] \in Int /\ used[r] \in Int /\ left[r] = rem[r] + used[r]
  BY <1>1, <1>7, <1>11
<1>13. SumOver(ReturnIds, left) = SumOver(ReturnIds, rem) + SumOver(ReturnIds, used)
  <2>1. PICK S : S = ReturnIds /\ IsFiniteSet(S)
    BY RowsAreFinite
  <2>2. \A r \in S : rem[r] \in Int /\ used[r] \in Int /\ left[r] = rem[r] + used[r]
    BY <1>12, <2>1
  <2>3. SumOver(S, left) = SumOver(S, rem) + SumOver(S, used)
    BY ONLY <2>1, <2>2, SumOfSums
  <2> QED BY <2>1, <2>3
<1>14. /\ SumOver(ReturnIds, left) \in Int /\ SumOver(ReturnIds, rem) \in Int
       /\ SumOver(ReturnIds, used) \in Int
  BY <1>1, <1>12, RowsAreFinite, SumIsInt
<1>15. gone = SumOver(ReturnIds, left) - owing[i]
  BY DEF gone
<1>16. SumOver(ReturnIds, rem) = owing[i]
  <2>1. PICK a, b, c, w : /\ a = SumOver(ReturnIds, left) /\ b = SumOver(ReturnIds, rem)
                          /\ c = SumOver(ReturnIds, used) /\ w = owing[i]
    OBVIOUS
  <2>2. a \in Int /\ b \in Int /\ c \in Int /\ w \in Int /\ w >= 0 /\ gone = a - w /\ a = b + c
    BY <1>2, <1>13, <1>14, <1>15, <2>1
  <2>3. c = LesserOf(gone, a)
    BY <1>10, <2>1
  <2>4. c = gone
    BY <2>2, <2>3 DEF LesserOf
  <2> QED BY <2>1, <2>2, <2>4
<1>17. \A r \in ReturnIds : rem[r] \in 0 .. left[r]
  BY <1>1, <1>7, <1>11
<1> QED BY <1>6, <1>16, <1>17 DEF left
-----------------------------------------------------------------------------
(* What is owed of an item by the rows: surplus not gone out, neither with  *)
(* an order nor by hand.                                                    *)
UsedSum(i) == SumOver(OrderIds, [o \in OrderIds |-> orders[o].used[i]])
HandedOf(h, i) == IF handBacks[h].state = "standing" THEN handBacks[h].quantity[i] ELSE 0
HandedSum(i) == SumOver(HandBackIds, [h \in HandBackIds |-> HandedOf(h, i)])

CreditsAre(i) == owing[i] = SurplusSum(i) - UsedSum(i) - HandedSum(i) /\ owing[i] >= 0
UnusedHaveNone ==
    \A r \in ReturnIds : returns[r].state = "none" => \A i \in Items : surplus[r][i] = 0
CreditsInv == UnusedHaveNone /\ \A i \in Items : CreditsAre(i)

LEMMA CreditTypes ==
  TypeOK => \A i \in Items :
    /\ SurplusSum(i) \in Nat /\ UsedSum(i) \in Nat /\ HandedSum(i) \in Nat /\ owing[i] \in Int
    /\ \A r \in ReturnIds : surplus[r][i] \in Nat
    /\ \A o \in OrderIds : orders[o].used[i] \in Nat
    /\ \A h \in HandBackIds : HandedOf(h, i) \in Nat
<1> SUFFICES ASSUME TypeOK, NEW i \in Items
             PROVE /\ SurplusSum(i) \in Nat /\ UsedSum(i) \in Nat /\ HandedSum(i) \in Nat
                   /\ owing[i] \in Int
                   /\ \A r \in ReturnIds : surplus[r][i] \in Nat
                   /\ \A o \in OrderIds : orders[o].used[i] \in Nat
                   /\ \A h \in HandBackIds : HandedOf(h, i) \in Nat
  OBVIOUS
<1>1. \A r \in ReturnIds : surplus[r][i] \in Nat
  BY DEF TypeOK, Counts
<1>2. \A o \in OrderIds : orders[o].used[i] \in Nat
  BY BoundsAssumption DEF TypeOK, OrderRows
<1>3. \A h \in HandBackIds : HandedOf(h, i) \in Nat
  BY DEF TypeOK, HandBackRows, Counts, HandedOf
<1>4. SurplusSum(i) \in Nat
  <2>1. PICK f : f = [r \in ReturnIds |-> surplus[r][i]]
    OBVIOUS
  <2>2. SumOver(ReturnIds, f) \in Nat
    BY <1>1, <2>1, RowsAreFinite, SumIsNat
  <2> QED BY <2>1, <2>2 DEF SurplusSum
<1>5. UsedSum(i) \in Nat
  <2>1. PICK f : f = [o \in OrderIds |-> orders[o].used[i]]
    OBVIOUS
  <2>2. SumOver(OrderIds, f) \in Nat
    BY <1>2, <2>1, RowsAreFinite, SumIsNat
  <2> QED BY <2>1, <2>2 DEF UsedSum
<1>6. HandedSum(i) \in Nat
  <2>1. PICK f : f = [h \in HandBackIds |-> HandedOf(h, i)]
    OBVIOUS
  <2>2. SumOver(HandBackIds, f) \in Nat
    BY <1>3, <2>1, RowsAreFinite, SumIsNat
  <2> QED BY <2>1, <2>2 DEF HandedSum
<1>7. owing[i] \in Int
  BY BoundsAssumption DEF TypeOK, Figures
<1> QED BY <1>1, <1>2, <1>3, <1>4, <1>5, <1>6, <1>7

LEMMA CreditTypesAfter ==
  (TypeOK => \A i \in Items :
    /\ SurplusSum(i) \in Nat /\ UsedSum(i) \in Nat /\ HandedSum(i) \in Nat /\ owing[i] \in Int
    /\ \A r \in ReturnIds : surplus[r][i] \in Nat
    /\ \A o \in OrderIds : orders[o].used[i] \in Nat
    /\ \A h \in HandBackIds : HandedOf(h, i) \in Nat)'
BY CreditTypes, PTL

(* One order, or one hand-back, changes.                                    *)
LEMMA UsedMoves ==
  ASSUME TypeOK, TypeOK', NEW o \in OrderIds,
         \A k \in OrderIds \ {o} : orders'[k].used = orders[k].used, NEW i \in Items
  PROVE  UsedSum(i)' = UsedSum(i) - orders[o].used[i] + orders'[o].used[i]
<1>1. PICK S, f, g : /\ S = OrderIds /\ IsFiniteSet(S) /\ o \in S
                     /\ f = [k \in OrderIds |-> orders[k].used[i]]
                     /\ g = [k \in OrderIds |-> orders'[k].used[i]]
  BY RowsAreFinite
<1>2. /\ \A k \in S : f[k] \in Int /\ g[k] \in Int
      /\ f[o] = orders[o].used[i] /\ g[o] = orders'[o].used[i]
  BY <1>1, CreditTypes, CreditTypesAfter
<1>3. \A k \in S \ {o} : f[k] = g[k]
  BY <1>1
<1>4. SumOver(S, g) = SumOver(S, f) - f[o] + g[o]
  BY ONLY <1>1, <1>2, <1>3, SumOneChanged
<1>5. UsedSum(i) = SumOver(S, f) /\ UsedSum(i)' = SumOver(S, g)
  BY <1>1 DEF UsedSum
<1> QED BY <1>2, <1>4, <1>5

LEMMA HandedMoves ==
  ASSUME TypeOK, TypeOK', NEW h \in HandBackIds,
         \A k \in HandBackIds \ {h} : handBacks'[k] = handBacks[k], NEW i \in Items
  PROVE  HandedSum(i)' = HandedSum(i) - HandedOf(h, i) + HandedOf(h, i)'
<1>1. PICK S, f, g : /\ S = HandBackIds /\ IsFiniteSet(S) /\ h \in S
                     /\ f = [k \in HandBackIds |-> HandedOf(k, i)]
                     /\ g = [k \in HandBackIds |-> HandedOf(k, i)']
  BY RowsAreFinite
<1>2. /\ \A k \in S : f[k] \in Int /\ g[k] \in Int
      /\ f[h] = HandedOf(h, i) /\ g[h] = HandedOf(h, i)'
  BY <1>1, CreditTypes, CreditTypesAfter
<1>3. \A k \in S \ {h} : f[k] = g[k]
  BY <1>1 DEF HandedOf
<1>4. SumOver(S, g) = SumOver(S, f) - f[h] + g[h]
  BY ONLY <1>1, <1>2, <1>3, SumOneChanged
<1>5. HandedSum(i) = SumOver(S, f) /\ HandedSum(i)' = SumOver(S, g)
  BY <1>1 DEF HandedSum
<1> QED BY <1>2, <1>4, <1>5

LEMMA SameSurplus ==
  ASSUME UNCHANGED surplus, NEW i PROVE SurplusSum(i)' = SurplusSum(i)
BY DEF SurplusSum

LEMMA SameUsed == ASSUME UNCHANGED orders, NEW i PROVE UsedSum(i)' = UsedSum(i)
BY DEF UsedSum

LEMMA SameHanded == ASSUME UNCHANGED handBacks, NEW i PROVE HandedSum(i)' = HandedSum(i)
BY DEF HandedSum, HandedOf

(* So an order, by what it takes of what is owed.                           *)
LEMMA OrderTakes ==
  ASSUME TypeOK, TypeOK', CreditsInv, UNCHANGED <<returns, surplus, handBacks>>,
         NEW o \in OrderIds, \A k \in OrderIds \ {o} : orders'[k].used = orders[k].used,
         \A i \in Items : /\ owing'[i] = owing[i] + (orders[o].used[i] - orders'[o].used[i])
                          /\ orders'[o].used[i] <= owing[i] + orders[o].used[i]
  PROVE  CreditsInv'
<1>1. UnusedHaveNone'
  BY DEF CreditsInv, UnusedHaveNone
<1>2. ASSUME NEW i \in Items PROVE CreditsAre(i)'
  <2>1. UsedSum(i)' = UsedSum(i) - orders[o].used[i] + orders'[o].used[i]
    BY UsedMoves
  <2>2. SurplusSum(i)' = SurplusSum(i) /\ HandedSum(i)' = HandedSum(i)
    BY SameSurplus, SameHanded
  <2>3. /\ SurplusSum(i) \in Nat /\ UsedSum(i) \in Nat /\ HandedSum(i) \in Nat
        /\ owing[i] \in Int /\ orders[o].used[i] \in Nat
    BY CreditTypes
  <2>4. orders'[o].used[i] \in Nat
    BY CreditTypesAfter
  <2>5. owing[i] = SurplusSum(i) - UsedSum(i) - HandedSum(i)
    BY DEF CreditsInv, CreditsAre
  <2>6. PICK u, w : u = orders[o].used[i] /\ w = orders'[o].used[i]
    OBVIOUS
  <2>7. /\ owing'[i] = owing[i] + (u - w) /\ w <= owing[i] + u /\ u \in Nat /\ w \in Nat
        /\ UsedSum(i)' = UsedSum(i) - u + w
    BY <2>1, <2>3, <2>4, <2>6
  <2>8. owing'[i] = SurplusSum(i)' - UsedSum(i)' - HandedSum(i)' /\ owing'[i] >= 0
    BY <2>2, <2>3, <2>5, <2>7
  <2> QED BY <2>8 DEF CreditsAre
<1> QED BY <1>1, <1>2 DEF CreditsInv

LEMMA CreateOrderCredits ==
  ASSUME OutInv, TypeOK', CreditsInv, NEW o \in OrderIds, NEW payment, NEW date,
         NEW requested \in Requests, NEW deposit, NEW override,
         CreateOrder(o, payment, date, requested, deposit, override)
  PROVE  CreditsInv'
<1> DEFINE used == TakenFromOwed(owing, requested)
           lent == Minus(requested, used)
           row  == [state |-> "live", payment |-> payment, date |-> date,
                    quantity |-> lent, deposit |-> Priced(lent, deposit), used |-> used]
<1>0. TypeOK
  BY DEF OutInv, AmountInv, LedgerInv
<1>1. /\ orders' = [orders EXCEPT ![o] = row] /\ orders[o].state = "none"
      /\ UNCHANGED <<returns, surplus, handBacks>>
  BY DEF CreateOrder, NextFree
<1>2. \A i \in Items : owing'[i] = owing[i] + -used[i]
  BY DEF CreateOrder, WriteCredits
<1>3. \A i \in Items : orders[o].used[i] = 0
  BY <1>1 DEF OutInv, UnusedAreBlank, NoOrder
<1>4. \A i \in Items : /\ used[i] \in Int /\ owing[i] \in Int /\ used[i] <= owing[i]
  <2> SUFFICES ASSUME NEW i \in Items
               PROVE used[i] \in Int /\ owing[i] \in Int /\ used[i] <= owing[i]
    OBVIOUS
  <2>1. used[i] = LesserOf(ZeroOrMore(owing[i]), requested[i])
    BY DEF TakenFromOwed
  <2>2. owing[i] \in Int /\ owing[i] >= 0 /\ requested[i] \in Nat
    BY <1>0, CreditTypes, BoundsAssumption DEF CreditsInv, CreditsAre, Requests
  <2> HIDE DEF used
  <2> QED BY <2>1, <2>2 DEF LesserOf, ZeroOrMore
<1>5. /\ orders'[o].used = used
      /\ \A k \in OrderIds \ {o} : orders'[k].used = orders[k].used
  <2>1. row.used = used
    OBVIOUS
  <2> HIDE DEF row, used
  <2> QED BY <1>0, <1>1, <2>1 DEF TypeOK
<1> HIDE DEF used, lent, row
<1>6. \A i \in Items : /\ owing'[i] = owing[i] + (orders[o].used[i] - orders'[o].used[i])
                       /\ orders'[o].used[i] <= owing[i] + orders[o].used[i]
  BY <1>2, <1>3, <1>4, <1>5
<1> QED BY <1>0, <1>1, <1>5, <1>6, OrderTakes

LEMMA EditLinesCredits ==
  ASSUME TypeOK, TypeOK', CreditsInv, NEW o \in OrderIds, NEW date,
         NEW requested \in Requests, NEW deposit, NEW override,
         EditLines(o, date, requested, deposit, override)
  PROVE  CreditsInv'
<1> DEFINE before == orders[o]
           available == Plus([i \in Items |-> Owed(i)], before.used)
           used == TakenFromOwed(available, requested)
           lent == Minus(requested, used)
           row  == [before EXCEPT !.date = date, !.quantity = lent,
                                  !.deposit = Priced(lent, deposit), !.used = used]
<1>0. before \in OrderRows
  BY DEF TypeOK
<1>1. /\ orders' = [orders EXCEPT ![o] = row]
      /\ UNCHANGED <<returns, surplus, handBacks>> /\ WriteCredits(Minus(before.used, used))
  BY DEF EditLines
<1>2. \A i \in Items : owing'[i] = owing[i] + (before.used[i] - used[i])
  <2> HIDE DEF before, used
  <2> QED BY <1>1 DEF WriteCredits, Minus
<1>3. \A i \in Items : /\ used[i] \in Int /\ owing[i] \in Int /\ before.used[i] \in Int
                       /\ used[i] <= owing[i] + before.used[i]
  <2> SUFFICES ASSUME NEW i \in Items
               PROVE /\ used[i] \in Int /\ owing[i] \in Int /\ before.used[i] \in Int
                     /\ used[i] <= owing[i] + before.used[i]
    OBVIOUS
  <2>1. used[i] = LesserOf(ZeroOrMore(available[i]), requested[i])
    BY DEF TakenFromOwed
  <2>2. available[i] = ZeroOrMore(owing[i]) + before.used[i]
    BY DEF Plus, Owed
  <2>3. owing[i] \in Int /\ owing[i] >= 0 /\ requested[i] \in Nat /\ before.used[i] \in Nat
    BY CreditTypes, BoundsAssumption DEF CreditsInv, CreditsAre, Requests
  <2> HIDE DEF used, available, before
  <2> QED BY <2>1, <2>2, <2>3 DEF LesserOf, ZeroOrMore
<1>4. /\ orders'[o].used = used
      /\ \A k \in OrderIds \ {o} : orders'[k].used = orders[k].used
  <2>1. row.used = used
    BY <1>0 DEF OrderRows
  <2> HIDE DEF row, used
  <2> QED BY <1>1, <2>1 DEF TypeOK
<1>5. before.used = orders[o].used
  OBVIOUS
<1> HIDE DEF before, used, lent, row, available
<1>6. \A i \in Items : /\ owing'[i] = owing[i] + (orders[o].used[i] - orders'[o].used[i])
                       /\ orders'[o].used[i] <= owing[i] + orders[o].used[i]
  BY <1>2, <1>3, <1>4, <1>5
<1> QED BY <1>1, <1>4, <1>6, OrderTakes

LEMMA CancelOrderCredits ==
  ASSUME TypeOK, TypeOK', CreditsInv, NEW o \in OrderIds, CancelOrder(o)
  PROVE  CreditsInv'
<1> DEFINE row == [orders[o] EXCEPT !.state = "cancelled", !.used = [i \in Items |-> 0]]
<1>0. orders[o] \in OrderRows
  BY DEF TypeOK
<1>1. /\ orders' = [orders EXCEPT ![o] = row]
      /\ UNCHANGED <<returns, surplus, handBacks>>
  BY DEF CancelOrder
<1>2. \A i \in Items : owing'[i] = owing[i] + orders[o].used[i]
  BY DEF CancelOrder, WriteCredits, OwedAgain
<1>3. \A i \in Items : row.used[i] = 0
  BY <1>0 DEF OrderRows
<1> HIDE DEF row
<1>4. /\ orders'[o] = row
      /\ \A k \in OrderIds \ {o} : orders'[k].used = orders[k].used
  BY <1>1 DEF TypeOK
<1>5. \A i \in Items : /\ owing[i] \in Int /\ owing[i] >= 0 /\ orders[o].used[i] \in Nat
  BY CreditTypes DEF CreditsInv, CreditsAre
<1>6. \A i \in Items : /\ owing'[i] = owing[i] + (orders[o].used[i] - orders'[o].used[i])
                       /\ orders'[o].used[i] <= owing[i] + orders[o].used[i]
  BY <1>2, <1>3, <1>4, <1>5
<1> QED BY <1>1, <1>4, <1>6, OrderTakes

LEMMA SameCredits ==
  ASSUME TypeOK, TypeOK', CreditsInv,
         \A k \in OrderIds : orders'[k].used = orders[k].used,
         \A r \in ReturnIds : returns'[r].state = "none" => returns[r].state = "none",
         UNCHANGED <<surplus, handBacks, owing>>
  PROVE  CreditsInv'
<1>1. UnusedHaveNone'
  BY DEF CreditsInv, UnusedHaveNone
<1>2. ASSUME NEW i \in Items PROVE CreditsAre(i)'
  <2>1. UsedSum(i)' = UsedSum(i)
    <3>1. PICK S, f, g : /\ S = OrderIds /\ IsFiniteSet(S)
                         /\ f = [k \in OrderIds |-> orders[k].used[i]]
                         /\ g = [k \in OrderIds |-> orders'[k].used[i]]
      BY RowsAreFinite
    <3>2. \A k \in S : g[k] = f[k]
      BY <3>1
    <3>3. SumOver(S, g) = SumOver(S, f)
      BY ONLY <3>1, <3>2, SumAgrees
    <3>4. UsedSum(i) = SumOver(S, f) /\ UsedSum(i)' = SumOver(S, g)
      BY <3>1 DEF UsedSum
    <3> QED BY <3>3, <3>4
  <2>2. SurplusSum(i)' = SurplusSum(i) /\ HandedSum(i)' = HandedSum(i)
    BY SameSurplus, SameHanded
  <2> QED BY <2>1, <2>2 DEF CreditsInv, CreditsAre
<1> QED BY <1>1, <1>2 DEF CreditsInv

LEMMA EditHeaderCredits ==
  ASSUME TypeOK, TypeOK', CreditsInv, NEW o \in OrderIds, NEW date, EditHeader(o, date)
  PROVE  CreditsInv'
<1>1. \A k \in OrderIds : orders'[k].used = orders[k].used
  <2>1. \A k \in OrderIds : orders[k] \in OrderRows
    BY DEF TypeOK
  <2>2. orders' = [orders EXCEPT ![o].date = date]
    BY DEF EditHeader
  <2> QED BY <2>1, <2>2 DEF TypeOK, OrderRows
<1>2. UNCHANGED <<returns, surplus, handBacks, owing>>
  BY DEF EditHeader
<1> QED BY <1>1, <1>2, SameCredits

LEMMA HandBackCredits ==
  ASSUME TypeOK, TypeOK', CreditsInv, NEW h, NEW j \in Items, NEW quantity \in Nat,
         HandBack(h, j, quantity)
  PROVE  CreditsInv'
<1> DEFINE row == [state |-> "standing",
                   quantity |-> [k \in Items |-> IF k = j THEN quantity ELSE 0]]
           change == [k \in Items |-> IF k = j THEN -quantity ELSE 0]
<1>1. /\ h \in HandBackIds /\ handBacks[h].state = "none" /\ quantity <= Owed(j)
      /\ handBacks' = [handBacks EXCEPT ![h] = row] /\ WriteCredits(change)
      /\ UNCHANGED <<orders, returns, surplus>>
  BY DEF HandBack, NextFree, MayHandBack
<1>2. UnusedHaveNone'
  BY <1>1 DEF CreditsInv, UnusedHaveNone
<1>3. handBacks'[h] = row /\ \A k \in HandBackIds \ {h} : handBacks'[k] = handBacks[k]
  BY <1>1 DEF TypeOK
<1>4. ASSUME NEW i \in Items PROVE CreditsAre(i)'
  <2>1. HandedSum(i)' = HandedSum(i) - HandedOf(h, i) + HandedOf(h, i)'
    BY <1>1, <1>3, HandedMoves
  <2>2. HandedOf(h, i) = 0 /\ HandedOf(h, i)' = IF i = j THEN quantity ELSE 0
    BY <1>1, <1>3 DEF HandedOf
  <2>3. SurplusSum(i)' = SurplusSum(i) /\ UsedSum(i)' = UsedSum(i)
    BY <1>1, SameSurplus, SameUsed
  <2>4. /\ SurplusSum(i) \in Nat /\ UsedSum(i) \in Nat /\ HandedSum(i) \in Nat
        /\ owing[i] \in Int
    BY CreditTypes
  <2>5. owing[i] = SurplusSum(i) - UsedSum(i) - HandedSum(i) /\ owing[i] >= 0
    BY DEF CreditsInv, CreditsAre
  <2>6. owing'[i] = owing[i] + IF i = j THEN -quantity ELSE 0
    BY <1>1 DEF WriteCredits
  <2>7. i = j => quantity <= owing[i]
    BY <1>1, <2>4, <2>5 DEF Owed, ZeroOrMore
  <2>8. owing'[i] = SurplusSum(i)' - UsedSum(i)' - HandedSum(i)' /\ owing'[i] >= 0
    <3> HIDE DEF row, change
    <3>1. CASE i = j
      BY <2>1, <2>2, <2>3, <2>4, <2>5, <2>6, <2>7, <3>1
    <3>2. CASE i # j
      BY <2>1, <2>2, <2>3, <2>4, <2>5, <2>6, <3>2
    <3> QED BY <3>1, <3>2
  <2> QED BY <2>8 DEF CreditsAre
<1> QED BY <1>2, <1>4 DEF CreditsInv

LEMMA UndoHandBackCredits ==
  ASSUME TypeOK, TypeOK', CreditsInv, NEW h \in HandBackIds, UndoHandBack(h)
  PROVE  CreditsInv'
<1>1. /\ handBacks[h].state = "standing" /\ WriteCredits(handBacks[h].quantity)
      /\ handBacks' = [handBacks EXCEPT ![h].state = "undone"]
      /\ UNCHANGED <<orders, returns, surplus>>
  BY DEF UndoHandBack
<1>2. UnusedHaveNone'
  BY <1>1 DEF CreditsInv, UnusedHaveNone
<1>3. /\ handBacks'[h].state = "undone"
      /\ \A k \in HandBackIds \ {h} : handBacks'[k] = handBacks[k]
  <2>1. handBacks[h] \in HandBackRows
    BY DEF TypeOK
  <2> QED BY <1>1, <2>1 DEF TypeOK, HandBackRows
<1>4. ASSUME NEW i \in Items PROVE CreditsAre(i)'
  <2>1. HandedSum(i)' = HandedSum(i) - HandedOf(h, i) + HandedOf(h, i)'
    BY <1>3, HandedMoves
  <2>2. HandedOf(h, i) = handBacks[h].quantity[i] /\ HandedOf(h, i)' = 0
    BY <1>1, <1>3 DEF HandedOf
  <2>3. SurplusSum(i)' = SurplusSum(i) /\ UsedSum(i)' = UsedSum(i)
    BY <1>1, SameSurplus, SameUsed
  <2>4. /\ SurplusSum(i) \in Nat /\ UsedSum(i) \in Nat /\ HandedSum(i) \in Nat
        /\ owing[i] \in Int /\ HandedOf(h, i) \in Nat
    BY CreditTypes
  <2>5. owing[i] = SurplusSum(i) - UsedSum(i) - HandedSum(i) /\ owing[i] >= 0
    BY DEF CreditsInv, CreditsAre
  <2>6. owing'[i] = owing[i] + HandedOf(h, i)
    BY <1>1, <2>2 DEF WriteCredits
  <2>7. PICK q : q = HandedOf(h, i)
    OBVIOUS
  <2>8. /\ owing'[i] = owing[i] + q /\ q \in Nat
        /\ HandedSum(i)' = HandedSum(i) - q + 0
    BY <2>1, <2>2, <2>4, <2>6, <2>7
  <2>9. owing'[i] = SurplusSum(i)' - UsedSum(i)' - HandedSum(i)' /\ owing'[i] >= 0
    BY <2>3, <2>4, <2>5, <2>8
  <2> QED BY <2>9 DEF CreditsAre
<1> QED BY <1>2, <1>4 DEF CreditsInv
-----------------------------------------------------------------------------
(* What rows take back of an item, counted by the returns they name.        *)
LEMMA TakenByReturn ==
  ASSUME NEW rows \in SUBSET (ReturnIds \X Items), NEW taken,
         \A row \in rows : taken[row] \in Int, NEW i \in Items
  PROVE  SurplusByItem(rows, taken)[i]
           = SumOver(ReturnIds, [r \in ReturnIds |->
                                   IF <<r, i>> \in rows THEN taken[<<r, i>>] ELSE 0])
<1> DEFINE own == {row \in rows : row[2] = i}
           b == [row \in own |-> row[1]]
           g == [r \in ReturnIds |-> IF <<r, i>> \in rows THEN taken[<<r, i>>] ELSE 0]
           P == {b[row] : row \in own}
<1>1. SurplusByItem(rows, taken)[i] = SumOver(own, taken)
  BY DEF SurplusByItem
<1>2. IsFiniteSet(own)
  <2>1. own \subseteq ReturnIds \X Items /\ IsFiniteSet(ReturnIds \X Items)
    BY RowsAreFinite, DataAssumption, FS_Product
  <2> QED BY <2>1, FS_Subset
<1>3. \A row \in own : /\ row = <<row[1], i>> /\ row[1] \in ReturnIds /\ row \in rows
                       /\ b[row] = row[1]
  OBVIOUS
<1>4. \A row \in own : taken[row] \in Int /\ g[b[row]] = taken[row]
  <2> SUFFICES ASSUME NEW row \in own PROVE taken[row] \in Int /\ g[b[row]] = taken[row]
    OBVIOUS
  <2>1. PICK r \in ReturnIds : r = row[1]
    BY <1>3
  <2>2. row = <<r, i>> /\ b[row] = r /\ row \in rows
    BY <1>3, <2>1
  <2>3. g[r] = taken[<<r, i>>]
    BY <2>2
  <2> QED BY <2>2, <2>3
<1>5. \A x, y \in own : b[x] = b[y] => x = y
  BY <1>3
<1>6. P \in SUBSET ReturnIds
  BY <1>3
<1>7. \A r \in ReturnIds : g[r] = IF <<r, i>> \in rows THEN taken[<<r, i>>] ELSE 0
  OBVIOUS
<1>8. \A r \in ReturnIds \ P : g[r] = 0
  <2> SUFFICES ASSUME NEW r \in ReturnIds, <<r, i>> \in rows PROVE r \in P
    BY <1>7
  <2>1. <<r, i>> \in own
    OBVIOUS
  <2>2. b[<<r, i>>] = r
    BY <1>3, <2>1
  <2> HIDE DEF b, own
  <2> QED BY <2>1, <2>2
<1>9. \A r \in P : g[r] \in Int
  <2> SUFFICES ASSUME NEW row \in own PROVE g[b[row]] \in Int
    OBVIOUS
  <2> HIDE DEF own, b, g
  <2> QED BY <1>4
<1> HIDE DEF own, b, g
<1>10. SumOver(P, g) = SumOver(own, taken)
  BY <1>2, <1>4, <1>5, SumRenamed
<1> HIDE DEF P
<1>11. SumOver(ReturnIds, g) = SumOver(P, g)
  BY <1>6, <1>8, <1>9, RowsAreFinite, SumOfPart
<1> QED BY <1>1, <1>10, <1>11 DEF g

(* So it is never more than is owed, where no row takes more than remains.  *)
LEMMA TakenWithinOwed ==
  ASSUME TypeOK, CreditsInv, NEW rows \in SUBSET (ReturnIds \X Items), NEW taken,
         \A row \in rows : /\ taken[row] \in Nat
                           /\ taken[row] <= RemainingByReturn(row[2])[row[1]],
         NEW i \in Items
  PROVE  SurplusByItem(rows, taken)[i] \in Nat /\ SurplusByItem(rows, taken)[i] <= owing[i]
<1>1. PICK S, g, rem : /\ S = ReturnIds /\ IsFiniteSet(S)
                       /\ g = [r \in ReturnIds |->
                                 IF <<r, i>> \in rows THEN taken[<<r, i>>] ELSE 0]
                       /\ rem = RemainingByReturn(i)
  BY RowsAreFinite
<1>2. SurplusByItem(rows, taken)[i] = SumOver(S, g)
  <2>1. \A row \in rows : taken[row] \in Int
    OBVIOUS
  <2>2. SurplusByItem(rows, taken)[i]
          = SumOver(ReturnIds, [r \in ReturnIds |->
                                  IF <<r, i>> \in rows THEN taken[<<r, i>>] ELSE 0])
    BY <2>1, TakenByReturn
  <2> QED BY <1>1, <2>2
<1>3. owing[i] >= 0 /\ owing[i] <= SurplusSum(i)
  <2>1. owing[i] = SurplusSum(i) - UsedSum(i) - HandedSum(i) /\ owing[i] >= 0
    BY DEF CreditsInv, CreditsAre
  <2>2. SurplusSum(i) \in Nat /\ UsedSum(i) \in Nat /\ HandedSum(i) \in Nat
    BY CreditTypes
  <2> QED BY <2>1, <2>2
<1>4. /\ \A r \in ReturnIds : rem[r] \in 0 .. surplus[r][i]
      /\ SumOver(ReturnIds, rem) = owing[i]
  BY <1>1, <1>3, RemainingAddsUp
<1>5. \A r \in S : g[r] \in Nat /\ rem[r] \in Int /\ g[r] <= rem[r]
  <2> SUFFICES ASSUME NEW r \in ReturnIds PROVE g[r] \in Nat /\ rem[r] \in Int /\ g[r] <= rem[r]
    BY <1>1
  <2>0. surplus[r][i] \in Nat
    BY CreditTypes
  <2>1. rem[r] \in Nat
    BY <1>4, <2>0
  <2>2. CASE <<r, i>> \in rows
    <3>1. PICK row : row = <<r, i>>
      OBVIOUS
    <3>2. row[1] = r /\ row[2] = i /\ row \in rows
      BY <2>2, <3>1
    <3>3. g[r] = taken[row]
      BY <1>1, <2>2, <3>1
    <3>4. taken[row] \in Nat /\ taken[row] <= rem[r]
      BY <1>1, <3>2
    <3> QED BY <2>1, <3>3, <3>4
  <2>3. CASE <<r, i>> \notin rows
    <3>1. g[r] = 0
      BY <1>1, <2>3
    <3> QED BY <2>1, <3>1
  <2> QED BY <2>2, <2>3
<1>6. SumOver(S, g) \in Nat
  BY ONLY <1>1, <1>5, SumIsNat
<1>7. SumOver(S, g) <= SumOver(S, rem)
  <2>1. \A r \in S : g[r] \in Int /\ rem[r] \in Int /\ g[r] <= rem[r]
    BY <1>5
  <2> QED BY ONLY <1>1, <2>1, SumAtMost
<1> QED BY <1>1, <1>2, <1>4, <1>6, <1>7

(* Surplus of an item is written on one return, that of the latest order it *)
(* came back on, and taken back of the rows.                                *)
LEMMA CarrierIsNew ==
  ASSUME NEW plan, DOMAIN plan \subseteq OrderIds, NEW i, ReturnsItem(plan, i)
  PROVE  Carrier(plan, i) \in NewIds(plan)
<1>1. PICK S : S = {o \in Written(plan) : i \in BodyItems(plan[o].body)}
  OBVIOUS
<1>2. S \in SUBSET (0 .. MaxOrders) /\ S # {}
  BY <1>1, BoundsAssumption DEF ReturnsItem, Written, OrderIds
<1>3. Max(S) \in S
  BY <1>2, BoundsAssumption, LargestCount
<1>4. Max(S) \in Written(plan) /\ Carrier(plan, i) = NewId(plan, Max(S))
  BY <1>1, <1>3 DEF Carrier
<1> QED BY <1>4 DEF NewIds

LEMMA SurplusMoves ==
  ASSUME TypeOK, TypeOK', NEW plan, DOMAIN plan \subseteq OrderIds,
         NewIds(plan) \subseteq ReturnIds,
         NEW extra, \A k \in Items : extra[k] \in Nat,
         \A k \in Items : extra[k] > 0 => ReturnsItem(plan, k),
         NEW rows \in SUBSET (ReturnIds \X Items), NEW taken,
         \A row \in rows : taken[row] \in Int,
         WriteSurplus(plan, extra, rows, taken), NEW i \in Items
  PROVE  SurplusSum(i)' = SurplusSum(i) + extra[i] - SurplusByItem(rows, taken)[i]
<1>1. PICK c : c = Carrier(plan, i)
  OBVIOUS
<1>2. PICK S, f, g, put, out :
         /\ S = ReturnIds /\ IsFiniteSet(S)
         /\ f = [r \in ReturnIds |-> surplus[r][i]]
         /\ g = [r \in ReturnIds |-> surplus'[r][i]]
         /\ put = [r \in ReturnIds |-> IF extra[i] > 0 /\ c = r THEN extra[i] ELSE 0]
         /\ out = [r \in ReturnIds |-> IF <<r, i>> \in rows THEN taken[<<r, i>>] ELSE 0]
  BY RowsAreFinite
<1>3. SurplusSum(i) = SumOver(S, f) /\ SurplusSum(i)' = SumOver(S, g)
  BY <1>2 DEF SurplusSum
<1>4. SurplusByItem(rows, taken)[i] = SumOver(S, out)
  <2>1. SurplusByItem(rows, taken)[i]
          = SumOver(ReturnIds, [r \in ReturnIds |->
                                  IF <<r, i>> \in rows THEN taken[<<r, i>>] ELSE 0])
    BY TakenByReturn
  <2> QED BY <1>2, <2>1
<1>5. \A r \in S : /\ f[r] \in Int /\ g[r] \in Int /\ put[r] \in Int /\ out[r] \in Int
                   /\ g[r] = f[r] + put[r] - out[r]
  <2> SUFFICES ASSUME NEW r \in ReturnIds
               PROVE /\ f[r] \in Int /\ g[r] \in Int /\ put[r] \in Int /\ out[r] \in Int
                     /\ g[r] = f[r] + put[r] - out[r]
    BY <1>2
  <2>1. f[r] \in Int /\ g[r] \in Int
    BY <1>2, CreditTypes, CreditTypesAfter
  <2>2. extra[i] \in Nat
    OBVIOUS
  <2>3. put[r] = (IF extra[i] > 0 /\ c = r THEN extra[i] ELSE 0) /\ put[r] \in Int
    BY <1>2, <2>2
  <2>4. out[r] = (IF <<r, i>> \in rows THEN taken[<<r, i>>] ELSE 0) /\ out[r] \in Int
    BY <1>2
  <2>5. surplus'[r][i] = surplus[r][i] + put[r] - out[r]
    BY <1>1, <2>3, <2>4 DEF WriteSurplus
  <2> QED BY <1>2, <2>1, <2>3, <2>4, <2>5
<1>6. SumOver(S, put) = extra[i]
  <2>1. CASE extra[i] > 0
    <3>1. c \in ReturnIds
      BY <1>1, <2>1, CarrierIsNew
    <3>2. {c} \in SUBSET S /\ put[c] = extra[i] /\ \A r \in S \ {c} : put[r] = 0
      BY <1>2, <2>1, <3>1
    <3>3. \A r \in {c} : put[r] \in Int
      BY <1>2, <1>5, <3>1
    <3>4. SumOver(S, put) = SumOver({c}, put)
      BY ONLY <1>2, <3>2, <3>3, SumOfPart
    <3>5. SumOver({c}, put) = put[c]
      BY <3>3, SumOfOne
    <3> QED BY <3>2, <3>4, <3>5
  <2>2. CASE ~ (extra[i] > 0)
    <3>1. \A r \in S : put[r] = 0
      BY <1>2, <2>2
    <3>2. SumOver(S, put) = 0
      BY ONLY <1>2, <3>1, SumOfZeros
    <3>3. extra[i] \in Nat
      OBVIOUS
    <3> QED BY <2>2, <3>2, <3>3
  <2> QED BY <2>1, <2>2
<1>7. PICK h : h = [r \in S |-> f[r] + put[r]]
  OBVIOUS
<1>8. SumOver(S, h) = SumOver(S, f) + SumOver(S, put)
  <2>1. \A r \in S : f[r] \in Int /\ put[r] \in Int /\ h[r] = f[r] + put[r]
    BY <1>5, <1>7
  <2> QED BY ONLY <1>2, <2>1, SumOfSums
<1>9. SumOver(S, h) = SumOver(S, g) + SumOver(S, out)
  <2>1. \A r \in S : g[r] \in Int /\ out[r] \in Int /\ h[r] = g[r] + out[r]
    BY <1>5, <1>7
  <2>2. IsFiniteSet(S)
    BY <1>2
  <2> QED BY ONLY <2>1, <2>2, SumOfSums
<1>10. /\ SumOver(S, f) \in Int /\ SumOver(S, g) \in Int
       /\ SumOver(S, put) \in Int /\ SumOver(S, out) \in Int
  <2>1. \A r \in S : f[r] \in Int /\ g[r] \in Int /\ put[r] \in Int /\ out[r] \in Int
    BY <1>5
  <2> QED BY ONLY <1>2, <2>1, SumIsInt
<1> QED BY ONLY <1>3, <1>4, <1>6, <1>8, <1>9, <1>10

(* No return not written yet has any.                                       *)
LEMMA UnusedWritten ==
  ASSUME LedgerInv, TypeOK', UnusedHaveNone, NEW plan, PlanFits(plan),
         NEW date, NEW withOrder, NEW visit, WriteReturns(plan, date, withOrder, visit)
  PROVE  /\ DOMAIN plan \subseteq OrderIds /\ NewIds(plan) \subseteq ReturnIds
         /\ \A r \in ReturnIds : returns'[r].state = "none"
                => returns[r].state = "none" /\ r \notin NewIds(plan)
<1>1. DOMAIN plan \subseteq OrderIds /\ TypeOK
  BY DEF PlanFits, Live, LedgerInv
<1>2. NewIds(plan) \subseteq ReturnIds
  BY PlanRows
<1>3. ASSUME NEW r \in ReturnIds, returns'[r].state = "none"
      PROVE  returns[r].state = "none" /\ r \notin NewIds(plan)
  <2>1. r \notin NewIds(plan)
    <3>1. PICK N : N = NewIds(plan)
      OBVIOUS
    <3>2. StandingReturns' = (StandingReturns \ TakenBack(plan)) \cup N
      BY <3>1, PlanRows
    <3>3. r \notin StandingReturns'
      BY <1>3 DEF StandingReturns
    <3> QED BY <3>1, <3>2, <3>3
  <2>2. \/ WrittenNow(plan, date, withOrder, r)
        \/ TakenBackNow(plan, r)
        \/ LeftAlone(r)
    BY <1>1, WriteReturnsEffect
  <2>3. returns[r] \in ReturnRows
    BY <1>1 DEF TypeOK
  <2>4. returns[r].state = "none"
    BY <1>3, <2>2, <2>3 DEF WrittenNow, TakenBackNow, LeftAlone, Reversed, ReturnRows
  <2> QED BY <2>1, <2>4
<1> QED BY <1>1, <1>2, <1>3

LEMMA SurplusWritten ==
  ASSUME LedgerInv, TypeOK', CreditsInv, NEW plan, PlanFits(plan),
         NEW date, NEW withOrder, NEW visit, WriteReturns(plan, date, withOrder, visit),
         NEW extra, \A k \in Items : extra[k] \in Nat,
         \A k \in Items : extra[k] > 0 => ReturnsItem(plan, k),
         NEW rows \in SUBSET (ReturnIds \X Items), NEW taken,
         \A row \in rows : /\ taken[row] \in Nat
                           /\ taken[row] <= RemainingByReturn(row[2])[row[1]],
         WriteSurplus(plan, extra, rows, taken),
         \A i \in Items : owing'[i] = owing[i] + (extra[i] - SurplusByItem(rows, taken)[i])
  PROVE  CreditsInv'
<1>1. /\ TypeOK /\ UnusedHaveNone
      /\ UNCHANGED <<orders, handBacks>>
  BY DEF LedgerInv, CreditsInv, WriteReturns
<1>2. /\ DOMAIN plan \subseteq OrderIds /\ NewIds(plan) \subseteq ReturnIds
      /\ \A r \in ReturnIds : returns'[r].state = "none"
             => returns[r].state = "none" /\ r \notin NewIds(plan)
  BY <1>1, UnusedWritten
<1>3. UnusedHaveNone'
  <2> SUFFICES ASSUME NEW r \in ReturnIds, returns'[r].state = "none", NEW i \in Items
               PROVE surplus'[r][i] = 0
    BY DEF UnusedHaveNone
  <2>1. surplus[r][i] = 0 /\ r \notin NewIds(plan)
    BY <1>1, <1>2 DEF UnusedHaveNone
  <2>2. ~ (extra[i] > 0 /\ Carrier(plan, i) = r)
    BY <1>2, <2>1, CarrierIsNew
  <2>3. surplus'[r][i] = surplus[r][i] + 0
                         - (IF <<r, i>> \in rows THEN taken[<<r, i>>] ELSE 0)
    BY <2>2 DEF WriteSurplus
  <2>4. (IF <<r, i>> \in rows THEN taken[<<r, i>>] ELSE 0) \in Nat
    OBVIOUS
  <2>5. surplus'[r][i] \in Nat
    BY CreditTypesAfter
  <2> QED BY <2>1, <2>3, <2>4, <2>5
<1>4. ASSUME NEW i \in Items PROVE CreditsAre(i)'
  <2>1. PICK back : back = SurplusByItem(rows, taken)[i]
    OBVIOUS
  <2>2. back \in Nat /\ back <= owing[i]
    BY <1>1, <2>1, TakenWithinOwed
  <2>3. SurplusSum(i)' = SurplusSum(i) + extra[i] - back
    <3>1. \A row \in rows : taken[row] \in Int
      OBVIOUS
    <3> QED BY <1>1, <1>2, <2>1, <3>1, SurplusMoves
  <2>4. UsedSum(i)' = UsedSum(i) /\ HandedSum(i)' = HandedSum(i)
    BY <1>1, SameUsed, SameHanded
  <2>5. /\ SurplusSum(i) \in Nat /\ UsedSum(i) \in Nat /\ HandedSum(i) \in Nat
        /\ owing[i] \in Int /\ extra[i] \in Nat
    BY <1>1, CreditTypes
  <2>6. owing[i] = SurplusSum(i) - UsedSum(i) - HandedSum(i)
    BY DEF CreditsInv, CreditsAre
  <2>7. owing'[i] = owing[i] + (extra[i] - back)
    BY <2>1
  <2>8. owing'[i] = SurplusSum(i)' - UsedSum(i)' - HandedSum(i)' /\ owing'[i] >= 0
    BY <2>2, <2>3, <2>4, <2>5, <2>6, <2>7
  <2> QED BY <2>8 DEF CreditsAre
<1> QED BY <1>3, <1>4 DEF CreditsInv

-----------------------------------------------------------------------------
(* What recording, editing and deleting do to the surplus: of rows taken    *)
(* back what remains of each goes, and the extra is written on its carrier. *)
SurplusRows(rows, taken) ==
    \A row \in rows : /\ taken[row] \in Nat /\ taken[row] > 0
                      /\ taken[row] = RemainingByReturn(row[2])[row[1]]
ExtraOfItems(plan, extra) ==
    \A i \in Items : extra[i] \in Nat /\ (extra[i] > 0 => ReturnsItem(plan, i))
SurplusStep(plan, extra, rows, taken) ==
    /\ PlanFits(plan)
    /\ \E date, withOrder, visit : WriteReturns(plan, date, withOrder, visit)
    /\ ExtraOfItems(plan, extra)
    /\ rows \in SUBSET (ReturnIds \X Items) /\ SurplusRows(rows, taken)
    /\ WriteSurplus(plan, extra, rows, taken)
    /\ \A i \in Items : owing'[i] = owing[i] + (extra[i] - SurplusByItem(rows, taken)[i])
MovesSurplus == \E plan, extra, rows, taken : SurplusStep(plan, extra, rows, taken)

LEMMA NothingTaken ==
  ASSUME NEW rows, rows = {}, NEW taken, NEW i \in Items
  PROVE  SurplusByItem(rows, taken)[i] = 0
<1>1. {row \in rows : row[2] = i} = {}
  OBVIOUS
<1>2. SurplusByItem(rows, taken)[i] = SumOver({row \in rows : row[2] = i}, taken)
  BY DEF SurplusByItem
<1> QED BY <1>1, <1>2, SumOfNone

LEMMA CreateReturnMoves ==
  ASSUME LedgerInv, NEW o, NEW body, NEW date, CreateReturn(o, body, date)
  PROVE  MovesSurplus
<1>1. PICK plan : plan = [k \in {o} |-> [old |-> 0, body |-> body]]
  OBVIOUS
<1>2. PICK extra, rows, taken : extra = [i \in Items |-> 0] /\ rows = {} /\ taken = <<>>
  OBVIOUS
<1>3. TypeOK /\ WriteReturns(plan, date, 0, 0) /\ UNCHANGED <<owing, surplus, credited>>
  BY <1>1 DEF CreateReturn, LedgerInv
<1>4. PlanFits(plan)
  BY <1>1, CreateReturnFits
<1>5. \A i \in Items : extra[i] = 0
  BY <1>2
<1>6. WriteSurplus(plan, extra, rows, taken)
  <2>1. \A r \in ReturnIds, i \in Items : surplus[r][i] \in Counts /\ surplus[r][i] \in Int
    BY <1>3 DEF TypeOK, Counts
  <2>2. surplus' = [r \in ReturnIds |-> [i \in Items |-> surplus[r][i] + 0 - 0]]
    <3>1. \A r \in ReturnIds, i \in Items : surplus[r][i] + 0 - 0 = surplus[r][i]
      BY <2>1
    <3>2. surplus' = [r \in ReturnIds |-> [i \in Items |-> surplus[r][i]]]
      BY <1>3 DEF TypeOK
    <3> QED BY <3>1, <3>2
  <2>3. credited' = [r \in ReturnIds |-> credited[r] \cup {}]
    BY <1>3 DEF TypeOK
  <2>4. \A r \in ReturnIds, i \in Items : surplus'[r][i] \in Counts
    BY <1>3, <2>1
  <2> QED BY <1>2, <1>5, <2>2, <2>3, <2>4 DEF WriteSurplus
<1>7. \A i \in Items : owing'[i] = owing[i] + (extra[i] - SurplusByItem(rows, taken)[i])
  <2> SUFFICES ASSUME NEW i \in Items
               PROVE owing'[i] = owing[i] + (extra[i] - SurplusByItem(rows, taken)[i])
    OBVIOUS
  <2>1. SurplusByItem(rows, taken)[i] = 0 /\ extra[i] = 0
    BY <1>2, <1>5, NothingTaken
  <2>2. owing[i] \in Int
    BY <1>3, CreditTypes
  <2> QED BY <1>3, <2>1, <2>2
<1>8. rows \in SUBSET (ReturnIds \X Items) /\ SurplusRows(rows, taken) /\ ExtraOfItems(plan, extra)
  BY <1>2, <1>5 DEF SurplusRows, ExtraOfItems
<1>9. SurplusStep(plan, extra, rows, taken)
  BY <1>3, <1>4, <1>6, <1>7, <1>8 DEF SurplusStep
<1> QED BY <1>9 DEF MovesSurplus

LEMMA CreateForCustomerMoves ==
  ASSUME LedgerInv, NEW bodies, NEW date, NEW withOrder,
         NEW extra \in ExtraInputs, CreateForCustomer(bodies, date, withOrder, extra)
  PROVE  MovesSurplus
<1>1. PICK plan, rows, taken : /\ plan = [o \in DOMAIN bodies |-> [old |-> 0, body |-> bodies[o]]]
                               /\ rows = {} /\ taken = <<>>
  OBVIOUS
<1>2. PICK visit : WriteReturns(plan, date, withOrder, visit)
  BY <1>1 DEF CreateForCustomer
<1>3. /\ WriteCredits(extra) /\ WriteSurplus(plan, extra, rows, taken)
      /\ \A k \in Items : extra[k] > 0 => ReturnsItem(plan, k)
  BY <1>1 DEF CreateForCustomer, ExtraAllowed
<1>4. \A o \in DOMAIN bodies : Returnable(o, {}, bodies[o], date)
  BY DEF CreateForCustomer
<1>5. PlanFits(plan)
  BY <1>1, <1>4, RecordingFits
<1>6. \A k \in Items : extra[k] \in Nat
  BY BoundsAssumption DEF ExtraInputs
<1>7. \A i \in Items : SurplusByItem(rows, taken)[i] = 0
  BY <1>1, NothingTaken
<1>8. \A i \in Items : owing'[i] = owing[i] + (extra[i] - SurplusByItem(rows, taken)[i])
  BY <1>3, <1>6, <1>7 DEF WriteCredits
<1>9. rows \in SUBSET (ReturnIds \X Items) /\ SurplusRows(rows, taken) /\ ExtraOfItems(plan, extra)
  BY <1>1, <1>3, <1>6 DEF SurplusRows, ExtraOfItems
<1>10. SurplusStep(plan, extra, rows, taken)
  BY <1>2, <1>3, <1>5, <1>8, <1>9 DEF SurplusStep
<1> QED BY <1>10 DEF MovesSurplus

LEMMA OwedWithinSurplus ==
  ASSUME TypeOK, CreditsInv, NEW i \in Items
  PROVE  owing[i] >= 0 /\ owing[i] <= SurplusSum(i)
<1>1. owing[i] = SurplusSum(i) - UsedSum(i) - HandedSum(i) /\ owing[i] >= 0
  BY DEF CreditsInv, CreditsAre
<1>2. SurplusSum(i) \in Nat /\ UsedSum(i) \in Nat /\ HandedSum(i) \in Nat
  BY CreditTypes
<1> QED BY <1>1, <1>2

LEMMA DeleteReturnMoves ==
  ASSUME LedgerInv, CreditsInv, NEW r \in ReturnIds, DeleteReturn(r)
  PROVE  MovesSurplus
<1>0. TypeOK
  BY DEF LedgerInv
<1>1. PICK plan, rows : /\ plan = [k \in {returns[r].order} |-> [old |-> r, body |-> NoBody]]
                        /\ rows = SurplusOf(r, BodyItems(returns[r].body))
  OBVIOUS
<1>2. PICK taken, extra : /\ taken = [row \in rows |-> surplus[row[1]][row[2]]]
                          /\ extra = [i \in Items |-> 0]
  OBVIOUS
<1>3. PICK back : back = SurplusByItem(rows, taken)
  OBVIOUS
<1>4. /\ WriteReturns(plan, 0, 0, 0) /\ WriteCredits([i \in Items |-> -back[i]])
      /\ WriteSurplus(plan, extra, rows, taken) /\ MayTakeSurplus(rows)
  BY <1>1, <1>2, <1>3 DEF DeleteReturn
<1>5. PlanFits(plan)
  BY <1>1, DeleteReturnFits
<1>6. rows \in SUBSET (ReturnIds \X Items) /\ \A row \in rows : surplus[row[1]][row[2]] > 0
  BY <1>1 DEF SurplusOf
<1>7. SurplusRows(rows, taken)
  <2> SUFFICES ASSUME NEW row \in rows
               PROVE /\ taken[row] \in Nat /\ taken[row] > 0
                     /\ taken[row] = RemainingByReturn(row[2])[row[1]]
    BY DEF SurplusRows
  <2>1. PICK q \in ReturnIds, i \in Items : row = <<q, i>>
    BY <1>6
  <2>2. taken[row] = surplus[q][i] /\ row[1] = q /\ row[2] = i /\ surplus[q][i] > 0
    BY <1>2, <1>6, <2>1
  <2>3. RemainingByReturn(i)[q] >= surplus[q][i]
    BY <1>4, <2>2 DEF MayTakeSurplus
  <2>4. surplus[q][i] \in Nat
    BY <1>0, CreditTypes
  <2>5. RemainingByReturn(i)[q] \in 0 .. surplus[q][i]
    BY <1>0, OwedWithinSurplus, RemainingAddsUp
  <2> QED BY <2>2, <2>3, <2>4, <2>5
<1>8. \A i \in Items : extra[i] = 0
  BY <1>2
<1>9. \A i \in Items : owing'[i] = owing[i] + (extra[i] - SurplusByItem(rows, taken)[i])
  <2> SUFFICES ASSUME NEW i \in Items
               PROVE owing'[i] = owing[i] + (extra[i] - SurplusByItem(rows, taken)[i])
    OBVIOUS
  <2>1. owing'[i] = owing[i] + -back[i]
    BY <1>4 DEF WriteCredits
  <2>2. back[i] \in Int
    <3>1. \A row \in rows : taken[row] \in Int
      BY <1>7 DEF SurplusRows
    <3> QED BY <1>3, <1>6, <3>1, SurplusIsInt
  <2>3. owing[i] \in Int
    BY <1>0, CreditTypes
  <2> QED BY <1>3, <1>8, <2>1, <2>2, <2>3
<1>10. ExtraOfItems(plan, extra)
  BY <1>8 DEF ExtraOfItems
<1>11. SurplusStep(plan, extra, rows, taken)
  BY <1>4, <1>5, <1>6, <1>7, <1>9, <1>10 DEF SurplusStep
<1> QED BY <1>11 DEF MovesSurplus

LEMMA StandingIsRemaining ==
  ASSUME TypeOK, CreditsInv, NEW rows \in SUBSET (ReturnIds \X Items), NEW row \in rows
  PROVE  /\ StandingSurplus(rows)[row] = RemainingByReturn(row[2])[row[1]]
         /\ StandingSurplus(rows)[row] \in Nat
<1>1. PICK q \in ReturnIds, i \in Items : row = <<q, i>>
  OBVIOUS
<1>2. row[1] = q /\ row[2] = i
  BY <1>1
<1>3. StandingSurplus(rows)[row] = LesserOf(surplus[q][i], ZeroOrMore(RemainingByReturn(i)[q]))
  BY <1>2 DEF StandingSurplus
<1>4. surplus[q][i] \in Nat
  BY CreditTypes
<1>5. PICK left : left = RemainingByReturn(i)[q]
  OBVIOUS
<1>6. left \in 0 .. surplus[q][i]
  BY <1>5, OwedWithinSurplus, RemainingAddsUp
<1>7. LesserOf(surplus[q][i], ZeroOrMore(left)) = left /\ left \in Nat
  BY <1>4, <1>6 DEF LesserOf, ZeroOrMore
<1> QED BY <1>2, <1>3, <1>5, <1>7

LEMMA ReplaceForCustomerMoves ==
  ASSUME LedgerInv, CreditsInv, NEW r \in ReturnIds, NEW bodies, NEW date,
         NEW extra \in ExtraInputs, ReplaceForCustomer(r, bodies, date, extra)
  PROVE  MovesSurplus
<1>0. TypeOK
  BY DEF LedgerInv
<1>1. PICK plan : plan = EditPlan(r, bodies)
  OBVIOUS
<1>2. PICK withOrder, rows : /\ rows \in SUBSET (ReturnIds \X Items)
                             /\ \A row \in rows : StandingSurplus({row})[row] > 0
                             /\ WriteEdit(plan, date, withOrder, extra, rows)
  <2> DEFINE parts   == PartsOf(r)
             withOne == Max({0} \cup {returns[q].withOrder : q \in parts})
             oldItems == UNION {BodyItems(returns[q].body) : q \in parts}
             all == {row \in SurplusOf(r, oldItems) : StandingSurplus({row})[row] > 0}
  <2>1. WriteEdit(plan, date, withOne, extra, all)
    BY <1>1 DEF ReplaceForCustomer, EditPlan
  <2>2. all \in SUBSET (ReturnIds \X Items) /\ \A row \in all : StandingSurplus({row})[row] > 0
    BY DEF SurplusOf
  <2> HIDE DEF all, withOne
  <2> QED BY <2>1, <2>2
<1>3. \A i \in Items : extra[i] > 0 => ReturnsItem(plan, i)
  BY <1>1 DEF ReplaceForCustomer, EditPlan
<1>4. PICK taken, back : taken = StandingSurplus(rows) /\ back = SurplusByItem(rows, taken)
  OBVIOUS
<1>5. /\ WriteCredits([i \in Items |-> extra[i] - back[i]])
      /\ WriteSurplus(plan, extra, rows, taken)
  BY <1>2, <1>4 DEF WriteEdit
<1>6. PICK visit : WriteReturns(plan, date, withOrder, visit)
  BY <1>2 DEF WriteEdit
<1>7. PlanFits(plan)
  BY <1>1, EditFits
<1>8. \A i \in Items : extra[i] \in Nat
  BY BoundsAssumption DEF ExtraInputs
<1>9. SurplusRows(rows, taken)
  <2> SUFFICES ASSUME NEW row \in rows
               PROVE /\ taken[row] \in Nat /\ taken[row] > 0
                     /\ taken[row] = RemainingByReturn(row[2])[row[1]]
    BY DEF SurplusRows
  <2>1. taken[row] = RemainingByReturn(row[2])[row[1]] /\ taken[row] \in Nat
    BY <1>0, <1>2, <1>4, StandingIsRemaining
  <2>2. PICK one : one = {row}
    OBVIOUS
  <2>3. one \in SUBSET (ReturnIds \X Items) /\ row \in one
    BY <1>2, <2>2
  <2>4. StandingSurplus(one)[row] = RemainingByReturn(row[2])[row[1]]
    BY <1>0, <2>3, StandingIsRemaining
  <2> QED BY <1>2, <2>1, <2>2, <2>4
<1>10. \A i \in Items : owing'[i] = owing[i] + (extra[i] - SurplusByItem(rows, taken)[i])
  BY <1>4, <1>5 DEF WriteCredits
<1>11. ExtraOfItems(plan, extra)
  BY <1>3, <1>8 DEF ExtraOfItems
<1>12. SurplusStep(plan, extra, rows, taken)
  BY <1>2, <1>5, <1>6, <1>7, <1>9, <1>10, <1>11 DEF SurplusStep
<1> QED BY <1>12 DEF MovesSurplus

LEMMA MoveCredits ==
  ASSUME LedgerInv, TypeOK', CreditsInv, MovesSurplus PROVE CreditsInv'
<1>1. PICK plan, extra, rows, taken : SurplusStep(plan, extra, rows, taken)
  BY DEF MovesSurplus
<1>2. PICK date, withOrder, visit : WriteReturns(plan, date, withOrder, visit)
  BY <1>1 DEF SurplusStep
<1>3. /\ PlanFits(plan) /\ WriteSurplus(plan, extra, rows, taken)
      /\ rows \in SUBSET (ReturnIds \X Items)
      /\ \A i \in Items : owing'[i] = owing[i] + (extra[i] - SurplusByItem(rows, taken)[i])
  BY <1>1 DEF SurplusStep
<1>4. /\ \A i \in Items : extra[i] \in Nat
      /\ \A i \in Items : extra[i] > 0 => ReturnsItem(plan, i)
  BY <1>1 DEF SurplusStep, ExtraOfItems
<1>5. \A row \in rows : /\ taken[row] \in Nat
                        /\ taken[row] <= RemainingByReturn(row[2])[row[1]]
  BY <1>1 DEF SurplusStep, SurplusRows
<1> QED BY <1>2, <1>3, <1>4, <1>5, SurplusWritten

-----------------------------------------------------------------------------
(* A correction takes its own surplus with it.                              *)
LEMMA OnlyNew ==
  ASSUME NEW o \in OrderIds, NEW old, NEW body, body # NoBody,
         NEW plan, plan = [k \in {o} |-> [old |-> old, body |-> body]]
  PROVE  NewIds(plan) = {FirstNew}
<1>1. Written(plan) = {o} /\ DOMAIN plan \subseteq OrderIds
  BY DEF Written
<1>2. NewIds(plan) = {NewId(plan, o)}
  BY <1>1 DEF NewIds
<1>3. {p \in Written(plan) : p < o} = {}
  BY <1>1 DEF OrderIds
<1>4. NewId(plan, o) = FirstNew + 0
  BY <1>3, FS_EmptySet DEF NewId
<1>5. FirstNew \in Nat
  BY <1>1, NewIdsDiffer
<1> QED BY <1>2, <1>4, <1>5

LEMMA ReplaceReturnCredits ==
  ASSUME LedgerInv, TypeOK', CreditsInv, NEW r \in ReturnIds, NEW body, NEW date,
         ReplaceReturn(r, body, date)
  PROVE  CreditsInv'
<1>0. TypeOK /\ UnusedHaveNone
  BY DEF LedgerInv, CreditsInv
<1>1. PICK plan, new : /\ plan = [k \in {returns[r].order} |-> [old |-> r, body |-> body]]
                       /\ new = FirstNew
  OBVIOUS
<1>2. /\ returns[r].state = "standing" /\ returns[r].order \in OrderIds /\ body # NoBody
      /\ UNCHANGED owing
      /\ surplus' = [surplus EXCEPT ![r] = [i \in Items |-> 0], ![new] = surplus[r]]
  BY <1>1 DEF ReplaceReturn, Returnable, Live, CarryOver
<1>3. PICK withOrder : WriteReturns(plan, date, withOrder, 0)
  BY <1>1 DEF ReplaceReturn
<1>4. PlanFits(plan)
  BY <1>1, ReplaceReturnFits
<1>5. NewIds(plan) = {new}
  <2>1. PICK o \in OrderIds : o = returns[r].order
    BY <1>2
  <2>2. plan = [k \in {o} |-> [old |-> r, body |-> body]] /\ body # NoBody
    BY <1>1, <1>2, <2>1
  <2>3. NewIds(plan) = {FirstNew}
    BY ONLY <2>2, OnlyNew
  <2> QED BY <1>1, <2>3
<1>6. /\ new \in ReturnIds /\ returns[new].state = "none" /\ new # r
      /\ UNCHANGED <<orders, handBacks>>
  BY <1>2, <1>3, <1>4, <1>5, PlanRows DEF WriteReturns
<1>7. /\ surplus'[r] = [i \in Items |-> 0] /\ surplus'[new] = surplus[r]
      /\ \A q \in ReturnIds \ {r, new} : surplus'[q] = surplus[q]
  BY <1>0, <1>2, <1>6 DEF TypeOK
<1>8. UnusedHaveNone'
  <2> SUFFICES ASSUME NEW q \in ReturnIds, returns'[q].state = "none"
               PROVE \A i \in Items : surplus'[q][i] = 0
    BY DEF UnusedHaveNone
  <2>1. returns[q].state = "none" /\ q # new
    BY <1>0, <1>3, <1>4, <1>5, UnusedWritten
  <2>2. q # r
    BY <1>2, <2>1
  <2> QED BY <1>0, <1>7, <2>1, <2>2 DEF UnusedHaveNone
<1>9. ASSUME NEW i \in Items PROVE CreditsAre(i)'
  <2>1. PICK S, f, g, h : /\ S = ReturnIds /\ IsFiniteSet(S)
                          /\ f = [q \in ReturnIds |-> surplus[q][i]]
                          /\ g = [q \in ReturnIds |-> surplus'[q][i]]
                          /\ h = [q \in ReturnIds |-> IF q = r THEN 0 ELSE surplus[q][i]]
    BY RowsAreFinite
  <2>2. \A q \in S : f[q] \in Int /\ g[q] \in Int /\ h[q] \in Int
    <3>1. \A q \in ReturnIds : surplus[q][i] \in Nat /\ surplus'[q][i] \in Nat
      BY <1>0, CreditTypes, CreditTypesAfter
    <3> QED BY <2>1, <3>1
  <2>3. /\ r \in S /\ new \in S /\ h[r] = 0 /\ h[new] = 0 /\ g[new] = f[r]
        /\ \A q \in S \ {r} : h[q] = f[q]
        /\ \A q \in S \ {new} : g[q] = h[q]
    BY <1>0, <1>6, <1>7, <2>1 DEF UnusedHaveNone
  <2>4. SumOver(S, h) = SumOver(S, f) - f[r] + h[r]
    <3>1. \A q \in S \ {r} : f[q] = h[q]
      BY <2>3
    <3>2. IsFiniteSet(S) /\ r \in S /\ \A q \in S : f[q] \in Int /\ h[q] \in Int
      BY <2>1, <2>2, <2>3
    <3> QED BY ONLY <3>1, <3>2, SumOneChanged
  <2>5. SumOver(S, g) = SumOver(S, h) - h[new] + g[new]
    <3>1. \A q \in S \ {new} : h[q] = g[q]
      BY <2>3
    <3>2. IsFiniteSet(S) /\ new \in S /\ \A q \in S : h[q] \in Int /\ g[q] \in Int
      BY <2>1, <2>2, <2>3
    <3> QED BY ONLY <3>1, <3>2, SumOneChanged
  <2>6. SumOver(S, f) \in Int /\ f[r] \in Int
    <3>1. IsFiniteSet(S) /\ \A q \in S : f[q] \in Int
      BY <2>1, <2>2
    <3>2. SumOver(S, f) \in Int
      BY ONLY <3>1, SumIsInt
    <3> QED BY <2>2, <2>3, <3>2
  <2>7. SumOver(S, g) = SumOver(S, f)
    BY <2>3, <2>4, <2>5, <2>6
  <2>8. SurplusSum(i) = SumOver(S, f) /\ SurplusSum(i)' = SumOver(S, g)
    BY <2>1 DEF SurplusSum
  <2>9. UsedSum(i)' = UsedSum(i) /\ HandedSum(i)' = HandedSum(i)
    BY <1>6, SameUsed, SameHanded
  <2> QED BY <1>2, <2>7, <2>8, <2>9 DEF CreditsInv, CreditsAre
<1> QED BY <1>8, <1>9 DEF CreditsInv

LEMMA CreditStep ==
  OutInv /\ OutInv' /\ CreditsInv /\ [Next]_vars => CreditsInv'
<1> SUFFICES ASSUME OutInv, OutInv', CreditsInv, [Next]_vars PROVE CreditsInv'
  OBVIOUS
<1>0. TypeOK /\ TypeOK' /\ LedgerInv
  BY DEF OutInv, AmountInv, LedgerInv
<1>1. CASE OrderStep
  BY <1>0, <1>1, CreateOrderCredits, EditHeaderCredits, EditLinesCredits DEF OrderStep
<1>2. CASE CancelStep
  BY <1>0, <1>2, CancelOrderCredits DEF CancelStep
<1>3. CASE ReturnStep
  BY <1>0, <1>3, CreateReturnMoves, CreateForCustomerMoves, ReplaceForCustomerMoves,
     MoveCredits, ReplaceReturnCredits DEF ReturnStep, StandingReturns
<1>4. CASE DeleteStep
  BY <1>0, <1>4, DeleteReturnMoves, MoveCredits DEF DeleteStep
<1>5. CASE PaymentStep
  <2>1. UNCHANGED <<orders, returns, surplus, handBacks, owing>>
    BY <1>5 DEF PaymentStep, CreatePayment, ReversePayment
  <2> QED BY <1>0, <2>1, SameCredits
<1>6. CASE HandBackStep
  <2>1. \A quantity \in 1 .. (MaxQuantity + MaxExtra) : quantity \in Nat
    BY BoundsAssumption
  <2> QED BY <1>0, <1>6, <2>1, HandBackCredits, UndoHandBackCredits DEF HandBackStep
<1>7. CASE ArchiveCustomer
  BY <1>0, <1>7, SameCredits DEF ArchiveCustomer
<1>8. CASE UNCHANGED vars
  BY <1>0, <1>8, SameCredits DEF vars
<1> QED BY <1>1, <1>2, <1>3, <1>4, <1>5, <1>6, <1>7, <1>8 DEF Next

LEMMA CreditsInitially == Init => CreditsInv
<1> SUFFICES ASSUME Init PROVE CreditsInv
  OBVIOUS
<1>1. UnusedHaveNone
  BY DEF Init, UnusedHaveNone
<1>2. ASSUME NEW i \in Items PROVE CreditsAre(i)
  <2>1. SurplusSum(i) = 0
    <3>1. PICK f : f = [r \in ReturnIds |-> surplus[r][i]]
      OBVIOUS
    <3>2. \A r \in ReturnIds : f[r] = 0
      BY <3>1 DEF Init
    <3>3. SumOver(ReturnIds, f) = 0
      BY <3>2, RowsAreFinite, SumOfZeros
    <3> QED BY <3>1, <3>3 DEF SurplusSum
  <2>2. UsedSum(i) = 0
    <3>1. PICK f : f = [o \in OrderIds |-> orders[o].used[i]]
      OBVIOUS
    <3>2. \A o \in OrderIds : f[o] = 0
      BY <3>1 DEF Init, NoOrder
    <3>3. SumOver(OrderIds, f) = 0
      BY <3>2, RowsAreFinite, SumOfZeros
    <3> QED BY <3>1, <3>3 DEF UsedSum
  <2>3. HandedSum(i) = 0
    <3>1. PICK f : f = [h \in HandBackIds |-> HandedOf(h, i)]
      OBVIOUS
    <3>2. \A h \in HandBackIds : f[h] = 0
      BY <3>1 DEF Init, NoHandBack, HandedOf
    <3>3. SumOver(HandBackIds, f) = 0
      BY <3>2, RowsAreFinite, SumOfZeros
    <3> QED BY <3>1, <3>3 DEF HandedSum
  <2>4. owing[i] = 0
    BY DEF Init
  <2> QED BY <2>1, <2>2, <2>3, <2>4 DEF CreditsAre
<1> QED BY <1>1, <1>2 DEF CreditsInv

(* The sum over the hand-backs that stand is that over all, the others at 0.*)
LEMMA CreditsSuffice == TypeOK /\ CreditsInv => CreditsAddUp
<1> SUFFICES ASSUME TypeOK, CreditsInv PROVE CreditsAddUp
  OBVIOUS
<1>1. ASSUME NEW i \in Items
      PROVE  HandedSum(i) = SumOver({h \in HandBackIds : handBacks[h].state = "standing"},
                                    [h \in HandBackIds |-> handBacks[h].quantity[i]])
  <2>1. PICK S, P, f, g : /\ S = HandBackIds /\ IsFiniteSet(S)
                          /\ P = {h \in HandBackIds : handBacks[h].state = "standing"}
                          /\ f = [h \in HandBackIds |-> HandedOf(h, i)]
                          /\ g = [h \in HandBackIds |-> handBacks[h].quantity[i]]
    BY RowsAreFinite
  <2>2. /\ P \in SUBSET S /\ \A h \in P : f[h] \in Int /\ f[h] = g[h]
        /\ \A h \in S \ P : f[h] = 0
    <3>1. \A h \in HandBackIds : HandedOf(h, i) \in Nat
      BY CreditTypes
    <3> QED BY <2>1, <3>1 DEF HandedOf
  <2>3. SumOver(S, f) = SumOver(P, f)
    BY ONLY <2>1, <2>2, SumOfPart
  <2>4. IsFiniteSet(P)
    BY <2>1, <2>2, FS_Subset
  <2>5. SumOver(P, f) = SumOver(P, g)
    BY ONLY <2>2, <2>4, SumAgrees
  <2> QED BY <2>1, <2>3, <2>5 DEF HandedSum
<1> QED BY <1>1 DEF CreditsInv, CreditsAre, CreditsAddUp, SurplusSum, UsedSum

(* The ledger of pallets owed always reads the same by item as by return,   *)
(* by order and by hand-back, and no correction, deletion or hand-over ever *)
(* takes more than is owed of an item, in whatever order the surplus of its *)
(* returns has gone out.                                                    *)
THEOREM CreditsReadTheSame == Spec => []CreditsAddUp
<1>1. OutInv => TypeOK
  BY DEF OutInv, AmountInv, LedgerInv
<1> QED BY <1>1, CreditsSuffice, CreditsInitially, CreditStep, OutAlways, PTL DEF Spec
-----------------------------------------------------------------------------
(* The visits behind a return are its own and those of what it replaced;    *)
(* they are found below it, so there are such sets.                         *)
ReplacedBefore(r) == {k \in Replaced(r) : k < r}
VisitSets(visits, T) ==
    visits = [r \in T |-> ({returns[r].visit} \ {0}) \cup UNION {visits[q] : q \in ReplacedBefore(r)}]
VisitFound(visit, T) ==
    visit = [r \in T |-> IF returns[r].visit # 0 THEN returns[r].visit
                         ELSE IF ReplacedBefore(r) = {} THEN 0 ELSE visit[Min(ReplacedBefore(r))]]

LEMMA VisitsAreChosen ==
  /\ VisitsBehind = CHOOSE visits : VisitSets(visits, ReturnIds)
  /\ VisitOf = CHOOSE visit : VisitFound(visit, ReturnIds)
BY DEF VisitsBehind, VisitOf, VisitSets, VisitFound, ReplacedBefore

LEMMA VisitSetsExist == VisitSets(VisitsBehind, ReturnIds)
<1> DEFINE Good == {T \in SUBSET ReturnIds : ClosedBelow(T) => \E visits : VisitSets(visits, T)}
<1>1. ASSUME NEW T \in SUBSET ReturnIds,
             \A U \in SUBSET ReturnIds : U \subseteq T /\ U # T => U \in Good
      PROVE  T \in Good
  <2> SUFFICES ASSUME ClosedBelow(T) PROVE \E visits : VisitSets(visits, T)
    OBVIOUS
  <2>1. CASE T = {}
    <3>1. VisitSets([r \in T |-> r], T)
      BY <2>1 DEF VisitSets
    <3> QED BY <3>1
  <2>2. CASE T # {}
    <3>1. PICK m \in T : /\ \A r \in T : r <= m
                         /\ T \ {m} \in SUBSET ReturnIds /\ ClosedBelow(T \ {m})
      BY <2>2, LastOut
    <3>2. PICK g : VisitSets(g, T \ {m})
      <4>1. T \ {m} \in Good
        BY <1>1, <3>1
      <4> QED BY <3>1, <4>1
    <3> DEFINE at(h, r) == ({returns[r].visit} \ {0}) \cup UNION {h[q] : q \in ReplacedBefore(r)}
               f == [r \in T |-> IF r = m THEN at(g, m) ELSE g[r]]
    <3>3. \A r \in T \ {m} : g[r] = at(g, r)
      BY <3>2 DEF VisitSets
    <3>4. ASSUME NEW r \in T, NEW b \in ReplacedBefore(r) PROVE f[b] = g[b]
      <4>1. b \in ReturnIds /\ b < r
        BY DEF ReplacedBefore, Replaced
      <4>2. b \in T
        BY <4>1 DEF ClosedBelow
      <4>3. r <= m /\ r \in Int /\ b \in Int /\ m \in Int
        BY <3>1, <4>1 DEF ReturnIds
      <4>4. b # m
        BY <4>1, <4>3
      <4> QED BY <4>1, <4>2, <4>4
    <3>5. \A r \in T : f[r] = at(g, r)
      BY <3>3
    <3>6. \A r \in T : at(f, r) = at(g, r)
      <4> HIDE DEF f
      <4> QED BY <3>4
    <3>7. VisitSets(f, T)
      <4>1. \A r \in T : f[r] = at(f, r)
        <5> HIDE DEF f, at
        <5> QED BY <3>5, <3>6
      <4>2. f = [r \in T |-> f[r]]
        OBVIOUS
      <4>3. [r \in T |-> f[r]] = [r \in T |-> at(f, r)]
        <5> HIDE DEF f, at
        <5> QED BY <4>1
      <4>4. f = [r \in T |-> at(f, r)]
        <5> HIDE DEF f, at
        <5> QED BY <4>2, <4>3
      <4> HIDE DEF f
      <4> QED BY <4>4 DEF VisitSets
    <3> QED BY <3>7
  <2> QED BY <2>1, <2>2
<1>2. ReturnIds \in Good
  <2> HIDE DEF Good
  <2> QED BY <1>1, RowsAreFinite, SubsetInduction
<1>3. \E visits : VisitSets(visits, ReturnIds)
  BY <1>2 DEF ClosedBelow
<1> QED BY <1>3, VisitsAreChosen

LEMMA VisitFoundExists == VisitFound(VisitOf, ReturnIds)
<1> DEFINE Good == {T \in SUBSET ReturnIds : ClosedBelow(T) => \E visit : VisitFound(visit, T)}
<1>1. ASSUME NEW T \in SUBSET ReturnIds,
             \A U \in SUBSET ReturnIds : U \subseteq T /\ U # T => U \in Good
      PROVE  T \in Good
  <2> SUFFICES ASSUME ClosedBelow(T) PROVE \E visit : VisitFound(visit, T)
    OBVIOUS
  <2>1. CASE T = {}
    <3>1. VisitFound([r \in T |-> r], T)
      BY <2>1 DEF VisitFound
    <3> QED BY <3>1
  <2>2. CASE T # {}
    <3>1. PICK m \in T : /\ \A r \in T : r <= m
                         /\ T \ {m} \in SUBSET ReturnIds /\ ClosedBelow(T \ {m})
      BY <2>2, LastOut
    <3>2. PICK g : VisitFound(g, T \ {m})
      <4>1. T \ {m} \in Good
        BY <1>1, <3>1
      <4> QED BY <3>1, <4>1
    <3> DEFINE at(h, r) == IF returns[r].visit # 0 THEN returns[r].visit
                           ELSE IF ReplacedBefore(r) = {} THEN 0 ELSE h[Min(ReplacedBefore(r))]
               f == [r \in T |-> IF r = m THEN at(g, m) ELSE g[r]]
    <3>3. \A r \in T \ {m} : g[r] = at(g, r)
      BY <3>2 DEF VisitFound
    <3>4. ASSUME NEW r \in T, ReplacedBefore(r) # {}
          PROVE  f[Min(ReplacedBefore(r))] = g[Min(ReplacedBefore(r))]
      <4>0. Min(ReplacedBefore(r)) \in ReplacedBefore(r)
        <5>1. ReplacedBefore(r) \in SUBSET (0 .. MaxReturns)
          BY BoundsAssumption DEF ReturnIds, ReplacedBefore, Replaced
        <5> QED BY <3>4, <5>1, BoundsAssumption, SmallestCount
      <4>1. PICK b : b = Min(ReplacedBefore(r)) /\ b \in ReturnIds /\ b < r
        BY <4>0 DEF ReplacedBefore, Replaced
      <4>2. b \in T
        BY <4>1 DEF ClosedBelow
      <4>3. r <= m /\ r \in Int /\ b \in Int /\ m \in Int
        BY <3>1, <4>1 DEF ReturnIds
      <4>4. b # m
        BY <4>1, <4>3
      <4> QED BY <4>1, <4>2, <4>4
    <3>5. \A r \in T : f[r] = at(g, r)
      BY <3>3
    <3>6. \A r \in T : at(f, r) = at(g, r)
      <4> HIDE DEF f
      <4> QED BY <3>4
    <3>7. VisitFound(f, T)
      <4>1. \A r \in T : f[r] = at(f, r)
        <5> HIDE DEF f, at
        <5> QED BY <3>5, <3>6
      <4>2. f = [r \in T |-> f[r]]
        OBVIOUS
      <4>3. [r \in T |-> f[r]] = [r \in T |-> at(f, r)]
        <5> HIDE DEF f, at
        <5> QED BY <4>1
      <4>4. f = [r \in T |-> at(f, r)]
        <5> HIDE DEF f, at
        <5> QED BY <4>2, <4>3
      <4> HIDE DEF f
      <4> QED BY <4>4 DEF VisitFound
    <3> QED BY <3>7
  <2> QED BY <2>1, <2>2
<1>2. ReturnIds \in Good
  <2> HIDE DEF Good
  <2> QED BY <1>1, RowsAreFinite, SubsetInduction
<1>3. \E visit : VisitFound(visit, ReturnIds)
  BY <1>2 DEF ClosedBelow
<1> QED BY <1>3, VisitsAreChosen

(* So every return of a visit is found to be of it.                         *)
LEMMA OfOwnVisit ==
  ASSUME NEW r \in ReturnIds, NEW q \in ReturnIds,
         returns[r].visit # 0, returns[q].visit = returns[r].visit
  PROVE  VisitOf[r] = returns[r].visit /\ returns[r].visit \in VisitsBehind[q]
<1>1. VisitOf[r] = returns[r].visit
  <2>1. PICK visit : visit = VisitOf
    OBVIOUS
  <2> QED BY <2>1, VisitFoundExists DEF VisitFound
<1>2. returns[r].visit \in VisitsBehind[q]
  <2>1. PICK visits : visits = VisitsBehind
    OBVIOUS
  <2> QED BY <2>1, VisitSetsExist DEF VisitSets
<1> QED BY <1>1, <1>2

(* The deletion of a return of a visit takes all of the visit's surplus of  *)
(* what it took back.                                                       *)
LEMMA DeletionTakesVisit ==
  ASSUME TypeOK, NEW r \in ReturnIds, NEW q \in ReturnIds, NEW i \in Items, DeleteReturn(r),
         returns[r].visit # 0, returns[q].visit = returns[r].visit,
         i \in BodyItems(returns[r].body)
  PROVE  surplus'[q][i] = 0
<1>1. PICK plan, rows : /\ plan = [k \in {returns[r].order} |-> [old |-> r, body |-> NoBody]]
                        /\ rows = SurplusOf(r, BodyItems(returns[r].body))
  OBVIOUS
<1>2. PICK taken, extra : /\ taken = [row \in rows |-> surplus[row[1]][row[2]]]
                          /\ extra = [k \in Items |-> 0]
  OBVIOUS
<1>3. WriteSurplus(plan, extra, rows, taken)
  BY <1>1, <1>2 DEF DeleteReturn
<1>4. surplus[q][i] \in Nat
  BY CreditTypes
<1>5. PICK placed, reopened :
        /\ placed = IF extra[i] > 0 /\ Carrier(plan, i) = q THEN extra[i] ELSE 0
        /\ reopened = IF <<q, i>> \in rows THEN taken[<<q, i>>] ELSE 0
        /\ surplus'[q][i] = surplus[q][i] + placed - reopened
  BY <1>3 DEF WriteSurplus
<1>6. placed = 0
  BY <1>2, <1>5
<1>7. reopened = surplus[q][i]
  <2>1. surplus[q][i] > 0 => <<q, i>> \in rows
    BY <1>1, OfOwnVisit DEF SurplusOf
  <2>2. <<q, i>> \in rows => taken[<<q, i>>] = surplus[q][i]
    BY <1>2
  <2> QED BY <1>4, <1>5, <2>1, <2>2
<1> QED BY <1>4, <1>5, <1>6, <1>7

(* No other step deletes a return without writing another.                  *)
NoneWritten == \A k \in ReturnIds : returns[k].state = "none" => returns'[k].state = "none"

LEMMA EditWritesOne ==
  ASSUME TypeOK, NEW r \in ReturnIds, NEW bodies \in VisitInputs, NEW date, NEW extra,
         ReplaceForCustomer(r, bodies, date, extra)
  PROVE  ~NoneWritten
<1>1. PICK plan : plan = EditPlan(r, bodies)
  OBVIOUS
<1>2. PICK withOrder, visit : WriteReturns(plan, date, withOrder, visit)
  BY <1>1 DEF ReplaceForCustomer, EditPlan, WriteEdit
<1>3. PlanFits(plan)
  BY <1>1, EditFits
<1>4. DOMAIN plan \subseteq OrderIds
  BY <1>3 DEF PlanFits, Live
<1>5. PICK o \in DOMAIN bodies : TRUE
  BY DEF VisitInputs
<1>6. o \in DOMAIN plan /\ plan[o].body = bodies[o]
  BY <1>1, <1>5 DEF EditPlan
<1>7. bodies[o] # NoBody
  BY <1>5 DEF ReplaceForCustomer, Returnable
<1>8. PICK n : n \in NewIds(plan)
  BY <1>6, <1>7 DEF NewIds, Written
<1>9. n \in ReturnIds
  BY <1>2, <1>8 DEF WriteReturns
<1>10. returns[n].state = "none"
  BY <1>4, <1>8, <1>9, NewIsUnused
<1>11. returns'[n].state = "standing"
  BY <1>2, <1>8, <1>9 DEF WriteReturns, NewReturn
<1> QED BY <1>9, <1>10, <1>11 DEF NoneWritten

(* What stood and is taken back is of the plan's; a correction marks it.    *)
LEMMA OnlyOldTakenBack ==
  ASSUME TypeOK, NEW plan, DOMAIN plan \subseteq OrderIds, NEW date, NEW withOrder, NEW visit,
         WriteReturns(plan, date, withOrder, visit), NEW r \in ReturnIds,
         returns[r].state = "standing", returns'[r].state = "DELETE"
  PROVE  r \in TakenBack(plan)
BY WriteReturnsEffect DEF WrittenNow, LeftAlone, TakenBackNow

LEMMA OnlyDeletionDeletes ==
  ASSUME TypeOK, Next, NoneWritten, NEW r \in ReturnIds,
         returns[r].state = "standing", returns'[r].state = "DELETE"
  PROVE  DeleteReturn(r)
<1>1. returns' # returns
  OBVIOUS
<1>2. CASE OrderStep \/ CancelStep \/ PaymentStep \/ HandBackStep \/ ArchiveCustomer
  <2>1. CASE OrderStep
    <3>1. ASSUME NEW o, NEW date, NEW payment, NEW requested, NEW deposit, NEW override,
                 CreateOrder(o, payment, date, requested, deposit, override)
          PROVE  FALSE
      BY <1>1, <3>1 DEF CreateOrder
    <3>2. ASSUME NEW o, NEW date, EditHeader(o, date) PROVE FALSE
      BY <1>1, <3>2 DEF EditHeader
    <3>3. ASSUME NEW o, NEW date, NEW requested, NEW deposit, NEW override,
                 EditLines(o, date, requested, deposit, override)
          PROVE  FALSE
      BY <1>1, <3>3 DEF EditLines
    <3> QED BY <2>1, <3>1, <3>2, <3>3 DEF OrderStep
  <2>2. CASE CancelStep
    BY <1>1, <2>2 DEF CancelStep, CancelOrder
  <2>3. CASE PaymentStep
    BY <1>1, <2>3 DEF PaymentStep, CreatePayment, ReversePayment
  <2>4. CASE HandBackStep
    BY <1>1, <2>4 DEF HandBackStep, HandBack, UndoHandBack
  <2>5. CASE ArchiveCustomer
    BY <1>1, <2>5 DEF ArchiveCustomer
  <2> QED BY <1>2, <2>1, <2>2, <2>3, <2>4, <2>5
<1>3. CASE DeleteStep
  <2>1. PICK q \in ReturnIds : DeleteReturn(q)
    BY <1>3 DEF DeleteStep
  <2>2. PICK plan : plan = [k \in {returns[q].order} |-> [old |-> q, body |-> NoBody]]
    OBVIOUS
  <2>3. WriteReturns(plan, 0, 0, 0) /\ DOMAIN plan \subseteq OrderIds
    BY <2>1, <2>2 DEF DeleteReturn, Live
  <2>4. TakenBack(plan) \subseteq {q}
    BY <2>2 DEF TakenBack
  <2> QED BY <2>1, <2>3, <2>4, OnlyOldTakenBack
<1>4. CASE ReturnStep
  <2>1. PICK date \in Days :
          \/ \E o \in Live : \E body \in FormInputs(o) : CreateReturn(o, body, date)
          \/ \E q \in StandingReturns : \E body \in FormInputs(returns[q].order) :
                ReplaceReturn(q, body, date)
          \/ \E bodies \in VisitInputs, withOrder \in RecordedWith, extra \in ExtraInputs :
                CreateForCustomer(bodies, date, withOrder, extra)
          \/ \E q \in StandingReturns, bodies \in VisitInputs, extra \in ExtraInputs :
                ReplaceForCustomer(q, bodies, date, extra)
    BY <1>4 DEF ReturnStep
  <2>2. ASSUME NEW o \in Live, NEW body, CreateReturn(o, body, date) PROVE FALSE
    <3>1. PICK plan : plan = [k \in {o} |-> [old |-> 0, body |-> body]]
      OBVIOUS
    <3>2. WriteReturns(plan, date, 0, 0) /\ DOMAIN plan \subseteq OrderIds
      BY <2>2, <3>1 DEF CreateReturn, Live
    <3>3. TakenBack(plan) = {}
      BY <3>1 DEF TakenBack
    <3> QED BY <3>2, <3>3, OnlyOldTakenBack
  <2>3. ASSUME NEW bodies \in VisitInputs, NEW withOrder, NEW extra,
               CreateForCustomer(bodies, date, withOrder, extra)
        PROVE  FALSE
    <3>1. PICK plan, visit : /\ plan = [o \in DOMAIN bodies |-> [old |-> 0, body |-> bodies[o]]]
                             /\ WriteReturns(plan, date, withOrder, visit)
      BY <2>3 DEF CreateForCustomer
    <3>2. DOMAIN plan \subseteq OrderIds
      BY <2>3, <3>1 DEF CreateForCustomer, Returnable, Live
    <3>3. TakenBack(plan) = {}
      BY <3>1 DEF TakenBack
    <3> QED BY <3>1, <3>2, <3>3, OnlyOldTakenBack
  <2>4. ASSUME NEW q \in StandingReturns, NEW body, ReplaceReturn(q, body, date) PROVE FALSE
    <3>1. PICK plan, withOrder :
            /\ plan = [k \in {returns[q].order} |-> [old |-> q, body |-> body]]
            /\ withOrder = returns[q].withOrder /\ WriteReturns(plan, date, withOrder, 0)
      BY <2>4 DEF ReplaceReturn
    <3>2. PICK o \in OrderIds : o = returns[q].order /\ body # NoBody
      BY <2>4 DEF ReplaceReturn, Returnable, Live
    <3>3. DOMAIN plan = {o} /\ Written(plan) = {o} /\ \A k \in {o} : plan[k].old = q
      BY <3>1, <3>2 DEF Written
    <3>4. NewIds(plan) # {} /\ NewIds(plan) \subseteq ReturnIds
      BY <3>1, <3>3 DEF NewIds, WriteReturns
    <3>5. PICK n \in NewIds(plan) : TRUE
      BY <3>4
    <3>6. returns[n].state = "none" /\ n \in ReturnIds
      BY <3>3, <3>4, <3>5, NewIsUnused
    <3>7. returns'[n].state = "standing"
      BY <3>1, <3>5, <3>6 DEF WriteReturns, NewReturn
    <3> QED BY <3>6, <3>7 DEF NoneWritten
  <2>5. ASSUME NEW q \in StandingReturns, NEW bodies \in VisitInputs, NEW extra,
               ReplaceForCustomer(q, bodies, date, extra)
        PROVE  FALSE
    BY <2>5, EditWritesOne DEF StandingReturns
  <2> QED BY <2>1, <2>2, <2>3, <2>4, <2>5
<1> QED BY <1>2, <1>3, <1>4 DEF Next

(* A deleted return of a visit takes the visit's surplus of what it took    *)
(* back with it, whichever return of the visit carries it, for any number   *)
(* of returns, corrections and visits.                                      *)
THEOREM VisitSurplusGoes == Spec => VisitSurplusGoesWithItsReturns
<1>1. ASSUME TypeOK, [Next]_vars,
             NEW r \in ReturnIds, NEW q \in ReturnIds, NEW i \in Items,
             returns[r].state = "standing", returns'[r].state = "DELETE",
             returns[r].visit # 0, returns[q].visit = returns[r].visit,
             i \in BodyItems(returns[r].body), NoneWritten
      PROVE  surplus'[q][i] = 0
  <2>1. Next
    BY <1>1 DEF vars
  <2> QED BY <1>1, <2>1, OnlyDeletionDeletes, DeletionTakesVisit
<1>2. TypeOK /\ [Next]_vars =>
        [\A r, q \in ReturnIds, i \in Items :
          /\ returns[r].state = "standing" /\ returns'[r].state = "DELETE"
          /\ returns[r].visit # 0 /\ returns[q].visit = returns[r].visit
          /\ i \in BodyItems(returns[r].body)
          /\ \A k \in ReturnIds : returns[k].state = "none" => returns'[k].state = "none"
          => surplus'[q][i] = 0]_vars
  BY <1>1 DEF NoneWritten
<1>3. Spec => []TypeOK
  BY LendingTyped
<1> QED BY <1>2, <1>3, PTL DEF Spec, VisitSurplusGoesWithItsReturns
-----------------------------------------------------------------------------
(* Two sums of the same terms where they have any. *)
LEMMA SumSameTerms ==
  ASSUME NEW A, IsFiniteSet(A), NEW B, IsFiniteSet(B), NEW f, NEW g,
         \A x \in A : f[x] \in Int /\ (f[x] = 0 \/ (x \in B /\ g[x] = f[x])),
         \A x \in B : g[x] \in Int /\ (g[x] = 0 \/ (x \in A /\ f[x] = g[x]))
  PROVE  SumOver(A, f) = SumOver(B, g)
<1>1. PICK C : C = {x \in A \cap B : f[x] = g[x]}
  OBVIOUS
<1>2. C \in SUBSET A /\ C \in SUBSET B /\ IsFiniteSet(C) /\ \A x \in C : f[x] = g[x]
  <2>1. C \in SUBSET A /\ C \in SUBSET B /\ \A x \in C : f[x] = g[x]
    BY <1>1
  <2> QED BY <2>1, FS_Subset
<1>3. SumOver(A, f) = SumOver(C, f)
  <2>1. (\A x \in C : f[x] \in Int) /\ \A x \in A \ C : f[x] = 0
    BY <1>1, <1>2
  <2> QED BY ONLY IsFiniteSet(A), <1>2, <2>1, SumOfPart
<1>4. SumOver(B, g) = SumOver(C, g)
  <2>1. (\A x \in C : g[x] \in Int) /\ \A x \in B \ C : g[x] = 0
    BY <1>1, <1>2
  <2> QED BY ONLY IsFiniteSet(B), <1>2, <2>1, SumOfPart
<1>5. SumOver(C, f) = SumOver(C, g)
  BY ONLY <1>2, SumAgrees
<1> QED BY <1>3, <1>4, <1>5

LEMMA GoneAtSame ==
  ASSUME NEW S, NEW place, NEW after, NEW left, NEW leftAfter, NEW gone, NEW r \in S,
         leftAfter[r] = left[r],
         SumOver(OlderIn(after, S, r), leftAfter) = SumOver(OlderIn(place, S, r), left)
  PROVE  Gone(after, S, leftAfter, gone)[r] = Gone(place, S, left, gone)[r]
BY DEF Gone

OlderNested(place, S, T) ==
    \A z \in T : /\ z \in S /\ z \notin OlderIn(place, S, z) /\ OlderIn(place, S, z) \subseteq T
                 /\ OlderIn(place, T, z) = OlderIn(place, S, z)
LEMMA OlderIsTransitive ==
  ASSUME NEW S, S \subseteq Int, NEW place, \A x \in S : place[x] \in Int, NEW r \in S,
         NEW T, T = OlderIn(place, S, r)
  PROVE  OlderNested(place, S, T)
<1> SUFFICES ASSUME NEW z \in T
             PROVE /\ z \in S /\ z \notin OlderIn(place, S, z)
                   /\ OlderIn(place, S, z) \subseteq T
                   /\ OlderIn(place, T, z) = OlderIn(place, S, z)
  BY DEF OlderNested
<1>1. z \in S /\ Before(place, z, r)
  BY DEF OlderIn
<1>2. \A q \in S : Before(place, q, z) => Before(place, q, r)
  <2> SUFFICES ASSUME NEW q \in S, Before(place, q, z) PROVE Before(place, q, r)
    OBVIOUS
  <2>1. /\ q \in Int /\ z \in Int /\ r \in Int
        /\ place[q] \in Int /\ place[z] \in Int /\ place[r] \in Int
    BY <1>1
  <2> QED BY <1>1, <2>1 DEF Before
<1>3. ~ Before(place, z, z)
  <2>1. z \in Int /\ place[z] \in Int
    BY <1>1
  <2> QED BY <2>1 DEF Before
<1> QED BY <1>1, <1>2, <1>3 DEF OlderIn

(* Behind a return some of whose surplus remains nothing has gone out, and  *)
(* nothing will have, if before it no less is left than had gone.           *)
LeftBehind(place, after, S, r, used, leftAfter) ==
    \A x \in OlderIn(place, S, r) :
        used[x] = 0 \/ (x \in OlderIn(after, S, r) /\ used[x] <= leftAfter[x])
NoneOfIt(used, after, S, leftAfter, gone, r) ==
    used[r] = 0 /\ Gone(after, S, leftAfter, gone)[r] = 0
LEMMA NothingGoneBehind ==
  ASSUME NEW S, IsFiniteSet(S), S \subseteq Int,
         NEW place, \A x \in S : place[x] \in Int,
         NEW after, \A x \in S : after[x] \in Int,
         NEW left, \A x \in S : left[x] \in Nat,
         NEW leftAfter, \A x \in S : leftAfter[x] \in Nat,
         NEW gone \in Nat, NEW used, used = Gone(place, S, left, gone), NEW r \in S,
         NEW z \in OlderIn(place, S, r), used[z] < left[z],
         LeftBehind(place, after, S, r, used, leftAfter)
  PROVE  NoneOfIt(used, after, S, leftAfter, gone, r)
<1>0. \A x \in OlderIn(place, S, r) :
         used[x] = 0 \/ (x \in OlderIn(after, S, r) /\ used[x] <= leftAfter[x])
  BY DEF LeftBehind
<1>1. PICK T, U : T = OlderIn(place, S, r) /\ U = OlderIn(after, S, r)
  OBVIOUS
<1>2. /\ T \subseteq S /\ U \subseteq S /\ IsFiniteSet(T) /\ IsFiniteSet(U) /\ T \subseteq Int
      /\ T \cap U \subseteq T /\ T \cap U \subseteq U /\ IsFiniteSet(T \cap U)
  <2>1. T \subseteq S /\ U \subseteq S
    BY <1>1 DEF OlderIn
  <2> QED BY <2>1, FS_Subset
<1>3. \A x \in S : /\ used[x] = LesserOf(ZeroOrMore(gone - SumOver(OlderIn(place, S, x), left)), left[x])
                   /\ SumOver(OlderIn(place, S, x), left) \in Nat
  <2> SUFFICES ASSUME NEW x \in S
               PROVE /\ used[x] = LesserOf(ZeroOrMore(gone - SumOver(OlderIn(place, S, x), left)), left[x])
                     /\ SumOver(OlderIn(place, S, x), left) \in Nat
    OBVIOUS
  <2>1. OlderIn(place, S, x) \subseteq S
    BY DEF OlderIn
  <2>2. IsFiniteSet(OlderIn(place, S, x))
    BY <2>1, FS_Subset
  <2>3. SumOver(OlderIn(place, S, x), left) \in Nat
    <3>1. \A q \in OlderIn(place, S, x) : left[q] \in Nat
      BY <2>1
    <3> QED BY <2>2, <3>1, SumIsNat
  <2> QED BY <2>3 DEF Gone
<1>4. \A x \in S : used[x] \in Nat
  <2> SUFFICES ASSUME NEW x \in S PROVE used[x] \in Nat
    OBVIOUS
  <2>1. PICK n \in Nat : n = SumOver(OlderIn(place, S, x), left)
    BY <1>3
  <2>2. used[x] = LesserOf(ZeroOrMore(gone - n), left[x]) /\ left[x] \in Nat
    BY <1>3, <2>1
  <2> QED BY <2>2 DEF LesserOf, ZeroOrMore
<1>5. PICK Z : Z = OlderIn(place, S, z)
  OBVIOUS
<1>6. z \in S /\ z \in T /\ z \notin Z /\ Z \subseteq T /\ Z \cup {z} \subseteq T
  <2>1. OlderNested(place, S, T)
    BY <1>1, OlderIsTransitive
  <2> QED BY <1>1, <1>5, <2>1 DEF OlderNested
<1>7. gone <= SumOver(T, left)
  <2>1. IsFiniteSet(Z) /\ \A x \in Z \cup {z} : left[x] \in Int
    <3>1. Z \cup {z} \subseteq S
      BY <1>2, <1>6
    <3>2. \A x \in Z \cup {z} : left[x] \in Nat
      BY <3>1
    <3>3. IsFiniteSet(Z)
      BY <1>2, <1>6, FS_Subset
    <3> QED BY <3>2, <3>3
  <2>2. SumOver(Z \cup {z}, left) = SumOver(Z, left) + left[z]
    BY ONLY <1>6, <2>1, SumOneAdded
  <2>3. SumOver(Z \cup {z}, left) <= SumOver(T, left)
    <3>1. \A x \in T : left[x] \in Nat
      BY <1>2
    <3> QED BY <1>2, <1>6, <3>1, SumOfPartAtMost
  <2>4. PICK n, m : n = SumOver(Z, left) /\ m = SumOver(T, left)
    OBVIOUS
  <2>5. n \in Nat /\ m \in Nat /\ left[z] \in Nat
    BY <1>1, <1>3, <1>5, <1>6, <2>4
  <2>6. LesserOf(ZeroOrMore(gone - n), left[z]) < left[z]
    BY <1>3, <1>5, <1>6, <2>4
  <2>7. gone < n + left[z]
    BY <2>5, <2>6 DEF LesserOf, ZeroOrMore
  <2> QED BY <2>2, <2>3, <2>4, <2>5, <2>7
<1>8. used[r] = 0
  <2>1. PICK m \in Nat : m = SumOver(T, left)
    BY <1>1, <1>3
  <2>2. used[r] = LesserOf(ZeroOrMore(gone - m), left[r]) /\ left[r] \in Nat /\ gone <= m
    BY <1>1, <1>3, <1>7, <2>1, SMTT(30)
  <2> QED BY <2>2 DEF LesserOf, ZeroOrMore
<1>9. SumOver(T, used) = gone
  <2>1. PICK w : w = Gone(place, T, left, gone)
    OBVIOUS
  <2>2. SumOver(T, w) = LesserOf(gone, SumOver(T, left))
    <3>1. \A x \in T : place[x] \in Int /\ left[x] \in Nat
      BY <1>2
    <3> QED BY <1>2, <2>1, <3>1, GoneInOrder
  <2>3. \A x \in T : w[x] = used[x]
    <3> SUFFICES ASSUME NEW x \in T PROVE w[x] = used[x]
      OBVIOUS
    <3>1. OlderIn(place, T, x) = OlderIn(place, S, x) /\ x \in S
      <4>1. \A y \in T : y \in S /\ OlderIn(place, T, y) = OlderIn(place, S, y)
        BY <1>1, OlderIsTransitive DEF OlderNested
      <4> QED BY <4>1
    <3>2. w[x] = LesserOf(ZeroOrMore(gone - SumOver(OlderIn(place, T, x), left)), left[x])
      BY <2>1 DEF Gone
    <3> QED BY <1>3, <3>1, <3>2
  <2>4. SumOver(T, w) = SumOver(T, used)
    BY <1>2, <2>3, SumAgrees
  <2>5. PICK m \in Nat : m = SumOver(T, left)
    BY <1>1, <1>3
  <2> QED BY <1>7, <2>2, <2>4, <2>5 DEF LesserOf
<1>10. SumOver(T, used) = SumOver(T \cap U, used)
  <2>1. PICK P : P = T \cap U
    OBVIOUS
  <2>2. P \in SUBSET T /\ (\A x \in P : used[x] \in Int) /\ \A x \in T \ P : used[x] = 0
    BY <1>0, <1>1, <1>2, <1>4, <2>1
  <2>3. SumOver(T, used) = SumOver(P, used)
    BY ONLY <1>2, <2>2, SumOfPart
  <2> QED BY <2>1, <2>3
<1>11. SumOver(T \cap U, used) <= SumOver(T \cap U, leftAfter)
  <2>1. \A x \in T \cap U : used[x] \in Int /\ leftAfter[x] \in Int /\ used[x] <= leftAfter[x]
    <3> SUFFICES ASSUME NEW x \in T \cap U
                 PROVE used[x] \in Int /\ leftAfter[x] \in Int /\ used[x] <= leftAfter[x]
      OBVIOUS
    <3>1. used[x] \in Nat /\ leftAfter[x] \in Nat
      BY <1>2, <1>4
    <3>2. used[x] = 0 \/ used[x] <= leftAfter[x]
      BY <1>0, <1>1
    <3> QED BY <3>1, <3>2
  <2> QED BY <1>2, <2>1, SumAtMost
<1>12. SumOver(T \cap U, leftAfter) <= SumOver(U, leftAfter)
  BY <1>2, SumOfPartAtMost
<1>13. SumOver(U, leftAfter) \in Nat /\ SumOver(T \cap U, leftAfter) \in Nat
  BY <1>2, SumIsNat
<1>14. Gone(after, S, leftAfter, gone)[r] = 0
  <2>1. Gone(after, S, leftAfter, gone)[r]
          = LesserOf(ZeroOrMore(gone - SumOver(U, leftAfter)), leftAfter[r])
    BY <1>1 DEF Gone
  <2>2. PICK n \in Nat : n = SumOver(U, leftAfter)
    BY <1>13
  <2>3. gone <= n
    <3>1. PICK a, b : a = SumOver(T \cap U, used) /\ b = SumOver(T \cap U, leftAfter)
      BY Zenon
    <3>2. a = gone /\ a <= b /\ b <= n /\ b \in Nat
      BY <1>9, <1>10, <1>11, <1>12, <1>13, <2>2, <3>1
    <3> QED BY <3>2
  <2>4. leftAfter[r] \in Nat
    OBVIOUS
  <2> QED BY <2>1, <2>2, <2>3, <2>4 DEF LesserOf, ZeroOrMore
<1> QED BY <1>8, <1>14 DEF NoneOfIt
-----------------------------------------------------------------------------
(* What holds of a return when it holds of all before it holds of every one.*)
LEMMA ByEarlier ==
  ASSUME NEW G, \A r \in ReturnIds : (\A q \in ReturnIds : q < r => q \in G) => r \in G
  PROVE  \A r \in ReturnIds : r \in G
<1> SUFFICES ASSUME NEW r \in ReturnIds, r \notin G PROVE FALSE
  OBVIOUS
<1>1. PICK S : S = ReturnIds \ G
  OBVIOUS
<1>2. S \in SUBSET (0 .. MaxReturns) /\ S # {}
  BY <1>1, BoundsAssumption DEF ReturnIds
<1>3. PICK m \in S : \A n \in S : m <= n
  BY <1>2, BoundsAssumption, SmallestCount
<1>4. m \in ReturnIds /\ m \notin G
  BY <1>1
<1>5. ASSUME NEW q \in ReturnIds, q < m PROVE q \in G
  <2>1. q \in Int /\ m \in Int
    BY <1>4 DEF ReturnIds
  <2>2. ~ (m <= q)
    BY <1>5, <2>1
  <2> QED BY <1>1, <1>3, <2>2
<1> QED BY <1>4, <1>5

LEMMA FirstBehind ==
  ASSUME NEW i, NEW r \in ReturnIds, Behind(i, r) # {}
  PROVE  Min(Behind(i, r)) \in Behind(i, r)
<1>1. Behind(i, r) \in SUBSET (0 .. MaxReturns)
  BY BoundsAssumption DEF ReturnIds, Behind, Replaced
<1> QED BY <1>1, BoundsAssumption, SmallestCount

(* Each return's place, in this state and the next.                         *)
PlacedBehind(i, r) ==
    Place(i)[r] = IF Behind(i, r) = {} THEN r ELSE Place(i)[Min(Behind(i, r))]
LEMMA PlacesAre ==
  \A i : \A r \in ReturnIds :
    /\ PlacedBehind(i, r) /\ Place(i)[r] \in ReturnIds
    /\ Behind(i, r) # {} => Min(Behind(i, r)) \in Behind(i, r)
<1> SUFFICES ASSUME NEW i, NEW r \in ReturnIds
             PROVE /\ PlacedBehind(i, r) /\ Place(i)[r] \in ReturnIds
                   /\ Behind(i, r) # {} => Min(Behind(i, r)) \in Behind(i, r)
  OBVIOUS
<1>1. PICK P : P = Place(i)
  OBVIOUS
<1>2. P[r] = IF Behind(i, r) = {} THEN r ELSE P[Min(Behind(i, r))]
  <2>1. Places(i, P, ReturnIds)
    BY <1>1, PlacesExist
  <2> QED BY <2>1 DEF Places
<1>3. PlacedBehind(i, r)
  BY <1>1, <1>2 DEF PlacedBehind
<1> QED BY <1>3, PlaceIsReturn, FirstBehind

LEMMA PlacesAreAfter ==
  (\A i : \A r \in ReturnIds :
    /\ PlacedBehind(i, r) /\ Place(i)[r] \in ReturnIds
    /\ Behind(i, r) # {} => Min(Behind(i, r)) \in Behind(i, r))'
BY PlacesAre, PTL

LEMMA PlaceAtMost ==
  ASSUME NEW i PROVE \A r \in ReturnIds : Place(i)[r] <= r
<1>1. PICK P : P = Place(i)
  OBVIOUS
<1>2. PICK G : G = {r \in ReturnIds : P[r] <= r}
  OBVIOUS
<1>3. ASSUME NEW r \in ReturnIds, \A q \in ReturnIds : q < r => q \in G
      PROVE  r \in G
  <2>1. CASE Behind(i, r) = {}
    <3>1. P[r] = r
      BY <1>1, <2>1, PlacesAre DEF PlacedBehind
    <3> QED BY <1>2, <3>1 DEF ReturnIds
  <2>2. CASE Behind(i, r) # {}
    <3>1. PICK b : b = Min(Behind(i, r))
      OBVIOUS
    <3>2. b \in Behind(i, r) /\ P[r] = P[b] /\ P[b] \in ReturnIds
      <4>1. b \in Behind(i, r)
        BY <2>2, <3>1, FirstBehind
      <4>2. b \in ReturnIds
        BY <4>1 DEF Behind, Replaced
      <4> QED BY <1>1, <2>2, <3>1, <4>1, <4>2, PlacesAre DEF PlacedBehind
    <3>3. b \in ReturnIds /\ b < r
      BY <3>2 DEF Behind, Replaced
    <3>4. P[b] <= b
      BY <1>2, <1>3, <3>3
    <3>5. P[b] \in Int /\ b \in Int /\ r \in Int
      BY <3>2, <3>3 DEF ReturnIds
    <3>6. P[r] <= r
      BY <3>2, <3>3, <3>4, <3>5
    <3> QED BY <1>2, <3>6
  <2> QED BY <2>1, <2>2
<1>4. \A r \in ReturnIds : r \in G
  BY <1>3, ByEarlier
<1> QED BY <1>1, <1>2, <1>4

(* Returns with the same behind them keep their places.                     *)
LEMMA SamePlaces ==
  ASSUME NEW i, NEW new,
         \A r \in ReturnIds \ new : Behind(i, r)' = Behind(i, r) /\ Behind(i, r) \cap new = {}
  PROVE  \A r \in ReturnIds \ new : Place(i)'[r] = Place(i)[r]
<1>1. PICK P, N : P = Place(i) /\ N = Place(i)'
  OBVIOUS
<1>2. PICK G : G = {r \in ReturnIds : r \notin new => N[r] = P[r]}
  OBVIOUS
<1>3. ASSUME NEW r \in ReturnIds, \A q \in ReturnIds : q < r => q \in G
      PROVE  r \in G
  <2> SUFFICES ASSUME r \notin new PROVE N[r] = P[r]
    BY <1>2
  <2>1. PICK B : B = Behind(i, r) /\ B = Behind(i, r)' /\ B \cap new = {}
    OBVIOUS
  <2>2. P[r] = (IF B = {} THEN r ELSE P[Min(B)]) /\ (B # {} => Min(B) \in B)
    BY <1>1, <2>1, PlacesAre DEF PlacedBehind
  <2>3. N[r] = IF B = {} THEN r ELSE N[Min(B)]
    BY <1>1, <2>1, PlacesAreAfter DEF PlacedBehind
  <2>4. B # {} => Min(B) \in ReturnIds /\ Min(B) < r /\ Min(B) \notin new
    BY <2>1, <2>2 DEF Behind, Replaced
  <2>5. B # {} => N[Min(B)] = P[Min(B)]
    BY <1>2, <1>3, <2>4
  <2> QED BY <2>2, <2>3, <2>5
<1>4. \A r \in ReturnIds : r \in G
  BY <1>3, ByEarlier
<1> QED BY <1>1, <1>2, <1>4

(* What a plan does to the chains of corrections: each return it writes is  *)
(* newer than all there were and replaces one of those taken back or none;  *)
(* what was credited to the others stays so.                                *)
Replaces(new, old) ==
    /\ new \subseteq ReturnIds /\ old \subseteq StandingReturns
    /\ \A k \in new :
          /\ returns[k].state = "none" /\ returns'[k].state = "standing"
          /\ returns'[k].replacedBy = 0
          /\ \A q \in ReturnIds : returns[q].state # "none" => q < k
    /\ \A q \in old : /\ returns'[q].state \in {"EDIT", "DELETE"}
                      /\ returns'[q].replacedBy # 0
                           => returns'[q].replacedBy \in new /\ returns'[q].state = "EDIT"
    /\ \A q, p \in old : returns'[q].replacedBy = returns'[p].replacedBy
                           => q = p \/ returns'[q].replacedBy = 0
    /\ \A q \in ReturnIds \ (new \cup old) : returns'[q] = returns[q]
    /\ \A q \in ReturnIds \ new : credited'[q] = credited[q]

LEMMA NewIsNewest ==
  ASSUME TypeOK, NEW plan, DOMAIN plan \subseteq OrderIds, NEW k \in NewIds(plan), k \in ReturnIds
  PROVE  \A q \in ReturnIds : returns[q].state # "none" => q < k
<1>1. PICK used : used = {0} \cup {q \in ReturnIds : returns[q].state # "none"}
  OBVIOUS
<1>2. PICK o \in Written(plan) : k = FirstNew + Cardinality({p \in Written(plan) : p < o})
  BY DEF NewIds, NewId
<1>3. Cardinality({p \in Written(plan) : p < o}) \in Nat
  <2>1. {p \in Written(plan) : p < o} \subseteq OrderIds
    BY DEF Written
  <2> QED BY <2>1, RowsAreFinite, FS_Subset, FS_CardinalityType
<1>4. used \in SUBSET (0 .. MaxReturns) /\ used # {}
  BY <1>1, BoundsAssumption DEF ReturnIds
<1>5. PICK top : top = Max(used) /\ top \in used /\ \A n \in used : n <= top
  BY <1>4, LargestCount, BoundsAssumption
<1>6. FirstNew = 1 + top
  BY <1>1, <1>5 DEF FirstNew
<1> SUFFICES ASSUME NEW q \in ReturnIds, returns[q].state # "none" PROVE q < k
  OBVIOUS
<1>7. q \in used /\ q <= top
  BY <1>1, <1>5
<1>8. q \in Int /\ top \in Int
  BY <1>4, <1>5 DEF ReturnIds
<1> QED BY <1>2, <1>3, <1>6, <1>7, <1>8

LEMMA PlanReplaces ==
  ASSUME LedgerInv, NEW plan, PlanFits(plan), NEW date, NEW withOrder, NEW visit,
         WriteReturns(plan, date, withOrder, visit),
         \A q \in ReturnIds \ NewIds(plan) : credited'[q] = credited[q]
  PROVE  Replaces(NewIds(plan), TakenBack(plan))
<1> DEFINE replacement(q) == LET o == OrderOfOld(plan, q)
                             IN  IF o \in Written(plan) THEN NewId(plan, o) ELSE 0
<1>1. PICK new, old : new = NewIds(plan) /\ old = TakenBack(plan)
  OBVIOUS
<1>2. TypeOK /\ DOMAIN plan \subseteq OrderIds
  BY DEF PlanFits, Live, LedgerInv
<1>3. new \subseteq ReturnIds /\ old \subseteq StandingReturns
  BY <1>1, PlanRows, TakenBackOfOrder
<1>4. ASSUME NEW k \in new
      PROVE  /\ returns[k].state = "none" /\ returns'[k].state = "standing"
             /\ returns'[k].replacedBy = 0
  <2>1. PICK o \in Written(plan) : k = NewId(plan, o)
    BY <1>1 DEF NewIds
  <2>2. returns'[k] = NewReturn(o, TakenBack(plan), plan[o].body, date, withOrder, visit)
    BY <2>1, PlanRows
  <2> QED BY <1>1, <2>2, PlanRows DEF NewReturn
<1>5. \A k \in new : \A q \in ReturnIds : returns[q].state # "none" => q < k
  BY <1>1, <1>2, <1>3, NewIsNewest
<1>6. ASSUME NEW q \in ReturnIds, q \notin new
      PROVE  returns'[q] = IF q \in old THEN Reversed(q, replacement(q)) ELSE returns[q]
  BY <1>1, <1>6 DEF WriteReturns
<1>7. ASSUME NEW q \in old
      PROVE  /\ q \in ReturnIds \ new /\ returns[q] \in ReturnRows
             /\ plan[OrderOfOld(plan, q)].old = q
             /\ replacement(q) # 0 => /\ OrderOfOld(plan, q) \in Written(plan)
                                      /\ replacement(q) = NewId(plan, OrderOfOld(plan, q))
                                      /\ replacement(q) \in new
  <2>1. q \in ReturnIds \ new
    BY <1>3, <1>4 DEF StandingReturns
  <2>2. \E o \in DOMAIN plan : plan[o].old = q
    BY <1>1 DEF TakenBack
  <2>3. plan[OrderOfOld(plan, q)].old = q
    BY <2>2 DEF OrderOfOld
  <2> QED BY <1>1, <1>2, <2>1, <2>3 DEF NewIds, TypeOK
<1> HIDE DEF replacement
<1>8. ASSUME NEW q \in old
      PROVE  /\ returns'[q].replacedBy = replacement(q)
             /\ returns'[q].state = IF replacement(q) = 0 THEN "DELETE" ELSE "EDIT"
  <2>1. returns'[q] = Reversed(q, replacement(q)) /\ returns[q] \in ReturnRows
    BY <1>6, <1>7
  <2> QED BY <2>1 DEF Reversed, ReturnRows
<1>9. ASSUME NEW q \in old, NEW p \in old, replacement(q) = replacement(p), replacement(q) # 0
      PROVE  q = p
  <2>1. PICK n, m : n = OrderOfOld(plan, q) /\ m = OrderOfOld(plan, p)
    OBVIOUS
  <2>2. n \in Written(plan) /\ m \in Written(plan) /\ NewId(plan, n) = NewId(plan, m)
    BY <1>7, <1>9, <2>1
  <2>3. n = m
    BY <1>2, <2>2, NewIdsDiffer
  <2>4. plan[n].old = q
    BY <1>7, <2>1
  <2>5. plan[m].old = p
    BY <1>7, <2>1
  <2> QED BY <2>3, <2>4, <2>5
<1>10. Replaces(new, old)
  <2>1. \A q \in old : /\ returns'[q].state \in {"EDIT", "DELETE"}
                       /\ returns'[q].replacedBy # 0
                            => returns'[q].replacedBy \in new /\ returns'[q].state = "EDIT"
    BY <1>7, <1>8
  <2>2. \A q, p \in old : returns'[q].replacedBy = returns'[p].replacedBy
                            => q = p \/ returns'[q].replacedBy = 0
    BY <1>8, <1>9
  <2>3. \A q \in ReturnIds \ (new \cup old) : returns'[q] = returns[q]
    BY <1>6
  <2>4. \A q \in ReturnIds \ new : credited'[q] = credited[q]
    BY <1>1
  <2> QED BY <1>3, <1>4, <1>5, <2>1, <2>2, <2>3, <2>4 DEF Replaces
<1> QED BY <1>1, <1>10
-----------------------------------------------------------------------------
(* Surplus is of a return with rows of the item; only a corrected return is *)
(* replaced, by one written since; and two that stand have different places.*)
PlacesApart(i) == \A x, y \in StandingReturns : x # y => Place(i)[x] # Place(i)[y]
SurplusIsCredited == \A q \in ReturnIds, i \in Items : surplus[q][i] > 0 => i \in credited[q]
ChainInv ==
    /\ SurplusIsCredited
    /\ \A q \in ReturnIds : returns[q].replacedBy # 0 =>
          returns[q].state = "EDIT" /\ returns[returns[q].replacedBy].state # "none"
    /\ \A i \in Items : PlacesApart(i)

(* The places after a plan: the same, but that a correction of a return with*)
(* rows of the item takes that return's.                                    *)
LEMMA PlacesAfter ==
  ASSUME TypeOK, ChainInv, NEW new, NEW old, Replaces(new, old), NEW i
  PROVE  /\ \A r \in ReturnIds \ new : Place(i)'[r] = Place(i)[r]
         /\ \A k \in new : \/ Place(i)'[k] = k
                           \/ \E q \in old : /\ i \in credited[q] /\ returns'[q].replacedBy = k
                                             /\ Place(i)'[k] = Place(i)[q]
         /\ \A k \in new, q \in old : i \in credited[q] /\ returns'[q].replacedBy = k
                                         => Place(i)'[k] = Place(i)[q]
<1>0. 0 \notin ReturnIds
  BY BoundsAssumption DEF ReturnIds
<1>1. ASSUME NEW r \in ReturnIds \ new
      PROVE  Behind(i, r)' = Behind(i, r) /\ Behind(i, r) \cap new = {}
  <2>1. ASSUME NEW q \in ReturnIds, returns[q].replacedBy = r
        PROVE  q \notin new /\ q \notin old
    <3>1. returns[q].state = "EDIT"
      BY <1>0, <2>1 DEF ChainInv
    <3> QED BY <3>1 DEF Replaces, StandingReturns
  <2>2. ASSUME NEW q \in ReturnIds, returns'[q].replacedBy = r
        PROVE  q \notin new /\ q \notin old
    BY <1>0, <1>1, <2>2 DEF Replaces
  <2>3. \A q \in ReturnIds : q \notin new /\ q \notin old
           => returns'[q] = returns[q] /\ credited'[q] = credited[q]
    BY DEF Replaces
  <2>4. Behind(i, r) = {q \in ReturnIds : returns[q].replacedBy = r /\ q < r /\ i \in credited[q]}
    BY DEF Behind, Replaced
  <2>5. Behind(i, r)' = {q \in ReturnIds : returns'[q].replacedBy = r /\ q < r /\ i \in credited'[q]}
    BY DEF Behind, Replaced
  <2> QED BY <2>1, <2>2, <2>3, <2>4, <2>5
<1>2. \A r \in ReturnIds \ new : Place(i)'[r] = Place(i)[r]
  BY <1>1, SamePlaces
<1>3. ASSUME NEW k \in new
      PROVE  Behind(i, k)' = {q \in old : returns'[q].replacedBy = k /\ i \in credited[q]}
  <2>1. k \in ReturnIds /\ returns[k].state = "none"
    BY DEF Replaces
  <2>2. Behind(i, k)' = {q \in ReturnIds : returns'[q].replacedBy = k /\ q < k /\ i \in credited'[q]}
    BY DEF Behind, Replaced
  <2>3. ASSUME NEW q \in ReturnIds, returns'[q].replacedBy = k PROVE q \in old
    <3>1. q \notin new
      BY <1>0, <2>1, <2>3 DEF Replaces
    <3>2. q \notin old => returns[q].replacedBy = k
      BY <2>3, <3>1 DEF Replaces
    <3>3. returns[q].replacedBy # k
      BY <1>0, <2>1 DEF ChainInv
    <3> QED BY <3>2, <3>3
  <2>4. ASSUME NEW q \in old PROVE q \in ReturnIds /\ q < k /\ credited'[q] = credited[q]
    <3>1. q \in ReturnIds /\ returns[q].state = "standing" /\ q \notin new
      BY DEF Replaces, StandingReturns
    <3> QED BY <3>1 DEF Replaces
  <2> QED BY <2>2, <2>3, <2>4
<1>4. ASSUME NEW k \in new, NEW q \in old, i \in credited[q], returns'[q].replacedBy = k
      PROVE  Place(i)'[k] = Place(i)[q]
  <2>1. PICK B : B = Behind(i, k)'
    OBVIOUS
  <2>2. k \in ReturnIds /\ q \in ReturnIds \ new /\ k # 0
    BY <1>0 DEF Replaces, StandingReturns
  <2>3. q \in B /\ \A p \in B : p = q
    BY <1>3, <1>4, <2>1, <2>2 DEF Replaces
  <2>4. Place(i)'[k] = Place(i)'[Min(B)] /\ Min(B) \in B
    BY <2>1, <2>2, <2>3, PlacesAreAfter DEF PlacedBehind
  <2> QED BY <1>2, <2>2, <2>3, <2>4
<1>5. ASSUME NEW k \in new
      PROVE  \/ Place(i)'[k] = k
             \/ \E q \in old : /\ i \in credited[q] /\ returns'[q].replacedBy = k
                               /\ Place(i)'[k] = Place(i)[q]
  <2>1. k \in ReturnIds
    BY DEF Replaces
  <2>2. CASE Behind(i, k)' = {}
    BY <2>1, <2>2, PlacesAreAfter DEF PlacedBehind
  <2>3. CASE Behind(i, k)' # {}
    <3>1. PICK q \in old : returns'[q].replacedBy = k /\ i \in credited[q]
      BY <1>3, <2>3
    <3> QED BY <1>4, <3>1
  <2> QED BY <2>2, <2>3
<1> QED BY <1>2, <1>4, <1>5

LEMMA ChainKept ==
  ASSUME TypeOK, ChainInv, NEW new, NEW old, Replaces(new, old), SurplusIsCredited'
  PROVE  ChainInv'
<1>0. 0 \notin ReturnIds
  BY BoundsAssumption DEF ReturnIds
<1>1. ASSUME NEW q \in ReturnIds, returns[q].state # "none" PROVE returns'[q].state # "none"
  BY <1>1 DEF Replaces
<1>2. ASSUME NEW q \in ReturnIds, returns'[q].replacedBy # 0
      PROVE  returns'[q].state = "EDIT" /\ returns'[returns'[q].replacedBy].state # "none"
  <2>1. CASE q \in new
    BY <1>2, <2>1 DEF Replaces
  <2>2. CASE q \in old
    BY <1>2, <2>2 DEF Replaces
  <2>3. CASE q \notin new /\ q \notin old
    <3>1. PICK k : k = returns[q].replacedBy
      OBVIOUS
    <3>2. returns'[q] = returns[q] /\ k # 0 /\ returns[q].state = "EDIT"
          /\ returns[k].state # "none"
      BY <1>2, <2>3, <3>1 DEF Replaces, ChainInv
    <3>3. k \in ReturnIds
      <4>1. returns[q] \in ReturnRows
        BY DEF TypeOK
      <4> QED BY <3>1, <3>2, <4>1, BoundsAssumption DEF ReturnRows, ReturnIds
    <3> QED BY <1>1, <3>1, <3>2, <3>3
  <2> QED BY <2>1, <2>2, <2>3
<1>3. ASSUME NEW i \in Items PROVE PlacesApart(i)'
  <2>1. PICK P, N : P = Place(i) /\ N = Place(i)'
    OBVIOUS
  <2>2. PICK stand : stand = StandingReturns \ old
    OBVIOUS
  <2>3. \A r \in StandingReturns' : r \in new \/ r \in stand
    <3> SUFFICES ASSUME NEW r \in ReturnIds, returns'[r].state = "standing", r \notin new
                 PROVE r \in stand
      BY DEF StandingReturns
    <3>1. r \notin old
      BY DEF Replaces
    <3> QED BY <2>2, <3>1 DEF Replaces, StandingReturns
  <2>4. \A r \in stand : r \in ReturnIds \ new /\ N[r] = P[r] /\ P[r] \in Int /\ r \in Int /\ P[r] <= r
                         /\ returns[r].state # "none"
    <3> SUFFICES ASSUME NEW r \in stand
                 PROVE r \in ReturnIds \ new /\ N[r] = P[r] /\ P[r] \in Int /\ r \in Int /\ P[r] <= r
                       /\ returns[r].state # "none"
      OBVIOUS
    <3>1. r \in ReturnIds \ new /\ returns[r].state # "none"
      BY <2>2 DEF Replaces, StandingReturns
    <3>2. P[r] \in ReturnIds /\ P[r] <= r
      BY <2>1, <3>1, PlaceIsReturn, PlaceAtMost
    <3> QED BY <2>1, <3>1, <3>2, PlacesAfter DEF ReturnIds
  <2>5. \A q \in old : /\ q \in StandingReturns /\ q \in ReturnIds /\ P[q] \in Int /\ q \in Int
                       /\ P[q] <= q /\ returns[q].state # "none"
    <3> SUFFICES ASSUME NEW q \in old
                 PROVE /\ q \in StandingReturns /\ q \in ReturnIds /\ P[q] \in Int /\ q \in Int
                       /\ P[q] <= q /\ returns[q].state # "none"
      OBVIOUS
    <3>1. q \in StandingReturns /\ q \in ReturnIds /\ returns[q].state # "none"
      BY DEF Replaces, StandingReturns
    <3>2. P[q] \in ReturnIds /\ P[q] <= q
      BY <2>1, <3>1, PlaceIsReturn, PlaceAtMost
    <3> QED BY <3>1, <3>2 DEF ReturnIds
  <2>6. \A k \in new : /\ k \in Int
                       /\ \A q \in ReturnIds : returns[q].state # "none" => q < k
                       /\ \/ N[k] = k
                          \/ \E q \in old : returns'[q].replacedBy = k /\ N[k] = P[q]
    <3> SUFFICES ASSUME NEW k \in new
                 PROVE /\ k \in Int
                       /\ \A q \in ReturnIds : returns[q].state # "none" => q < k
                       /\ \/ N[k] = k
                          \/ \E q \in old : returns'[q].replacedBy = k /\ N[k] = P[q]
      OBVIOUS
    <3>1. k \in Int /\ \A q \in ReturnIds : returns[q].state # "none" => q < k
      BY DEF Replaces, ReturnIds
    <3>2. N[k] = k \/ \E q \in old : returns'[q].replacedBy = k /\ N[k] = P[q]
      BY <2>1, PlacesAfter
    <3> QED BY <3>1, <3>2
  <2>7. \A x, y \in StandingReturns : x # y => P[x] # P[y]
    BY <2>1 DEF ChainInv, PlacesApart
  <2>8. ASSUME NEW k \in new, NEW y \in stand PROVE N[k] # N[y]
    <3>1. CASE N[k] = k
      <4>1. y < k /\ N[y] <= y /\ y \in Int /\ k \in Int /\ N[y] \in Int
        BY <2>4, <2>6
      <4> QED BY <3>1, <4>1
    <3>2. CASE N[k] # k
      <4>1. PICK q \in old : N[k] = P[q]
        BY <2>6, <3>2
      <4>2. q # y /\ q \in StandingReturns /\ y \in StandingReturns
        BY <2>2, <2>5
      <4> QED BY <2>4, <2>7, <4>1, <4>2
    <3> QED BY <3>1, <3>2
  <2>9. ASSUME NEW k \in new, NEW y \in new, k # y PROVE N[k] # N[y]
    <3>1. k \in Int /\ y \in Int
      BY <2>6
    <3>2. ASSUME NEW q \in old PROVE P[q] # k /\ P[q] # y
      <4>1. P[q] <= q /\ q < k /\ q < y /\ P[q] \in Int /\ q \in Int
        BY <2>5, <2>6
      <4> QED BY <3>1, <4>1
    <3>3. CASE N[k] = k \/ N[y] = y
      BY <2>6, <2>9, <3>2, <3>3
    <3>4. CASE N[k] # k /\ N[y] # y
      <4>1. PICK q \in old : returns'[q].replacedBy = k /\ N[k] = P[q]
        BY <2>6, <3>4
      <4>2. PICK p \in old : returns'[p].replacedBy = y /\ N[y] = P[p]
        BY <2>6, <3>4
      <4>3. q # p /\ q \in StandingReturns /\ p \in StandingReturns
        BY <2>5, <2>9, <4>1, <4>2
      <4> QED BY <2>7, <4>1, <4>2, <4>3
    <3> QED BY <3>3, <3>4
  <2>10. \A x, y \in stand : x # y => N[x] # N[y]
    BY <2>2, <2>4, <2>7
  <2>11. \A x, y \in StandingReturns' : x # y => N[x] # N[y]
    BY <2>3, <2>8, <2>9, <2>10
  <2> QED BY <2>1, <2>11 DEF PlacesApart
<1> QED BY <1>2, <1>3 DEF ChainInv
-----------------------------------------------------------------------------
(* A step that moves surplus keeps the chains.                              *)
LEMMA MoveReplaces ==
  ASSUME LedgerInv, NEW plan, NEW extra, NEW rows, NEW taken, SurplusStep(plan, extra, rows, taken)
  PROVE  Replaces(NewIds(plan), TakenBack(plan))
<1>1. PICK date, withOrder, visit : WriteReturns(plan, date, withOrder, visit)
  BY DEF SurplusStep
<1>2. DOMAIN plan \subseteq OrderIds /\ TypeOK /\ PlanFits(plan)
  BY DEF SurplusStep, PlanFits, Live, LedgerInv
<1>3. ASSUME NEW q \in ReturnIds \ NewIds(plan) PROVE credited'[q] = credited[q]
  <2>1. ASSUME NEW i \in Items PROVE ~ (extra[i] > 0 /\ Carrier(plan, i) = q)
    BY <1>2, CarrierIsNew DEF SurplusStep, ExtraOfItems
  <2>2. credited'[q] = credited[q] \cup
           {i \in Items : (IF extra[i] > 0 /\ Carrier(plan, i) = q THEN extra[i] ELSE 0) > 0}
    BY DEF SurplusStep, WriteSurplus
  <2> QED BY <2>1, <2>2
<1> QED BY <1>1, <1>2, <1>3, PlanReplaces

LEMMA MoveChain ==
  ASSUME LedgerInv, TypeOK', ChainInv, MovesSurplus PROVE ChainInv'
<1>1. PICK plan, extra, rows, taken : SurplusStep(plan, extra, rows, taken)
  BY DEF MovesSurplus
<1>2. TypeOK
  BY DEF LedgerInv
<1>3. SurplusIsCredited'
  <2> SUFFICES ASSUME NEW q \in ReturnIds, NEW i \in Items, surplus'[q][i] > 0
               PROVE i \in credited'[q]
    BY DEF SurplusIsCredited
  <2>1. PICK put, out : /\ put = (IF extra[i] > 0 /\ Carrier(plan, i) = q THEN extra[i] ELSE 0)
                        /\ out = IF <<q, i>> \in rows THEN taken[<<q, i>>] ELSE 0
    OBVIOUS
  <2>2. put \in Nat /\ out \in Nat
    BY <1>1, <2>1 DEF SurplusStep, ExtraOfItems, SurplusRows
  <2>3. surplus'[q][i] = surplus[q][i] + put - out
    BY <1>1, <2>1 DEF SurplusStep, WriteSurplus
  <2>4. surplus[q][i] \in Nat
    BY <1>2, CreditTypes
  <2>5. i \in credited[q] \/ put > 0
    <3>1. surplus[q][i] > 0 \/ put > 0
      BY <2>2, <2>3, <2>4
    <3> QED BY <3>1 DEF ChainInv, SurplusIsCredited
  <2>6. credited'[q] = credited[q] \cup
           {k \in Items : (IF extra[k] > 0 /\ Carrier(plan, k) = q THEN extra[k] ELSE 0) > 0}
    BY <1>1 DEF SurplusStep, WriteSurplus
  <2> QED BY <2>1, <2>5, <2>6
<1> QED BY <1>1, <1>2, <1>3, MoveReplaces, ChainKept

(* On the order's form one return is corrected, and its surplus goes along. *)
CarriedOver(r, new) ==
    /\ new # r /\ r \in StandingReturns /\ returns[new].state = "none"
    /\ Replaces({new}, {r}) /\ returns'[r].replacedBy = new
    /\ surplus'[r] = [i \in Items |-> 0] /\ surplus'[new] = surplus[r]
    /\ \A q \in ReturnIds \ {r, new} : surplus'[q] = surplus[q]
    /\ credited'[new] = {i \in Items : surplus[r][i] > 0}
LEMMA CorrectionMoves ==
  ASSUME LedgerInv, CreditsInv, NEW r \in ReturnIds, NEW body, NEW date, ReplaceReturn(r, body, date)
  PROVE  \E new \in ReturnIds : CarriedOver(r, new)
<1>0. TypeOK
  BY DEF LedgerInv
<1>1. PICK plan, new : /\ plan = [k \in {returns[r].order} |-> [old |-> r, body |-> body]]
                       /\ new = FirstNew
  OBVIOUS
<1>2. /\ returns[r].state = "standing" /\ returns[r].order \in OrderIds /\ body # NoBody
      /\ surplus' = [surplus EXCEPT ![r] = [i \in Items |-> 0], ![new] = surplus[r]]
      /\ credited' = [credited EXCEPT ![new] = {i \in Items : surplus[r][i] > 0}]
  BY <1>1 DEF ReplaceReturn, Returnable, Live, CarryOver
<1>3. PICK withOrder : WriteReturns(plan, date, withOrder, 0)
  BY <1>1 DEF ReplaceReturn
<1>4. PlanFits(plan)
  BY <1>1, ReplaceReturnFits
<1>5. PICK o \in OrderIds : o = returns[r].order
  BY <1>2
<1>6. /\ plan = [k \in {o} |-> [old |-> r, body |-> body]] /\ body # NoBody /\ r # 0
      /\ DOMAIN plan = {o} /\ plan[o].old = r /\ plan[o].body = body
  BY <1>1, <1>2, <1>5, BoundsAssumption DEF ReturnIds
<1>7. NewIds(plan) = {new} /\ TakenBack(plan) = {r} /\ Written(plan) = {o}
  <2>1. NewIds(plan) = {FirstNew}
    BY ONLY <1>6, OnlyNew
  <2> QED BY <1>1, <1>6, <2>1 DEF TakenBack, Written
<1>8. new \in ReturnIds /\ returns[new].state = "none" /\ new # r
  BY <1>2, <1>3, <1>4, <1>7, PlanRows
<1>9. /\ surplus'[r] = [i \in Items |-> 0] /\ surplus'[new] = surplus[r]
      /\ \A q \in ReturnIds \ {r, new} : surplus'[q] = surplus[q]
      /\ credited'[new] = {i \in Items : surplus[r][i] > 0}
      /\ \A q \in ReturnIds \ {new} : credited'[q] = credited[q]
  BY <1>0, <1>2, <1>8 DEF TypeOK
<1>10. Replaces({new}, {r})
  <2>1. Replaces(NewIds(plan), TakenBack(plan))
    BY <1>3, <1>4, <1>7, <1>9, PlanReplaces
  <2> QED BY <1>7, <2>1
<1>11. returns'[r].replacedBy = new
  <2>1. returns'[r] = Reversed(r, LET k == OrderOfOld(plan, r)
                                  IN  IF k \in Written(plan) THEN NewId(plan, k) ELSE 0)
    BY <1>3, <1>7, <1>8 DEF WriteReturns
  <2>2. OrderOfOld(plan, r) = o
    <3>1. \E k \in DOMAIN plan : plan[k].old = r
      BY <1>6
    <3> QED BY <1>6, <3>1 DEF OrderOfOld
  <2>3. NewId(plan, o) = new
    BY <1>7 DEF NewIds
  <2>4. returns'[r] = Reversed(r, new)
    BY <1>7, <2>1, <2>2, <2>3
  <2>5. returns[r] \in ReturnRows
    BY <1>0 DEF TypeOK
  <2> QED BY <2>4, <2>5 DEF Reversed, ReturnRows
<1> QED BY <1>2, <1>8, <1>9, <1>10, <1>11 DEF StandingReturns, CarriedOver

LEMMA CorrectionChain ==
  ASSUME LedgerInv, CreditsInv, ChainInv, NEW r \in ReturnIds, NEW body, NEW date,
         ReplaceReturn(r, body, date)
  PROVE  ChainInv'
<1>0. PICK new \in ReturnIds : CarriedOver(r, new)
  BY CorrectionMoves
<1>1. /\ new # r /\ Replaces({new}, {r})
      /\ surplus'[r] = [i \in Items |-> 0] /\ surplus'[new] = surplus[r]
      /\ \A q \in ReturnIds \ {r, new} : surplus'[q] = surplus[q]
      /\ credited'[new] = {i \in Items : surplus[r][i] > 0}
  BY <1>0 DEF CarriedOver
<1>2. TypeOK
  BY DEF LedgerInv
<1>3. SurplusIsCredited'
  <2> SUFFICES ASSUME NEW q \in ReturnIds, NEW i \in Items, surplus'[q][i] > 0
               PROVE i \in credited'[q]
    BY DEF SurplusIsCredited
  <2>1. CASE q = new
    BY <1>1, <2>1
  <2>2. CASE q = r
    BY <1>1, <2>2
  <2>3. CASE q # new /\ q # r
    <3>1. surplus'[q] = surplus[q] /\ credited'[q] = credited[q]
      BY <1>1, <2>3 DEF Replaces
    <3> QED BY <3>1 DEF ChainInv, SurplusIsCredited
  <2> QED BY <2>1, <2>2, <2>3
<1> QED BY <1>1, <1>2, <1>3, ChainKept

LEMMA SameChain ==
  ASSUME TypeOK, ChainInv, UNCHANGED <<returns, surplus, credited>> PROVE ChainInv'
<1>1. Replaces({}, {})
  BY DEF Replaces
<1>2. SurplusIsCredited'
  BY DEF SurplusIsCredited, ChainInv
<1> QED BY <1>1, <1>2, ChainKept

(* Every step leaves the returns' surplus alone, moves it or carries it to  *)
(* a correction.                                                            *)
LEMMA SurplusSteps ==
  ASSUME LedgerInv, CreditsInv, [Next]_vars
  PROVE  \/ UNCHANGED <<returns, surplus, credited>>
         \/ MovesSurplus
         \/ \E r \in ReturnIds : \E body, date : ReplaceReturn(r, body, date)
<1>1. CASE OrderStep
  <2>1. UNCHANGED <<returns, surplus, credited>>
    <3>1. ASSUME NEW o, NEW date, EditHeader(o, date) PROVE UNCHANGED <<returns, surplus, credited>>
      BY <3>1 DEF EditHeader
    <3>2. ASSUME NEW o, NEW payment, NEW date, NEW requested, NEW deposit, NEW override,
                 CreateOrder(o, payment, date, requested, deposit, override)
          PROVE  UNCHANGED <<returns, surplus, credited>>
      BY <3>2 DEF CreateOrder
    <3>3. ASSUME NEW o, NEW date, NEW requested, NEW deposit, NEW override,
                 EditLines(o, date, requested, deposit, override)
          PROVE  UNCHANGED <<returns, surplus, credited>>
      BY <3>3 DEF EditLines
    <3> QED BY <1>1, <3>1, <3>2, <3>3 DEF OrderStep
  <2> QED BY <2>1
<1>2. CASE CancelStep
  BY <1>2 DEF CancelStep, CancelOrder
<1>3. CASE ReturnStep
  BY <1>3, CreateReturnMoves, CreateForCustomerMoves, ReplaceForCustomerMoves
     DEF ReturnStep, StandingReturns
<1>4. CASE DeleteStep
  BY <1>4, DeleteReturnMoves DEF DeleteStep
<1>5. CASE PaymentStep
  BY <1>5 DEF PaymentStep, CreatePayment, ReversePayment
<1>6. CASE HandBackStep
  BY <1>6 DEF HandBackStep, HandBack, UndoHandBack
<1>7. CASE ArchiveCustomer
  BY <1>7 DEF ArchiveCustomer
<1>8. CASE UNCHANGED vars
  BY <1>8 DEF vars
<1> QED BY <1>1, <1>2, <1>3, <1>4, <1>5, <1>6, <1>7, <1>8 DEF Next

LEMMA ChainStep ==
  OutInv /\ OutInv' /\ CreditsInv /\ ChainInv /\ [Next]_vars => ChainInv'
<1> SUFFICES ASSUME OutInv, OutInv', CreditsInv, ChainInv, [Next]_vars PROVE ChainInv'
  OBVIOUS
<1>1. TypeOK /\ TypeOK' /\ LedgerInv
  BY DEF OutInv, AmountInv, LedgerInv
<1> QED BY <1>1, SurplusSteps, SameChain, MoveChain, CorrectionChain

LEMMA ChainInitially == Init => ChainInv
<1> SUFFICES ASSUME Init PROVE ChainInv
  OBVIOUS
<1>1. SurplusIsCredited
  BY DEF Init, SurplusIsCredited
<1>2. \A q \in ReturnIds : returns[q].replacedBy = 0 /\ returns[q].state = "none"
  BY DEF Init, NoReturn
<1> QED BY <1>1, <1>2 DEF ChainInv, PlacesApart, StandingReturns

LEMMA ChainHolds == Spec => [](TypeOK /\ LedgerInv /\ CreditsInv /\ ChainInv)
<1>1. OutInv => TypeOK /\ LedgerInv
  BY DEF OutInv, AmountInv, LedgerInv
<1> QED BY <1>1, ChainInitially, ChainStep, CreditsInitially, CreditStep, OutAlways, PTL DEF Spec
-----------------------------------------------------------------------------
(* What remains of a return's surplus: what those before it leave of what   *)
(* has gone out is taken of it.                                             *)
Left(i) == [r \in ReturnIds |-> surplus[r][i]]
GoneOut(i) == SurplusSum(i) - owing[i]
RemainingAre(i) ==
    /\ GoneOut(i) \in Nat
    /\ \A r \in ReturnIds :
          /\ Place(i)[r] \in ReturnIds
          /\ surplus[r][i] \in Nat /\ Left(i)[r] = surplus[r][i]
          /\ RemainingByReturn(i)[r]
               = surplus[r][i] - Gone(Place(i), ReturnIds, Left(i), GoneOut(i))[r]
LEMMA RemainingIs == TypeOK /\ CreditsInv => \A i \in Items : RemainingAre(i)
<1> SUFFICES ASSUME TypeOK, CreditsInv, NEW i \in Items PROVE RemainingAre(i)
  OBVIOUS
<1>1. PICK place, left, gone : place = Place(i) /\ left = Left(i) /\ gone = GoneOut(i)
  OBVIOUS
<1>2. gone \in Nat
  <2>1. owing[i] >= 0 /\ owing[i] <= SurplusSum(i)
    BY OwedWithinSurplus
  <2>2. SurplusSum(i) \in Nat /\ owing[i] \in Int
    BY CreditTypes
  <2> QED BY <1>1, <2>1, <2>2 DEF GoneOut
<1>3. ASSUME NEW r \in ReturnIds
      PROVE  RemainingByReturn(i)[r] = left[r] - Gone(place, ReturnIds, left, gone)[r]
  <2>1. gone = SumOver(ReturnIds, left) - owing[i]
    BY <1>1 DEF GoneOut, SurplusSum, Left
  <2>2. PICK older : older = [q \in ReturnIds |->
                       {k \in ReturnIds : \/ place[k] < place[q]
                                          \/ place[k] = place[q] /\ k < q}]
    OBVIOUS
  <2>3. RemainingByReturn(i)[r]
          = left[r] - LesserOf(ZeroOrMore(gone - SumOver(older[r], left)), left[r])
    BY <1>1, <2>1, <2>2 DEF RemainingByReturn, Left
  <2>4. older[r] = OlderIn(place, ReturnIds, r)
    BY <2>2 DEF OlderIn, Before
  <2> QED BY <2>3, <2>4 DEF Gone
<1>4. \A r \in ReturnIds : Place(i)[r] \in ReturnIds /\ surplus[r][i] \in Nat
                           /\ Left(i)[r] = surplus[r][i]
  BY PlaceIsReturn, CreditTypes DEF Left
<1> QED BY <1>1, <1>2, <1>3, <1>4 DEF RemainingAre

LEMMA RemainingIsAfter == (TypeOK /\ CreditsInv => \A i \in Items : RemainingAre(i))'
BY RemainingIs, PTL

(* A step that leaves what is owed alone leaves what has gone out alone.    *)
LEMMA SameGoneOut ==
  ASSUME TypeOK, TypeOK', CreditsInv, CreditsInv', NEW i \in Items,
         UNCHANGED <<owing, orders, handBacks>>
  PROVE  GoneOut(i)' = GoneOut(i)
<1>1. UsedSum(i)' = UsedSum(i) /\ HandedSum(i)' = HandedSum(i)
  BY SameUsed, SameHanded
<1>2. owing[i] = SurplusSum(i) - UsedSum(i) - HandedSum(i)
  BY DEF CreditsInv, CreditsAre
<1>3. owing'[i] = SurplusSum(i)' - UsedSum(i)' - HandedSum(i)'
  BY DEF CreditsInv, CreditsAre
<1>4. /\ SurplusSum(i) \in Nat /\ UsedSum(i) \in Nat /\ HandedSum(i) \in Nat /\ owing[i] \in Int
      /\ SurplusSum(i)' \in Nat
  BY CreditTypes, CreditTypesAfter
<1>5. SurplusSum(i)' = SurplusSum(i)
  BY <1>1, <1>2, <1>3, <1>4
<1> QED BY <1>5 DEF GoneOut

(* Where those before a return with surplus are, with as much of it, those  *)
(* that were, as much remains of its own.                                   *)
SameBefore(i, r) ==
    LET was == OlderIn(Place(i), ReturnIds, r)
        is  == OlderIn(Place(i)', ReturnIds, r)
    IN  /\ \A x \in was : surplus[x][i] = 0 \/ (x \in is /\ surplus'[x][i] = surplus[x][i])
        /\ \A x \in is : surplus'[x][i] = 0 \/ (x \in was /\ surplus[x][i] = surplus'[x][i])
LEMMA SameRemaining ==
  ASSUME TypeOK, TypeOK', CreditsInv, CreditsInv', NEW i \in Items, NEW r \in ReturnIds,
         GoneOut(i)' = GoneOut(i), surplus'[r][i] = surplus[r][i], SameBefore(i, r)
  PROVE  RemainingByReturn(i)'[r] = RemainingByReturn(i)[r]
<1>1. PICK S, was, is, f, g, place, after, gone :
         /\ S = ReturnIds
         /\ was = OlderIn(Place(i), S, r) /\ is = OlderIn(Place(i)', S, r)
         /\ f = Left(i) /\ g = Left(i)' /\ place = Place(i) /\ after = Place(i)'
         /\ gone = GoneOut(i)
  OBVIOUS
<1>2. was \subseteq S /\ is \subseteq S /\ IsFiniteSet(was) /\ IsFiniteSet(is)
  <2>1. was \subseteq S /\ is \subseteq S
    BY <1>1 DEF OlderIn
  <2> QED BY <1>1, <2>1, RowsAreFinite, FS_Subset
<1>3. \A x \in S : f[x] = surplus[x][i] /\ g[x] = surplus'[x][i] /\ f[x] \in Nat /\ g[x] \in Nat
  BY <1>1, RemainingIs, RemainingIsAfter DEF RemainingAre
<1>4. SumOver(is, g) = SumOver(was, f)
  <2>1. \A x \in was : f[x] \in Int /\ (f[x] = 0 \/ (x \in is /\ g[x] = f[x]))
    BY <1>1, <1>2, <1>3 DEF SameBefore
  <2>2. \A x \in is : g[x] \in Int /\ (g[x] = 0 \/ (x \in was /\ f[x] = g[x]))
    BY <1>1, <1>2, <1>3 DEF SameBefore
  <2> QED BY <1>2, <2>1, <2>2, SumSameTerms
<1>5. Gone(after, S, g, gone)[r] = Gone(place, S, f, gone)[r]
  <2>1. g[r] = f[r] /\ r \in S /\ SumOver(OlderIn(after, S, r), g) = SumOver(OlderIn(place, S, r), f)
    BY <1>1, <1>3, <1>4
  <2> QED BY <2>1, GoneAtSame
<1>6. RemainingByReturn(i)[r] = surplus[r][i] - Gone(place, S, f, gone)[r]
  BY <1>1, RemainingIs DEF RemainingAre
<1>7. RemainingByReturn(i)'[r] = surplus'[r][i] - Gone(after, S, g, gone)[r]
  BY <1>1, RemainingIsAfter DEF RemainingAre
<1> QED BY <1>5, <1>6, <1>7

(* Where surplus moves among other returns without changing its place, or   *)
(* not at all.                                                              *)
LEMMA OrderKept ==
  ASSUME TypeOK, ChainInv, NEW new, NEW old, Replaces(new, old), NEW i,
         NEW r \in ReturnIds \ new, NEW x \in ReturnIds \ new
  PROVE  x \in OlderIn(Place(i)', ReturnIds, r) <=> x \in OlderIn(Place(i), ReturnIds, r)
<1>1. Place(i)'[r] = Place(i)[r] /\ Place(i)'[x] = Place(i)[x]
  BY PlacesAfter
<1> QED BY <1>1 DEF OlderIn, Before

LEMMA NewHaveNone ==
  ASSUME TypeOK, CreditsInv, NEW new, NEW old, Replaces(new, old), NEW i \in Items, NEW k \in new
  PROVE  k \in ReturnIds /\ surplus[k][i] = 0
BY DEF Replaces, CreditsInv, UnusedHaveNone

LEMMA StillPlaced ==
  ASSUME TypeOK, TypeOK', CreditsInv, CreditsInv', ChainInv, NEW new, NEW old, Replaces(new, old),
         UNCHANGED <<owing, orders, handBacks>>, NEW i \in Items,
         \A x \in ReturnIds : surplus'[x][i] = surplus[x][i], NEW r \in ReturnIds \ new
  PROVE  RemainingByReturn(i)'[r] = RemainingByReturn(i)[r]
<1>1. GoneOut(i)' = GoneOut(i)
  BY SameGoneOut
<1>2. SameBefore(i, r)
  <2>1. PICK was, is : /\ was = OlderIn(Place(i), ReturnIds, r)
                       /\ is = OlderIn(Place(i)', ReturnIds, r)
    OBVIOUS
  <2>2. \A x \in ReturnIds : surplus[x][i] = 0 \/ (x \in is <=> x \in was)
    <3> SUFFICES ASSUME NEW x \in ReturnIds, surplus[x][i] # 0 PROVE x \in is <=> x \in was
      OBVIOUS
    <3>1. x \notin new
      BY NewHaveNone
    <3> QED BY <2>1, <3>1, OrderKept
  <2>3. was \subseteq ReturnIds /\ is \subseteq ReturnIds
    BY <2>1 DEF OlderIn
  <2> QED BY <2>1, <2>2, <2>3 DEF SameBefore
<1> QED BY <1>1, <1>2, SameRemaining

(* A correction on the order's form takes the place of what it corrects.    *)
LEMMA CarriedKeeps ==
  ASSUME TypeOK, TypeOK', CreditsInv, CreditsInv', ChainInv,
         UNCHANGED <<owing, orders, handBacks>>, NEW i \in Items,
         NEW old \in ReturnIds, NEW new \in ReturnIds, CarriedOver(old, new),
         NEW r \in StandingReturns, r \in StandingReturns'
  PROVE  RemainingByReturn(i)'[r] = RemainingByReturn(i)[r]
<1>1. /\ new # old /\ old \in StandingReturns /\ returns[new].state = "none"
      /\ Replaces({new}, {old}) /\ returns'[old].replacedBy = new
      /\ surplus'[old][i] = 0 /\ surplus'[new][i] = surplus[old][i]
      /\ \A q \in ReturnIds \ {old, new} : surplus'[q] = surplus[q]
  BY DEF CarriedOver
<1>2. /\ surplus[new][i] = 0 /\ surplus[old][i] \in Nat
      /\ r \in ReturnIds /\ r # new /\ r # old
  <2>1. returns'[old].state # "standing"
    BY <1>1 DEF Replaces
  <2> QED BY <1>1, <2>1, CreditTypes DEF CreditsInv, UnusedHaveNone, StandingReturns
<1>3. CASE surplus[old][i] = 0
  <2>1. ASSUME NEW x \in ReturnIds PROVE surplus'[x][i] = surplus[x][i]
    BY <1>1, <1>2, <1>3
  <2>2. PICK n, o : n = {new} /\ o = {old}
    OBVIOUS
  <2> QED BY <1>1, <1>2, <2>1, <2>2, StillPlaced
<1>4. CASE surplus[old][i] > 0
  <2>1. GoneOut(i)' = GoneOut(i)
    BY SameGoneOut
  <2>2. PICK S, place, after : S = ReturnIds /\ place = Place(i) /\ after = Place(i)'
    OBVIOUS
  <2>3. i \in credited[old]
    BY <1>4 DEF ChainInv, SurplusIsCredited
  <2>4. /\ after[new] = place[old]
        /\ \A x \in S \ {new} : after[x] = place[x]
    <3>1. PICK n, o : n = {new} /\ o = {old}
      OBVIOUS
    <3>2. Replaces(n, o) /\ new \in n /\ old \in o
      BY <1>1, <3>1
    <3>3. Place(i)'[new] = Place(i)[old]
      BY <1>1, <2>3, <3>2, PlacesAfter
    <3>4. \A x \in ReturnIds \ n : Place(i)'[x] = Place(i)[x]
      BY <3>2, PlacesAfter
    <3> QED BY <2>2, <3>1, <3>3, <3>4
  <2>5. place[old] # place[r] /\ after[r] = place[r]
    BY <1>1, <1>2, <2>2, <2>4 DEF ChainInv, PlacesApart
  <2>6. PICK was, is : was = OlderIn(place, S, r) /\ is = OlderIn(after, S, r)
    OBVIOUS
  <2>7. /\ is \subseteq S /\ was \subseteq S /\ IsFiniteSet(is) /\ IsFiniteSet(was)
        /\ \A x \in S \ {new} : x \in is <=> x \in was
        /\ new \in is <=> old \in was
    <3>1. is \subseteq S /\ was \subseteq S
      BY <2>6 DEF OlderIn
    <3>2. IsFiniteSet(is) /\ IsFiniteSet(was)
      BY <2>2, <3>1, RowsAreFinite, FS_Subset
    <3>3. \A x \in S \ {new} : x \in is <=> x \in was
      BY <1>2, <2>2, <2>4, <2>6 DEF OlderIn, Before
    <3>4. new \in is <=> old \in was
      BY <2>2, <2>4, <2>5, <2>6 DEF OlderIn, Before
    <3> QED BY <3>1, <3>2, <3>3, <3>4
  <2>8. PICK f, g : f = Left(i) /\ g = Left(i)'
    OBVIOUS
  <2>9. \A x \in S : f[x] \in Int /\ g[x] \in Int /\ f[x] = surplus[x][i] /\ g[x] = surplus'[x][i]
    BY <2>2, <2>8, RemainingIs, RemainingIsAfter DEF RemainingAre
  <2>10. SumOver(was \ {old, new}, f) = SumOver(is \ {old, new}, g)
    <3>1. was \ {old, new} = is \ {old, new}
      BY <2>2, <2>7
    <3>2. \A x \in was \ {old, new} : f[x] = g[x]
      <4> SUFFICES ASSUME NEW x \in was \ {old, new} PROVE f[x] = g[x]
        OBVIOUS
      <4>1. x \in S /\ x \in ReturnIds \ {old, new}
        BY <2>2, <2>7
      <4> QED BY <1>1, <2>9, <4>1
    <3>3. IsFiniteSet(was \ {old, new})
      BY <2>7, FS_Subset
    <3> QED BY <3>1, <3>2, <3>3, SumAgrees
  <2>11. /\ f[new] = 0 /\ g[old] = 0 /\ g[new] = f[old]
    BY <1>1, <1>2, <2>2, <2>9
  <2>12. SumOver(was, f) = SumOver(was \ {new}, f) /\ SumOver(is, g) = SumOver(is \ {old}, g)
    <3>1. /\ was \ {new} \in SUBSET was /\ (\A x \in was \ {new} : f[x] \in Int)
          /\ \A x \in was \ (was \ {new}) : f[x] = 0
      BY <2>7, <2>9, <2>11
    <3>2. /\ is \ {old} \in SUBSET is /\ (\A x \in is \ {old} : g[x] \in Int)
          /\ \A x \in is \ (is \ {old}) : g[x] = 0
      BY <2>7, <2>9, <2>11
    <3>3. SumOver(was, f) = SumOver(was \ {new}, f)
      BY ONLY <2>7, <3>1, SumOfPart
    <3>4. SumOver(is, g) = SumOver(is \ {old}, g)
      BY ONLY <2>7, <3>2, SumOfPart
    <3> QED BY <3>3, <3>4
  <2>13. SumOver(is, g) = SumOver(was, f)
    <3>1. PICK w, v : w = was \ {new} /\ v = is \ {old}
      OBVIOUS
    <3>2. /\ IsFiniteSet(w) /\ IsFiniteSet(v)
          /\ (\A x \in w : f[x] \in Int) /\ (\A x \in v : g[x] \in Int)
          /\ w \ {old} = was \ {old, new} /\ v \ {new} = is \ {old, new}
          /\ old \in w <=> new \in v
      <4>1. IsFiniteSet(w) /\ IsFiniteSet(v)
        BY <2>7, <3>1, FS_Subset
      <4>2. /\ w \ {old} = was \ {old, new} /\ v \ {new} = is \ {old, new}
            /\ old \in w <=> new \in v
        BY <1>1, <2>7, <3>1
      <4>3. (\A x \in w : f[x] \in Int) /\ (\A x \in v : g[x] \in Int)
        BY <2>7, <2>9, <3>1
      <4> QED BY <4>1, <4>2, <4>3
    <3>3. CASE old \in w
      <4>1. SumOver(w, f) = f[old] + SumOver(w \ {old}, f)
        BY <3>2, <3>3, SumTakesOut
      <4>2. SumOver(v, g) = g[new] + SumOver(v \ {new}, g)
        BY <3>2, <3>3, SumTakesOut
      <4> QED BY <2>10, <2>11, <2>12, <3>1, <3>2, <4>1, <4>2
    <3>4. CASE old \notin w
      <4>1. w \ {old} = w /\ v \ {new} = v
        BY <3>2, <3>4
      <4> QED BY <2>10, <2>12, <3>1, <3>2, <4>1
    <3> QED BY <3>3, <3>4
  <2>14. PICK gone : gone = GoneOut(i)
    OBVIOUS
  <2>15. Gone(after, S, g, gone)[r] = Gone(place, S, f, gone)[r]
    <3>1. g[r] = f[r] /\ r \in S
      BY <1>1, <1>2, <2>2, <2>9
    <3>2. SumOver(OlderIn(after, S, r), g) = SumOver(OlderIn(place, S, r), f)
      BY <2>6, <2>13
    <3> QED BY <3>1, <3>2, GoneAtSame
  <2>16. RemainingByReturn(i)[r] = surplus[r][i] - Gone(place, S, f, gone)[r]
    BY <1>2, <2>2, <2>8, <2>14, RemainingIs DEF RemainingAre
  <2>17. RemainingByReturn(i)'[r] = surplus'[r][i] - Gone(after, S, g, gone)[r]
    BY <1>2, <2>1, <2>2, <2>8, <2>14, RemainingIsAfter DEF RemainingAre
  <2>18. surplus'[r] = surplus[r]
    BY <1>1, <1>2
  <2> QED BY <2>15, <2>16, <2>17, <2>18
<1> QED BY <1>2, <1>3, <1>4

(* Of each return but the new ones the rows take what remained of it, and   *)
(* of the new ones one has the extra.                                       *)
LEMMA MovedOf ==
  ASSUME TypeOK, TypeOK', CreditsInv, NEW plan, NEW extra, NEW rows, NEW taken,
         SurplusStep(plan, extra, rows, taken), Replaces(NewIds(plan), TakenBack(plan)), NEW i \in Items
  PROVE  /\ \A x \in ReturnIds \ NewIds(plan) :
              \/ <<x, i>> \notin rows /\ surplus'[x][i] = surplus[x][i]
              \/ /\ <<x, i>> \in rows /\ RemainingByReturn(i)[x] > 0
                 /\ surplus'[x][i] = surplus[x][i] - RemainingByReturn(i)[x]
         /\ \A x \in NewIds(plan) :
              surplus'[x][i] = 0 \/ (extra[i] > 0 /\ x = Carrier(plan, i) /\ surplus'[x][i] = extra[i])
<1>0. /\ ExtraOfItems(plan, extra) /\ SurplusRows(rows, taken) /\ WriteSurplus(plan, extra, rows, taken)
      /\ DOMAIN plan \subseteq OrderIds
  BY DEF SurplusStep, PlanFits, Live
<1>1. ASSUME NEW x \in ReturnIds
      PROVE  surplus'[x][i] = surplus[x][i]
                              + (IF extra[i] > 0 /\ Carrier(plan, i) = x THEN extra[i] ELSE 0)
                              - (IF <<x, i>> \in rows THEN taken[<<x, i>>] ELSE 0)
  BY <1>0 DEF WriteSurplus
<1>2. ASSUME NEW x \in ReturnIds, <<x, i>> \in rows
      PROVE  /\ taken[<<x, i>>] \in Nat /\ taken[<<x, i>>] > 0
             /\ taken[<<x, i>>] = RemainingByReturn(i)[x]
  <2>1. PICK row : row = <<x, i>>
    OBVIOUS
  <2>2. row \in rows /\ row[1] = x /\ row[2] = i
    BY <1>2, <2>1
  <2>3. /\ taken[row] \in Nat /\ taken[row] > 0
        /\ taken[row] = RemainingByReturn(row[2])[row[1]]
    BY <1>0, <2>2 DEF SurplusRows
  <2> QED BY <2>1, <2>2, <2>3
<1>3. ASSUME NEW x \in ReturnIds PROVE surplus[x][i] \in Nat /\ surplus'[x][i] \in Nat
  BY CreditTypes, CreditTypesAfter
<1>4. extra[i] \in Nat
  BY <1>0 DEF ExtraOfItems
<1>5. ASSUME NEW x \in ReturnIds \ NewIds(plan)
      PROVE  \/ <<x, i>> \notin rows /\ surplus'[x][i] = surplus[x][i]
             \/ /\ <<x, i>> \in rows /\ RemainingByReturn(i)[x] > 0
                /\ surplus'[x][i] = surplus[x][i] - RemainingByReturn(i)[x]
  <2>1. ~ (extra[i] > 0 /\ Carrier(plan, i) = x)
    BY <1>0, CarrierIsNew DEF ExtraOfItems
  <2>2. surplus'[x][i] = surplus[x][i] + 0 - (IF <<x, i>> \in rows THEN taken[<<x, i>>] ELSE 0)
    BY <1>1, <2>1
  <2>3. surplus[x][i] \in Nat
    BY <1>3
  <2>4. CASE <<x, i>> \in rows
    <3>1. PICK t \in Nat : t = taken[<<x, i>>]
      BY <1>2, <2>4
    <3>2. surplus'[x][i] = surplus[x][i] + 0 - t
      BY <2>2, <2>4, <3>1
    <3>3. surplus'[x][i] = surplus[x][i] - t
      BY <2>3, <3>2
    <3> QED BY <1>2, <2>4, <3>1, <3>3
  <2>5. CASE <<x, i>> \notin rows
    <3>1. surplus'[x][i] = surplus[x][i] + 0 - 0
      BY <2>2, <2>5
    <3> QED BY <2>3, <2>5, <3>1
  <2> QED BY <2>4, <2>5
<1>6. ASSUME NEW x \in NewIds(plan)
      PROVE  surplus'[x][i] = 0 \/ (extra[i] > 0 /\ x = Carrier(plan, i) /\ surplus'[x][i] = extra[i])
  <2>1. x \in ReturnIds /\ surplus[x][i] = 0
    BY NewHaveNone
  <2>2. <<x, i>> \notin rows
    <3> SUFFICES ASSUME <<x, i>> \in rows PROVE FALSE
      OBVIOUS
    <3>1. PICK t \in Nat : t = taken[<<x, i>>] /\ t > 0 /\ t = RemainingByReturn(i)[x]
      BY <1>2, <2>1
    <3>2. t \in 0 .. surplus[x][i]
      BY <2>1, <3>1, OwedWithinSurplus, RemainingAddsUp
    <3> QED BY <2>1, <3>1, <3>2
  <2>3. surplus'[x][i] = 0 + (IF extra[i] > 0 /\ Carrier(plan, i) = x THEN extra[i] ELSE 0) - 0
    BY <1>1, <2>1, <2>2
  <2> QED BY <1>4, <2>3
<1> QED BY <1>5, <1>6

(* Nothing of an item is taken back and nothing of it written, when nothing *)
(* more of it is owed and none of it was given in.                          *)
LEMMA NoneMoved ==
  ASSUME TypeOK, TypeOK', CreditsInv, NEW plan, NEW extra, NEW rows, NEW taken,
         SurplusStep(plan, extra, rows, taken), Replaces(NewIds(plan), TakenBack(plan)),
         UNCHANGED owing, NEW i \in Items, extra[i] = 0
  PROVE  \A x \in ReturnIds : surplus'[x][i] = surplus[x][i]
<1>1. PICK S : S = {row \in rows : row[2] = i}
  OBVIOUS
<1>2. IsFiniteSet(S) /\ \A row \in S : taken[row] \in Nat /\ taken[row] > 0
  <2>1. rows \in SUBSET (ReturnIds \X Items) /\ SurplusRows(rows, taken)
    BY DEF SurplusStep
  <2>2. IsFiniteSet(ReturnIds \X Items)
    BY RowsAreFinite, DataAssumption, FS_Product
  <2> QED BY <1>1, <2>1, <2>2, FS_Subset DEF SurplusRows
<1>3. SumOver(S, taken) = 0
  <2>1. PICK back : back = SurplusByItem(rows, taken)[i] /\ back = SumOver(S, taken)
    BY <1>1 DEF SurplusByItem
  <2>2. owing'[i] = owing[i] + (extra[i] - back)
    BY <2>1 DEF SurplusStep
  <2>3. back \in Nat
    BY <1>2, <2>1, SumIsNat
  <2>4. owing[i] \in Int /\ owing'[i] = owing[i]
    BY CreditTypes
  <2>5. back = 0
    BY <2>2, <2>3, <2>4
  <2> QED BY <2>1, <2>5
<1>4. S = {}
  <2> SUFFICES ASSUME NEW row \in S PROVE FALSE
    OBVIOUS
  <2>1. \A k \in S : taken[k] \in Int
    BY <1>2
  <2>2. SumOver(S, taken) = taken[row] + SumOver(S \ {row}, taken)
    BY <1>2, <2>1, SumTakesOut
  <2>3. SumOver(S \ {row}, taken) \in Nat
    <3>1. IsFiniteSet(S \ {row}) /\ \A k \in S \ {row} : taken[k] \in Nat
      BY <1>2, FS_Subset
    <3> QED BY <3>1, SumIsNat
  <2>4. taken[row] \in Nat /\ taken[row] > 0
    BY <1>2
  <2> QED BY <1>3, <2>2, <2>3, <2>4
<1>5. ASSUME NEW x \in ReturnIds PROVE <<x, i>> \notin rows
  <2>1. <<x, i>>[2] = i
    OBVIOUS
  <2> QED BY <1>1, <1>4, <2>1
<1> SUFFICES ASSUME NEW x \in ReturnIds PROVE surplus'[x][i] = surplus[x][i]
  OBVIOUS
<1>6. CASE x \in NewIds(plan)
  <2>1. surplus[x][i] = 0
    BY <1>6, NewHaveNone
  <2>2. surplus'[x][i] = 0
    <3>1. ~ (extra[i] > 0)
      OBVIOUS
    <3> QED BY <1>6, <3>1, MovedOf
  <2> QED BY <2>1, <2>2
<1>7. CASE x \notin NewIds(plan)
  BY <1>5, <1>7, MovedOf
<1> QED BY <1>6, <1>7

(* An edit that puts back as much of an item as it takes: where some of it  *)
(* stood before a return, nothing of that return's had gone or goes; where  *)
(* none did, none comes to.                                                 *)
LEMMA ExtraKeeps ==
  ASSUME TypeOK, TypeOK', CreditsInv, CreditsInv', ChainInv,
         UNCHANGED <<owing, orders, handBacks>>,
         NEW plan, NEW extra, NEW rows, NEW taken, SurplusStep(plan, extra, rows, taken),
         Replaces(NewIds(plan), TakenBack(plan)), NEW i \in Items, extra[i] > 0,
         NEW r \in StandingReturns, r \in StandingReturns', surplus'[r][i] = surplus[r][i],
         ~TakesOldPlace(i)
  PROVE  RemainingByReturn(i)'[r] = RemainingByReturn(i)[r]
<1>1. PICK new, old : new = NewIds(plan) /\ old = TakenBack(plan) /\ Replaces(new, old)
  OBVIOUS
<1>2. r \in ReturnIds /\ r \notin new /\ r \notin old
  BY <1>1 DEF Replaces, StandingReturns
<1>3. PICK S, place, after, f, g, gone, used, was, is :
         /\ S = ReturnIds /\ place = Place(i) /\ after = Place(i)' /\ f = Left(i) /\ g = Left(i)'
         /\ gone = GoneOut(i) /\ used = Gone(place, S, f, gone)
         /\ was = OlderIn(place, S, r) /\ is = OlderIn(after, S, r)
  OBVIOUS
<1>4. IsFiniteSet(S) /\ S \subseteq Int /\ was \subseteq S /\ is \subseteq S
  BY <1>3, RowsAreFinite DEF ReturnIds, OlderIn
<1>5. /\ gone \in Nat /\ GoneOut(i)' = gone
      /\ \A x \in S : /\ place[x] \in S /\ after[x] \in S
                      /\ f[x] \in Nat /\ g[x] \in Nat
                      /\ f[x] = surplus[x][i] /\ g[x] = surplus'[x][i]
                      /\ RemainingByReturn(i)[x] = f[x] - used[x]
  <2>1. GoneOut(i)' = GoneOut(i)
    BY SameGoneOut
  <2>2. RemainingAre(i) /\ RemainingAre(i)'
    BY RemainingIs, RemainingIsAfter
  <2>3. gone \in Nat /\ GoneOut(i)' = gone
    BY <1>3, <2>1, <2>2 DEF RemainingAre
  <2>4. \A x \in S : /\ place[x] \in S /\ f[x] \in Nat /\ f[x] = surplus[x][i]
                     /\ RemainingByReturn(i)[x] = f[x] - used[x]
    BY <1>3, <2>2 DEF RemainingAre
  <2>5. \A x \in S : after[x] \in S /\ g[x] \in Nat /\ g[x] = surplus'[x][i]
    BY <1>3, <2>2 DEF RemainingAre
  <2> QED BY <2>3, <2>4, <2>5
<1>6. \A x \in S : used[x] \in Int
  <2> SUFFICES ASSUME NEW x \in S PROVE used[x] \in Int
    OBVIOUS
  <2>1. OlderIn(place, S, x) \subseteq S
    BY DEF OlderIn
  <2>2. IsFiniteSet(OlderIn(place, S, x))
    BY <1>4, <2>1, FS_Subset
  <2>3. \A q \in OlderIn(place, S, x) : f[q] \in Int
    BY <1>5, <2>1
  <2>4. SumOver(OlderIn(place, S, x), f) \in Int
    BY <2>2, <2>3, SumIsInt
  <2>5. used[x] = LesserOf(ZeroOrMore(gone - SumOver(OlderIn(place, S, x), f)), f[x])
    BY <1>3 DEF Gone
  <2> QED BY <1>5, <2>4, <2>5 DEF LesserOf, ZeroOrMore
<1>7. \A x \in S \ new : /\ x \in is <=> x \in was
                         /\ \/ <<x, i>> \notin rows /\ g[x] = f[x]
                            \/ <<x, i>> \in rows /\ used[x] < f[x] /\ g[x] = used[x]
  <2> SUFFICES ASSUME NEW x \in S \ new
               PROVE /\ x \in is <=> x \in was
                     /\ \/ <<x, i>> \notin rows /\ g[x] = f[x]
                        \/ <<x, i>> \in rows /\ used[x] < f[x] /\ g[x] = used[x]
    OBVIOUS
  <2>1. x \in is <=> x \in was
    BY <1>1, <1>2, <1>3, OrderKept
  <2>2. \/ <<x, i>> \notin rows /\ surplus'[x][i] = surplus[x][i]
        \/ /\ <<x, i>> \in rows /\ RemainingByReturn(i)[x] > 0
           /\ surplus'[x][i] = surplus[x][i] - RemainingByReturn(i)[x]
    BY <1>1, <1>3, MovedOf
  <2>4. f[x] \in Int /\ f[x] = surplus[x][i] /\ g[x] = surplus'[x][i]
        /\ RemainingByReturn(i)[x] = f[x] - used[x] /\ used[x] \in Int
    BY <1>5, <1>6
  <2> QED BY <2>1, <2>2, <2>4
<1>8. \A x \in new : /\ x \in S /\ f[x] = 0
                     /\ g[x] = 0 \/ x = Carrier(plan, i)
  BY <1>1, <1>3, <1>5, NewHaveNone, MovedOf
<1>9. CASE \E z \in was : <<z, i>> \in rows
  <2>1. PICK z \in was : <<z, i>> \in rows
    BY <1>9
  <2>2. z \in S /\ z \notin new /\ used[z] < f[z]
    <3>1. z \notin new
      <4> SUFFICES ASSUME z \in new PROVE FALSE
        OBVIOUS
      <4>1. RemainingByReturn(i)[z] > 0
        <5>1. PICK row : row = <<z, i>> /\ row \in rows /\ row[1] = z /\ row[2] = i
          BY <2>1
        <5>2. taken[row] > 0 /\ taken[row] = RemainingByReturn(row[2])[row[1]]
          BY <5>1 DEF SurplusStep, SurplusRows
        <5> QED BY <5>1, <5>2
      <4>2. RemainingByReturn(i)[z] \in 0 .. surplus[z][i]
        BY <1>3, <1>8, OwedWithinSurplus, RemainingAddsUp
      <4>3. surplus[z][i] = 0
        BY <1>5, <1>8
      <4> QED BY <4>1, <4>2, <4>3
    <3> QED BY <1>4, <1>7, <2>1, <3>1
  <2>3. \A x \in was : used[x] = 0 \/ (x \in is /\ used[x] <= g[x])
    <3> SUFFICES ASSUME NEW x \in was PROVE used[x] = 0 \/ (x \in is /\ used[x] <= g[x])
      OBVIOUS
    <3>1. x \in S /\ RemainingByReturn(i)[x] \in 0 .. surplus[x][i]
      BY <1>3, <1>4, OwedWithinSurplus, RemainingAddsUp
    <3>2. PICK t, u, v \in Int : t = RemainingByReturn(i)[x] /\ u = used[x] /\ v = f[x]
      <4>1. RemainingByReturn(i)[x] = f[x] - used[x] /\ f[x] \in Nat
        BY <1>5, <3>1
      <4>2. used[x] \in Int
        BY <1>6, <3>1
      <4> QED BY <3>1, <4>1, <4>2
    <3>3. t = v - u /\ t >= 0 /\ t <= v /\ u <= v /\ u >= 0
      <4>1. t = v - u /\ t \in 0 .. v
        BY <1>5, <3>1, <3>2
      <4> QED BY <4>1, <3>2
    <3>4. CASE x \in new
      <4>1. v = 0
        BY <1>8, <3>2, <3>4
      <4> QED BY <3>2, <3>3, <4>1
    <3>5. CASE x \notin new
      <4>1. x \in is /\ (g[x] = v \/ g[x] = u)
        BY <1>7, <3>1, <3>2, <3>5
      <4> QED BY <3>2, <3>3, <4>1
    <3> QED BY <3>4, <3>5
  <2>4. used[r] = 0 /\ Gone(after, S, g, gone)[r] = 0
    <3>1. /\ \A x \in S : place[x] \in Int
          /\ \A x \in S : after[x] \in Int
          /\ \A x \in S : f[x] \in Nat
          /\ \A x \in S : g[x] \in Nat
      BY <1>4, <1>5
    <3>2. r \in S /\ z \in OlderIn(place, S, r)
      BY <1>2, <1>3, <2>1
    <3>3. LeftBehind(place, after, S, r, used, g)
      BY <1>3, <2>3 DEF LeftBehind
    <3>4. gone \in Nat /\ used = Gone(place, S, f, gone) /\ used[z] < f[z]
      BY <1>3, <1>5, <2>2
    <3>5. NoneOfIt(used, after, S, g, gone, r)
      BY ONLY <1>4, <3>1, <3>2, <3>3, <3>4, NothingGoneBehind
    <3> QED BY <3>5 DEF NoneOfIt
  <2>5. RemainingByReturn(i)'[r] = g[r] - 0
    <3>1. RemainingByReturn(i)'[r] = surplus'[r][i] - Gone(after, S, g, gone)[r]
      BY <1>2, <1>3, <1>5, RemainingIsAfter DEF RemainingAre
    <3> QED BY <1>2, <1>3, <1>5, <2>4, <3>1
  <2>6. RemainingByReturn(i)[r] = f[r] - 0 /\ f[r] = g[r]
    BY <1>2, <1>3, <1>5, <2>4
  <2> QED BY <2>5, <2>6
<1>10. CASE \A z \in was : <<z, i>> \notin rows
  <2>1. PICK c : c = Carrier(plan, i)
    OBVIOUS
  <2>2. c \in new /\ g[c] > 0
    <3>1. c \in new
      BY <1>1, <2>1, CarrierIsNew DEF SurplusStep, ExtraOfItems, PlanFits, Live
    <3>2. WriteSurplus(plan, extra, rows, taken) /\ c \in ReturnIds
      BY <1>3, <1>8, <3>1 DEF SurplusStep
    <3>3. surplus'[c][i] = surplus[c][i] + extra[i] - (IF <<c, i>> \in rows THEN taken[<<c, i>>] ELSE 0)
      BY <2>1, <3>2 DEF WriteSurplus
    <3>4. <<c, i>> \notin rows
      <4> SUFFICES ASSUME <<c, i>> \in rows PROVE FALSE
        OBVIOUS
      <4>1. PICK row : row = <<c, i>> /\ row \in rows /\ row[1] = c /\ row[2] = i
        OBVIOUS
      <4>2. taken[row] > 0 /\ taken[row] = RemainingByReturn(row[2])[row[1]]
        BY <4>1 DEF SurplusStep, SurplusRows
      <4>3. RemainingByReturn(i)[c] \in 0 .. surplus[c][i]
        BY <3>2, OwedWithinSurplus, RemainingAddsUp
      <4>4. surplus[c][i] = 0
        BY <1>1, <3>1, NewHaveNone
      <4> QED BY <4>1, <4>2, <4>3, <4>4
    <3>5. extra[i] \in Nat
      BY DEF SurplusStep, ExtraOfItems
    <3>6. surplus[c][i] = 0
      BY <1>1, <3>1, NewHaveNone
    <3>7. g[c] = extra[i]
      BY <1>3, <1>5, <3>2, <3>3, <3>4, <3>5, <3>6
    <3> QED BY <3>1, <3>7
  <2>3. c \notin is
    <3>1. \/ after[c] = c
          \/ \E q \in old : /\ i \in credited[q] /\ returns'[q].replacedBy = c
                            /\ after[c] = place[q]
      BY <1>1, <1>3, <2>2, PlacesAfter
    <3>2. after[r] = place[r]
      BY <1>1, <1>2, <1>3, PlacesAfter
    <3>3. place[r] <= r /\ r < c
      <4>1. r < c
        BY <1>1, <1>2, <2>2 DEF Replaces, StandingReturns
      <4> QED BY <1>2, <1>3, <4>1, PlaceAtMost
    <3>4. place[r] \in Int /\ r \in Int /\ c \in Int
      BY <1>2, <1>3, <1>4, <1>5, <1>8, <2>2
    <3>5. CASE after[c] = c
      <4>1. ~ Before(after, c, r)
        BY <3>2, <3>3, <3>4, <3>5 DEF Before
      <4> QED BY <1>3, <4>1 DEF OlderIn
    <3>6. CASE \E q \in old : /\ i \in credited[q] /\ returns'[q].replacedBy = c
                              /\ after[c] = place[q]
      <4>1. PICK q \in old : /\ i \in credited[q] /\ returns'[q].replacedBy = c
                             /\ after[c] = place[q]
        BY <3>6
      <4>2. q \in StandingReturns /\ q \in S /\ q # r /\ q \notin new /\ c \in ReturnIds
        BY <1>1, <1>2, <1>3, <1>8, <2>2 DEF Replaces, StandingReturns
      <4>3. returns[q].replacedBy = 0
        BY <1>3, <4>2 DEF ChainInv, StandingReturns
      <4>4. surplus'[q][i] # surplus[q][i]
        BY <1>3, <1>5, <2>2, <4>1, <4>2, <4>3 DEF TakesOldPlace
      <4>5. <<q, i>> \in rows
        BY <1>3, <1>5, <1>7, <4>2, <4>4
      <4>6. ~ Before(place, q, r)
        BY <1>3, <1>10, <4>2, <4>5 DEF OlderIn
      <4>7. place[q] # place[r]
        BY <1>3, <4>2 DEF ChainInv, PlacesApart
      <4>8. place[q] \in Int /\ place[r] \in Int
        BY <1>4, <1>5, <3>4, <4>2
      <4>9. ~ Before(after, c, r)
        BY <3>2, <4>1, <4>6, <4>7, <4>8 DEF Before
      <4> QED BY <1>3, <4>9 DEF OlderIn
    <3> QED BY <3>1, <3>5, <3>6
  <2>4. SameBefore(i, r)
    <3>1. \A x \in was : f[x] = 0 \/ (x \in is /\ g[x] = f[x])
      BY <1>4, <1>7, <1>8, <1>10
    <3>2. \A x \in is : g[x] = 0 \/ (x \in was /\ f[x] = g[x])
      BY <1>4, <1>7, <1>8, <1>10, <2>1, <2>3
    <3>3. \A x \in S : f[x] = surplus[x][i] /\ g[x] = surplus'[x][i]
      BY <1>5
    <3> QED BY <1>3, <1>4, <3>1, <3>2, <3>3 DEF SameBefore
  <2>5. GoneOut(i)' = GoneOut(i)
    BY <1>3, <1>5
  <2> QED BY <1>2, <2>4, <2>5, SameRemaining
<1> QED BY <1>9, <1>10

LEMMA MoveKeeps ==
  ASSUME LedgerInv, TypeOK', CreditsInv, CreditsInv', ChainInv, MovesSurplus, UNCHANGED owing,
         NEW i \in Items, NEW r \in StandingReturns, r \in StandingReturns',
         surplus'[r][i] = surplus[r][i], ~TakesOldPlace(i)
  PROVE  RemainingByReturn(i)'[r] = RemainingByReturn(i)[r]
<1>1. PICK plan, extra, rows, taken : SurplusStep(plan, extra, rows, taken)
  BY DEF MovesSurplus
<1>2. PICK new, old : new = NewIds(plan) /\ old = TakenBack(plan)
  OBVIOUS
<1>3. TypeOK /\ Replaces(new, old) /\ UNCHANGED <<orders, handBacks>>
  <2>1. Replaces(NewIds(plan), TakenBack(plan))
    BY <1>1, MoveReplaces
  <2> QED BY <1>1, <1>2, <2>1 DEF LedgerInv, SurplusStep, WriteReturns
<1>4. r \in ReturnIds \ new
  BY <1>3 DEF Replaces, StandingReturns
<1>5. extra[i] \in Nat
  BY <1>1 DEF SurplusStep, ExtraOfItems
<1>6. CASE extra[i] > 0
  BY <1>1, <1>2, <1>3, <1>6, ExtraKeeps
<1>7. CASE extra[i] = 0
  <2>1. \A x \in ReturnIds : surplus'[x][i] = surplus[x][i]
    BY <1>1, <1>2, <1>3, <1>7, NoneMoved
  <2> QED BY <1>3, <1>4, <2>1, StillPlaced
<1> QED BY <1>5, <1>6, <1>7

LEMMA SameKeeps ==
  ASSUME TypeOK, ChainInv, TypeOK', CreditsInv, CreditsInv',
         UNCHANGED <<owing, returns, surplus, credited>>,
         NEW i \in Items, NEW r \in ReturnIds
  PROVE  RemainingByReturn(i)'[r] = RemainingByReturn(i)[r]
<1>1. PICK none : none = {}
  OBVIOUS
<1>2. Replaces(none, none) /\ r \in ReturnIds \ none
  BY <1>1 DEF Replaces
<1>3. GoneOut(i)' = GoneOut(i)
  BY DEF GoneOut, SurplusSum
<1>4. SameBefore(i, r)
  <2>1. OlderIn(Place(i)', ReturnIds, r) \subseteq ReturnIds
        /\ OlderIn(Place(i), ReturnIds, r) \subseteq ReturnIds
    BY DEF OlderIn
  <2>2. \A x \in ReturnIds : x \in OlderIn(Place(i)', ReturnIds, r)
                               <=> x \in OlderIn(Place(i), ReturnIds, r)
    BY <1>1, <1>2, OrderKept
  <2> QED BY <2>1, <2>2 DEF SameBefore
<1> QED BY <1>3, <1>4, SameRemaining

LEMMA PlaceStep ==
  ASSUME TypeOK, LedgerInv, CreditsInv, ChainInv, TypeOK', CreditsInv', [Next]_vars,
         UNCHANGED owing, NEW i \in Items, NEW r \in ReturnIds,
         returns[r].state = "standing", returns'[r].state = "standing",
         surplus'[r][i] = surplus[r][i], ~TakesOldPlace(i)
  PROVE  RemainingByReturn(i)'[r] = RemainingByReturn(i)[r]
<1>1. r \in StandingReturns /\ r \in StandingReturns'
  BY DEF StandingReturns
<1>2. CASE UNCHANGED <<returns, surplus, credited>>
  BY <1>2, SameKeeps
<1>3. CASE MovesSurplus
  BY <1>1, <1>3, MoveKeeps
<1>4. CASE \E q \in ReturnIds : \E body, date : ReplaceReturn(q, body, date)
  <2>1. PICK q \in ReturnIds : \E body, date : ReplaceReturn(q, body, date)
    BY <1>4
  <2>2. PICK body, date : ReplaceReturn(q, body, date)
    BY <2>1
  <2>3. PICK new \in ReturnIds : CarriedOver(q, new)
    BY <2>2, CorrectionMoves
  <2>4. UNCHANGED <<orders, handBacks>>
    BY <2>2 DEF ReplaceReturn, WriteReturns
  <2> QED BY <1>1, <2>3, <2>4, CarriedKeeps
<1> QED BY <1>2, <1>3, <1>4, SurplusSteps

(* A standing return keeps what remains of its surplus through every step   *)
(* that leaves what is owed and that surplus alone: corrections never push  *)
(* what was given back onto a later return, but where one edit takes the    *)
(* old place of a return that had some before.                              *)
THEOREM CorrectionsKeepPlaces == Spec => CorrectionKeepsPlace
<1>1. (TypeOK /\ LedgerInv /\ CreditsInv /\ ChainInv)
      /\ (TypeOK /\ LedgerInv /\ CreditsInv /\ ChainInv)' /\ [Next]_vars =>
        [owing' = owing =>
           \A i \in Items, r \in ReturnIds :
              /\ returns[r].state = "standing" /\ returns'[r].state = "standing"
              /\ surplus'[r][i] = surplus[r][i]
              /\ ~TakesOldPlace(i)
              => RemainingByReturn(i)'[r] = RemainingByReturn(i)[r]]_vars
  BY PlaceStep
<1> QED BY <1>1, ChainHolds, PTL DEF Spec, CorrectionKeepsPlace
=============================================================================
