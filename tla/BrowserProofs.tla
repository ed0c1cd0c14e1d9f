---------------------------- MODULE BrowserProofs ----------------------------
(***************************************************************************)
(* One browser, for any number of tabs, sign-ins, requests and answers     *)
(* lost: a session is ended as stolen only if an answer was lost, and what *)
(* was asked for after a sign-out signs no page in again. And the new-order*)
(* form in one of its tabs: a second order like the first needs its        *)
(* override.                                                               *)
(***************************************************************************)
EXTENDS Browser, OrderForm, TLAPS, FiniteSetTheorems, SequenceTheorems

(* A call on its way that says which session it is of: a refresh, a sign-in *)
(* the server has answered, a sign-out.                                     *)
UnderWay(c)  == c.stage \in {"asked", "answered"}
Rotating(c)  == c.kind = "refresh" /\ UnderWay(c)
SigningIn(c) == c.kind = "login" /\ c.stage = "answered"
Leaving(c)   == c.kind \in {"logout", "signout"}

Known(k)  == k.family # 0 => families[k.family].state # "none"
Newest(k) ==
    Live(k.family) => LET tokens == families[k.family].tokens
                      IN  /\ k.token = Len(tokens) /\ k.token \in DOMAIN tokens
                          /\ tokens[k.token].status = "ACTIVE"

BrowserTyped == BrowserTypeOK /\ IsFiniteSet(calls)

(* Who holds a cookie of which session: one refresh at a time is under way; *)
(* a session signed in to and not yet heard of is nobody else's.            *)
CarryInv ==
    /\ Known(jar)
    /\ \A c \in calls :
          /\ Known(c.cookie) /\ Known(c.sets)
          /\ Rotating(c) => c.stage = "asked" \/ c.sets.family \in {0, c.cookie.family}
          /\ c.kind = "refresh" /\ c.stage \in {"queued", "asked"} => ~c.ok
          /\ Leaving(c) => c.sets = NoCookie
          /\ SigningIn(c) => c.sets.family # jar.family /\ c.sets.family # 0
    /\ \A c, d \in calls :
          /\ Rotating(c) /\ Rotating(d) => c = d
          /\ SigningIn(c) /\ Rotating(d) => d.cookie.family # c.sets.family
          /\ SigningIn(c) /\ SigningIn(d) /\ c.sets.family = d.sets.family => c = d

(* With no answer lost, a cookie to be used is the newest of its session.   *)
Holds(c) == IF c.stage = "asked" THEN c.cookie ELSE c.sets
LockInv ==
    lost = 0 =>
       /\ \A c \in calls : /\ c.kind = "refresh" => c.stage # "abandoned"
                           /\ Rotating(c) => Newest(Holds(c))
                           /\ SigningIn(c) => Newest(c.sets)
       /\ \/ Newest(jar)
          \/ \E c \in calls : Rotating(c) /\ c.stage = "answered" /\ c.sets.family = jar.family
       /\ \A f \in FamilyIds : ~Thief(f)

(* Unless a sign-in crossed another call, one session at most is still to   *)
(* be used: the cookie's; what a sign-out ends is that one.                 *)
OutInv ==
    /\ Crossing => crossed
    /\ \A c \in calls : c.late => out
    /\ ~crossed =>
         /\ out /\ ~mark => ~Live(jar.family)
         /\ \A c \in calls :
               /\ Rotating(c) /\ Live(c.cookie.family) => jar.family = c.cookie.family
               /\ Leaving(c) /\ c.stage = "asked" /\ Live(jar.family)
                     => jar.family = c.cookie.family
               /\ Leaving(c) /\ c.stage = "answered" => ~Live(jar.family)
               /\ Rotating(c) /\ c.late => ~Live(c.cookie.family) /\ ~c.ok

BrowserInv == BrowserTyped /\ CarryInv /\ LockInv /\ OutInv

-----------------------------------------------------------------------------
(* The rows of calls.                                                       *)
TokenRows == [status : TokenStates, at : Nat]
FamilyRows == [state : FamilyStates, tokens : Seq(TokenRows)]

LEMMA CookiesAre ==
  /\ NoCookie \in Cookies /\ NoCookie.family = 0
  /\ \A k \in Cookies : k.family \in FamilyIds \cup {0} /\ k.token \in Nat
  /\ \A f \in FamilyIds, n \in 1 .. MaxTokens : [family |-> f, token |-> n] \in Cookies
  /\ 0 \notin FamilyIds
  BY BrowserAssumption DEF Cookies, NoCookie, FamilyIds

(* The same call as far as the cookies go; one nobody awaits any more.      *)
Alike(d, c) ==
    /\ d.kind = c.kind /\ d.stage = c.stage /\ d.tab = c.tab
    /\ d.cookie = c.cookie /\ d.sets = c.sets /\ d.ok = c.ok
    /\ d.late => c.late

LEMMA AbandonedIs ==
  ASSUME NEW c \in CallRows
  PROVE  LET d == Abandoned(c)
         IN  /\ d \in CallRows /\ d.stage = "abandoned" /\ d.kind = c.kind /\ d.tab = c.tab
             /\ d.cookie = c.cookie /\ d.sets = c.sets /\ d.ok = c.ok /\ ~d.late
  BY DEF Abandoned, CallRows

LEMMA StaleIs ==
  ASSUME NEW c \in CallRows
  PROVE  LET d == [c EXCEPT !.stale = TRUE] IN d \in CallRows /\ Alike(d, c)
  BY DEF Alike, CallRows

LEMMA TimelyIs ==
  ASSUME NEW c \in CallRows
  PROVE  LET d == [c EXCEPT !.late = FALSE] IN d \in CallRows /\ Alike(d, c) /\ ~d.late
  BY DEF Alike, CallRows

LEMMA JoinedIs ==
  ASSUME NEW c \in CallRows, NEW caller \in Callers
  PROVE  LET d == [c EXCEPT !.callers = @ \cup {caller}] IN d \in CallRows /\ Alike(d, c)
  BY DEF Alike, CallRows

LEMMA SentIs ==
  ASSUME NEW c \in CallRows, NEW k \in Cookies
  PROVE  LET d == [c EXCEPT !.stage = "asked", !.cookie = k]
         IN  /\ d \in CallRows /\ d.kind = c.kind /\ d.tab = c.tab /\ d.stage = "asked"
             /\ d.cookie = k /\ d.sets = c.sets /\ d.ok = c.ok /\ d.late = c.late
  BY DEF CallRows

-----------------------------------------------------------------------------
(* What a step does to the calls that leaves the sessions and the cookie    *)
(* alone: each call there is then is one there was, by h; or one nobody     *)
(* awaits any more; or one begun; or the refresh the lock let go.           *)
Begun(d) ==
    /\ d.sets = NoCookie /\ ~d.ok /\ (d.late => out)
    /\ \/ d.kind = "refresh" /\ d.stage = "queued" /\ d.cookie = NoCookie
       \/ d.kind \in {"logout", "signout", "login"} /\ d.stage = "asked" /\ d.cookie = jar
Sent(d) ==
    /\ d.kind = "refresh" /\ d.stage = "asked" /\ d.cookie = jar /\ Known(d.sets) /\ ~d.ok
    /\ (d.late => out) /\ ~mark
    /\ \A c \in calls : ~Rotating(c)
Moves(rows, h, s, n) ==
    /\ \A d \in rows :
          \/ \E c \in calls : d = h[c] /\ Alike(d, c)
          \/ \E c \in calls : /\ d = Abandoned(c) /\ c.stage = "asked"
                              /\ c.kind = "refresh" => n # 0
          \/ Begun(d)
          \/ d = s /\ Sent(d)
    /\ n = 0 => \A c \in calls : Rotating(c) => h[c] \in rows /\ Alike(h[c], c)

LEMMA KnownJar == ASSUME BrowserInv PROVE Known(jar) /\ Known(NoCookie)
  BY CookiesAre DEF BrowserInv, CarryInv, Known

LEMMA MovedIs ==
  ASSUME BrowserInv, NEW rows, NEW h, NEW s, NEW n, Moves(rows, h, s, n), NEW d \in rows
  PROVE  /\ Known(d.cookie) /\ Known(d.sets) /\ (d.late => out)
         /\ Rotating(d) => \/ d = s /\ Sent(d)
                           \/ \E c \in calls : d = h[c] /\ Alike(d, c) /\ Rotating(c)
         /\ SigningIn(d) => \E c \in calls : d = h[c] /\ Alike(d, c) /\ SigningIn(c)
         /\ d.kind = "refresh" /\ d.stage \in {"queued", "asked"} => ~d.ok
         /\ Leaving(d) => d.sets = NoCookie
         /\ Leaving(d) /\ d.stage = "asked" => \/ d.cookie = jar
                                               \/ \E c \in calls : d = h[c] /\ Alike(d, c)
         /\ Leaving(d) /\ d.stage = "answered" => \E c \in calls : d = h[c] /\ Alike(d, c)
         /\ n = 0 /\ lost = 0 /\ d.kind = "refresh" => d.stage # "abandoned"
<1>1. \/ \E c \in calls : d = h[c] /\ Alike(d, c)
      \/ \E c \in calls : /\ d = Abandoned(c) /\ c.stage = "asked"
                          /\ c.kind = "refresh" => n # 0
      \/ Begun(d)
      \/ d = s /\ Sent(d)
  BY DEF Moves
<1>2. ASSUME NEW c \in calls
      PROVE  /\ c \in CallRows /\ Known(c.cookie) /\ Known(c.sets) /\ (c.late => out)
             /\ c.kind = "refresh" /\ c.stage \in {"queued", "asked"} => ~c.ok
             /\ Leaving(c) => c.sets = NoCookie
             /\ lost = 0 /\ c.kind = "refresh" => c.stage # "abandoned"
  BY DEF BrowserInv, BrowserTyped, BrowserTypeOK, CarryInv, LockInv, OutInv
<1>3. CASE \E c \in calls : d = h[c] /\ Alike(d, c)
  <2>1. PICK c \in calls : d = h[c] /\ Alike(d, c)
    BY <1>3
  <2> QED BY <1>2, <2>1 DEF Alike, Rotating, UnderWay, SigningIn, Leaving
<1>4. CASE \E c \in calls : /\ d = Abandoned(c) /\ c.stage = "asked"
                            /\ c.kind = "refresh" => n # 0
  <2>1. PICK c \in calls : d = Abandoned(c) /\ c.stage = "asked" /\ (c.kind = "refresh" => n # 0)
    BY <1>4
  <2>2. /\ d.stage = "abandoned" /\ d.kind = c.kind /\ d.cookie = c.cookie /\ d.sets = c.sets
        /\ ~d.late
    BY <1>2, <2>1, AbandonedIs
  <2> QED BY <1>2, <2>1, <2>2 DEF Rotating, UnderWay, SigningIn, Leaving
<1>5. CASE Begun(d)
  <2>1. /\ d.sets = NoCookie /\ ~d.ok /\ (d.late => out) /\ d.cookie \in {jar, NoCookie}
        /\ \/ d.kind = "refresh" /\ d.stage = "queued"
           \/ d.kind \in {"logout", "signout", "login"} /\ d.stage = "asked" /\ d.cookie = jar
    BY <1>5 DEF Begun
  <2>2. Known(d.cookie) /\ Known(d.sets)
    BY <2>1, KnownJar
  <2> QED BY <2>1, <2>2 DEF Rotating, UnderWay, SigningIn, Leaving
<1>6. CASE d = s /\ Sent(d)
  <2>1. /\ d.kind = "refresh" /\ d.stage = "asked" /\ d.cookie = jar /\ Known(d.sets) /\ ~d.ok
        /\ (d.late => out)
    BY <1>6 DEF Sent
  <2>2. Known(d.cookie)
    BY <2>1, KnownJar
  <2> QED BY <1>6, <2>1, <2>2 DEF Rotating, UnderWay, SigningIn, Leaving
<1> QED BY <1>1, <1>3, <1>4, <1>5, <1>6

LEMMA MovesCarry ==
  ASSUME BrowserInv, NEW rows, NEW h, NEW s, NEW n, Moves(rows, h, s, n), calls' = rows,
         UNCHANGED <<families, jar>>
  PROVE  CarryInv'
<1>1. CarryInv
  BY DEF BrowserInv
<1>2. ASSUME NEW d \in rows
      PROVE  /\ Known(d.cookie) /\ Known(d.sets)
             /\ Rotating(d) => d.stage = "asked" \/ d.sets.family \in {0, d.cookie.family}
             /\ d.kind = "refresh" /\ d.stage \in {"queued", "asked"} => ~d.ok
             /\ Leaving(d) => d.sets = NoCookie
             /\ SigningIn(d) => d.sets.family # jar.family /\ d.sets.family # 0
  <2>1. Rotating(d) => d.stage = "asked" \/ d.sets.family \in {0, d.cookie.family}
    <3>1. CASE d = s /\ Sent(d)
      BY <3>1 DEF Sent
    <3>2. CASE \E c \in calls : d = h[c] /\ Alike(d, c) /\ Rotating(c)
      BY <1>1, <3>2 DEF CarryInv, Alike
    <3> QED BY <3>1, <3>2, MovedIs
  <2>2. SigningIn(d) => d.sets.family # jar.family /\ d.sets.family # 0
    <3>1. CASE \E c \in calls : d = h[c] /\ Alike(d, c) /\ SigningIn(c)
      BY <1>1, <3>1 DEF CarryInv, Alike
    <3> QED BY <3>1, MovedIs
  <2> QED BY <2>1, <2>2, MovedIs
<1>3. ASSUME NEW d \in rows, NEW e \in rows
      PROVE  /\ Rotating(d) /\ Rotating(e) => d = e
             /\ SigningIn(d) /\ Rotating(e) => e.cookie.family # d.sets.family
             /\ SigningIn(d) /\ SigningIn(e) /\ d.sets.family = e.sets.family => d = e
  <2>1. ASSUME NEW c \in calls, NEW k \in calls
        PROVE  /\ Rotating(c) /\ Rotating(k) => c = k
               /\ SigningIn(c) /\ Rotating(k) => k.cookie.family # c.sets.family
               /\ SigningIn(c) /\ SigningIn(k) /\ c.sets.family = k.sets.family => c = k
               /\ SigningIn(c) => c.sets.family # jar.family
    BY <1>1 DEF CarryInv
  <2>2. ASSUME Rotating(d), Rotating(e) PROVE d = e
    <3>1. (d = s /\ Sent(d)) \/ \E c \in calls : d = h[c] /\ Alike(d, c) /\ Rotating(c)
      BY <2>2, MovedIs
    <3>2. (e = s /\ Sent(e)) \/ \E c \in calls : e = h[c] /\ Alike(e, c) /\ Rotating(c)
      BY <2>2, MovedIs
    <3>3. Sent(d) \/ Sent(e) => \A c \in calls : ~Rotating(c)
      BY DEF Sent
    <3> QED BY <2>1, <3>1, <3>2, <3>3
  <2>3. ASSUME SigningIn(d), Rotating(e) PROVE e.cookie.family # d.sets.family
    <3>1. PICK c \in calls : d = h[c] /\ Alike(d, c) /\ SigningIn(c)
      BY <2>3, MovedIs
    <3>2. CASE e = s /\ Sent(e)
      BY <2>1, <3>1, <3>2 DEF Sent, Alike
    <3>3. CASE \E k \in calls : e = h[k] /\ Alike(e, k) /\ Rotating(k)
      BY <2>1, <3>1, <3>3 DEF Alike
    <3> QED BY <2>3, <3>2, <3>3, MovedIs
  <2>4. ASSUME SigningIn(d), SigningIn(e), d.sets.family = e.sets.family PROVE d = e
    <3>1. PICK c \in calls : d = h[c] /\ Alike(d, c) /\ SigningIn(c)
      BY <2>4, MovedIs
    <3>2. PICK k \in calls : e = h[k] /\ Alike(e, k) /\ SigningIn(k)
      BY <2>4, MovedIs
    <3>3. c = k
      BY <2>1, <2>4, <3>1, <3>2 DEF Alike
    <3> QED BY <3>1, <3>2, <3>3
  <2> QED BY <2>2, <2>3, <2>4
<1>4. Known(jar)
  BY <1>1, SMTT(30) DEF CarryInv
<1> QED BY <1>2, <1>3, <1>4 DEF CarryInv, Known

LEMMA MovesLock ==
  ASSUME BrowserInv, NEW rows, NEW h, NEW s, NEW n, Moves(rows, h, s, n), calls' = rows,
         UNCHANGED <<families, jar>>, lost' = n, n = 0 => lost = 0
  PROVE  LockInv'
<1>1. SUFFICES ASSUME n = 0 PROVE LockInv'
  BY DEF LockInv
<1>2. /\ \A c \in calls : /\ Rotating(c) => Newest(Holds(c))
                          /\ SigningIn(c) => Newest(c.sets)
      /\ \/ Newest(jar)
         \/ \E c \in calls : Rotating(c) /\ c.stage = "answered" /\ c.sets.family = jar.family
      /\ \A f \in FamilyIds : ~Thief(f)
  BY <1>1 DEF BrowserInv, LockInv
<1>3. ASSUME NEW d \in rows
      PROVE  /\ d.kind = "refresh" => d.stage # "abandoned"
             /\ Rotating(d) => Newest(Holds(d))
             /\ SigningIn(d) => Newest(d.sets)
  <2>1. Rotating(d) => Newest(Holds(d))
    <3>1. CASE d = s /\ Sent(d)
      <4>1. Newest(jar) /\ Holds(d) = jar
        BY <1>2, <3>1 DEF Sent, Holds
      <4> QED BY <4>1
    <3>2. CASE \E c \in calls : d = h[c] /\ Alike(d, c) /\ Rotating(c)
      <4>1. PICK c \in calls : Alike(d, c) /\ Rotating(c)
        BY <3>2
      <4>2. Holds(d) = Holds(c)
        BY <4>1 DEF Holds, Alike
      <4> QED BY <1>2, <4>1, <4>2
    <3> QED BY <3>1, <3>2, MovedIs
  <2>2. SigningIn(d) => Newest(d.sets)
    BY <1>2, MovedIs DEF Alike
  <2> QED BY <1>1, <2>1, <2>2, MovedIs
<1>4. \/ Newest(jar)
      \/ \E d \in rows : Rotating(d) /\ d.stage = "answered" /\ d.sets.family = jar.family
  <2>1. CASE \E c \in calls : Rotating(c) /\ c.stage = "answered" /\ c.sets.family = jar.family
    <3>1. PICK c \in calls : Rotating(c) /\ c.stage = "answered" /\ c.sets.family = jar.family
      BY <2>1
    <3>2. h[c] \in rows /\ Alike(h[c], c)
      BY <1>1, <3>1 DEF Moves
    <3> QED BY <3>1, <3>2 DEF Alike, Rotating, UnderWay
  <2> QED BY <1>2, <2>1
<1> QED BY <1>2, <1>3, <1>4 DEF LockInv, Newest, Live, Thief

LEMMA MovesOut ==
  ASSUME BrowserInv, NEW rows, NEW h, NEW s, NEW n, Moves(rows, h, s, n), calls' = rows,
         UNCHANGED <<families, jar>>, out => out', out' /\ ~mark' => out /\ ~mark,
         ~crossed' => ~crossed, Crossing' => crossed'
  PROVE  OutInv'
<1>1. \A d \in rows : d.late => out'
  BY MovedIs
<1>2. ASSUME ~crossed'
      PROVE  /\ out' /\ ~mark' => ~Live(jar.family)
             /\ \A d \in rows :
                   /\ Rotating(d) /\ Live(d.cookie.family) => jar.family = d.cookie.family
                   /\ Leaving(d) /\ d.stage = "asked" /\ Live(jar.family)
                         => jar.family = d.cookie.family
                   /\ Leaving(d) /\ d.stage = "answered" => ~Live(jar.family)
                   /\ Rotating(d) /\ d.late => ~Live(d.cookie.family) /\ ~d.ok
  <2>1. /\ out /\ ~mark => ~Live(jar.family)
        /\ \A c \in calls :
              /\ Rotating(c) /\ Live(c.cookie.family) => jar.family = c.cookie.family
              /\ Leaving(c) /\ c.stage = "asked" /\ Live(jar.family)
                    => jar.family = c.cookie.family
              /\ Leaving(c) /\ c.stage = "answered" => ~Live(jar.family)
              /\ Rotating(c) /\ c.late => ~Live(c.cookie.family) /\ ~c.ok
    BY <1>2 DEF BrowserInv, OutInv
  <2>2. ASSUME NEW d \in rows, Rotating(d)
        PROVE  /\ Live(d.cookie.family) => jar.family = d.cookie.family
               /\ d.late => ~Live(d.cookie.family) /\ ~d.ok
    <3>1. CASE d = s /\ Sent(d)
      BY <2>1, <3>1 DEF Sent
    <3>2. CASE \E c \in calls : d = h[c] /\ Alike(d, c) /\ Rotating(c)
      BY <2>1, <3>2 DEF Alike
    <3> QED BY <2>2, <3>1, <3>2, MovedIs
  <2>3. ASSUME NEW d \in rows, Leaving(d)
        PROVE  /\ d.stage = "asked" /\ Live(jar.family) => jar.family = d.cookie.family
               /\ d.stage = "answered" => ~Live(jar.family)
    <3>1. d.stage = "asked" => d.cookie = jar \/ \E c \in calls : d = h[c] /\ Alike(d, c)
      BY <2>3, MovedIs
    <3>2. d.stage = "answered" => \E c \in calls : d = h[c] /\ Alike(d, c)
      BY <2>3, MovedIs
    <3> QED BY <2>1, <2>3, <3>1, <3>2 DEF Alike, Leaving
  <2> QED BY <2>1, <2>2, <2>3
<1> QED BY <1>1, <1>2 DEF OutInv, Live
-----------------------------------------------------------------------------
(* What a page makes of the calls.                                          *)
Continued(rows, n) ==
    /\ rows \subseteq CallRows /\ IsFiniteSet(rows)
    /\ \E h, s : Moves(rows, h, s, n)
Remain(rows, n) ==
    /\ IsFiniteSet(rows)
    /\ \A d \in rows : \/ d \in calls
                       \/ \E c \in calls : /\ d = Abandoned(c) /\ c.stage = "asked"
                                           /\ c.kind = "refresh" => n # 0
    /\ n = 0 => \A c \in calls : Rotating(c) => c \in rows

LEMMA CallsAre ==
  ASSUME BrowserInv PROVE IsFiniteSet(calls) /\ \A c \in calls : c \in CallRows /\ Alike(c, c)
  BY DEF BrowserInv, BrowserTyped, BrowserTypeOK, Alike

LEMMA RemainTyped ==
  ASSUME BrowserInv, NEW rows, NEW n, Remain(rows, n), NEW d \in rows
  PROVE  d \in CallRows
  BY CallsAre, AbandonedIs DEF Remain

LEMMA AllRemain == ASSUME BrowserInv, NEW n PROVE Remain(calls, n)
  BY CallsAre DEF Remain

LEMMA RemainContinues ==
  ASSUME BrowserInv, NEW rows, NEW n, Remain(rows, n)
  PROVE  Continued(rows, n)
<1>1. PICK h : h = [c \in calls |-> c]
  OBVIOUS
<1>2. \A c \in calls : h[c] = c
  BY <1>1
<1>3. Moves(rows, h, 0, n)
  BY <1>2, CallsAre DEF Remain, Moves
<1> QED BY <1>3, RemainTyped DEF Continued, Remain

LEMMA OutdatedContinues ==
  ASSUME BrowserInv, NEW rows, NEW n, Remain(rows, n), NEW t
  PROVE  Continued(Outdated(rows, t), n)
<1> DEFINE own(c) == c.kind = "refresh" /\ c \in Own(t)
<1>1. PICK h : h = [c \in calls |-> IF own(c) THEN [c EXCEPT !.stale = TRUE] ELSE c]
  OBVIOUS
<1>2. ASSUME NEW c \in calls
      PROVE  /\ h[c] = (IF own(c) THEN [c EXCEPT !.stale = TRUE] ELSE c)
             /\ h[c] \in CallRows /\ Alike(h[c], c)
  <2>1. h[c] = (IF own(c) THEN [c EXCEPT !.stale = TRUE] ELSE c)
    BY <1>1
  <2> QED BY <2>1, CallsAre, StaleIs
<1>3. PICK out0 : out0 = Outdated(rows, t)
  OBVIOUS
<1>4. ASSUME NEW d \in out0
      PROVE  /\ d \in CallRows
             /\ \/ \E c \in calls : d = h[c] /\ Alike(d, c)
                \/ \E c \in calls : /\ d = Abandoned(c) /\ c.stage = "asked"
                                    /\ c.kind = "refresh" => n # 0
  <2>1. PICK c \in rows : d = IF own(c) THEN [c EXCEPT !.stale = TRUE] ELSE c
    BY <1>3, <1>4 DEF Outdated
  <2>2. CASE c \in calls
    BY <1>2, <2>1, <2>2
  <2>3. CASE c \notin calls
    <3>1. ~own(c)
      BY <2>3 DEF Own
    <3>2. d = c /\ d \in CallRows
      BY <2>1, <3>1, RemainTyped
    <3> QED BY <2>3, <3>2 DEF Remain
  <2> QED BY <2>2, <2>3
<1>5. ASSUME n = 0, NEW c \in calls, Rotating(c)
      PROVE  h[c] \in out0 /\ Alike(h[c], c)
  <2>1. c \in rows
    BY <1>5 DEF Remain
  <2> QED BY <1>2, <1>3, <2>1 DEF Outdated
<1>6. Moves(out0, h, 0, n)
  BY <1>4, <1>5 DEF Moves
<1>7. IsFiniteSet(out0)
  <2>1. PICK g : g = [c \in rows |-> IF own(c) THEN [c EXCEPT !.stale = TRUE] ELSE c]
    OBVIOUS
  <2>2. \A c \in rows : g[c] = IF own(c) THEN [c EXCEPT !.stale = TRUE] ELSE c
    BY <2>1
  <2>3. out0 = {g[c] : c \in rows}
    BY <1>3, <2>2 DEF Outdated
  <2>4. g \in Surjection(rows, out0)
    BY <2>1, <2>3 DEF Surjection
  <2> QED BY <2>4, FS_Surjection DEF Remain
<1> QED BY <1>3, <1>4, <1>6, <1>7 DEF Continued

LEMMA BeginContinues ==
  ASSUME NEW rows, NEW n, Continued(rows, n), NEW d \in CallRows, Begun(d)
  PROVE  Continued(rows \cup {d}, n)
<1>1. PICK h, s : Moves(rows, h, s, n)
  BY DEF Continued
<1>2. Moves(rows \cup {d}, h, s, n)
  BY <1>1 DEF Moves
<1>3. IsFiniteSet(rows \cup {d})
  BY FS_AddElement DEF Continued
<1> QED BY <1>2, <1>3 DEF Continued

LEMMA CallBegins ==
  ASSUME BrowserInv, NEW t \in Tabs, NEW callers \in SUBSET Callers,
         NEW kind \in {"refresh", "logout", "signout", "login"},
         NEW stage \in {"queued", "asked"}, kind = "refresh" <=> stage = "queued",
         NEW d, d = Call(t, kind, stage, callers)
  PROVE  d \in CallRows /\ Begun(d)
<1>1. jar \in Cookies /\ out \in BOOLEAN /\ NoCookie \in Cookies
  BY CookiesAre DEF BrowserInv, BrowserTyped, BrowserTypeOK
<1>2. PICK late : late = (kind = "refresh" /\ out)
  OBVIOUS
<1>3. late \in BOOLEAN /\ (late => out)
  <2>1. CASE kind = "refresh" /\ out
    BY <1>2, <2>1
  <2>2. CASE ~(kind = "refresh" /\ out)
    BY <1>2, <2>2
  <2> QED BY <2>1, <2>2
<1>4. PICK k : k = (IF stage = "asked" THEN jar ELSE NoCookie)
  OBVIOUS
<1>5. k \in Cookies
  BY <1>1, <1>4
<1>6. d = [kind |-> kind, tab |-> t, stage |-> stage, cookie |-> k, sets |-> NoCookie,
           ok |-> FALSE, callers |-> callers, stale |-> FALSE, late |-> late]
  BY <1>2, <1>4 DEF Call
<1>7. d \in CallRows /\ (d.late => out)
  BY <1>1, <1>3, <1>5, <1>6 DEF CallRows
<1>8. /\ d.kind = kind /\ d.stage = stage /\ d.cookie = k /\ d.sets = NoCookie
      /\ d.ok = FALSE
  BY <1>6
<1> QED BY <1>4, <1>7, <1>8 DEF Begun

LEMMA TellContinues ==
  ASSUME BrowserInv, NEW t \in Tabs, NEW rows, NEW n, Continued(rows, n), TellServer(t, rows)
  PROVE  \E told : calls' = told /\ Continued(told, n)
<1>1. CASE calls' = rows
  BY <1>1
<1>2. CASE calls' = rows \cup {Call(t, "logout", "asked", {})}
  <2>1. PICK d : d = Call(t, "logout", "asked", {})
    OBVIOUS
  <2>2. d \in CallRows /\ Begun(d)
    BY <2>1, CallBegins
  <2> QED BY <1>2, <2>1, <2>2, BeginContinues
<1> QED BY <1>1, <1>2 DEF TellServer

LEMMA CallingContinues ==
  ASSUME BrowserInv, NEW rows, NEW n, Continued(rows, n), NEW d \in CallRows, Begun(d),
         Calling(rows, d)
  PROVE  \E told : calls' = told /\ Continued(told, n)
  BY BeginContinues DEF Calling

(* What is seen of a page.                                                  *)
SeenTyped == mark \in BOOLEAN /\ record \in {"none", "recent", "old"} /\ tab \in [Tabs -> Pages]
             /\ out \in BOOLEAN /\ lost \in 0 .. MaxLost /\ tick \in 0 .. MaxTick

LEMMA ShowsTyped ==
  ASSUME BrowserInv, NEW t \in Tabs, NEW status \in {"closed", "booting", "authenticated", "anonymous"},
         Shows(t, status)
  PROVE  tab' \in [Tabs -> Pages]
<1>1. [status |-> status, due |-> 0] \in Pages
  BY DEF Pages
<1> QED BY <1>1 DEF Shows, BrowserInv, BrowserTyped, BrowserTypeOK

(* A step that leaves the sessions and the cookie alone.                    *)
Notes == crossed' \in BOOLEAN /\ (~crossed' => ~crossed) /\ (Crossing' => crossed')
PageMoves ==
    /\ SeenTyped' /\ UNCHANGED <<families, jar>>
    /\ \E rows, n : /\ calls' = rows /\ lost' = n /\ (n = 0 => lost = 0)
                    /\ Continued(rows, n)
    /\ out => out'
    /\ out' /\ ~mark' => out /\ ~mark

LEMMA PageStep ==
  ASSUME BrowserInv, PageMoves, Notes
  PROVE  BrowserInv'
<1>1. PICK rows, n : /\ calls' = rows /\ lost' = n /\ (n = 0 => lost = 0)
                     /\ Continued(rows, n)
  BY DEF PageMoves
<1>2. PICK h, s : Moves(rows, h, s, n)
  BY <1>1 DEF Continued
<1>3. BrowserTyped'
  BY <1>1 DEF PageMoves, SeenTyped, Notes, Continued, BrowserInv, BrowserTyped, BrowserTypeOK
<1>4. CarryInv'
  BY <1>1, <1>2, MovesCarry DEF PageMoves
<1>5. LockInv'
  BY <1>1, <1>2, MovesLock DEF PageMoves
<1>6. OutInv'
  BY <1>1, <1>2, MovesOut DEF PageMoves, Notes
<1> QED BY <1>3, <1>4, <1>5, <1>6 DEF BrowserInv
-----------------------------------------------------------------------------
(* What each page's step makes of the calls.                                *)
LEMMA WithoutRemains ==
  ASSUME BrowserInv, NEW c \in calls, NEW n, n # 0 \/ ~Rotating(c)
  PROVE  Remain(Without(c), n)
<1>1. IsFiniteSet(Without(c))
  BY CallsAre, FS_RemoveElement DEF Without
<1> QED BY <1>1 DEF Without, Remain

LEMMA UnansweredRemains ==
  ASSUME BrowserInv, NEW c \in calls, NEW n, n # 0
  PROVE  Remain(Unanswered(c), n)
<1>1. IsFiniteSet(calls \ {c}) /\ IsFiniteSet((calls \ {c}) \cup {Abandoned(c)})
  BY CallsAre, FS_RemoveElement, FS_AddElement
<1>2. IsFiniteSet(Unanswered(c))
  BY <1>1 DEF Unanswered, Instead
<1> QED BY <1>2 DEF Unanswered, Instead, Remain

LEMMA LeftRemains ==
  ASSUME BrowserInv, NEW t \in Tabs, NEW n, n = lost + LostWith(t)
  PROVE  Remain(Left(t), n) /\ n \in Nat /\ (n = 0 => lost = 0)
<1>1. PICK mine : mine = {c \in Sending(t, "refresh") : c.stage # "queued"}
  OBVIOUS
<1>2. lost \in Nat /\ IsFiniteSet(mine) /\ LostWith(t) = Cardinality(mine)
  <2>1. mine \subseteq calls
    BY <1>1 DEF Sending, Own
  <2> QED BY <1>1, <2>1, CallsAre, FS_Subset
          DEF LostWith, BrowserInv, BrowserTyped, BrowserTypeOK
<1>3. LostWith(t) \in Nat /\ (LostWith(t) = 0 => mine = {})
  BY <1>2, FS_CardinalityType, FS_EmptySet
<1>4. n \in Nat /\ (n = 0 => lost = 0 /\ mine = {})
  BY <1>2, <1>3
<1>5. PICK asked : asked = {d \in Own(t) : d.stage = "asked"}
  OBVIOUS
<1>6. PICK gone : gone = {Abandoned(c) : c \in asked}
  OBVIOUS
<1>7. Left(t) = (calls \ Own(t)) \cup gone
  BY <1>5, <1>6 DEF Left
<1>8. IsFiniteSet(Left(t))
  <2>1. IsFiniteSet(calls \ Own(t)) /\ IsFiniteSet(asked)
    <3>1. asked \subseteq calls /\ calls \ Own(t) \subseteq calls
      BY <1>5 DEF Own
    <3> QED BY <3>1, CallsAre, FS_Subset
  <2>2. PICK g : g = [c \in asked |-> Abandoned(c)]
    OBVIOUS
  <2>3. g \in Surjection(asked, gone)
    BY <1>6, <2>2 DEF Surjection
  <2>4. IsFiniteSet(gone)
    BY <2>1, <2>3, FS_Surjection
  <2> QED BY <1>7, <2>1, <2>4, FS_Union
<1>9. ASSUME NEW d \in Left(t)
      PROVE  \/ d \in calls
             \/ \E c \in calls : /\ d = Abandoned(c) /\ c.stage = "asked"
                                 /\ c.kind = "refresh" => n # 0
  <2>1. CASE d \in gone
    <3>1. PICK c \in asked : d = Abandoned(c)
      BY <1>6, <2>1
    <3>2. c \in calls /\ c \in Own(t) /\ c.stage = "asked"
      BY <1>5, <3>1 DEF Own
    <3>3. c.kind = "refresh" => c \in mine
      BY <1>1, <3>2 DEF Sending
    <3> QED BY <1>4, <3>1, <3>2, <3>3
  <2> QED BY <1>7, <1>9, <2>1
<1>10. ASSUME n = 0, NEW c \in calls, Rotating(c) PROVE c \in Left(t)
  <2>1. c \notin Own(t)
    <3> SUFFICES ASSUME c \in Own(t) PROVE FALSE
      OBVIOUS
    <3>1. c \in mine
      BY <1>1, <1>10 DEF Sending, Rotating, UnderWay
    <3> QED BY <1>4, <1>10, <3>1
  <2> QED BY <1>7, <1>10, <2>1
<1> QED BY <1>4, <1>8, <1>9, <1>10 DEF Remain

(* Sums up a page's step.                                                   *)
LEMMA Summed ==
  ASSUME BrowserInv, NEW n, \E told : calls' = told /\ Continued(told, n),
         lost' = n, n = 0 => lost = 0, SeenTyped', UNCHANGED <<families, jar>>,
         out => out', out' /\ ~mark' => out /\ ~mark
  PROVE  PageMoves
  BY DEF PageMoves

LEMMA Seen ==
  ASSUME BrowserInv
  PROVE  /\ mark \in BOOLEAN /\ record \in {"none", "recent", "old"} /\ tab \in [Tabs -> Pages]
         /\ out \in BOOLEAN /\ lost \in 0 .. MaxLost /\ lost \in Nat /\ tick \in 0 .. MaxTick
         /\ tick \in Nat /\ MaxLost \in Nat /\ MaxTick \in Nat /\ RetryDelay \in Nat
  BY BrowserAssumption DEF BrowserInv, BrowserTyped, BrowserTypeOK

LEMMA InactivityMoves ==
  ASSUME BrowserInv, NEW t \in Tabs, NEW rows, NEW n, Remain(rows, n),
         SignOutForInactivity(t, rows), UNCHANGED <<families, jar, tick>>,
         lost' = n, n \in 0 .. MaxLost, n = 0 => lost = 0
  PROVE  PageMoves
<1>1. mark' = TRUE /\ record' = "none" /\ out' = TRUE /\ Shows(t, "anonymous")
      /\ TellServer(t, Outdated(rows, t))
  BY DEF SignOutForInactivity
<1>2. PICK late : late = Outdated(rows, t)
  OBVIOUS
<1>3. \E told : calls' = told /\ Continued(told, n)
  BY <1>1, <1>2, OutdatedContinues, TellContinues
<1>4. SeenTyped'
  BY <1>1, Seen, ShowsTyped DEF SeenTyped
<1> QED BY <1>1, <1>3, <1>4, Summed

LEMMA BootstrapMoves ==
  ASSUME BrowserInv, NEW t \in Tabs, NEW rows, NEW n, Remain(rows, n), Bootstrap(t, rows),
         UNCHANGED <<families, jar, tick>>,
         lost' = n, n \in 0 .. MaxLost, n = 0 => lost = 0
  PROVE  PageMoves
<1>1. CASE /\ TellServer(t, Outdated(rows, t)) /\ Shows(t, "anonymous")
           /\ UNCHANGED <<mark, record, out>>
  <2>1. PICK late : late = Outdated(rows, t)
    OBVIOUS
  <2>2. \E told : calls' = told /\ Continued(told, n)
    BY <1>1, <2>1, OutdatedContinues, TellContinues
  <2>3. SeenTyped'
    BY <1>1, Seen, ShowsTyped DEF SeenTyped
  <2> QED BY <1>1, <2>2, <2>3, Summed
<1>2. CASE SignOutForInactivity(t, rows)
  BY <1>2, InactivityMoves
<1>3. CASE /\ Calling(rows, Call(t, "refresh", "queued", {"boot"})) /\ Shows(t, "booting")
           /\ UNCHANGED <<mark, record, out>>
  <2>1. PICK d : d = Call(t, "refresh", "queued", {"boot"})
    OBVIOUS
  <2>2. d \in CallRows /\ Begun(d)
    BY <2>1, CallBegins DEF Callers
  <2>3. \E told : calls' = told /\ Continued(told, n)
    BY <1>3, <2>1, <2>2, RemainContinues, CallingContinues
  <2>4. SeenTyped'
    BY <1>3, Seen, ShowsTyped DEF SeenTyped
  <2> QED BY <1>3, <2>3, <2>4, Summed
<1> QED BY <1>1, <1>2, <1>3 DEF Bootstrap

LEMMA LoadMoves == ASSUME BrowserInv, NEW t \in Tabs, Load(t) PROVE PageMoves
<1>1. PICK n : n = lost + LostWith(t)
  OBVIOUS
<1>2. n \in 0 .. MaxLost /\ Remain(Left(t), n) /\ (n = 0 => lost = 0) /\ lost' = n
  BY <1>1, LeftRemains, Seen DEF Load
<1> QED BY <1>2, BootstrapMoves DEF Load

LEMMA RetryBootMoves == ASSUME BrowserInv, NEW t \in Tabs, RetryBoot(t) PROVE PageMoves
<1>1. PICK n : n = lost
  OBVIOUS
<1>2. Remain(calls, n) /\ n \in 0 .. MaxLost /\ lost' = n /\ (n = 0 => lost = 0)
  BY <1>1, AllRemain, Seen DEF RetryBoot
<1> QED BY <1>2, BootstrapMoves DEF RetryBoot

(* The rows with one of them replaced.                                      *)
LEMMA InsteadMoves ==
  ASSUME BrowserInv, NEW c \in calls, NEW d \in CallRows, NEW n,
         Alike(d, c) \/ (Sent(d) /\ ~Rotating(c))
  PROVE  Continued(Instead(c, d), n)
<1>1. PICK h : h = [e \in calls |-> IF e = c THEN d ELSE e]
  OBVIOUS
<1>2. \A e \in calls : h[e] = IF e = c THEN d ELSE e
  BY <1>1
<1>3. Moves(Instead(c, d), h, d, n)
  <2>1. ASSUME NEW e \in Instead(c, d)
        PROVE  \/ \E k \in calls : e = h[k] /\ Alike(e, k)
               \/ e = d /\ Sent(e)
    BY <1>2, <2>1, CallsAre DEF Instead
  <2>2. ASSUME NEW e \in calls, Rotating(e)
        PROVE  h[e] \in Instead(c, d) /\ Alike(h[e], e)
    <3>1. CASE e = c
      BY <1>2, <2>2, <3>1 DEF Instead, Sent
    <3>2. CASE e # c
      BY <1>2, <3>2, CallsAre DEF Instead
    <3> QED BY <3>1, <3>2
  <2> QED BY <2>1, <2>2 DEF Moves
<1>4. IsFiniteSet(Instead(c, d)) /\ Instead(c, d) \subseteq CallRows
  BY CallsAre, FS_RemoveElement, FS_AddElement DEF Instead
<1> QED BY <1>3, <1>4 DEF Continued

LEMMA AskMoves ==
  ASSUME BrowserInv, NEW t \in Tabs, NEW caller \in Callers, AskRefresh(t, caller)
  PROVE  PageMoves
<1>1. PICK n : n = lost
  OBVIOUS
<1>2. \E told : calls' = told /\ Continued(told, n)
  <2>1. CASE \E c \in Sending(t, "refresh") : calls' = Instead(c, [c EXCEPT !.callers = @ \cup {caller}])
    <3>1. PICK c \in Sending(t, "refresh") : calls' = Instead(c, [c EXCEPT !.callers = @ \cup {caller}])
      BY <2>1
    <3>2. c \in calls /\ c \in CallRows
      BY CallsAre DEF Sending, Own
    <3>3. PICK d : d = [c EXCEPT !.callers = @ \cup {caller}]
      OBVIOUS
    <3>4. d \in CallRows /\ Alike(d, c)
      BY <3>2, <3>3, JoinedIs
    <3> QED BY <3>1, <3>2, <3>3, <3>4, InsteadMoves
  <2>2. CASE Calling(calls, Call(t, "refresh", "queued", {caller}))
    <3>1. PICK d : d = Call(t, "refresh", "queued", {caller})
      OBVIOUS
    <3>2. d \in CallRows /\ Begun(d)
      BY <3>1, CallBegins
    <3> QED BY <2>2, <3>1, <3>2, AllRemain, RemainContinues, CallingContinues
  <2> QED BY <2>1, <2>2 DEF AskRefresh
<1>3. SeenTyped'
  <2>1. tab' = [tab EXCEPT ![t].due = 0] /\ UNCHANGED <<mark, record, out, lost, tick>>
    BY DEF AskRefresh
  <2>2. tab' \in [Tabs -> Pages]
    BY <2>1, Seen DEF Pages
  <2> QED BY <2>1, <2>2, Seen DEF SeenTyped
<1> QED BY <1>1, <1>2, <1>3, Summed DEF AskRefresh

LEMMA RefusedMoves ==
  ASSUME BrowserInv, NEW c \in calls, ~Rotating(c), Refused(c, Without(c)),
         UNCHANGED <<families, jar, mark, out, lost, tick>>
  PROVE  PageMoves
<1>1. PICK n : n = lost
  OBVIOUS
<1>2. Remain(Without(c), n) /\ c.tab \in Tabs
  BY WithoutRemains, CallsAre DEF CallRows
<1>3. CASE record' = "none" /\ calls' = Outdated(Without(c), c.tab) /\ Shows(c.tab, "anonymous")
  <2>1. SeenTyped'
    BY <1>2, <1>3, Seen, ShowsTyped DEF SeenTyped
  <2> QED BY <1>1, <1>2, <1>3, <2>1, OutdatedContinues, Summed
<1>4. CASE calls' = Without(c) /\ UNCHANGED <<record, tab>>
  <2>1. SeenTyped'
    BY <1>4, Seen DEF SeenTyped
  <2> QED BY <1>1, <1>2, <1>4, <2>1, RemainContinues, Summed
<1> QED BY <1>3, <1>4 DEF Refused

LEMMA SendMoves == ASSUME BrowserInv, NEW c \in calls, Send(c) PROVE PageMoves
<1>1. c.kind = "refresh" /\ c.stage = "queued" /\ (\A e \in calls : ~Rotating(e)) /\ ~Rotating(c)
  BY DEF Send, AtLock, LockFree, Rotating, UnderWay
<1>2. CASE /\ ~PendingSignOut /\ calls' = Instead(c, [c EXCEPT !.stage = "asked", !.cookie = jar])
           /\ UNCHANGED <<record, tab>>
  <2>1. PICK d : d = [c EXCEPT !.stage = "asked", !.cookie = jar]
    OBVIOUS
  <2>2. jar \in Cookies /\ c \in CallRows
    BY CallsAre DEF BrowserInv, BrowserTyped, BrowserTypeOK
  <2>3. /\ d \in CallRows /\ d.kind = c.kind /\ d.tab = c.tab /\ d.stage = "asked"
        /\ d.cookie = jar /\ d.sets = c.sets /\ d.ok = c.ok /\ d.late = c.late
    BY <2>1, <2>2, SentIs
  <2>4. Known(c.sets) /\ ~c.ok /\ (c.late => out)
    BY <1>1 DEF BrowserInv, CarryInv, OutInv
  <2>5. Sent(d)
    BY <1>1, <1>2, <2>3, <2>4 DEF Sent, PendingSignOut
  <2>6. PICK n : n = lost
    OBVIOUS
  <2>7. \E told : calls' = told /\ Continued(told, n)
    BY <1>1, <1>2, <2>1, <2>3, <2>5, InsteadMoves
  <2>8. UNCHANGED <<families, jar, mark, out, lost, tick>>
    BY DEF Send
  <2>9. SeenTyped'
    BY <1>2, <2>8, Seen DEF SeenTyped
  <2> QED BY <2>6, <2>7, <2>8, <2>9, Summed
<1>3. CASE Refused(c, Without(c))
  BY <1>1, <1>3, RefusedMoves DEF Send
<1> QED BY <1>2, <1>3 DEF Send

LEMMA AsksMoves ==
  ASSUME BrowserInv, NEW t \in Tabs, NEW kind \in {"signout", "login"},
         Calling(calls, Call(t, kind, "asked", {})),
         UNCHANGED <<families, jar, mark, record, tab, out, lost, tick>>
  PROVE  PageMoves
<1>1. PICK n : n = lost
  OBVIOUS
<1>2. PICK d : d = Call(t, kind, "asked", {})
  OBVIOUS
<1>3. d \in CallRows /\ Begun(d)
  BY <1>2, CallBegins
<1>4. \E told : calls' = told /\ Continued(told, n)
  BY <1>2, <1>3, AllRemain, RemainContinues, CallingContinues
<1>5. SeenTyped'
  BY Seen DEF SeenTyped
<1> QED BY <1>1, <1>4, <1>5, Summed

LEMMA FailMoves == ASSUME BrowserInv, NEW c \in calls, Fail(c) PROVE PageMoves
<1>1. PICK n : n = lost + 1
  OBVIOUS
<1>2. lost' = n /\ n \in 0 .. MaxLost /\ n # 0 /\ c.tab \in Tabs
  BY <1>1, Seen, CallsAre DEF Fail, CallRows
<1>3. Remain(Unanswered(c), n)
  BY <1>2, UnansweredRemains
<1>4. UNCHANGED <<families, jar, tick>>
  BY DEF Fail
<1>5. CASE /\ mark' = TRUE /\ record' = "none" /\ calls' = Outdated(Unanswered(c), c.tab)
           /\ Shows(c.tab, "anonymous") /\ out' = TRUE
  <2>1. SeenTyped'
    BY <1>2, <1>4, <1>5, Seen, ShowsTyped DEF SeenTyped
  <2> QED BY <1>2, <1>3, <1>4, <1>5, <2>1, OutdatedContinues, Summed
<1>6. CASE /\ calls' = Unanswered(c)
           /\ tab' = IF "timer" \in c.callers /\ Status(c.tab) = "authenticated"
                     THEN [tab EXCEPT ![c.tab].due = tick + RetryDelay] ELSE tab
           /\ UNCHANGED <<mark, record, out>>
  <2>1. tab' \in [Tabs -> Pages]
    BY <1>2, <1>6, Seen DEF Pages
  <2>2. SeenTyped'
    BY <1>2, <1>4, <1>6, <2>1, Seen DEF SeenTyped
  <2> QED BY <1>2, <1>3, <1>4, <1>6, <2>2, RemainContinues, Summed
<1> QED BY <1>5, <1>6 DEF Fail

LEMMA StillMoves ==
  ASSUME BrowserInv, SeenTyped',
         UNCHANGED <<families, jar, mark, calls, out, lost>>
  PROVE  PageMoves
<1>1. PICK n : n = lost
  OBVIOUS
<1>2. \E told : calls' = told /\ Continued(told, n)
  BY AllRemain, RemainContinues
<1> QED BY <1>1, <1>2, Summed

(* Every step of a page, the user or the clock.                             *)
PageActs ==
    \/ \E c \in calls : Send(c) \/ Fail(c)
    \/ \E t \in Tabs :
          \/ Load(t) \/ RetryBoot(t) \/ RefreshQuietly(t) \/ RequestUnauthorized(t)
          \/ SignOut(t) \/ SignIn(t)
          \/ NoteActivity(t) \/ IdleLimitReached(t) \/ FollowSignOutElsewhere(t)
    \/ GoIdle \/ BrowserTick \/ UNCHANGED <<families, jar, mark, record, tab, calls, out, lost, tick>>

LEMMA PagesMove == ASSUME BrowserInv, PageActs PROVE PageMoves
<1>1. ASSUME NEW c \in calls, Send(c) \/ Fail(c) PROVE PageMoves
  BY <1>1, SendMoves, FailMoves
<1>2. ASSUME NEW t \in Tabs, Load(t) \/ RetryBoot(t) PROVE PageMoves
  BY <1>2, LoadMoves, RetryBootMoves
<1>3. ASSUME NEW t \in Tabs, RefreshQuietly(t) \/ RequestUnauthorized(t) PROVE PageMoves
  BY <1>3, AskMoves DEF RefreshQuietly, RequestUnauthorized, Callers
<1>4. ASSUME NEW t \in Tabs, SignOut(t) \/ SignIn(t) PROVE PageMoves
  BY <1>4, AsksMoves DEF SignOut, SignIn
<1>5. ASSUME NEW t \in Tabs, NoteActivity(t) PROVE PageMoves
  <2>1. SeenTyped'
    BY <1>5, Seen DEF SeenTyped, NoteActivity
  <2> QED BY <1>5, <2>1, StillMoves DEF NoteActivity
<1>6. ASSUME NEW t \in Tabs, IdleLimitReached(t) PROVE PageMoves
  <2>1. PICK n : n = lost
    OBVIOUS
  <2>2. Remain(calls, n) /\ n \in 0 .. MaxLost /\ lost' = n
    BY <1>6, <2>1, AllRemain, Seen DEF IdleLimitReached
  <2> QED BY <1>6, <2>1, <2>2, InactivityMoves DEF IdleLimitReached
<1>7. ASSUME NEW t \in Tabs, FollowSignOutElsewhere(t) PROVE PageMoves
  <2>1. PICK n : n = lost
    OBVIOUS
  <2>2. calls' = Outdated(calls, t) /\ Shows(t, "anonymous")
        /\ UNCHANGED <<families, jar, mark, record, out, lost, tick>>
    BY <1>7 DEF FollowSignOutElsewhere
  <2>3. SeenTyped'
    BY <2>2, Seen, ShowsTyped DEF SeenTyped
  <2>4. Remain(calls, n)
    BY AllRemain
  <2> QED BY <2>1, <2>2, <2>3, <2>4, OutdatedContinues, Summed
<1>8. ASSUME GoIdle PROVE PageMoves
  <2>1. SeenTyped'
    BY <1>8, Seen DEF SeenTyped, GoIdle
  <2> QED BY <1>8, <2>1, StillMoves DEF GoIdle
<1>9. ASSUME BrowserTick PROVE PageMoves
  <2>1. SeenTyped'
    BY <1>9, Seen DEF SeenTyped, BrowserTick
  <2> QED BY <1>9, <2>1, StillMoves DEF BrowserTick
<1>10. ASSUME UNCHANGED <<families, jar, mark, record, tab, calls, out, lost, tick>>
       PROVE  PageMoves
  <2>1. SeenTyped'
    BY <1>10, Seen DEF SeenTyped
  <2> QED BY <1>10, <2>1, StillMoves
<1> QED BY <1>1, <1>2, <1>3, <1>4, <1>5, <1>6, <1>7, <1>8, <1>9, <1>10 DEF PageActs
-----------------------------------------------------------------------------
(* What the server makes of the sessions.                                   *)
LEMMA FamiliesAre ==
  ASSUME BrowserInv, NEW f \in FamilyIds
  PROVE  /\ families[f] \in FamilyRows /\ families \in [FamilyIds -> FamilyRows]
         /\ families[f].tokens \in Seq(TokenRows) /\ Len(families[f].tokens) \in Nat
<1>1. families \in [FamilyIds -> FamilyRows]
  BY DEF BrowserInv, BrowserTyped, BrowserTypeOK, FamilyRows, TokenRows
<1>2. families[f] \in FamilyRows
  BY <1>1
<1>3. families[f].tokens \in Seq(TokenRows)
  BY <1>2 DEF FamilyRows
<1> QED BY <1>1, <1>2, <1>3

LEMMA RevokedIs ==
  ASSUME BrowserInv, NEW f \in FamilyIds, NEW reason \in FamilyStates,
         NEW next, next = Revoked(f, reason)
  PROVE  /\ next \in [FamilyIds -> FamilyRows] /\ next[f].state = reason
         /\ Len(next[f].tokens) = Len(families[f].tokens)
         /\ \A g \in FamilyIds \ {f} : next[g] = families[g]
<1>1. PICK tokens \in Seq(TokenRows) : tokens = families[f].tokens
  BY FamiliesAre
<1>2. PICK revoked : revoked = [n \in DOMAIN tokens |-> [tokens[n] EXCEPT !.status = "REVOKED"]]
  OBVIOUS
<1>3. \A n \in DOMAIN tokens : [tokens[n] EXCEPT !.status = "REVOKED"] \in TokenRows
  <2>1. \A n \in DOMAIN tokens : tokens[n] \in TokenRows
    BY <1>1
  <2> QED BY <2>1 DEF TokenRows, TokenStates
<1>4. revoked \in Seq(TokenRows) /\ Len(revoked) = Len(tokens)
  <2>1. Len(tokens) \in Nat /\ DOMAIN tokens = 1 .. Len(tokens)
    BY <1>1
  <2> QED BY <1>2, <1>3, <2>1
<1>5. next = [families EXCEPT ![f] = [state |-> reason, tokens |-> revoked]]
  BY <1>1, <1>2, FamiliesAre DEF Revoked
<1>6. [state |-> reason, tokens |-> revoked] \in FamilyRows
  BY <1>4 DEF FamilyRows
<1> QED BY <1>1, <1>4, <1>5, <1>6, FamiliesAre

(* A session rotated gets one token more, the newest, or is ended as stolen *)
(* - which the newest token of a session never ends it as - or stays.       *)
LEMMA RotateIs ==
  ASSUME BrowserInv, NEW f \in FamilyIds, NEW n \in Nat, NEW next, next = Rotate(f, n)
  PROVE  /\ next \in [FamilyIds -> FamilyRows]
         /\ \A g \in FamilyIds \ {f} : next[g] = families[g]
         /\ \/ next = families
            \/ /\ Live(f) /\ next[f].state = "live"
               /\ Len(next[f].tokens) = Len(families[f].tokens) + 1
               /\ Len(next[f].tokens) \in 1 .. MaxTokens
               /\ Len(next[f].tokens) \in DOMAIN next[f].tokens
               /\ next[f].tokens[Len(next[f].tokens)].status = "ACTIVE"
            \/ /\ Live(f) /\ next[f].state = "REUSE_DETECTED"
               /\ Len(next[f].tokens) = Len(families[f].tokens)
               /\ families[f].tokens[n].status # "ACTIVE"
<1>1. PICK tokens \in Seq(TokenRows) : tokens = families[f].tokens
  BY FamiliesAre
<1>2. CASE ~Live(f) \/ Len(tokens) >= MaxTokens
  BY <1>1, <1>2, FamiliesAre DEF Rotate
<1>3. ASSUME Live(f), ~(Len(tokens) >= MaxTokens),
             NEW turned \in Seq(TokenRows), Len(turned) = Len(tokens),
             next = [families EXCEPT ![f].tokens = Issued(turned)]
      PROVE  /\ next \in [FamilyIds -> FamilyRows]
             /\ \A g \in FamilyIds \ {f} : next[g] = families[g]
             /\ next[f].state = "live"
             /\ Len(next[f].tokens) = Len(families[f].tokens) + 1
             /\ Len(next[f].tokens) \in 1 .. MaxTokens
             /\ Len(next[f].tokens) \in DOMAIN next[f].tokens
             /\ next[f].tokens[Len(next[f].tokens)].status = "ACTIVE"
  <2>1. PICK token : token = [status |-> "ACTIVE", at |-> 0]
    OBVIOUS
  <2>2. token \in TokenRows /\ token.status = "ACTIVE"
    BY <2>1 DEF TokenRows, TokenStates
  <2>3. PICK issued : issued = Append(turned, token)
    OBVIOUS
  <2>4. /\ issued \in Seq(TokenRows) /\ Len(issued) = Len(tokens) + 1
        /\ issued[Len(issued)] = token /\ Len(issued) \in DOMAIN issued /\ Len(tokens) \in Nat
    BY <1>3, <2>2, <2>3
  <2>5. next = [families EXCEPT ![f].tokens = issued]
    BY <1>3, <2>1, <2>3 DEF Issued
  <2>6. families[f].state = "live" /\ families[f] \in FamilyRows
    BY <1>3, FamiliesAre DEF Live
  <2>7. next[f] = [families[f] EXCEPT !.tokens = issued] /\ (\A g \in FamilyIds \ {f} : next[g] = families[g])
        /\ DOMAIN next = FamilyIds
    BY <2>5, FamiliesAre
  <2>8. next[f] \in FamilyRows /\ next[f].tokens = issued /\ next[f].state = "live"
    BY <2>4, <2>6, <2>7 DEF FamilyRows
  <2>9. next \in [FamilyIds -> FamilyRows]
    BY <2>5, <2>7, <2>8, FamiliesAre
  <2>10. Len(issued) \in 1 .. MaxTokens
    BY <1>3, <2>4, BrowserAssumption
  <2> QED BY <1>1, <2>2, <2>4, <2>7, <2>8, <2>9, <2>10
<1>4. CASE Live(f) /\ ~(Len(tokens) >= MaxTokens) /\ tokens[n].status = "ACTIVE"
  <2>1. PICK row : row = [status |-> "ROTATED", at |-> tick]
    OBVIOUS
  <2>2. row \in TokenRows
    BY <2>1, Seen DEF TokenRows, TokenStates
  <2>3. PICK turned : turned = [tokens EXCEPT ![n] = row]
    OBVIOUS
  <2>4. turned \in Seq(TokenRows) /\ Len(turned) = Len(tokens)
    <3>1. CASE n \in 1 .. Len(tokens)
      BY <2>2, <2>3, <3>1, ExceptSeq
    <3>2. CASE n \notin 1 .. Len(tokens)
      <4>1. turned = tokens
        BY <2>3, <3>2
      <4> QED BY <4>1
    <3> QED BY <3>1, <3>2
  <2>5. next = [families EXCEPT ![f].tokens = Issued(turned)]
    BY <1>1, <1>4, <2>1, <2>3 DEF Rotate, Turn
  <2> QED BY <1>3, <1>4, <2>4, <2>5
<1>5. CASE /\ Live(f) /\ ~(Len(tokens) >= MaxTokens) /\ tokens[n].status # "ACTIVE"
           /\ IsWithinGraceWindow(tokens, n)
  <2>1. PICK turned : turned = Retired(tokens)
    OBVIOUS
  <2>2. ASSUME NEW m \in DOMAIN tokens
        PROVE  (IF tokens[m].status = "ACTIVE" THEN [status |-> "RETIRED", at |-> tick]
                ELSE tokens[m]) \in TokenRows
    <3>1. tokens[m] \in TokenRows
      OBVIOUS
    <3>2. [status |-> "RETIRED", at |-> tick] \in TokenRows
      BY Seen DEF TokenRows, TokenStates
    <3> QED BY <3>1, <3>2
  <2>3. turned = [m \in 1 .. Len(tokens) |-> IF tokens[m].status = "ACTIVE"
                            THEN [status |-> "RETIRED", at |-> tick] ELSE tokens[m]]
        /\ Len(tokens) \in Nat
    BY <2>1 DEF Retired
  <2>4. turned \in Seq(TokenRows) /\ Len(turned) = Len(tokens)
    BY <2>2, <2>3
  <2>5. next = [families EXCEPT ![f].tokens = Issued(turned)]
    BY <1>1, <1>5, <2>1 DEF Rotate
  <2> QED BY <1>3, <1>5, <2>4, <2>5
<1>6. CASE /\ Live(f) /\ ~(Len(tokens) >= MaxTokens) /\ tokens[n].status # "ACTIVE"
           /\ ~IsWithinGraceWindow(tokens, n)
  <2>1. next = Revoked(f, "REUSE_DETECTED")
    BY <1>1, <1>6 DEF Rotate
  <2> QED BY <1>1, <1>6, <2>1, RevokedIs DEF FamilyStates
<1> QED BY <1>2, <1>4, <1>5, <1>6

LEMMA NewestStays ==
  ASSUME NEW k \in Cookies, Newest(k),
         \/ k.family = 0 \/ families'[k.family] = families[k.family]
         \/ families'[k.family].state # "live"
  PROVE  Newest(k)'
  BY DEF Newest, Live

LEMMA KnownCookies ==
  ASSUME BrowserInv
  PROVE  /\ jar \in Cookies /\ Known(jar)
         /\ \A c \in calls : /\ c \in CallRows /\ c.cookie \in Cookies /\ c.sets \in Cookies
                             /\ Known(c.cookie) /\ Known(c.sets)
<1>1. \A c \in calls : c \in CallRows /\ c.cookie \in Cookies /\ c.sets \in Cookies
  BY CallsAre DEF CallRows
<1> QED BY <1>1 DEF BrowserInv, BrowserTyped, BrowserTypeOK, CarryInv

(* The answer to call c: d in its place, if anybody awaits it.              *)
Answered(c, d) ==
    /\ d \in CallRows /\ d.kind = c.kind /\ d.stage = "answered" /\ d.cookie = c.cookie
    /\ d.late => c.late
    /\ \A e \in calls' : (e \in calls /\ e # c) \/ (e = d /\ c.stage = "asked")
    /\ c.stage = "asked" => d \in calls'
    /\ \A e \in calls : e # c => e \in calls'

LEMMA AnswersAre ==
  ASSUME BrowserInv, NEW c \in calls, c.stage \in {"asked", "abandoned"},
         NEW k \in Cookies, NEW ok \in BOOLEAN, Answers(c, k, ok)
  PROVE  /\ \E d : Answered(c, d) /\ d.sets = k /\ (d.ok <=> ok)
         /\ calls' \subseteq CallRows /\ IsFiniteSet(calls')
         /\ UNCHANGED <<jar, mark, record, tab, out, lost, tick>>
<1>1. PICK d : d = [c EXCEPT !.stage = "answered", !.sets = k, !.ok = ok]
  OBVIOUS
<1>2. /\ d \in CallRows /\ d.kind = c.kind /\ d.tab = c.tab /\ d.stage = "answered"
      /\ d.cookie = c.cookie /\ d.sets = k /\ (d.ok <=> ok) /\ (d.late => c.late)
  <2>1. c \in CallRows
    BY CallsAre
  <2> QED BY <1>1, <2>1 DEF CallRows
<1>3. calls' = IF c.stage = "abandoned" THEN calls \ {c} ELSE (calls \ {c}) \cup {d}
  BY <1>1 DEF Answers, Instead
<1>4. Answered(c, d)
  BY <1>2, <1>3 DEF Answered
<1>5. calls' \subseteq CallRows /\ IsFiniteSet(calls')
  BY <1>2, <1>3, CallsAre, FS_RemoveElement, FS_AddElement
<1>6. UNCHANGED <<jar, mark, record, tab, out, lost, tick>>
  BY DEF Answers
<1> QED BY <1>2, <1>4, <1>5, <1>6

(* No session comes back to life, and none is forgotten.                    *)
Evolves ==
    /\ families' \in [FamilyIds -> FamilyRows]
    /\ \A g \in FamilyIds : families[g].state # "none" =>
          /\ families'[g].state # "none"
          /\ families'[g].state = "live" => families[g].state = "live"

LEMMA StillKnown ==
  ASSUME Evolves, NEW k \in Cookies, Known(k)
  PROVE  Known(k)' /\ (Live(k.family)' => Live(k.family))
<1>1. k.family \in FamilyIds \cup {0}
  BY CookiesAre
<1> QED BY <1>1 DEF Known, Live, Evolves

LEMMA AnswerCarry ==
  ASSUME BrowserInv, Evolves, NEW c \in calls, c.stage \in {"asked", "abandoned"},
         NEW d, Answered(c, d), UNCHANGED jar, Known(d.sets)',
         c.kind = "refresh" => d.sets.family \in {0, c.cookie.family},
         Leaving(c) => d.sets = NoCookie,
         c.kind = "login" => d.sets.family # 0 /\ families[d.sets.family].state = "none"
  PROVE  CarryInv'
<1>1. ASSUME NEW e \in calls
      PROVE  /\ Known(e.cookie)' /\ Known(e.sets)'
             /\ Rotating(e) => e.stage = "asked" \/ e.sets.family \in {0, e.cookie.family}
             /\ e.kind = "refresh" /\ e.stage \in {"queued", "asked"} => ~e.ok
             /\ Leaving(e) => e.sets = NoCookie
             /\ SigningIn(e) => e.sets.family # jar.family /\ e.sets.family # 0
  <2>1. e.cookie \in Cookies /\ e.sets \in Cookies /\ Known(e.cookie) /\ Known(e.sets)
    BY KnownCookies
  <2>2. Known(e.cookie)' /\ Known(e.sets)'
    BY <2>1, StillKnown
  <2> QED BY <2>2 DEF BrowserInv, CarryInv
<1>2. ASSUME NEW e \in calls, NEW g \in calls
      PROVE  /\ Rotating(e) /\ Rotating(g) => e = g
             /\ SigningIn(e) /\ Rotating(g) => g.cookie.family # e.sets.family
             /\ SigningIn(e) /\ SigningIn(g) /\ e.sets.family = g.sets.family => e = g
  BY DEF BrowserInv, CarryInv
<1>3. /\ d.kind = c.kind /\ d.stage = "answered" /\ d.cookie = c.cookie
      /\ \A e \in calls' : (e \in calls /\ e # c) \/ (e = d /\ c.stage = "asked")
  BY DEF Answered
<1>4. c.kind = "login" =>
        /\ d.sets.family # jar.family
        /\ \A e \in calls : Known(e.cookie) /\ Known(e.sets) /\ e.cookie.family # d.sets.family
                            /\ e.sets.family # d.sets.family
  BY KnownCookies DEF Known
<1>5. ASSUME NEW e \in calls'
      PROVE  /\ Known(e.cookie)' /\ Known(e.sets)'
             /\ Rotating(e) => e.stage = "asked" \/ e.sets.family \in {0, e.cookie.family}
             /\ e.kind = "refresh" /\ e.stage \in {"queued", "asked"} => ~e.ok
             /\ Leaving(e) => e.sets = NoCookie
             /\ SigningIn(e) => e.sets.family # jar.family /\ e.sets.family # 0
  <2>1. CASE e \in calls
    BY <1>1, <2>1
  <2>2. CASE e = d
    <3>1. Known(e.cookie)'
      <4>1. Known(c.cookie)'
        BY <1>1
      <4> QED BY <1>3, <2>2, <4>1
    <3> QED BY <1>3, <1>4, <2>2, <3>1 DEF Rotating, SigningIn, Leaving
  <2> QED BY <1>3, <1>5, <2>1, <2>2
<1>6. ASSUME NEW e \in calls', NEW g \in calls'
      PROVE  /\ Rotating(e) /\ Rotating(g) => e = g
             /\ SigningIn(e) /\ Rotating(g) => g.cookie.family # e.sets.family
             /\ SigningIn(e) /\ SigningIn(g) /\ e.sets.family = g.sets.family => e = g
  <2>1. CASE e \in calls /\ e # c /\ g \in calls /\ g # c
    BY <1>2, <2>1
  <2>2. CASE e = d /\ g = d /\ c.stage = "asked"
    BY <1>3, <2>2 DEF Rotating, SigningIn
  <2>3. CASE e = d /\ c.stage = "asked" /\ g \in calls /\ g # c
    BY <1>2, <1>3, <1>4, <2>3 DEF Rotating, SigningIn, UnderWay
  <2>4. CASE g = d /\ c.stage = "asked" /\ e \in calls /\ e # c
    BY <1>2, <1>3, <1>4, <2>4 DEF Rotating, SigningIn, UnderWay
  <2> QED BY <1>3, <1>6, <2>1, <2>2, <2>3, <2>4
<1>7. Known(jar)'
  <2>1. PICK k : k = jar
    OBVIOUS
  <2>2. Known(k)'
    BY <2>1, KnownCookies, StillKnown
  <2> QED BY <2>1, <2>2 DEF Known
<1> QED BY <1>5, <1>6, <1>7 DEF CarryInv

LEMMA AnswerOut ==
  ASSUME BrowserInv, Notes, Evolves, NEW c \in calls, c.stage \in {"asked", "abandoned"},
         NEW d, Answered(c, d), UNCHANGED <<jar, out, mark>>,
         Leaving(c) => ~Live(c.cookie.family)',
         c.kind = "refresh" /\ ~Live(c.cookie.family) => ~d.ok
  PROVE  OutInv'
<1>1. /\ d.kind = c.kind /\ d.stage = "answered" /\ d.cookie = c.cookie /\ (d.late => c.late)
      /\ \A e \in calls' : (e \in calls /\ e # c) \/ (e = d /\ c.stage = "asked")
  BY DEF Answered
<1>2. \A e \in calls' : e.late => out'
  BY <1>1 DEF BrowserInv, OutInv
<1>3. PICK f : f = jar.family /\ (Live(f)' => Live(f))
  <2>1. PICK k : k = jar
    OBVIOUS
  <2> QED BY <2>1, KnownCookies, StillKnown
<1>4. ASSUME ~crossed'
      PROVE  /\ out /\ ~mark => ~Live(f)'
             /\ \A e \in calls' :
                   /\ Rotating(e) /\ Live(e.cookie.family)' => f = e.cookie.family
                   /\ Leaving(e) /\ e.stage = "asked" /\ Live(f)' => f = e.cookie.family
                   /\ Leaving(e) /\ e.stage = "answered" => ~Live(f)'
                   /\ Rotating(e) /\ e.late => ~Live(e.cookie.family)' /\ ~e.ok
  <2>1. /\ out /\ ~mark => ~Live(f)
        /\ \A e \in calls :
              /\ Rotating(e) /\ Live(e.cookie.family) => f = e.cookie.family
              /\ Leaving(e) /\ e.stage = "asked" /\ Live(f) => f = e.cookie.family
              /\ Leaving(e) /\ e.stage = "answered" => ~Live(f)
              /\ Rotating(e) /\ e.late => ~Live(e.cookie.family) /\ ~e.ok
    BY <1>3, <1>4 DEF BrowserInv, OutInv, Notes
  <2>2. ASSUME NEW e \in calls PROVE Live(e.cookie.family)' => Live(e.cookie.family)
    BY KnownCookies, StillKnown
  <2>3. ASSUME NEW e \in calls'
        PROVE  /\ Rotating(e) /\ Live(e.cookie.family)' => f = e.cookie.family
               /\ Leaving(e) /\ e.stage = "asked" /\ Live(f)' => f = e.cookie.family
               /\ Leaving(e) /\ e.stage = "answered" => ~Live(f)'
               /\ Rotating(e) /\ e.late => ~Live(e.cookie.family)' /\ ~e.ok
    <3>1. CASE e \in calls
      BY <1>3, <2>1, <2>2, <3>1
    <3>2. CASE e = d /\ c.stage = "asked"
      <4>1. e.cookie = c.cookie /\ e.kind = c.kind /\ (e.late => c.late) /\ e.stage = "answered"
        BY <1>1, <3>2
      <4>2. Rotating(e) => Rotating(c)
        BY <3>2, <4>1 DEF Rotating, UnderWay
      <4>3. Leaving(e) => Leaving(c)
        BY <4>1 DEF Leaving
      <4>4. ASSUME Rotating(e), Live(e.cookie.family)' PROVE f = e.cookie.family
        BY <2>1, <2>2, <4>1, <4>2, <4>4
      <4>5. ASSUME Leaving(e) PROVE ~Live(f)'
        <5>1. Live(f)' => f = c.cookie.family
          BY <1>3, <2>1, <3>2, <4>3, <4>5
        <5> QED BY <4>3, <4>5, <5>1
      <4>6. ASSUME Rotating(e), e.late PROVE ~Live(e.cookie.family)' /\ ~e.ok
        <5>1. ~Live(c.cookie.family) /\ c.kind = "refresh"
          BY <2>1, <4>1, <4>2, <4>6 DEF Rotating
        <5> QED BY <2>2, <3>2, <4>1, <5>1
      <4> QED BY <4>1, <4>4, <4>5, <4>6
    <3> QED BY <1>1, <2>3, <3>1, <3>2
  <2> QED BY <1>3, <2>1, <2>3
<1>5. Crossing' => crossed'
  BY DEF Notes
<1> QED BY <1>2, <1>3, <1>4, <1>5 DEF OutInv, Live

LEMMA AnswerTyped ==
  ASSUME BrowserInv, Notes, Evolves, calls' \subseteq CallRows, IsFiniteSet(calls'),
         UNCHANGED <<jar, mark, record, tab, out, lost, tick>>
  PROVE  BrowserTyped'
  BY DEF BrowserInv, BrowserTyped, BrowserTypeOK, Notes, Evolves, FamilyRows, TokenRows

(* With no answer lost, each cookie stays the newest of its session, or its *)
(* session is over; but for the cookie rotated, whose answer is d's.        *)
LEMMA AnswerLock ==
  ASSUME BrowserInv, NEW c \in calls, c.stage \in {"asked", "abandoned"},
         NEW d, Answered(c, d), UNCHANGED <<jar, lost>>,
         \A g \in FamilyIds : Thief(g)' => Thief(g) \/ lost # 0,
         lost = 0 /\ c.stage = "asked" /\ c.kind \in {"refresh", "login"} => Newest(d.sets)',
         lost = 0 =>
            \A k \in Cookies :
               \/ k.family = 0 \/ families'[k.family] = families[k.family]
               \/ families'[k.family].state # "live"
               \/ Rotating(c) /\ k.family = c.cookie.family /\ k.family = d.sets.family
               \/ c.kind = "login" /\ families[k.family].state = "none"
  PROVE  LockInv'
<1>1. SUFFICES ASSUME lost = 0 PROVE LockInv'
  BY DEF LockInv
<1>2. /\ \A e \in calls : /\ e.kind = "refresh" => e.stage # "abandoned"
                          /\ Rotating(e) => Newest(Holds(e))
                          /\ SigningIn(e) => Newest(e.sets)
      /\ \/ Newest(jar)
         \/ \E e \in calls : Rotating(e) /\ e.stage = "answered" /\ e.sets.family = jar.family
      /\ \A f \in FamilyIds : ~Thief(f)
  BY <1>1 DEF BrowserInv, LockInv
<1>3. /\ d.kind = c.kind /\ d.stage = "answered" /\ d.cookie = c.cookie
      /\ \A e \in calls' : (e \in calls /\ e # c) \/ (e = d /\ c.stage = "asked")
      /\ c.stage = "asked" => d \in calls'
      /\ \A e \in calls : e # c => e \in calls'
  BY DEF Answered
<1>4. ASSUME NEW k \in Cookies, Newest(k), Known(k),
             ~(Rotating(c) /\ k.family = c.cookie.family /\ k.family = d.sets.family)
      PROVE  Newest(k)'
  <2>1. k.family # 0 => families[k.family].state # "none"
    BY <1>4 DEF Known
  <2> QED BY <1>1, <1>4, <2>1, NewestStays
<1>5. ASSUME NEW e \in calls, e # c, SigningIn(e) PROVE Newest(e.sets)'
  <2>1. e.sets \in Cookies /\ Known(e.sets) /\ Newest(e.sets)
    BY <1>2, <1>5, KnownCookies
  <2>2. Rotating(c) => c.cookie.family # e.sets.family
    BY <1>5 DEF BrowserInv, CarryInv
  <2> QED BY <1>4, <2>1, <2>2
<1>6. ASSUME NEW e \in calls, e # c, Rotating(e) PROVE Newest(Holds(e))'
  <2>1. PICK k : k = Holds(e)
    OBVIOUS
  <2>2. k \in Cookies /\ Known(k) /\ Newest(k)
    BY <1>2, <1>6, <2>1, KnownCookies DEF Holds
  <2>3. ~Rotating(c)
    BY <1>6 DEF BrowserInv, CarryInv
  <2> QED BY <1>4, <2>1, <2>2, <2>3
<1>7. ASSUME NEW e \in calls'
      PROVE  /\ e.kind = "refresh" => e.stage # "abandoned"
             /\ Rotating(e) => Newest(Holds(e))'
             /\ SigningIn(e) => Newest(e.sets)'
  <2>1. CASE e \in calls /\ e # c
    BY <1>2, <1>5, <1>6, <2>1
  <2>2. CASE e = d /\ c.stage = "asked"
    <3>1. Rotating(e) \/ SigningIn(e) => Newest(d.sets)'
      BY <1>1, <1>3, <2>2 DEF Rotating, SigningIn
    <3>2. Holds(e) = d.sets /\ e.stage = "answered"
      BY <1>3, <2>2 DEF Holds
    <3> QED BY <2>2, <3>1, <3>2
  <2> QED BY <1>3, <1>7, <2>1, <2>2
<1>8. \/ Newest(jar)'
      \/ \E e \in calls' : Rotating(e) /\ e.stage = "answered" /\ e.sets.family = jar.family
  <2>1. CASE Newest(jar)
    <3>1. PICK k : k = jar /\ k = jar'
      OBVIOUS
    <3>2. k \in Cookies /\ Known(k) /\ Newest(k)
      BY <2>1, <3>1, KnownCookies
    <3>3. CASE Rotating(c) /\ k.family = c.cookie.family /\ k.family = d.sets.family
      <4>1. c.stage = "asked" /\ Rotating(d) /\ d.stage = "answered" /\ d \in calls'
        BY <1>3, <3>3 DEF Rotating, UnderWay
      <4> QED BY <3>1, <3>3, <4>1
    <3>4. CASE ~(Rotating(c) /\ k.family = c.cookie.family /\ k.family = d.sets.family)
      <4>1. Newest(k)'
        BY <1>4, <3>2, <3>4
      <4> QED BY <3>1, <4>1
    <3> QED BY <3>3, <3>4
  <2>2. CASE \E e \in calls : Rotating(e) /\ e.stage = "answered" /\ e.sets.family = jar.family
    <3>1. PICK e \in calls : Rotating(e) /\ e.stage = "answered" /\ e.sets.family = jar.family
      BY <2>2
    <3>2. e # c
      BY <3>1
    <3> QED BY <1>3, <3>1, <3>2
  <2> QED BY <1>2, <2>1, <2>2
<1>9. \A g \in FamilyIds : ~Thief(g)'
  BY <1>1, <1>2
<1> QED BY <1>7, <1>8, <1>9 DEF LockInv

LEMMA NoneHeld == ASSUME BrowserInv PROVE Newest(NoCookie)' /\ Known(NoCookie)' /\ NoCookie \in Cookies
  BY CookiesAre DEF Newest, Known, Live

LEMMA ServeRefreshStep ==
  ASSUME BrowserInv, Notes, NEW c \in calls, ServeRefresh(c)
  PROVE  BrowserInv'
<1>0. c.kind = "refresh" /\ c.stage \in {"asked", "abandoned"} /\ ~Leaving(c)
  BY DEF ServeRefresh, AtServer, Leaving
<1>1. PICK f, n : f = c.cookie.family /\ n = c.cookie.token
  OBVIOUS
<1>2. f \in FamilyIds \cup {0} /\ n \in Nat
  BY <1>1, KnownCookies, CookiesAre
<1>3. CASE families' = families /\ Answers(c, NoCookie, FALSE)
  <2>1. Evolves
    BY <1>3, FamiliesAre DEF Evolves, BrowserInv, BrowserTyped, BrowserTypeOK, FamilyRows, TokenRows
  <2>2. PICK d : Answered(c, d) /\ d.sets = NoCookie /\ ~d.ok
    BY <1>0, <1>3, AnswersAre, CookiesAre
  <2>3. /\ calls' \subseteq CallRows /\ IsFiniteSet(calls')
        /\ UNCHANGED <<jar, mark, record, tab, out, lost, tick>>
    BY <1>0, <1>3, AnswersAre, CookiesAre
  <2>4. BrowserTyped'
    BY <2>1, <2>3, AnswerTyped
  <2>5. CarryInv'
    BY <1>0, <2>1, <2>2, <2>3, AnswerCarry, NoneHeld, CookiesAre
  <2>6. LockInv'
    <3>1. \A g \in FamilyIds : Thief(g)' => Thief(g) \/ lost # 0
      BY <1>3 DEF Thief
    <3>2. Newest(d.sets)'
      BY <2>2, NoneHeld
    <3> QED BY <1>0, <1>3, <2>2, <2>3, <3>1, <3>2, AnswerLock
  <2>7. OutInv'
    BY <1>0, <2>1, <2>2, <2>3, AnswerOut
  <2> QED BY <2>4, <2>5, <2>6, <2>7 DEF BrowserInv
<1>4. CASE /\ f # 0 /\ families' = Rotate(f, n)
           /\ LET issued == Len(families'[f].tokens) > Len(families[f].tokens)
              IN  Answers(c, IF issued THEN [family |-> f, token |-> Len(families'[f].tokens)]
                             ELSE NoCookie, issued)
  <2>1. f \in FamilyIds
    BY <1>2, <1>4
  <2>2. /\ families' \in [FamilyIds -> FamilyRows]
        /\ \A g \in FamilyIds \ {f} : families'[g] = families[g]
        /\ \/ families' = families
           \/ /\ Live(f) /\ families'[f].state = "live"
              /\ Len(families'[f].tokens) = Len(families[f].tokens) + 1
              /\ Len(families'[f].tokens) \in 1 .. MaxTokens
              /\ Len(families'[f].tokens) \in DOMAIN families'[f].tokens
              /\ families'[f].tokens[Len(families'[f].tokens)].status = "ACTIVE"
           \/ /\ Live(f) /\ families'[f].state = "REUSE_DETECTED"
              /\ Len(families'[f].tokens) = Len(families[f].tokens)
              /\ families[f].tokens[n].status # "ACTIVE"
    <3>1. PICK next : next = families'
      OBVIOUS
    <3>2. next = Rotate(f, n)
      BY <1>4, <3>1
    <3> QED BY <1>2, <2>1, <3>1, <3>2, RotateIs
  <2>3. CASE families' = families
    <3>1. Answers(c, NoCookie, FALSE)
      <4>1. (Len(families[f].tokens) > Len(families[f].tokens)) = FALSE
        BY <2>1, FamiliesAre
      <4>2. (Len(families'[f].tokens) > Len(families[f].tokens)) = FALSE
        BY <2>3, <4>1
      <4> QED BY <1>4, <4>2
    <3> QED BY <1>3, <2>3, <3>1
  <2>4. CASE /\ Live(f) /\ families'[f].state = "live"
             /\ Len(families'[f].tokens) = Len(families[f].tokens) + 1
             /\ Len(families'[f].tokens) \in 1 .. MaxTokens
             /\ Len(families'[f].tokens) \in DOMAIN families'[f].tokens
             /\ families'[f].tokens[Len(families'[f].tokens)].status = "ACTIVE"
    <3>1. PICK m : m = Len(families'[f].tokens)
      OBVIOUS
    <3>2. PICK k : k = [family |-> f, token |-> m]
      OBVIOUS
    <3>3. k \in Cookies /\ k.family = f /\ k.token = m
      BY <2>1, <2>4, <3>1, <3>2, CookiesAre
    <3>4. Answers(c, k, TRUE)
      <4>1. Len(families'[f].tokens) > Len(families[f].tokens)
        BY <2>1, <2>4, FamiliesAre
      <4> QED BY <1>4, <3>1, <3>2, <4>1 DEF Answers
    <3>5. Evolves
      BY <2>1, <2>2, <2>4 DEF Evolves, Live
    <3>6. PICK d : Answered(c, d) /\ d.sets = k /\ d.ok
      BY <1>0, <3>3, <3>4, AnswersAre
    <3>7. /\ calls' \subseteq CallRows /\ IsFiniteSet(calls')
          /\ UNCHANGED <<jar, mark, record, tab, out, lost, tick>>
      BY <1>0, <3>3, <3>4, AnswersAre
    <3>8. BrowserTyped'
      BY <3>5, <3>7, AnswerTyped
    <3>9. Known(k)' /\ Newest(k)'
      BY <2>4, <3>1, <3>3 DEF Known, Newest
    <3>10. CarryInv'
      BY <1>0, <1>1, <3>3, <3>5, <3>6, <3>7, <3>9, AnswerCarry
    <3>11. LockInv'
      <4>1. \A g \in FamilyIds : Thief(g)' => Thief(g) \/ lost # 0
        BY <2>2, <2>4 DEF Thief
      <4>2. lost = 0 => Rotating(c)
        BY <1>0 DEF BrowserInv, LockInv, Rotating, UnderWay
      <4>3. \A j \in Cookies : \/ j.family = 0 \/ families'[j.family] = families[j.family]
                               \/ j.family = f
        BY <2>2, CookiesAre
      <4> QED BY <1>0, <1>1, <3>3, <3>6, <3>7, <3>9, <4>1, <4>2, <4>3, AnswerLock
    <3>12. OutInv'
      BY <1>0, <1>1, <2>4, <3>5, <3>6, <3>7, AnswerOut
    <3> QED BY <3>8, <3>10, <3>11, <3>12 DEF BrowserInv
  <2>5. CASE /\ Live(f) /\ families'[f].state = "REUSE_DETECTED"
             /\ Len(families'[f].tokens) = Len(families[f].tokens)
             /\ families[f].tokens[n].status # "ACTIVE"
    <3>1. Answers(c, NoCookie, FALSE)
      <4>1. (Len(families'[f].tokens) > Len(families[f].tokens)) = FALSE
        BY <2>1, <2>5, FamiliesAre
      <4> QED BY <1>4, <4>1
    <3>2. Evolves
      BY <2>1, <2>2, <2>5 DEF Evolves, Live
    <3>3. PICK d : Answered(c, d) /\ d.sets = NoCookie /\ ~d.ok
      BY <1>0, <3>1, AnswersAre, CookiesAre
    <3>4. /\ calls' \subseteq CallRows /\ IsFiniteSet(calls')
          /\ UNCHANGED <<jar, mark, record, tab, out, lost, tick>>
      BY <1>0, <3>1, AnswersAre, CookiesAre
    <3>5. BrowserTyped'
      BY <3>2, <3>4, AnswerTyped
    <3>6. CarryInv'
      BY <1>0, <3>2, <3>3, <3>4, AnswerCarry, NoneHeld, CookiesAre
    <3>7. lost # 0
      <4> SUFFICES ASSUME lost = 0 PROVE FALSE
        OBVIOUS
      <4>1. c.stage = "asked"
        BY <1>0 DEF BrowserInv, LockInv
      <4>2. Newest(c.cookie)
        BY <1>0, <4>1 DEF BrowserInv, LockInv, Rotating, UnderWay, Holds
      <4> QED BY <1>1, <2>5, <4>2 DEF Newest
    <3>8. LockInv'
      BY <3>4, <3>7 DEF LockInv
    <3>9. OutInv'
      BY <1>0, <3>2, <3>3, <3>4, AnswerOut
    <3> QED BY <3>5, <3>6, <3>8, <3>9 DEF BrowserInv
  <2> QED BY <2>2, <2>3, <2>4, <2>5
<1> QED BY <1>0, <1>1, <1>3, <1>4 DEF ServeRefresh

LEMMA ServeLogoutStep ==
  ASSUME BrowserInv, Notes, NEW c \in calls, ServeLogout(c)
  PROVE  BrowserInv'
<1>0. /\ c.kind \in {"logout", "signout"} /\ c.stage \in {"asked", "abandoned"}
      /\ c.kind # "refresh" /\ c.kind # "login"
      /\ Answers(c, NoCookie, TRUE)
  BY DEF ServeLogout, AtServer
<1>1. PICK f : f = c.cookie.family
  OBVIOUS
<1>2. f \in FamilyIds \cup {0}
  BY <1>1, KnownCookies, CookiesAre
<1>3. families' = IF Live(f) THEN Revoked(f, "LOGOUT") ELSE families
  BY <1>1 DEF ServeLogout
<1>4. /\ families' \in [FamilyIds -> FamilyRows]
      /\ \A g \in FamilyIds : \/ families'[g] = families[g]
                              \/ families'[g].state = "LOGOUT" /\ Live(f) /\ g = f
      /\ ~Live(f)'
  <2>1. CASE Live(f)
    <3>1. f \in FamilyIds
      BY <1>2, <2>1 DEF Live
    <3>2. PICK next : next = families' /\ next = Revoked(f, "LOGOUT")
      BY <1>3, <2>1
    <3>3. /\ next \in [FamilyIds -> FamilyRows] /\ next[f].state = "LOGOUT"
          /\ \A g \in FamilyIds \ {f} : next[g] = families[g]
      BY <3>1, <3>2, RevokedIs DEF FamilyStates
    <3> QED BY <2>1, <3>1, <3>2, <3>3 DEF Live
  <2>2. CASE ~Live(f)
    <3>1. families' = families
      BY <1>3, <2>2
    <3>2. families \in [FamilyIds -> FamilyRows]
      BY DEF BrowserInv, BrowserTyped, BrowserTypeOK, FamilyRows, TokenRows
    <3> QED BY <2>2, <3>1, <3>2 DEF Live
  <2> QED BY <2>1, <2>2
<1>5. Evolves
  BY <1>4 DEF Evolves, Live
<1>6. PICK d : Answered(c, d) /\ d.sets = NoCookie /\ d.ok
  BY <1>0, AnswersAre, CookiesAre
<1>7. /\ calls' \subseteq CallRows /\ IsFiniteSet(calls')
      /\ UNCHANGED <<jar, mark, record, tab, out, lost, tick>>
  BY <1>0, AnswersAre, CookiesAre
<1>8. BrowserTyped'
  BY <1>5, <1>7, AnswerTyped
<1>9. CarryInv'
  BY <1>0, <1>5, <1>6, <1>7, AnswerCarry, NoneHeld
<1>10. LockInv'
  <2>1. \A g \in FamilyIds : Thief(g)' => Thief(g) \/ lost # 0
    BY <1>4 DEF Thief
  <2>2. \A j \in Cookies : \/ j.family = 0 \/ families'[j.family] = families[j.family]
                           \/ families'[j.family].state # "live"
    BY <1>4, CookiesAre
  <2> QED BY <1>0, <1>6, <1>7, <2>1, <2>2, AnswerLock
<1>11. OutInv'
  <2>1. ~Live(c.cookie.family)'
    BY <1>1, <1>4
  <2> QED BY <1>0, <1>5, <1>6, <1>7, <2>1, AnswerOut
<1> QED BY <1>8, <1>9, <1>10, <1>11 DEF BrowserInv

LEMMA ServeLoginStep ==
  ASSUME BrowserInv, Notes, NEW c \in calls, ServeLogin(c)
  PROVE  BrowserInv'
<1>0. /\ c.kind = "login" /\ c.stage \in {"asked", "abandoned"} /\ ~Leaving(c)
      /\ ~Rotating(c)
  BY DEF ServeLogin, AtServer, Leaving, Rotating
<1>1. PICK f \in FamilyIds :
         /\ families[f].state = "none"
         /\ families' = [families EXCEPT ![f] = [state |-> "live", tokens |-> Issued(<<>>)]]
         /\ Answers(c, [family |-> f, token |-> 1], TRUE)
  BY DEF ServeLogin
<1>2. PICK k : k = [family |-> f, token |-> 1]
  OBVIOUS
<1>3. k \in Cookies /\ k.family = f /\ k.token = 1
  BY <1>2, CookiesAre, BrowserAssumption
<1>4. PICK tokens : tokens = Issued(<<>>)
  OBVIOUS
<1>5. tokens \in Seq(TokenRows) /\ Len(tokens) = 1 /\ tokens[1].status = "ACTIVE"
      /\ 1 \in DOMAIN tokens
  <2>1. PICK row : row = [status |-> "ACTIVE", at |-> 0]
    OBVIOUS
  <2>2. row \in TokenRows /\ row.status = "ACTIVE"
    BY <2>1 DEF TokenRows, TokenStates
  <2>3. tokens = <<row>>
    BY <1>4, <2>1 DEF Issued
  <2> QED BY <2>2, <2>3
<1>6. PICK row : row = [state |-> "live", tokens |-> tokens]
  OBVIOUS
<1>7. row \in FamilyRows /\ row.state = "live" /\ row.tokens = tokens
  BY <1>5, <1>6 DEF FamilyRows, FamilyStates
<1>8. families' = [families EXCEPT ![f] = row]
  BY <1>1, <1>4, <1>6
<1>9. /\ families' \in [FamilyIds -> FamilyRows] /\ families'[f] = row
      /\ \A g \in FamilyIds \ {f} : families'[g] = families[g]
  BY <1>7, <1>8, FamiliesAre
<1>10. Evolves
  BY <1>1, <1>9 DEF Evolves
<1>11. Answers(c, k, TRUE)
  BY <1>1, <1>2
<1>12. PICK d : Answered(c, d) /\ d.sets = k /\ d.ok
  BY <1>0, <1>3, <1>11, AnswersAre
<1>13. /\ calls' \subseteq CallRows /\ IsFiniteSet(calls')
       /\ UNCHANGED <<jar, mark, record, tab, out, lost, tick>>
  BY <1>0, <1>3, <1>11, AnswersAre
<1>14. BrowserTyped'
  BY <1>10, <1>13, AnswerTyped
<1>15. Known(k)' /\ Newest(k)' /\ k.family # 0 /\ families[k.family].state = "none"
  BY <1>1, <1>3, <1>5, <1>7, <1>9, CookiesAre DEF Known, Newest
<1>16. CarryInv'
  BY <1>0, <1>10, <1>12, <1>13, <1>15, AnswerCarry
<1>17. LockInv'
  <2>1. \A g \in FamilyIds : Thief(g)' => Thief(g) \/ lost # 0
    BY <1>7, <1>9 DEF Thief
  <2>2. \A j \in Cookies : \/ j.family = 0 \/ families'[j.family] = families[j.family]
                           \/ families[j.family].state = "none"
    BY <1>1, <1>9, CookiesAre
  <2> QED BY <1>0, <1>12, <1>13, <1>15, <2>1, <2>2, AnswerLock
<1>18. OutInv'
  BY <1>0, <1>10, <1>12, <1>13, AnswerOut
<1> QED BY <1>14, <1>16, <1>17, <1>18 DEF BrowserInv
-----------------------------------------------------------------------------
(* An answer arrives: its cookie goes into the jar, and call c is gone.     *)
After(rows, h, c) ==
    /\ IsFiniteSet(rows)
    /\ \A d \in rows : d \in CallRows /\ \E e \in Without(c) : d = h[e] /\ Alike(d, e)

LEMMA WithoutAfter ==
  ASSUME BrowserInv, NEW c \in calls
  PROVE  \E h : After(Without(c), h, c)
<1>1. PICK h : h = [e \in calls |-> e]
  OBVIOUS
<1>2. IsFiniteSet(Without(c)) /\ Without(c) \subseteq calls
  BY CallsAre, FS_RemoveElement DEF Without
<1>3. \A e \in calls : h[e] = e
  BY <1>1
<1> QED BY <1>2, <1>3, CallsAre DEF After

LEMMA OutdatedAfter ==
  ASSUME BrowserInv, NEW c \in calls, NEW t
  PROVE  \E h : After(Outdated(Without(c), t), h, c)
<1> DEFINE own(e) == e.kind = "refresh" /\ e \in Own(t)
<1>1. PICK h : h = [e \in calls |-> IF own(e) THEN [e EXCEPT !.stale = TRUE] ELSE e]
  OBVIOUS
<1>2. IsFiniteSet(Without(c)) /\ Without(c) \subseteq calls
  BY CallsAre, FS_RemoveElement DEF Without
<1>3. ASSUME NEW e \in calls
      PROVE  /\ h[e] = (IF own(e) THEN [e EXCEPT !.stale = TRUE] ELSE e)
             /\ h[e] \in CallRows /\ Alike(h[e], e)
  <2>1. h[e] = (IF own(e) THEN [e EXCEPT !.stale = TRUE] ELSE e)
    BY <1>1
  <2> QED BY <2>1, CallsAre, StaleIs
<1>4. PICK rows : rows = Outdated(Without(c), t)
  OBVIOUS
<1>5. rows = {h[e] : e \in Without(c)}
  BY <1>2, <1>3, <1>4 DEF Outdated
<1>6. IsFiniteSet(rows)
  <2>1. PICK g : g = [e \in Without(c) |-> h[e]]
    OBVIOUS
  <2>2. g \in Surjection(Without(c), rows)
    BY <1>5, <2>1 DEF Surjection
  <2> QED BY <1>2, <2>2, FS_Surjection
<1>7. After(rows, h, c)
  BY <1>2, <1>3, <1>5, <1>6 DEF After
<1> QED BY <1>4, <1>7

LEMMA TimelyAfter ==
  ASSUME BrowserInv, NEW c \in calls, NEW rows, rows = {[e EXCEPT !.late = FALSE] : e \in Without(c)}
  PROVE  (\E h : After(rows, h, c)) /\ \A d \in rows : ~d.late
<1>1. PICK h : h = [e \in calls |-> [e EXCEPT !.late = FALSE]]
  OBVIOUS
<1>2. IsFiniteSet(Without(c)) /\ Without(c) \subseteq calls
  BY CallsAre, FS_RemoveElement DEF Without
<1>3. ASSUME NEW e \in calls
      PROVE  /\ h[e] = [e EXCEPT !.late = FALSE]
             /\ h[e] \in CallRows /\ Alike(h[e], e) /\ ~h[e].late
  <2>1. h[e] = [e EXCEPT !.late = FALSE]
    BY <1>1
  <2> QED BY <2>1, CallsAre, TimelyIs
<1>5. rows = {h[e] : e \in Without(c)}
  BY <1>2, <1>3
<1>6. IsFiniteSet(rows)
  <2>1. PICK g : g = [e \in Without(c) |-> h[e]]
    OBVIOUS
  <2>2. g \in Surjection(Without(c), rows)
    BY <1>5, <2>1 DEF Surjection
  <2> QED BY <1>2, <2>2, FS_Surjection
<1>7. After(rows, h, c)
  BY <1>2, <1>3, <1>5, <1>6 DEF After
<1>8. \A d \in rows : ~d.late
  BY <1>2, <1>3, <1>5
<1> QED BY <1>7, <1>8

LEMMA ArrivalCarry ==
  ASSUME BrowserInv, NEW c \in calls, c.stage = "answered",
         NEW rows, NEW h, After(rows, h, c), calls' = rows, jar' = c.sets, UNCHANGED families
  PROVE  CarryInv'
<1>1. CarryInv
  BY DEF BrowserInv
<1>2. c.sets \in Cookies /\ Known(c.sets) /\ c.kind \in {"refresh", "logout", "signout", "login"}
  BY KnownCookies DEF CallRows
<1>3. \/ Rotating(c) /\ c.sets.family \in {0, c.cookie.family}
      \/ Leaving(c) /\ c.sets.family = 0
      \/ SigningIn(c)
  BY <1>1, <1>2, CookiesAre DEF CarryInv, Rotating, UnderWay, Leaving, SigningIn
<1>4. ASSUME NEW e \in calls, e # c, SigningIn(e) PROVE e.sets.family # c.sets.family
  BY <1>1, <1>3, <1>4 DEF CarryInv
<1>5. ASSUME NEW d \in rows
      PROVE  /\ Known(d.cookie) /\ Known(d.sets)
             /\ Rotating(d) => d.stage = "asked" \/ d.sets.family \in {0, d.cookie.family}
             /\ d.kind = "refresh" /\ d.stage \in {"queued", "asked"} => ~d.ok
             /\ Leaving(d) => d.sets = NoCookie
             /\ SigningIn(d) => d.sets.family # c.sets.family /\ d.sets.family # 0
  <2>1. PICK e \in calls : e # c /\ Alike(d, e)
    BY DEF After, Without
  <2>2. /\ Known(e.cookie) /\ Known(e.sets)
        /\ Rotating(e) => e.stage = "asked" \/ e.sets.family \in {0, e.cookie.family}
        /\ e.kind = "refresh" /\ e.stage \in {"queued", "asked"} => ~e.ok
        /\ Leaving(e) => e.sets = NoCookie
        /\ SigningIn(e) => e.sets.family # c.sets.family /\ e.sets.family # 0
    BY <1>1, <1>4, <2>1 DEF CarryInv
  <2> QED BY <2>1, <2>2 DEF Alike, Rotating, UnderWay, Leaving, SigningIn
<1>6. ASSUME NEW d \in rows, NEW e \in rows
      PROVE  /\ Rotating(d) /\ Rotating(e) => d = e
             /\ SigningIn(d) /\ Rotating(e) => e.cookie.family # d.sets.family
             /\ SigningIn(d) /\ SigningIn(e) /\ d.sets.family = e.sets.family => d = e
  <2>1. PICK g \in calls : d = h[g] /\ Alike(d, g)
    BY DEF After, Without
  <2>2. PICK k \in calls : e = h[k] /\ Alike(e, k)
    BY DEF After, Without
  <2>3. /\ Rotating(g) /\ Rotating(k) => g = k
        /\ SigningIn(g) /\ Rotating(k) => k.cookie.family # g.sets.family
        /\ SigningIn(g) /\ SigningIn(k) /\ g.sets.family = k.sets.family => g = k
    BY <1>1 DEF CarryInv
  <2> QED BY <2>1, <2>2, <2>3 DEF Alike, Rotating, UnderWay, SigningIn
<1>7. Known(jar)'
  BY <1>2 DEF Known
<1> QED BY <1>5, <1>6, <1>7 DEF CarryInv, Known

LEMMA ArrivalLock ==
  ASSUME BrowserInv, NEW c \in calls, c.stage = "answered",
         NEW rows, NEW h, After(rows, h, c), calls' = rows, jar' = c.sets,
         UNCHANGED <<families, lost>>
  PROVE  LockInv'
<1>1. SUFFICES ASSUME lost = 0 PROVE LockInv'
  BY DEF LockInv
<1>2. /\ \A e \in calls : /\ e.kind = "refresh" => e.stage # "abandoned"
                          /\ Rotating(e) => Newest(Holds(e))
                          /\ SigningIn(e) => Newest(e.sets)
      /\ \A f \in FamilyIds : ~Thief(f)
  BY <1>1 DEF BrowserInv, LockInv
<1>3. ASSUME NEW d \in rows
      PROVE  /\ d.kind = "refresh" => d.stage # "abandoned"
             /\ Rotating(d) => Newest(Holds(d))
             /\ SigningIn(d) => Newest(d.sets)
  <2>1. PICK e \in calls : Alike(d, e)
    BY DEF After, Without
  <2>2. Holds(d) = Holds(e)
    BY <2>1 DEF Alike, Holds
  <2> QED BY <1>2, <2>1, <2>2 DEF Alike, Rotating, UnderWay, SigningIn
<1>4. Newest(c.sets)
  <2>1. c.kind \in {"refresh", "logout", "signout", "login"}
    BY KnownCookies DEF CallRows
  <2>2. CASE c.kind = "refresh"
    BY <1>2, <2>2 DEF Rotating, UnderWay, Holds
  <2>3. CASE c.kind = "login"
    BY <1>2, <2>3 DEF SigningIn
  <2>4. CASE c.kind \in {"logout", "signout"}
    <3>1. c.sets = NoCookie
      BY <2>4 DEF BrowserInv, CarryInv, Leaving
    <3> QED BY <3>1, CookiesAre DEF Newest, Live
  <2> QED BY <2>1, <2>2, <2>3, <2>4
<1> QED BY <1>2, <1>3, <1>4 DEF LockInv, Newest, Live, Thief

LEMMA ArrivalStep ==
  ASSUME BrowserInv, NEW c \in calls, c.stage = "answered",
         NEW rows, \E h : After(rows, h, c), calls' = rows, jar' = c.sets,
         UNCHANGED <<families, lost>>, SeenTyped', crossed' \in BOOLEAN, OutInv'
  PROVE  BrowserInv'
<1>1. PICK h : After(rows, h, c)
  OBVIOUS
<1>2. CarryInv' /\ LockInv'
  BY <1>1, ArrivalCarry, ArrivalLock
<1>3. BrowserTyped'
  <2>1. calls' \subseteq CallRows /\ IsFiniteSet(calls') /\ jar' \in Cookies
    BY <1>1, KnownCookies DEF After
  <2> QED BY <2>1 DEF BrowserInv, BrowserTyped, BrowserTypeOK, SeenTyped
<1> QED BY <1>2, <1>3 DEF BrowserInv

(* The cookie of a refresh's answer is of the session it was sent for.      *)
LEMMA RefreshOut ==
  ASSUME BrowserInv, Notes, NEW c \in calls, c.kind = "refresh", c.stage = "answered",
         NEW rows, \E h : After(rows, h, c), calls' = rows, jar' = c.sets,
         UNCHANGED <<families, out, mark>>
  PROVE  OutInv'
<1>0. Rotating(c)
  BY DEF Rotating, UnderWay
<1>1. PICK h : After(rows, h, c)
  OBVIOUS
<1>2. ASSUME NEW d \in rows
      PROVE  /\ ~Rotating(d) /\ (d.late => out)
             /\ \E e \in calls : Alike(d, e)
  <2>1. PICK e \in calls : e # c /\ Alike(d, e)
    BY <1>1 DEF After, Without
  <2>2. ~Rotating(e) /\ (e.late => out)
    BY <1>0, <2>1 DEF BrowserInv, CarryInv, OutInv
  <2> QED BY <2>1, <2>2 DEF Alike, Rotating, UnderWay
<1>3. PICK f : f = c.sets.family
  OBVIOUS
<1>4. ASSUME ~crossed'
      PROVE  /\ out /\ ~mark => ~Live(f)
             /\ \A d \in rows :
                   /\ Leaving(d) /\ d.stage = "asked" /\ Live(f) => f = d.cookie.family
                   /\ Leaving(d) /\ d.stage = "answered" => ~Live(f)
  <2>1. /\ out /\ ~mark => ~Live(jar.family)
        /\ \A e \in calls :
              /\ Rotating(e) /\ Live(e.cookie.family) => jar.family = e.cookie.family
              /\ Leaving(e) /\ e.stage = "asked" /\ Live(jar.family)
                    => jar.family = e.cookie.family
              /\ Leaving(e) /\ e.stage = "answered" => ~Live(jar.family)
    BY <1>4 DEF BrowserInv, OutInv, Notes
  <2>2. Live(f) => f = jar.family
    <3>1. f \in {0, c.cookie.family}
      BY <1>0, <1>3 DEF BrowserInv, CarryInv
    <3> QED BY <1>0, <2>1, <3>1 DEF Live
  <2> QED BY <1>2, <2>1, <2>2 DEF Alike, Leaving
<1>5. Crossing' => crossed'
  BY DEF Notes
<1> QED BY <1>2, <1>3, <1>4, <1>5 DEF OutInv, Live

LEMMA LeavingOut ==
  ASSUME BrowserInv, Notes, NEW c \in calls, Leaving(c), c.stage = "answered",
         NEW rows, \E h : After(rows, h, c), calls' = rows, jar' = c.sets,
         UNCHANGED families, out => out'
  PROVE  OutInv'
<1>1. PICK h : After(rows, h, c)
  OBVIOUS
<1>2. jar'.family = 0
  BY CookiesAre DEF BrowserInv, CarryInv
<1>3. \A d \in rows : \E e \in calls : Alike(d, e)
  BY <1>1 DEF After, Without
<1>4. \A d \in rows : d.late => out'
  BY <1>3 DEF Alike, BrowserInv, OutInv
<1>5. ASSUME ~crossed', NEW d \in rows, Rotating(d)
      PROVE  ~Live(d.cookie.family) /\ (d.late => ~d.ok)
  <2>1. PICK e \in calls : Alike(d, e)
    BY <1>3
  <2>2. Rotating(e)
    BY <1>5, <2>1 DEF Alike, Rotating, UnderWay
  <2>3. /\ Live(e.cookie.family) => jar.family = e.cookie.family
        /\ ~Live(jar.family)
        /\ e.late => ~e.ok
    BY <1>5, <2>2 DEF BrowserInv, OutInv, Notes
  <2> QED BY <2>1, <2>3 DEF Alike
<1>6. Crossing' => crossed'
  BY DEF Notes
<1> QED BY <1>2, <1>4, <1>5, <1>6 DEF OutInv, Live

(* A sign-in by itself finds no cookie of another session on its way.       *)
LEMMA LoginOut ==
  ASSUME BrowserInv, NEW c \in calls, c.stage = "answered",
         NEW rows, \E h : After(rows, h, c), calls' = rows, UNCHANGED families,
         ~out', \A d \in rows : ~d.late, Crossing' => crossed', ~crossed' => Abreast = {c}
  PROVE  OutInv'
<1>1. PICK h : After(rows, h, c)
  OBVIOUS
<1>2. ASSUME ~crossed', NEW d \in rows
      PROVE  /\ Rotating(d) => ~Live(d.cookie.family)
             /\ ~(Leaving(d) /\ UnderWay(d))
  <2>1. PICK e \in calls : e # c /\ Alike(d, e)
    BY <1>1 DEF After, Without
  <2>2. e \notin Abreast
    BY <1>2, <2>1
  <2>3. UnderWay(e) => e.kind = "refresh" /\ e.cookie = NoCookie
    BY <2>2 DEF Abreast, UnderWay
  <2> QED BY <2>1, <2>3, CookiesAre DEF Alike, Rotating, UnderWay, Leaving, Live
<1>3. ASSUME ~crossed', NEW d \in rows
      PROVE  /\ ~(Rotating(d) /\ Live(d.cookie.family)')
             /\ ~(Leaving(d) /\ d.stage \in {"asked", "answered"})
  BY <1>2, <1>3 DEF Live, UnderWay
<1> QED BY <1>3 DEF OutInv

LEMMA NotesHold ==
  ASSUME BrowserInv, NotesCrossing
  PROVE  /\ crossed' \in BOOLEAN /\ (Crossing' => crossed')
         /\ ~SignsInAlone => Notes
<1>1. crossed \in BOOLEAN
  BY DEF BrowserInv, BrowserTyped, BrowserTypeOK
<1>2. crossed' \in BOOLEAN /\ (Crossing' => crossed') /\ (~SignsInAlone /\ ~crossed' => ~crossed)
  <2>1. CASE (crossed /\ ~SignsInAlone) \/ Crossing'
    BY <1>1, <2>1 DEF NotesCrossing
  <2>2. CASE ~((crossed /\ ~SignsInAlone) \/ Crossing')
    BY <1>1, <2>2 DEF NotesCrossing
  <2> QED BY <2>1, <2>2
<1> QED BY <1>2 DEF Notes

LEMMA RefreshAnsweredStep ==
  ASSUME BrowserInv, Notes, NEW c \in calls, RefreshAnswered(c)
  PROVE  BrowserInv'
<1>1. /\ c.kind = "refresh" /\ c.stage = "answered" /\ jar' = c.sets
      /\ UNCHANGED <<families, mark, out, lost, tick>>
  BY DEF RefreshAnswered, Arrives
<1>2. c.tab \in Tabs /\ crossed' \in BOOLEAN
  BY CallsAre DEF CallRows, Notes
<1>3. CASE /\ calls' = Without(c) /\ Shows(c.tab, "authenticated")
           /\ record' = IF "boot" \in c.callers THEN "recent" ELSE record
  <2>1. SeenTyped'
    <3>1. record' \in {"none", "recent", "old"}
      BY <1>3, Seen
    <3> QED BY <1>1, <1>2, <1>3, <3>1, Seen, ShowsTyped DEF SeenTyped
  <2>2. PICK rows : rows = Without(c) /\ \E h : After(rows, h, c)
    BY WithoutAfter
  <2>3. OutInv'
    BY <1>1, <1>3, <2>2, RefreshOut
  <2> QED BY <1>1, <1>2, <1>3, <2>1, <2>2, <2>3, ArrivalStep
<1>4. CASE /\ record' = "none" /\ calls' = Outdated(Without(c), c.tab)
           /\ Shows(c.tab, "anonymous")
  <2>1. SeenTyped'
    BY <1>1, <1>2, <1>4, Seen, ShowsTyped DEF SeenTyped
  <2>2. PICK rows : rows = Outdated(Without(c), c.tab) /\ \E h : After(rows, h, c)
    BY OutdatedAfter
  <2>3. OutInv'
    BY <1>1, <1>4, <2>2, RefreshOut
  <2> QED BY <1>1, <1>2, <1>4, <2>1, <2>2, <2>3, ArrivalStep
<1>5. CASE calls' = Without(c) /\ UNCHANGED <<record, tab>>
  <2>1. SeenTyped'
    BY <1>1, <1>5, Seen DEF SeenTyped
  <2>2. PICK rows : rows = Without(c) /\ \E h : After(rows, h, c)
    BY WithoutAfter
  <2>3. OutInv'
    BY <1>1, <1>5, <2>2, RefreshOut
  <2> QED BY <1>1, <1>2, <1>5, <2>1, <2>2, <2>3, ArrivalStep
<1> QED BY <1>3, <1>4, <1>5 DEF RefreshAnswered, Refused

LEMMA LeavingAnsweredStep ==
  ASSUME BrowserInv, Notes, NEW c \in calls, LogoutAnswered(c) \/ SignOutAnswered(c)
  PROVE  BrowserInv'
<1>1. /\ Leaving(c) /\ c.stage = "answered" /\ jar' = c.sets /\ mark' = FALSE
      /\ UNCHANGED <<families, lost, tick>>
  BY DEF LogoutAnswered, SignOutAnswered, Arrives, Leaving
<1>2. c.tab \in Tabs /\ crossed' \in BOOLEAN
  BY CallsAre DEF CallRows, Notes
<1>3. CASE calls' = Without(c) /\ UNCHANGED <<record, tab, out>>
  <2>1. SeenTyped'
    BY <1>1, <1>3, Seen DEF SeenTyped
  <2>2. PICK rows : rows = Without(c) /\ \E h : After(rows, h, c)
    BY WithoutAfter
  <2>3. OutInv'
    BY <1>1, <1>3, <2>2, LeavingOut
  <2> QED BY <1>1, <1>2, <1>3, <2>1, <2>2, <2>3, ArrivalStep
<1>4. CASE SignedOut(c)
  <2>1. /\ record' = "none" /\ calls' = Outdated(Without(c), c.tab)
        /\ Shows(c.tab, "anonymous") /\ out' = TRUE
    BY <1>4 DEF SignedOut
  <2>2. SeenTyped'
    BY <1>1, <1>2, <2>1, Seen, ShowsTyped DEF SeenTyped
  <2>3. PICK rows : rows = Outdated(Without(c), c.tab) /\ \E h : After(rows, h, c)
    BY OutdatedAfter
  <2>4. OutInv'
    BY <1>1, <2>1, <2>3, LeavingOut
  <2> QED BY <1>1, <1>2, <2>1, <2>2, <2>3, <2>4, ArrivalStep
<1> QED BY <1>3, <1>4 DEF LogoutAnswered, SignOutAnswered

LEMMA LoginAnsweredStep ==
  ASSUME BrowserInv, NotesCrossing, NEW c \in calls, LoginAnswered(c)
  PROVE  BrowserInv'
<1>1. /\ c.kind = "login" /\ c.stage = "answered" /\ jar' = c.sets /\ mark' = FALSE
      /\ record' = "recent" /\ calls' = {[d EXCEPT !.late = FALSE] : d \in Without(c)}
      /\ Shows(c.tab, "authenticated") /\ out' = FALSE
      /\ UNCHANGED <<families, lost, tick>>
  BY DEF LoginAnswered, Arrives
<1>2. c.tab \in Tabs /\ crossed' \in BOOLEAN /\ (Crossing' => crossed')
  BY CallsAre, NotesHold DEF CallRows
<1>3. ASSUME ~crossed' PROVE Abreast = {c}
  <2> SUFFICES ASSUME Abreast # {c} PROVE FALSE
    OBVIOUS
  <2>1. c \in Abreast
    BY <1>1 DEF Abreast
  <2>2. crossed
    BY <1>1, <2>1 DEF Crossing, BrowserInv, OutInv
  <2>3. ~SignsInAlone
    BY <2>1 DEF SignsInAlone
  <2> QED BY <1>3, <2>2, <2>3, NotesHold DEF Notes
<1>4. SeenTyped'
  BY <1>1, <1>2, Seen, ShowsTyped DEF SeenTyped
<1>5. PICK rows : rows = {[d EXCEPT !.late = FALSE] : d \in Without(c)}
  OBVIOUS
<1>6. (\E h : After(rows, h, c)) /\ \A d \in rows : ~d.late
  BY <1>5, TimelyAfter
<1>7. OutInv'
  BY <1>1, <1>2, <1>3, <1>5, <1>6, LoginOut
<1> QED BY <1>1, <1>2, <1>4, <1>5, <1>6, <1>7, ArrivalStep

LEMMA BrowserInitially == BrowserInit => BrowserInv
<1> SUFFICES ASSUME BrowserInit PROVE BrowserInv
  OBVIOUS
<1>1. calls = {} /\ jar = NoCookie /\ NoCookie.family = 0 /\ out = FALSE /\ mark = FALSE
      /\ crossed = FALSE /\ lost = 0 /\ tick = 0
  BY CookiesAre DEF BrowserInit
<1>2. \A f \in FamilyIds : families[f].state = "none"
  BY DEF BrowserInit
<1>3. BrowserTyped
  <2>1. [state |-> "none", tokens |-> <<>>] \in FamilyRows
    BY DEF FamilyRows, FamilyStates
  <2>2. families \in [FamilyIds -> FamilyRows]
    BY <2>1 DEF BrowserInit
  <2>3. tab \in [Tabs -> Pages]
    BY DEF BrowserInit, Pages
  <2>4. IsFiniteSet(calls)
    BY <1>1, FS_EmptySet
  <2>5. lost \in 0 .. MaxLost /\ tick \in 0 .. MaxTick
    BY <1>1, BrowserAssumption
  <2>6. record = "none" /\ jar \in Cookies
    BY <1>1, CookiesAre DEF BrowserInit
  <2> QED BY <1>1, <2>2, <2>3, <2>4, <2>5, <2>6
          DEF BrowserTyped, BrowserTypeOK, FamilyRows, TokenRows
<1>4. CarryInv
  BY <1>1 DEF CarryInv, Known
<1>5. LockInv
  BY <1>1, <1>2 DEF LockInv, Newest, Live, Thief
<1>6. OutInv
  BY <1>1 DEF OutInv, Live, Crossing, Abreast
<1> QED BY <1>3, <1>4, <1>5, <1>6 DEF BrowserInv

LEMMA BrowserSteps ==
  ASSUME BrowserInv, [BrowserNext]_browserVars
  PROVE  BrowserInv'
<1>1. ASSUME BrowserNext, SignsInAlone PROVE BrowserInv'
  <2>1. PICK c \in calls : LoginAnswered(c)
    BY <1>1 DEF SignsInAlone, Abreast
  <2> QED BY <1>1, <2>1, LoginAnsweredStep DEF BrowserNext
<1>2. ASSUME BrowserNext, ~SignsInAlone PROVE BrowserInv'
  <2>1. Notes /\ NotesCrossing
    BY <1>2, NotesHold DEF BrowserNext
  <2>2. ASSUME NEW c \in calls, Server(c) PROVE BrowserInv'
    BY <2>1, <2>2, ServeRefreshStep, ServeLogoutStep, ServeLoginStep DEF Server
  <2>3. ASSUME NEW c \in calls, Arrival(c) PROVE BrowserInv'
    BY <2>1, <2>3, RefreshAnsweredStep, LeavingAnsweredStep, LoginAnsweredStep DEF Arrival
  <2>4. ASSUME PageActs PROVE BrowserInv'
    BY <2>1, <2>4, PagesMove, PageStep
  <2> QED BY <1>2, <2>2, <2>3, <2>4 DEF BrowserNext, BrowserStep, PageActs
<1>3. ASSUME UNCHANGED browserVars PROVE BrowserInv'
  <2>1. PageActs
    BY <1>3 DEF browserVars, PageActs
  <2>2. Notes
    <3>1. Crossing' <=> Crossing
      BY <1>3 DEF browserVars, Crossing, Abreast
    <3> QED BY <1>3, <3>1 DEF Notes, browserVars, BrowserInv, BrowserTyped, BrowserTypeOK, OutInv
  <2> QED BY <2>1, <2>2, PagesMove, PageStep
<1> QED BY <1>1, <1>2, <1>3

LEMMA BrowserInvHolds == BrowserSpec => []BrowserInv
BY BrowserInitially, BrowserSteps, PTL DEF BrowserSpec

(* Whatever the tabs do, whoever answers first: as long as no answer was    *)
(* lost, the lock of refresh-lock.ts keeps a cookie from being used twice,  *)
(* and session.service never ends a session as stolen.                      *)
THEOREM LockKeepsSessions == BrowserSpec => []NotTakenForThief
<1>1. BrowserInv => NotTakenForThief
  BY DEF BrowserInv, LockInv, NotTakenForThief
<1> QED BY <1>1, BrowserInvHolds, PTL

(* What a page can come to be signed in by.                                 *)
LEMMA OnlyAnswersSignIn ==
  ASSUME BrowserInv, BrowserNext, NEW t \in Tabs, Status(t) # "authenticated",
         tab'[t].status = "authenticated"
  PROVE  \/ \E c \in calls : LoginAnswered(c)
         \/ \E c \in calls : RefreshAnswered(c) /\ c.ok /\ calls' = Without(c)
<1>1. tab \in [Tabs -> Pages]
  BY Seen
<1>2. ASSUME NEW u \in Tabs, NEW status, Shows(u, status), status # "authenticated" PROVE FALSE
  BY <1>1, <1>2 DEF Shows, Status
<1>3. ASSUME tab' = tab PROVE FALSE
  BY <1>3 DEF Status
<1>4. ASSUME NEW u \in Tabs, NEW due, tab' = [tab EXCEPT ![u].due = due] PROVE FALSE
  <2>1. tab[u] \in Pages /\ tab[t] \in Pages
    BY <1>1
  <2>2. tab'[t].status = tab[t].status
    <3>1. CASE u = t
      BY <1>1, <1>4, <2>1, <3>1 DEF Pages
    <3>2. CASE u # t
      BY <1>1, <1>4, <3>2
    <3> QED BY <3>1, <3>2
  <2> QED BY <2>2 DEF Status
<1>5. ASSUME NEW u \in Tabs, NEW rows, Bootstrap(u, rows) PROVE FALSE
  <2>1. Shows(u, "anonymous") \/ Shows(u, "booting")
    BY <1>5 DEF Bootstrap, SignOutForInactivity
  <2> QED BY <1>2, <2>1
<1>6. \A c \in calls : c.tab \in Tabs
  BY CallsAre DEF CallRows
<1>7. ASSUME NEW c \in calls, Server(c) PROVE FALSE
  <2>1. tab' = tab
    BY <1>7 DEF Server, ServeRefresh, ServeLogout, ServeLogin, Answers
  <2> QED BY <1>3, <2>1
<1>8. ASSUME NEW c \in calls, Refused(c, Without(c)) PROVE FALSE
  <2>1. Shows(c.tab, "anonymous") \/ tab' = tab
    BY <1>8 DEF Refused
  <2> QED BY <1>2, <1>3, <1>6, <2>1
<1>9. ASSUME NEW c \in calls, Send(c) PROVE FALSE
  <2>1. tab' = tab \/ Refused(c, Without(c))
    BY <1>9 DEF Send
  <2> QED BY <1>3, <1>8, <2>1
<1>10. ASSUME NEW c \in calls, Fail(c) PROVE FALSE
  <2>1. \/ Shows(c.tab, "anonymous") \/ tab' = tab
        \/ tab' = [tab EXCEPT ![c.tab].due = tick + RetryDelay]
    BY <1>10 DEF Fail
  <2> QED BY <1>2, <1>3, <1>4, <1>6, <2>1
<1>11. ASSUME NEW c \in calls, LogoutAnswered(c) \/ SignOutAnswered(c) PROVE FALSE
  <2>1. tab' = tab \/ Shows(c.tab, "anonymous")
    BY <1>11 DEF LogoutAnswered, SignOutAnswered, SignedOut
  <2> QED BY <1>2, <1>3, <1>6, <2>1
<1>12. ASSUME NEW c \in calls, RefreshAnswered(c) PROVE c.ok /\ calls' = Without(c)
  <2>1. (c.ok /\ calls' = Without(c)) \/ Refused(c, Without(c))
    BY <1>12 DEF RefreshAnswered
  <2> QED BY <1>8, <2>1
<1>13. ASSUME NEW u \in Tabs, RefreshQuietly(u) \/ RequestUnauthorized(u) PROVE FALSE
  <2>1. tab' = [tab EXCEPT ![u].due = 0]
    BY <1>13 DEF RefreshQuietly, RequestUnauthorized, AskRefresh
  <2> QED BY <1>4, <2>1
<1>14. ASSUME NEW u \in Tabs, Load(u) \/ RetryBoot(u) PROVE FALSE
  BY <1>5, <1>14 DEF Load, RetryBoot
<1>15. ASSUME NEW u \in Tabs, SignOut(u) \/ SignIn(u) \/ NoteActivity(u) PROVE FALSE
  <2>1. tab' = tab
    BY <1>15 DEF SignOut, SignIn, NoteActivity
  <2> QED BY <1>3, <2>1
<1>16. ASSUME NEW u \in Tabs, IdleLimitReached(u) \/ FollowSignOutElsewhere(u) PROVE FALSE
  <2>1. Shows(u, "anonymous")
    BY <1>16 DEF IdleLimitReached, SignOutForInactivity, FollowSignOutElsewhere
  <2> QED BY <1>2, <2>1
<1>17. ASSUME GoIdle \/ BrowserTick PROVE FALSE
  <2>1. tab' = tab
    BY <1>17 DEF GoIdle, BrowserTick
  <2> QED BY <1>3, <2>1
<1> QED BY <1>7, <1>9, <1>10, <1>11, <1>12, <1>13, <1>14, <1>15, <1>16, <1>17
        DEF BrowserNext, BrowserStep, Arrival

(* Signed out is signed out: what auth.ts asks for after it is refused, at  *)
(* the lock or by the server, for the one session there was is over.        *)
THEOREM LateStaysOut == BrowserSpec => SignedOutStaysOut
<1>1. ASSUME BrowserInv, [BrowserNext]_browserVars
      PROVE  [\A t \in Tabs : \A c \in Sending(t, "refresh") :
                 out /\ out' /\ ~crossed /\ c.late /\ Status(t) # "authenticated" /\ c \notin calls'
                    => tab'[t].status # "authenticated"]_browserVars
  <2> SUFFICES ASSUME BrowserNext, NEW t \in Tabs, NEW c \in Sending(t, "refresh"),
                      out, out', ~crossed, c.late, Status(t) # "authenticated", c \notin calls',
                      tab'[t].status = "authenticated"
               PROVE  FALSE
    BY <1>1
  <2>1. c \in calls /\ c.kind = "refresh"
    BY DEF Sending, Own
  <2>2. ~\E e \in calls : LoginAnswered(e)
    BY DEF LoginAnswered
  <2>3. PICK e \in calls : RefreshAnswered(e) /\ e.ok /\ calls' = Without(e)
    BY <1>1, <2>2, OnlyAnswersSignIn
  <2>4. e = c
    BY <2>1, <2>3 DEF Without
  <2>5. Rotating(c)
    BY <2>3, <2>4 DEF RefreshAnswered, Arrives, Rotating, UnderWay
  <2>6. ~c.ok
    BY <1>1, <2>1, <2>5 DEF BrowserInv, OutInv
  <2> QED BY <2>3, <2>4, <2>6
<1> QED BY <1>1, BrowserInvHolds, PTL DEF BrowserSpec, SignedOutStaysOut
-----------------------------------------------------------------------------
(* While the form is open the key kept is the last request's, for the       *)
(* payload that was sent; edits only go up, and an unedited form still holds*)
(* what it sent. So requests of one edit, none of which adds or drops the   *)
(* override, all carry one key; and no key makes two orders.                *)
Requests == [key : Nat \ {0}, draft : Drafts, override : BOOLEAN, edit : Nat,
             outcome : Outcomes, out : Nat]
PayloadOf(send) == [draft |-> send.draft, override |-> send.override]
Unchanging(m, n) ==
    /\ sends[m].edit = sends[n].edit
    /\ \A k \in m + 1 .. n : sends[k].override = sends[k - 1].override
FormTypeInv == sends \in Seq(Requests) /\ edits \in Nat /\ draft \in Drafts /\ clientOut \in Nat
KeyIsOfLast ==
    /\ sends = << >> => stored = NoKey
    /\ ~left /\ sends # << >> =>
        stored = [key |-> sends[Len(sends)].key, payload |-> PayloadOf(sends[Len(sends)])]
EditsGoUp ==
    /\ \A n \in 1 .. Len(sends) : sends[n].edit <= edits
    /\ \A n \in 1 .. Len(sends) : \A m \in 1 .. n : sends[m].edit <= sends[n].edit
    /\ \A n \in 1 .. Len(sends) : sends[n].edit = edits => sends[n].draft = draft
OneKeyUnchanged ==
    \A n \in 1 .. Len(sends) : \A m \in 1 .. n :
        Unchanging(m, n) => sends[m].key = sends[n].key /\ sends[m].override = sends[n].override
OneOrderPerKey ==
    \A m, n \in Made : sends[m].key = sends[n].key => m = n
OrderFormInv == FormTypeInv /\ KeyIsOfLast /\ EditsGoUp /\ OneKeyUnchanged /\ OneOrderPerKey

LEMMA OrderFormInitially == OrderFormInit => OrderFormInv
<1> SUFFICES ASSUME OrderFormInit PROVE OrderFormInv
  OBVIOUS
<1>1. sends = << >> /\ Len(sends) = 0 /\ 1 .. Len(sends) = {} /\ sends \in Seq(Requests)
      /\ stored = NoKey
  BY DEF OrderFormInit
<1>2. clientOut \in Nat /\ edits \in Nat /\ draft \in Drafts
  BY OrderFormAssumption DEF OrderFormInit
<1> QED BY <1>1, <1>2 DEF OrderFormInv, FormTypeInv, KeyIsOfLast, EditsGoUp, OneKeyUnchanged,
                         OneOrderPerKey, Made

(* A request sent.                                                          *)
LEMMA PostKeeps ==
  ASSUME OrderFormInv, NEW override \in BOOLEAN, Post(override) PROVE OrderFormInv'
<1> DEFINE L == Len(sends)
           payload == [draft |-> draft, override |-> override]
<1>1. PICK keeping, send :
          /\ keeping = KeyFor(payload)
          /\ send = [key |-> keeping.key, draft |-> draft, override |-> override, edit |-> edits,
                     outcome |-> "sent", out |-> 0]
  OBVIOUS
<1>2. /\ stored' = keeping /\ sends' = Append(sends, send) /\ ~left
      /\ UNCHANGED <<draft, edits, left, clientOut>>
  BY <1>1 DEF Post, server
<1>3. sends \in Seq(Requests) /\ L \in Nat /\ edits \in Nat /\ draft \in Drafts /\ clientOut \in Nat
  BY DEF OrderFormInv, FormTypeInv
<1>4. keeping.payload = payload /\ keeping.key # 0
      /\ keeping = [key |-> keeping.key, payload |-> payload]
      /\ (stored.key # 0 /\ stored.payload = payload => keeping = stored)
      /\ keeping.key \in Nat
  <2>1. CASE stored.key # 0 /\ stored.payload = payload
    <3>1. keeping = stored
      BY <1>1, <2>1 DEF KeyFor
    <3>2. sends # << >> /\ L \in 1 .. L
      BY <1>3, <2>1 DEF OrderFormInv, KeyIsOfLast, NoKey
    <3>3. stored = [key |-> sends[L].key, payload |-> PayloadOf(sends[L])] /\ sends[L] \in Requests
      BY <1>2, <1>3, <3>2 DEF OrderFormInv, KeyIsOfLast
    <3>4. sends[L].key \in Nat \ {0}
      BY <3>3 DEF Requests
    <3> HIDE DEF payload, L
    <3> QED BY <2>1, <3>1, <3>3, <3>4
  <2>2. CASE ~ (stored.key # 0 /\ stored.payload = payload)
    <3>1. keeping = [key |-> L + 1, payload |-> payload]
      BY <1>1, <2>2 DEF KeyFor
    <3> QED BY <1>3, <2>2, <3>1
  <2> QED BY <2>1, <2>2
<1>5. send \in Requests /\ send.key = keeping.key /\ send.draft = draft /\ send.override = override
      /\ send.edit = edits /\ send.outcome = "sent" /\ PayloadOf(send) = payload
  <2> HIDE DEF payload
  <2>1. keeping.key \in Nat \ {0}
    BY <1>4
  <2>2. send \in Requests /\ send.key = keeping.key /\ send.draft = draft /\ send.override = override
      /\ send.edit = edits /\ send.outcome = "sent"
    BY <1>1, <1>3, <2>1 DEF Requests, Outcomes
  <2> QED BY <2>2 DEF PayloadOf, payload
<1>6. /\ sends' \in Seq(Requests) /\ Len(sends') = L + 1 /\ sends'[L + 1] = send
      /\ \A n \in 1 .. L : sends'[n] = sends[n]
  BY <1>2, <1>3, <1>5
<1>7. FormTypeInv'
  BY <1>2, <1>3, <1>6 DEF FormTypeInv
<1>8. KeyIsOfLast'
  BY <1>2, <1>4, <1>5, <1>6 DEF KeyIsOfLast
<1>9. EditsGoUp'
  BY <1>2, <1>3, <1>5, <1>6 DEF OrderFormInv, EditsGoUp
<1>10. OneKeyUnchanged'
  <2> SUFFICES ASSUME NEW n \in 1 .. L + 1, NEW m \in 1 .. n, Unchanging(m, n)'
               PROVE sends'[m].key = sends'[n].key /\ sends'[m].override = sends'[n].override
    BY <1>6 DEF OneKeyUnchanged
  <2>1. sends'[m].edit = sends'[n].edit /\ \A k \in m + 1 .. n : sends'[k].override = sends'[k - 1].override
    BY DEF Unchanging
  <2>2. CASE n \in 1 .. L
    <3>1. \A k \in m + 1 .. n : sends'[k] = sends[k] /\ sends'[k - 1] = sends[k - 1]
      BY <1>3, <1>6, <2>2
    <3>2. sends'[m] = sends[m] /\ sends'[n] = sends[n]
      BY <1>3, <1>6, <2>2
    <3>3. Unchanging(m, n)
      BY <2>1, <3>1, <3>2 DEF Unchanging
    <3> QED BY <2>2, <3>2, <3>3 DEF OrderFormInv, OneKeyUnchanged
  <2>3. CASE n = L + 1 /\ m # n
    <3>1. m \in 1 .. L /\ L \in 1 .. L /\ L # 0 /\ sends # << >>
      BY <1>3, <2>3
    <3>2. sends'[m] = sends[m] /\ sends'[L] = sends[L] /\ sends'[n] = send
      BY <1>6, <2>3, <3>1
    <3>3. sends[m].edit = edits /\ sends[L].edit = edits
      <4>1. sends[m].edit <= sends[L].edit /\ sends[L].edit <= edits
            /\ sends[m].edit \in Nat /\ sends[L].edit \in Nat
        <5>1. sends[m] \in Requests /\ sends[L] \in Requests
          BY <1>3, <3>1
        <5>2. sends[m].edit \in Nat /\ sends[L].edit \in Nat
          BY <5>1 DEF Requests
        <5>3. sends[m].edit <= sends[L].edit /\ sends[L].edit <= edits
          BY <3>1 DEF OrderFormInv, EditsGoUp
        <5> QED BY <5>2, <5>3
      <4> QED BY <1>3, <1>5, <2>1, <3>2, <4>1
    <3>4. \A k \in m + 1 .. L : sends[k].override = sends[k - 1].override
      <4>1. \A k \in m + 1 .. L : k \in m + 1 .. n /\ sends'[k] = sends[k] /\ sends'[k - 1] = sends[k - 1]
        BY <1>3, <1>6, <2>3, <3>1
      <4> QED BY <2>1, <4>1
    <3>5. sends[m].key = sends[L].key /\ sends[m].override = sends[L].override
      BY <3>1, <3>3, <3>4 DEF OrderFormInv, OneKeyUnchanged, Unchanging
    <3>6. sends[L].override = override
      <4>1. n \in m + 1 .. n /\ n - 1 = L
        BY <1>3, <2>3, <3>1
      <4>2. sends'[n].override = sends'[n - 1].override
        BY <2>1, <4>1
      <4> QED BY <1>5, <3>2, <4>1, <4>2
    <3>7. PayloadOf(sends[L]) = payload
      BY <3>1, <3>3, <3>6 DEF OrderFormInv, EditsGoUp, PayloadOf
    <3>8. stored.key = sends[L].key /\ stored.payload = payload /\ stored.key # 0
      <4>1. sends[L].key # 0
        <5>1. sends[L] \in Requests
          BY <1>3, <3>1
        <5> QED BY <5>1 DEF Requests
      <4> QED BY <1>2, <3>1, <3>7, <4>1 DEF OrderFormInv, KeyIsOfLast
    <3> QED BY <1>4, <1>5, <3>2, <3>5, <3>6, <3>8
  <2>4. CASE m = n
    BY <2>4
  <2> QED BY <1>3, <2>2, <2>3, <2>4
<1>11. OneOrderPerKey'
  <2>1. Made' = Made /\ Made \subseteq 1 .. L
    <3>1. \A n \in 1 .. L + 1 : n \in Made' <=> n \in Made
      BY <1>3, <1>5, <1>6 DEF Made
    <3> QED BY <1>3, <1>6, <3>1 DEF Made
  <2> QED BY <1>6, <2>1 DEF OrderFormInv, OneOrderPerKey
<1> QED BY <1>7, <1>8, <1>9, <1>10, <1>11 DEF OrderFormInv

(* Steps that send nothing: an outcome, and then only one not known before, *)
(* or nothing of the requests.                                              *)
LEMMA RestsKeep ==
  ASSUME OrderFormInv, UNCHANGED <<sends, draft, edits>>, clientOut' \in Nat,
         (left' /\ stored' = NoKey) \/ UNCHANGED <<stored, left>>
  PROVE  OrderFormInv'
<1>1. FormTypeInv' /\ EditsGoUp'
  BY DEF OrderFormInv, FormTypeInv, EditsGoUp
<1>2. KeyIsOfLast'
  BY DEF OrderFormInv, KeyIsOfLast, PayloadOf
<1>3. OneKeyUnchanged'
  BY DEF OrderFormInv, OneKeyUnchanged, Unchanging
<1>4. OneOrderPerKey'
  BY DEF OrderFormInv, OneOrderPerKey, Made
<1> QED BY <1>1, <1>2, <1>3, <1>4 DEF OrderFormInv

LEMMA OutcomeKeeps ==
  ASSUME OrderFormInv, NEW n \in 1 .. Len(sends), NEW outcome \in Outcomes, NEW taken \in Nat,
         sends[n].outcome # "created",
         \A k \in 1 .. Len(sends) :
            sends'[k] = IF k = n THEN [sends[n] EXCEPT !.outcome = outcome, !.out = taken] ELSE sends[k],
         sends' \in Seq(Requests), Len(sends') = Len(sends),
         outcome = "created" => ~Replays(sends[n]),
         UNCHANGED <<draft, edits, left, stored>>, clientOut' \in Nat
  PROVE  OrderFormInv'
<1>1. \A k \in 1 .. Len(sends) :
        /\ sends'[k].key = sends[k].key /\ sends'[k].draft = sends[k].draft
        /\ sends'[k].override = sends[k].override /\ sends'[k].edit = sends[k].edit
        /\ k # n => sends'[k].outcome = sends[k].outcome
        /\ k = n => sends'[k].outcome = outcome
  <2>1. \A k \in 1 .. Len(sends) : sends[k] \in Requests
    BY DEF OrderFormInv, FormTypeInv
  <2> QED BY <2>1 DEF Requests
<1>2. Len(sends) \in Nat /\ (sends' # << >> => sends # << >>)
  BY DEF OrderFormInv, FormTypeInv
<1>3. FormTypeInv' /\ EditsGoUp'
  BY <1>1 DEF OrderFormInv, FormTypeInv, EditsGoUp
<1>4. KeyIsOfLast'
  BY <1>1, <1>2 DEF OrderFormInv, FormTypeInv, KeyIsOfLast, PayloadOf
<1>5. OneKeyUnchanged'
  <2> SUFFICES ASSUME NEW q \in 1 .. Len(sends), NEW m \in 1 .. q, Unchanging(m, q)'
               PROVE sends'[m].key = sends'[q].key /\ sends'[m].override = sends'[q].override
    BY DEF OneKeyUnchanged
  <2>1. \A k \in m + 1 .. q : k \in 1 .. Len(sends) /\ k - 1 \in 1 .. Len(sends)
    BY <1>2
  <2>2. m \in 1 .. Len(sends)
    BY <1>2
  <2>3. Unchanging(m, q)
    BY <1>1, <2>1, <2>2 DEF Unchanging
  <2> QED BY <1>1, <2>2, <2>3 DEF OrderFormInv, OneKeyUnchanged
<1>6. OneOrderPerKey'
  BY <1>1 DEF OrderFormInv, OneOrderPerKey, Made, Replays
<1> QED BY <1>3, <1>4, <1>5, <1>6 DEF OrderFormInv

LEMMA ServeSendKeeps ==
  ASSUME OrderFormInv, NEW n \in 1 .. Len(sends), Serve(n) \/ SendFails(n) PROVE OrderFormInv'
<1>1. /\ sends \in Seq(Requests) /\ sends[n] \in Requests /\ sends[n].outcome = "sent"
      /\ clientOut \in Nat /\ sends[n].draft \in Nat /\ sends[n].out \in Nat
  <2>1. sends \in Seq(Requests) /\ sends[n] \in Requests /\ clientOut \in Nat
    BY DEF OrderFormInv, FormTypeInv
  <2>2. sends[n].draft \in Drafts /\ sends[n].out \in Nat
    BY <2>1 DEF Requests
  <2> QED BY <2>1, <2>2, OrderFormAssumption DEF Serve, SendFails
<1>2. UNCHANGED <<draft, edits, left, stored>>
  BY DEF Serve, SendFails, form
<1>3. \E outcome \in Outcomes, taken \in Nat :
        /\ sends' = [sends EXCEPT ![n] = [sends[n] EXCEPT !.outcome = outcome, !.out = taken]]
        /\ outcome = "created" => ~Replays(sends[n])
  <2>1. CASE SendFails(n) \/ (Serve(n) /\ Replays(sends[n]))
    <3>1. PICK outcome \in Outcomes \ {"created"} : sends' = [sends EXCEPT ![n].outcome = outcome]
      BY <2>1 DEF Serve, SendFails, Outcomes
    <3>2. PICK taken \in Nat : taken = sends[n].out
      BY <1>1
    <3>3. [sends[n] EXCEPT !.outcome = outcome] = [sends[n] EXCEPT !.outcome = outcome, !.out = taken]
      BY <1>1, <3>2 DEF Requests
    <3>4. sends' = [sends EXCEPT ![n] = [sends[n] EXCEPT !.outcome = outcome]]
      BY <3>1
    <3> QED BY <3>1, <3>3, <3>4
  <2>2. CASE Serve(n) /\ ~Replays(sends[n]) /\ LimitAllows(sends[n])
    <3>1. sends' = [sends EXCEPT ![n] = [sends[n] EXCEPT !.outcome = "created"]]
      BY <2>2 DEF Serve
    <3>2. PICK taken \in Nat : taken = sends[n].out
      BY <1>1
    <3>3. [sends[n] EXCEPT !.outcome = "created"] = [sends[n] EXCEPT !.outcome = "created", !.out = taken]
      BY <1>1, <3>2 DEF Requests
    <3> QED BY <2>2, <3>1, <3>3 DEF Outcomes
  <2>3. CASE Serve(n) /\ ~Replays(sends[n]) /\ ~LimitAllows(sends[n])
    <3>1. sends' = [sends EXCEPT ![n].outcome = "refused", ![n].out = clientOut]
      BY <2>3 DEF Serve
    <3>2. sends' = [sends EXCEPT ![n] = [sends[n] EXCEPT !.outcome = "refused", !.out = clientOut]]
      BY <1>1, <3>1
    <3> QED BY <1>1, <3>2 DEF Outcomes
  <2> QED BY <2>1, <2>2, <2>3
<1>4. PICK outcome \in Outcomes, taken \in Nat :
        /\ sends' = [sends EXCEPT ![n] = [sends[n] EXCEPT !.outcome = outcome, !.out = taken]]
        /\ outcome = "created" => ~Replays(sends[n])
  BY <1>3
<1>5. PICK send : send = [sends[n] EXCEPT !.outcome = outcome, !.out = taken]
  OBVIOUS
<1>6. send \in Requests
  BY <1>1, <1>5 DEF Requests
<1>7. /\ sends' \in Seq(Requests) /\ Len(sends') = Len(sends)
      /\ \A k \in 1 .. Len(sends) : sends'[k] = IF k = n THEN send ELSE sends[k]
  BY <1>1, <1>4, <1>5, <1>6
<1>8. clientOut' \in Nat
  BY <1>1, <1>2 DEF Serve, SendFails, server
<1>9. \A k \in 1 .. Len(sends) :
        sends'[k] = IF k = n THEN [sends[n] EXCEPT !.outcome = outcome, !.out = taken] ELSE sends[k]
  BY <1>5, <1>7
<1>10. sends[n].outcome # "created"
  BY <1>1
<1> HIDE DEF Serve, SendFails
<1> QED BY <1>2, <1>4, <1>7, <1>8, <1>9, <1>10, OutcomeKeeps

(* An edit of the draft: it is one more than every request's so far.        *)
LEMMA EditKeeps == ASSUME OrderFormInv, NEW to \in Drafts, EditDraft(to) PROVE OrderFormInv'
<1>1. /\ UNCHANGED <<sends, stored, left, clientOut>> /\ draft' = to /\ edits' = edits + 1
  BY DEF EditDraft, server
<1>2. \A n \in 1 .. Len(sends) : sends[n].edit \in Nat
  <2>1. \A n \in 1 .. Len(sends) : sends[n] \in Requests
    BY DEF OrderFormInv, FormTypeInv
  <2> QED BY <2>1 DEF Requests
<1>3. FormTypeInv'
  BY <1>1 DEF OrderFormInv, FormTypeInv
<1>4. EditsGoUp'
  BY <1>1, <1>2 DEF OrderFormInv, FormTypeInv, EditsGoUp
<1>5. KeyIsOfLast' /\ OneKeyUnchanged' /\ OneOrderPerKey'
  BY <1>1 DEF OrderFormInv, KeyIsOfLast, OneKeyUnchanged, Unchanging, OneOrderPerKey, Made
<1> QED BY <1>3, <1>4, <1>5 DEF OrderFormInv

LEMMA OrderFormStep == OrderFormInv /\ [OrderFormNext]_orderFormVars => OrderFormInv'
<1> SUFFICES ASSUME OrderFormInv, [OrderFormNext]_orderFormVars PROVE OrderFormInv'
  OBVIOUS
<1>1. clientOut \in Nat
  BY DEF OrderFormInv, FormTypeInv
<1>2. CASE SubmitOrder \/ ConfirmOverride
  BY <1>2, PostKeeps DEF SubmitOrder, ConfirmOverride
<1>3. CASE AskOverride \/ CancelOverride \/ ReadCustomer \/ GiveUp
  BY <1>1, <1>3, RestsKeep DEF AskOverride, CancelOverride, ReadCustomer, GiveUp, server
<1>4. CASE AnswerReached
  BY <1>1, <1>4, RestsKeep DEF AnswerReached, server
<1>5. ASSUME NEW taken \in 0 .. ClientLimit, OthersChange(taken) PROVE OrderFormInv'
  BY <1>5, RestsKeep, OrderFormAssumption DEF OthersChange, form
<1>6. CASE UNCHANGED orderFormVars
  BY <1>1, <1>6, RestsKeep DEF orderFormVars
<1> QED BY <1>2, <1>3, <1>4, <1>5, <1>6, ServeSendKeeps, EditKeeps DEF OrderFormNext

(* An unedited draft makes a second order only where the override came or   *)
(* went in between, whatever answers are lost or late, for any drafts,      *)
(* limits and numbers of requests.                                          *)
THEOREM SecondOrderNeedsOverride == OrderFormSpec => []SecondOnlyByOverride
<1>1. OrderFormInv => SecondOnlyByOverride
  <2> SUFFICES ASSUME OrderFormInv, NEW m \in Made, NEW n \in Made, m < n,
                      sends[m].edit = sends[n].edit,
                      ~ \E k \in m + 1 .. n : sends[k].override # sends[k - 1].override
               PROVE FALSE
    BY DEF SecondOnlyByOverride
  <2>1. n \in 1 .. Len(sends) /\ m \in 1 .. n
    BY DEF Made
  <2> QED BY <2>1 DEF OrderFormInv, OneKeyUnchanged, Unchanging, OneOrderPerKey
<1> QED BY <1>1, OrderFormInitially, OrderFormStep, PTL DEF OrderFormSpec
=============================================================================
