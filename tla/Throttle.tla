------------------------------ MODULE Throttle ------------------------------
(***************************************************************************)
(* Wrong passwords at one account (login-throttle.service.ts, and the      *)
(* login and password change of auth.service.ts that count them): each     *)
(* address has a row of its own, and the account has one for all of them,  *)
(* whose ceiling only holds back addresses that never signed in.           *)
(*                                                                         *)
(* An attempt locks its address's row, then the account's: attempts at one *)
(* account follow one another, so an attempt is one step. Times are ticks  *)
(* of the injected clock.                                                  *)
(***************************************************************************)
EXTENDS Integers, FiniteSetsExt

CONSTANTS
    Addresses,                         \* client addresses
    Window, MaxFailures,               \* LOGIN_FAILURE_WINDOW_MS, LOGIN_MAX_FAILURES
    LockBase, LockMax,                 \* LOCKOUT_BASE_MS, LOCKOUT_MAX_MS
    AccountWindow, AccountMaxFailures, \* ACCOUNT_FAILURE_WINDOW_MS, ACCOUNT_MAX_FAILURES
    HoldBase, HoldMax,                 \* ACCOUNT_THROTTLE_BASE_MS, ACCOUNT_THROTTLE_MAX_MS
    MinAddresses,                      \* ACCOUNT_MIN_DISTINCT_ADDRESSES
    Retention,                         \* LOGIN_THROTTLE_RETENTION_MS
    LastTick, MaxWrong                 \* bounds on the clock and on wrong passwords

ASSUME ThrottleAssumption ==
    /\ {Window, MaxFailures, LockBase, LockMax, AccountWindow, AccountMaxFailures,
        HoldBase, HoldMax, MinAddresses, Retention} \subseteq Nat \ {0}
    /\ LockMax <= Retention /\ HoldMax <= Retention /\ LastTick \in Nat
    /\ MaxWrong \in Nat /\ IsFiniteSet(Addresses)

VARIABLES
    pair,      \* address -> its login_throttles row
    ceiling,   \* the account's row, of address '*'
    known,     \* addresses a session of the account was opened from, and is kept
    time,      \* the injected clock
    failed     \* history: address -> tick -> wrong passwords counted then

throttleVars == <<pair, ceiling, known, time, failed>>

Ticks == 0 .. LastTick
ThrottleRows ==
    [count : Nat, since : Ticks, until : Nat, locks : Nat, updated : Ticks]   \* until 0: null
Absent == [count |-> -1, since |-> 0, until |-> 0, locks |-> 0, updated |-> 0]

ThrottleTypeOK ==
    /\ pair \in [Addresses -> ThrottleRows \cup {Absent}]
    /\ ceiling \in ThrottleRows \cup {Absent}
    /\ known \subseteq Addresses
    /\ time \in Ticks
    /\ failed \in [Addresses -> [Ticks -> Nat]]

ThrottleInit ==
    /\ pair = [a \in Addresses |-> Absent]
    /\ ceiling = Absent
    /\ known \in SUBSET Addresses
    /\ time = 0
    /\ failed = [a \in Addresses |-> [t \in Ticks |-> 0]]
-----------------------------------------------------------------------------
(* lock: creates the row if there is none. *)
Locked(row) ==
    IF row = Absent THEN [count |-> 0, since |-> time, until |-> 0, locks |-> 0, updated |-> time]
    ELSE row
Holds(row) == row.until > time

(* Durations double from the base up to the maximum. *)
Doubled(base, longest, locks) ==
    IF base * 2 ^ locks < longest THEN base * 2 ^ locks ELSE longest

(* countFailure: the window restarts once it is over; at the threshold the *)
(* row is locked and its count starts again, unless it may not lock yet.   *)
CountFailure(row, window, threshold, duration, mayLock) ==
    LET over  == time - row.since > window
        count == IF over THEN 1 ELSE row.count + 1
    IN  IF count < threshold \/ ~mayLock
        THEN [row EXCEPT !.count = count, !.since = IF over THEN time ELSE @, !.updated = time]
        ELSE [count |-> 0, since |-> time, until |-> time + duration,
              locks |-> row.locks + 1, updated |-> time]

PairFailure(row) ==
    CountFailure(row, Window, MaxFailures, Doubled(LockBase, LockMax, row.locks), TRUE)

(* failingAddresses: the rows with a failure or a lock whose last failure  *)
(* falls inside the account's window.                                      *)
FailingEver(rows) ==                                                \* mutant
    {a \in Addresses : rows[a] # Absent /\ (rows[a].count > 0 \/ rows[a].until # 0)}
FailingAddresses(rows) ==
    {a \in Addresses : /\ rows[a] # Absent
                       /\ rows[a].updated > time - AccountWindow
                       /\ rows[a].count > 0 \/ rows[a].until # 0}
CeilingFailure(row, rows) ==
    CountFailure(row, AccountWindow, AccountMaxFailures, Doubled(HoldBase, HoldMax, row.locks),
                 Cardinality(FailingAddresses(rows)) >= MinAddresses)

FailuresOf(a, from) == MapThenSumSet(LAMBDA t : failed[a][t], {t \in Ticks : t >= from})
WrongSoFar == MapThenSumSet(LAMBDA a : FailuresOf(a, 0), Addresses)

(* A wrong password counts on the address, then on the account. *)
WrongPassword(a) ==
    /\ WrongSoFar < MaxWrong
    /\ pair' = [pair EXCEPT ![a] = PairFailure(Locked(@))]
    /\ ceiling' = CeilingFailure(Locked(ceiling), pair')
    /\ failed' = [failed EXCEPT ![a][time] = @ + 1]
    /\ UNCHANGED <<known, time>>

(* A right one forgets the address's failures and opens a session from it. *)
RightPassword(a) ==
    /\ pair' = [pair EXCEPT ![a] = Absent]
    /\ ceiling' = Locked(ceiling)
    /\ known' = known \cup {a}
    /\ UNCHANGED <<time, failed>>

(* An attempt held back has created its rows, and no more. *)
HeldBack(a) ==
    /\ pair' = [pair EXCEPT ![a] = Locked(@)]
    /\ ceiling' = Locked(ceiling)
    /\ UNCHANGED <<known, time, failed>>

CeilingForAll(a) == Holds(ceiling)                                  \* mutant
CeilingFor(a) == Holds(ceiling) /\ a \notin known
LoginHeld(a)  == Holds(pair[a]) \/ CeilingFor(a)
Login(a) ==
    \/ LoginHeld(a) /\ HeldBack(a)
    \/ ~LoginHeld(a) /\ (RightPassword(a) \/ WrongPassword(a))

(* The current password, asked for by somebody signed in: the ceiling      *)
(* holds at every address.                                                 *)
ChangeHeld(a) == Holds(pair[a]) \/ Holds(ceiling)
ChangePassword(a) ==
    \/ ChangeHeld(a) /\ HeldBack(a)
    \/ ~ChangeHeld(a) /\ (RightPassword(a) \/ WrongPassword(a))

(* maintenance.service: rows idle for a day go, backoff included, and      *)
(* sessions long past their end.                                           *)
Kept(row) == IF row.updated < time - Retention THEN Absent ELSE row
PurgeThrottles ==
    /\ pair' = [a \in Addresses |-> Kept(pair[a])]
    /\ ceiling' = Kept(ceiling)
    /\ UNCHANGED <<known, time, failed>>
PurgeFamilies ==
    /\ \E a \in known : known' = known \ {a}
    /\ UNCHANGED <<pair, ceiling, time, failed>>

Clock ==
    /\ time < LastTick
    /\ time' = time + 1
    /\ UNCHANGED <<pair, ceiling, known, failed>>

ThrottleNext ==
    \/ \E a \in Addresses : Login(a) \/ ChangePassword(a)
    \/ PurgeThrottles \/ PurgeFamilies \/ Clock
ThrottleSpec == ThrottleInit /\ [][ThrottleNext]_throttleVars
-----------------------------------------------------------------------------
(* Nobody is locked out by others: an address the account signed in from   *)
(* is held back only by wrong passwords of its own, enough of them and      *)
(* recent ones, whatever every other address did. And one address, or       *)
(* addresses that failed long ago, never raise the account's ceiling nor    *)
(* prolong it: when it is raised, enough of them have failed within the     *)
(* account's window, even when successes and purges removed rows between.   *)
OnlyOwnFailuresHoldADevice ==
    [][/\ (\A a \in known : LoginHeld(a) =>
              FailuresOf(a, time - LockMax - Window) >= MaxFailures)'
       /\ ceiling'.until > ceiling.until =>
              Cardinality({a \in Addresses :
                  \E t \in Ticks : failed'[a][t] > 0 /\ t > time - AccountWindow}) >= MinAddresses]_throttleVars
=============================================================================
