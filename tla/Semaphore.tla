----------------------------- MODULE Semaphore -----------------------------
(***************************************************************************)
(* semaphore.ts and the gate around it (verification-gate.ts): at most     *)
(* Permits password checks at once, a bounded queue in order of arrival, a *)
(* bounded wait. It lives in one process, so each synchronous piece of it  *)
(* is one step: a call of run, the release in its finally, a timer.        *)
(***************************************************************************)
EXTENDS Integers, Sequences, SequencesExt, FiniteSets

CONSTANTS
    Attempts,    \* callers of run: log-ins and password changes
    Permits,     \* MAX_CONCURRENT_VERIFICATIONS
    MaxQueue     \* VERIFICATION_QUEUE_LIMIT

ASSUME PermitsAssumption == Permits \in Nat \ {0} /\ MaxQueue \in Nat /\ IsFiniteSet(Attempts)

VARIABLES
    active,      \* slots taken
    queue,       \* attempts whose grant is queued, the longest waiting first
    caller       \* attempt -> where its call stands

gateVars == <<active, queue, caller>>

Standings == {"away", "waiting", "working", "refused", "timedOut"}

GateTypeOK ==
    /\ active \in Nat
    /\ queue \in Seq(Attempts)
    /\ caller \in [Attempts -> Standings]

GateInit ==
    /\ active = 0
    /\ queue = <<>>
    /\ caller = [a \in Attempts |-> "away"]
-----------------------------------------------------------------------------
Stands(a, standing) == caller' = [caller EXCEPT ![a] = standing]

(* acquire: a free slot, a place in the queue, or RATE_LIMITED at once. *)
Acquire(a) ==
    /\ caller[a] \notin {"waiting", "working"}
    /\ \/ /\ active < Permits
          /\ active' = active + 1
          /\ Stands(a, "working")
          /\ UNCHANGED queue
       \/ /\ active >= Permits /\ Len(queue) >= MaxQueue
          /\ Stands(a, "refused")
          /\ UNCHANGED <<active, queue>>
       \/ /\ active >= Permits /\ Len(queue) < MaxQueue
          /\ queue' = Append(queue, a)
          /\ Stands(a, "waiting")
          /\ UNCHANGED active

(* release: the slot goes straight to the longest waiter, or is freed.     *)
(* Granting clears the waiter's timer in the same step.                    *)
FreeOnly(a) ==                                                      \* mutant
    /\ active' = active - 1
    /\ Stands(a, "away")
    /\ UNCHANGED queue
HandOver(a) ==
    \/ /\ queue # <<>>
       /\ queue' = Tail(queue)
       /\ caller' = [caller EXCEPT ![a] = "away", ![Head(queue)] = "working"]
       /\ UNCHANGED active
    \/ /\ queue = <<>>
       /\ active' = active - 1
       /\ Stands(a, "away")
       /\ UNCHANGED queue
(* The work has returned or thrown: its transaction ended. *)
Release(a) ==
    /\ caller[a] = "working"
    /\ HandOver(a)

(* The timer of a waiter: it leaves the queue, then its caller is told.    *)
StaysQueued(a) == queue                                             \* mutant
WithoutWaiter(a) == RemoveAt(queue, CHOOSE n \in DOMAIN queue : queue[n] = a)
TimeOut(a) ==
    /\ caller[a] = "waiting"
    /\ queue' = WithoutWaiter(a)
    /\ Stands(a, "timedOut")
    /\ UNCHANGED active

GateNext == \E a \in Attempts : Acquire(a) \/ Release(a) \/ TimeOut(a)

(* A transaction ends, 15 s after its start at the latest. Nothing is      *)
(* assumed of the timers.                                                  *)
GateFairness == \A a \in Attempts : WF_gateVars(Release(a))
GateSpec == GateInit /\ [][GateNext]_gateVars /\ GateFairness
-----------------------------------------------------------------------------
Working == {a \in Attempts : caller[a] = "working"}
Waiting == {a \in Attempts : caller[a] = "waiting"}

(* No slot is lost and none is made up, however grants, releases and       *)
(* timeouts meet: the slots taken are the callers at work, the queue is    *)
(* the callers waiting, and nobody waits beside a free slot.               *)
NoSlotLost ==
    /\ active = Cardinality(Working)
    /\ active <= Permits
    /\ ToSet(queue) = Waiting /\ IsInjective(queue)
    /\ queue # <<>> => active = Permits

(* A caller that waits gets its slot or its refusal even if no timer ever  *)
(* fires: whoever is at work hands on.                                     *)
WaiterIsServed == \A a \in Attempts : caller[a] = "waiting" ~> caller[a] # "waiting"
=============================================================================
