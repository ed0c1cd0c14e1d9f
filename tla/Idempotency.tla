---------------------------- MODULE Idempotency ----------------------------
(***************************************************************************)
(* Creating an order, a return, a payment or a hand-back happens once per  *)
(* idempotency key (idempotency.service.ts). Two submissions of one key    *)
(* may be at work at once - a timeout or a lost answer frees the form      *)
(* while the server goes on -, so the service is modelled statement by     *)
(* statement on READ COMMITTED: each step is one statement of one          *)
(* submission, a row inserted or deleted by an open transaction is seen by *)
(* nobody else, and a statement that meets it waits.                       *)
(*                                                                         *)
(* The creating transaction takes the lock of what it works on first       *)
(* (customer or order, part of the payload), and its work draws on         *)
(* something that runs out (stock, what is owed).                          *)
(***************************************************************************)
EXTENDS Integers, FiniteSets

CONSTANTS
    Submissions,   \* requests that may arrive, resubmissions included
    Keys,          \* idempotency keys of one user
    Locks,         \* the rows a creating transaction may lock first
    Bodies,        \* the rest of a request: what else the hash tells apart
    Supply,        \* how many works the rows checked by the work allow
    TTL,           \* IDEMPOTENCY_TTL_HOURS, in ticks
    MaxTime        \* bound on the clock

ASSUME SubmissionsFinite == IsFiniteSet(Submissions)
ASSUME TimesAreNaturals == TTL \in Nat \ {0} /\ MaxTime \in Nat /\ Supply \in Nat

VARIABLES
    sub,     \* submission -> how far its handler is
    rows,    \* committed rows of idempotency_keys
    works,   \* committed works
    clock    \* the injected Clock

idemVars == <<sub, rows, works, clock>>

None == "none"

(* requestHash: method, path and body tell requests apart; they also name  *)
(* the customer or order whose row the transaction locks first.            *)
Payloads  == [lock : Locks, body : Bodies]
NoPayload == [lock |-> None, body |-> None]

(* A row is named by the submission that stored it (its id), which is also *)
(* the work whose answer it holds: one transaction writes both.            *)
Rows  == [id : Submissions, key : Keys, payload : Payloads, expires : Nat]
Works == [id : Submissions, key : Keys, payload : Payloads, at : Nat]

Outside  == {"unsent", "looking", "clearing", "starting", "losing",
             "clearingLoser", "ended"}
InTx     == {"locked", "clearingTx", "working", "storing", "stored"}
AnswerKinds  == {None, "created", "replayed", "refused", "reused", "conflict", "failed"}
Handlers ==
    [pc      : Outside \cup InTx,
     key     : Keys \cup {None},
     payload : Payloads \cup {NoPayload},
     seen    : Submissions \cup {None},    \* expired row its last find met
     deleted : SUBSET Submissions,         \* rows its open transaction deleted
     at      : Nat,                        \* when it stored its row
     answer  : AnswerKinds,
     body    : Submissions \cup {None}]    \* the work it was answered with

IdemTypeOK ==
    /\ sub \in [Submissions -> Handlers]
    /\ rows \subseteq Rows
    /\ works \subseteq Works
    /\ clock \in 0 .. MaxTime

IdemInit ==
    /\ sub = [s \in Submissions |->
                 [pc |-> "unsent", key |-> None, payload |-> NoPayload, seen |-> None,
                  deleted |-> {}, at |-> 0, answer |-> None, body |-> None]]
    /\ rows = {} /\ works = {} /\ clock = 0
-----------------------------------------------------------------------------
(* What the other open transactions hold. *)
StaysOpen(s)     == sub[s].pc \in InTx \/ sub[s].answer = "replayed"   \* mutant
InTransaction(s) == sub[s].pc \in InTx
RowUnlocked(l)   == \A s \in Submissions : InTransaction(s) => sub[s].payload.lock # l
DeletedByOther(s, id) == \E t \in Submissions \ {s} : InTransaction(t) /\ id \in sub[t].deleted
InsertedByOther(s, k) == \E t \in Submissions \ {s} : sub[t].pc = "stored" /\ sub[t].key = k

Goes(s, pc)      == sub' = [sub EXCEPT ![s].pc = pc]
Ends(s, a, b)    == sub' = [sub EXCEPT ![s].pc = "ended", ![s].answer = a,
                                       ![s].body = b, ![s].deleted = {}]

(* find: the row of the key as this submission sees it, and what it makes  *)
(* of it - nothing there, one to clear away, another request's, or the     *)
(* answer of an earlier submission.                                        *)
RowsSeen(s)      == {r \in rows : r.key = sub[s].key /\ r.id \notin sub[s].deleted}
Find(s, absent, expired) ==
    \/ /\ RowsSeen(s) = {}
       /\ absent
    \/ \E r \in RowsSeen(s) :
       \/ /\ r.expires <= clock
          /\ sub' = [sub EXCEPT ![s].pc = expired, ![s].seen = r.id]
       \/ /\ r.expires > clock /\ r.payload # sub[s].payload
          /\ Ends(s, "reused", None)
       \/ /\ r.expires > clock /\ r.payload = sub[s].payload
          /\ Ends(s, "replayed", r.id)
-----------------------------------------------------------------------------
(* A request arrives with its key: from the form, whose key is its         *)
(* payload's until a success, or from another client of the API.           *)
Submit(s) ==
    /\ sub[s].pc = "unsent"
    /\ \E k \in Keys, p \in Payloads :
          sub' = [sub EXCEPT ![s].pc = "looking", ![s].key = k, ![s].payload = p]
    /\ UNCHANGED <<rows, works, clock>>

(* run's lookup before any lock. *)
LookUp(s) ==
    /\ sub[s].pc = "looking"
    /\ Find(s, Goes(s, "starting"), "clearing")
    /\ UNCHANGED <<rows, works, clock>>

(* Its delete of the expired row, a statement of its own: by id, so that a *)
(* row stored meanwhile under the same key stays.                          *)
ClearedByKey(s) == {r \in rows : r.key = sub[s].key}                \* mutant
Cleared(s) == {r \in rows : r.id = sub[s].seen}
Clear(s) ==
    /\ sub[s].pc = "clearing"
    /\ \A r \in Cleared(s) : ~DeletedByOther(s, r.id)
    /\ rows' = rows \ Cleared(s)
    /\ Goes(s, "starting")
    /\ UNCHANGED <<works, clock>>

(* The transaction opens and takes its first lock. *)
TakeLock(s) ==
    /\ sub[s].pc = "starting"
    /\ RowUnlocked(sub[s].payload.lock)
    /\ Goes(s, "locked")
    /\ UNCHANGED <<rows, works, clock>>

(* replayIfStored: the lookup again, now that the lock is held. What it    *)
(* finds ends the transaction with nothing written.                        *)
ReplaySkipped(s) == Goes(s, "working")                              \* mutant
ReplayIfStored(s) == Find(s, Goes(s, "working"), "clearingTx")
LookUpUnderLock(s) ==
    /\ sub[s].pc = "locked"
    /\ ReplayIfStored(s)
    /\ UNCHANGED <<rows, works, clock>>
ClearUnderLock(s) ==
    /\ sub[s].pc = "clearingTx"
    /\ ~DeletedByOther(s, sub[s].seen)
    /\ sub' = [sub EXCEPT ![s].pc = "working", ![s].deleted = @ \cup {sub[s].seen}]
    /\ UNCHANGED <<rows, works, clock>>

(* The checks of the work and its writes: one lock holder at a time, so    *)
(* one step. What it draws on may be used up, and the request is refused.  *)
DrawnOn(l) == Cardinality({w \in works : w.payload.lock = l})
Work(s) ==
    /\ sub[s].pc = "working"
    /\ IF DrawnOn(sub[s].payload.lock) < Supply
       THEN Goes(s, "storing")
       ELSE Ends(s, "refused", None)
    /\ UNCHANGED <<rows, works, clock>>

(* store, the last statement: waits while another transaction has a row of *)
(* the key in hand, and breaks the unique key of a committed one. A        *)
(* transaction ends within 15 s of its start, the key after 24 hours: the  *)
(* clock is read as the row is written.                                    *)
Store(s) ==
    /\ sub[s].pc = "storing"
    /\ ~InsertedByOther(s, sub[s].key)
    /\ \A r \in RowsSeen(s) : ~DeletedByOther(s, r.id)
    /\ sub' = [sub EXCEPT ![s].pc = IF RowsSeen(s) = {} THEN "stored" ELSE "losing",
                          ![s].at = clock,
                          ![s].deleted = IF RowsSeen(s) = {} THEN @ ELSE {}]
    /\ UNCHANGED <<rows, works, clock>>

RowOf(s) == [id |-> s, key |-> sub[s].key, payload |-> sub[s].payload,
             expires |-> sub[s].at + TTL]
Commit(s) ==
    /\ sub[s].pc = "stored"
    /\ rows' = {r \in rows : r.id \notin sub[s].deleted} \cup {RowOf(s)}
    /\ works' = works \cup {[id |-> s, key |-> sub[s].key, payload |-> sub[s].payload,
                             at |-> sub[s].at]}
    /\ Ends(s, "created", s)
    /\ UNCHANGED clock

(* A deadlock, the 15 s limit or a restart of the API rolls an open        *)
(* transaction back: neither the work nor its key is kept.                 *)
RolledBackWithKey(s) ==                                             \* mutant
    IF sub[s].pc = "stored" THEN rows \cup {RowOf(s)} ELSE rows
RolledBack(s) == rows
Abort(s) ==
    /\ sub[s].pc \notin {"unsent", "ended"}
    /\ rows' = RolledBack(s)
    /\ Ends(s, "failed", None)
    /\ UNCHANGED <<works, clock>>

(* The loser of the unique key answers as the winner did; with the winner  *)
(* gone again, its own error stands.                                       *)
Lose(s) ==
    /\ sub[s].pc = "losing"
    /\ Find(s, Ends(s, "conflict", None), "clearingLoser")
    /\ UNCHANGED <<rows, works, clock>>
ClearAsLoser(s) ==
    /\ sub[s].pc = "clearingLoser"
    /\ \A r \in Cleared(s) : ~DeletedByOther(s, r.id)
    /\ rows' = rows \ Cleared(s)
    /\ Ends(s, "conflict", None)
    /\ UNCHANGED <<works, clock>>

(* maintenance.service purgeIdempotencyKeys. *)
Purge ==
    /\ \E r \in rows : r.expires < clock
    /\ \A r \in rows : r.expires < clock => \A s \in Submissions : ~DeletedByOther(s, r.id)
    /\ rows' = {r \in rows : r.expires >= clock}
    /\ UNCHANGED <<sub, works, clock>>

Tick ==
    /\ clock < MaxTime
    /\ clock' = clock + 1
    /\ UNCHANGED <<sub, rows, works>>

Handler(s) ==
    \/ LookUp(s) \/ Clear(s) \/ TakeLock(s) \/ LookUpUnderLock(s) \/ ClearUnderLock(s)
    \/ Work(s) \/ Store(s) \/ Commit(s) \/ Lose(s) \/ ClearAsLoser(s)
IdemNext ==
    \/ \E s \in Submissions : Submit(s) \/ Handler(s) \/ Abort(s)
    \/ Purge
    \/ Tick

(* The database grants a lock or ends a wait once it can, and the API goes *)
(* on with its next statement: each handler is fair on its own. Nobody has *)
(* to send anything, and nothing has to fail.                              *)
IdemFairness == \A s \in Submissions : WF_idemVars(Handler(s))
IdemSpec == IdemInit /\ [][IdemNext]_idemVars /\ IdemFairness
-----------------------------------------------------------------------------
(* Two works of one key are a lifetime of the key apart: no interleaving   *)
(* of lookups, expiry, deletions and retries does the work twice within it.*)
OncePerLifetime ==
    \A v, w \in works :
        v.id # w.id /\ v.key = w.key => v.at - w.at >= TTL \/ w.at - v.at >= TTL

(* What a submission is answered with was done, and was asked for with the *)
(* same key and the same request; and a retry is never refused by what its *)
(* own earlier submission used up: a submission about to do the work has   *)
(* no live answer stored for it.                                           *)
AnswersHold ==
    \A s \in Submissions :
        /\ sub[s].body # None =>
              \E w \in works : w.id = sub[s].body /\ w.key = sub[s].key
                               /\ w.payload = sub[s].payload
        /\ sub[s].pc = "working" =>
              \A r \in rows : r.key = sub[s].key /\ r.payload = sub[s].payload
                              => r.expires <= clock

(* Every submission is answered: nobody waits for ever on a lock, on a row *)
(* of the key, or on another that waits for him.                           *)
EverySubmissionEnds ==
    \A s \in Submissions : sub[s].pc # "unsent" ~> sub[s].pc = "ended"
=============================================================================
