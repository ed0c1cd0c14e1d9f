----------------------------- MODULE PartsProofs -----------------------------
(***************************************************************************)
(* The parts that stand by themselves, for every value of their constants. *)
(* The account of an order's money never owes less than nothing; restores  *)
(* stopped anywhere destroy nothing that was in use; for any number of     *)
(* submissions, keys and locks and any lifetime, a key does its work once  *)
(* within it, and what a submission is answered with is the work it asked  *)
(* for. A receipt asked for is printed once, a failed deploy keeps a way   *)
(* back, and what is asked from the order page is worked once and shown.   *)
(* What another wrote into a record is never overwritten unseen, nor what  *)
(* was typed lost. Wrong passwords from elsewhere hold back no device an   *)
(* account signed in from. What a receipt says was owed before it was owed *)
(* then. The stock of items and batches, and what their history and reports*)
(* show, is their ledger's. A list at rest shows what its address asks for,*)
(* and its box says it.                                                    *)
(***************************************************************************)
EXTENDS Lists, OwedBefore, Stock, OrderAccount, Restore, Idempotency, Printing, Deploy,
        OrderPage, Records, Throttle, SumProofs, TLAPS, FiniteSetTheorems, SequenceTheorems

(* What is owed never goes below zero needs the fields to be amounts, and   *)
(* an order not handed over to carry nothing.                               *)
Unopened == \A o \in Orders : state[o] = "none" =>
                deposit[o] = 0 /\ paid[o] = 0 /\ credits[o] = 0
AccountInv == AccountTypeOK /\ OwedNonNegative /\ Unopened

LEMMA AccountInitially == AccountInit => AccountInv
  BY AmountsAssumption
  DEF AccountInit, AccountInv, AccountTypeOK, OwedNonNegative, Unopened

(* A step on one order leaves the others' fields alone, and the order's own *)
(* within its deposit.                                                      *)
LEMMA OneOrderStep ==
  ASSUME AccountInv, NEW o \in Orders,
         Open(o) \/ Reprice(o) \/ Cancel(o) \/ Pay(o) \/ Unpay(o)
  PROVE  AccountInv'
<1> DEFINE Within(k) ==
      /\ paid[k] + credits[k] <= deposit[k]
      /\ state[k] = "cancelled" => paid[k] = 0 /\ credits[k] = 0
      /\ state[k] = "none" => deposit[k] = 0 /\ paid[k] = 0 /\ credits[k] = 0
<1>1. AccountTypeOK'
  BY AmountsAssumption
  DEF AccountInv, AccountTypeOK, Open, Reprice, Cancel, Pay, Unpay, Untouched
<1>2. ASSUME NEW k \in Orders \ {o} PROVE Within(k)'
  BY DEF AccountInv, AccountTypeOK, OwedNonNegative, Unopened,
         Open, Reprice, Cancel, Pay, Unpay, Untouched
<1>3. Within(o)'
  <2>0. /\ paid[o] \in Nat /\ credits[o] \in Nat /\ deposit[o] \in Nat
        /\ Within(o)
    BY AmountsAssumption DEF AccountInv, AccountTypeOK, OwedNonNegative, Unopened
  <2>1. CASE Open(o)
    BY <2>0, <2>1, AmountsAssumption DEF AccountInv, AccountTypeOK, Open
  <2>2. CASE Reprice(o)
    BY <2>0, <2>2, AmountsAssumption DEF AccountInv, AccountTypeOK, Reprice, Untouched
  <2>3. CASE Cancel(o)
    BY <2>0, <2>3 DEF AccountInv, AccountTypeOK, Cancel, Untouched
  <2>4. CASE Pay(o)
    BY <2>0, <2>4, AmountsAssumption DEF AccountInv, AccountTypeOK, Pay, StillOwed
  <2>5. CASE Unpay(o)
    BY <2>0, <2>5, AmountsAssumption DEF AccountInv, AccountTypeOK, Unpay
  <2> QED BY <2>1, <2>2, <2>3, <2>4, <2>5
<1> QED BY <1>1, <1>2, <1>3 DEF AccountInv, OwedNonNegative, Unopened

LEMMA CreditStep ==
  ASSUME AccountInv, NEW S \in SUBSET Orders, Credit(S)
  PROVE  AccountInv'
<1> USE AmountsAssumption DEF AccountInv, AccountTypeOK
<1>1. AccountTypeOK'
  BY DEF Credit
<1>2. Unopened'
  BY DEF Credit, Unopened
<1>3. ASSUME NEW o \in Orders
      PROVE  /\ paid'[o] + credits'[o] <= deposit'[o]
             /\ state'[o] = "cancelled" => paid'[o] = 0 /\ credits'[o] = 0
  <2>0. /\ paid[o] \in Nat /\ credits[o] \in Nat /\ deposit[o] \in Nat
        /\ credits'[o] \in Nat
        /\ paid[o] + credits[o] <= deposit[o]
    BY <1>1 DEF OwedNonNegative
  <2>1. CASE o \in S
    BY <2>0, <2>1 DEF Credit, StillOwed
  <2>2. CASE o \notin S
    BY <2>2 DEF Credit, OwedNonNegative
  <2> QED BY <2>1, <2>2
<1> QED BY <1>1, <1>2, <1>3 DEF OwedNonNegative

(* Whatever is paid, returned, corrected and reversed, on any orders and in *)
(* any order, what was paid and credited stays within the deposit.          *)
THEOREM AccountSafe == AccountSpec => []OwedNonNegative
<1>1. AccountInv /\ [AccountNext]_account => AccountInv'
  <2> SUFFICES ASSUME AccountInv, [AccountNext]_account PROVE AccountInv'
    OBVIOUS
  <2>1. CASE \E o \in Orders : Open(o) \/ Reprice(o) \/ Cancel(o) \/ Pay(o) \/ Unpay(o)
    BY <2>1, OneOrderStep
  <2>2. CASE \E S \in SUBSET Orders : Credit(S)
    BY <2>2, CreditStep
  <2>3. CASE UNCHANGED account
    BY <2>3 DEF account, AccountInv, AccountTypeOK, OwedNonNegative, Unopened
  <2> QED BY <2>1, <2>2, <2>3 DEF AccountNext
<1>2. AccountInv => OwedNonNegative
  BY DEF AccountInv
<1> QED BY <1>1, <1>2, AccountInitially, PTL DEF AccountSpec
-----------------------------------------------------------------------------
(* A name is taken by a database that was loaded and, once the names are   *)
(* swapped, found usable; no database has the number that stands for none. *)
LoadedIsADatabase ==
    /\ numbered \in Nat
    /\ 0 \notin everPallet
    /\ restoreStep \in {"check", "swap", "rename"} => palletRestore \in Nat \ {0}
    /\ restoreStep \in {"swap", "rename"} => palletRestore \in usable

(* Files are only written over once those of the server are copied. *)
CopiedBeforeReplaced == restoreStep = "replace" => 1 \in keptUploads

RestoreInv == NothingDestroyed /\ LoadedIsADatabase /\ CopiedBeforeReplaced

LEMMA RestoreInitially == RestoreInit => RestoreInv
  BY DEF RestoreInit, RestoreInv, NothingDestroyed, LoadedIsADatabase, CopiedBeforeReplaced

(* The databases: only a load makes one, and only a rename, of one loaded  *)
(* and found usable, lets it take the name of one that was kept.           *)
LEMMA DatabasesStep ==
  ASSUME RestoreInv, RestoreNext
  PROVE  /\ LoadedIsADatabase'
         /\ everPallet' \subseteq keptDbs' \cup {pallet'}
         /\ pallet' \in usable' \cup {0}
<1> USE DEF RestoreInv, NothingDestroyed, LoadedIsADatabase, databases, files, At
<1>1. CASE \E s \in Snapshots : StartRestore(s)
  BY <1>1 DEF StartRestore
<1>2. CASE StopAndKeep
  BY <1>2 DEF StopAndKeep
<1>3. CASE LoadRestore
  BY <1>3 DEF LoadRestore
<1>4. CASE CheckRestored
  BY <1>4 DEF CheckRestored
<1>5. CASE RenameCurrent
  BY <1>5 DEF RenameCurrent
<1>6. CASE RenameRestored
  BY <1>6 DEF RenameRestored
<1>7. CASE CopyUploads \/ ReplaceUploads \/ StartAgain \/ Stopped
  BY <1>7 DEF CopyUploads, ReplaceUploads, StartAgain, Stopped
<1> QED BY <1>1, <1>2, <1>3, <1>4, <1>5, <1>6, <1>7 DEF RestoreNext

(* The uploads: the copy is taken before the first file is replaced, and a *)
(* later restore, which may find files half replaced, leaves it alone.     *)
LEMMA UploadsStep ==
  ASSUME RestoreInv, RestoreNext
  PROVE  /\ CopiedBeforeReplaced'
         /\ 1 \in keptUploads' \/ uploads' = <<1, "whole">>
<1> USE DEF RestoreInv, NothingDestroyed, CopiedBeforeReplaced, databases, files, At
<1>1. CASE \E s \in Snapshots : StartRestore(s)
  BY <1>1 DEF StartRestore
<1>2. CASE CopyUploads
  BY <1>2 DEF CopyUploads
<1>3. CASE ReplaceUploads
  BY <1>3 DEF ReplaceUploads
<1>4. CASE StopAndKeep \/ LoadRestore \/ CheckRestored \/ RenameCurrent \/ RenameRestored
  BY <1>4 DEF StopAndKeep, LoadRestore, CheckRestored, RenameCurrent, RenameRestored
<1>5. CASE StartAgain \/ Stopped
  BY <1>5 DEF StartAgain, Stopped
<1> QED BY <1>1, <1>2, <1>3, <1>4, <1>5 DEF RestoreNext

LEMMA RestoreInvKept == RestoreInv /\ [RestoreNext]_restoreVars => RestoreInv'
<1> SUFFICES ASSUME RestoreInv, [RestoreNext]_restoreVars PROVE RestoreInv'
  OBVIOUS
<1>1. CASE RestoreNext
  BY <1>1, DatabasesStep, UploadsStep DEF RestoreInv, NothingDestroyed
<1>2. CASE UNCHANGED restoreVars
  BY <1>2 DEF restoreVars, RestoreInv, NothingDestroyed, LoadedIsADatabase, CopiedBeforeReplaced
<1> QED BY <1>1, <1>2

(* No database that was in use and none of the uploads is destroyed, and   *)
(* only a database found usable takes the name, wherever restores stop and *)
(* however often one is run again.                                         *)
THEOREM RestoresDestroyNothing == RestoreSpec => []NothingDestroyed
<1>1. RestoreInv => NothingDestroyed
  BY DEF RestoreInv
<1> QED BY <1>1, RestoreInitially, RestoreInvKept, PTL DEF RestoreSpec
-----------------------------------------------------------------------------
(***************************************************************************)
(* Once within a lifetime. Locks, what the work draws on and who wins play *)
(* no part in it; what matters is that only expired rows go, and that a    *)
(* key is stored by one open transaction at a time.                        *)
(***************************************************************************)
Clearing == {"clearing", "clearingTx", "clearingLoser"}

(* A request has its key and its payload from the moment it is sent. *)
Typed ==
    /\ IdemTypeOK
    /\ \A s \in Submissions :
          sub[s].pc # "unsent" => sub[s].key \in Keys /\ sub[s].payload \in Payloads

(* A row, a work, and whatever a submission means to delete are those of   *)
(* submissions that ended: no row appears under an id already looked up.   *)
OfEnded ==
    /\ \A r \in rows : sub[r.id].pc = "ended"
    /\ \A q, r \in rows : q.id = r.id => q = r
    /\ \A w \in works : sub[w.id].pc = "ended"
    /\ \A s \in Submissions : \A id \in sub[s].deleted : sub[id].pc = "ended"
    /\ \A s \in Submissions : sub[s].pc \in Clearing =>
          sub[s].seen \in Submissions /\ sub[sub[s].seen].pc = "ended"

(* What is deleted, or about to be, has expired. *)
OnlyExpiredGo ==
    \A s \in Submissions, r \in rows :
        r.id \in sub[s].deleted \/ (sub[s].pc \in Clearing /\ r.id = sub[s].seen)
            => r.expires <= clock

(* Within its lifetime a work has its row. *)
LiveWorksHaveRows ==
    \A w \in works : clock < w.at + TTL =>
        \E r \in rows : r.id = w.id /\ r.key = w.key /\ r.expires = w.at + TTL

(* One open transaction at most has a row of a key, and none while a work  *)
(* of the key is in its lifetime.                                          *)
StoredAlone ==
    \A s, t \in Submissions :
        sub[s].pc = "stored" /\ sub[t].pc = "stored" /\ sub[s].key = sub[t].key => s = t
StoredApart ==
    \A s \in Submissions, w \in works :
        sub[s].pc = "stored" /\ w.key = sub[s].key => w.at + TTL <= sub[s].at

IdemInv ==
    /\ Typed /\ OfEnded /\ OnlyExpiredGo /\ LiveWorksHaveRows /\ StoredAlone /\ StoredApart
    /\ OncePerLifetime

LEMMA IdemInitially == IdemInit => IdemInv
  BY TimesAreNaturals
  DEF IdemInit, IdemInv, Typed, IdemTypeOK, Handlers, Outside, InTx, AnswerKinds, OfEnded,
      OnlyExpiredGo, LiveWorksHaveRows, StoredAlone, StoredApart, OncePerLifetime, Clearing
-----------------------------------------------------------------------------
(* A step of one submission that has not ended. *)
Moves(s) ==
    /\ sub[s].pc # "ended"
    /\ sub' \in [Submissions -> Handlers]
    /\ \A t \in Submissions \ {s} : sub'[t] = sub[t]
    /\ sub'[s].pc # "unsent" => sub'[s].key \in Keys /\ sub'[s].payload \in Payloads

(* What it deletes or means to, once it has moved. *)
Doomed(s, id) == id \in sub'[s].deleted \/ (sub'[s].pc \in Clearing /\ id = sub'[s].seen)
DoomsExpired(s) ==
    /\ \A id \in sub'[s].deleted : sub[id].pc = "ended"
    /\ sub'[s].pc \in Clearing =>
          sub'[s].seen \in Submissions /\ sub[sub'[s].seen].pc = "ended"
    /\ \A r \in rows : Doomed(s, r.id) => r.expires <= clock

(* It may store its row only alone, and a lifetime after every work. *)
StoresApart(s) ==
    sub'[s].pc = "stored" =>
        /\ \A t \in Submissions \ {s} : ~(sub[t].pc = "stored" /\ sub[t].key = sub'[s].key)
        /\ \A w \in works : w.key = sub'[s].key => w.at + TTL <= sub'[s].at

(* Every step of a handler but its commit does no more than this. *)
Harmless(s) ==
    /\ Moves(s) /\ DoomsExpired(s) /\ StoresApart(s)
    /\ rows' \subseteq rows
    /\ \A r \in rows \ rows' : r.expires <= clock
    /\ UNCHANGED <<works, clock>>

LEMMA HarmlessKeeps ==
  ASSUME IdemInv, NEW s \in Submissions, Harmless(s)
  PROVE  IdemInv'
<1> USE TimesAreNaturals DEF IdemInv, Harmless, Moves
<1>1. Typed'
  BY DEF Typed, IdemTypeOK
<1>2. OfEnded'
  <2>1. \A u \in Submissions : sub[u].pc = "ended" => u # s /\ sub'[u].pc = "ended"
    OBVIOUS
  <2>2. \A r \in rows : r.id \in Submissions
    BY DEF Typed, IdemTypeOK, Rows
  <2>3. \A w \in works : w.id \in Submissions
    BY DEF Typed, IdemTypeOK, Works
  <2>4. \A t \in Submissions : sub[t].deleted \subseteq Submissions /\ sub'[t].deleted \subseteq Submissions
    BY DEF Typed, IdemTypeOK, Handlers
  <2>5. \A t \in Submissions : \A id \in sub'[t].deleted : sub'[id].pc = "ended"
    BY <2>1, <2>4 DEF OfEnded, DoomsExpired
  <2>6. \A t \in Submissions : sub'[t].pc \in Clearing =>
            sub'[t].seen \in Submissions /\ sub'[sub'[t].seen].pc = "ended"
    BY <2>1 DEF OfEnded, DoomsExpired
  <2> QED BY <2>1, <2>2, <2>3, <2>5, <2>6 DEF OfEnded
<1>3. OnlyExpiredGo'
  <2> SUFFICES ASSUME NEW t \in Submissions, NEW r \in rows,
                      r.id \in sub'[t].deleted \/ (sub'[t].pc \in Clearing /\ r.id = sub'[t].seen)
               PROVE  r.expires <= clock
    BY DEF OnlyExpiredGo
  <2>1. CASE t = s
    BY <2>1 DEF DoomsExpired, Doomed
  <2>2. CASE t # s
    BY <2>2 DEF OnlyExpiredGo
  <2> QED BY <2>1, <2>2
<1>4. LiveWorksHaveRows'
  <2> SUFFICES ASSUME NEW w \in works, clock < w.at + TTL
               PROVE  \E r \in rows' : r.id = w.id /\ r.key = w.key /\ r.expires = w.at + TTL
    BY DEF LiveWorksHaveRows
  <2>1. PICK r \in rows : r.id = w.id /\ r.key = w.key /\ r.expires = w.at + TTL
    BY DEF LiveWorksHaveRows
  <2>2. clock \in Nat /\ w.at \in Nat
    BY DEF Typed, IdemTypeOK, Works
  <2>3. r \in rows'
    BY <2>1, <2>2
  <2> QED BY <2>1, <2>3
<1>5. StoredAlone'
  BY DEF StoredAlone, StoresApart
<1>6. StoredApart'
  BY DEF StoredApart, StoresApart
<1>7. OncePerLifetime'
  BY DEF OncePerLifetime
<1> QED BY <1>1, <1>2, <1>3, <1>4, <1>5, <1>6, <1>7
-----------------------------------------------------------------------------
LEMMA IdemKinds ==
  ASSUME Typed
  PROVE  /\ clock \in Nat
         /\ \A r \in rows : r.id \in Submissions /\ r.expires \in Nat
         /\ \A w \in works : w.id \in Submissions /\ w.at \in Nat
         /\ \A s \in Submissions : sub[s] \in Handlers
  BY TimesAreNaturals DEF Typed, IdemTypeOK, Rows, Works

(* Going on to another statement, with nothing decided. *)
LEMMA GoingOn ==
  ASSUME IdemInv, NEW s \in Submissions, sub[s].pc \notin {"unsent", "ended"},
         NEW pc \in {"starting", "locked", "working", "storing"}, Goes(s, pc)
  PROVE  Moves(s) /\ DoomsExpired(s) /\ StoresApart(s)
<1>1. Moves(s)
  BY DEF Goes, Moves, IdemInv, Typed, IdemTypeOK, Handlers, Outside, InTx
<1>2. sub'[s].pc = pc /\ sub'[s].deleted = sub[s].deleted
  BY DEF Goes, IdemInv, Typed, IdemTypeOK, Handlers
<1>3. sub'[s].pc \notin Clearing \cup {"stored"}
  BY <1>2 DEF Clearing
<1>4. \A id \in sub[s].deleted : sub[id].pc = "ended"
  BY DEF IdemInv, OfEnded
<1>5. \A r \in rows : r.id \in sub[s].deleted => r.expires <= clock
  BY DEF IdemInv, OnlyExpiredGo
<1>6. DoomsExpired(s)
  BY <1>2, <1>3, <1>4, <1>5 DEF DoomsExpired, Doomed
<1> QED BY <1>1, <1>3, <1>6 DEF StoresApart

LEMMA Ending ==
  ASSUME IdemInv, NEW s \in Submissions, sub[s].pc \notin {"unsent", "ended"},
         NEW a \in AnswerKinds, NEW b \in Submissions \cup {None}, Ends(s, a, b)
  PROVE  Moves(s) /\ DoomsExpired(s) /\ StoresApart(s) /\ sub'[s].pc = "ended"
<1> DEFINE h == [sub[s] EXCEPT !.pc = "ended", !.answer = a, !.body = b, !.deleted = {}]
<1>t. sub[s] \in Handlers
  BY IdemKinds DEF IdemInv
<1>a. h \in Handlers /\ h.pc = "ended" /\ h.key = sub[s].key /\ h.payload = sub[s].payload
  BY <1>t DEF Handlers, Outside
<1>b. sub' = [sub EXCEPT ![s] = h]
  BY DEF Ends, IdemInv, Typed, IdemTypeOK, Handlers
<1>1. Moves(s)
  BY <1>a, <1>b DEF Moves, IdemInv, Typed, IdemTypeOK
<1>2. sub'[s].pc = "ended" /\ sub'[s].deleted = {}
  BY DEF Ends, IdemInv, Typed, IdemTypeOK, Handlers
<1> QED BY <1>1, <1>2 DEF DoomsExpired, Doomed, StoresApart, Clearing

LEMMA Finding ==
  ASSUME IdemInv, NEW s \in Submissions, sub[s].pc \notin {"unsent", "ended"},
         NEW absent \in BOOLEAN,
         absent => Moves(s) /\ DoomsExpired(s) /\ StoresApart(s),
         NEW pc \in Clearing, Find(s, absent, pc)
  PROVE  Moves(s) /\ DoomsExpired(s) /\ StoresApart(s)
<1>1. ASSUME NEW r \in rows, r.expires <= clock,
             sub' = [sub EXCEPT ![s].pc = pc, ![s].seen = r.id]
      PROVE  Moves(s) /\ DoomsExpired(s) /\ StoresApart(s)
  <2>1. r.id \in Submissions
    BY IdemKinds DEF IdemInv
  <2> DEFINE h == [sub[s] EXCEPT !.pc = pc, !.seen = r.id]
  <2>t. sub[s] \in Handlers
    BY IdemKinds DEF IdemInv
  <2>a. h \in Handlers /\ h.pc = pc /\ h.key = sub[s].key /\ h.payload = sub[s].payload
    BY <2>1, <2>t DEF Handlers, Outside, InTx, Clearing
  <2>b. sub' = [sub EXCEPT ![s] = h]
    BY <1>1 DEF IdemInv, Typed, IdemTypeOK, Handlers
  <2>2. Moves(s)
    BY <2>a, <2>b DEF Moves, IdemInv, Typed, IdemTypeOK
  <2>3. sub'[s].pc = pc /\ sub'[s].deleted = sub[s].deleted /\ sub'[s].seen = r.id
    BY <1>1 DEF IdemInv, Typed, IdemTypeOK, Handlers
  <2> QED BY <1>1, <2>1, <2>2, <2>3
          DEF IdemInv, OfEnded, OnlyExpiredGo, DoomsExpired, Doomed, StoresApart, Clearing
<1>2. ASSUME NEW r \in rows, Ends(s, "reused", None) \/ Ends(s, "replayed", r.id)
      PROVE  Moves(s) /\ DoomsExpired(s) /\ StoresApart(s)
  <2>1. r.id \in Submissions
    BY IdemKinds DEF IdemInv
  <2> QED BY <1>2, <2>1, Ending DEF AnswerKinds
<1> QED BY <1>1, <1>2 DEF Find, RowsSeen
-----------------------------------------------------------------------------
LEMMA SubmitHarmless ==
  ASSUME IdemInv, NEW s \in Submissions, Submit(s)
  PROVE  Harmless(s)
<1>1. PICK k \in Keys, p \in Payloads :
         sub' = [sub EXCEPT ![s].pc = "looking", ![s].key = k, ![s].payload = p]
  BY DEF Submit
<1> DEFINE h == [sub[s] EXCEPT !.pc = "looking", !.key = k, !.payload = p]
<1>2. sub[s] \in Handlers
  BY IdemKinds DEF IdemInv
<1>3. h \in Handlers /\ h.pc = "looking" /\ h.key = k /\ h.payload = p
  BY <1>2 DEF Handlers, Outside
<1>4. sub' = [sub EXCEPT ![s] = h]
  BY <1>1 DEF IdemInv, Typed, IdemTypeOK, Handlers
<1>5. Moves(s)
  BY <1>3, <1>4 DEF Submit, Moves, IdemInv, Typed, IdemTypeOK
<1>6. sub'[s].pc = "looking" /\ sub'[s].deleted = sub[s].deleted
  BY <1>1 DEF IdemInv, Typed, IdemTypeOK, Handlers
<1>7. sub'[s].pc \notin Clearing \cup {"stored"}
  BY <1>6 DEF Clearing
<1>8. \A id \in sub[s].deleted : sub[id].pc = "ended"
  BY DEF IdemInv, OfEnded
<1>9. \A r \in rows : r.id \in sub[s].deleted => r.expires <= clock
  BY DEF IdemInv, OnlyExpiredGo
<1>10. DoomsExpired(s)
  BY <1>6, <1>7, <1>8, <1>9 DEF DoomsExpired, Doomed
<1> QED BY <1>5, <1>7, <1>10 DEF Harmless, StoresApart, Submit

LEMMA LookUpHarmless ==
  ASSUME IdemInv, NEW s \in Submissions, LookUp(s)
  PROVE  Harmless(s)
<1>1. sub[s].pc \notin {"unsent", "ended"}
  BY DEF LookUp
<1>2. Goes(s, "starting") => Moves(s) /\ DoomsExpired(s) /\ StoresApart(s)
  BY <1>1, GoingOn
<1>3. Moves(s) /\ DoomsExpired(s) /\ StoresApart(s)
  BY <1>1, <1>2, Finding DEF LookUp, Clearing, Find, Goes
<1> QED BY <1>3 DEF Harmless, LookUp

LEMMA LookUpUnderLockHarmless ==
  ASSUME IdemInv, NEW s \in Submissions, LookUpUnderLock(s)
  PROVE  Harmless(s)
<1>1. sub[s].pc \notin {"unsent", "ended"}
  BY DEF LookUpUnderLock
<1>2. Goes(s, "working") => Moves(s) /\ DoomsExpired(s) /\ StoresApart(s)
  BY <1>1, GoingOn
<1>3. Moves(s) /\ DoomsExpired(s) /\ StoresApart(s)
  BY <1>1, <1>2, Finding DEF LookUpUnderLock, ReplayIfStored, Clearing, Find, Goes
<1> QED BY <1>3 DEF Harmless, LookUpUnderLock

LEMMA LoseHarmless ==
  ASSUME IdemInv, NEW s \in Submissions, Lose(s)
  PROVE  Harmless(s)
<1>1. sub[s].pc \notin {"unsent", "ended"}
  BY DEF Lose
<1>2. Ends(s, "conflict", None) => Moves(s) /\ DoomsExpired(s) /\ StoresApart(s)
  BY <1>1, Ending DEF AnswerKinds
<1>3. Moves(s) /\ DoomsExpired(s) /\ StoresApart(s)
  BY <1>1, <1>2, Finding DEF Lose, Clearing, Find, Ends
<1> QED BY <1>3 DEF Harmless, Lose

LEMMA WaitsHarmless ==
  ASSUME IdemInv, NEW s \in Submissions, TakeLock(s) \/ Work(s)
  PROVE  Harmless(s)
<1>1. sub[s].pc \notin {"unsent", "ended"}
  BY DEF TakeLock, Work
<1>2. Goes(s, "locked") \/ Goes(s, "storing") \/ Ends(s, "refused", None)
  BY DEF TakeLock, Work
<1>3. Moves(s) /\ DoomsExpired(s) /\ StoresApart(s)
  BY <1>1, <1>2, GoingOn, Ending DEF AnswerKinds
<1> QED BY <1>3 DEF Harmless, TakeLock, Work

(* Deletions by id: the row found expired is the one deleted. *)
LEMMA ClearingHarmless ==
  ASSUME IdemInv, NEW s \in Submissions, Clear(s) \/ ClearAsLoser(s) \/ Abort(s)
  PROVE  Harmless(s)
<1>1. sub[s].pc \notin {"unsent", "ended"}
  BY DEF Clear, ClearAsLoser, Abort
<1>2. Goes(s, "starting") \/ Ends(s, "conflict", None) \/ Ends(s, "failed", None)
  BY DEF Clear, ClearAsLoser, Abort
<1>3. Moves(s) /\ DoomsExpired(s) /\ StoresApart(s)
  BY <1>1, <1>2, GoingOn, Ending DEF AnswerKinds
<1>4. sub[s].pc \in Clearing => \A r \in Cleared(s) : r.expires <= clock
  BY DEF IdemInv, OnlyExpiredGo, Cleared
<1>5. rows' \subseteq rows /\ \A r \in rows \ rows' : r.expires <= clock
  BY <1>4 DEF Clear, ClearAsLoser, Abort, RolledBack, Clearing
<1> QED BY <1>3, <1>5 DEF Harmless, Clear, ClearAsLoser, Abort

LEMMA ClearUnderLockHarmless ==
  ASSUME IdemInv, NEW s \in Submissions, ClearUnderLock(s)
  PROVE  Harmless(s)
<1> DEFINE h == [sub[s] EXCEPT !.pc = "working", !.deleted = @ \cup {sub[s].seen}]
<1>1. sub[s] \in Handlers
  BY IdemKinds DEF IdemInv
<1>2. sub[s].pc = "clearingTx" /\ sub[s].pc \in Clearing
  BY DEF ClearUnderLock, Clearing
<1>3. sub[s].seen \in Submissions /\ sub[sub[s].seen].pc = "ended"
  BY <1>2 DEF IdemInv, OfEnded
<1>4. /\ h \in Handlers /\ h.pc = "working" /\ h.key = sub[s].key
      /\ h.payload = sub[s].payload /\ h.deleted = sub[s].deleted \cup {sub[s].seen}
  BY <1>1, <1>3 DEF Handlers, InTx
<1>5. sub' = [sub EXCEPT ![s] = h]
  BY DEF ClearUnderLock, IdemInv, Typed, IdemTypeOK, Handlers
<1>6. Moves(s)
  BY <1>2, <1>4, <1>5 DEF Moves, IdemInv, Typed, IdemTypeOK
<1>7. sub'[s].pc = "working" /\ sub'[s].deleted = sub[s].deleted \cup {sub[s].seen}
  BY <1>4, <1>5 DEF IdemInv, Typed, IdemTypeOK
<1>8. \A id \in sub[s].deleted : sub[id].pc = "ended"
  BY DEF IdemInv, OfEnded
<1>9. \A r \in rows : r.id \in sub[s].deleted \cup {sub[s].seen} => r.expires <= clock
  BY <1>2 DEF IdemInv, OnlyExpiredGo
<1>10. DoomsExpired(s)
  BY <1>3, <1>7, <1>8, <1>9 DEF DoomsExpired, Doomed, Clearing
<1> QED BY <1>6, <1>7, <1>10 DEF Harmless, StoresApart, ClearUnderLock

(* A work of the key in its lifetime would have a row, and the store would *)
(* have seen it: its own transaction deletes only rows that have expired.  *)
LEMMA StoreHarmless ==
  ASSUME IdemInv, NEW s \in Submissions, Store(s)
  PROVE  Harmless(s)
<1> DEFINE alone == RowsSeen(s) = {}
           h == [sub[s] EXCEPT !.pc = IF alone THEN "stored" ELSE "losing",
                               !.at = clock, !.deleted = IF alone THEN @ ELSE {}]
<1>1. sub[s] \in Handlers /\ clock \in Nat
  BY IdemKinds DEF IdemInv
<1>2. /\ h \in Handlers /\ h.key = sub[s].key /\ h.payload = sub[s].payload /\ h.at = clock
      /\ h.pc = IF alone THEN "stored" ELSE "losing"
      /\ h.deleted \subseteq sub[s].deleted
  BY <1>1 DEF Handlers, InTx, Outside
<1>3. sub' = [sub EXCEPT ![s] = h]
  BY DEF Store, IdemInv, Typed, IdemTypeOK, Handlers
<1>a. sub[s].pc = "storing" /\ sub[s].key \in Keys /\ sub[s].payload \in Payloads
  BY DEF Store, IdemInv, Typed
<1>b. sub \in [Submissions -> Handlers]
  BY DEF IdemInv, Typed, IdemTypeOK
<1> HIDE DEF h
<1>4. Moves(s)
  BY <1>2, <1>3, <1>a, <1>b DEF Moves
<1>5. sub'[s] = h
  BY <1>3 DEF IdemInv, Typed, IdemTypeOK
<1>6. \A id \in sub[s].deleted : sub[id].pc = "ended"
  BY DEF IdemInv, OfEnded
<1>7. \A r \in rows : r.id \in sub[s].deleted => r.expires <= clock
  BY DEF IdemInv, OnlyExpiredGo
<1>8. sub'[s].pc \notin Clearing /\ sub'[s].deleted \subseteq sub[s].deleted
  BY <1>2, <1>5 DEF Clearing
<1>9. DoomsExpired(s)
  BY <1>6, <1>7, <1>8 DEF DoomsExpired, Doomed
<1>10. ASSUME sub'[s].pc = "stored", NEW w \in works, w.key = sub[s].key
       PROVE  w.at + TTL <= clock
  <2>1. alone
    BY <1>2, <1>5, <1>10
  <2>2. w.at \in Nat
    BY IdemKinds DEF IdemInv
  <2> SUFFICES ASSUME clock < w.at + TTL PROVE FALSE
    BY <1>1, <2>2, TimesAreNaturals
  <2>3. PICK r \in rows : r.id = w.id /\ r.key = w.key /\ r.expires = w.at + TTL
    BY DEF IdemInv, LiveWorksHaveRows
  <2>4. r.id \in sub[s].deleted
    BY <1>10, <2>1, <2>3 DEF RowsSeen
  <2> QED BY <1>1, <1>7, <2>2, <2>3, <2>4, TimesAreNaturals
<1>11. StoresApart(s)
  BY <1>2, <1>5, <1>10 DEF StoresApart, Store, InsertedByOther
<1> QED BY <1>4, <1>9, <1>11 DEF Harmless, Store
-----------------------------------------------------------------------------
(* The commit: the one step that adds a work, a lifetime after the others. *)
LEMMA CommitKeeps ==
  ASSUME IdemInv, NEW s \in Submissions, Commit(s)
  PROVE  IdemInv'
<1> DEFINE w0 == [id |-> s, key |-> sub[s].key, payload |-> sub[s].payload, at |-> sub[s].at]
<1>1. sub[s].pc = "stored" /\ sub[s].key \in Keys /\ sub[s].payload \in Payloads
      /\ sub[s] \in Handlers /\ sub[s].at \in Nat
  <2>1. sub[s] \in Handlers
    BY IdemKinds DEF IdemInv
  <2> QED BY <2>1 DEF Commit, IdemInv, Typed, Handlers
<1>2. Moves(s) /\ sub'[s].pc = "ended" /\ sub'[s].deleted = {}
  <2>1. Ends(s, "created", s)
    BY DEF Commit
  <2>2. Moves(s) /\ sub'[s].pc = "ended"
    BY <1>1, <2>1, Ending DEF AnswerKinds
  <2> QED BY <2>1, <2>2 DEF Ends, IdemInv, Typed, IdemTypeOK, Handlers
<1>3. RowOf(s) \in Rows /\ RowOf(s).id = s /\ RowOf(s).key = sub[s].key
      /\ RowOf(s).expires = sub[s].at + TTL
  BY <1>1, TimesAreNaturals DEF RowOf, Rows
<1>4. /\ rows' = {r \in rows : r.id \notin sub[s].deleted} \cup {RowOf(s)}
      /\ works' = works \cup {w0} /\ clock' = clock
  BY DEF Commit
<1>5. \A u \in Submissions : sub[u].pc = "ended" => u # s /\ sub'[u].pc = "ended"
  BY <1>1, <1>2 DEF Moves
<1>6. \A t \in Submissions : sub'[t] = sub[t] \/ t = s
  BY <1>2 DEF Moves
<1>7. Typed'
  <2>1. w0 \in Works
    BY <1>1 DEF Works
  <2> QED BY <1>2, <1>3, <1>4, <2>1 DEF Typed, IdemTypeOK, Moves, IdemInv
<1>8. OfEnded'
  <2>1. \A r \in rows : r.id \in Submissions /\ sub[r.id].pc = "ended"
    BY IdemKinds DEF IdemInv, OfEnded
  <2>2. \A w \in works : w.id \in Submissions /\ sub[w.id].pc = "ended"
    BY IdemKinds DEF IdemInv, OfEnded
  <2>3. \A r \in rows' : sub'[r.id].pc = "ended"
    BY <1>2, <1>3, <1>4, <1>5, <2>1
  <2>4. \A q, r \in rows' : q.id = r.id => q = r
    BY <1>3, <1>4, <1>5, <2>1 DEF IdemInv, OfEnded
  <2>5. \A w \in works' : sub'[w.id].pc = "ended"
    BY <1>2, <1>4, <1>5, <2>2
  <2>6. \A t \in Submissions : sub[t].deleted \subseteq Submissions
    BY IdemKinds DEF IdemInv, Handlers
  <2>7. \A t \in Submissions : \A id \in sub'[t].deleted : sub'[id].pc = "ended"
    BY <1>2, <1>5, <1>6, <2>6 DEF IdemInv, OfEnded
  <2>8. \A t \in Submissions : sub'[t].pc \in Clearing =>
            sub'[t].seen \in Submissions /\ sub'[sub'[t].seen].pc = "ended"
    BY <1>2, <1>5, <1>6 DEF IdemInv, OfEnded, Clearing
  <2> QED BY <2>3, <2>4, <2>5, <2>7, <2>8 DEF OfEnded
<1>9. OnlyExpiredGo'
  <2> SUFFICES ASSUME NEW t \in Submissions, NEW r \in rows',
                      r.id \in sub'[t].deleted \/ (sub'[t].pc \in Clearing /\ r.id = sub'[t].seen)
               PROVE  r.expires <= clock
    BY <1>4 DEF OnlyExpiredGo
  <2>1. t # s /\ sub'[t] = sub[t]
    BY <1>2, <1>6 DEF Clearing
  <2>2. sub[r.id].pc = "ended"
    BY <2>1 DEF IdemInv, OfEnded
  <2>3. r \in rows
    BY <1>1, <1>3, <1>4, <2>2
  <2> QED BY <2>1, <2>3 DEF IdemInv, OnlyExpiredGo
<1>10. LiveWorksHaveRows'
  <2> SUFFICES ASSUME NEW w \in works', clock < w.at + TTL
               PROVE  \E r \in rows' : r.id = w.id /\ r.key = w.key /\ r.expires = w.at + TTL
    BY <1>4 DEF LiveWorksHaveRows
  <2>1. CASE w \in works
    <3>1. PICK r \in rows : r.id = w.id /\ r.key = w.key /\ r.expires = w.at + TTL
      BY <2>1 DEF IdemInv, LiveWorksHaveRows
    <3>2. clock \in Nat /\ w.at \in Nat
      BY <2>1, IdemKinds DEF IdemInv
    <3>3. r.id \notin sub[s].deleted
      BY <3>1, <3>2, TimesAreNaturals DEF IdemInv, OnlyExpiredGo
    <3> QED BY <1>4, <3>1, <3>3
  <2>2. CASE w = w0
    BY <1>3, <1>4, <2>2
  <2> QED BY <1>4, <2>1, <2>2
<1>11. StoredAlone'
  BY <1>2, <1>6 DEF IdemInv, StoredAlone
<1>12. StoredApart'
  <2> SUFFICES ASSUME NEW t \in Submissions, NEW w \in works',
                      sub'[t].pc = "stored", w.key = sub'[t].key
               PROVE  w.at + TTL <= sub'[t].at
    BY DEF StoredApart
  <2>1. t # s /\ sub'[t] = sub[t]
    BY <1>2, <1>6
  <2>2. w # w0
    BY <1>1, <2>1 DEF IdemInv, StoredAlone
  <2> QED BY <1>4, <2>1, <2>2 DEF IdemInv, StoredApart
<1>13. OncePerLifetime'
  <2>1. \A w \in works : w.key = sub[s].key => sub[s].at - w.at >= TTL
    <3> SUFFICES ASSUME NEW w \in works, w.key = sub[s].key PROVE sub[s].at - w.at >= TTL
      OBVIOUS
    <3>1. w.at + TTL <= sub[s].at
      BY <1>1 DEF IdemInv, StoredApart
    <3> QED BY <1>1, <3>1, IdemKinds, TimesAreNaturals DEF IdemInv
  <2> QED BY <1>4, <2>1 DEF IdemInv, OncePerLifetime
<1> QED BY <1>7, <1>8, <1>9, <1>10, <1>11, <1>12, <1>13 DEF IdemInv

LEMMA PurgeKeeps ==
  ASSUME IdemInv, Purge
  PROVE  IdemInv'
<1>1. UNCHANGED <<sub, works, clock>> /\ rows' \subseteq rows
  BY DEF Purge
<1>2. LiveWorksHaveRows'
  <2> SUFFICES ASSUME NEW w \in works, clock < w.at + TTL
               PROVE  \E r \in rows' : r.id = w.id /\ r.key = w.key /\ r.expires = w.at + TTL
    BY <1>1 DEF LiveWorksHaveRows
  <2>1. PICK r \in rows : r.id = w.id /\ r.key = w.key /\ r.expires = w.at + TTL
    BY DEF IdemInv, LiveWorksHaveRows
  <2>2. clock \in Nat /\ w.at \in Nat
    BY IdemKinds DEF IdemInv
  <2> QED BY <2>1, <2>2, TimesAreNaturals DEF Purge
<1> QED BY <1>1, <1>2 DEF IdemInv, Typed, IdemTypeOK, OfEnded, OnlyExpiredGo, StoredAlone,
                          StoredApart, OncePerLifetime

LEMMA TickKeeps ==
  ASSUME IdemInv, Tick
  PROVE  IdemInv'
<1>1. UNCHANGED <<sub, rows, works>> /\ clock' = clock + 1 /\ clock' \in 0 .. MaxTime
  BY TimesAreNaturals DEF Tick, IdemInv, Typed, IdemTypeOK
<1>2. clock \in Nat /\ (\A r \in rows : r.expires \in Nat) /\ (\A w \in works : w.at \in Nat)
  BY IdemKinds DEF IdemInv
<1>3. OnlyExpiredGo'
  BY <1>1, <1>2 DEF IdemInv, OnlyExpiredGo
<1>4. LiveWorksHaveRows'
  BY <1>1, <1>2, TimesAreNaturals DEF IdemInv, LiveWorksHaveRows
<1> QED BY <1>1, <1>3, <1>4 DEF IdemInv, Typed, IdemTypeOK, OfEnded, StoredAlone,
                                StoredApart, OncePerLifetime

LEMMA StutterKeeps == IdemInv /\ UNCHANGED idemVars => IdemInv'
  BY DEF idemVars, IdemInv, Typed, IdemTypeOK, OfEnded, OnlyExpiredGo, LiveWorksHaveRows,
         StoredAlone, StoredApart, OncePerLifetime

LEMMA IdemStep == IdemInv /\ [IdemNext]_idemVars => IdemInv'
<1> SUFFICES ASSUME IdemInv, [IdemNext]_idemVars PROVE IdemInv'
  OBVIOUS
<1>1. ASSUME NEW s \in Submissions, Submit(s) \/ Handler(s) \/ Abort(s)
      PROVE  IdemInv'
  BY <1>1, SubmitHarmless, LookUpHarmless, LookUpUnderLockHarmless, LoseHarmless,
     WaitsHarmless, ClearingHarmless, ClearUnderLockHarmless, StoreHarmless,
     HarmlessKeeps, CommitKeeps DEF Handler
<1> QED BY <1>1, PurgeKeeps, TickKeeps, StutterKeeps DEF IdemNext

(* Two works of one key are a lifetime apart (idempotency.service.ts run,  *)
(* replayIfStored, store and the purge), for any number of submissions of  *)
(* any keys, whatever is rolled back.                                      *)
THEOREM KeyWorksOncePerLifetime == IdemSpec => []OncePerLifetime
<1>1. IdemInv => OncePerLifetime
  BY DEF IdemInv
<1> QED BY <1>1, IdemInitially, IdemStep, PTL DEF IdemSpec
-----------------------------------------------------------------------------
(***************************************************************************)
(* What a submission is answered with. Here the lock counts: of two        *)
(* requests that agree in everything, one is in its transaction at a time, *)
(* so what a lookup under the lock found still holds at the work.          *)
(***************************************************************************)
RowsOfWorks ==
    \A r \in rows : \E w \in works : w.id = r.id /\ w.key = r.key /\ w.payload = r.payload
BodiesOfWorks ==
    \A s \in Submissions : sub[s].body # None =>
        /\ sub[s].pc = "ended"
        /\ \E w \in works : w.id = sub[s].body /\ w.key = sub[s].key
                            /\ w.payload = sub[s].payload
LockAlone ==
    \A s, t \in Submissions :
        /\ sub[s].pc \in InTx /\ sub[t].pc \in InTx
        /\ sub[s].payload.lock = sub[t].payload.lock
        => s = t
RowAlone == \A q, r \in rows : q.key = r.key => q = r
StoredReplaces ==
    \A s \in Submissions : sub[s].pc = "stored" =>
        \A r \in rows : r.key = sub[s].key => r.id \in sub[s].deleted
WorksAfresh ==
    \A s \in Submissions : sub[s].pc \in {"clearingTx", "working"} =>
        \A r \in rows : r.key = sub[s].key /\ r.payload = sub[s].payload
                        => r.expires <= clock

AnswerInv == /\ RowsOfWorks /\ BodiesOfWorks /\ LockAlone
             /\ RowAlone /\ StoredReplaces /\ WorksAfresh

LEMMA AnswerInitially == IdemInit => AnswerInv
  BY DEF IdemInit, AnswerInv, RowsOfWorks, BodiesOfWorks, LockAlone, RowAlone,
         StoredReplaces, WorksAfresh, InTx

(* Every step of a handler but its commit does no more than this. *)
Quiet(s) ==
    /\ sub[s].pc # "ended"
    /\ \A t \in Submissions \ {s} : sub'[t] = sub[t]
    /\ sub'[s].pc \in InTx =>
          \/ sub[s].pc \in InTx /\ sub'[s].payload = sub[s].payload
          \/ RowUnlocked(sub'[s].payload.lock)
    /\ sub'[s].body # None =>
          /\ sub'[s].pc = "ended"
          /\ \E r \in rows : r.id = sub'[s].body /\ r.key = sub'[s].key
                             /\ r.payload = sub'[s].payload
    /\ sub'[s].pc = "stored" =>
          \A r \in rows : r.key = sub'[s].key => r.id \in sub'[s].deleted
    /\ sub'[s].pc \in {"clearingTx", "working"} =>
          \A r \in rows : r.key = sub'[s].key /\ r.payload = sub'[s].payload
                          => r.expires <= clock
    /\ rows' \subseteq rows
    /\ UNCHANGED <<works, clock>>

LEMMA QuietKeeps ==
  ASSUME AnswerInv, NEW s \in Submissions, Quiet(s)
  PROVE  AnswerInv'
<1> USE DEF AnswerInv, Quiet
<1>1. RowsOfWorks'
  BY DEF RowsOfWorks
<1>2. BodiesOfWorks'
  <2> SUFFICES ASSUME NEW t \in Submissions, sub'[t].body # None
               PROVE  /\ sub'[t].pc = "ended"
                      /\ \E w \in works : w.id = sub'[t].body /\ w.key = sub'[t].key
                                          /\ w.payload = sub'[t].payload
    BY DEF BodiesOfWorks
  <2>1. CASE t = s
    BY <2>1 DEF RowsOfWorks
  <2>2. CASE t # s
    BY <2>2 DEF BodiesOfWorks
  <2> QED BY <2>1, <2>2
<1>3. LockAlone'
  <2>1. ASSUME NEW t \in Submissions \ {s}, sub'[s].pc \in InTx, sub[t].pc \in InTx
        PROVE  sub'[s].payload.lock # sub[t].payload.lock
    <3>1. CASE sub[s].pc \in InTx /\ sub'[s].payload = sub[s].payload
      BY <2>1, <3>1 DEF LockAlone
    <3>2. CASE RowUnlocked(sub'[s].payload.lock)
      BY <2>1, <3>2 DEF RowUnlocked, InTransaction
    <3> QED BY <2>1, <3>1, <3>2
  <2> QED BY <2>1 DEF LockAlone
<1>4. RowAlone'
  BY DEF RowAlone
<1>5. StoredReplaces'
  BY DEF StoredReplaces
<1>6. WorksAfresh'
  BY DEF WorksAfresh
<1> QED BY <1>1, <1>2, <1>3, <1>4, <1>5, <1>6

LEMMA WentOn ==
  ASSUME IdemInv, NEW s \in Submissions, NEW pc, Goes(s, pc)
  PROVE  /\ \A t \in Submissions \ {s} : sub'[t] = sub[t]
         /\ sub'[s].pc = pc /\ sub'[s].key = sub[s].key /\ sub'[s].payload = sub[s].payload
         /\ sub'[s].body = sub[s].body /\ sub'[s].deleted = sub[s].deleted
  BY DEF Goes, IdemInv, Typed, IdemTypeOK, Handlers

LEMMA HasEnded ==
  ASSUME IdemInv, NEW s \in Submissions, NEW a, NEW b, Ends(s, a, b)
  PROVE  /\ \A t \in Submissions \ {s} : sub'[t] = sub[t]
         /\ sub'[s].pc = "ended" /\ sub'[s].key = sub[s].key
         /\ sub'[s].payload = sub[s].payload /\ sub'[s].body = b
  BY DEF Ends, IdemInv, Typed, IdemTypeOK, Handlers

(* The end of a request nobody answered with a work. *)
LEMMA QuietEnd ==
  ASSUME IdemInv, NEW s \in Submissions, sub[s].pc # "ended", NEW a, Ends(s, a, None),
         rows' \subseteq rows, UNCHANGED <<works, clock>>
  PROVE  Quiet(s)
  BY HasEnded DEF Quiet, InTx

LEMMA SubmitQuiet ==
  ASSUME IdemInv, AnswerInv, NEW s \in Submissions, Submit(s)
  PROVE  Quiet(s)
<1>1. PICK k \in Keys, p \in Payloads :
         sub' = [sub EXCEPT ![s].pc = "looking", ![s].key = k, ![s].payload = p]
  BY DEF Submit
<1>2. /\ \A t \in Submissions \ {s} : sub'[t] = sub[t]
      /\ sub'[s].pc = "looking" /\ sub'[s].body = sub[s].body
  BY <1>1 DEF IdemInv, Typed, IdemTypeOK, Handlers
<1>3. sub[s].body = None
  BY DEF Submit, AnswerInv, BodiesOfWorks
<1> QED BY <1>2, <1>3 DEF Quiet, Submit, InTx

(* A lookup: what is absent decides the rest, an expired row is seen, and  *)
(* a live one of the same request answers.                                 *)
LEMMA FindQuiet ==
  ASSUME IdemInv, AnswerInv, NEW s \in Submissions, sub[s].pc # "ended",
         UNCHANGED <<rows, works, clock>>,
         NEW absent \in BOOLEAN, RowsSeen(s) = {} /\ absent => Quiet(s),
         NEW pc \in Clearing, pc = "clearingTx" => sub[s].pc \in InTx, Find(s, absent, pc)
  PROVE  Quiet(s)
<1>0. sub[s].body = None
  BY DEF AnswerInv, BodiesOfWorks
<1>1. ASSUME NEW r \in RowsSeen(s), r.expires <= clock,
             sub' = [sub EXCEPT ![s].pc = pc, ![s].seen = r.id]
      PROVE  Quiet(s)
  <2>1. /\ \A t \in Submissions \ {s} : sub'[t] = sub[t]
        /\ sub'[s].pc = pc /\ sub'[s].key = sub[s].key /\ sub'[s].payload = sub[s].payload
        /\ sub'[s].body = None
    BY <1>0, <1>1 DEF IdemInv, Typed, IdemTypeOK, Handlers
  <2>2. \A q \in rows : q.key = sub[s].key => q = r
    BY DEF AnswerInv, RowAlone, RowsSeen
  <2>3. pc # "stored" /\ pc # "working"
    BY DEF Clearing
  <2>4. pc \in InTx => pc = "clearingTx"
    BY DEF Clearing, InTx
  <2> QED BY <1>1, <2>1, <2>2, <2>3, <2>4 DEF Quiet
<1>2. ASSUME NEW r \in RowsSeen(s), r.payload = sub[s].payload, Ends(s, "replayed", r.id)
      PROVE  Quiet(s)
  <2>1. /\ \A t \in Submissions \ {s} : sub'[t] = sub[t]
        /\ sub'[s].pc = "ended" /\ sub'[s].key = sub[s].key
        /\ sub'[s].payload = sub[s].payload /\ sub'[s].body = r.id
    BY <1>2, HasEnded
  <2>2. r \in rows /\ r.key = sub[s].key
    BY DEF RowsSeen
  <2> QED BY <1>2, <2>1, <2>2 DEF Quiet, InTx
<1>3. ASSUME Ends(s, "reused", None) PROVE Quiet(s)
  BY <1>3, QuietEnd
<1> QED BY <1>1, <1>2, <1>3 DEF Find

LEMMA LookUpQuiet ==
  ASSUME IdemInv, AnswerInv, NEW s \in Submissions, LookUp(s)
  PROVE  Quiet(s)
<1>0. sub[s].body = None /\ sub[s].pc # "ended"
  BY DEF AnswerInv, BodiesOfWorks, LookUp
<1>1. Goes(s, "starting") => Quiet(s)
  BY <1>0, WentOn DEF Quiet, InTx, LookUp
<1> QED BY <1>0, <1>1, FindQuiet DEF LookUp, Clearing, Goes

(* Under the lock: with no row seen, those of the key are the ones this    *)
(* transaction deleted, which had expired.                                 *)
LEMMA LookUpUnderLockQuiet ==
  ASSUME IdemInv, AnswerInv, NEW s \in Submissions, LookUpUnderLock(s)
  PROVE  Quiet(s)
<1>0. sub[s].body = None /\ sub[s].pc # "ended" /\ sub[s].pc \in InTx
  BY DEF AnswerInv, BodiesOfWorks, LookUpUnderLock, InTx
<1>1. ASSUME RowsSeen(s) = {}, Goes(s, "working") PROVE Quiet(s)
  <2>1. \A r \in rows : r.key = sub[s].key => r.expires <= clock
    BY <1>1 DEF RowsSeen, IdemInv, OnlyExpiredGo
  <2> QED BY <1>0, <1>1, <2>1, WentOn DEF Quiet, LookUpUnderLock
<1> QED BY <1>0, <1>1, FindQuiet DEF LookUpUnderLock, ReplayIfStored, Clearing, Goes

LEMMA LoseQuiet ==
  ASSUME IdemInv, AnswerInv, NEW s \in Submissions, Lose(s)
  PROVE  Quiet(s)
<1>0. sub[s].pc # "ended"
  BY DEF Lose
<1>1. Ends(s, "conflict", None) => Quiet(s)
  BY <1>0, QuietEnd DEF Lose
<1> QED BY <1>0, <1>1, FindQuiet DEF Lose, Clearing, Ends

LEMMA WaitsQuiet ==
  ASSUME IdemInv, AnswerInv, NEW s \in Submissions, TakeLock(s) \/ Work(s)
  PROVE  Quiet(s)
<1>0. sub[s].body = None /\ sub[s].pc # "ended"
  BY DEF AnswerInv, BodiesOfWorks, TakeLock, Work
<1>1. CASE TakeLock(s)
  <2>1. RowUnlocked(sub[s].payload.lock) /\ Goes(s, "locked")
        /\ UNCHANGED <<rows, works, clock>>
    BY <1>1 DEF TakeLock
  <2> QED BY <1>0, <2>1, WentOn DEF Quiet
<1>2. CASE Work(s) /\ Goes(s, "storing")
  <2>1. sub[s].pc \in InTx /\ UNCHANGED <<rows, works, clock>>
    BY <1>2 DEF Work, InTx
  <2> QED BY <1>0, <1>2, <2>1, WentOn DEF Quiet
<1>3. CASE Work(s) /\ Ends(s, "refused", None)
  BY <1>0, <1>3, QuietEnd DEF Work
<1> QED BY <1>1, <1>2, <1>3 DEF Work

LEMMA ClearingQuiet ==
  ASSUME IdemInv, AnswerInv, NEW s \in Submissions, Clear(s) \/ ClearAsLoser(s) \/ Abort(s)
  PROVE  Quiet(s)
<1>0. sub[s].body = None /\ sub[s].pc # "ended"
  BY DEF AnswerInv, BodiesOfWorks, Clear, ClearAsLoser, Abort
<1>1. rows' \subseteq rows /\ UNCHANGED <<works, clock>>
  BY DEF Clear, ClearAsLoser, Abort, RolledBack
<1>2. CASE Goes(s, "starting")
  BY <1>0, <1>1, <1>2, WentOn DEF Quiet, InTx
<1>3. CASE Ends(s, "conflict", None) \/ Ends(s, "failed", None)
  BY <1>0, <1>1, <1>3, QuietEnd
<1> QED BY <1>2, <1>3 DEF Clear, ClearAsLoser, Abort

LEMMA ClearUnderLockQuiet ==
  ASSUME IdemInv, AnswerInv, NEW s \in Submissions, ClearUnderLock(s)
  PROVE  Quiet(s)
<1>1. sub[s].body = None /\ sub[s].pc = "clearingTx" /\ sub[s].pc \in InTx
  BY DEF AnswerInv, BodiesOfWorks, ClearUnderLock, InTx
<1>2. /\ \A t \in Submissions \ {s} : sub'[t] = sub[t]
      /\ sub'[s].pc = "working" /\ sub'[s].key = sub[s].key
      /\ sub'[s].payload = sub[s].payload /\ sub'[s].body = sub[s].body
  BY DEF ClearUnderLock, IdemInv, Typed, IdemTypeOK, Handlers
<1>3. \A r \in rows : r.key = sub[s].key /\ r.payload = sub[s].payload => r.expires <= clock
  BY <1>1 DEF AnswerInv, WorksAfresh
<1> QED BY <1>1, <1>2, <1>3 DEF Quiet, ClearUnderLock

LEMMA StoreQuiet ==
  ASSUME IdemInv, AnswerInv, NEW s \in Submissions, Store(s)
  PROVE  Quiet(s)
<1> DEFINE alone == RowsSeen(s) = {}
<1>1. sub[s].body = None /\ sub[s].pc = "storing" /\ sub[s].pc \in InTx
  BY DEF AnswerInv, BodiesOfWorks, Store, InTx
<1> DEFINE h == [sub[s] EXCEPT !.pc = IF alone THEN "stored" ELSE "losing",
                               !.at = clock, !.deleted = IF alone THEN @ ELSE {}]
<1>2. sub \in [Submissions -> Handlers] /\ sub' = [sub EXCEPT ![s] = h]
  BY DEF Store, IdemInv, Typed, IdemTypeOK, Handlers
<1>3. /\ h.pc = IF alone THEN "stored" ELSE "losing"
      /\ h.key = sub[s].key /\ h.payload = sub[s].payload /\ h.body = sub[s].body
      /\ alone => h.deleted = sub[s].deleted
  BY <1>2 DEF Handlers
<1>4. alone => \A r \in rows : r.key = sub[s].key => r.id \in sub[s].deleted
  BY DEF RowsSeen
<1>5. UNCHANGED <<rows, works, clock>>
  BY DEF Store
<1> HIDE DEF alone, h
<1>6. sub'[s] = h /\ \A t \in Submissions \ {s} : sub'[t] = sub[t]
  BY <1>2
<1>7. sub'[s].pc \in {"stored", "losing"} /\ (sub'[s].pc = "stored" => alone)
  BY <1>3, <1>6
<1> QED BY <1>1, <1>3, <1>4, <1>5, <1>6, <1>7 DEF Quiet

(* The commit: its row takes the place of those of its key, and nobody     *)
(* about to do the same work holds the lock it held.                       *)
LEMMA CommitAnswers ==
  ASSUME IdemInv, AnswerInv, NEW s \in Submissions, Commit(s)
  PROVE  AnswerInv'
<1> DEFINE w0 == [id |-> s, key |-> sub[s].key, payload |-> sub[s].payload, at |-> sub[s].at]
           r0 == RowOf(s)
<1>1. sub[s].pc = "stored" /\ sub[s].pc \in InTx
  BY DEF Commit, InTx
<1>2. /\ \A t \in Submissions \ {s} : sub'[t] = sub[t]
      /\ sub'[s].pc = "ended" /\ sub'[s].key = sub[s].key
      /\ sub'[s].payload = sub[s].payload /\ sub'[s].body = s
  BY HasEnded DEF Commit
<1>3. /\ rows' = {r \in rows : r.id \notin sub[s].deleted} \cup {r0}
      /\ works' = works \cup {w0} /\ clock' = clock
  BY DEF Commit
<1>4. r0.id = s /\ r0.key = sub[s].key /\ r0.payload = sub[s].payload
  BY DEF RowOf
<1>5. w0.id = s /\ w0.key = sub[s].key /\ w0.payload = sub[s].payload
  OBVIOUS
<1> HIDE DEF r0, w0
<1>6. RowsOfWorks'
  BY <1>3, <1>4, <1>5 DEF AnswerInv, RowsOfWorks
<1>7. BodiesOfWorks'
  BY <1>2, <1>3, <1>5 DEF AnswerInv, BodiesOfWorks
<1>8. LockAlone'
  BY <1>2 DEF AnswerInv, LockAlone, InTx
<1>9. RowAlone'
  BY <1>1, <1>3, <1>4 DEF AnswerInv, RowAlone, StoredReplaces
<1>10. StoredReplaces'
  <2>1. \A t \in Submissions \ {s} : sub[t].pc = "stored" => sub[t].key # sub[s].key
    BY <1>1 DEF IdemInv, StoredAlone
  <2> QED BY <1>2, <1>3, <1>4, <2>1 DEF AnswerInv, StoredReplaces
<1>11. WorksAfresh'
  <2>1. \A t \in Submissions \ {s} :
            sub[t].pc \in {"clearingTx", "working"} => sub[t].payload # sub[s].payload
    BY <1>1 DEF AnswerInv, LockAlone, InTx
  <2> QED BY <1>2, <1>3, <1>4, <2>1 DEF AnswerInv, WorksAfresh
<1> QED BY <1>6, <1>7, <1>8, <1>9, <1>10, <1>11 DEF AnswerInv

LEMMA TimeAnswers ==
  ASSUME IdemInv, AnswerInv, Purge \/ Tick \/ UNCHANGED idemVars
  PROVE  AnswerInv'
<1>1. /\ UNCHANGED <<sub, works>> /\ rows' \subseteq rows
      /\ clock' = clock \/ clock' = clock + 1
  BY DEF Purge, Tick, idemVars
<1>2. clock \in Nat /\ \A r \in rows : r.expires \in Nat
  BY IdemKinds DEF IdemInv
<1>3. WorksAfresh'
  BY <1>1, <1>2 DEF AnswerInv, WorksAfresh
<1> QED BY <1>1, <1>3 DEF AnswerInv, RowsOfWorks, BodiesOfWorks, LockAlone, RowAlone,
                          StoredReplaces

(* Whatever a submission is answered with is a work of its key and its     *)
(* request, and none is about to do the work with a live answer stored for *)
(* it (idempotency.service.ts run, replayIfStored, store).                 *)
THEOREM AnswersAreTheirs == IdemSpec => []AnswersHold
<1>1. IdemInit => IdemInv /\ AnswerInv
  BY IdemInitially, AnswerInitially
<1>2. IdemInv /\ AnswerInv /\ [IdemNext]_idemVars => IdemInv' /\ AnswerInv'
  <2> SUFFICES ASSUME IdemInv, AnswerInv, [IdemNext]_idemVars PROVE AnswerInv'
    BY IdemStep
  <2>1. ASSUME NEW s \in Submissions, Submit(s) \/ Handler(s) \/ Abort(s)
        PROVE  AnswerInv'
    BY <2>1, SubmitQuiet, LookUpQuiet, LookUpUnderLockQuiet, LoseQuiet, WaitsQuiet,
       ClearingQuiet, ClearUnderLockQuiet, StoreQuiet, QuietKeeps, CommitAnswers
    DEF Handler
  <2> QED BY <2>1, TimeAnswers DEF IdemNext
<1>3. AnswerInv => AnswersHold
  BY DEF AnswerInv, BodiesOfWorks, WorksAfresh, AnswersHold
<1> QED BY <1>1, <1>2, <1>3, PTL DEF IdemSpec
-----------------------------------------------------------------------------
(* The press drawn last is of this visit, and only while the layout is      *)
(* mounted; only it is under way, and the spinner and the notice are its.   *)
(* A press has printed once when it stands printed, in its own visit.       *)
Stages == UnderWay \cup {"none", "adrift", "dropped", "failed", "printed"}
PrintTypeOK ==
    /\ visit \in [number : Nat, mounted : BOOLEAN]
    /\ {current, preparing, notice} \subseteq Presses \cup {0}
    /\ jobs \in [Presses -> [receipt : Receipts, stage : Stages, visit : Nat,
                             printedIn : Nat, prints : Nat]]
OnlyTheLastUnderWay ==
    /\ \A j \in Presses : jobs[j].stage \in UnderWay => j = current
    /\ current # 0 => visit.mounted /\ jobs[current].visit = visit.number
    /\ preparing # 0 <=> notice # 0
    /\ preparing # 0 <=> current # 0 /\ jobs[current].stage \in UnderWay
    /\ preparing \in {0, current}
PrintedInItsVisit ==
    \A j \in Presses :
        /\ jobs[j].stage # "printed" => jobs[j].prints = 0
        /\ jobs[j].stage = "printed" => jobs[j].prints = 1 /\ jobs[j].printedIn = jobs[j].visit

(* Of the receipt's own page, when the receipt is at edition n: an answer   *)
(* that a reprint will print is no older than the press, answers only grow  *)
(* newer, and what the page shows is no older than the papers it printed.   *)
OwnPages == [at : {"none", "sent", "served"}, says : Int, answer : Int,
             outcome : {"none", "answered", "failed", "refused"}, rendered : BOOLEAN,
             shows : Int, first : {"unready", "gated", "settling", "printed"},
             reprint : Int, newest : Int, stalePaper : BOOLEAN]
NoOlderThanItsPress(p, n) ==
    /\ p.reprint <= n
    /\ p.at = "served" => p.reprint <= p.says
    /\ p.reprint # -1 /\ p.at = "none" /\ p.outcome = "answered" => p.reprint <= p.answer
NoOlderThanPrinted(p, n) ==
    /\ -1 <= p.newest /\ p.newest <= p.answer /\ p.answer <= n
    /\ p.at = "served" => p.answer <= p.says /\ p.says <= n
    /\ p.shows # -1 => p.newest <= p.shows /\ p.shows <= p.answer
PaperInv(p, n) ==
    /\ p \in OwnPages /\ n \in Nat /\ ~p.stalePaper
    /\ NoOlderThanItsPress(p, n) /\ NoOlderThanPrinted(p, n)
PrintInPlace == PrintTypeOK /\ OnlyTheLastUnderWay /\ PrintedInItsVisit
PrintOwnPage == PaperInv(ownPage, edition)

LEMMA PrintingInitially == PrintingInit => PrintInPlace /\ PrintOwnPage
<1> SUFFICES ASSUME PrintingInit PROVE PrintInPlace /\ PrintOwnPage
  OBVIOUS
<1>1. NoPress \in [receipt : Receipts, stage : Stages, visit : Nat, printedIn : Nat, prints : Nat]
      /\ NoPress.stage = "none" /\ NoPress.prints = 0
  BY PrintingAssumption DEF NoPress, Stages
<1>2. PrintInPlace
  BY <1>1 DEF PrintingInit, PrintInPlace, PrintTypeOK, OnlyTheLastUnderWay, PrintedInItsVisit,
              UnderWay, Presses
<1>3. PrintOwnPage
  BY DEF PrintingInit, PrintOwnPage, PaperInv, OwnPages, NoOlderThanItsPress, NoOlderThanPrinted,
         NewPage
<1> QED BY <1>2, <1>3

(* What the page shows may be printed at any time, and for a press it is no *)
(* older than.                                                              *)
LEMMA PagePrints ==
  ASSUME NEW p, NEW n, PaperInv(p, n), NEW press \in Int, p.shows # -1 => press <= p.shows
  PROVE  /\ PaperInv(Prints(p, press), n)
         /\ Prints(p, press).at = p.at /\ Prints(p, press).first = p.first
<1>1. CASE p.shows = -1
  BY <1>1 DEF Prints
<1>2. CASE p.shows # -1
  <2>1. p.newest <= p.shows /\ p.shows \in Int /\ p.newest \in Int /\ p.stalePaper = FALSE
    BY <1>2 DEF PaperInv, NoOlderThanPrinted, OwnPages
  <2>2. ~(p.shows < press) /\ ~(p.shows < p.newest)
    BY <1>2, <2>1
  <2>3. Prints(p, press) = [p EXCEPT !.stalePaper = FALSE, !.newest = p.shows]
    BY <1>2, <2>1, <2>2 DEF Prints, PaperInv, OwnPages
  <2>4. PICK q : q = Prints(p, press)
    OBVIOUS
  <2>5. q \in OwnPages
    BY <2>1, <2>3, <2>4 DEF PaperInv, OwnPages
  <2>6. /\ q.at = p.at /\ q.first = p.first /\ q.says = p.says /\ q.answer = p.answer
        /\ q.outcome = p.outcome /\ q.shows = p.shows /\ q.reprint = p.reprint
        /\ q.newest = p.shows /\ q.stalePaper = FALSE
    BY <2>3, <2>4 DEF PaperInv, OwnPages
  <2>7. -1 <= p.shows /\ p.shows <= p.shows
    BY <1>2, <2>1 DEF PaperInv, NoOlderThanPrinted
  <2>8. PaperInv(q, n)
    BY <1>2, <2>5, <2>6, <2>7 DEF PaperInv, NoOlderThanItsPress, NoOlderThanPrinted
  <2> QED BY <2>4, <2>6, <2>8
<1> QED BY <1>1, <1>2

(* Steps that print nothing change a few fields.                            *)
LEMMA PaperReads ==
  ASSUME NEW p, NEW n, PaperInv(p, n)
  PROVE  /\ p.at = "sent" => PaperInv([p EXCEPT !.at = "served", !.says = n], n)
         /\ p.at = "served" => PaperInv([p EXCEPT !.at = "none", !.answer = p.says,
                                                 !.outcome = "answered", !.rendered = FALSE], n)
         /\ \A outcome \in {"failed", "refused"} :
               PaperInv([p EXCEPT !.at = "none", !.outcome = outcome, !.rendered = FALSE], n)
         /\ PaperInv([p EXCEPT !.reprint = n, !.at = "sent"], n)
         /\ PaperInv([p EXCEPT !.at = "sent"], n)
         /\ \A first \in {"gated", "settling", "printed"} : PaperInv([p EXCEPT !.first = first], n)
         /\ PaperInv([p EXCEPT !.reprint = -1], n)
         /\ PaperInv(p, n + 1)
<1>0. p \in OwnPages /\ n \in Nat /\ n \in Int /\ -1 \in Int /\ p.says \in Int
  BY DEF PaperInv, OwnPages
<1>1. ASSUME p.at = "sent" PROVE PaperInv([p EXCEPT !.at = "served", !.says = n], n)
  <2>1. PICK q : q = [p EXCEPT !.at = "served", !.says = n]
    OBVIOUS
  <2>2. q \in OwnPages
    BY <1>0, <2>1 DEF OwnPages
  <2>3. /\ q.at = "served" /\ q.says = n /\ q.answer = p.answer /\ q.outcome = p.outcome
        /\ q.shows = p.shows /\ q.reprint = p.reprint /\ q.newest = p.newest
        /\ q.stalePaper = p.stalePaper
    BY <1>0, <2>1 DEF OwnPages
  <2>4. PaperInv(q, n)
    BY <2>2, <2>3 DEF PaperInv, NoOlderThanItsPress, NoOlderThanPrinted
  <2> QED BY <2>1, <2>4
<1>2. ASSUME p.at = "served"
      PROVE  PaperInv([p EXCEPT !.at = "none", !.answer = p.says,
                                !.outcome = "answered", !.rendered = FALSE], n)
  <2>1. PICK q : q = [p EXCEPT !.at = "none", !.answer = p.says,
                               !.outcome = "answered", !.rendered = FALSE]
    OBVIOUS
  <2>2. q \in OwnPages
    BY <1>0, <2>1 DEF OwnPages
  <2>3. /\ q.at = "none" /\ q.says = p.says /\ q.answer = p.says /\ q.outcome = "answered"
        /\ q.shows = p.shows /\ q.reprint = p.reprint /\ q.newest = p.newest
        /\ q.stalePaper = p.stalePaper
    BY <1>0, <2>1 DEF OwnPages
  <2>4. PaperInv(q, n)
    BY <1>0, <1>2, <2>2, <2>3 DEF PaperInv, NoOlderThanItsPress, NoOlderThanPrinted, OwnPages
  <2> QED BY <2>1, <2>4
<1>3. ASSUME NEW outcome \in {"failed", "refused"}
      PROVE  PaperInv([p EXCEPT !.at = "none", !.outcome = outcome, !.rendered = FALSE], n)
  <2>1. PICK q : q = [p EXCEPT !.at = "none", !.outcome = outcome, !.rendered = FALSE]
    OBVIOUS
  <2>2. q \in OwnPages
    BY <1>0, <2>1 DEF OwnPages
  <2>3. /\ q.at = "none" /\ q.says = p.says /\ q.answer = p.answer /\ q.outcome # "answered"
        /\ q.shows = p.shows /\ q.reprint = p.reprint /\ q.newest = p.newest
        /\ q.stalePaper = p.stalePaper
    BY <1>0, <2>1 DEF OwnPages
  <2>4. PaperInv(q, n)
    BY <2>2, <2>3 DEF PaperInv, NoOlderThanItsPress, NoOlderThanPrinted
  <2> QED BY <2>1, <2>4
<1>4. ASSUME NEW reprint \in {p.reprint, n} PROVE PaperInv([p EXCEPT !.reprint = reprint, !.at = "sent"], n)
  <2>1. PICK q : q = [p EXCEPT !.reprint = reprint, !.at = "sent"]
    OBVIOUS
  <2>2. q \in OwnPages
    BY <1>0, <2>1 DEF OwnPages
  <2>3. /\ q.at = "sent" /\ q.says = p.says /\ q.answer = p.answer /\ q.outcome = p.outcome
        /\ q.shows = p.shows /\ q.reprint = reprint /\ q.newest = p.newest
        /\ q.stalePaper = p.stalePaper
    BY <1>0, <2>1 DEF OwnPages
  <2>4. PaperInv(q, n)
    BY <1>0, <2>2, <2>3 DEF PaperInv, NoOlderThanItsPress, NoOlderThanPrinted
  <2> QED BY <2>1, <2>4
<1>5. ASSUME NEW first \in {"gated", "settling", "printed"} PROVE PaperInv([p EXCEPT !.first = first], n)
  BY <1>0 DEF PaperInv, NoOlderThanItsPress, NoOlderThanPrinted, OwnPages
<1>6. PaperInv([p EXCEPT !.reprint = -1], n)
  <2>1. PICK q : q = [p EXCEPT !.reprint = -1]
    OBVIOUS
  <2>2. q \in OwnPages
    BY <1>0, <2>1 DEF OwnPages
  <2>3. /\ q.at = p.at /\ q.says = p.says /\ q.answer = p.answer /\ q.outcome = p.outcome
        /\ q.shows = p.shows /\ q.reprint = -1 /\ q.newest = p.newest
        /\ q.stalePaper = p.stalePaper
    BY <1>0, <2>1 DEF OwnPages
  <2>4. {p.newest, p.answer, p.says} \subseteq Int
    BY <1>0 DEF OwnPages
  <2>5. -1 <= n /\ (p.at = "served" => -1 <= p.says)
    BY <1>0, <2>4 DEF PaperInv, NoOlderThanPrinted
  <2>6. PaperInv(q, n)
    BY <2>2, <2>3, <2>5 DEF PaperInv, NoOlderThanItsPress, NoOlderThanPrinted
  <2> QED BY <2>1, <2>6
<1>7. PaperInv(p, n + 1)
  BY DEF PaperInv, NoOlderThanItsPress, NoOlderThanPrinted, OwnPages
<1>8. [p EXCEPT !.at = "sent"] = [p EXCEPT !.reprint = p.reprint, !.at = "sent"]
  BY <1>0 DEF OwnPages
<1> QED BY <1>1, <1>2, <1>3, <1>4, <1>5, <1>6, <1>7, <1>8

(* The receipt's own page, on which every step reads and writes alone.      *)
LEMMA OwnPageStep == PrintOwnPage /\ (OwnPageNext \/ UNCHANGED <<edition, ownPage>>) => PrintOwnPage'
<1> SUFFICES ASSUME PrintOwnPage, OwnPageNext \/ UNCHANGED <<edition, ownPage>> PROVE PrintOwnPage'
  OBVIOUS
<1>0. PICK p, n : p = ownPage /\ n = edition
  OBVIOUS
<1>9. PaperInv(p, n)
  BY <1>0 DEF PrintOwnPage
<1>1. CASE PageServed
  <2>1. p.at = "sent" /\ ownPage' = [p EXCEPT !.at = "served", !.says = n] /\ edition' = n
    BY <1>0, <1>1, Zenon DEF PageServed
  <2> QED BY <1>9, <2>1, PaperReads, Zenon DEF PrintOwnPage
<1>2. CASE PageAnswered
  <2>1. /\ p.at = "served" /\ edition' = n
        /\ ownPage' = [p EXCEPT !.at = "none", !.answer = p.says,
                                !.outcome = "answered", !.rendered = FALSE]
    BY <1>0, <1>2, Zenon DEF PageAnswered, AtTheAnswer
  <2> QED BY <1>9, <2>1, PaperReads, Zenon DEF PrintOwnPage
<1>3. CASE PageReadFails
  <2>1. PICK outcome \in {"failed", "refused"} :
           ownPage' = [p EXCEPT !.at = "none", !.outcome = outcome, !.rendered = FALSE]
    BY <1>0, <1>3 DEF PageReadFails
  <2>2. edition' = n
    BY <1>0, <1>3 DEF PageReadFails
  <2> QED BY <1>9, <2>1, <2>2, PaperReads, Zenon DEF PrintOwnPage
<1>4. CASE PageRenders
  <2>1. PICK q : q = Rendered(p)
    OBVIOUS
  <2>2. /\ PaperInv(q, n) /\ q.at = p.at /\ q.outcome = p.outcome /\ q.answer = p.answer
        /\ q.reprint = p.reprint /\ (q.outcome # "refused" => q.shows = q.answer)
    <3>1. PICK shows, first : /\ shows = IF p.outcome = "refused" THEN -1 ELSE p.answer
                              /\ first = IF p.first = "unready" /\ p.answer # -1 THEN "gated" ELSE p.first
      OBVIOUS
    <3>2. q = [p EXCEPT !.rendered = TRUE, !.shows = shows, !.first = first]
      BY <2>1, <3>1 DEF Rendered
    <3>3. /\ shows \in Int /\ (shows # -1 => shows = p.answer)
          /\ first \in {"unready", "gated", "settling", "printed"}
      BY <1>9, <3>1 DEF PaperInv, OwnPages
    <3>4. q \in OwnPages
      BY <1>9, <3>2, <3>3 DEF PaperInv, OwnPages
    <3>5. /\ q.at = p.at /\ q.says = p.says /\ q.answer = p.answer /\ q.outcome = p.outcome
          /\ q.shows = shows /\ q.reprint = p.reprint /\ q.newest = p.newest
          /\ q.stalePaper = p.stalePaper
      BY <1>9, <3>2 DEF PaperInv, OwnPages
    <3>6. p.newest \in Int /\ p.answer \in Int /\ p.newest <= p.answer /\ p.answer <= p.answer
      BY <1>9 DEF PaperInv, NoOlderThanPrinted, OwnPages
    <3>7. PaperInv(q, n)
      BY <1>9, <3>3, <3>4, <3>5, <3>6 DEF PaperInv, NoOlderThanItsPress, NoOlderThanPrinted
    <3> QED BY <3>1, <3>5, <3>7
  <2>3. ownPage' = Reprinted(q) /\ edition' = n
    BY <1>0, <1>4, <2>1 DEF PageRenders
  <2>4. CASE q.reprint # -1 /\ q.at = "none" /\ q.outcome = "answered"
    <3>1. q.reprint \in Int /\ q.reprint <= q.shows
      BY <2>2, <2>4 DEF PaperInv, NoOlderThanItsPress, OwnPages
    <3>2. PaperInv(Prints(q, q.reprint), n)
      BY <2>2, <3>1, PagePrints, Zenon
    <3>3. PaperInv([Prints(q, q.reprint) EXCEPT !.reprint = -1], n)
      BY <3>2, PaperReads, Zenon
    <3> QED BY <2>3, <2>4, <3>3 DEF Reprinted, PrintOwnPage
  <2>5. CASE q.reprint # -1 /\ q.at = "none" /\ q.outcome # "answered"
    <3>1. ownPage' = [q EXCEPT !.reprint = -1]
      BY <2>3, <2>5 DEF Reprinted
    <3> QED BY <2>2, <2>3, <3>1, PaperReads, Zenon DEF PrintOwnPage
  <2>6. CASE q.reprint = -1 \/ q.at # "none"
    <3>1. ownPage' = q
      BY <2>3, <2>6 DEF Reprinted
    <3> QED BY <2>2, <2>3, <3>1 DEF PrintOwnPage
  <2> QED BY <2>4, <2>5, <2>6
<1>5. CASE PageLogoReady
  <2>1. ownPage' = [p EXCEPT !.first = "settling"] /\ edition' = n
    BY <1>0, <1>5, Zenon DEF PageLogoReady
  <2> QED BY <1>9, <2>1, PaperReads, Zenon DEF PrintOwnPage
<1>6. CASE FirstPrint
  <2>1. -1 \in Int /\ (p.shows # -1 => -1 <= p.shows)
    <3>1. /\ p.newest \in Int /\ p.shows \in Int /\ -1 <= p.newest
          /\ p.shows # -1 => p.newest <= p.shows
      BY <1>9, Zenon DEF PaperInv, NoOlderThanPrinted, OwnPages
    <3> QED BY ONLY <3>1
  <2>2. PaperInv(Prints(p, -1), n)
    BY <1>9, <2>1, PagePrints, Zenon
  <2>3. PaperInv([Prints(p, -1) EXCEPT !.first = "printed"], n)
    BY <2>2, PaperReads, Zenon
  <2> QED BY <1>0, <1>6, <2>3 DEF FirstPrint, PrintOwnPage
<1>7. CASE PageReprint \/ PageReadAgain
  <2>1. CASE PageReprint
    <3>1. ownPage' = [p EXCEPT !.reprint = n, !.at = "sent"] /\ edition' = n
      BY <1>0, <2>1, Zenon DEF PageReprint
    <3> QED BY <1>9, <3>1, PaperReads, Zenon DEF PrintOwnPage
  <2>2. CASE PageReadAgain
    <3>1. ownPage' = [p EXCEPT !.at = "sent"] /\ edition' = n
      BY <1>0, <2>2, Zenon DEF PageReadAgain
    <3> QED BY <1>9, <3>1, PaperReads, Zenon DEF PrintOwnPage
  <2> QED BY <1>7, <2>1, <2>2
<1>8. CASE Reissue \/ UNCHANGED <<edition, ownPage>>
  <2>1. ownPage' = p /\ (edition' = n \/ edition' = n + 1)
    BY <1>0, <1>8 DEF Reissue
  <2> QED BY <1>9, <2>1, PaperReads, Zenon DEF PrintOwnPage
<1> QED BY <1>1, <1>2, <1>3, <1>4, <1>5, <1>6, <1>7, <1>8 DEF OwnPageNext

(* The stages a press passes through while it is drawn, taken off, mounted. *)
LEMMA StagesOf ==
  ASSUME NEW job \in [receipt : Receipts, stage : Stages, visit : Nat, printedIn : Nat, prints : Nat]
  PROVE  /\ Unmounted(job) \in [receipt : Receipts, stage : Stages, visit : Nat, printedIn : Nat, prints : Nat]
         /\ Unmounted(job) = [job EXCEPT !.stage = Unmounted(job).stage]
         /\ Unmounted(job).stage \notin UnderWay
         /\ Unmounted(job).stage = "printed" <=> job.stage = "printed"
BY DEF Unmounted, Stages, UnderWay

LEMMA PrintRequestKeeps ==
  ASSUME PrintInPlace, NEW r \in Receipts, PrintRequest(r) PROVE PrintInPlace'
<1> DEFINE Job == [receipt : Receipts, stage : Stages, visit : Nat, printedIn : Nat, prints : Nat]
<1>1. PICK j \in Presses :
          /\ jobs' = [k \in Presses |->
                IF k = j THEN Mounted([NoPress EXCEPT !.receipt = r, !.visit = visit.number])
                ELSE IF k = current THEN Unmounted(jobs[k]) ELSE jobs[k]]
          /\ current' = j /\ preparing' = j
          /\ notice' = IF notice = 0 THEN j ELSE notice
  BY DEF PrintRequest
<1>2. PICK fresh : fresh = Mounted([NoPress EXCEPT !.receipt = r, !.visit = visit.number])
  OBVIOUS
<1>3. fresh \in Job /\ fresh.stage \in UnderWay /\ fresh.stage # "printed" /\ fresh.prints = 0
      /\ fresh.visit = visit.number
  <2>1. visit.number \in Nat
    BY DEF PrintInPlace, PrintTypeOK
  <2> QED BY <1>2, <2>1, PrintingAssumption DEF Mounted, NoPress, Stages, UnderWay
<1>4. jobs \in [Presses -> Job] /\ j # 0 /\ j \in Presses
  BY PrintingAssumption DEF PrintInPlace, PrintTypeOK, Presses
<1>5. \A k \in Presses :
        /\ k = j => jobs'[k] = fresh
        /\ k # j /\ k = current => jobs'[k] = Unmounted(jobs[k])
        /\ k # j /\ k # current => jobs'[k] = jobs[k]
  BY <1>1, <1>2
<1>6. \A k \in Presses : jobs'[k] \in Job
  BY <1>3, <1>4, <1>5, StagesOf
<1>7. visit' = visit /\ visit.mounted
  BY DEF PrintRequest
<1>8. PrintTypeOK'
  BY <1>1, <1>4, <1>6, <1>7 DEF PrintInPlace, PrintTypeOK
<1>9. OnlyTheLastUnderWay'
  <2>1. \A k \in Presses : jobs'[k].stage \in UnderWay => k = j
    BY <1>3, <1>4, <1>5, StagesOf DEF PrintInPlace, OnlyTheLastUnderWay
  <2>2. jobs'[j] = fresh
    BY <1>5
  <2> QED BY <1>1, <1>3, <1>4, <1>7, <2>1, <2>2 DEF OnlyTheLastUnderWay
<1>10. PrintedInItsVisit'
  <2> SUFFICES ASSUME NEW k \in Presses
               PROVE /\ jobs'[k].stage # "printed" => jobs'[k].prints = 0
                     /\ jobs'[k].stage = "printed" =>
                           jobs'[k].prints = 1 /\ jobs'[k].printedIn = jobs'[k].visit
    BY DEF PrintedInItsVisit
  <2>1. Unmounted(jobs[k]) = [jobs[k] EXCEPT !.stage = Unmounted(jobs[k]).stage]
        /\ (Unmounted(jobs[k]).stage = "printed" <=> jobs[k].stage = "printed")
        /\ jobs[k] \in Job
    BY <1>4, StagesOf
  <2> QED BY <1>3, <1>5, <2>1 DEF PrintInPlace, PrintedInItsVisit
<1> QED BY <1>8, <1>9, <1>10 DEF PrintInPlace

(* A step of the presses among stages short of the print keeps all this     *)
(* when none comes under way by it, and the spinner and the notice go when, *)
(* and only when, the last press is under way no longer.                    *)
LEMMA StageStep ==
  ASSUME PrintInPlace, UNCHANGED <<visit, current>>, jobs' = [j \in Presses |-> jobs'[j]],
         \A j \in Presses :
            jobs'[j] # jobs[j] =>
               \E stage \in Stages \ {"printed"} :
                  /\ jobs'[j] = [jobs[j] EXCEPT !.stage = stage]
                  /\ jobs[j].stage # "printed"
                  /\ stage \in UnderWay => jobs[j].stage \in UnderWay,
         \/ /\ UNCHANGED <<preparing, notice>>
            /\ current # 0 => (jobs'[current].stage \in UnderWay <=> jobs[current].stage \in UnderWay)
         \/ /\ preparing' = 0 /\ notice' = 0
            /\ current # 0 => jobs'[current].stage \notin UnderWay
  PROVE  PrintInPlace'
<1> DEFINE Job == [receipt : Receipts, stage : Stages, visit : Nat, printedIn : Nat, prints : Nat]
<1>1. jobs \in [Presses -> Job] /\ current \in Presses \cup {0}
  BY DEF PrintInPlace, PrintTypeOK
<1>2. \A j \in Presses :
        /\ jobs'[j] \in Job /\ jobs'[j].visit = jobs[j].visit
        /\ jobs'[j].stage \in UnderWay => jobs[j].stage \in UnderWay
        /\ jobs'[j].stage = "printed" <=> jobs[j].stage = "printed"
        /\ jobs'[j].prints = jobs[j].prints /\ jobs'[j].printedIn = jobs[j].printedIn
  <2> SUFFICES ASSUME NEW j \in Presses
               PROVE /\ jobs'[j] \in Job /\ jobs'[j].visit = jobs[j].visit
                     /\ jobs'[j].stage \in UnderWay => jobs[j].stage \in UnderWay
                     /\ jobs'[j].stage = "printed" <=> jobs[j].stage = "printed"
                     /\ jobs'[j].prints = jobs[j].prints /\ jobs'[j].printedIn = jobs[j].printedIn
    OBVIOUS
  <2>1. jobs[j] \in Job
    BY <1>1
  <2>2. CASE jobs'[j] = jobs[j]
    BY <2>1, <2>2
  <2>3. CASE jobs'[j] # jobs[j]
    <3>1. PICK stage \in Stages \ {"printed"} :
                  /\ jobs'[j] = [jobs[j] EXCEPT !.stage = stage]
                  /\ jobs[j].stage # "printed"
                  /\ stage \in UnderWay => jobs[j].stage \in UnderWay
      BY <2>3
    <3> QED BY <2>1, <3>1
  <2> QED BY <2>2, <2>3
<1>3. PrintTypeOK'
  <2>1. jobs' \in [Presses -> Job]
    BY <1>2
  <2> QED BY <2>1 DEF PrintInPlace, PrintTypeOK
<1>4. OnlyTheLastUnderWay'
  <2>1. 0 \notin Presses
    BY PrintingAssumption DEF Presses
  <2> QED BY <1>1, <1>2, <2>1 DEF PrintInPlace, OnlyTheLastUnderWay
<1>5. PrintedInItsVisit'
  BY <1>2 DEF PrintInPlace, PrintedInItsVisit
<1> QED BY <1>3, <1>4, <1>5 DEF PrintInPlace

LEMMA CodeArrivesKeeps == PrintInPlace /\ CodeArrives => PrintInPlace'
<1> SUFFICES ASSUME PrintInPlace, CodeArrives PROVE PrintInPlace'
  OBVIOUS
<1>1. /\ UNCHANGED <<visit, current, preparing, notice>>
      /\ jobs' = [j \in Presses |->
            IF jobs[j].stage = "loading" THEN [jobs[j] EXCEPT !.stage = "reading"] ELSE jobs[j]]
  BY DEF CodeArrives, pressed
<1>2. \A j \in Presses :
          jobs'[j] # jobs[j] =>
             /\ jobs[j].stage = "loading" /\ jobs'[j] = [jobs[j] EXCEPT !.stage = "reading"]
  BY <1>1
<1>3. \A j \in Presses : jobs'[j].stage \in UnderWay <=> jobs[j].stage \in UnderWay
  BY <1>1 DEF PrintInPlace, PrintTypeOK, UnderWay
<1>4. current \in Presses \cup {0}
  BY DEF PrintInPlace, PrintTypeOK
<1> QED BY <1>1, <1>2, <1>3, <1>4, StageStep DEF Stages, UnderWay

LEMMA ReadArrivesKeeps ==
  ASSUME PrintInPlace, NEW r \in Receipts, ReadArrives(r) PROVE PrintInPlace'
<1>1. /\ UNCHANGED <<visit, current, preparing, notice>>
      /\ jobs' = [j \in Presses |->
            IF Waits(j, r) THEN [jobs[j] EXCEPT !.stage = "drawn"] ELSE jobs[j]]
  BY DEF ReadArrives, pressed
<1>2. \A j \in Presses :
          jobs'[j] # jobs[j] =>
             /\ jobs[j].stage = "reading" /\ jobs'[j] = [jobs[j] EXCEPT !.stage = "drawn"]
  BY <1>1 DEF Waits
<1>3. \A j \in Presses : jobs'[j].stage \in UnderWay <=> jobs[j].stage \in UnderWay
  BY <1>1 DEF PrintInPlace, PrintTypeOK, UnderWay, Waits
<1>4. current \in Presses \cup {0}
  BY DEF PrintInPlace, PrintTypeOK
<1> QED BY <1>1, <1>2, <1>3, <1>4, StageStep DEF Stages, UnderWay

LEMMA ReadsFailKeeps ==
  ASSUME PrintInPlace, NEW R, ReadsFail(R), UNCHANGED visit PROVE PrintInPlace'
<1>1. /\ UNCHANGED <<visit, current>>
      /\ jobs' = [j \in Presses |->
            IF \E r \in R : Waits(j, r) THEN [jobs[j] EXCEPT !.stage = "failed"] ELSE jobs[j]]
  BY DEF ReadsFail
<1>2. \A j \in Presses :
          jobs'[j] # jobs[j] =>
             /\ jobs[j].stage = "reading" /\ jobs'[j] = [jobs[j] EXCEPT !.stage = "failed"]
  BY <1>1 DEF Waits
<1>3. current \in Presses \cup {0} /\ 0 \notin Presses
  BY PrintingAssumption DEF PrintInPlace, PrintTypeOK, Presses
<1>4. \/ /\ UNCHANGED <<preparing, notice>>
         /\ current # 0 => (jobs'[current].stage \in UnderWay <=> jobs[current].stage \in UnderWay)
      \/ /\ preparing' = 0 /\ notice' = 0
         /\ current # 0 => jobs'[current].stage \notin UnderWay
  <2>1. CASE \E r \in R : current # 0 /\ Waits(current, r)
    <3>1. jobs[current].stage \in UnderWay /\ preparing = current
      BY <2>1, <1>3 DEF PrintInPlace, OnlyTheLastUnderWay, Waits, UnderWay
    <3>2. preparing' = 0 /\ notice' = 0
      BY <2>1, <3>1 DEF ReadsFail, FinishPrintJob, Finishes
    <3>3. jobs'[current].stage = "failed"
      BY <1>1, <1>3, <2>1 DEF PrintInPlace, PrintTypeOK
    <3> QED BY <3>2, <3>3 DEF UnderWay
  <2>2. CASE ~ \E r \in R : current # 0 /\ Waits(current, r)
    <3>1. UNCHANGED <<preparing, notice>>
      BY <2>2 DEF ReadsFail
    <3>2. current # 0 => jobs'[current] = jobs[current]
      BY <1>1, <1>3, <2>2
    <3> QED BY <3>1, <3>2
  <2> QED BY <2>1, <2>2
<1> QED BY <1>1, <1>2, <1>4, StageStep DEF Stages, UnderWay

LEMMA PaperReadyKeeps ==
  ASSUME PrintInPlace, NEW j \in Presses, PaperReady(j) PROVE PrintInPlace'
<1>1. /\ UNCHANGED <<visit, current, preparing, notice>>
      /\ jobs' = [jobs EXCEPT ![j].stage = "settling"] /\ jobs[j].stage = "drawn"
  BY DEF PaperReady, pressed
<1>2. jobs \in [Presses -> [receipt : Receipts, stage : Stages, visit : Nat,
                             printedIn : Nat, prints : Nat]]
      /\ current \in Presses \cup {0}
  BY DEF PrintInPlace, PrintTypeOK
<1>3. \A k \in Presses :
          /\ k # j => jobs'[k] = jobs[k]
          /\ k = j => jobs'[k] = [jobs[k] EXCEPT !.stage = "settling"] /\ jobs'[k].stage = "settling"
  BY <1>1, <1>2
<1>4. jobs' = [k \in Presses |-> jobs'[k]]
  BY <1>1, <1>2
<1> QED BY <1>1, <1>2, <1>3, <1>4, StageStep DEF Stages, UnderWay

LEMMA PrintFrameKeeps ==
  ASSUME PrintInPlace, NEW j \in Presses, PrintFrame(j) PROVE PrintInPlace'
<1> DEFINE Job == [receipt : Receipts, stage : Stages, visit : Nat, printedIn : Nat, prints : Nat]
<1>1. /\ UNCHANGED <<visit, current>> /\ jobs[j].stage \in {"settling", "adrift"}
      /\ preparing' = IF preparing = j THEN 0 ELSE preparing
      /\ notice' = IF preparing = j THEN 0 ELSE notice
  BY DEF PrintFrame, FinishPrintJob, Finishes
<1>2. jobs \in [Presses -> Job] /\ current \in Presses \cup {0} /\ visit.number \in Nat
      /\ jobs[j] \in Job /\ 0 \notin Presses
  <2>1. jobs \in [Presses -> Job] /\ current \in Presses \cup {0} /\ visit.number \in Nat
    BY DEF PrintInPlace, PrintTypeOK
  <2>2. 0 \notin Presses
    BY PrintingAssumption DEF Presses
  <2> QED BY <2>1, <2>2
<1>3. CASE jobs[j].stage = "adrift"
  <2>1. jobs' = [jobs EXCEPT ![j] = [jobs[j] EXCEPT !.stage = "dropped"]]
    BY <1>2, <1>3 DEF PrintFrame, FramePrinted
  <2>2. \A k \in Presses :
          /\ k # j => jobs'[k] = jobs[k]
          /\ k = j => jobs'[k] = [jobs[k] EXCEPT !.stage = "dropped"] /\ jobs'[k].stage = "dropped"
    BY <1>2, <2>1
  <2>3. jobs' = [k \in Presses |-> jobs'[k]]
    BY <1>2, <2>1
  <2>4. preparing # j
    BY <1>2, <1>3 DEF PrintInPlace, OnlyTheLastUnderWay, UnderWay
  <2>5. UNCHANGED <<preparing, notice>>
    BY <1>1, <2>4
  <2>6. current # 0 => (jobs'[current].stage \in UnderWay <=> jobs[current].stage \in UnderWay)
    BY <1>2, <1>3, <2>2 DEF UnderWay
  <2> QED BY <1>1, <1>3, <2>2, <2>3, <2>5, <2>6, StageStep DEF Stages, UnderWay
<1>4. CASE jobs[j].stage = "settling"
  <2>3. current = j /\ preparing = j /\ jobs[j].visit = visit.number /\ jobs[j].prints = 0
    BY <1>2, <1>4 DEF PrintInPlace, OnlyTheLastUnderWay, PrintedInItsVisit, UnderWay
  <2>1. PICK old, n : old = jobs[j] /\ n = visit.number
    OBVIOUS
  <2>2. old \in Job /\ n \in Nat /\ old.prints = 0 /\ old.visit = n /\ old.stage = "settling"
    BY <1>2, <1>4, <2>1, <2>3
  <2> DEFINE job == [old EXCEPT !.stage = "printed", !.prints = old.prints + 1, !.printedIn = n]
  <2>4. job \in Job /\ job.stage = "printed" /\ job.prints = 1 /\ job.visit = visit.number
        /\ job.printedIn = visit.number
    <3>1. PICK m : m = old.prints + 1
      OBVIOUS
    <3>2. m = 1 /\ job = [old EXCEPT !.stage = "printed", !.prints = m, !.printedIn = n]
      BY <2>2, <3>1
    <3>3. m \in Nat /\ "printed" \in Stages
      BY <3>2 DEF Stages
    <3> HIDE DEF job
    <3>4. job \in Job /\ job.stage = "printed" /\ job.prints = m /\ job.visit = old.visit
          /\ job.printedIn = n
      BY <2>2, <3>2, <3>3
    <3> QED BY <2>1, <2>2, <3>2, <3>4
  <2>5. jobs' \in [Presses -> Job] /\ jobs'[j] = job /\ \A k \in Presses : k # j => jobs'[k] = jobs[k]
    <3>2. jobs'[j] = job
        <4>1. jobs'[j] = FramePrinted(jobs[j])
        BY <1>2 DEF PrintFrame
      <4> QED BY <2>1, <2>2, <4>1 DEF FramePrinted
    <3>3. \A k \in Presses : k # j => jobs'[k] = jobs[k]
      BY <1>2 DEF PrintFrame
    <3>4. jobs' = [k \in Presses |-> jobs'[k]]
      BY <1>2 DEF PrintFrame
    <3> HIDE DEF job
    <3> QED BY <1>2, <2>4, <3>2, <3>3, <3>4
  <2> HIDE DEF job
  <2>6. preparing' = 0 /\ notice' = 0
    BY <1>1, <2>3
  <2>7. PrintTypeOK'
    BY <1>1, <2>5, <2>6 DEF PrintInPlace, PrintTypeOK
  <2>8. OnlyTheLastUnderWay'
    BY <1>1, <2>3, <2>4, <2>5, <2>6 DEF PrintInPlace, OnlyTheLastUnderWay, UnderWay
  <2>9. PrintedInItsVisit'
    BY <2>4, <2>5 DEF PrintInPlace, PrintedInItsVisit
  <2> QED BY <2>7, <2>8, <2>9 DEF PrintInPlace
<1> QED BY <1>1, <1>3, <1>4

LEMMA LeaveLayoutKeeps == PrintInPlace /\ LeaveLayout => PrintInPlace'
<1> SUFFICES ASSUME PrintInPlace, LeaveLayout PROVE PrintInPlace'
  OBVIOUS
<1> DEFINE Job == [receipt : Receipts, stage : Stages, visit : Nat, printedIn : Nat, prints : Nat]
<1>1. /\ visit' = [visit EXCEPT !.mounted = FALSE] /\ current' = 0 /\ preparing' = 0 /\ notice' = 0
      /\ jobs' = [j \in Presses |-> IF j = current THEN Unmounted(jobs[j]) ELSE jobs[j]]
  BY DEF LeaveLayout, ClearPrintJob
<1>2. jobs \in [Presses -> Job] /\ visit \in [number : Nat, mounted : BOOLEAN]
  BY DEF PrintInPlace, PrintTypeOK
<1>3. \A j \in Presses :
        /\ jobs'[j] \in Job /\ jobs'[j].stage \notin UnderWay
        /\ jobs'[j].stage = "printed" <=> jobs[j].stage = "printed"
        /\ jobs'[j].prints = jobs[j].prints /\ jobs'[j].printedIn = jobs[j].printedIn
        /\ jobs'[j].visit = jobs[j].visit
  <2> SUFFICES ASSUME NEW j \in Presses
               PROVE /\ jobs'[j] \in Job /\ jobs'[j].stage \notin UnderWay
                     /\ jobs'[j].stage = "printed" <=> jobs[j].stage = "printed"
                     /\ jobs'[j].prints = jobs[j].prints /\ jobs'[j].printedIn = jobs[j].printedIn
                     /\ jobs'[j].visit = jobs[j].visit
    OBVIOUS
  <2>1. jobs[j] \in Job
    BY <1>2
  <2>2. CASE j = current
    <3>1. jobs'[j] = Unmounted(jobs[j])
      BY <1>1, <2>2
    <3>2. PICK stage : stage = Unmounted(jobs[j]).stage
      OBVIOUS
    <3>3. jobs'[j] = [jobs[j] EXCEPT !.stage = stage] /\ stage \notin UnderWay /\ jobs'[j] \in Job
          /\ (stage = "printed" <=> jobs[j].stage = "printed")
      BY <2>1, <3>1, <3>2, StagesOf
    <3> QED BY <2>1, <3>3
  <2>3. CASE j # current
    BY <1>1, <2>1, <2>3 DEF PrintInPlace, OnlyTheLastUnderWay
  <2> QED BY <2>2, <2>3
<1>4. PrintTypeOK'
  <2>1. jobs' \in [Presses -> Job]
    BY <1>1, <1>3
  <2>2. visit' \in [number : Nat, mounted : BOOLEAN]
    BY <1>1, <1>2
  <2> QED BY <1>1, <2>1, <2>2 DEF PrintTypeOK
<1>5. OnlyTheLastUnderWay'
  BY <1>1, <1>3 DEF OnlyTheLastUnderWay
<1>6. PrintedInItsVisit'
  BY <1>3 DEF PrintInPlace, PrintedInItsVisit
<1> QED BY <1>4, <1>5, <1>6 DEF PrintInPlace

LEMMA EnterLayoutKeeps == PrintInPlace /\ EnterLayout => PrintInPlace'
<1> SUFFICES ASSUME PrintInPlace, EnterLayout PROVE PrintInPlace'
  OBVIOUS
<1>1. current = 0 /\ 0 \notin Presses
  BY PrintingAssumption DEF EnterLayout, PrintInPlace, OnlyTheLastUnderWay, Presses
<1>2. jobs' = jobs
  <2>1. jobs' = [j \in Presses |-> IF j = current THEN Mounted(jobs[j]) ELSE jobs[j]]
    BY DEF EnterLayout
  <2>2. jobs = [j \in Presses |-> jobs[j]]
    BY DEF PrintInPlace, PrintTypeOK
  <2> QED BY <1>1, <2>1, <2>2
<1>3. visit' \in [number : Nat, mounted : BOOLEAN]
  BY DEF EnterLayout, PrintInPlace, PrintTypeOK
<1>4. UNCHANGED <<current, preparing, notice>>
  BY DEF EnterLayout, pressed
<1> QED BY <1>1, <1>2, <1>3, <1>4
     DEF PrintInPlace, PrintTypeOK, OnlyTheLastUnderWay, PrintedInItsVisit

LEMMA PrintingStep ==
  PrintInPlace /\ PrintOwnPage /\ [InPlaceNext \/ OwnPageNext]_printVars
     => PrintInPlace' /\ PrintOwnPage'
<1> SUFFICES ASSUME PrintInPlace, PrintOwnPage, [InPlaceNext \/ OwnPageNext]_printVars
             PROVE PrintInPlace' /\ PrintOwnPage'
  OBVIOUS
<1>1. CASE InPlaceNext
  <2>1. PrintInPlace'
    <3>1. ASSUME NEW r \in Receipts, PrintRequest(r) \/ ReadArrives(r) \/ ReadFails(r)
          PROVE PrintInPlace'
      <4>1. CASE ReadFails(r)
        BY <4>1, ReadsFailKeeps DEF ReadFails
      <4> QED BY <3>1, <4>1, PrintRequestKeeps, ReadArrivesKeeps
    <3>2. CASE EndSession
      BY <3>2, ReadsFailKeeps, SMTT(30) DEF EndSession
    <3> QED BY <1>1, <3>1, <3>2, PaperReadyKeeps, PrintFrameKeeps, CodeArrivesKeeps,
               LeaveLayoutKeeps, EnterLayoutKeeps DEF InPlaceNext
  <2>2. UNCHANGED <<edition, ownPage>>
    BY <1>1 DEF InPlaceNext, PrintRequest, ReadArrives, ReadFails, PaperReady, PrintFrame,
                CodeArrives, EndSession, LeaveLayout, EnterLayout
  <2> QED BY <2>1, <2>2, OwnPageStep
<1>2. CASE OwnPageNext \/ UNCHANGED printVars
  <2>1. UNCHANGED <<visit, jobs, current, preparing, notice>>
    BY <1>2 DEF OwnPageNext, PageServed, PageAnswered, PageReadFails, PageRenders, PageLogoReady,
                FirstPrint, PageReprint, PageReadAgain, Reissue, inPlace, pressed, printVars
  <2>2. PrintInPlace'
    BY <2>1 DEF PrintInPlace, PrintTypeOK, OnlyTheLastUnderWay, PrintedInItsVisit
  <2>3. OwnPageNext \/ UNCHANGED <<edition, ownPage>>
    BY <1>2 DEF printVars
  <2> QED BY <2>2, <2>3, OwnPageStep
<1> QED BY <1>1, <1>2

(* Every press prints at most once, in its own visit, and only the last is  *)
(* under way, for any number of presses, receipts and visits; on a receipt's*)
(* own page, however long its own paper waits, a press's paper is no older  *)
(* than the press and no paper older than one before it.                    *)
THEOREM PressesPrintOnce == PrintingSpec => []EachPressPrintsOnce
<1>1. PrintInPlace /\ PrintOwnPage => EachPressPrintsOnce
  BY DEF PrintInPlace, PrintTypeOK, OnlyTheLastUnderWay, PrintedInItsVisit, PrintOwnPage,
         PaperInv, EachPressPrintsOnce
<1> QED BY <1>1, PrintingInitially, PrintingStep, PTL DEF PrintingSpec
-----------------------------------------------------------------------------
(* From the stop of the API to the migration nothing is written, so the     *)
(* first dump is of the database the migration finds; and a migration that  *)
(* went wrong leaves that dump behind those taken since.                    *)
DumpsOfAnySize == [data : Nat, broken : BOOLEAN, whole : BOOLEAN]
DeployTypes ==
    /\ db \in [data : Nat, broken : BOOLEAN] /\ dumps \in Seq(DumpsOfAnySize)
    /\ halfDone \in [data : Nat, dumps : Nat] /\ killed \in BOOLEAN
FirstDumpIsOfNow ==
    /\ deployStep \in {"dump", "migrate"} => running = 0
    /\ deployStep = "migrate" => dumps # << >> /\ dumps[1] = DumpOf(TRUE)
DumpBehindLater ==
    db.broken /\ halfDone.dumps < Keep =>
        /\ halfDone.dumps + 1 \in 1 .. Len(dumps)
        /\ dumps[halfDone.dumps + 1] = [data |-> halfDone.data, broken |-> FALSE, whole |-> TRUE]

(* The version a deploy goes back to passed; .env names the new one from    *)
(* the checkout to the health check or the rollback.                        *)
BackToPassed ==
    ~killed =>
        /\ {prevSha, original, previousFile} \subseteq passed \cup {0}
        /\ deployStep \in {"idle", "checkout", "restart"} => appVersion \in passed \cup {0}
        /\ deployStep \in {"pull", "stop", "dump", "migrate", "up", "health"} => appVersion = target
DumpsInv  == DeployTypes /\ FirstDumpIsOfNow /\ DumpBehindLater
DeployInv == DumpsInv /\ BackToPassed

LEMMA DeployInitially == DeployInit => DeployInv
<1> SUFFICES ASSUME DeployInit PROVE DeployInv
  OBVIOUS
<1>1. DeployTypes
  <2>1. db = [data |-> 0, broken |-> FALSE] /\ halfDone = [data |-> 0, dumps |-> 0]
        /\ dumps = << >> /\ killed = FALSE
    BY DEF DeployInit
  <2>2. db \in [data : Nat, broken : BOOLEAN]
    BY <2>1
  <2>3. halfDone \in [data : Nat, dumps : Nat]
    BY <2>1
  <2>4. dumps \in Seq(DumpsOfAnySize)
    BY <2>1
  <2> QED BY <2>1, <2>2, <2>3, <2>4 DEF DeployTypes
<1>2. FirstDumpIsOfNow /\ DumpBehindLater
  BY DEF DeployInit, FirstDumpIsOfNow, DumpBehindLater
<1>3. BackToPassed
  BY DEF DeployInit, BackToPassed
<1> QED BY <1>1, <1>2, <1>3 DEF DeployInv, DumpsInv

(* A file in front: what was at a place is one behind, unless it is pruned. *)
LEMMA DumpInFront ==
  ASSUME NEW file \in DumpsOfAnySize, NEW held \in Seq(DumpsOfAnySize)
  PROVE  /\ <<file>> \o held \in Seq(DumpsOfAnySize)
         /\ Len(<<file>> \o held) = Len(held) + 1 /\ (<<file>> \o held)[1] = file
         /\ \A n \in 1 .. Len(held) : (<<file>> \o held)[n + 1] = held[n]
OBVIOUS

LEMMA NewestKept ==
  ASSUME NEW held \in Seq(DumpsOfAnySize)
  PROVE  /\ Newest(held) \in Seq(DumpsOfAnySize)
         /\ \A n \in 1 .. Len(held) : n <= Keep =>
               n \in 1 .. Len(Newest(held)) /\ Newest(held)[n] = held[n]
<1>1. PICK last : last = IF Len(held) < Keep THEN Len(held) ELSE Keep
  OBVIOUS
<1>2. Newest(held) = SubSeq(held, 1, last) /\ Keep \in Nat \ {0} /\ Len(held) \in Nat
  BY <1>1, DeployAssumption DEF Newest
<1>3. last \in 0 .. Len(held)
  BY <1>1, <1>2
<1>4. Len(SubSeq(held, 1, last)) = last /\ SubSeq(held, 1, last) \in Seq(DumpsOfAnySize)
      /\ \A n \in 1 .. last : SubSeq(held, 1, last)[n] = held[n]
  BY <1>3
<1> QED BY <1>1, <1>2, <1>3, <1>4

LEMMA DumpKeeps == DumpsInv /\ DumpDatabase => DumpsInv'
<1> SUFFICES ASSUME DumpsInv, DumpDatabase PROVE DumpsInv'
  OBVIOUS
<1>1. /\ db \in [data : Nat, broken : BOOLEAN] /\ dumps \in Seq(DumpsOfAnySize)
      /\ halfDone \in [data : Nat, dumps : Nat] /\ killed \in BOOLEAN /\ running = 0
      /\ Keep \in Nat \ {0}
  BY DeployAssumption DEF DumpsInv, DeployTypes, FirstDumpIsOfNow, DumpDatabase
<1>2. UNCHANGED <<running, db, killed>>
  BY DEF DumpDatabase, recorded
<1>3. ASSUME CountDump, dumps' \in Seq(DumpsOfAnySize), NEW file \in DumpsOfAnySize,
             \A n \in 1 .. Len(dumps) + 1 : n <= Keep =>
                n \in 1 .. Len(dumps') /\ dumps'[n] = (<<file>> \o dumps)[n],
             deployStep' = "migrate" => file = DumpOf(TRUE),
             deployStep' # "dump"
      PROVE DumpsInv'
  <2>1. halfDone' = IF db.broken THEN [halfDone EXCEPT !.dumps = halfDone.dumps + 1] ELSE halfDone
    BY <1>3 DEF CountDump
  <2>2. DeployTypes'
    BY <1>1, <1>2, <1>3, <2>1 DEF DeployTypes
  <2>3. FirstDumpIsOfNow'
    <3>1. dumps' # << >> /\ dumps'[1] = file
      <4>1. 1 \in 1 .. Len(dumps')  /\ dumps'[1] = (<<file>> \o dumps)[1]
        BY <1>1, <1>3
      <4> QED BY <1>1, <1>3, <4>1, DumpInFront
    <3> QED BY <1>1, <1>2, <1>3, <3>1 DEF FirstDumpIsOfNow, DumpOf
  <2>4. DumpBehindLater'
    <3> SUFFICES ASSUME db.broken, halfDone'.dumps < Keep
                 PROVE /\ halfDone'.dumps + 1 \in 1 .. Len(dumps')
                       /\ dumps'[halfDone'.dumps + 1]
                             = [data |-> halfDone'.data, broken |-> FALSE, whole |-> TRUE]
      BY <1>2 DEF DumpBehindLater
    <3>1. PICK h \in Nat : h = halfDone.dumps
      BY <1>1
    <3>2. halfDone'.dumps = h + 1 /\ halfDone'.data = halfDone.data
      BY <1>1, <2>1, <3>1
    <3>3. h + 1 \in 1 .. Len(dumps)
          /\ dumps[h + 1] = [data |-> halfDone.data, broken |-> FALSE, whole |-> TRUE]
      BY <1>1, <3>1, <3>2 DEF DumpsInv, DumpBehindLater
    <3>4. (<<file>> \o dumps)[h + 1 + 1] = dumps[h + 1]
      BY <1>1, <1>3, <3>3, DumpInFront
    <3>5. h + 1 + 1 \in 1 .. Len(dumps) + 1 /\ h + 1 + 1 <= Keep
      BY <1>1, <3>2, <3>3
    <3> QED BY <1>3, <3>2, <3>3, <3>4, <3>5
  <2> QED BY <2>2, <2>3, <2>4 DEF DumpsInv
<1>4. CASE dumps' = Newest(<<DumpOf(TRUE)>> \o dumps) /\ CountDump /\ Goto("migrate")
  <2>1. PICK file : file = DumpOf(TRUE)
    OBVIOUS
  <2>2. file \in DumpsOfAnySize
    BY <1>1, <2>1 DEF DumpOf, DumpsOfAnySize
  <2>3. /\ dumps' \in Seq(DumpsOfAnySize)
        /\ \A n \in 1 .. Len(dumps) + 1 : n <= Keep =>
                n \in 1 .. Len(dumps') /\ dumps'[n] = (<<file>> \o dumps)[n]
    <3>1. PICK held : held = <<file>> \o dumps
      OBVIOUS
    <3>2. held \in Seq(DumpsOfAnySize) /\ Len(held) = Len(dumps) + 1
      BY <1>1, <2>2, <3>1, DumpInFront
    <3> QED BY <1>4, <2>1, <3>1, <3>2, NewestKept
  <2> QED BY <1>3, <1>4, <2>1, <2>2, <2>3 DEF Goto
<1>5. CASE dumps' = <<DumpOf(FALSE)>> \o dumps /\ CountDump /\ Goto("rollback")
  <2>1. PICK file : file = DumpOf(FALSE)
    OBVIOUS
  <2>2. file \in DumpsOfAnySize
    BY <1>1, <2>1 DEF DumpOf, DumpsOfAnySize
  <2>3. dumps' \in Seq(DumpsOfAnySize) /\ Len(dumps') = Len(dumps) + 1
    BY <1>1, <1>5, <2>1, <2>2, DumpInFront
  <2> QED BY <1>3, <1>5, <2>1, <2>2, <2>3 DEF Goto
<1>6. CASE UNCHANGED <<dumps, halfDone>> /\ Goto("rollback")
  BY <1>1, <1>2, <1>6 DEF DumpsInv, DeployTypes, FirstDumpIsOfNow, DumpBehindLater, Goto
<1> QED BY <1>4, <1>5, <1>6 DEF DumpDatabase

LEMMA MigrateKeeps == DumpsInv /\ Migrate => DumpsInv'
<1> SUFFICES ASSUME DumpsInv, Migrate PROVE DumpsInv'
  OBVIOUS
<1>1. /\ db \in [data : Nat, broken : BOOLEAN] /\ dumps \in Seq(DumpsOfAnySize)
      /\ halfDone \in [data : Nat, dumps : Nat] /\ dumps # << >> /\ dumps[1] = DumpOf(TRUE)
      /\ UNCHANGED <<running, dumps, killed>> /\ deployStep' \in {"up", "rollback"}
  BY DEF DumpsInv, DeployTypes, FirstDumpIsOfNow, Migrate, Goto, recorded
<1>2. CASE UNCHANGED <<db, halfDone>>
  BY <1>1, <1>2 DEF DumpsInv, DeployTypes, FirstDumpIsOfNow, DumpBehindLater
<1>3. CASE /\ db' = [db EXCEPT !.broken = TRUE]
           /\ halfDone' = IF db.broken THEN halfDone ELSE [data |-> db.data, dumps |-> 0]
  <2>1. DeployTypes' /\ FirstDumpIsOfNow'
    BY <1>1, <1>3 DEF DumpsInv, DeployTypes, FirstDumpIsOfNow
  <2>2. DumpBehindLater'
    <3>1. CASE db.broken
      BY <1>1, <1>3, <3>1 DEF DumpsInv, DumpBehindLater
    <3>2. CASE ~db.broken
      <4>1. dumps[1] = [data |-> db.data, broken |-> FALSE, whole |-> TRUE] /\ 1 \in 1 .. Len(dumps)
        <5>1. db.broken = FALSE
          BY <1>1, <3>2
        <5>2. 1 \in 1 .. Len(dumps)
          BY <1>1
        <5>3. dumps[1] = [data |-> db.data, broken |-> db.broken, whole |-> TRUE]
          BY <1>1 DEF DumpOf
        <5> QED BY <5>1, <5>2, <5>3, Zenon
      <4>2. halfDone'.dumps + 1 = 1 /\ halfDone'.data = db.data
        BY <1>3, <3>2
      <4> QED BY <1>1, <4>1, <4>2 DEF DumpBehindLater
    <3> QED BY <3>1, <3>2
  <2> QED BY <2>1, <2>2 DEF DumpsInv
<1> QED BY <1>2, <1>3 DEF Migrate

LEMMA DumpsStep == DumpsInv /\ [DeployNext]_deployVars => DumpsInv'
<1> SUFFICES ASSUME DumpsInv, [DeployNext]_deployVars PROVE DumpsInv'
  OBVIOUS
<1> USE DEF DumpsInv, DeployTypes, FirstDumpIsOfNow, DumpBehindLater, Goto, script, recorded
<1>1. ASSUME NEW v \in Versions, StartDeploy(v) PROVE DumpsInv'
  BY <1>1 DEF StartDeploy
<1>2. CASE Checkout \/ Pull \/ Up \/ Healthy
  BY <1>2 DEF Checkout, Pull, Up, Healthy
<1>3. CASE StopApi
  BY <1>3 DEF StopApi
<1>4. CASE CommandFails \/ Rollback \/ Restart \/ Kill
  BY <1>4 DEF CommandFails, Rollback, Restart, Kill
<1>5. CASE UsersWrite
  <2>1. db' \in [data : Nat, broken : BOOLEAN] /\ db'.broken = db.broken
        /\ UNCHANGED <<dumps, halfDone, killed, deployStep, running>> /\ running # 0
    BY <1>5 DEF UsersWrite
  <2> QED BY <2>1
<1>6. CASE UndoMigration
  <2>1. /\ db' \in [data : Nat, broken : BOOLEAN] /\ ~db'.broken
        /\ halfDone' \in [data : Nat, dumps : Nat] /\ deployStep' = "idle"
        /\ UNCHANGED <<dumps, killed, running>>
    BY <1>6 DEF UndoMigration
  <2> QED BY <2>1
<1>7. CASE UNCHANGED deployVars
  BY <1>7 DEF deployVars, DumpOf
<1> QED BY <1>1, <1>2, <1>3, <1>4, <1>5, <1>6, <1>7, DumpKeeps, MigrateKeeps DEF DeployNext

LEMMA VersionsStep == BackToPassed /\ [DeployNext]_deployVars => BackToPassed'
<1> SUFFICES ASSUME BackToPassed, [DeployNext]_deployVars PROVE BackToPassed'
  OBVIOUS
<1> USE DEF BackToPassed, Goto, script, recorded
<1>1. ASSUME NEW v \in Versions, StartDeploy(v) PROVE BackToPassed'
  BY <1>1 DEF StartDeploy
<1>2. CASE Checkout \/ Pull \/ StopApi \/ DumpDatabase \/ Migrate \/ Up
  BY <1>2 DEF Checkout, Pull, StopApi, DumpDatabase, Migrate, Up
<1>3. CASE Healthy
  BY <1>3 DEF Healthy
<1>4. CASE CommandFails \/ Rollback \/ Restart
  BY <1>4 DEF CommandFails, Rollback, Restart, VersionBack
<1>5. CASE Kill \/ UsersWrite \/ UndoMigration
  BY <1>5 DEF Kill, UsersWrite, UndoMigration
<1>6. CASE UNCHANGED deployVars
  BY <1>6 DEF deployVars
<1> QED BY <1>1, <1>2, <1>3, <1>4, <1>5, <1>6 DEF DeployNext

(* Wherever a deploy stops, a migration that went wrong can be undone       *)
(* without loss until as many dumps are taken as are kept, and the versions *)
(* named for going back passed; for any versions, and any number of dumps   *)
(* kept, of deploys and of writes.                                          *)
THEOREM AlwaysAWayBack == DeploySpec => []WayBackStays
<1>1. DeployInv => WayBackStays
  BY DEF DeployInv, DumpsInv, DeployTypes, DumpBehindLater, BackToPassed, WayBackStays,
         UndoneWithoutLoss, RollbackTargetsPassed
<1>2. DeployInv /\ [DeployNext]_deployVars => DeployInv'
  BY DumpsStep, VersionsStep DEF DeployInv
<1> QED BY <1>1, <1>2, DeployInitially, PTL DEF DeploySpec
-----------------------------------------------------------------------------
AskKinds == Keyed \cup {"correct"} \cup Confirmed
BookRows == [owed : Nat, credit : Nat, return : Nat, payments : SUBSET Nat, version : Nat,
           cancelled : BOOLEAN]
Requested == [kind : AskKinds, amount : Nat, opening : Nat, about : Nat, key : Nat, typed : Nat,
         outcome : {"sent", "done", "repeated", "refused", "failed"},
         shown : {"no", "now", "closed"}]
Dialogs == [kind : AskKinds \cup {"none", "saved"}, amount : Nat, about : Nat, opening : Nat]
AskNumbers == 1 .. Len(asked)
Done(n) == asked[n].outcome = "done"

PageTypes ==
    /\ books \in BookRows /\ seen \in BookRows /\ dialog \in Dialogs
    /\ kept \in [key : Nat, amount : Nat] /\ asked \in Seq(Requested) /\ awaiting \subseteq AskNumbers
    /\ opened \in Nat /\ retyped \in Nat

(* What is asked twice from one form with nothing typed in between is asked *)
(* under one key, the one the form keeps while it is open.                  *)
SameAsk(m, n) == asked[m].opening = asked[n].opening /\ asked[m].typed = asked[n].typed
KeysKept ==
    /\ dialog.opening <= opened
    /\ \A n \in AskNumbers : asked[n].opening <= opened /\ asked[n].typed <= retyped
    /\ \A n \in AskNumbers : asked[n].kind \in Keyed =>
          /\ asked[n].key # 0
          /\ \A m \in AskNumbers : asked[m].kind \in Keyed /\ SameAsk(m, n) =>
                asked[m].key = asked[n].key
          /\ dialog.kind \in Keyed /\ dialog.opening = asked[n].opening
             /\ asked[n].typed = retyped =>
                kept = [key |-> asked[n].key, amount |-> dialog.amount]
OneDonePerKey ==
    \A m, n \in AskNumbers :
        /\ asked[m].kind \in Keyed /\ asked[n].kind \in Keyed /\ Done(m) /\ Done(n)
        /\ asked[m].key = asked[n].key
        => m = n

(* The returns there have been: the first and those corrections made; none  *)
(* taken back stands again.                                                 *)
ReturnKinds == {"correct", "deleteReturn"}
ReturnsSoFar == {1} \cup {k + 1 : k \in {n \in AskNumbers : Done(n) /\ asked[n].kind = "correct"}}
ReturnsTakenOnce ==
    /\ {books.return, seen.return} \subseteq ReturnsSoFar \cup {0}
    /\ dialog.kind \in ReturnKinds => dialog.about \in ReturnsSoFar
    /\ \A n \in AskNumbers : asked[n].kind \in ReturnKinds =>
          /\ asked[n].about \in ReturnsSoFar
          /\ Done(n) => asked[n].about # books.return
          /\ \A m \in AskNumbers : asked[m].kind \in ReturnKinds /\ Done(m) /\ Done(n)
                                   /\ asked[m].about = asked[n].about => m = n

(* And of the payments.                                                     *)
PaymentsSoFar == {0} \cup {n \in AskNumbers : Done(n) /\ asked[n].kind = "payment"}
PaymentsTakenOnce ==
    /\ books.payments \cup seen.payments \subseteq PaymentsSoFar
    /\ dialog.kind = "deletePayment" => dialog.about \in PaymentsSoFar
    /\ \A n \in AskNumbers : asked[n].kind = "deletePayment" =>
          /\ asked[n].about \in PaymentsSoFar
          /\ Done(n) => asked[n].about \notin books.payments
          /\ \A m \in AskNumbers : asked[m].kind = "deletePayment" /\ Done(m) /\ Done(n)
                                   /\ asked[m].about = asked[n].about => m = n

CancelledOnce ==
    /\ \A n \in AskNumbers : asked[n].kind = "cancel" /\ Done(n) => books.cancelled
    /\ \A m, n \in AskNumbers :
          asked[m].kind = "cancel" /\ asked[n].kind = "cancel" /\ Done(m) /\ Done(n) => m = n

ShownWhileSaved ==
    /\ \A n \in AskNumbers : asked[n].shown = "now" => dialog.kind = "saved" /\ dialog.about = n
    /\ dialog.kind = "saved" => dialog.about \in AskNumbers

PageInv ==
    /\ PageTypes /\ KeysKept /\ OneDonePerKey
    /\ ReturnsTakenOnce /\ PaymentsTakenOnce /\ CancelledOnce /\ ShownWhileSaved

LEMMA OrderPageInitially == OrderPageInit => PageInv
<1> SUFFICES ASSUME OrderPageInit PROVE PageInv
  OBVIOUS
<1>1. MostOwed \in Nat /\ asked = << >> /\ Len(asked) = 0 /\ AskNumbers = {}
      /\ books = [owed |-> MostOwed, credit |-> MostOwed, return |-> 1, payments |-> {0},
                  version |-> 0, cancelled |-> FALSE]
      /\ seen = books /\ dialog = NoDialog /\ kept = NoneKept /\ awaiting = {}
      /\ opened = 0 /\ retyped = 0
  BY OrderPageAssumption DEF OrderPageInit, AskNumbers
<1>2. books \in BookRows
  BY <1>1 DEF BookRows
<1>3. PageTypes
  BY <1>1, <1>2 DEF PageTypes, NoDialog, NoneKept, Dialogs
<1>4. KeysKept /\ OneDonePerKey /\ ReturnsTakenOnce /\ PaymentsTakenOnce /\ CancelledOnce
      /\ ShownWhileSaved
  BY <1>1 DEF KeysKept, OneDonePerKey, ReturnsTakenOnce, PaymentsTakenOnce, CancelledOnce,
              ShownWhileSaved, NoDialog, ReturnsSoFar, PaymentsSoFar, ReturnKinds
<1> QED BY <1>3, <1>4 DEF PageInv

(* Steps that ask nothing and get nothing done leave the requests as they   *)
(* are: what was refused, and what is shown of them, aside.                 *)
AskedStay ==
    /\ asked' \in Seq(Requested) /\ Len(asked') = Len(asked)
    /\ \A n \in AskNumbers :
          /\ asked'[n].kind = asked[n].kind /\ asked'[n].opening = asked[n].opening
          /\ asked'[n].about = asked[n].about /\ asked'[n].key = asked[n].key
          /\ asked'[n].typed = asked[n].typed /\ asked'[n].amount = asked[n].amount
          /\ asked'[n].outcome = "done" <=> asked[n].outcome = "done"

LEMMA StaySoFar ==
  ASSUME PageTypes, AskedStay
  PROVE  /\ AskNumbers' = AskNumbers /\ \A n \in AskNumbers : Done(n)' <=> Done(n)
         /\ ReturnsSoFar' = ReturnsSoFar /\ PaymentsSoFar' = PaymentsSoFar
<1>1. AskNumbers' = AskNumbers /\ \A n \in AskNumbers : Done(n)' <=> Done(n)
  BY DEF AskedStay, AskNumbers, Done
<1>2. PaymentsSoFar' = PaymentsSoFar
  BY <1>1 DEF PaymentsSoFar, AskedStay
<1>3. ReturnsSoFar' = ReturnsSoFar
  BY <1>1 DEF ReturnsSoFar, AskedStay
<1> QED BY <1>1, <1>2, <1>3

(* Of these, one that opens no form and types nothing.                      *)
LEMMA QuietPageKeeps ==
  ASSUME PageInv, AskedStay, UNCHANGED <<opened, retyped>>,
         books' \in BookRows, seen' \in {seen, books}, awaiting' \subseteq AskNumbers,
         books'.return \in {books.return, 0}, books'.payments \subseteq books.payments,
         books'.cancelled = books.cancelled,
         \/ UNCHANGED <<dialog, kept>>
         \/ dialog' = NoDialog /\ UNCHANGED kept
         \/ dialog' \in Dialogs /\ dialog'.kind = "saved" /\ dialog'.opening = dialog.opening /\ kept' = NoneKept,
         ShownWhileSaved'
  PROVE  PageInv'
<1>1. PageTypes /\ AskNumbers' = AskNumbers /\ (\A n \in AskNumbers : Done(n)' <=> Done(n))
      /\ ReturnsSoFar' = ReturnsSoFar /\ PaymentsSoFar' = PaymentsSoFar
  BY StaySoFar DEF PageInv
<1>2. NoDialog \in Dialogs /\ NoneKept \in [key : Nat, amount : Nat] /\ NoDialog.opening = 0
      /\ NoDialog.kind = "none"
  BY DEF NoDialog, Dialogs, NoneKept
<1>3. PageTypes'
  BY <1>1, <1>2 DEF PageTypes, AskedStay
<1>4. KeysKept'
  <2>1. /\ dialog'.opening \in {0, dialog.opening}
        /\ dialog'.kind \in Keyed => dialog' = dialog /\ kept' = kept
    BY <1>2 DEF Keyed
  <2>2. opened \in Nat /\ KeysKept
    BY <1>1 DEF PageTypes, PageInv
  <2> QED BY <1>1, <2>1, <2>2 DEF KeysKept, AskedStay, SameAsk
<1>5. OneDonePerKey' /\ CancelledOnce'
  BY <1>1 DEF PageInv, OneDonePerKey, CancelledOnce, AskedStay
<1>6. ReturnsTakenOnce'
  <2>1. dialog'.kind \in ReturnKinds => dialog' = dialog
    BY <1>2 DEF ReturnKinds
  <2>2. 0 \notin ReturnsSoFar
    BY <1>1 DEF PageTypes, ReturnsSoFar, AskNumbers
  <2> QED BY <1>1, <2>1, <2>2 DEF PageInv, ReturnsTakenOnce, AskedStay
<1>7. PaymentsTakenOnce'
  <2>1. dialog'.kind = "deletePayment" => dialog' = dialog
    BY <1>2
  <2> QED BY <1>1, <2>1 DEF PageInv, PaymentsTakenOnce, AskedStay
<1> QED BY <1>3, <1>4, <1>5, <1>6, <1>7 DEF PageInv

(* A form opened is later than all that was asked.                          *)
LEMMA OpenedKeeps ==
  ASSUME PageInv, NEW sort \in AskKinds, NEW amount \in Nat, NEW about \in Nat,
         Opened(sort, amount, about),
         sort \in ReturnKinds => about \in ReturnsSoFar,
         sort = "deletePayment" => about \in PaymentsSoFar
  PROVE  PageInv'
<1>1. /\ UNCHANGED <<books, seen, asked, awaiting, retyped>> /\ opened' = opened + 1
      /\ dialog' = [kind |-> sort, amount |-> amount, about |-> about, opening |-> opened + 1]
      /\ dialog.kind = "none" /\ kept' = NoneKept
  BY DEF Opened
<1>2. PageTypes /\ opened \in Nat /\ opened + 1 \in Nat
  BY DEF PageInv, PageTypes
<1>3. AskedStay
  BY <1>1, <1>2 DEF AskedStay, PageTypes
<1>4. AskNumbers' = AskNumbers /\ (\A n \in AskNumbers : Done(n)' <=> Done(n))
      /\ ReturnsSoFar' = ReturnsSoFar /\ PaymentsSoFar' = PaymentsSoFar
  BY <1>2, <1>3, StaySoFar
<1>5. PageTypes'
  BY <1>1, <1>2 DEF PageTypes, Dialogs, NoneKept, AskNumbers
<1>6. KeysKept'
  <2>1. dialog'.opening = opened + 1 /\ \A n \in AskNumbers : asked[n].opening \in Nat
    <3>1. \A n \in AskNumbers : asked[n] \in Requested
      BY <1>2 DEF PageTypes, AskNumbers
    <3> QED BY <1>1, <3>1 DEF Requested
  <2> QED BY <1>1, <1>2, <1>4, <2>1 DEF PageInv, KeysKept, SameAsk
<1>7. OneDonePerKey' /\ CancelledOnce'
  BY <1>1, <1>4 DEF PageInv, OneDonePerKey, CancelledOnce
<1>8. ReturnsTakenOnce' /\ PaymentsTakenOnce'
  BY <1>1, <1>4 DEF PageInv, ReturnsTakenOnce, PaymentsTakenOnce
<1>9. ShownWhileSaved'
  BY <1>1, <1>4 DEF PageInv, ShownWhileSaved, AskKinds, Keyed, Confirmed
<1> QED BY <1>5, <1>6, <1>7, <1>8, <1>9 DEF PageInv

LEMMA OpeningsKeep ==
  ASSUME PageInv,
         \/ OpenPayment \/ OpenGiveBack \/ OpenCorrection \/ ConfirmDeleting \/ ConfirmCancel
         \/ \E p \in 0 .. MaxAsked : ConfirmUnpaying(p)
  PROVE  PageInv'
<1>1. /\ seen.owed \in Nat /\ seen.credit \in Nat /\ seen.return \in Nat
      /\ seen.payments \subseteq Nat
  BY DEF PageInv, PageTypes, BookRows
<1>2. /\ seen.return # 0 => seen.return \in ReturnsSoFar
      /\ seen.payments \subseteq PaymentsSoFar
  BY DEF PageInv, ReturnsTakenOnce, PaymentsTakenOnce
<1>3. CASE OpenPayment \/ OpenGiveBack \/ ConfirmCancel
  BY <1>1, <1>3, OpenedKeeps
     DEF OpenPayment, OpenGiveBack, ConfirmCancel, AskKinds, Keyed, Confirmed, ReturnKinds
<1>4. CASE OpenCorrection \/ ConfirmDeleting
  BY <1>1, <1>2, <1>4, OpenedKeeps
     DEF OpenCorrection, ConfirmDeleting, AskKinds, Keyed, Confirmed, ReturnKinds
<1>5. ASSUME NEW p \in 0 .. MaxAsked, ConfirmUnpaying(p) PROVE PageInv'
  <2>1. p \in seen.payments /\ Opened("deletePayment", 0, p)
    BY <1>5 DEF ConfirmUnpaying
  <2> QED BY <1>1, <1>2, <2>1, OpenedKeeps DEF AskKinds, Keyed, Confirmed, ReturnKinds
<1> QED BY <1>3, <1>4, <1>5

(* An amount typed is later than all that was asked, too.                   *)
LEMMA RetypeKeeps == ASSUME PageInv, NEW amount \in Nat, Retype(amount) PROVE PageInv'
<1>1. /\ UNCHANGED <<books, seen, kept, asked, awaiting, opened>> /\ retyped' = retyped + 1
      /\ dialog' = [dialog EXCEPT !.amount = amount] /\ dialog.kind \in Keyed
  BY DEF Retype
<1>2. PageTypes /\ retyped \in Nat /\ dialog \in Dialogs
  BY DEF PageInv, PageTypes
<1>3. dialog' \in Dialogs /\ dialog'.kind = dialog.kind /\ dialog'.opening = dialog.opening
      /\ dialog'.about = dialog.about
  BY <1>1, <1>2 DEF Dialogs
<1>4. AskedStay
  BY <1>1, <1>2 DEF AskedStay, PageTypes
<1>5. AskNumbers' = AskNumbers /\ (\A n \in AskNumbers : Done(n)' <=> Done(n))
      /\ ReturnsSoFar' = ReturnsSoFar /\ PaymentsSoFar' = PaymentsSoFar
  BY <1>2, <1>4, StaySoFar
<1>6. PageTypes'
  BY <1>1, <1>2, <1>3 DEF PageTypes, AskNumbers
<1>7. KeysKept'
  <2>1. \A n \in AskNumbers : asked[n].typed \in Nat
    <3>1. \A n \in AskNumbers : asked[n] \in Requested
      BY <1>2 DEF PageTypes, AskNumbers
    <3> QED BY <3>1 DEF Requested
  <2> QED BY <1>1, <1>2, <1>3, <1>5, <2>1 DEF PageInv, KeysKept, SameAsk
<1>8. OneDonePerKey' /\ CancelledOnce'
  BY <1>1, <1>5 DEF PageInv, OneDonePerKey, CancelledOnce
<1>9. ReturnsTakenOnce' /\ PaymentsTakenOnce' /\ ShownWhileSaved'
  BY <1>1, <1>3, <1>5 DEF PageInv, ReturnsTakenOnce, PaymentsTakenOnce, ShownWhileSaved
<1> QED BY <1>6, <1>7, <1>8, <1>9 DEF PageInv

(* Asking: a second time for what was typed, under its key.                 *)
LEMMA AskKeeps == PageInv /\ AskServer => PageInv'
<1> SUFFICES ASSUME PageInv, AskServer PROVE PageInv'
  OBVIOUS
<1>0. PICK new : new = Len(asked) + 1
  OBVIOUS
<1>1. PICK ask :
        ask = [kind |-> dialog.kind, amount |-> dialog.amount, opening |-> dialog.opening,
               about |-> IF dialog.kind = "cancel" THEN seen.version ELSE dialog.about,
               key |-> kept'.key, typed |-> retyped, outcome |-> "sent", shown |-> "no"]
  OBVIOUS
<1>2. /\ kept' = IF dialog.kind \in Keyed THEN PaysBy ELSE kept
      /\ asked' = Append(asked, ask) /\ awaiting' = awaiting \cup {new}
      /\ UNCHANGED <<books, seen, dialog, opened, retyped>>
  BY <1>0, <1>1 DEF AskServer
<1>3. PageTypes /\ asked \in Seq(Requested) /\ Len(asked) \in Nat /\ dialog \in Dialogs
      /\ kept \in [key : Nat, amount : Nat] /\ seen.version \in Nat /\ retyped \in Nat
      /\ opened \in Nat /\ AskNumbers = 1 .. Len(asked)
  BY DEF PageInv, PageTypes, BookRows, AskNumbers
<1>4. dialog.kind \in AskKinds
  <2>1. dialog.kind # "none" /\ dialog.kind # "saved"
    <3>1. AmountFits
      BY DEF AskServer
    <3> QED BY <3>1, Zenon DEF AmountFits, Confirmed
  <2> QED BY <1>3, <2>1 DEF Dialogs
<1>5. /\ kept' \in [key : Nat, amount : Nat]
      /\ dialog.kind \in Keyed =>
            /\ kept' = [key |-> kept'.key, amount |-> dialog.amount] /\ kept'.key # 0
            /\ (kept.key # 0 /\ kept.amount = dialog.amount => kept' = kept)
  <2>1. CASE dialog.kind \in Keyed /\ ~ (kept.key # 0 /\ kept.amount = dialog.amount)
    <3>1. kept' = [key |-> Len(asked) + 1, amount |-> dialog.amount]
      BY <1>2, <2>1 DEF PaysBy
    <3>2. dialog.amount \in Nat
      BY <1>3 DEF Dialogs
    <3> QED BY <1>3, <2>1, <3>1, <3>2
  <2>2. CASE dialog.kind \in Keyed /\ kept.key # 0 /\ kept.amount = dialog.amount
    <3>1. kept' = kept
      BY <1>2, <2>2 DEF PaysBy
    <3> QED BY <1>3, <2>2, <3>1
  <2>3. CASE dialog.kind \notin Keyed
    BY <1>2, <1>3, <2>3
  <2> QED BY <2>1, <2>2, <2>3
<1>6. /\ ask \in Requested /\ ask.kind = dialog.kind /\ ask.opening = dialog.opening
      /\ ask.key = kept'.key /\ ask.typed = retyped /\ ask.outcome = "sent" /\ ask.shown = "no"
      /\ ask.kind # "cancel" => ask.about = dialog.about
  <2>1. kept'.key \in Nat /\ dialog.amount \in Nat /\ dialog.opening \in Nat /\ dialog.about \in Nat
    BY <1>3, <1>5 DEF Dialogs
  <2>2. (IF dialog.kind = "cancel" THEN seen.version ELSE dialog.about) \in Nat
    BY <1>3, <2>1
  <2> QED BY <1>1, <1>3, <1>4, <2>1, <2>2 DEF Requested
<1>7. /\ asked' \in Seq(Requested) /\ Len(asked') = new /\ asked'[new] = ask
      /\ \A n \in AskNumbers : asked'[n] = asked[n]
      /\ AskNumbers' = AskNumbers \cup {new} /\ new \notin AskNumbers
  <2>1. /\ asked' \in Seq(Requested) /\ Len(asked') = new /\ asked'[new] = ask
        /\ \A n \in 1 .. Len(asked) : asked'[n] = asked[n]
    BY <1>0, <1>2, <1>3, <1>6
  <2> QED BY <1>0, <1>3, <2>1 DEF AskNumbers
<1>8. /\ \A n \in AskNumbers : Done(n)' <=> Done(n)
      /\ ~Done(new)' /\ ReturnsSoFar' = ReturnsSoFar /\ PaymentsSoFar' = PaymentsSoFar
  <2>1. (\A n \in AskNumbers : Done(n)' <=> Done(n)) /\ ~Done(new)'
    BY <1>6, <1>7 DEF Done
  <2>2. ReturnsSoFar' = ReturnsSoFar
    BY <1>7, <2>1 DEF ReturnsSoFar
  <2>3. PaymentsSoFar' = PaymentsSoFar
    BY <1>7, <2>1 DEF PaymentsSoFar
  <2> QED BY <2>1, <2>2, <2>3
<1>9. PageTypes'
  BY <1>2, <1>3, <1>5, <1>7 DEF PageTypes
<1>10. KeysKept'
  <2>1. \A n \in AskNumbers' : asked'[n].opening <= opened /\ asked'[n].typed <= retyped
    BY <1>3, <1>6, <1>7 DEF PageInv, KeysKept
  <2>2. ASSUME NEW n \in AskNumbers, asked[n].kind \in Keyed, dialog.kind \in Keyed,
               asked[n].opening = dialog.opening, asked[n].typed = retyped
        PROVE  asked[n].key = kept'.key
    <3>1. kept = [key |-> asked[n].key, amount |-> dialog.amount] /\ asked[n].key # 0
      BY <2>2 DEF PageInv, KeysKept
    <3> QED BY <1>5, <2>2, <3>1
  <2>3. ASSUME NEW n \in AskNumbers', asked'[n].kind \in Keyed,
               NEW m \in AskNumbers', asked'[m].kind \in Keyed, SameAsk(m, n)'
        PROVE  asked'[m].key = asked'[n].key
    <3>1. CASE n \in AskNumbers /\ m \in AskNumbers
      BY <1>7, <2>3, <3>1 DEF PageInv, KeysKept, SameAsk
    <3>2. CASE n = new \/ m = new
      BY <1>6, <1>7, <2>2, <2>3, <3>2 DEF SameAsk
    <3> QED BY <1>7, <3>1, <3>2
  <2>4. ASSUME NEW n \in AskNumbers', asked'[n].kind \in Keyed, dialog.kind \in Keyed,
               asked'[n].opening = dialog.opening, asked'[n].typed = retyped
        PROVE  kept' = [key |-> asked'[n].key, amount |-> dialog.amount]
    BY <1>5, <1>6, <1>7, <2>2, <2>4
  <2>5. ASSUME NEW n \in AskNumbers', asked'[n].kind \in Keyed PROVE asked'[n].key # 0
    BY <1>5, <1>6, <1>7, <2>5 DEF PageInv, KeysKept
  <2> QED BY <1>2, <2>1, <2>3, <2>4, <2>5 DEF PageInv, KeysKept
<1>11. OneDonePerKey' /\ CancelledOnce'
  <2>1. OneDonePerKey'
    BY <1>6, <1>7 DEF PageInv, OneDonePerKey, Done
  <2>2. books' = books
    BY <1>2
  <2>3. ASSUME NEW n \in AskNumbers', asked'[n].outcome = "done"
        PROVE  n \in AskNumbers /\ asked'[n] = asked[n]
    BY <1>6, <1>7, <2>3
  <2>4. CancelledOnce'
    BY <2>2, <2>3 DEF PageInv, CancelledOnce, Done
  <2> QED BY <2>1, <2>4
<1>12. ReturnsTakenOnce' /\ PaymentsTakenOnce'
  <2>1. books' = books /\ seen' = seen /\ dialog' = dialog
    BY <1>2
  <2>2. ReturnsTakenOnce'
    <3>1. {books'.return, seen'.return} \subseteq ReturnsSoFar' \cup {0}
      BY <1>8, <2>1 DEF PageInv, ReturnsTakenOnce
    <3>2. /\ ask.kind \in ReturnKinds => ask.about \in ReturnsSoFar'
          /\ dialog'.kind \in ReturnKinds => dialog'.about \in ReturnsSoFar'
      BY <1>6, <1>8, <2>1 DEF PageInv, ReturnsTakenOnce, ReturnKinds
    <3>3. ASSUME NEW n \in AskNumbers', asked'[n].kind \in ReturnKinds
          PROVE  /\ asked'[n].about \in ReturnsSoFar'
                 /\ asked'[n].outcome = "done" => asked'[n].about # books'.return
                 /\ \A m \in AskNumbers' :
                       /\ asked'[m].kind \in ReturnKinds /\ asked'[m].outcome = "done"
                       /\ asked'[n].outcome = "done" /\ asked'[m].about = asked'[n].about
                       => m = n
      BY <1>6, <1>7, <1>8, <2>1, <3>2, <3>3 DEF PageInv, ReturnsTakenOnce, Done
    <3> QED BY <3>1, <3>2, <3>3 DEF ReturnsTakenOnce, Done
  <2>3. PaymentsTakenOnce'
    <3>1. books'.payments \cup seen'.payments \subseteq PaymentsSoFar'
      BY <1>8, <2>1 DEF PageInv, PaymentsTakenOnce
    <3>2. /\ ask.kind = "deletePayment" => ask.about \in PaymentsSoFar'
          /\ dialog'.kind = "deletePayment" => dialog'.about \in PaymentsSoFar'
      BY <1>6, <1>8, <2>1 DEF PageInv, PaymentsTakenOnce
    <3>3. ASSUME NEW n \in AskNumbers', asked'[n].kind = "deletePayment"
          PROVE  /\ asked'[n].about \in PaymentsSoFar'
                 /\ asked'[n].outcome = "done" => asked'[n].about \notin books'.payments
                 /\ \A m \in AskNumbers' :
                       /\ asked'[m].kind = "deletePayment" /\ asked'[m].outcome = "done"
                       /\ asked'[n].outcome = "done" /\ asked'[m].about = asked'[n].about
                       => m = n
      BY <1>6, <1>7, <1>8, <2>1, <3>2, <3>3 DEF PageInv, PaymentsTakenOnce, Done
    <3> QED BY <3>1, <3>2, <3>3 DEF PaymentsTakenOnce, Done
  <2> QED BY <2>2, <2>3
<1>13. ShownWhileSaved'
  BY <1>2, <1>6, <1>7 DEF PageInv, ShownWhileSaved
<1> QED BY <1>9, <1>10, <1>11, <1>12, <1>13 DEF PageInv

(* What the server's books are after a request it allowed.                  *)
LEMMA ServedBooks ==
  ASSUME PageInv, NEW n \in AskNumbers, ServerAllows(asked[n]),
         NEW after, after = BooksAfter(n)
  PROVE  LET ask == asked[n] IN
         /\ after \in BookRows
         /\ ask.kind \in Keyed =>
               after.return = books.return /\ after.cancelled = books.cancelled
               /\ after.payments = books.payments \cup (IF ask.kind = "payment" THEN {n} ELSE {})
         /\ ask.kind = "correct" =>
               /\ ask.about = books.return /\ after.return = n + 1
               /\ after.payments = books.payments /\ after.cancelled = books.cancelled
         /\ ask.kind = "deleteReturn" =>
               /\ ask.about = books.return /\ after.return = 0
               /\ after.payments = books.payments /\ after.cancelled = books.cancelled
         /\ ask.kind = "deletePayment" =>
               /\ ask.about \in books.payments /\ after.payments = books.payments \ {ask.about}
               /\ after.return = books.return /\ after.cancelled = books.cancelled
         /\ ask.kind = "cancel" =>
               /\ ~books.cancelled /\ after.cancelled
               /\ after.payments = books.payments /\ after.return = books.return
<1>1. PICK ask : ask = asked[n]
  OBVIOUS
<1>2. ask \in Requested /\ books \in BookRows /\ n \in Nat
  BY <1>1 DEF PageInv, PageTypes, AskNumbers
<1>3. ask.kind \in AskKinds /\ ask.amount \in Nat /\ ask.about \in Nat
  BY <1>2 DEF Requested
<1>4. ServerAllows(ask)
  BY <1>1
<1>5. books.owed \in Nat /\ books.credit \in Nat /\ books.version \in Nat /\ books.payments \subseteq Nat
  BY <1>2 DEF BookRows
<1>6. CASE ask.kind = "payment"
  <2>1. ask.amount <= books.owed
    BY <1>4, <1>6, Zenon DEF ServerAllows
  <2>2. after = [books EXCEPT !.owed = @ - ask.amount, !.payments = @ \cup {n}]
    BY <1>1, <1>6, Zenon DEF BooksAfter
  <2>3. books.owed - ask.amount \in Nat /\ books.payments \cup {n} \subseteq Nat
    BY <1>2, <1>3, <1>5, <2>1
  <2> QED BY <1>1, <1>2, <1>6, <2>2, <2>3 DEF BookRows
<1>7. CASE ask.kind = "giveBack"
  <2>1. ask.amount <= books.credit
    BY <1>4, <1>7, Zenon DEF ServerAllows
  <2>2. after = [books EXCEPT !.credit = @ - ask.amount]
    BY <1>1, <1>7, Zenon DEF BooksAfter
  <2>3. books.credit - ask.amount \in Nat
    BY <1>3, <1>5, <2>1
  <2> QED BY <1>1, <1>2, <1>7, <2>2, <2>3 DEF BookRows
<1>8. CASE ask.kind = "correct"
  <2>1. StillStands(ask)
    BY <1>4, <1>8, Zenon DEF ServerAllows
  <2>2. after = [books EXCEPT !.return = n + 1]
    BY <1>1, <1>8, Zenon DEF BooksAfter
  <2>3. n + 1 \in Nat /\ ask.about = books.return
    BY <1>2, <1>8, <2>1 DEF StillStands
  <2> QED BY <1>1, <1>2, <1>8, <2>2, <2>3 DEF BookRows, Keyed
<1>9. CASE ask.kind = "deleteReturn"
  <2>1. StillStands(ask)
    BY <1>4, <1>9, Zenon DEF ServerAllows
  <2>2. after = [books EXCEPT !.return = 0]
    BY <1>1, <1>9, Zenon DEF BooksAfter
  <2>3. ask.about = books.return
    BY <1>9, <2>1 DEF StillStands
  <2> QED BY <1>1, <1>2, <1>9, <2>2, <2>3 DEF BookRows, Keyed
<1>10. CASE ask.kind = "deletePayment"
  <2>1. StillStands(ask)
    BY <1>4, <1>10, Zenon DEF ServerAllows
  <2>2. after = [books EXCEPT !.owed = @ + AmountOf(ask.about), !.payments = @ \ {ask.about}]
    BY <1>1, <1>10, Zenon DEF BooksAfter
  <2>3. ask.about \in books.payments
    BY <1>10, <2>1 DEF StillStands
  <2>4. AmountOf(ask.about) \in Nat
    <3>1. ask.about = 0 \/ ask.about \in AskNumbers
      BY <2>3 DEF PageInv, PaymentsTakenOnce, PaymentsSoFar
    <3>2. ask.about \in AskNumbers => asked[ask.about] \in Requested
      BY DEF PageInv, PageTypes, AskNumbers
    <3>3. ask.about \in AskNumbers => asked[ask.about].amount \in Nat
      BY <3>2 DEF Requested
    <3> QED BY <3>1, <3>3 DEF AmountOf
  <2>5. PICK owing \in Nat : owing = books.owed + AmountOf(ask.about)
    BY <1>5, <2>4
  <2>6. after = [books EXCEPT !.owed = owing, !.payments = books.payments \ {ask.about}]
    BY <2>2, <2>5
  <2> QED BY <1>1, <1>2, <1>5, <1>10, <2>3, <2>6 DEF BookRows, Keyed
<1>11. CASE ask.kind = "cancel"
  <2>1. Cancellable(books)
    BY <1>4, <1>11, Zenon DEF ServerAllows
  <2>2. after = [books EXCEPT !.cancelled = TRUE, !.version = @ + 1]
    BY <1>1, <1>11, Zenon DEF BooksAfter
  <2>3. books.version + 1 \in Nat /\ ~books.cancelled
    BY <1>5, <2>1 DEF Cancellable
  <2> QED BY <1>1, <1>2, <1>11, <2>2, <2>3 DEF BookRows, Keyed
<1> QED BY <1>3, <1>6, <1>7, <1>8, <1>9, <1>10, <1>11 DEF AskKinds, Keyed, Confirmed

(* A request got done: the first under its key, of its return, its payment, *)
(* its version.                                                             *)
LEMMA DoneAskKeeps ==
  ASSUME PageInv, NEW n \in AskNumbers, asked[n].outcome = "sent", ~Repeated(n),
         ServerAllows(asked[n]), books' = BooksAfter(n),
         asked' = [asked EXCEPT ![n].outcome = "done"],
         UNCHANGED <<seen, dialog, kept, awaiting, opened, retyped>>
  PROVE  PageInv'
<1>1. PICK ask : ask = asked[n]
  OBVIOUS
<1>2. PageTypes /\ asked \in Seq(Requested) /\ n \in 1 .. Len(asked) /\ ask \in Requested /\ n \in Nat /\ n # 0
      /\ ask.outcome = "sent"
  BY <1>1 DEF PageInv, PageTypes, AskNumbers
<1>3. /\ asked' \in Seq(Requested) /\ Len(asked') = Len(asked)
      /\ asked'[n] = [ask EXCEPT !.outcome = "done"]
      /\ \A m \in AskNumbers : m # n => asked'[m] = asked[m]
  <2>1. [ask EXCEPT !.outcome = "done"] \in Requested
    BY <1>2 DEF Requested
  <2>2. asked' = [asked EXCEPT ![n] = [ask EXCEPT !.outcome = "done"]]
    BY <1>1
  <2> QED BY <1>2, <2>1, <2>2 DEF AskNumbers
<1>4. /\ AskNumbers' = AskNumbers
      /\ \A m \in AskNumbers :
            /\ asked'[m].kind = asked[m].kind /\ asked'[m].opening = asked[m].opening
            /\ asked'[m].about = asked[m].about /\ asked'[m].key = asked[m].key
            /\ asked'[m].typed = asked[m].typed /\ asked'[m].shown = asked[m].shown
            /\ asked'[m].outcome = "done" <=> asked[m].outcome = "done" \/ m = n
  <2>1. PICK now : now = asked'[n]
    OBVIOUS
  <2>2. /\ now.kind = ask.kind /\ now.opening = ask.opening /\ now.about = ask.about
        /\ now.key = ask.key /\ now.typed = ask.typed /\ now.shown = ask.shown
        /\ now.outcome = "done"
    BY <1>2, <1>3, <2>1 DEF Requested
  <2>3. AskNumbers' = AskNumbers
    BY <1>3 DEF AskNumbers
  <2>4. ASSUME NEW m \in AskNumbers
        PROVE  /\ asked'[m].kind = asked[m].kind /\ asked'[m].opening = asked[m].opening
               /\ asked'[m].about = asked[m].about /\ asked'[m].key = asked[m].key
               /\ asked'[m].typed = asked[m].typed /\ asked'[m].shown = asked[m].shown
               /\ asked'[m].outcome = "done" <=> asked[m].outcome = "done" \/ m = n
    BY <1>1, <1>3, <2>1, <2>2
  <2> QED BY <2>3, <2>4
<1>5. /\ books' \in BookRows
      /\ ask.kind \in Keyed =>
               books'.return = books.return /\ books'.cancelled = books.cancelled
               /\ books'.payments = books.payments \cup (IF ask.kind = "payment" THEN {n} ELSE {})
      /\ ask.kind = "correct" =>
               /\ ask.about = books.return /\ books'.return = n + 1
               /\ books'.payments = books.payments /\ books'.cancelled = books.cancelled
      /\ ask.kind = "deleteReturn" =>
               /\ ask.about = books.return /\ books'.return = 0
               /\ books'.payments = books.payments /\ books'.cancelled = books.cancelled
      /\ ask.kind = "deletePayment" =>
               /\ ask.about \in books.payments /\ books'.payments = books.payments \ {ask.about}
               /\ books'.return = books.return /\ books'.cancelled = books.cancelled
      /\ ask.kind = "cancel" =>
               /\ ~books.cancelled /\ books'.cancelled
               /\ books'.payments = books.payments /\ books'.return = books.return
  <2>1. PICK after : after = BooksAfter(n)
    OBVIOUS
  <2> QED BY <1>1, <2>1, ServedBooks
<1>6. ask.kind \in Keyed \cup {"correct", "deleteReturn", "deletePayment", "cancel"}
  BY <1>2 DEF Requested, AskKinds, Confirmed
<1>7. /\ ReturnsSoFar' = ReturnsSoFar \cup (IF ask.kind = "correct" THEN {n + 1} ELSE {})
      /\ n + 1 \notin ReturnsSoFar /\ 0 \notin ReturnsSoFar
  <2>1. n + 1 \notin ReturnsSoFar /\ 0 \notin ReturnsSoFar
    BY <1>1, <1>2 DEF ReturnsSoFar, Done, AskNumbers
  <2>2. ReturnsSoFar' = ReturnsSoFar \cup (IF ask.kind = "correct" THEN {n + 1} ELSE {})
    BY <1>1, <1>4 DEF ReturnsSoFar, Done
  <2> QED BY <2>1, <2>2
<1>8. /\ PaymentsSoFar' = PaymentsSoFar \cup (IF ask.kind = "payment" THEN {n} ELSE {})
      /\ n \notin PaymentsSoFar
  BY <1>1, <1>2, <1>4 DEF PaymentsSoFar, Done
<1>9. PageTypes'
  BY <1>2, <1>3, <1>4, <1>5 DEF PageTypes
<1>10. KeysKept'
  BY <1>4 DEF PageInv, KeysKept, SameAsk
<1>11. OneDonePerKey'
  <2>1. ASSUME NEW m \in AskNumbers, asked[m].outcome = "done", ask.kind \in Keyed
        PROVE  asked[m].key # ask.key
    BY <1>1, <2>1 DEF Repeated, AskNumbers
  <2> QED BY <1>1, <1>4, <2>1 DEF PageInv, OneDonePerKey, Done
<1>12. CancelledOnce'
  <2>1. books'.cancelled \/ (~books.cancelled /\ ask.kind # "cancel")
    BY <1>5, <1>6 DEF Keyed
  <2>2. books.cancelled => ask.kind # "cancel"
    BY <1>5
  <2> QED BY <1>1, <1>4, <2>1, <2>2 DEF PageInv, CancelledOnce, Done
<1>13. ReturnsTakenOnce'
  <2>1. /\ books'.return \in {books.return, 0} \cup (IF ask.kind = "correct" THEN {n + 1} ELSE {})
        /\ ask.kind \in ReturnKinds => ask.about = books.return /\ books'.return \in {0, n + 1}
    BY <1>5, <1>6 DEF ReturnKinds, Keyed
  <2>2. {books'.return, seen'.return} \subseteq ReturnsSoFar' \cup {0}
    BY <1>7, <2>1 DEF PageInv, ReturnsTakenOnce
  <2>3. dialog'.kind \in ReturnKinds => dialog'.about \in ReturnsSoFar'
    BY <1>7 DEF PageInv, ReturnsTakenOnce
  <2>4. ASSUME NEW m \in AskNumbers, asked[m].kind \in ReturnKinds
        PROVE  /\ asked[m].about \in ReturnsSoFar
               /\ asked[m].outcome = "done" =>
                     asked[m].about # books.return /\ asked[m].about # books'.return
               /\ m = n => asked[m].about # books'.return
    BY <1>1, <1>2, <1>7, <2>1, <2>4 DEF PageInv, ReturnsTakenOnce, Done
  <2>5. ASSUME NEW l \in AskNumbers, NEW m \in AskNumbers,
               asked[l].kind \in ReturnKinds, asked[m].kind \in ReturnKinds,
               asked'[l].outcome = "done", asked'[m].outcome = "done", asked[l].about = asked[m].about
        PROVE  l = m
    BY <1>1, <1>4, <2>1, <2>4, <2>5 DEF PageInv, ReturnsTakenOnce, Done
  <2> QED BY <1>4, <1>7, <2>2, <2>3, <2>4, <2>5 DEF ReturnsTakenOnce, Done
<1>14. PaymentsTakenOnce'
  <2>1. /\ books'.payments \subseteq books.payments \cup (IF ask.kind = "payment" THEN {n} ELSE {})
        /\ ask.kind = "deletePayment" =>
              ask.about \in books.payments /\ ask.about \notin books'.payments
    BY <1>5, <1>6 DEF Keyed
  <2>2. books'.payments \cup seen'.payments \subseteq PaymentsSoFar'
    BY <1>8, <2>1 DEF PageInv, PaymentsTakenOnce
  <2>3. dialog'.kind = "deletePayment" => dialog'.about \in PaymentsSoFar'
    BY <1>8 DEF PageInv, PaymentsTakenOnce
  <2>4. ASSUME NEW m \in AskNumbers, asked[m].kind = "deletePayment"
        PROVE  /\ asked[m].about \in PaymentsSoFar
               /\ asked[m].outcome = "done" =>
                     asked[m].about \notin books.payments /\ asked[m].about \notin books'.payments
               /\ m = n => asked[m].about \notin books'.payments
    BY <1>1, <1>2, <1>8, <2>1, <2>4 DEF PageInv, PaymentsTakenOnce, Done
  <2>5. ASSUME NEW l \in AskNumbers, NEW m \in AskNumbers,
               asked[l].kind = "deletePayment", asked[m].kind = "deletePayment",
               asked'[l].outcome = "done", asked'[m].outcome = "done", asked[l].about = asked[m].about
        PROVE  l = m
    BY <1>1, <1>4, <2>1, <2>4, <2>5 DEF PageInv, PaymentsTakenOnce, Done
  <2> QED BY <1>4, <1>8, <2>2, <2>3, <2>4, <2>5 DEF PaymentsTakenOnce, Done
<1>15. ShownWhileSaved'
  BY <1>4 DEF PageInv, ShownWhileSaved
<1> QED BY <1>9, <1>10, <1>11, <1>12, <1>13, <1>14, <1>15 DEF PageInv

(* What is not done, what is heard, read again or closed, and what others   *)
(* do, is quiet.                                                            *)
LEMMA ServeAskKeeps ==
  ASSUME PageInv, NEW n \in AskNumbers, ServeAsked(n) \/ AskedFails(n)
  PROVE  PageInv'
<1>1. PICK outcome \in {"done", "repeated", "refused", "failed"} :
        /\ asked[n].outcome = "sent" /\ asked' = [asked EXCEPT ![n].outcome = outcome]
        /\ outcome = "done" => ~Repeated(n) /\ ServerAllows(asked[n]) /\ books' = BooksAfter(n)
        /\ outcome # "done" => books' = books
        /\ UNCHANGED <<seen, dialog, kept, awaiting, opened, retyped>>
  <2>1. CASE AskedFails(n)
    BY <2>1 DEF AskedFails
  <2>2. CASE ServeAsked(n)
    <3>1. CASE Repeated(n)
      BY <2>2, <3>1 DEF ServeAsked
    <3>2. CASE ~Repeated(n) /\ ServerAllows(asked[n])
      BY <2>2, <3>2 DEF ServeAsked
    <3>3. CASE ~Repeated(n) /\ ~ServerAllows(asked[n])
      BY <2>2, <3>3 DEF ServeAsked
    <3> QED BY <3>1, <3>2, <3>3
  <2> QED BY <2>1, <2>2
<1>2. CASE outcome = "done"
  BY <1>1, <1>2, DoneAskKeeps
<1>3. CASE outcome # "done"
  <2>1. PICK ask : ask = asked[n]
    OBVIOUS
  <2>2. PageTypes /\ asked \in Seq(Requested) /\ n \in 1 .. Len(asked) /\ ask \in Requested
    BY <2>1 DEF PageInv, PageTypes, AskNumbers
  <2>3. PICK now : now = [ask EXCEPT !.outcome = outcome]
    OBVIOUS
  <2>4. /\ now \in Requested /\ now.kind = ask.kind /\ now.opening = ask.opening
        /\ now.about = ask.about /\ now.key = ask.key /\ now.typed = ask.typed
        /\ now.shown = ask.shown /\ now.amount = ask.amount /\ now.outcome # "done"
    BY <1>3, <2>2, <2>3 DEF Requested
  <2>5. asked' = [asked EXCEPT ![n] = now]
    BY <1>1, <2>1, <2>3
  <2>6. asked' \in Seq(Requested) /\ Len(asked') = Len(asked)
        /\ asked'[n] = now /\ \A m \in AskNumbers : m # n => asked'[m] = asked[m]
    BY <2>2, <2>4, <2>5 DEF AskNumbers
  <2>7. AskedStay /\ \A m \in AskNumbers : asked'[m].shown = asked[m].shown
    BY <1>1, <2>1, <2>4, <2>6 DEF AskedStay
  <2>8. ShownWhileSaved'
    BY <1>1, <2>6, <2>7 DEF PageInv, ShownWhileSaved, AskNumbers
  <2>9. books \in BookRows /\ awaiting \subseteq AskNumbers
    BY <2>2 DEF PageTypes
  <2> QED BY <1>1, <1>3, <2>7, <2>8, <2>9, QuietPageKeeps
<1> QED BY <1>2, <1>3

(* The request of an answer whose dialog is still open comes to be shown;   *)
(* another is not.                                                          *)
LEMMA AnswerKeeps ==
  ASSUME PageInv, NEW n \in awaiting, AnswerHeard(n) \/ NoAnswer(n)
  PROVE  PageInv'
<1>1. PICK ask : ask = asked[n]
  OBVIOUS
<1>2. PageTypes /\ asked \in Seq(Requested) /\ n \in AskNumbers /\ ask \in Requested /\ dialog \in Dialogs
      /\ books \in BookRows /\ awaiting \subseteq AskNumbers /\ ask.kind \in AskKinds
      /\ ask.kind # "saved"
  <2>1. PageTypes /\ asked \in Seq(Requested) /\ n \in AskNumbers /\ ask \in Requested /\ dialog \in Dialogs
        /\ books \in BookRows /\ awaiting \subseteq AskNumbers
    BY <1>1 DEF PageInv, PageTypes, AskNumbers
  <2> QED BY <2>1 DEF Requested, AskKinds, Keyed, Confirmed
<1>3. awaiting' = awaiting \ {n} /\ UNCHANGED <<books, seen, opened, retyped>>
  BY DEF AnswerHeard, NoAnswer
<1>4. CASE /\ dialog' = [dialog EXCEPT !.kind = "saved", !.about = n] /\ kept' = NoneKept
           /\ asked' = [asked EXCEPT ![n].shown = "now"] /\ dialog.kind = ask.kind
  <2>1. PICK now : now = [ask EXCEPT !.shown = "now"]
    OBVIOUS
  <2>2. /\ now \in Requested /\ now.kind = ask.kind /\ now.opening = ask.opening
        /\ now.about = ask.about /\ now.key = ask.key /\ now.typed = ask.typed
        /\ now.outcome = ask.outcome /\ now.amount = ask.amount
    BY <1>2, <2>1 DEF Requested
  <2>3. asked' = [asked EXCEPT ![n] = now]
    BY <1>1, <1>4, <2>1
  <2>4. asked' \in Seq(Requested) /\ Len(asked') = Len(asked)
        /\ asked'[n] = now /\ \A m \in AskNumbers : m # n => asked'[m] = asked[m]
    BY <1>2, <2>2, <2>3 DEF AskNumbers
  <2>5. AskedStay /\ AskNumbers' = AskNumbers
    BY <1>1, <2>2, <2>4 DEF AskedStay, AskNumbers
  <2>6. dialog' \in Dialogs /\ dialog'.kind = "saved" /\ dialog'.about = n
        /\ dialog'.opening = dialog.opening
    <3>1. n \in Nat
      BY <1>2 DEF AskNumbers
    <3>2. PICK d \in Dialogs : d = dialog
      BY <1>2
    <3>3. dialog' = [d EXCEPT !.kind = "saved", !.about = n]
      BY <1>4, <3>2
    <3>4. /\ d.amount \in Nat /\ d.opening \in Nat
          /\ d = [kind |-> d.kind, amount |-> d.amount, about |-> d.about, opening |-> d.opening]
      BY <3>2 DEF Dialogs
    <3>5. dialog' = [kind |-> "saved", amount |-> d.amount, about |-> n, opening |-> d.opening]
      BY <3>3, <3>4
    <3> QED BY <3>1, <3>2, <3>4, <3>5 DEF Dialogs
  <2>7. ShownWhileSaved'
    BY <1>2, <1>4, <2>4, <2>5, <2>6 DEF PageInv, ShownWhileSaved
  <2> QED BY <1>2, <1>3, <1>4, <2>5, <2>6, <2>7, QuietPageKeeps
<1>5. CASE UNCHANGED <<kept, asked>> /\ dialog' = (IF dialog.kind = ask.kind THEN NoDialog ELSE dialog)
  <2>1. AskedStay /\ AskNumbers' = AskNumbers
    BY <1>2, <1>5 DEF AskedStay, PageTypes, AskNumbers
  <2>2. ShownWhileSaved'
    BY <1>2, <1>5, <2>1 DEF PageInv, ShownWhileSaved, NoDialog
  <2> QED BY <1>2, <1>3, <1>5, <2>1, <2>2, QuietPageKeeps
<1>6. CASE UNCHANGED <<kept, asked, dialog>>
  <2>1. AskedStay /\ AskNumbers' = AskNumbers
    BY <1>2, <1>6 DEF AskedStay, PageTypes, AskNumbers
  <2>2. ShownWhileSaved'
    BY <1>6, <2>1 DEF PageInv, ShownWhileSaved
  <2> QED BY <1>2, <1>3, <1>6, <2>1, <2>2, QuietPageKeeps
<1>7. CASE AnswerHeard(n)
  <2>1. CASE FlowSaved(n)
    BY <1>1, <1>4, <1>6, <2>1 DEF FlowSaved, IsOpen
  <2>2. CASE AnswerCloses(n)
    BY <1>1, <1>5, <2>2 DEF AnswerCloses
  <2>3. CASE AnswerSaid(n)
    BY <1>6, <2>3 DEF AnswerSaid
  <2> QED BY <1>7, <2>1, <2>2, <2>3 DEF AnswerHeard
<1>8. CASE NoAnswer(n)
  BY <1>1, <1>5, <1>6, <1>8 DEF NoAnswer
<1> QED BY <1>7, <1>8

LEMMA OthersKeep == ASSUME PageInv, Meanwhile PROVE PageInv'
<1>1. UNCHANGED <<seen, dialog, kept, asked, awaiting, opened, retyped>> /\ ~books.cancelled
  BY DEF Meanwhile
<1>2. PageTypes /\ books \in BookRows /\ awaiting \subseteq AskNumbers
  BY DEF PageInv, PageTypes
<1>3. /\ books.owed \in Nat /\ books.credit \in Nat /\ books.return \in Nat
      /\ books.version \in Nat /\ books.payments \subseteq Nat
  BY <1>2 DEF BookRows
<1>4. /\ books' \in BookRows /\ books'.return \in {books.return, 0}
      /\ books'.payments \subseteq books.payments /\ books'.cancelled = books.cancelled
  <2>1. CASE books.owed > 0 /\ books' = [books EXCEPT !.owed = @ - 1]
    <3>1. books.owed - 1 \in Nat
      BY <1>3, <2>1
    <3> QED BY <1>2, <2>1, <3>1 DEF BookRows
  <2>2. CASE books.credit > 0 /\ books' = [books EXCEPT !.credit = @ - 1]
    <3>1. books.credit - 1 \in Nat
      BY <1>3, <2>2
    <3> QED BY <1>2, <2>2, <3>1 DEF BookRows
  <2>3. CASE books' = [books EXCEPT !.return = 0]
    BY <1>2, <2>3 DEF BookRows
  <2>4. ASSUME NEW p \in books.payments,
               books' = [books EXCEPT !.owed = @ + AmountOf(p), !.payments = @ \ {p}]
        PROVE  /\ books' \in BookRows /\ books'.return \in {books.return, 0}
               /\ books'.payments \subseteq books.payments /\ books'.cancelled = books.cancelled
    <3>1. AmountOf(p) \in Nat
      <4>1. p = 0 \/ p \in AskNumbers
        BY DEF PageInv, PaymentsTakenOnce, PaymentsSoFar
      <4>2. p \in AskNumbers => asked[p] \in Requested
        BY <1>2 DEF PageTypes, AskNumbers
      <4>3. p \in AskNumbers => asked[p].amount \in Nat
        BY <4>2 DEF Requested
      <4> QED BY <4>1, <4>3 DEF AmountOf
    <3>2. PICK owing \in Nat : owing = books.owed + AmountOf(p)
      BY <1>3, <3>1
    <3>3. books' = [books EXCEPT !.owed = owing, !.payments = books.payments \ {p}]
      BY <2>4, <3>2
    <3> QED BY <1>2, <1>3, <3>3 DEF BookRows
  <2>5. CASE books' = [books EXCEPT !.version = @ + 1]
    <3>1. books.version + 1 \in Nat
      BY <1>3
    <3> QED BY <1>2, <2>5, <3>1 DEF BookRows
  <2>6. \/ books.owed > 0 /\ books' = [books EXCEPT !.owed = @ - 1]
        \/ books.credit > 0 /\ books' = [books EXCEPT !.credit = @ - 1]
        \/ books.return # 0 /\ books' = [books EXCEPT !.return = 0]
        \/ \E p \in books.payments :
              books' = [books EXCEPT !.owed = @ + AmountOf(p), !.payments = @ \ {p}]
        \/ books' = [books EXCEPT !.version = @ + 1]
    BY Zenon DEF Meanwhile
  <2> QED BY <2>1, <2>2, <2>3, <2>4, <2>5, <2>6
<1>5. AskedStay /\ ShownWhileSaved'
  BY <1>1, <1>2 DEF AskedStay, PageTypes, AskNumbers, PageInv, ShownWhileSaved
<1> QED BY <1>1, <1>2, <1>4, <1>5, QuietPageKeeps

LEMMA ReadKeeps == ASSUME PageInv, ReadOrderAgain PROVE PageInv'
<1>1. /\ UNCHANGED <<books, kept, asked, awaiting, opened, retyped>> /\ seen' = books
      /\ dialog' \in {dialog, NoDialog} /\ dialog.kind # "saved"
  BY DEF ReadOrderAgain, Held
<1>2. PageTypes /\ books \in BookRows /\ awaiting \subseteq AskNumbers
  BY DEF PageInv, PageTypes
<1>3. AskedStay
  BY <1>1, <1>2 DEF AskedStay, PageTypes
<1>4. ShownWhileSaved'
  BY <1>1, <1>2 DEF PageInv, ShownWhileSaved, NoDialog, AskNumbers
<1> QED BY <1>1, <1>2, <1>3, <1>4, QuietPageKeeps

LEMMA CloseKeeps == ASSUME PageInv, CloseDialog PROVE PageInv'
<1>1. UNCHANGED <<books, seen, kept, awaiting, opened, retyped>> /\ dialog' = NoDialog
  BY DEF CloseDialog
<1>2. PageTypes /\ books \in BookRows /\ awaiting \subseteq AskNumbers /\ asked \in Seq(Requested)
  BY DEF PageInv, PageTypes
<1>3. CASE dialog.kind # "saved"
  <2>1. asked' = asked
    BY <1>3 DEF CloseDialog
  <2>2. AskedStay
    BY <1>2, <2>1 DEF AskedStay
  <2>3. ShownWhileSaved'
    BY <1>1, <1>3, <2>1 DEF PageInv, ShownWhileSaved, NoDialog, AskNumbers
  <2> QED BY <1>1, <1>2, <2>2, <2>3, QuietPageKeeps
<1>4. CASE dialog.kind = "saved"
  <2>1. PICK n \in AskNumbers : n = dialog.about
    BY <1>4 DEF PageInv, ShownWhileSaved
  <2>2. PICK ask \in Requested : ask = asked[n]
    BY <1>2, <2>1 DEF AskNumbers
  <2>3. PICK now : now = [ask EXCEPT !.shown = "closed"]
    OBVIOUS
  <2>4. /\ now \in Requested /\ now.kind = ask.kind /\ now.opening = ask.opening
        /\ now.about = ask.about /\ now.key = ask.key /\ now.typed = ask.typed
        /\ now.outcome = ask.outcome /\ now.amount = ask.amount /\ now.shown = "closed"
    BY <2>2, <2>3 DEF Requested
  <2>5. asked' = [asked EXCEPT ![n] = now]
    BY <1>4, <2>1, <2>2, <2>3 DEF CloseDialog
  <2>6. asked' \in Seq(Requested) /\ Len(asked') = Len(asked)
        /\ asked'[n] = now /\ \A m \in AskNumbers : m # n => asked'[m] = asked[m]
    BY <1>2, <2>4, <2>5 DEF AskNumbers
  <2>7. AskedStay /\ AskNumbers' = AskNumbers
    BY <2>2, <2>4, <2>6 DEF AskedStay, AskNumbers
  <2>8. ShownWhileSaved'
    BY <1>1, <2>1, <2>4, <2>6, <2>7 DEF PageInv, ShownWhileSaved, NoDialog
  <2> QED BY <1>1, <1>2, <2>7, <2>8, QuietPageKeeps
<1> QED BY <1>3, <1>4

LEMMA OrderPageStep == PageInv /\ [OrderPageNext]_orderPageVars => PageInv'
<1> SUFFICES ASSUME PageInv, [OrderPageNext]_orderPageVars PROVE PageInv'
  OBVIOUS
<1>1. ASSUME NEW amount \in 1 .. MostOwed, Retype(amount) PROVE PageInv'
  <2>1. amount \in Nat
    BY OrderPageAssumption
  <2> QED BY <1>1, <2>1, RetypeKeeps
<1>2. CASE UNCHANGED orderPageVars
  BY <1>2 DEF PageInv, orderPageVars, PageTypes, KeysKept, SameAsk, OneDonePerKey, ReturnsTakenOnce,
     PaymentsTakenOnce, CancelledOnce, ShownWhileSaved, ReturnsSoFar, PaymentsSoFar, AskNumbers, Done
<1>3. ASSUME NEW n \in 1 .. Len(asked), ServeAsked(n) \/ AskedFails(n) PROVE PageInv'
  BY <1>3, ServeAskKeeps DEF AskNumbers
<1> QED BY <1>1, <1>2, <1>3, OpeningsKeep, AskKeeps, OthersKeep, ReadKeeps, CloseKeeps, AnswerKeeps
        DEF OrderPageNext

(* The property from the invariant: two asked alike have one key, and one   *)
(* key is worked once.                                                      *)
LEMMA PageInvImplies == PageInv => WorkedOnceAndShown
<1> SUFFICES ASSUME PageInv PROVE WorkedOnceAndShown
  OBVIOUS
<1>1. books.owed \in Nat /\ books.credit \in Nat
  BY DEF PageInv, PageTypes, BookRows
<1>2. ASSUME NEW m \in DoneOf(Keyed), NEW n \in DoneOf(Keyed),
             asked[m].opening = asked[n].opening, asked[m].typed = asked[n].typed
      PROVE  m = n
  BY <1>2 DEF PageInv, KeysKept, SameAsk, OneDonePerKey, DoneOf, Done, AskNumbers
<1>3. ASSUME NEW m \in DoneOf({"correct", "deleteReturn"}) \cup DoneOf({"cancel"}),
             NEW n \in DoneOf({"correct", "deleteReturn"}) \cup DoneOf({"cancel"}),
             asked[m].about = asked[n].about,
             (asked[m].kind = "cancel") = (asked[n].kind = "cancel")
      PROVE  m = n
  <2>1. CASE m \in DoneOf({"cancel"})
    BY <1>3, <2>1 DEF PageInv, CancelledOnce, DoneOf, Done, AskNumbers
  <2>2. CASE m \notin DoneOf({"cancel"})
    BY <1>3, <2>2 DEF PageInv, ReturnsTakenOnce, ReturnKinds, DoneOf, Done, AskNumbers
  <2> QED BY <2>1, <2>2
<1>4. ASSUME NEW m \in DoneOf({"deletePayment"}), NEW n \in DoneOf({"deletePayment"}),
             asked[m].about = asked[n].about
      PROVE  m = n
  BY <1>4 DEF PageInv, PaymentsTakenOnce, DoneOf, Done, AskNumbers
<1>5. \A n \in 1 .. Len(asked) : asked[n].shown = "now" => dialog.kind = "saved" /\ dialog.about = n
  BY DEF PageInv, ShownWhileSaved, AskNumbers
<1> QED BY <1>1, <1>2, <1>3, <1>4, <1>5 DEF WorkedOnceAndShown

(* However answers are lost, late or repeated and whatever others do, what  *)
(* is asked from the order page is worked once, never more is paid or given *)
(* back than was owed, and what was saved stays shown until it is closed    *)
(* (payment-form.tsx, pallet-credits.tsx, return-form.tsx, the order page). *)
THEOREM PageWorksOnce == OrderPageSpec => []WorkedOnceAndShown
<1>1. PageInv => WorkedOnceAndShown
  BY PageInvImplies
<1>2. OrderPageInit => PageInv
  BY OrderPageInitially
<1>3. PageInv /\ [OrderPageNext]_orderPageVars => PageInv'
  BY OrderPageStep
<1> QED BY <1>1, <1>2, <1>3, PTL DEF OrderPageSpec

(* What the screens and the requests under way hold. *)
Contents  == [Fields -> Inputs]
RowsHeld  == [fields : Contents, version : Nat, archived : BOOLEAN]
FormShape(at, ids) ==
    [at : at, id : ids, cached : RowsHeld, shown : Contents, version : Nat, typed : Contents,
     first : BOOLEAN, asking : BOOLEAN, asked : Contents]
ShownLooking == [at : {"looking"}, id : Ids, cached : RowsHeld]
ScreenShapes == {Away} \cup ShownLooking \cup FormShape({"editing"}, Ids) \cup FormShape({"new"}, {0})
SentShape(ops, ids) ==
    [at : {"sent", "checked"}, screen : Screens, form : BOOLEAN, heard : BOOLEAN, op : ops,
     id : ids, sent : SUBSET Fields, body : Contents, confirm : BOOLEAN, version : Nat,
     seen : Contents]
AnsweredShape(answers, ids) ==
    [at : {"answered"}, screen : Screens, form : BOOLEAN,
     op : {"create", "update", "archive", "reset"}, id : ids, sent : SUBSET Fields,
     answer : answers, body : Contents]
Refusals == {"duplicate", "archived", "conflict", "error"}
SaveShapes ==
    {NoSave} \cup SentShape({"create"}, {0}) \cup SentShape({"update", "archive", "reset"}, Ids)
    \cup AnsweredShape({"saved"}, Ids) \cup AnsweredShape(Refusals, Ids \cup {0})
RecordsTyped ==
    /\ kind \in Kinds
    /\ records \in [Ids -> RowsHeld]
    /\ screens \in [Screens -> ScreenShapes]
    /\ clash \in [Screens -> Ids \cup {0}]
    /\ saves \in [SaveIds -> SaveShapes]

LEMMA BlankIsInput == Blank \in Inputs /\ NoRecord \in RowsHeld /\ NoRecord.fields \in Contents
<1>1. Blank \in Inputs
  BY RecordsAssumption DEF Blank
<1>2. [f \in Fields |-> Blank] \in Contents
  BY <1>1 DEF Contents
<1> QED BY <1>1, <1>2 DEF NoRecord, RowsHeld

LEMMA ScreenCases ==
  ASSUME RecordsTyped, NEW s \in Screens
  PROVE  \/ screens[s] = Away
         \/ screens[s] \in ShownLooking /\ screens[s].at = "looking" /\ screens[s].id \in Ids
              /\ screens[s].cached \in RowsHeld
         \/ screens[s] \in FormShape({"editing"}, Ids) /\ screens[s].at = "editing" /\ screens[s].id \in Ids
         \/ screens[s] \in FormShape({"new"}, {0}) /\ screens[s].at = "new" /\ screens[s].id = 0
BY DEF RecordsTyped, ScreenShapes, ShownLooking, FormShape

LEMMA SaveCases ==
  ASSUME RecordsTyped, NEW c \in SaveIds
  PROVE  \/ saves[c] = NoSave
         \/ saves[c] \in SentShape({"create"}, {0}) /\ saves[c].op = "create"
              /\ saves[c].at \in {"sent", "checked"} /\ saves[c].id = 0
         \/ saves[c] \in SentShape({"update", "archive", "reset"}, Ids)
              /\ saves[c].op \in {"update", "archive", "reset"} /\ saves[c].id \in Ids
              /\ saves[c].at \in {"sent", "checked"}
         \/ saves[c] \in AnsweredShape({"saved"}, Ids) /\ saves[c].at = "answered"
              /\ saves[c].answer = "saved" /\ saves[c].id \in Ids
         \/ saves[c] \in AnsweredShape(Refusals, Ids \cup {0}) /\ saves[c].at = "answered"
              /\ saves[c].answer \in Refusals /\ saves[c].id \in Ids \cup {0}
BY DEF RecordsTyped, SaveShapes, SentShape, AnsweredShape

(* The shapes the helpers build. *)
LEMMA EmptyBuilt == EmptyForm \in FormShape({"new"}, {0}) /\ EmptyForm \in ScreenShapes
<1>1. EmptyForm \in FormShape({"new"}, {0})
  <2>1. NoRecord.version \in Nat
    BY BlankIsInput DEF RowsHeld
  <2> QED BY <2>1, BlankIsInput DEF EmptyForm, Form, FormShape
<1> QED BY <1>1 DEF ScreenShapes

LEMMA FormsBuilt ==
  ASSUME NEW r \in Ids, NEW found \in RowsHeld, NEW first \in BOOLEAN
  PROVE  /\ Looking(r, found) \in ShownLooking
         /\ Form(r, found, first) \in FormShape({"editing"}, Ids)
         /\ {Looking(r, found), Form(r, found, first)} \subseteq ScreenShapes
<1>1. found.fields \in Contents /\ found.version \in Nat
  BY DEF RowsHeld
<1>2. Looking(r, found) \in ShownLooking
  BY DEF Looking, ShownLooking
<1>3. Form(r, found, first) \in FormShape({"editing"}, Ids)
  BY <1>1 DEF Form, FormShape
<1> QED BY <1>2, <1>3 DEF ScreenShapes

LEMMA RemountedBuilt ==
  ASSUME RecordsTyped, NEW s \in Screens, NEW found \in RowsHeld, screens[s].at = "editing"
  PROVE  Remounted(s, found) \in ScreenShapes
<1>1. screens[s] \in FormShape({"editing"}, Ids) /\ screens[s].id \in Ids
  BY ScreenCases DEF Away
<1>2. [screens[s] EXCEPT !.cached = found, !.first = FALSE] \in FormShape({"editing"}, Ids)
  BY <1>1 DEF FormShape
<1> QED BY <1>1, <1>2, FormsBuilt DEF Remounted, ScreenShapes

LEMMA RefreshedBuilt ==
  ASSUME RecordsTyped, NEW s \in Screens
  PROVE  Refreshed(s) \in ScreenShapes
<1>1. CASE screens[s].at = "looking"
  <2>1. screens[s] \in ShownLooking /\ records[screens[s].id] \in RowsHeld
    BY <1>1, ScreenCases DEF RecordsTyped, Away
  <2>2. [screens[s] EXCEPT !.cached = records[screens[s].id]] \in ShownLooking
    BY <2>1 DEF ShownLooking
  <2> QED BY <1>1, <2>2 DEF Refreshed, ScreenShapes
<1>2. CASE screens[s].at = "editing"
  <2>1. screens[s] \in FormShape({"editing"}, Ids) /\ records[screens[s].id] \in RowsHeld
    BY <1>2, ScreenCases DEF RecordsTyped, Away
  <2>2. [screens[s] EXCEPT !.cached = records[screens[s].id]] \in FormShape({"editing"}, Ids)
    BY <2>1 DEF FormShape
  <2>3. Remounted(s, records[screens[s].id]) \in ScreenShapes
    BY <1>2, <2>1, RemountedBuilt
  <2>4. CASE InDialog
    BY <1>2, <2>2, <2>4 DEF Refreshed, ScreenShapes
  <2>5. CASE ~InDialog
    BY <1>2, <2>3, <2>5 DEF Refreshed
  <2> QED BY <2>4, <2>5
<1>3. CASE screens[s].at \notin {"looking", "editing"}
  BY <1>3 DEF Refreshed, RecordsTyped
<1> QED BY <1>1, <1>2, <1>3

LEMMA OrphanedBuilt ==
  ASSUME RecordsTyped, NEW s
  PROVE  /\ Orphaned(s) \in [SaveIds -> SaveShapes]
         /\ \A c \in SaveIds : \/ Orphaned(s)[c] = saves[c]
                               \/ saves[c] # NoSave
                                    /\ Orphaned(s)[c] = [saves[c] EXCEPT !.form = FALSE]
<1>1. \A c \in SaveIds : \/ Orphaned(s)[c] = saves[c]
                         \/ saves[c] # NoSave
                              /\ Orphaned(s)[c] = [saves[c] EXCEPT !.form = FALSE]
  BY DEF Orphaned, Mine, NoSave
<1>2. ASSUME NEW c \in SaveIds, saves[c] # NoSave
      PROVE  [saves[c] EXCEPT !.form = FALSE] \in SaveShapes
  <2>1. CASE saves[c] \in SentShape({"create"}, {0})
    <3>1. [saves[c] EXCEPT !.form = FALSE] \in SentShape({"create"}, {0})
      BY <2>1 DEF SentShape
    <3> QED BY <3>1 DEF SaveShapes
  <2>2. CASE saves[c] \in SentShape({"update", "archive", "reset"}, Ids)
    <3>1. [saves[c] EXCEPT !.form = FALSE] \in SentShape({"update", "archive", "reset"}, Ids)
      BY <2>2 DEF SentShape
    <3> QED BY <3>1 DEF SaveShapes
  <2>3. CASE saves[c] \in AnsweredShape({"saved"}, Ids)
    <3>1. [saves[c] EXCEPT !.form = FALSE] \in AnsweredShape({"saved"}, Ids)
      BY <2>3 DEF AnsweredShape
    <3> QED BY <3>1 DEF SaveShapes
  <2>4. CASE saves[c] \in AnsweredShape(Refusals, Ids \cup {0})
    <3>1. [saves[c] EXCEPT !.form = FALSE] \in AnsweredShape(Refusals, Ids \cup {0})
      BY <2>4 DEF AnsweredShape
    <3> QED BY <3>1 DEF SaveShapes
  <2> QED BY <1>2, <2>1, <2>2, <2>3, <2>4, SaveCases
<1>3. \A c \in SaveIds : Orphaned(s)[c] \in SaveShapes
  BY <1>1, <1>2 DEF RecordsTyped
<1>4. Orphaned(s) = [c \in SaveIds |-> Orphaned(s)[c]]
  BY DEF Orphaned
<1> QED BY <1>1, <1>3, <1>4

LEMMA AnswerBuilt ==
  ASSUME RecordsTyped, NEW c \in SaveIds, saves[c].at \in {"sent", "checked"},
         NEW answer, NEW id,
         \/ answer = "saved" /\ id \in Ids
         \/ answer \in Refusals /\ id \in Ids \cup {0}
  PROVE  /\ Answered(c, answer, id) \in [SaveIds -> SaveShapes]
         /\ Answered(c, answer, id)[c].at \in {"none", "answered"}
         /\ \A d \in SaveIds \ {c} : Answered(c, answer, id)[d] = saves[d]
<1>1. /\ saves[c].screen \in Screens /\ saves[c].form \in BOOLEAN /\ saves[c].sent \in SUBSET Fields
      /\ saves[c].op \in {"create", "update", "archive", "reset"} /\ saves[c].body \in Contents
  <2>1. \/ saves[c] \in SentShape({"create"}, {0})
        \/ saves[c] \in SentShape({"update", "archive", "reset"}, Ids)
    BY SaveCases DEF NoSave
  <2> QED BY <2>1 DEF SentShape
<1>2. Answer(saves[c], answer, id) \in
          {NoSave} \cup AnsweredShape({"saved"}, Ids) \cup AnsweredShape(Refusals, Ids \cup {0})
  <2>1. (IF answer = "duplicate" THEN saves[c].body ELSE NoRecord.fields) \in Contents
    BY <1>1, BlankIsInput
  <2>2. CASE answer = "saved" /\ id \in Ids
    BY <1>1, <2>1, <2>2 DEF Answer, AnsweredShape
  <2>3. CASE answer \in Refusals /\ id \in Ids \cup {0}
    BY <1>1, <2>1, <2>3 DEF Answer, AnsweredShape
  <2> QED BY <2>2, <2>3
<1>3. Answer(saves[c], answer, id) \in SaveShapes /\ Answer(saves[c], answer, id).at \in {"none", "answered"}
  BY <1>2 DEF SaveShapes, NoSave, AnsweredShape
<1> QED BY <1>3 DEF Answered, RecordsTyped

LEMMA ScreenSet ==
  ASSUME RecordsTyped, NEW s \in Screens, NEW screen \in ScreenShapes
  PROVE  [screens EXCEPT ![s] = screen] \in [Screens -> ScreenShapes]
BY DEF RecordsTyped
LEMMA SaveSet ==
  ASSUME RecordsTyped, NEW c \in SaveIds, NEW save \in SaveShapes
  PROVE  [saves EXCEPT ![c] = save] \in [SaveIds -> SaveShapes]
BY DEF RecordsTyped

(* What pressing and reading does to the one screen.                       *)
LEMMA FormFields ==
  ASSUME RecordsTyped, NEW s \in Screens, screens[s].at \in {"editing", "new"}
  PROVE  /\ screens[s].shown \in Contents /\ screens[s].typed \in Contents
         /\ screens[s].asked \in Contents /\ screens[s].version \in Nat
         /\ screens[s].cached \in RowsHeld /\ screens[s].id \in Ids \cup {0}
         /\ screens[s].at = "editing" => screens[s].id \in Ids
         /\ screens[s].at = "new" => screens[s].id = 0
         /\ \A f \in Fields, v \in Inputs : [screens[s] EXCEPT !.typed[f] = v] \in ScreenShapes
         /\ \A asking \in BOOLEAN, held \in Contents :
               [screens[s] EXCEPT !.asking = asking, !.asked = held] \in ScreenShapes
<1>1. CASE screens[s] \in FormShape({"editing"}, Ids)
  <2>1. \A f \in Fields, v \in Inputs : [screens[s] EXCEPT !.typed[f] = v] \in FormShape({"editing"}, Ids)
    BY <1>1 DEF FormShape, Contents
  <2>2. \A asking \in BOOLEAN, held \in Contents :
           [screens[s] EXCEPT !.asking = asking, !.asked = held] \in FormShape({"editing"}, Ids)
    BY <1>1 DEF FormShape
  <2> QED BY <1>1, <2>1, <2>2 DEF FormShape, ScreenShapes
<1>2. CASE screens[s] \in FormShape({"new"}, {0})
  <2>1. \A f \in Fields, v \in Inputs : [screens[s] EXCEPT !.typed[f] = v] \in FormShape({"new"}, {0})
    BY <1>2 DEF FormShape, Contents
  <2>2. \A asking \in BOOLEAN, held \in Contents :
           [screens[s] EXCEPT !.asking = asking, !.asked = held] \in FormShape({"new"}, {0})
    BY <1>2 DEF FormShape
  <2> QED BY <1>2, <2>1, <2>2 DEF FormShape, ScreenShapes
<1>3. \/ screens[s] \in FormShape({"editing"}, Ids)
      \/ screens[s] \in FormShape({"new"}, {0})
  <2>1. screens[s] # Away /\ screens[s].at # "looking"
    BY DEF Away
  <2> QED BY <2>1, ScreenCases
<1> QED BY ONLY <1>1, <1>2, <1>3

LEMMA RequestBuilt ==
  ASSUME RecordsTyped, NEW s \in Screens, NEW op, NEW sent \in SUBSET Fields, NEW body \in Contents,
         NEW confirm \in BOOLEAN, NEW c \in SaveIds,
         \/ op = "create" /\ screens[s].at = "new"
         \/ op = "update" /\ screens[s].at = "editing"
         \/ op \in {"archive", "reset"} /\ screens[s].at \in {"looking", "editing"}
  PROVE  [at |-> "sent", screen |-> s, form |-> screens[s].at # "looking", heard |-> TRUE, op |-> op,
          id |-> screens[s].id, sent |-> sent, body |-> body, confirm |-> confirm,
          version |-> NamedVersion(s),
          seen |-> IF screens[s].at = "looking" THEN NoRecord.fields ELSE screens[s].shown] \in SaveShapes
<1>1. NamedVersion(s) \in Nat
  <2>1. screens[s].cached \in RowsHeld
    <3>1. CASE screens[s].at = "looking"
      BY <3>1, ScreenCases DEF Away
    <3> QED BY <3>1, FormFields
  <2>2. screens[s].cached.version \in Nat
    BY <2>1 DEF RowsHeld
  <2> QED BY <2>2, FormFields DEF NamedVersion
<1>2. (IF screens[s].at = "looking" THEN NoRecord.fields ELSE screens[s].shown) \in Contents
  BY FormFields, BlankIsInput
<1>3. (op = "create" /\ screens[s].id = 0) \/ (op \in {"update", "archive", "reset"} /\ screens[s].id \in Ids)
  BY ScreenCases DEF Away
<1>4. (screens[s].at # "looking") \in BOOLEAN
  OBVIOUS
<1> QED BY <1>1, <1>2, <1>3, <1>4 DEF SaveShapes, SentShape

(* A request that still holds a form finds it open.                        *)
FormsOpen ==
    \A c \in SaveIds : saves[c].at # "none" /\ saves[c].form =>
        screens[saves[c].screen].at \in {"editing", "new"}

LEMMA AfterAnswerBuilt ==
  ASSUME RecordsTyped, FormsOpen, NEW c \in SaveIds, saves[c].at = "answered"
  PROVE  saves[c].screen \in Screens /\ AfterAnswer(saves[c].screen, c) \in ScreenShapes
<1>1. PICK s : s = saves[c].screen
  OBVIOUS
<1>2. \/ saves[c] \in AnsweredShape({"saved"}, Ids) /\ saves[c].answer = "saved" /\ saves[c].id \in Ids
      \/ saves[c] \in AnsweredShape(Refusals, Ids \cup {0}) /\ saves[c].answer # "saved"
  <2>1. saves[c] # NoSave /\ saves[c].at \notin {"sent", "checked"}
    BY DEF NoSave
  <2>2. "saved" \notin Refusals
    BY DEF Refusals
  <2> QED BY <2>1, <2>2, SaveCases
<1>3. s \in Screens /\ saves[c].body \in Contents
  BY <1>1, <1>2 DEF AnsweredShape
<1>4. saves[c].form \in BOOLEAN /\ Refreshed(s) \in ScreenShapes /\ screens[s] \in ScreenShapes
  BY <1>2, <1>3, RefreshedBuilt DEF AnsweredShape, RecordsTyped
<1>5. screens[s].at = "editing" =>
         /\ Looking(screens[s].id, records[screens[s].id]) \in ScreenShapes
         /\ Looking(screens[s].id, screens[s].cached) \in ScreenShapes
  <2> SUFFICES ASSUME screens[s].at = "editing"
               PROVE /\ Looking(screens[s].id, records[screens[s].id]) \in ScreenShapes
                     /\ Looking(screens[s].id, screens[s].cached) \in ScreenShapes
    OBVIOUS
  <2>1. screens[s].id \in Ids /\ screens[s].cached \in RowsHeld /\ records[screens[s].id] \in RowsHeld
    BY <1>3, FormFields DEF RecordsTyped
  <2> QED BY <2>1, FormsBuilt
<1>6. saves[c].answer = "saved" => AfterSave(s, c) \in ScreenShapes
  <2> SUFFICES ASSUME saves[c].answer = "saved" PROVE AfterSave(s, c) \in ScreenShapes
    OBVIOUS
  <2>1. PICK toRecord : toRecord = Looking(saves[c].id, records[saves[c].id])
    OBVIOUS
  <2>2. toRecord \in ScreenShapes
    <3>1. saves[c].id \in Ids /\ records[saves[c].id] \in RowsHeld
      BY <1>2 DEF RecordsTyped
    <3> QED BY <2>1, <3>1, FormsBuilt
  <2>3. AfterSave(s, c) \in {toRecord, Refreshed(s)} \/ (screens[s].at = "editing" /\
           AfterSave(s, c) = Looking(screens[s].id, records[screens[s].id]))
    BY <2>1 DEF AfterSave
  <2> QED BY <1>4, <1>5, <2>2, <2>3
<1>7. saves[c].form => [screens[s] EXCEPT !.asking = TRUE, !.asked = saves[c].body] \in ScreenShapes
  BY <1>1, <1>3, FormFields DEF FormsOpen
<1>8. AfterAnswer(s, c) \in ScreenShapes
  BY <1>4, <1>5, <1>6, <1>7 DEF AfterAnswer
<1> QED BY <1>1, <1>3, <1>8

LEMMA ScreensStayTyped ==
  ASSUME RecordsTyped, NEW s \in Screens,
         Press(s) \/ Refocus(s) \/ FirstRead(s) \/ Reload(s) \/ KeepEditing(s)
  PROVE  RecordsTyped'
<1>1. ASSUME NEW r \in Ids, Look(s, r) PROVE RecordsTyped'
  <2>1. records[r] \in RowsHeld
    BY DEF RecordsTyped
  <2> QED BY <1>1, <2>1, FormsBuilt, ScreenSet DEF Look, RecordsTyped, tables
<1>2. CASE OpenForm(s)
  <2>1. screens[s].id \in Ids /\ screens[s].cached \in RowsHeld
    <3>1. screens[s].at = "looking"
      BY <1>2 DEF OpenForm
    <3> QED BY <3>1, ScreenCases DEF Away
  <2>2. (~InDialog) \in BOOLEAN
    BY DEF InDialog
  <2> QED BY <1>2, <2>1, <2>2, FormsBuilt, ScreenSet DEF OpenForm, RecordsTyped, tables
<1>3. CASE OpenNew(s)
  <2> QED BY <1>3, EmptyBuilt, ScreenSet DEF OpenNew, RecordsTyped, tables
<1>4. CASE Leave(s)
  <2>1. Away \in ScreenShapes
    BY DEF ScreenShapes
  <2> QED BY <1>4, <2>1, ScreenSet, OrphanedBuilt DEF Leave, RecordsTyped, tables
<1>5. ASSUME NEW f \in Fields, NEW v \in Inputs, TypeInto(s, f, v) PROVE RecordsTyped'
  <2>1. [screens[s] EXCEPT !.typed[f] = v] \in ScreenShapes
    BY <1>5, FormFields DEF TypeInto
  <2>2. screens' = [screens EXCEPT ![s] = [screens[s] EXCEPT !.typed[f] = v]]
    BY <1>5 DEF TypeInto
  <2> QED BY <1>5, <2>1, <2>2, ScreenSet DEF TypeInto, RecordsTyped, tables
<1>6. CASE SaveForm(s)
  <2>1. \A sent \in Sendable(s) : sent \in SUBSET Fields
    BY DEF Sendable, OrderSends, CardsSend, Edited, Fields
  <2>2. screens[s].typed \in Contents
    BY <1>6, FormFields DEF SaveForm
  <2>3. PICK sent \in Sendable(s), op \in {"create", "update"} :
           /\ op = IF screens[s].at = "new" THEN "create" ELSE "update"
           /\ SendRequest(s, op, sent, screens[s].typed, FALSE)
    BY <1>6 DEF SaveForm
  <2>4. \E c \in SaveIds, save \in SaveShapes : saves' = [saves EXCEPT ![c] = save]
    BY <1>6, <2>1, <2>2, <2>3, RequestBuilt DEF SaveForm, SendRequest
  <2> QED BY <1>6, <2>4, SaveSet DEF SaveForm, RecordsTyped, tables
<1>7. CASE SaveAnyway(s)
  <2>1. screens[s].asked \in Contents
    BY <1>7, FormFields DEF SaveAnyway
  <2>2. PICK op :
           /\ op = IF screens[s].at = "new" THEN "create" ELSE "update"
           /\ SendRequest(s, op, Fields, screens[s].asked, TRUE)
    BY <1>7 DEF SaveAnyway
  <2>3. \E c \in SaveIds, save \in SaveShapes : saves' = [saves EXCEPT ![c] = save]
    <3>1. \/ op = "create" /\ screens[s].at = "new"
          \/ op = "update" /\ screens[s].at = "editing"
      BY <1>7, <2>2 DEF SaveAnyway
    <3>2. Fields \in SUBSET Fields /\ TRUE \in BOOLEAN
      OBVIOUS
    <3> QED BY <2>1, <2>2, <3>1, <3>2, RequestBuilt DEF SendRequest
  <2> QED BY <1>7, <2>3, SaveSet DEF SaveAnyway, RecordsTyped, tables
<1>8. CASE BackToForm(s)
  <2>1. [screens[s] EXCEPT !.asking = FALSE, !.asked = screens[s].shown] \in ScreenShapes
    BY <1>8, FormFields DEF BackToForm
  <2>2. screens' = [screens EXCEPT ![s] = [screens[s] EXCEPT !.asking = FALSE, !.asked = screens[s].shown]]
    BY <1>8 DEF BackToForm, RecordsTyped
  <2> QED BY <1>8, <2>1, <2>2, ScreenSet DEF BackToForm, RecordsTyped, tables
<1>9. CASE PressArchive(s)
  <2>1. \E c \in SaveIds, save \in SaveShapes : saves' = [saves EXCEPT ![c] = save]
    BY <1>9, BlankIsInput, RequestBuilt DEF PressArchive, SendRequest
  <2> QED BY <1>9, <2>1, SaveSet DEF PressArchive, RecordsTyped, tables
<1>10. CASE ResetPassword(s)
  <2>1. \E c \in SaveIds, save \in SaveShapes : saves' = [saves EXCEPT ![c] = save]
    BY <1>10, BlankIsInput, RequestBuilt DEF ResetPassword, SendRequest
  <2> QED BY <1>10, <2>1, SaveSet DEF ResetPassword, RecordsTyped, tables
<1>11. CASE Refocus(s)
  <2>1. [screens[s] EXCEPT !.cached = records[screens[s].id]] \in ScreenShapes
    <3>1. [screens[s] EXCEPT !.cached = records[screens[s].id]] = Refreshed(s)
      BY <1>11 DEF Refocus, Refreshed
    <3> QED BY <3>1, RefreshedBuilt
  <2>2. screens' = [screens EXCEPT ![s] = [screens[s] EXCEPT !.cached = records[screens[s].id]]]
    BY <1>11 DEF Refocus
  <2> QED BY <1>11, <2>1, <2>2, ScreenSet DEF Refocus, RecordsTyped, tables
<1>12. CASE FirstRead(s)
  BY <1>12, RefreshedBuilt, ScreenSet, OrphanedBuilt DEF FirstRead, RecordsTyped, tables
<1>13. CASE Reload(s)
  <2>1. Reloaded(s) \in ScreenShapes
    <3>1. Shows(s, clash[s]) => clash[s] \in Ids /\ records[clash[s]] \in RowsHeld
      <4>1. Shows(s, clash[s]) => screens[s].id \in Ids
        BY ScreenCases DEF Shows, Away
      <4> QED BY <4>1 DEF Shows, RecordsTyped
    <3> QED BY <3>1, FormsBuilt, RefreshedBuilt DEF Reloaded, RecordsTyped
  <2>2. clash' \in [Screens -> Ids \cup {0}]
    BY <1>13 DEF Reload, RecordsTyped
  <2> QED BY <1>13, <2>1, <2>2, ScreenSet, OrphanedBuilt DEF Reload, RecordsTyped, tables
<1>14. CASE KeepEditing(s)
  BY <1>14 DEF KeepEditing, RecordsTyped, tables
<1> QED BY <1>1, <1>2, <1>3, <1>4, <1>5, <1>6, <1>7, <1>8, <1>9, <1>10, <1>11, <1>12, <1>13, <1>14
        DEF Press

LEMMA RequestsStayTyped ==
  ASSUME RecordsTyped, FormsOpen, NEW c \in SaveIds,
         Judge(c) \/ CommitSave(c) \/ RollBack(c) \/ LoseAnswer(c) \/ Hear(c)
  PROVE  RecordsTyped'
<1>1. CASE Judge(c)
  <2>1. Verdict(c) # "go" => Verdict(c) \in Refusals \/ (Verdict(c) = "saved" /\ saves[c].op # "create")
    BY DEF Verdict, Refusals
  <2>2. saves[c].at = "sent" /\ saves[c].id \in Ids \cup {0} /\ (saves[c].op # "create" => saves[c].id \in Ids)
    BY <1>1, SaveCases DEF Judge, NoSave
  <2>3. [saves[c] EXCEPT !.at = "checked"] \in SaveShapes
    <3>1. \/ saves[c] \in SentShape({"create"}, {0})
          \/ saves[c] \in SentShape({"update", "archive", "reset"}, Ids)
      BY <2>2, SaveCases DEF NoSave
    <3>2. \/ [saves[c] EXCEPT !.at = "checked"] \in SentShape({"create"}, {0})
          \/ [saves[c] EXCEPT !.at = "checked"] \in SentShape({"update", "archive", "reset"}, Ids)
      BY <3>1 DEF SentShape
    <3> QED BY <3>2 DEF SaveShapes
  <2>4. saves' \in [SaveIds -> SaveShapes]
    <3>1. CASE Verdict(c) = "go"
      <4>1. saves' = [saves EXCEPT ![c] = [saves[c] EXCEPT !.at = "checked"]]
        BY <1>1, <3>1 DEF Judge
      <4> QED BY <2>3, <4>1, SaveSet
    <3>2. CASE Verdict(c) # "go"
      BY <1>1, <2>1, <2>2, <3>2, AnswerBuilt DEF Judge
    <3> QED BY <3>1, <3>2
  <2> QED BY <1>1, <2>4 DEF Judge, RecordsTyped, tables
<1>2. CASE CommitSave(c)
  <2>1. \/ saves[c] \in SentShape({"create"}, {0}) /\ saves[c].op = "create"
        \/ saves[c] \in SentShape({"update", "archive", "reset"}, Ids) /\ saves[c].id \in Ids
             /\ saves[c].op # "create"
    BY <1>2, SaveCases DEF CommitSave, NoSave
  <2>2. saves[c].body \in Contents
    BY <2>1 DEF SentShape
  <2>3. CASE saves[c].op = "create"
    <3>1. PICK r \in Ids :
             /\ records' = [records EXCEPT ![r] = [fields |-> saves[c].body, version |-> 1, archived |-> FALSE]]
             /\ saves' = Answered(c, "saved", r)
      BY <1>2, <2>3 DEF CommitSave, InsertRecord
    <3>2. [fields |-> saves[c].body, version |-> 1, archived |-> FALSE] \in RowsHeld
      BY <2>2 DEF RowsHeld
    <3>3. saves' \in [SaveIds -> SaveShapes]
      BY <1>2, <3>1, AnswerBuilt DEF CommitSave
    <3> QED BY <1>2, <3>1, <3>2, <3>3 DEF CommitSave, RecordsTyped
  <2>4. CASE saves[c].op # "create"
    <3>1. PICK r \in Ids :
             /\ r = saves[c].id
             /\ records' = [records EXCEPT ![r] = Written(c, records[r])]
             /\ saves' = Answered(c, "saved", r)
      BY <1>2, <2>1, <2>4 DEF CommitSave, WriteRecord
    <3>2. Written(c, records[r]) \in RowsHeld
      <4>1. records[r].fields \in Contents /\ records[r].version \in Nat /\ records[r].archived \in BOOLEAN
        BY DEF RecordsTyped, RowsHeld
      <4>2. [f \in Fields |-> IF f \in ChangedBy(c) THEN saves[c].body[f] ELSE records[r].fields[f]] \in Contents
        BY <2>2, <4>1 DEF Contents
      <4>3. (records[r].archived \/ saves[c].op = "archive") \in BOOLEAN
        OBVIOUS
      <4> QED BY <4>1, <4>2, <4>3 DEF Written, RowsHeld
    <3>3. saves' \in [SaveIds -> SaveShapes]
      BY <1>2, <3>1, AnswerBuilt DEF CommitSave
    <3> QED BY <1>2, <3>1, <3>2, <3>3 DEF CommitSave, RecordsTyped
  <2> QED BY <2>3, <2>4
<1>3. CASE RollBack(c)
  <2>1. saves' \in [SaveIds -> SaveShapes]
    <3>1. saves[c].id \in Ids \cup {0} /\ "error" \in Refusals
      BY <1>3, SaveCases DEF RollBack, NoSave, Refusals
    <3> QED BY <1>3, <3>1, AnswerBuilt DEF RollBack
  <2> QED BY <1>3, <2>1 DEF RollBack, RecordsTyped, tables
<1>4. CASE LoseAnswer(c)
  <2>1. [saves[c] EXCEPT !.heard = FALSE, !.form = FALSE] \in SaveShapes
    <3>1. \/ saves[c] \in SentShape({"create"}, {0})
          \/ saves[c] \in SentShape({"update", "archive", "reset"}, Ids)
      BY <1>4, SaveCases DEF LoseAnswer, NoSave
    <3>2. \/ [saves[c] EXCEPT !.heard = FALSE, !.form = FALSE] \in SentShape({"create"}, {0})
          \/ [saves[c] EXCEPT !.heard = FALSE, !.form = FALSE]
                \in SentShape({"update", "archive", "reset"}, Ids)
      BY <3>1 DEF SentShape
    <3> QED BY <3>2 DEF SaveShapes
  <2>2. saves' = [saves EXCEPT ![c] = [saves[c] EXCEPT !.heard = FALSE, !.form = FALSE]]
    BY <1>4 DEF LoseAnswer, RecordsTyped
  <2> QED BY <1>4, <2>1, <2>2, SaveSet DEF LoseAnswer, RecordsTyped, tables
<1>5. CASE Hear(c)
  <2>1. PICK s \in Screens : s = saves[c].screen /\ AfterAnswer(s, c) \in ScreenShapes
    BY <1>5, AfterAnswerBuilt DEF Hear
  <2>2. /\ screens' = [screens EXCEPT ![s] = AfterAnswer(s, c)]
        /\ clash' = IF saves[c].answer = "conflict" THEN [clash EXCEPT ![s] = saves[c].id] ELSE clash
        /\ saves' = [Orphaned(s) EXCEPT ![c] = NoSave]
    BY <1>5, <2>1 DEF Hear
  <2>3. saves[c].id \in Ids \cup {0}
    BY <1>5, SaveCases DEF Hear, NoSave
  <2>4. clash' \in [Screens -> Ids \cup {0}]
    BY <2>2, <2>3 DEF RecordsTyped
  <2>5. saves' \in [SaveIds -> SaveShapes]
    BY <2>2, OrphanedBuilt DEF SaveShapes
  <2> QED BY <1>5, <2>1, <2>2, <2>4, <2>5, ScreenSet DEF Hear, RecordsTyped, tables
<1> QED BY <1>1, <1>2, <1>3, <1>4, <1>5

LEMMA EditsElsewhereTyped ==
  ASSUME RecordsTyped, NEW r \in Ids, EditedElsewhere(r)
  PROVE  RecordsTyped'
<1>1. PICK fields \in Contents, archived \in BOOLEAN :
         records' = [records EXCEPT ![r] =
            [fields |-> fields, version |-> records[r].version + 1, archived |-> archived]]
  BY DEF EditedElsewhere, Contents, Archives
<1>2. [fields |-> fields, version |-> records[r].version + 1, archived |-> archived] \in RowsHeld
  BY DEF RecordsTyped, RowsHeld
<1> QED BY <1>1, <1>2 DEF EditedElsewhere, RecordsTyped

(* A version names what its record held: the record's fields still, as long *)
(* as its version is that one.                                             *)
NamesFields(r, version, fields) ==
    /\ r \in Ids /\ version \in Nat /\ 1 <= version /\ version <= records[r].version
    /\ version = records[r].version => fields = records[r].fields

(* What is shown, what a form was made from, and what a request was made    *)
(* from; one request at a time has a record's lock.                         *)
ScreenNames(s) ==
    /\ screens[s].at \in {"looking", "editing"} =>
          NamesFields(screens[s].id, screens[s].cached.version, screens[s].cached.fields)
    /\ screens[s].at = "editing" =>
          /\ NamesFields(screens[s].id, screens[s].version, screens[s].shown)
          /\ InDialog \/ screens[s].version = screens[s].cached.version
ScreensNameFields == \A s \in Screens : ScreenNames(s)
SavesNameFields ==
    \A c \in SaveIds : saves[c].at \in {"sent", "checked"} /\ saves[c].op = "update" =>
        /\ NamesFields(saves[c].id, saves[c].version, saves[c].seen)
        /\ saves[c].at = "checked" => saves[c].version = records[saves[c].id].version
OneHasTheLock ==
    \A c, d \in SaveIds :
        (/\ saves[c].at = "checked" /\ saves[c].op # "create"
         /\ saves[d].at = "checked" /\ saves[d].op # "create" /\ saves[d].id = saves[c].id) => c = d
RowsNumbered == \A r \in Ids : records[r] # NoRecord => records[r].version >= 1
SavedAreThere ==
    \A c \in SaveIds : saves[c].at = "answered" /\ saves[c].answer = "saved" =>
        records[saves[c].id] # NoRecord
RecordsInv ==
    /\ SavedAreThere
    /\ RecordsTyped /\ FormsOpen /\ RowsNumbered
    /\ ScreensNameFields /\ SavesNameFields /\ OneHasTheLock

LEMMA RecordsBegin == RecordsInit => RecordsInv
<1> SUFFICES ASSUME RecordsInit PROVE RecordsInv
  OBVIOUS
<1>1. RecordsTyped
  <2>1. PICK used \in SUBSET Ids :
           records = [r \in Ids |-> IF r \in used THEN [NoRecord EXCEPT !.version = 1] ELSE NoRecord]
    BY DEF RecordsInit
  <2>2. [NoRecord EXCEPT !.version = 1] \in RowsHeld /\ NoRecord \in RowsHeld
    BY BlankIsInput DEF RowsHeld
  <2>3. records \in [Ids -> RowsHeld]
    BY <2>1, <2>2
  <2> QED BY <2>3 DEF RecordsInit, RecordsTyped, ScreenShapes, SaveShapes
<1>2. RowsNumbered
  <2>1. [NoRecord EXCEPT !.version = 1].version = 1
    BY DEF NoRecord
  <2> QED BY <2>1 DEF RecordsInit, RowsNumbered
<1>3. (\A s \in Screens : screens[s].at = "away") /\ \A c \in SaveIds : saves[c].at = "none"
  BY DEF RecordsInit, Away, NoSave
<1>4. FormsOpen /\ SavesNameFields /\ OneHasTheLock /\ SavedAreThere
  <2>1. \A c \in SaveIds : saves[c].at \notin {"sent", "checked", "answered"}
    BY <1>3
  <2>2. FormsOpen
    BY <1>3 DEF FormsOpen
  <2>3. SavesNameFields
    BY <2>1 DEF SavesNameFields
  <2>4. \A c \in SaveIds : saves[c].at # "checked" /\ saves[c].at # "answered"
    BY <2>1
  <2>5. OneHasTheLock
    <3> SUFFICES ASSUME NEW c \in SaveIds, saves[c].at = "checked" PROVE FALSE
      BY DEF OneHasTheLock
    <3> QED BY <2>4
  <2>6. SavedAreThere
    BY <2>4 DEF SavedAreThere
  <2> QED BY <2>2, <2>3, <2>5, <2>6
<1>5. ScreensNameFields
  BY <1>3 DEF ScreensNameFields, ScreenNames
<1> QED BY <1>1, <1>2, <1>4, <1>5 DEF RecordsInv

(* A step gives each record it writes a later version.                      *)
RecordsAge == \A r \in Ids : records'[r] = records[r] \/ records'[r].version > records[r].version

LEMMA NamesAge ==
  ASSUME RecordsTyped, RecordsTyped', RecordsAge, NEW r, NEW version, NEW fields,
         NamesFields(r, version, fields)
  PROVE  NamesFields(r, version, fields)'
<1>1. r \in Ids /\ version \in Nat /\ version <= records[r].version
  BY DEF NamesFields
<1>2. records[r].version \in Nat /\ records'[r].version \in Nat
  BY <1>1 DEF RecordsTyped, RowsHeld
<1> QED BY <1>1, <1>2 DEF NamesFields, RecordsAge

LEMMA RowNamesItself ==
  ASSUME RecordsTyped, RowsNumbered, NEW r \in Ids, records[r] # NoRecord
  PROVE  NamesFields(r, records[r].version, records[r].fields)
<1>1. records[r].version \in Nat /\ records[r].version >= 1
  BY DEF RowsNumbered, RecordsTyped, RowsHeld
<1> QED BY <1>1 DEF NamesFields

LEMMA NamedIsThere ==
  ASSUME NEW r, NEW version, NEW fields, NamesFields(r, version, fields)
  PROVE  r \in Ids /\ records[r] # NoRecord
<1>1. NoRecord.version = 0
  BY DEF NoRecord
<1> QED BY <1>1 DEF NamesFields

(* Every step is of screens, of requests, or of somebody else's.           *)
LEMMA RecordsStayTyped == RecordsInv /\ RecordsNext => RecordsTyped'
<1> SUFFICES ASSUME RecordsInv, RecordsNext PROVE RecordsTyped'
  OBVIOUS
<1>1. RecordsTyped /\ FormsOpen
  BY DEF RecordsInv
<1>2. CASE \E s \in Screens : Press(s) \/ Refocus(s) \/ FirstRead(s) \/ Reload(s) \/ KeepEditing(s)
  BY <1>1, <1>2, ScreensStayTyped
<1>3. CASE \E r \in Ids : EditedElsewhere(r)
  BY <1>1, <1>3, EditsElsewhereTyped
<1>4. CASE \E c \in SaveIds : Judge(c) \/ CommitSave(c) \/ RollBack(c) \/ LoseAnswer(c) \/ Hear(c)
  BY <1>1, <1>4, RequestsStayTyped
<1> QED BY <1>2, <1>3, <1>4 DEF RecordsNext

(* What a page reads again names what it read.                             *)
NamesOf(screen) ==
    /\ screen.at \in {"looking", "editing"} => NamesFields(screen.id, screen.cached.version, screen.cached.fields)
    /\ screen.at = "editing" =>
          /\ NamesFields(screen.id, screen.version, screen.shown)
          /\ InDialog \/ screen.version = screen.cached.version

LEMMA LookingNames ==
  ASSUME NEW r, NEW found, NamesFields(r, found.version, found.fields), NEW first
  PROVE  NamesOf(Looking(r, found)) /\ NamesOf(Form(r, found, first))
BY DEF NamesOf, Looking, Form

LEMMA ReadAgainNames ==
  ASSUME RecordsTyped, RowsNumbered, ScreensNameFields, NEW s \in Screens
  PROVE  /\ NamesOf(Refreshed(s))
         /\ screens[s].at \in {"looking", "editing"} =>
               NamesOf(Looking(screens[s].id, records[screens[s].id]))
<1>0. NamesOf(screens[s])
  BY DEF ScreensNameFields, ScreenNames, NamesOf
<1>1. screens[s].at \in {"looking", "editing"} =>
         NamesFields(screens[s].id, records[screens[s].id].version, records[screens[s].id].fields)
  <2> SUFFICES ASSUME screens[s].at \in {"looking", "editing"}
               PROVE NamesFields(screens[s].id, records[screens[s].id].version, records[screens[s].id].fields)
    OBVIOUS
  <2>1. NamesFields(screens[s].id, screens[s].cached.version, screens[s].cached.fields)
    BY DEF ScreensNameFields, ScreenNames
  <2>2. screens[s].id \in Ids /\ records[screens[s].id] # NoRecord
    BY <2>1, NamedIsThere
  <2> QED BY <2>2, RowNamesItself
<1>2. CASE screens[s].at = "looking"
  <2>1. screens[s] \in ShownLooking
    BY <1>2, ScreenCases DEF Away
  <2>2. [screens[s] EXCEPT !.cached = records[screens[s].id]] = Looking(screens[s].id, records[screens[s].id])
    BY <2>1 DEF ShownLooking, Looking
  <2>3. Refreshed(s) = Looking(screens[s].id, records[screens[s].id])
    BY <1>2, <2>2 DEF Refreshed
  <2> QED BY <1>1, <1>2, <2>3, LookingNames
<1>3. CASE screens[s].at = "editing"
  <2>1. screens[s] \in FormShape({"editing"}, Ids)
    BY <1>3, ScreenCases DEF Away
  <2>2. PICK found : found = records[screens[s].id]
    OBVIOUS
  <2>3. NamesFields(screens[s].id, found.version, found.fields)
    BY <1>1, <1>3, <2>2
  <2>4. CASE InDialog
    <3>1. PICK after : after = [screens[s] EXCEPT !.cached = found]
      OBVIOUS
    <3>2. /\ after.at = "editing" /\ after.id = screens[s].id /\ after.cached = found
          /\ after.version = screens[s].version /\ after.shown = screens[s].shown
      BY <1>3, <2>1, <3>1 DEF FormShape
    <3>3. Refreshed(s) = after
      BY <1>3, <2>2, <2>4, <3>1 DEF Refreshed
    <3>4. NamesOf(after)
      BY <1>0, <1>3, <2>3, <2>4, <3>2 DEF NamesOf
    <3> QED BY <1>1, <3>3, <3>4, LookingNames
  <2>5. CASE ~InDialog
    <3>1. PICK after : after = [screens[s] EXCEPT !.cached = found, !.first = FALSE]
      OBVIOUS
    <3>2. /\ after.at = "editing" /\ after.id = screens[s].id /\ after.cached = found
          /\ after.version = screens[s].version /\ after.shown = screens[s].shown
      BY <1>3, <2>1, <3>1 DEF FormShape
    <3>3. Refreshed(s) = Remounted(s, found)
      BY <1>3, <2>2, <2>5 DEF Refreshed
    <3>4. found.version = screens[s].version => NamesOf(after)
      BY <1>0, <1>3, <2>3, <3>2 DEF NamesOf
    <3>5. NamesOf(Looking(screens[s].id, found)) /\ NamesOf(Form(screens[s].id, found, FALSE))
      BY <2>3, LookingNames
    <3>6. NamesOf(Remounted(s, found))
      BY <3>1, <3>4, <3>5 DEF Remounted
    <3> QED BY <2>2, <3>3, <3>5, <3>6
  <2> QED BY <2>4, <2>5
<1>4. CASE screens[s].at \notin {"looking", "editing"}
  BY <1>0, <1>4 DEF Refreshed
<1> QED BY <1>2, <1>3, <1>4

(* What writes a record leaves the screens as they are.                    *)
LEMMA RecordsWritten ==
  ASSUME RecordsInv, RecordsNext
  PROVE  /\ kind' = kind
         /\ RecordsAge
         /\ records' = records \/ (screens' = screens /\ RowsNumbered')
<1>1. RecordsTyped /\ RowsNumbered
  BY DEF RecordsInv
<1>2. ASSUME NEW s \in Screens,
             Press(s) \/ Refocus(s) \/ FirstRead(s) \/ Reload(s) \/ KeepEditing(s)
      PROVE  records' = records /\ kind' = kind
  BY <1>2 DEF Press, Refocus, FirstRead, Reload, KeepEditing, Look, OpenForm, OpenNew, Leave,
              TypeInto, SaveForm, SaveAnyway, BackToForm, PressArchive, ResetPassword, tables
<1>3. ASSUME NEW r \in Ids, EditedElsewhere(r)
      PROVE  RecordsAge /\ RowsNumbered' /\ screens' = screens /\ kind' = kind
  <2>1. records[r].version \in Nat
    BY <1>1 DEF RecordsTyped, RowsHeld
  <2>2. /\ records'[r].version = records[r].version + 1
        /\ \A q \in Ids \ {r} : records'[q] = records[q]
    BY <1>1, <1>3 DEF EditedElsewhere, RecordsTyped
  <2>3. screens' = screens /\ kind' = kind
    BY <1>3 DEF EditedElsewhere
  <2> QED BY <1>1, <2>1, <2>2, <2>3 DEF RecordsAge, RowsNumbered
<1>4. ASSUME NEW c \in SaveIds, CommitSave(c)
      PROVE  RecordsAge /\ RowsNumbered' /\ screens' = screens /\ kind' = kind
  <2>1. screens' = screens /\ kind' = kind
    BY <1>4 DEF CommitSave
  <2>2. CASE saves[c].op = "create"
    <3>1. PICK r \in Ids :
             /\ records[r] = NoRecord
             /\ records' = [records EXCEPT ![r] = [fields |-> saves[c].body, version |-> 1, archived |-> FALSE]]
      BY <1>4, <2>2 DEF CommitSave, InsertRecord
    <3>2. records[r].version = 0 /\ records'[r].version = 1
      BY <1>1, <3>1 DEF NoRecord, RecordsTyped
    <3>3. \A q \in Ids \ {r} : records'[q] = records[q]
      BY <1>1, <3>1 DEF RecordsTyped
    <3> QED BY <1>1, <2>1, <3>2, <3>3 DEF RecordsAge, RowsNumbered
  <2>3. CASE saves[c].op # "create"
    <3>1. PICK r : r = saves[c].id /\ records' = [records EXCEPT ![r] = Written(c, records[r])]
      BY <1>4, <2>3 DEF CommitSave, WriteRecord
    <3>2. r \in Ids
      BY <1>1, <1>4, <2>3, <3>1, SaveCases DEF CommitSave, NoSave
    <3>3. records[r].version \in Nat /\ records'[r].version = records[r].version + 1
      BY <1>1, <3>1, <3>2 DEF Written, RecordsTyped, RowsHeld
    <3>4. \A q \in Ids \ {r} : records'[q] = records[q]
      BY <1>1, <3>1, <3>2 DEF RecordsTyped
    <3> QED BY <1>1, <2>1, <3>3, <3>4 DEF RecordsAge, RowsNumbered
  <2> QED BY <2>2, <2>3
<1>5. ASSUME NEW c \in SaveIds, Judge(c) \/ RollBack(c) \/ LoseAnswer(c) \/ Hear(c)
      PROVE  records' = records /\ kind' = kind
  BY <1>5 DEF Judge, RollBack, LoseAnswer, Hear, tables
<1>6. records' = records => RecordsAge
  BY DEF RecordsAge
<1> QED BY <1>2, <1>3, <1>4, <1>5, <1>6 DEF RecordsNext

(* What a step makes of a screen names what it shows.                      *)
LEMMA ScreensDrawn ==
  ASSUME RecordsInv, RecordsNext, NEW s \in Screens
  PROVE  NamesOf(screens'[s]) \/ screens' = screens
<1> DEFINE Good == NamesOf(screens'[s])
<1>0. /\ RecordsTyped /\ RowsNumbered /\ ScreensNameFields /\ FormsOpen
      /\ NamesOf(screens[s]) /\ NamesOf(Away) /\ NamesOf(EmptyForm)
  <2>1. NamesOf(Away)
    BY DEF NamesOf, Away
  <2>2. EmptyForm.at = "new"
    BY EmptyBuilt DEF FormShape
  <2>3. NamesOf(EmptyForm)
    BY <2>2 DEF NamesOf
  <2> QED BY <2>1, <2>3 DEF RecordsInv, ScreensNameFields, ScreenNames, NamesOf
<1>1. ASSUME NEW screen, NEW t \in Screens, screens' = [screens EXCEPT ![t] = screen],
             t = s => NamesOf(screen)
      PROVE  Good
  BY <1>0, <1>1 DEF RecordsTyped
<1>2. /\ NamesOf(Refreshed(s))
      /\ screens[s].at \in {"looking", "editing"} =>
            NamesOf(Looking(screens[s].id, records[screens[s].id]))
  BY <1>0, ReadAgainNames
<1>3. ASSUME NEW t \in Screens, Press(t) \/ Refocus(t) \/ FirstRead(t) \/ Reload(t) \/ KeepEditing(t)
      PROVE  Good \/ screens' = screens
  <2>1. ASSUME NEW r \in Ids, Look(t, r) PROVE Good
    <3>1. NamesOf(Looking(r, records[r]))
      BY <1>0, <2>1, RowNamesItself, LookingNames DEF Look
    <3> QED BY <1>1, <2>1, <3>1 DEF Look
  <2>2. CASE OpenForm(t)
    <3>1. t = s => NamesOf(Form(screens[t].id, screens[t].cached, ~InDialog))
      <4>1. t = s => NamesFields(screens[t].id, screens[t].cached.version, screens[t].cached.fields)
        BY <1>0, <2>2 DEF OpenForm, NamesOf
      <4> QED BY <4>1, LookingNames
    <3> QED BY <1>1, <2>2, <3>1 DEF OpenForm
  <2>3. CASE OpenNew(t)
    BY <1>0, <1>1, <2>3 DEF OpenNew
  <2>4. CASE Leave(t)
    BY <1>0, <1>1, <2>4 DEF Leave
  <2>5. ASSUME NEW f \in Fields, NEW v \in Inputs, TypeInto(t, f, v) PROVE Good
    <3>1. PICK after : after = [screens[t] EXCEPT !.typed[f] = v]
      OBVIOUS
    <3>2. /\ after.at = screens[t].at /\ after.id = screens[t].id /\ after.cached = screens[t].cached
          /\ after.version = screens[t].version /\ after.shown = screens[t].shown
      <4>1. \/ screens[t] \in FormShape({"editing"}, Ids)
            \/ screens[t] \in FormShape({"new"}, {0})
        BY <1>0, <2>5, ScreenCases DEF TypeInto, Away
      <4> QED BY <3>1, <4>1 DEF FormShape
    <3>3. t = s => NamesOf(after)
      BY <1>0, <3>2 DEF NamesOf
    <3>4. screens' = [screens EXCEPT ![t] = after]
      BY <2>5, <3>1 DEF TypeInto
    <3> QED BY <1>1, <3>3, <3>4
  <2>6. CASE SaveForm(t) \/ SaveAnyway(t) \/ PressArchive(t) \/ ResetPassword(t) \/ KeepEditing(t)
    BY <2>6 DEF SaveForm, SaveAnyway, PressArchive, ResetPassword, KeepEditing
  <2>7. CASE BackToForm(t)
    <3>1. PICK after : after = [screens[t] EXCEPT !.asking = FALSE, !.asked = screens[t].shown]
      OBVIOUS
    <3>2. /\ after.at = screens[t].at /\ after.id = screens[t].id /\ after.cached = screens[t].cached
          /\ after.version = screens[t].version /\ after.shown = screens[t].shown
      <4>1. \/ screens[t] \in FormShape({"editing"}, Ids)
            \/ screens[t] \in FormShape({"new"}, {0})
        BY <1>0, <2>7, ScreenCases DEF BackToForm, Away
      <4> QED BY <3>1, <4>1 DEF FormShape
    <3>3. t = s => NamesOf(after)
      BY <1>0, <3>2 DEF NamesOf
    <3>4. screens' = [screens EXCEPT ![t] = after]
      BY <1>0, <2>7, <3>1 DEF BackToForm, RecordsTyped
    <3> QED BY <1>1, <3>3, <3>4
  <2>8. CASE Refocus(t)
    <3>1. [screens[t] EXCEPT !.cached = records[screens[t].id]] = Refreshed(t)
      BY <2>8 DEF Refocus, Refreshed
    <3> QED BY <1>1, <1>2, <2>8, <3>1 DEF Refocus
  <2>9. CASE FirstRead(t)
    BY <1>1, <1>2, <2>9 DEF FirstRead
  <2>10. CASE Reload(t)
    <3>1. t = s => NamesOf(Reloaded(t))
      BY <1>0, <1>2 DEF Reloaded, Shows
    <3> QED BY <1>1, <2>10, <3>1 DEF Reload
  <2> QED BY <1>3, <2>1, <2>2, <2>3, <2>4, <2>5, <2>6, <2>7, <2>8, <2>9, <2>10 DEF Press<1>4. ASSUME NEW c \in SaveIds, Judge(c) \/ CommitSave(c) \/ RollBack(c) \/ LoseAnswer(c)
      PROVE  screens' = screens
  BY <1>4 DEF Judge, CommitSave, RollBack, LoseAnswer
<1>5. ASSUME NEW c \in SaveIds, Hear(c) PROVE Good
  <2>1. PICK t \in Screens : t = saves[c].screen
    BY <1>0, <1>5, AfterAnswerBuilt DEF Hear
  <2>2. screens' = [screens EXCEPT ![t] = AfterAnswer(t, c)]
    BY <1>5, <2>1 DEF Hear
  <2>3. ASSUME t = s PROVE NamesOf(AfterAnswer(s, c))
    <3>1. saves[c].answer = "saved" => NamesOf(Looking(saves[c].id, records[saves[c].id]))
      <4> SUFFICES ASSUME saves[c].answer = "saved"
                   PROVE NamesOf(Looking(saves[c].id, records[saves[c].id]))
        OBVIOUS
      <4>1. saves[c].id \in Ids
        <5>1. saves[c] # NoSave /\ saves[c].at \notin {"sent", "checked"}
          BY <1>5 DEF Hear, NoSave
        <5>2. saves[c].answer \notin Refusals
          BY DEF Refusals
        <5> QED BY <1>0, <5>1, <5>2, SaveCases
      <4>2. records[saves[c].id] # NoRecord
        BY <1>5 DEF Hear, RecordsInv, SavedAreThere
      <4> QED BY <1>0, <4>1, <4>2, RowNamesItself, LookingNames
    <3>2. saves[c].answer = "saved" => NamesOf(AfterSave(s, c))
      BY <1>2, <3>1 DEF AfterSave
    <3>3. saves[c].form => NamesOf([screens[s] EXCEPT !.asking = TRUE, !.asked = saves[c].body])
      <4> SUFFICES ASSUME saves[c].form
                   PROVE NamesOf([screens[s] EXCEPT !.asking = TRUE, !.asked = saves[c].body])
        OBVIOUS
      <4>1. PICK after : after = [screens[s] EXCEPT !.asking = TRUE, !.asked = saves[c].body]
        OBVIOUS
      <4>2. screens[s].at \in {"editing", "new"}
        BY <1>0, <1>5, <2>1, <2>3 DEF Hear, FormsOpen
      <4>3. /\ after.at = screens[s].at /\ after.id = screens[s].id /\ after.cached = screens[s].cached
            /\ after.version = screens[s].version /\ after.shown = screens[s].shown
        <5>1. \/ screens[s] \in FormShape({"editing"}, Ids)
              \/ screens[s] \in FormShape({"new"}, {0})
          BY <1>0, <4>2, ScreenCases DEF Away
        <5> QED BY <4>1, <5>1 DEF FormShape
      <4> QED BY <1>0, <4>1, <4>3 DEF NamesOf
    <3>4. screens[s].at = "editing" => NamesOf(Looking(screens[s].id, screens[s].cached))
      BY <1>0, LookingNames DEF NamesOf
    <3> QED BY <1>0, <3>2, <3>3, <3>4 DEF AfterAnswer
  <2> QED BY <1>1, <2>2, <2>3
<1>6. ASSUME NEW r \in Ids, EditedElsewhere(r) PROVE screens' = screens
  BY <1>6 DEF EditedElsewhere
<1> QED BY <1>3, <1>4, <1>5, <1>6 DEF RecordsNext

LEMMA ScreensKeepNames == RecordsInv /\ RecordsNext => ScreensNameFields'
<1> SUFFICES ASSUME RecordsInv, RecordsNext, NEW s \in Screens PROVE ScreenNames(s)'
  BY DEF ScreensNameFields
<1>1. kind' = kind /\ (InDialog <=> InDialog')
  BY RecordsWritten DEF InDialog
<1>2. PICK screen : screen = screens'[s]
  OBVIOUS
<1>3. PICK id, cached, version, shown :
         id = screen.id /\ cached = screen.cached /\ version = screen.version /\ shown = screen.shown
  OBVIOUS
<1>4. PICK held, fields : held = cached.version /\ fields = cached.fields
  OBVIOUS
<1>5. NamesOf(screen)
  <2>1. screens' = screens => NamesOf(screen)
    BY <1>2 DEF RecordsInv, ScreensNameFields, ScreenNames, NamesOf
  <2> QED BY <1>2, <2>1, ScreensDrawn
<1>6. /\ screen.at \in {"looking", "editing"} => NamesFields(id, held, fields)'
      /\ screen.at = "editing" => NamesFields(id, version, shown)'
  <2>1. /\ screen.at \in {"looking", "editing"} => NamesFields(id, held, fields)
        /\ screen.at = "editing" => NamesFields(id, version, shown)
    BY <1>3, <1>4, <1>5 DEF NamesOf
  <2>2. RecordsTyped /\ RecordsTyped' /\ RecordsAge
    BY RecordsStayTyped, RecordsWritten DEF RecordsInv
  <2> QED BY <2>1, <2>2, NamesAge
<1> QED BY <1>1, <1>2, <1>3, <1>4, <1>5, <1>6 DEF ScreenNames, NamesOf
-----------------------------------------------------------------------------
(* What a step may make of a request.                                      *)
StaysAsItIs(c) ==
    /\ saves'[c].at = saves[c].at /\ (saves[c].at # "none" => saves'[c].id = saves[c].id)
    /\ saves[c].at \in {"sent", "checked"} => /\ saves'[c].op = saves[c].op
                                              /\ saves'[c].version = saves[c].version
                                              /\ saves'[c].seen = saves[c].seen
    /\ saves[c].at = "answered" => saves'[c].answer = saves[c].answer
IsSent(c) ==
    /\ saves'[c].at = "sent"
    /\ saves'[c].op = "update" => NamesFields(saves'[c].id, saves'[c].version, saves'[c].seen)
IsJudged(c) ==
    /\ saves[c].at = "sent" /\ saves'[c].at = "checked" /\ records' = records
    /\ saves'[c].op = saves[c].op /\ saves'[c].id = saves[c].id
    /\ saves'[c].version = saves[c].version /\ saves'[c].seen = saves[c].seen
    /\ saves[c].op # "create" => RowFree(saves[c].id)
    /\ saves[c].op = "update" => VersionHolds(c)
    /\ \A d \in SaveIds \ {c} : saves'[d] = saves[d]
IsAnswered(c) ==
    /\ saves'[c].at = "answered"
    /\ saves'[c].answer = "saved" => records'[saves'[c].id] # NoRecord
RequestGoesOn(c) ==
    StaysAsItIs(c) \/ saves'[c].at = "none" \/ IsSent(c) \/ IsJudged(c) \/ IsAnswered(c)

LEMMA SameStays == ASSUME NEW c, saves'[c] = saves[c] PROVE StaysAsItIs(c)
BY DEF StaysAsItIs

LEMMA OrphansStay ==
  ASSUME RecordsTyped, NEW s, NEW c \in SaveIds, saves'[c] = Orphaned(s)[c]
  PROVE  StaysAsItIs(c)
<1>1. CASE saves'[c] = saves[c]
  BY <1>1, SameStays
<1>2. CASE saves[c] # NoSave /\ saves'[c] = [saves[c] EXCEPT !.form = FALSE]
  <2>1. PICK after : after = saves'[c]
    OBVIOUS
  <2>2. CASE \/ saves[c] \in SentShape({"create"}, {0})
             \/ saves[c] \in SentShape({"update", "archive", "reset"}, Ids)
    <3>1. /\ after.at = saves[c].at /\ after.id = saves[c].id /\ after.op = saves[c].op
          /\ after.version = saves[c].version /\ after.seen = saves[c].seen
          /\ saves[c].at # "answered"
      BY <1>2, <2>1, <2>2 DEF SentShape
    <3> QED BY <2>1, <3>1 DEF StaysAsItIs
  <2>3. CASE \/ saves[c] \in AnsweredShape({"saved"}, Ids)
             \/ saves[c] \in AnsweredShape(Refusals, Ids \cup {0})
    <3>1. /\ after.at = saves[c].at /\ after.id = saves[c].id /\ after.answer = saves[c].answer
          /\ saves[c].at = "answered"
      BY <1>2, <2>1, <2>3 DEF AnsweredShape
    <3> QED BY <2>1, <3>1 DEF StaysAsItIs
  <2> QED BY <1>2, <2>2, <2>3, SaveCases
<1> QED BY <1>1, <1>2, OrphanedBuilt

(* A request is sent from the form or page that is open.                   *)
LEMMA RequestsBegin ==
  ASSUME RecordsInv, NEW s \in Screens,
         SaveForm(s) \/ SaveAnyway(s) \/ PressArchive(s) \/ ResetPassword(s)
  PROVE  \E c \in SaveIds :
            /\ \A d \in SaveIds \ {c} : saves'[d] = saves[d]
            /\ IsSent(c) /\ saves'[c].screen = s
            /\ saves'[c].form => screens[s].at \in {"editing", "new"}
<1>1. PICK op, sent, body, confirm :
         /\ SendRequest(s, op, sent, body, confirm)
         /\ op = "update" => screens[s].at = "editing"
         /\ screens[s].at \in {"looking", "editing", "new"}
  <2>1. CASE SaveForm(s)
    BY <2>1 DEF SaveForm
  <2>2. CASE SaveAnyway(s)
    BY <2>2 DEF SaveAnyway
  <2>3. CASE PressArchive(s)
    BY <2>3 DEF PressArchive
  <2>4. CASE ResetPassword(s)
    BY <2>4 DEF ResetPassword
  <2> QED BY <2>1, <2>2, <2>3, <2>4
<1>2. PICK c \in SaveIds : saves' = [saves EXCEPT ![c] =
              [at |-> "sent", screen |-> s, form |-> screens[s].at # "looking", heard |-> TRUE, op |-> op,
               id |-> screens[s].id, sent |-> sent, body |-> body, confirm |-> confirm,
               version |-> NamedVersion(s),
               seen |-> IF screens[s].at = "looking" THEN NoRecord.fields ELSE screens[s].shown]]
  BY <1>1 DEF SendRequest
<1>3. /\ saves'[c].at = "sent" /\ saves'[c].screen = s /\ saves'[c].op = op
      /\ saves'[c].id = screens[s].id /\ saves'[c].version = NamedVersion(s)
      /\ saves'[c].form = (screens[s].at # "looking")
      /\ screens[s].at = "editing" => saves'[c].seen = screens[s].shown
      /\ \A d \in SaveIds \ {c} : saves'[d] = saves[d]
  BY <1>2 DEF RecordsInv, RecordsTyped
<1>4. op = "update" => NamesFields(saves'[c].id, saves'[c].version, saves'[c].seen)
  <2> SUFFICES ASSUME op = "update" PROVE NamesFields(saves'[c].id, saves'[c].version, saves'[c].seen)
    OBVIOUS
  <2>1. screens[s].at = "editing"
    BY <1>1
  <2>2. NamesFields(screens[s].id, screens[s].version, screens[s].shown)
        /\ (InDialog \/ screens[s].version = screens[s].cached.version)
    BY <2>1 DEF RecordsInv, ScreensNameFields, ScreenNames
  <2>3. NamedVersion(s) = screens[s].version
    BY <2>1, <2>2 DEF NamedVersion
  <2> QED BY <1>3, <2>1, <2>2, <2>3
<1>5. IsSent(c)
  BY <1>3, <1>4 DEF IsSent
<1> QED BY <1>1, <1>3, <1>5

LEMMA AnswersMove ==
  ASSUME RecordsTyped, NEW c \in SaveIds, saves[c].at \in {"sent", "checked"},
         NEW answer, NEW id, saves' = Answered(c, answer, id),
         answer = "saved" => records'[id] # NoRecord
  PROVE  /\ saves'[c].at = "none" \/ IsAnswered(c)
         /\ \A d \in SaveIds \ {c} : saves'[d] = saves[d]
         /\ saves'[c].at # "none" =>
               saves'[c].screen = saves[c].screen /\ saves'[c].form = saves[c].form
<1>1. saves'[c] = Answer(saves[c], answer, id) /\ \A d \in SaveIds \ {c} : saves'[d] = saves[d]
  BY DEF Answered, RecordsTyped
<1>2. CASE ~saves[c].heard
  <2>1. saves'[c].at = "none"
    BY <1>1, <1>2 DEF Answer, NoSave
  <2> QED BY <1>1, <2>1
<1>3. CASE saves[c].heard
  <2>1. /\ saves'[c].at = "answered" /\ saves'[c].id = id /\ saves'[c].answer = answer
        /\ saves'[c].screen = saves[c].screen /\ saves'[c].form = saves[c].form
    BY <1>1, <1>3 DEF Answer
  <2> QED BY <1>1, <2>1 DEF IsAnswered
<1> QED BY <1>2, <1>3
LEMMA RequestsMove ==
  ASSUME RecordsInv, RecordsNext, NEW c \in SaveIds
  PROVE  RequestGoesOn(c)
<1>0. RecordsTyped
  BY DEF RecordsInv
<1>1. ASSUME NEW s \in Screens,
             Press(s) \/ Refocus(s) \/ FirstRead(s) \/ Reload(s) \/ KeepEditing(s)
      PROVE  RequestGoesOn(c)
  <2>1. CASE saves' = saves
    BY <2>1, SameStays DEF RequestGoesOn
  <2>2. CASE saves' = Orphaned(s)
    BY <1>0, <2>2, OrphansStay DEF RequestGoesOn
  <2>3. CASE SaveForm(s) \/ SaveAnyway(s) \/ PressArchive(s) \/ ResetPassword(s)
    <3>1. PICK d \in SaveIds : IsSent(d) /\ \A e \in SaveIds \ {d} : saves'[e] = saves[e]
      BY <2>3, RequestsBegin
    <3>2. c # d => StaysAsItIs(c)
      BY <3>1, SameStays
    <3> QED BY <3>1, <3>2 DEF RequestGoesOn
  <2>4. saves' = saves \/ saves' = Orphaned(s)
        \/ (SaveForm(s) \/ SaveAnyway(s) \/ PressArchive(s) \/ ResetPassword(s))
    BY <1>1 DEF Press, Look, OpenForm, OpenNew, Leave, TypeInto, BackToForm, Refocus, FirstRead,
                Reload, KeepEditing
  <2> QED BY <2>1, <2>2, <2>3, <2>4
<1>2. ASSUME NEW d \in SaveIds, Judge(d) PROVE RequestGoesOn(c)
  <2>1. saves[d].at = "sent" /\ records' = records
    BY <1>2 DEF Judge, tables
  <2>2. CASE Verdict(d) = "go"
    <3>1. saves' = [saves EXCEPT ![d] = [saves[d] EXCEPT !.at = "checked"]]
      BY <1>2, <2>2 DEF Judge
    <3>2. saves'[d] = [saves[d] EXCEPT !.at = "checked"] /\ \A e \in SaveIds \ {d} : saves'[e] = saves[e]
      BY <1>0, <3>1 DEF RecordsTyped
    <3>3. \/ saves[d] \in SentShape({"create"}, {0})
          \/ saves[d] \in SentShape({"update", "archive", "reset"}, Ids)
      BY <1>0, <2>1, SaveCases DEF NoSave
    <3>4. PICK after : after = [saves[d] EXCEPT !.at = "checked"]
      OBVIOUS
    <3>5. /\ after.at = "checked" /\ after.op = saves[d].op /\ after.id = saves[d].id
          /\ after.version = saves[d].version /\ after.seen = saves[d].seen
      BY <3>3, <3>4 DEF SentShape
    <3>6. /\ saves[d].op # "create" => RowFree(saves[d].id)
          /\ saves[d].op = "update" => VersionHolds(d)
      BY <1>2, <2>2 DEF Judge, Verdict
    <3>7. IsJudged(d)
      BY <2>1, <3>2, <3>4, <3>5, <3>6 DEF IsJudged
    <3>8. c # d => StaysAsItIs(c)
      BY <3>2, SameStays
    <3> QED BY <3>7, <3>8 DEF RequestGoesOn
  <2>3. CASE Verdict(d) # "go"
    <3>1. PICK answer, id : answer = Verdict(d) /\ id = saves[d].id
      OBVIOUS
    <3>2. saves' = Answered(d, answer, id)
      BY <1>2, <2>3, <3>1 DEF Judge
    <3>3. answer = "saved" => records'[id] # NoRecord
      <4> SUFFICES ASSUME answer = "saved" PROVE records[id] # NoRecord
        BY <2>1
      <4>1. saves[d].op = "update"
        BY <3>1 DEF Verdict
      <4> QED BY <2>1, <3>1, <4>1, NamedIsThere DEF RecordsInv, SavesNameFields
    <3>4. saves'[d].at = "none" \/ IsAnswered(d)
      BY <1>0, <2>1, <3>2, <3>3, AnswersMove
    <3>5. \A e \in SaveIds \ {d} : saves'[e] = saves[e]
      BY <1>0, <2>1, <3>2, <3>3, AnswersMove
    <3>6. c # d => StaysAsItIs(c)
      BY <3>5, SameStays
    <3> QED BY <3>4, <3>6 DEF RequestGoesOn
  <2> QED BY <2>2, <2>3
<1>3. ASSUME NEW d \in SaveIds, CommitSave(d) \/ RollBack(d) PROVE RequestGoesOn(c)
  <2>1. saves[d].at = "checked"
    BY <1>3 DEF CommitSave, RollBack
  <2>2. PICK answer, id : /\ saves' = Answered(d, answer, id)
                          /\ answer = "saved" => records'[id] # NoRecord
    <3>1. CASE RollBack(d)
      BY <3>1 DEF RollBack
    <3>2. CASE CommitSave(d) /\ saves[d].op = "create"
      <4>1. PICK r \in Ids :
               /\ saves' = Answered(d, "saved", r)
               /\ records' = [records EXCEPT ![r] = [fields |-> saves[d].body, version |-> 1, archived |-> FALSE]]
        BY <3>2 DEF CommitSave, InsertRecord
      <4>2. records'[r].version = 1
        BY <1>0, <4>1 DEF RecordsTyped
      <4>3. records'[r] # NoRecord
        BY <4>2 DEF NoRecord
      <4> QED BY <4>1, <4>3
    <3>3. CASE CommitSave(d) /\ saves[d].op # "create"
      <4>1. PICK r : /\ r = saves[d].id /\ saves' = Answered(d, "saved", r)
                     /\ records' = [records EXCEPT ![r] = Written(d, records[r])]
        BY <3>3 DEF CommitSave, WriteRecord
      <4>2. r \in Ids
        BY <1>0, <2>1, <3>3, <4>1, SaveCases DEF NoSave
      <4>3. records'[r].version = records[r].version + 1 /\ records[r].version \in Nat
        BY <1>0, <4>1, <4>2 DEF RecordsTyped, RowsHeld, Written
      <4>4. records'[r] # NoRecord
        BY <4>3 DEF NoRecord
      <4> QED BY <4>1, <4>4
    <3> QED BY <1>3, <3>1, <3>2, <3>3
  <2>3. saves'[d].at = "none" \/ IsAnswered(d)
    BY <1>0, <2>1, <2>2, AnswersMove
  <2>4. \A e \in SaveIds \ {d} : saves'[e] = saves[e]
    BY <1>0, <2>1, <2>2, AnswersMove
  <2>5. c # d => StaysAsItIs(c)
    BY <2>4, SameStays
  <2> QED BY <2>3, <2>5 DEF RequestGoesOn
<1>4. ASSUME NEW d \in SaveIds, LoseAnswer(d) PROVE RequestGoesOn(c)
  <2>1. saves' = [saves EXCEPT ![d] = [saves[d] EXCEPT !.heard = FALSE, !.form = FALSE]]
    BY <1>0, <1>4 DEF LoseAnswer, RecordsTyped
  <2>2. saves'[d] = [saves[d] EXCEPT !.heard = FALSE, !.form = FALSE]
        /\ \A e \in SaveIds \ {d} : saves'[e] = saves[e]
    BY <1>0, <2>1 DEF RecordsTyped
  <2>3. PICK after : after = [saves[d] EXCEPT !.heard = FALSE, !.form = FALSE]
    OBVIOUS
  <2>4. /\ after.at = saves[d].at /\ after.op = saves[d].op /\ after.id = saves[d].id
        /\ after.version = saves[d].version /\ after.seen = saves[d].seen /\ saves[d].at # "answered"
    <3>1. \/ saves[d] \in SentShape({"create"}, {0})
          \/ saves[d] \in SentShape({"update", "archive", "reset"}, Ids)
      BY <1>0, <1>4, SaveCases DEF LoseAnswer, NoSave
    <3> QED BY <2>3, <3>1 DEF SentShape
  <2>5. StaysAsItIs(d)
    BY <2>2, <2>3, <2>4 DEF StaysAsItIs
  <2>6. c # d => StaysAsItIs(c)
    BY <2>2, SameStays
  <2> QED BY <2>5, <2>6 DEF RequestGoesOn
<1>5. ASSUME NEW d \in SaveIds, Hear(d) PROVE RequestGoesOn(c)
  <2>1. PICK s : s = saves[d].screen
    OBVIOUS
  <2>2. saves' = [Orphaned(s) EXCEPT ![d] = NoSave]
    BY <1>5, <2>1 DEF Hear
  <2>3. saves'[d] = NoSave /\ \A e \in SaveIds \ {d} : saves'[e] = Orphaned(s)[e]
    BY <1>0, <2>2, OrphanedBuilt
  <2>4. c # d => StaysAsItIs(c)
    BY <1>0, <2>3, OrphansStay
  <2>5. saves'[d].at = "none"
    BY <2>3 DEF NoSave
  <2> QED BY <2>4, <2>5 DEF RequestGoesOn
<1>6. ASSUME NEW r \in Ids, EditedElsewhere(r) PROVE RequestGoesOn(c)
  BY <1>6, SameStays DEF EditedElsewhere, RequestGoesOn
<1> QED BY <1>1, <1>2, <1>3, <1>4, <1>5, <1>6 DEF RecordsNext
(* Nobody writes the row of an update that has its lock.                   *)
LEMMA LockedRowsKept ==
  ASSUME RecordsInv, RecordsNext, NEW c \in SaveIds, saves[c].at = "checked",
         saves[c].op # "create", saves'[c].at = "checked", records[saves[c].id] # NoRecord
  PROVE  records'[saves[c].id] = records[saves[c].id]
<1>0. RecordsTyped /\ OneHasTheLock
  BY DEF RecordsInv
<1>1. PICK id \in Ids : id = saves[c].id
  BY <1>0, SaveCases DEF NoSave
<1>2. ASSUME NEW r \in Ids, EditedElsewhere(r) PROVE records'[id] = records[id]
  <2>1. r # id
    BY <1>1, <1>2 DEF EditedElsewhere, RowFree
  <2> QED BY <1>0, <1>2, <2>1 DEF EditedElsewhere, RecordsTyped
<1>3. ASSUME NEW d \in SaveIds, CommitSave(d) PROVE records'[id] = records[id]
  <2>1. saves[d].at = "checked"
    BY <1>3 DEF CommitSave
  <2>2. CASE saves[d].op = "create"
    <3>1. PICK r \in Ids :
             /\ records[r] = NoRecord
             /\ records' = [records EXCEPT ![r] = [fields |-> saves[d].body, version |-> 1, archived |-> FALSE]]
      BY <1>3, <2>2 DEF CommitSave, InsertRecord
    <3> QED BY <1>0, <1>1, <3>1 DEF RecordsTyped
  <2>3. CASE saves[d].op # "create"
    <3>1. PICK r : /\ r = saves[d].id /\ saves' = Answered(d, "saved", r)
                   /\ records' = [records EXCEPT ![r] = Written(d, records[r])]
      BY <1>3, <2>3 DEF CommitSave, WriteRecord
    <3>2. d # c
      <4>1. saves'[d].at # "checked"
        BY <1>0, <3>1 DEF Answered, Answer, NoSave, RecordsTyped
      <4> QED BY <4>1
    <3>3. r # id
      BY <1>0, <1>1, <2>1, <2>3, <3>1, <3>2 DEF OneHasTheLock
    <3> QED BY <1>0, <1>1, <3>1, <3>3 DEF RecordsTyped
  <2> QED BY <2>2, <2>3
<1>4. CASE records' = records
  BY <1>1, <1>4
<1>5. \A s \in Screens : Press(s) \/ Refocus(s) \/ FirstRead(s) \/ Reload(s) \/ KeepEditing(s) => records' = records
  BY DEF Press, Refocus, FirstRead, Reload, KeepEditing, Look, OpenForm, OpenNew, Leave,
         TypeInto, SaveForm, SaveAnyway, BackToForm, PressArchive, ResetPassword, tables
<1>6. \A d \in SaveIds : Judge(d) \/ RollBack(d) \/ LoseAnswer(d) \/ Hear(d) => records' = records
  BY DEF Judge, RollBack, LoseAnswer, Hear, tables
<1> QED BY <1>1, <1>2, <1>3, <1>4, <1>5, <1>6 DEF RecordsNext

LEMMA SavesKeepNames == RecordsInv /\ RecordsNext => SavesNameFields'
<1> SUFFICES ASSUME RecordsInv, RecordsNext, NEW c \in SaveIds,
                    saves'[c].at \in {"sent", "checked"}, saves'[c].op = "update"
             PROVE  /\ NamesFields(saves[c].id, saves[c].version, saves[c].seen)'
                    /\ saves'[c].at = "checked" => saves'[c].version = records'[saves'[c].id].version
  BY DEF SavesNameFields
<1>1. PICK id, version, then : id = saves'[c].id /\ version = saves'[c].version /\ then = saves'[c].seen
  OBVIOUS
<1>2. RecordsTyped /\ RecordsTyped' /\ RecordsAge
  BY RecordsStayTyped, RecordsWritten DEF RecordsInv
<1>3. /\ NamesFields(id, version, then)
      /\ saves'[c].at = "checked" => version = records'[id].version
  <2>1. CASE StaysAsItIs(c)
    <3>1. /\ saves[c].at = saves'[c].at /\ saves[c].op = "update"
          /\ id = saves[c].id /\ version = saves[c].version /\ then = saves[c].seen
      BY <1>1, <2>1 DEF StaysAsItIs
    <3>2. NamesFields(id, version, then) /\ (saves'[c].at = "checked" => version = records[id].version)
      BY <3>1 DEF RecordsInv, SavesNameFields
    <3>3. saves'[c].at = "checked" => records'[id] = records[id]
      <4>1. records[id] # NoRecord
        BY <3>2, NamedIsThere
      <4> QED BY <3>1, <4>1, LockedRowsKept
    <3> QED BY <3>2, <3>3
  <2>2. CASE IsSent(c)
    BY <1>1, <2>2 DEF IsSent
  <2>3. CASE IsJudged(c)
    <3>1. /\ saves[c].at = "sent" /\ saves[c].op = "update" /\ records' = records
          /\ id = saves[c].id /\ version = saves[c].version /\ then = saves[c].seen
          /\ records[saves[c].id].version = saves[c].version
      BY <1>1, <2>3 DEF IsJudged, VersionHolds
    <3> QED BY <3>1 DEF RecordsInv, SavesNameFields
  <2> QED BY <2>1, <2>2, <2>3, RequestsMove DEF RequestGoesOn, IsAnswered
<1>4. NamesFields(id, version, then)'
  BY <1>2, <1>3, NamesAge
<1> QED BY <1>1, <1>3, <1>4 DEF NamesFields

LEMMA LockStaysWithOne == RecordsInv /\ RecordsNext => OneHasTheLock'
<1> SUFFICES ASSUME RecordsInv, RecordsNext, NEW c \in SaveIds, NEW d \in SaveIds,
                    saves'[c].at = "checked", saves'[c].op # "create",
                    saves'[d].at = "checked", saves'[d].op # "create",
                    saves'[d].id = saves'[c].id
             PROVE  c = d
  BY DEF OneHasTheLock
<1>1. ASSUME NEW e \in SaveIds, saves'[e].at = "checked"
      PROVE  /\ StaysAsItIs(e) \/ IsJudged(e)
             /\ saves[e].op = saves'[e].op /\ saves[e].id = saves'[e].id
  BY <1>1, RequestsMove DEF RequestGoesOn, IsSent, IsAnswered, StaysAsItIs, IsJudged
<1>2. CASE IsJudged(c)
  <2> SUFFICES ASSUME c # d PROVE FALSE
    OBVIOUS
  <2>1. saves'[d] = saves[d] /\ RowFree(saves[c].id)
    BY <1>1, <1>2 DEF IsJudged
  <2> QED BY <1>1, <2>1 DEF RowFree
<1>3. CASE IsJudged(d)
  <2> SUFFICES ASSUME c # d PROVE FALSE
    OBVIOUS
  <2>1. saves'[c] = saves[c] /\ RowFree(saves[d].id)
    BY <1>1, <1>3 DEF IsJudged
  <2> QED BY <1>1, <2>1 DEF RowFree
<1>4. CASE StaysAsItIs(c) /\ StaysAsItIs(d)
  BY <1>1, <1>4 DEF StaysAsItIs, RecordsInv, OneHasTheLock
<1> QED BY <1>1, <1>2, <1>3, <1>4

LEMMA SavedStayThere == RecordsInv /\ RecordsNext => SavedAreThere'
<1> SUFFICES ASSUME RecordsInv, RecordsNext, NEW c \in SaveIds,
                    saves'[c].at = "answered", saves'[c].answer = "saved"
             PROVE  records'[saves'[c].id] # NoRecord
  BY DEF SavedAreThere
<1>1. CASE StaysAsItIs(c)
  <2>1. PICK id : id = saves[c].id
    OBVIOUS
  <2>2. saves[c].at = "answered" /\ saves[c].answer = "saved" /\ saves'[c].id = id
    BY <1>1, <2>1 DEF StaysAsItIs
  <2>3. id \in Ids
    <3>1. saves[c].answer \notin Refusals
      BY <2>2 DEF Refusals
    <3> QED BY <2>1, <2>2, <3>1, SaveCases DEF RecordsInv, NoSave
  <2>4. records[id] # NoRecord /\ records[id].version \in Nat
    BY <2>1, <2>2, <2>3 DEF RecordsInv, SavedAreThere, RecordsTyped, RowsHeld
  <2>5. records'[id] = records[id] \/ records'[id].version > records[id].version
    BY <2>3, RecordsWritten DEF RecordsAge
  <2> QED BY <2>2, <2>4, <2>5 DEF NoRecord
<1>2. CASE IsAnswered(c)
  BY <1>2 DEF IsAnswered
<1> QED BY <1>1, <1>2, RequestsMove DEF RequestGoesOn, IsSent, IsJudged

LEMMA RowsStayNumbered == RecordsInv /\ RecordsNext => RowsNumbered'
BY RecordsWritten DEF RecordsInv, RowsNumbered
LEMMA HeldFormsOpen ==
  ASSUME RecordsInv, NEW s \in Screens, NEW screen, screens' = [screens EXCEPT ![s] = screen],
         NEW c \in SaveIds, saves'[c] = Orphaned(s)[c], saves'[c].at # "none", saves'[c].form
  PROVE  screens'[saves'[c].screen].at \in {"editing", "new"}
<1>0. RecordsTyped /\ FormsOpen /\ screens'[s] = screen
      /\ \A t \in Screens \ {s} : screens'[t] = screens[t]
  BY DEF RecordsInv, RecordsTyped
<1>1. PICK quits \in BOOLEAN :
         /\ quits = (screens[s].at \in {"editing", "new"}
                      /\ ~(screens'[s].at = screens[s].at /\ screens'[s].shown = screens[s].shown
                            /\ screens'[s].version = screens[s].version))
         /\ Orphaned(s)[c] = IF quits /\ c \in Mine(s) THEN [saves[c] EXCEPT !.form = FALSE] ELSE saves[c]
  BY DEF Orphaned
<1>2. ~(quits /\ c \in Mine(s))
  <2> SUFFICES ASSUME quits /\ c \in Mine(s) PROVE FALSE
    OBVIOUS
  <2>1. saves'[c] = [saves[c] EXCEPT !.form = FALSE]
    BY <1>1
  <2>2. saves[c] # NoSave
    BY DEF Mine, NoSave
  <2>3. "form" \in DOMAIN saves[c]
    BY <1>0, <2>2, SaveCases DEF SentShape, AnsweredShape
  <2> QED BY <2>1, <2>3
<1>3. saves'[c] = saves[c]
  BY <1>1, <1>2
<1>4. screens[saves[c].screen].at \in {"editing", "new"} /\ saves[c].screen \in Screens
  <2>1. saves[c] # NoSave
    BY <1>3 DEF NoSave
  <2>2. saves[c].screen \in Screens
    BY <1>0, <2>1, SaveCases DEF SentShape, AnsweredShape
  <2> QED BY <1>0, <1>3, <2>2 DEF FormsOpen
<1>5. CASE saves[c].screen = s
  <2>1. c \in Mine(s)
    BY <1>3, <1>5 DEF Mine
  <2>2. screens'[s].at = screens[s].at
    BY <1>1, <1>2, <1>4, <1>5, <2>1
  <2> QED BY <1>3, <1>4, <1>5, <2>2
<1>6. CASE saves[c].screen # s
  BY <1>0, <1>3, <1>4, <1>6
<1> QED BY <1>5, <1>6

LEMMA ScreenOf ==
  ASSUME RecordsTyped, NEW c \in SaveIds, saves[c].at # "none"
  PROVE  saves[c].screen \in Screens /\ saves[c].form \in BOOLEAN
<1>1. saves[c] # NoSave
  BY DEF NoSave
<1> QED BY <1>1, SaveCases DEF SentShape, AnsweredShape

LEMMA FormsStayOpen == RecordsInv /\ RecordsNext => FormsOpen'
<1> SUFFICES ASSUME RecordsInv, RecordsNext, NEW c \in SaveIds, saves'[c].at # "none", saves'[c].form
             PROVE  screens'[saves'[c].screen].at \in {"editing", "new"}
  BY DEF FormsOpen
<1> DEFINE StillOpen == screens'[saves'[c].screen].at \in {"editing", "new"}
<1>0. RecordsTyped /\ FormsOpen
  BY DEF RecordsInv
<1>1. ASSUME screens' = screens, saves'[c].screen = saves[c].screen, saves'[c].form = saves[c].form,
             saves[c].at # "none"
      PROVE  StillOpen
  BY <1>0, <1>1 DEF FormsOpen
<1>2. ASSUME NEW s \in Screens,
             Press(s) \/ Refocus(s) \/ FirstRead(s) \/ Reload(s) \/ KeepEditing(s)
      PROVE  StillOpen
  <2>1. CASE Leave(s)
    BY <2>1, HeldFormsOpen DEF Leave
  <2>2. CASE FirstRead(s)
    BY <2>2, HeldFormsOpen DEF FirstRead
  <2>3. CASE Reload(s)
    BY <2>3, HeldFormsOpen DEF Reload
  <2>4. CASE SaveForm(s) \/ SaveAnyway(s) \/ PressArchive(s) \/ ResetPassword(s)
    <3>1. screens' = screens
      BY <2>4 DEF SaveForm, SaveAnyway, PressArchive, ResetPassword
    <3>2. PICK d \in SaveIds :
             /\ \A e \in SaveIds \ {d} : saves'[e] = saves[e]
             /\ saves'[d].screen = s
             /\ saves'[d].form => screens[s].at \in {"editing", "new"}
      BY <2>4, RequestsBegin
    <3>3. CASE c = d
      BY <3>1, <3>2, <3>3
    <3>4. CASE c # d
      BY <1>1, <3>1, <3>2, <3>4
    <3> QED BY <3>3, <3>4
  <2>5. CASE /\ saves' = saves
             /\ \E screen : /\ screens' = [screens EXCEPT ![s] = screen]
                            /\ screens[s].at \in {"editing", "new"} => screen.at = screens[s].at
    <3>1. screens[saves[c].screen].at \in {"editing", "new"} /\ saves[c].screen \in Screens
      BY <1>0, <2>5, ScreenOf DEF FormsOpen
    <3>2. screens'[saves[c].screen].at = screens[saves[c].screen].at
      BY <1>0, <2>5, <3>1 DEF RecordsTyped
    <3> QED BY <2>5, <3>1, <3>2
  <2>6. ASSUME NEW r \in Ids, Look(s, r) PROVE StillOpen
    <3>1. screens[s].at \notin {"editing", "new"}
      BY <2>6 DEF Look
    <3> QED BY <2>5, <2>6, <3>1 DEF Look
  <2>7. CASE OpenForm(s)
    <3>1. screens[s].at \notin {"editing", "new"}
      BY <2>7 DEF OpenForm
    <3> QED BY <2>5, <2>7, <3>1 DEF OpenForm
  <2>8. CASE OpenNew(s)
    <3>1. screens[s].at \notin {"editing", "new"}
      BY <2>8 DEF OpenNew
    <3> QED BY <2>5, <2>8, <3>1 DEF OpenNew
  <2>9. ASSUME NEW f \in Fields, NEW v \in Inputs, TypeInto(s, f, v) PROVE StillOpen
    <3>1. screens' = [screens EXCEPT ![s] = [screens[s] EXCEPT !.typed[f] = v]] /\ saves' = saves
      BY <2>9 DEF TypeInto
    <3>2. [screens[s] EXCEPT !.typed[f] = v].at = screens[s].at
      <4>1. \/ screens[s] \in FormShape({"editing"}, Ids)
            \/ screens[s] \in FormShape({"new"}, {0})
        BY <1>0, <2>9, ScreenCases DEF TypeInto, Away
      <4> QED BY <4>1 DEF FormShape
    <3> QED BY <2>5, <3>1, <3>2
  <2>10. CASE BackToForm(s)
    <3>1. screens' = [screens EXCEPT ![s] = [screens[s] EXCEPT !.asking = FALSE, !.asked = screens[s].shown]]
          /\ saves' = saves
      BY <1>0, <2>10 DEF BackToForm, RecordsTyped
    <3>2. [screens[s] EXCEPT !.asking = FALSE, !.asked = screens[s].shown].at = screens[s].at
      <4>1. \/ screens[s] \in FormShape({"editing"}, Ids)
            \/ screens[s] \in FormShape({"new"}, {0})
        BY <1>0, <2>10, ScreenCases DEF BackToForm, Away
      <4> QED BY <4>1 DEF FormShape
    <3> QED BY <2>5, <3>1, <3>2
  <2>11. CASE Refocus(s)
    <3>1. screens' = [screens EXCEPT ![s] = [screens[s] EXCEPT !.cached = records[screens[s].id]]] /\ saves' = saves
      BY <2>11 DEF Refocus
    <3>2. screens[s].at \in {"editing", "new"} =>
             [screens[s] EXCEPT !.cached = records[screens[s].id]].at = screens[s].at
      <4> SUFFICES ASSUME screens[s].at \in {"editing", "new"}
                   PROVE [screens[s] EXCEPT !.cached = records[screens[s].id]].at = screens[s].at
        OBVIOUS
      <4>1. \/ screens[s] \in FormShape({"editing"}, Ids)
            \/ screens[s] \in FormShape({"new"}, {0})
        BY <1>0, ScreenCases DEF Away
      <4> QED BY <4>1 DEF FormShape
    <3> QED BY <2>5, <3>1, <3>2
  <2>12. CASE KeepEditing(s)
    BY <1>1, <2>12 DEF KeepEditing
  <2> QED BY <1>2, <2>1, <2>2, <2>3, <2>4, <2>6, <2>7, <2>8, <2>9, <2>10, <2>11, <2>12 DEF Press
<1>3. ASSUME NEW d \in SaveIds, Judge(d) \/ CommitSave(d) \/ RollBack(d) \/ LoseAnswer(d) PROVE StillOpen
  <2>1. screens' = screens /\ saves[d].at \in {"sent", "checked"}
    BY <1>3 DEF Judge, CommitSave, RollBack, LoseAnswer
  <2>2. CASE \E answer, id : saves' = Answered(d, answer, id)
    <3>1. PICK answer, id : saves' = Answered(d, answer, id)
      BY <2>2
    <3>2. saves'[d] = Answer(saves[d], answer, id) /\ \A e \in SaveIds \ {d} : saves'[e] = saves[e]
      BY <1>0, <3>1 DEF Answered, RecordsTyped
    <3>3. saves'[d].at # "none" => saves'[d].screen = saves[d].screen /\ saves'[d].form = saves[d].form
      BY <3>2 DEF Answer, NoSave
    <3> QED BY <1>1, <2>1, <3>2, <3>3
  <2>3. CASE \E save : /\ saves' = [saves EXCEPT ![d] = save] /\ save.screen = saves[d].screen
                       /\ save.form => saves[d].form
    <3>1. PICK save : /\ saves' = [saves EXCEPT ![d] = save] /\ save.screen = saves[d].screen
                      /\ save.form => saves[d].form
      BY <2>3
    <3>2. saves'[d] = save /\ \A e \in SaveIds \ {d} : saves'[e] = saves[e]
      BY <1>0, <3>1 DEF RecordsTyped
    <3>3. CASE c = d
      BY <1>0, <2>1, <3>1, <3>2, <3>3 DEF FormsOpen
    <3>4. CASE c # d
      BY <1>1, <2>1, <3>2, <3>4
    <3> QED BY <3>3, <3>4
  <2>4. saves[d] \in SentShape({"create"}, {0}) \/ saves[d] \in SentShape({"update", "archive", "reset"}, Ids)
    BY <1>0, <2>1, SaveCases DEF NoSave
  <2>5. CASE Judge(d)
    <3>1. CASE saves' = [saves EXCEPT ![d].at = "checked"]
      <4>1. saves' = [saves EXCEPT ![d] = [saves[d] EXCEPT !.at = "checked"]]
        BY <3>1
      <4>2. /\ [saves[d] EXCEPT !.at = "checked"].screen = saves[d].screen
            /\ [saves[d] EXCEPT !.at = "checked"].form = saves[d].form
        BY <2>4 DEF SentShape
      <4> QED BY <2>3, <4>1, <4>2
    <3> QED BY <2>2, <2>5, <3>1 DEF Judge
  <2>6. CASE LoseAnswer(d)
    <3>1. saves' = [saves EXCEPT ![d] = [saves[d] EXCEPT !.heard = FALSE, !.form = FALSE]]
      BY <1>0, <2>6 DEF LoseAnswer, RecordsTyped
    <3>2. /\ [saves[d] EXCEPT !.heard = FALSE, !.form = FALSE].screen = saves[d].screen
          /\ [saves[d] EXCEPT !.heard = FALSE, !.form = FALSE].form = FALSE
      BY <2>4 DEF SentShape
    <3> QED BY <2>3, <3>1, <3>2
  <2>7. CASE CommitSave(d) \/ RollBack(d)
    BY <2>2, <2>7 DEF CommitSave, RollBack, InsertRecord, WriteRecord
  <2> QED BY <1>3, <2>5, <2>6, <2>7
<1>4. ASSUME NEW d \in SaveIds, Hear(d) PROVE StillOpen
  <2>1. PICK s : s = saves[d].screen
    OBVIOUS
  <2>2. /\ s \in Screens /\ screens' = [screens EXCEPT ![s] = AfterAnswer(s, d)]
        /\ saves' = [Orphaned(s) EXCEPT ![d] = NoSave]
    BY <1>0, <1>4, <2>1, AfterAnswerBuilt DEF Hear
  <2>3. saves'[d] = NoSave /\ \A e \in SaveIds \ {d} : saves'[e] = Orphaned(s)[e]
    BY <1>0, <2>2, OrphanedBuilt
  <2>4. c # d
    BY <2>3 DEF NoSave
  <2> QED BY <2>2, <2>3, <2>4, HeldFormsOpen
<1>5. ASSUME NEW r \in Ids, EditedElsewhere(r) PROVE StillOpen
  BY <1>1, <1>5 DEF EditedElsewhere
<1> QED BY <1>2, <1>3, <1>4, <1>5 DEF RecordsNext
LEMMA RecordsHold == RecordsSpec => []RecordsInv
<1>1. RecordsInv /\ [RecordsNext]_recordVars => RecordsInv'
  <2> SUFFICES ASSUME RecordsInv, [RecordsNext]_recordVars PROVE RecordsInv'
    OBVIOUS
  <2>1. CASE RecordsNext
    BY <2>1, RecordsStayTyped, FormsStayOpen, RowsStayNumbered, ScreensKeepNames, SavesKeepNames,
       LockStaysWithOne, SavedStayThere DEF RecordsInv
  <2>2. CASE UNCHANGED recordVars
    <3>1. /\ RecordsTyped' = RecordsTyped /\ FormsOpen' = FormsOpen /\ RowsNumbered' = RowsNumbered
          /\ OneHasTheLock' = OneHasTheLock /\ SavedAreThere' = SavedAreThere
      BY <2>2 DEF recordVars, RecordsTyped, FormsOpen, RowsNumbered, OneHasTheLock, SavedAreThere, Kinds
    <3>2. ScreensNameFields' = ScreensNameFields /\ SavesNameFields' = SavesNameFields
      BY <2>2 DEF recordVars, ScreensNameFields, ScreenNames, SavesNameFields, NamesFields, InDialog
    <3> QED BY <3>1, <3>2 DEF RecordsInv
  <2> QED BY <2>1, <2>2
<1> QED BY <1>1, RecordsBegin, PTL DEF RecordsSpec

(* An update written, of two changes at once its own, was made from the    *)
(* row's fields.                                                           *)
OnlySeenOverwritten ==
    \A c \in SaveIds :
       (saves[c].at = "checked" /\ saves[c].op = "update" /\ records' # records
          /\ saves'[c] # saves[c]) =>
       saves[c].seen = records[saves[c].id].fields
TypedStays(s) ==
    (Unsaved(screens[s]) /\ screens'[s].at # "away"
       /\ ~(screens'[s].at = screens[s].at /\ screens'[s].shown = screens[s].shown
             /\ screens'[s].version = screens[s].version)) =>
    \/ screens[s].first
    \/ clash[s] # 0 /\ clash'[s] = 0
    \/ \E c \in Mine(s) : saves[c].at = "answered" /\ saves'[c] # saves[c]
                         /\ (saves[c].answer = "saved" \/ saves[c].op = "archive")

LEMMA SeenIsOverwritten == RecordsInv => OnlySeenOverwritten
BY DEF RecordsInv, SavesNameFields, NamesFields, OnlySeenOverwritten

LEMMA SameFormStays ==
  ASSUME RecordsTyped, NEW s \in Screens, NEW t \in Screens, NEW screen,
         screens' = [screens EXCEPT ![t] = screen],
         \/ screens[t].at \notin {"editing", "new"}
         \/ screen.at = "away"
         \/ screen.at = screens[t].at /\ screen.shown = screens[t].shown /\ screen.version = screens[t].version
  PROVE  TypedStays(s)
<1>1. CASE t = s
  <2>1. screens'[s] = screen
    BY <1>1 DEF RecordsTyped
  <2> QED BY <1>1, <2>1 DEF TypedStays, Unsaved
<1>2. CASE t # s
  <2>1. screens'[s] = screens[s]
    BY <1>2 DEF RecordsTyped
  <2> QED BY <2>1 DEF TypedStays
<1> QED BY <1>1, <1>2

LEMMA OpenShape ==
  ASSUME RecordsTyped, NEW s \in Screens, screens[s].at \in {"editing", "new"}
  PROVE  screens[s] \in FormShape({"editing"}, Ids) \/ screens[s] \in FormShape({"new"}, {0})
BY ScreenCases DEF Away

LEMMA FormParts ==
  ASSUME RecordsTyped, NEW s \in Screens, screens[s].at \in {"editing", "new"}, NEW after,
         \/ \E f, v : after = [screens[s] EXCEPT !.typed[f] = v]
         \/ \E asking, held : after = [screens[s] EXCEPT !.asking = asking, !.asked = held]
         \/ \E found : after = [screens[s] EXCEPT !.cached = found]
  PROVE  after.at = screens[s].at /\ after.shown = screens[s].shown /\ after.version = screens[s].version
<1>1. screens[s] \in FormShape({"editing"}, Ids) \/ screens[s] \in FormShape({"new"}, {0})
  BY OpenShape
<1> QED BY <1>1 DEF FormShape

LEMMA TypedIsKept ==
  ASSUME RecordsInv, RecordsNext, NEW s \in Screens
  PROVE  TypedStays(s)
<1>0. RecordsTyped /\ FormsOpen
  BY DEF RecordsInv
<1>1. CASE screens' = screens
  BY <1>1 DEF TypedStays
<1>2. ASSUME NEW t \in Screens,
             Press(t) \/ Refocus(t) \/ FirstRead(t) \/ Reload(t) \/ KeepEditing(t)
      PROVE  TypedStays(s)
  <2>1. ASSUME NEW r \in Ids, Look(t, r) PROVE TypedStays(s)
    BY <1>0, <2>1, SameFormStays DEF Look
  <2>2. CASE OpenForm(t) \/ OpenNew(t)
    BY <1>0, <2>2, SameFormStays DEF OpenForm, OpenNew
  <2>3. CASE Leave(t)
    BY <1>0, <2>3, SameFormStays DEF Leave, Away
  <2>4. ASSUME NEW f \in Fields, NEW v \in Inputs, TypeInto(t, f, v) PROVE TypedStays(s)
    <3>1. PICK after : after = [screens[t] EXCEPT !.typed[f] = v]
      OBVIOUS
    <3>2. screens' = [screens EXCEPT ![t] = after]
      BY <2>4, <3>1 DEF TypeInto
    <3>3. after.at = screens[t].at /\ after.shown = screens[t].shown /\ after.version = screens[t].version
      BY <1>0, <2>4, <3>1, FormParts DEF TypeInto
    <3> QED BY <1>0, <3>2, <3>3, SameFormStays
  <2>5. CASE BackToForm(t)
    <3>1. PICK after : after = [screens[t] EXCEPT !.asking = FALSE, !.asked = screens[t].shown]
      OBVIOUS
    <3>2. screens' = [screens EXCEPT ![t] = after]
      BY <1>0, <2>5, <3>1 DEF BackToForm, RecordsTyped
    <3>3. after.at = screens[t].at /\ after.shown = screens[t].shown /\ after.version = screens[t].version
      BY <1>0, <2>5, <3>1, FormParts DEF BackToForm
    <3> QED BY <1>0, <3>2, <3>3, SameFormStays
  <2>6. CASE SaveForm(t) \/ SaveAnyway(t) \/ PressArchive(t) \/ ResetPassword(t) \/ KeepEditing(t)
    BY <1>1, <2>6 DEF SaveForm, SaveAnyway, PressArchive, ResetPassword, KeepEditing
  <2>7. CASE Refocus(t)
    <3>1. PICK after : after = [screens[t] EXCEPT !.cached = records[screens[t].id]]
      OBVIOUS
    <3>2. screens' = [screens EXCEPT ![t] = after]
      BY <2>7, <3>1 DEF Refocus
    <3>3. screens[t].at \in {"editing", "new"} =>
             after.at = screens[t].at /\ after.shown = screens[t].shown /\ after.version = screens[t].version
      BY <1>0, <3>1, FormParts
    <3> QED BY <1>0, <3>2, <3>3, SameFormStays
  <2>8. CASE FirstRead(t)
    <3>1. CASE t = s
      BY <2>8, <3>1 DEF FirstRead, TypedStays
    <3>2. CASE t # s
      <4>1. screens'[s] = screens[s]
        BY <1>0, <2>8, <3>2 DEF FirstRead, RecordsTyped
      <4> QED BY <4>1 DEF TypedStays
    <3> QED BY <3>1, <3>2
  <2>9. CASE Reload(t)
    <3>1. CASE t = s
      <4>1. clash[s] # 0 /\ clash'[s] = 0
        BY <1>0, <2>9, <3>1 DEF Reload, RecordsTyped
      <4> QED BY <4>1 DEF TypedStays
    <3>2. CASE t # s
      <4>1. screens'[s] = screens[s]
        BY <1>0, <2>9, <3>2 DEF Reload, RecordsTyped
      <4> QED BY <4>1 DEF TypedStays
    <3> QED BY <3>1, <3>2
  <2> QED BY <1>2, <2>1, <2>2, <2>3, <2>4, <2>5, <2>6, <2>7, <2>8, <2>9 DEF Press
<1>3. ASSUME NEW c \in SaveIds, Judge(c) \/ CommitSave(c) \/ RollBack(c) \/ LoseAnswer(c)
      PROVE  screens' = screens
  BY <1>3 DEF Judge, CommitSave, RollBack, LoseAnswer
<1>4. ASSUME NEW c \in SaveIds, Hear(c) PROVE TypedStays(s)
  <2>1. PICK t \in Screens : t = saves[c].screen
    BY <1>0, <1>4, AfterAnswerBuilt DEF Hear
  <2>2. screens' = [screens EXCEPT ![t] = AfterAnswer(t, c)] /\ saves' = [Orphaned(t) EXCEPT ![c] = NoSave]
    BY <1>4, <2>1 DEF Hear
  <2>3. CASE saves[c].answer = "saved" \/ saves[c].op = "archive"
    <3>1. saves'[c] # saves[c] /\ c \in Mine(t) /\ saves[c].at = "answered"
      <4>1. saves'[c] = NoSave /\ saves[c].at = "answered"
        BY <1>0, <1>4, <2>2, OrphanedBuilt DEF Hear
      <4> QED BY <2>1, <4>1 DEF NoSave, Mine
    <3>2. CASE t = s
      BY <2>3, <3>1, <3>2 DEF TypedStays
    <3>3. CASE t # s
      <4>1. screens'[s] = screens[s]
        BY <1>0, <2>2, <3>3 DEF RecordsTyped
      <4> QED BY <4>1 DEF TypedStays
    <3> QED BY <3>2, <3>3
  <2>4. CASE ~(saves[c].answer = "saved" \/ saves[c].op = "archive")
    <3>1. PICK after : after = AfterAnswer(t, c)
      OBVIOUS
    <3>2. after.at = screens[t].at /\ after.shown = screens[t].shown /\ after.version = screens[t].version
      <4>1. CASE saves[c].answer = "duplicate" /\ saves[c].form
        <5>1. after = [screens[t] EXCEPT !.asking = TRUE, !.asked = saves[c].body]
          BY <2>4, <3>1, <4>1 DEF AfterAnswer
        <5>2. screens[t].at \in {"editing", "new"}
          BY <1>0, <1>4, <2>1, <4>1 DEF Hear, FormsOpen
        <5> QED BY <1>0, <5>1, <5>2, FormParts
      <4>2. CASE ~(saves[c].answer = "duplicate" /\ saves[c].form)
        BY <2>4, <3>1, <4>2 DEF AfterAnswer
      <4> QED BY <4>1, <4>2
    <3> QED BY <1>0, <2>2, <3>1, <3>2, SameFormStays
  <2> QED BY <2>3, <2>4
<1>5. ASSUME NEW r \in Ids, EditedElsewhere(r) PROVE screens' = screens
  BY <1>5 DEF EditedElsewhere
<1> QED BY <1>1, <1>2, <1>3, <1>4, <1>5 DEF RecordsNext

(* Nothing is lost unseen, for any number of tabs, records, requests and    *)
(* versions.                                                               *)
THEOREM NothingIsLostUnseen == RecordsSpec => NothingLostUnseen
<1>1. RecordsInv /\ [RecordsNext]_recordVars =>
         [OnlySeenOverwritten]_recordVars /\ [\A s \in Screens : TypedStays(s)]_recordVars
  BY SeenIsOverwritten, TypedIsKept
<1>2. [][OnlySeenOverwritten]_recordVars /\ [][\A s \in Screens : TypedStays(s)]_recordVars
         => NothingLostUnseen
  BY DEF NothingLostUnseen, OnlySeenOverwritten, TypedStays
<1> QED BY <1>1, <1>2, RecordsHold, PTL DEF RecordsSpec

-----------------------------------------------------------------------------
(* Failures are a sum over ticks.                                         *)
LEMMA FailuresAreASum ==
  ASSUME NEW a, NEW from PROVE FailuresOf(a, from) = SumOver({t \in Ticks : t >= from}, failed[a])
BY DEF FailuresOf, SumOver

(* 2 ^ n is a natural number: the subsets of 1 .. n are as many.            *)
LEMMA PowerOfTwo == ASSUME NEW n \in Nat PROVE 2 ^ n \in Nat
<1>1. IsFiniteSet(1 .. n) /\ Cardinality(1 .. n) = n
  <2>1. 1 .. n = {} => n = 0
    OBVIOUS
  <2> QED BY FS_Interval
<1>2. IsFiniteSet(SUBSET (1 .. n)) /\ Cardinality(SUBSET (1 .. n)) = 2 ^ Cardinality(1 .. n)
  BY <1>1, FS_SUBSET
<1>3. Cardinality(SUBSET (1 .. n)) \in Nat
  BY <1>2, FS_CardinalityType
<1> QED BY <1>1, <1>2, <1>3

LEMMA FailuresAreSums == \A a, from : FailuresOf(a, from) = SumOver({t \in Ticks : t >= from}, failed[a])
BY FailuresAreASum

LEMMA FailuresAreSumsAfter == (\A a, from : FailuresOf(a, from) = SumOver({t \in Ticks : t >= from}, failed[a]))'
BY FailuresAreSums, PTL

LEMMA FailuresAreASumAfter ==
  ASSUME NEW a, NEW from PROVE FailuresOf(a, from)' = SumOver({t \in Ticks : t >= from}, failed'[a])
BY FailuresAreSumsAfter DEF Ticks

LEMMA TicksFrom ==
  ASSUME NEW from \in Int
  PROVE  IsFiniteSet({t \in Ticks : t >= from}) /\ {t \in Ticks : t >= from} \subseteq Ticks /\ Ticks \subseteq Nat
<1>1. IsFiniteSet(Ticks) /\ Ticks \subseteq Nat
  BY ThrottleAssumption, FS_Interval DEF Ticks
<1> QED BY <1>1, FS_Subset

LEMMA FailuresTyped ==
  ASSUME failed \in [Addresses -> [Ticks -> Nat]], NEW a \in Addresses, NEW from \in Int
  PROVE  FailuresOf(a, from) \in Nat
<1>1. \A t \in {u \in Ticks : u >= from} : failed[a][t] \in Nat
  OBVIOUS
<1> QED BY <1>1, TicksFrom, SumIsNat, FailuresAreASum

(* Counted from earlier, there are no fewer.                               *)
LEMMA FailuresSince ==
  ASSUME failed \in [Addresses -> [Ticks -> Nat]], NEW a \in Addresses,
         NEW early \in Int, NEW late \in Int, early <= late
  PROVE  FailuresOf(a, late) <= FailuresOf(a, early)
<1>1. PICK S, T : S = {t \in Ticks : t >= early} /\ T = {t \in Ticks : t >= late}
  OBVIOUS
<1>2. T \in SUBSET S /\ IsFiniteSet(S) /\ \A t \in S : failed[a][t] \in Nat
  <2>1. \A t \in Ticks : t \in Nat /\ (t >= late => t >= early)
    BY ThrottleAssumption DEF Ticks
  <2>2. IsFiniteSet(S) /\ S \subseteq Ticks
    BY <1>1, TicksFrom
  <2> QED BY <1>1, <2>1, <2>2
<1>3. SumOver(T, failed[a]) <= SumOver(S, failed[a])
  BY ONLY <1>2, SumOfPartAtMost
<1> QED BY <1>1, <1>3, FailuresAreASum

(* One wrong password more, counted from any tick up to now.               *)
LEMMA FailureCounted ==
  ASSUME ThrottleTypeOK, NEW a \in Addresses, failed' = [failed EXCEPT ![a][time] = @ + 1],
         NEW b \in Addresses, NEW from \in Int
  PROVE  /\ FailuresOf(b, from)' >= FailuresOf(b, from)
         /\ b = a /\ from <= time => FailuresOf(b, from)' = FailuresOf(b, from) + 1
         /\ failed' \in [Addresses -> [Ticks -> Nat]] /\ failed'[a][time] > 0
         /\ \A t \in Ticks : failed[b][t] > 0 => failed'[b][t] > 0
<1>1. PICK S : S = {t \in Ticks : t >= from}
  OBVIOUS
<1>2. IsFiniteSet(S) /\ S \subseteq Ticks
  BY <1>1, TicksFrom
<1>3. failed \in [Addresses -> [Ticks -> Nat]] /\ time \in Ticks
  BY DEF ThrottleTypeOK
<1>4. \A t \in Ticks : /\ failed[b][t] \in Nat
                       /\ failed'[b][t] = IF b = a /\ t = time THEN failed[b][t] + 1 ELSE failed[b][t]
  BY <1>3
<1>5. PICK f, g : f = failed[b] /\ g = failed'[b]
  OBVIOUS
<1>6. \A t \in S : f[t] \in Int /\ g[t] \in Int /\ f[t] <= g[t]
  BY <1>2, <1>4, <1>5
<1>7. SumOver(S, f) <= SumOver(S, g) /\ SumOver(S, f) \in Int /\ SumOver(S, g) \in Int
  BY ONLY <1>2, <1>6, SumAtMost, SumIsInt
<1>8. b = a /\ from <= time => SumOver(S, g) = SumOver(S, f) + 1
  <2> SUFFICES ASSUME b = a, from <= time PROVE SumOver(S, g) = SumOver(S, f) + 1
    OBVIOUS
  <2>1. PICK now \in S : now = time
    BY <1>1, <1>3
  <2>2. g[now] = f[now] + 1
    BY <1>2, <1>4, <1>5, <2>1
  <2>3. /\ \A t \in S : f[t] \in Int /\ g[t] \in Int
        /\ \A t \in S \ {now} : f[t] = g[t]
        /\ IsFiniteSet(S) /\ now \in S
    BY <1>2, <1>4, <1>5, <1>6, <2>1
  <2>4. SumOver(S, g) = SumOver(S, f) - f[now] + g[now]
    BY ONLY <2>3, SumOneChanged
  <2>5. PICK m, n : m = SumOver(S, f) /\ n = f[now]
    OBVIOUS
  <2>6. m \in Int /\ n \in Int
    BY <1>7, <2>3, <2>5
  <2> QED BY <2>2, <2>4, <2>5, <2>6
<1>9. failed' \in [Addresses -> [Ticks -> Nat]] /\ failed'[a][time] > 0
  BY <1>3
<1>10. FailuresOf(b, from) = SumOver(S, f) /\ FailuresOf(b, from)' = SumOver(S, g)
  BY <1>1, <1>5, FailuresAreASum, FailuresAreASumAfter
<1> QED BY <1>4, <1>7, <1>8, <1>9, <1>10
-----------------------------------------------------------------------------
(* What a row of an address says of the address's own wrong passwords: its *)
(* count is of its window, a lock is of enough of them, and the last it    *)
(* counted is one.                                                         *)
CountsOwn(a, row) ==
    /\ row.since <= time
    /\ row.count <= FailuresOf(a, row.since)
    /\ row.until # 0 => FailuresOf(a, row.until - LockMax - Window) >= MaxFailures
    /\ (row.count > 0 \/ row.until # 0) => failed[a][row.updated] > 0
ThrottleInv ==
    /\ ThrottleTypeOK
    /\ \A a \in Addresses : pair[a] # Absent => CountsOwn(a, pair[a])

LEMMA RowKinds ==
  ASSUME NEW row \in ThrottleRows \cup {Absent}
  PROVE  /\ row # Absent => row \in ThrottleRows
         /\ row.until \in Nat /\ Absent.until = 0 /\ Absent \notin ThrottleRows
BY DEF ThrottleRows, Absent

LEMMA RowFields ==
  ASSUME NEW row \in ThrottleRows
  PROVE  /\ row.count \in Nat /\ row.since \in Ticks /\ row.since \in Int
         /\ row.until \in Nat /\ row.until \in Int /\ row.locks \in Nat /\ row.updated \in Ticks
<1>1. row.count \in Nat /\ row.since \in Ticks /\ row.until \in Nat /\ row.locks \in Nat /\ row.updated \in Ticks
  BY DEF ThrottleRows
<1>2. \A t \in Ticks : t \in Int
  BY ThrottleAssumption DEF Ticks
<1> QED BY <1>1, <1>2

LEMMA LockedRow ==
  ASSUME ThrottleTypeOK, NEW row \in ThrottleRows \cup {Absent}
  PROVE  /\ Locked(row) \in ThrottleRows /\ Locked(row).until = row.until
         /\ row # Absent => Locked(row) = row
         /\ row = Absent => Locked(row) = [count |-> 0, since |-> time, until |-> 0, locks |-> 0, updated |-> time]
<1>1. [count |-> 0, since |-> time, until |-> 0, locks |-> 0, updated |-> time] \in ThrottleRows
  BY DEF ThrottleTypeOK, ThrottleRows
<1> QED BY <1>1, RowKinds DEF Locked

LEMMA LockedCountsOwn ==
  ASSUME ThrottleInv, NEW a \in Addresses
  PROVE  CountsOwn(a, Locked(pair[a]))
<1>0. ThrottleTypeOK
  BY DEF ThrottleInv
<1>1. pair[a] \in ThrottleRows \cup {Absent} /\ time \in Int /\ failed \in [Addresses -> [Ticks -> Nat]]
  <2>1. time \in Ticks
    BY <1>0 DEF ThrottleTypeOK
  <2> QED BY <1>0, <2>1, ThrottleAssumption DEF ThrottleTypeOK, Ticks
<1>2. CASE pair[a] # Absent
  BY <1>0, <1>1, <1>2, LockedRow DEF ThrottleInv
<1>3. CASE pair[a] = Absent
  <2>1. Locked(pair[a]) = [count |-> 0, since |-> time, until |-> 0, locks |-> 0, updated |-> time]
    BY <1>0, <1>1, <1>3, LockedRow
  <2>2. FailuresOf(a, time) \in Nat
    BY <1>1, FailuresTyped
  <2>3. PICK row : row = Locked(pair[a])
    OBVIOUS
  <2>4. row.count = 0 /\ row.since = time /\ row.until = 0 /\ row.since <= time
    BY <1>1, <2>1, <2>3
  <2>5. CountsOwn(a, row)
    BY <2>2, <2>4 DEF CountsOwn
  <2> QED BY <2>3, <2>5
<1> QED BY <1>2, <1>3

LEMMA DurationsBounded ==
  ASSUME NEW base \in Nat, NEW longest \in Nat, NEW locks \in Nat
  PROVE  Doubled(base, longest, locks) \in Nat /\ Doubled(base, longest, locks) <= longest
<1>1. PICK n \in Nat : n = 2 ^ locks
  BY PowerOfTwo
<1>2. base * n \in Nat
  OBVIOUS
<1> QED BY <1>1, <1>2 DEF Doubled

(* A failure counted: the row goes on, or is locked and starts again.      *)
IsCounted(after, row, window, threshold, duration, mayLock) ==
    /\ after \in ThrottleRows /\ after.updated = time
    /\ \/ /\ after.until = row.until
          /\ \/ after.count = 1 /\ after.since = time
             \/ after.count = row.count + 1 /\ after.since = row.since
       \/ /\ mayLock /\ after.count = 0 /\ after.since = time /\ after.until = time + duration
          /\ \/ threshold = 1
             \/ threshold <= row.count + 1 /\ time - row.since <= window

LEMMA FailureRow ==
  ASSUME ThrottleTypeOK, NEW row \in ThrottleRows, NEW window \in Nat, NEW threshold \in Nat \ {0},
         NEW duration \in Nat, NEW mayLock \in BOOLEAN,
         NEW after, after = CountFailure(row, window, threshold, duration, mayLock)
  PROVE  IsCounted(after, row, window, threshold, duration, mayLock)
<1>1. /\ row.count \in Nat /\ row.since \in Ticks /\ row.until \in Nat /\ row.locks \in Nat
      /\ time \in Ticks /\ Ticks \subseteq Nat
  BY ThrottleAssumption DEF ThrottleRows, ThrottleTypeOK, Ticks
<1>2. PICK over \in BOOLEAN, count \in Nat, since \in Ticks :
         /\ over = (time - row.since > window)
         /\ count = IF over THEN 1 ELSE row.count + 1
         /\ since = IF over THEN time ELSE row.since
  <2>1. /\ (time - row.since > window) \in BOOLEAN
        /\ (IF time - row.since > window THEN 1 ELSE row.count + 1) \in Nat
        /\ (IF time - row.since > window THEN time ELSE row.since) \in Ticks
    BY <1>1
  <2> QED BY <2>1
<1>3. CASE count < threshold \/ ~mayLock
  <2>1. after = [row EXCEPT !.count = count, !.since = since, !.updated = time]
    BY <1>2, <1>3 DEF CountFailure
  <2>2. /\ after \in ThrottleRows /\ after.updated = time /\ after.until = row.until
        /\ after.count = count /\ after.since = since
    BY <1>1, <2>1 DEF ThrottleRows
  <2> QED BY <1>2, <2>2 DEF IsCounted
<1>4. CASE ~(count < threshold \/ ~mayLock)
  <2>1. after = [count |-> 0, since |-> time, until |-> time + duration, locks |-> row.locks + 1, updated |-> time]
    BY <1>2, <1>4 DEF CountFailure
  <2>2. time + duration \in Nat /\ row.locks + 1 \in Nat
    BY <1>1
  <2>3. after \in ThrottleRows
    BY <1>1, <2>1, <2>2 DEF ThrottleRows
  <2>4. threshold = 1 \/ (threshold <= row.count + 1 /\ time - row.since <= window)
    BY <1>1, <1>2, <1>4
  <2> QED BY <1>4, <2>1, <2>3, <2>4 DEF IsCounted
<1> QED BY <1>3, <1>4

LEMMA WrongPasswordCounts ==
  ASSUME ThrottleInv, NEW a \in Addresses, WrongPassword(a)
  PROVE  /\ ThrottleInv'
         /\ ceiling'.until > ceiling.until => Cardinality(FailingAddresses(pair')) >= MinAddresses
<1>0. ThrottleTypeOK /\ time \in Ticks /\ Ticks \subseteq Nat /\ time \in Int
  BY ThrottleAssumption DEF ThrottleInv, ThrottleTypeOK, Ticks
<1>1. /\ failed' = [failed EXCEPT ![a][time] = @ + 1]
      /\ pair' = [pair EXCEPT ![a] = PairFailure(Locked(pair[a]))]
      /\ ceiling' = CeilingFailure(Locked(ceiling), pair') /\ time' = time /\ known' = known
  BY DEF WrongPassword
<1>2. /\ Window \in Nat /\ MaxFailures \in Nat \ {0} /\ LockBase \in Nat /\ LockMax \in Nat
      /\ AccountWindow \in Nat /\ AccountMaxFailures \in Nat \ {0} /\ HoldBase \in Nat /\ HoldMax \in Nat
      /\ MinAddresses \in Nat
  BY ThrottleAssumption
<1>3. PICK row : row = Locked(pair[a])
  OBVIOUS
<1>4. row \in ThrottleRows /\ CountsOwn(a, row)
  <2>1. pair[a] \in ThrottleRows \cup {Absent}
    BY <1>0 DEF ThrottleTypeOK
  <2> QED BY <1>0, <1>3, <2>1, LockedRow, LockedCountsOwn
<1>5. /\ row.count \in Nat /\ row.since \in Int /\ row.until \in Nat /\ row.locks \in Nat
      /\ row.updated \in Ticks
  BY <1>4, RowFields
<1>6. PICK duration \in Nat : duration = Doubled(LockBase, LockMax, row.locks) /\ duration <= LockMax
  BY <1>2, <1>5, DurationsBounded
<1>7. PICK after : after = CountFailure(row, Window, MaxFailures, duration, TRUE)
  OBVIOUS
<1>8. /\ after \in ThrottleRows /\ after.updated = time
      /\ \/ /\ after.until = row.until
            /\ \/ after.count = 1 /\ after.since = time
               \/ after.count = row.count + 1 /\ after.since = row.since
         \/ /\ after.count = 0 /\ after.since = time /\ after.until = time + duration
            /\ \/ MaxFailures = 1
               \/ MaxFailures <= row.count + 1 /\ time - row.since <= Window
  <2>1. PICK sure : sure = TRUE
    OBVIOUS
  <2>2. after = CountFailure(row, Window, MaxFailures, duration, sure) /\ sure \in BOOLEAN
    BY <1>7, <2>1
  <2>3. Window \in Nat /\ MaxFailures \in Nat \ {0} /\ duration \in Nat /\ row \in ThrottleRows
    BY <1>2, <1>4, <1>6
  <2>4. IsCounted(after, row, Window, MaxFailures, duration, sure)
    BY <1>0, <2>2, <2>3, FailureRow
  <2> QED BY <2>4, Zenon DEF IsCounted
<1>9. pair'[a] = after /\ \A b \in Addresses \ {a} : pair'[b] = pair[b]
  BY <1>0, <1>1, <1>3, <1>6, <1>7 DEF PairFailure, ThrottleTypeOK
<1>10. /\ failed' \in [Addresses -> [Ticks -> Nat]] /\ failed'[a][time] > 0
       /\ \A b \in Addresses, t \in Ticks : failed[b][t] > 0 => failed'[b][t] > 0
       /\ failed \in [Addresses -> [Ticks -> Nat]]
  BY <1>0, <1>1, FailureCounted DEF ThrottleTypeOK
<1>11. \A b \in Addresses, from \in Int :
          /\ FailuresOf(b, from) \in Nat /\ FailuresOf(b, from)' \in Nat
          /\ FailuresOf(b, from)' >= FailuresOf(b, from)
          /\ b = a /\ from <= time => FailuresOf(b, from)' = FailuresOf(b, from) + 1
  <2> SUFFICES ASSUME NEW b \in Addresses, NEW from \in Int
               PROVE /\ FailuresOf(b, from) \in Nat /\ FailuresOf(b, from)' \in Nat
                     /\ FailuresOf(b, from)' >= FailuresOf(b, from)
                     /\ b = a /\ from <= time => FailuresOf(b, from)' = FailuresOf(b, from) + 1
    OBVIOUS
  <2>1. FailuresOf(b, from) \in Nat
    BY <1>10, FailuresTyped
  <2>2. /\ FailuresOf(b, from)' >= FailuresOf(b, from)
        /\ b = a /\ from <= time => FailuresOf(b, from)' = FailuresOf(b, from) + 1
    BY <1>0, <1>1, FailureCounted
  <2>3. FailuresOf(b, from)' \in Nat
    <3>1. \A t \in {u \in Ticks : u >= from} : failed'[b][t] \in Nat
      BY <1>10
    <3> QED BY <3>1, TicksFrom, SumIsNat, FailuresAreASumAfter
  <2> QED BY <2>1, <2>2, <2>3
<1>12. ASSUME NEW b \in Addresses, pair'[b] # Absent PROVE CountsOwn(b, pair[b])'
  <2>1. CASE b # a
    <3>1. PICK stays : stays = pair[b]
      OBVIOUS
    <3>2. stays = pair'[b] /\ stays # Absent /\ stays \in ThrottleRows \cup {Absent}
      BY <1>0, <1>9, <1>12, <2>1, <3>1 DEF ThrottleTypeOK
    <3>3. stays \in ThrottleRows /\ CountsOwn(b, stays)
      BY <1>12, <3>1, <3>2, RowKinds DEF ThrottleInv
    <3>4. /\ stays.count \in Nat /\ stays.since \in Int /\ stays.until \in Nat /\ stays.updated \in Ticks
          /\ stays.until - LockMax - Window \in Int
      BY <1>2, <3>3, RowFields
    <3>5. PICK from \in Int : from = stays.until - LockMax - Window
      BY <3>4
    <3>6. stays.count <= FailuresOf(b, stays.since)'
      BY <1>11, <3>3, <3>4 DEF CountsOwn
    <3>7. stays.until # 0 => FailuresOf(b, from)' >= MaxFailures
      BY <1>2, <1>11, <3>3, <3>5 DEF CountsOwn
    <3>8. stays.count > 0 \/ stays.until # 0 => failed'[b][stays.updated] > 0
      BY <1>10, <3>3, <3>4 DEF CountsOwn
    <3>9. stays.since <= time'
      BY <1>1, <3>3 DEF CountsOwn
    <3> QED BY <3>2, <3>5, <3>6, <3>7, <3>8, <3>9 DEF CountsOwn
  <2>2. CASE b = a
    <3>1. PICK since \in Int, until \in Nat, from \in Int :
             since = after.since /\ until = after.until /\ from = until - LockMax - Window
      <4>1. after.since \in Int /\ after.until \in Nat
        BY <1>8, RowFields
      <4> QED BY <1>2, <4>1
    <3>2. after.count <= FailuresOf(a, since)'
      <4>1. FailuresOf(a, time)' = FailuresOf(a, time) + 1 /\ FailuresOf(a, time) \in Nat
        <5>1. PICK now \in Int : now = time
          BY <1>0
        <5>2. FailuresOf(a, now)' = FailuresOf(a, now) + 1 /\ FailuresOf(a, now) \in Nat
          BY <1>0, <1>11, <5>1
        <5> QED BY <1>1, <5>1, <5>2
      <4>2. row.since <= time => FailuresOf(a, row.since)' = FailuresOf(a, row.since) + 1
        BY <1>5, <1>11
      <4>3. row.count <= FailuresOf(a, row.since) /\ FailuresOf(a, row.since) \in Nat
        BY <1>4, <1>5, <1>11 DEF CountsOwn
      <4>4. row.since <= time
        BY <1>4 DEF CountsOwn
      <4>5. CASE (after.count = 0 \/ after.count = 1) /\ after.since = time
        BY <1>1, <3>1, <4>1, <4>5
      <4>6. CASE after.count = row.count + 1 /\ after.since = row.since
        BY <1>5, <3>1, <4>2, <4>3, <4>4, <4>6
      <4> QED BY <1>8, <4>5, <4>6
    <3>3. until # 0 => FailuresOf(a, from)' >= MaxFailures
      <4>1. CASE after.until = row.until
        <5>1. until # 0 => FailuresOf(a, from) >= MaxFailures
          BY <1>4, <3>1, <4>1 DEF CountsOwn
        <5>2. FailuresOf(a, from) \in Nat /\ FailuresOf(a, from)' \in Nat /\ FailuresOf(a, from)' >= FailuresOf(a, from)
          BY <1>11
        <5> QED BY <1>2, <5>1, <5>2
      <4>2. CASE /\ after.until = time + duration
                 /\ \/ MaxFailures = 1
                    \/ MaxFailures <= row.count + 1 /\ time - row.since <= Window
        <5>1. from <= time /\ (time - row.since <= Window => from <= row.since)
          BY <1>0, <1>2, <1>5, <1>6, <3>1, <4>2
        <5>2. FailuresOf(a, from)' = FailuresOf(a, from) + 1 /\ FailuresOf(a, from) \in Nat
          BY <1>11, <5>1
        <5>3. time - row.since <= Window => FailuresOf(a, row.since) <= FailuresOf(a, from)
          BY <1>5, <1>10, <5>1, FailuresSince
        <5>4. row.count <= FailuresOf(a, row.since) /\ FailuresOf(a, row.since) \in Nat
          BY <1>4, <1>5, <1>11 DEF CountsOwn
        <5> QED BY <1>2, <1>5, <4>2, <5>2, <5>3, <5>4
      <4> QED BY <1>8, <4>1, <4>2
    <3>4. failed'[a][after.updated] > 0 /\ since <= time
      <4>1. row.since <= time
        BY <1>4 DEF CountsOwn
      <4> QED BY <1>0, <1>8, <1>10, <3>1, <4>1
    <3>5. pair'[b] = after /\ time' = time
      BY <1>1, <1>9, <2>2
    <3> QED BY <2>2, <3>1, <3>2, <3>3, <3>4, <3>5 DEF CountsOwn
  <2> QED BY <2>1, <2>2
<1>13. Locked(ceiling) \in ThrottleRows /\ Locked(ceiling).until = ceiling.until
  <2>1. ceiling \in ThrottleRows \cup {Absent}
    BY <1>0 DEF ThrottleTypeOK
  <2> QED BY <1>0, <2>1, LockedRow
<1>14. PICK top : top = Locked(ceiling)
  OBVIOUS
<1>15. PICK held \in Nat : held = Doubled(HoldBase, HoldMax, top.locks)
  <2>1. top.locks \in Nat
    BY <1>13, <1>14 DEF ThrottleRows
  <2> QED BY <1>2, <2>1, DurationsBounded
<1>16. PICK mayLock \in BOOLEAN : mayLock = (Cardinality(FailingAddresses(pair')) >= MinAddresses)
  <2>1. (Cardinality(FailingAddresses(pair')) >= MinAddresses) \in BOOLEAN
    OBVIOUS
  <2> QED BY <2>1
<1>17. ceiling' = CountFailure(top, AccountWindow, AccountMaxFailures, held, mayLock)
  BY <1>1, <1>14, <1>15, <1>16 DEF CeilingFailure
<1>18. ceiling' \in ThrottleRows /\ (ceiling'.until = top.until \/ mayLock)
  <2>1. PICK raised : raised = CountFailure(top, AccountWindow, AccountMaxFailures, held, mayLock)
    OBVIOUS
  <2>2. IsCounted(raised, top, AccountWindow, AccountMaxFailures, held, mayLock)
    BY <1>0, <1>2, <1>13, <1>14, <2>1, FailureRow
  <2>3. raised \in ThrottleRows /\ (raised.until = top.until \/ mayLock)
    BY <2>2, Zenon DEF IsCounted
  <2> QED BY <1>17, <2>1, <2>3
<1>19. ceiling'.until > ceiling.until => Cardinality(FailingAddresses(pair')) >= MinAddresses
  <2>1. top.until \in Nat /\ top.until = ceiling.until
    BY <1>13, <1>14 DEF ThrottleRows
  <2>2. ceiling'.until > ceiling.until => ceiling'.until # top.until
    BY <2>1
  <2>3. mayLock => Cardinality(FailingAddresses(pair')) >= MinAddresses
    BY <1>16, Zenon
  <2> QED BY <1>18, <2>2, <2>3, Zenon
<1>20. ThrottleTypeOK'
  <2>1. pair' \in [Addresses -> ThrottleRows \cup {Absent}]
    BY <1>0, <1>1, <1>8, <1>9 DEF ThrottleTypeOK
  <2> QED BY <1>0, <1>1, <1>10, <1>18, <2>1 DEF ThrottleTypeOK, Ticks, ThrottleRows
<1> QED BY <1>12, <1>19, <1>20 DEF ThrottleInv

(* Where nothing is counted and no row made but an empty one, each row     *)
(* still says what it did.                                                 *)
LEMMA RowsStay ==
  ASSUME ThrottleInv, failed' = failed, time' \in Ticks, time <= time',
         \A a \in Addresses : pair'[a] # Absent =>
             pair'[a] = Locked(pair[a]) \/ (pair[a] # Absent /\ pair'[a] = pair[a]),
         pair' \in [Addresses -> ThrottleRows \cup {Absent}],
         ceiling' \in ThrottleRows \cup {Absent}, known' \subseteq Addresses
  PROVE  ThrottleInv'
<1>0. /\ ThrottleTypeOK /\ time \in Ticks /\ failed \in [Addresses -> [Ticks -> Nat]]
      /\ pair \in [Addresses -> ThrottleRows \cup {Absent}] /\ Ticks \subseteq Nat
  BY ThrottleAssumption, SMTT(30) DEF ThrottleInv, ThrottleTypeOK, Ticks
<1>1. ThrottleTypeOK'
  BY <1>0 DEF ThrottleTypeOK, Ticks, ThrottleRows
<1>2. ASSUME NEW a \in Addresses, pair'[a] # Absent PROVE CountsOwn(a, pair[a])'
  <2>1. PICK row : row = pair'[a]
    OBVIOUS
  <2>2. row \in ThrottleRows
    BY <1>2, <2>1, RowKinds
  <2>3. CountsOwn(a, row)
    BY <1>2, <2>1, LockedCountsOwn DEF ThrottleInv
  <2>4. PICK early \in Int, since \in Int : early = row.until - LockMax - Window /\ since = row.since
    <3>1. row.until - LockMax - Window \in Int
      BY <2>2, RowFields, ThrottleAssumption
    <3> QED BY <2>2, <3>1, RowFields
  <2>5. FailuresOf(a, early)' = FailuresOf(a, early) /\ FailuresOf(a, since)' = FailuresOf(a, since)
    BY FailuresAreASum, FailuresAreASumAfter
  <2>6. time \in Int /\ time' \in Int
    BY <1>0
  <2>7. row.since <= time'
    BY <2>3, <2>4, <2>6 DEF CountsOwn
  <2>8. /\ row.count <= FailuresOf(a, since)'
        /\ row.until # 0 => FailuresOf(a, early)' >= MaxFailures
        /\ (row.count > 0 \/ row.until # 0) => failed'[a][row.updated] > 0
    BY <2>3, <2>4, <2>5 DEF CountsOwn
  <2> QED BY <2>1, <2>4, <2>7, <2>8 DEF CountsOwn
<1> QED BY <1>1, <1>2 DEF ThrottleInv

LEMMA LockedKeeps ==
  ASSUME ThrottleInv
  PROVE  /\ Locked(ceiling) \in ThrottleRows \cup {Absent} /\ Locked(ceiling).until = ceiling.until
         /\ \A a \in Addresses : Locked(pair[a]) \in ThrottleRows \cup {Absent}
BY LockedRow DEF ThrottleInv, ThrottleTypeOK

LEMMA HeldBackKeeps ==
  ASSUME ThrottleInv, NEW a \in Addresses, HeldBack(a)
  PROVE  ThrottleInv' /\ ceiling'.until = ceiling.until
<1>0. ThrottleTypeOK /\ time \in Ticks /\ \A t \in Ticks : t <= t
  BY ThrottleAssumption DEF ThrottleInv, ThrottleTypeOK, Ticks
<1>1. /\ pair' = [pair EXCEPT ![a] = Locked(pair[a])] /\ ceiling' = Locked(ceiling)
      /\ known' = known /\ time' = time /\ failed' = failed
  BY DEF HeldBack
<1>2. pair' \in [Addresses -> ThrottleRows \cup {Absent}]
  BY <1>0, <1>1, LockedKeeps DEF ThrottleTypeOK
<1>3. \A b \in Addresses : pair'[b] = Locked(pair[b]) \/ pair'[b] = pair[b]
  BY <1>0, <1>1 DEF ThrottleTypeOK
<1>4. ThrottleInv'
  BY <1>0, <1>1, <1>2, <1>3, LockedKeeps, RowsStay DEF ThrottleTypeOK
<1> QED BY <1>1, <1>4, LockedKeeps

LEMMA RightPasswordKeeps ==
  ASSUME ThrottleInv, NEW a \in Addresses, RightPassword(a)
  PROVE  ThrottleInv' /\ ceiling'.until = ceiling.until
<1>0. ThrottleTypeOK /\ time \in Ticks /\ \A t \in Ticks : t <= t
  BY ThrottleAssumption DEF ThrottleInv, ThrottleTypeOK, Ticks
<1>1. /\ pair' = [pair EXCEPT ![a] = Absent] /\ ceiling' = Locked(ceiling)
      /\ known' = known \cup {a} /\ time' = time /\ failed' = failed
  BY DEF RightPassword
<1>2. pair' \in [Addresses -> ThrottleRows \cup {Absent}]
  BY <1>0, <1>1 DEF ThrottleTypeOK
<1>3. \A b \in Addresses : pair'[b] # Absent => pair'[b] = pair[b]
  BY <1>0, <1>1 DEF ThrottleTypeOK
<1>4. ThrottleInv'
  BY <1>0, <1>1, <1>2, <1>3, LockedKeeps, RowsStay DEF ThrottleTypeOK
<1> QED BY <1>1, <1>4, LockedKeeps

LEMMA ThrottlePurgeKeeps ==
  ASSUME ThrottleInv, PurgeThrottles
  PROVE  ThrottleInv' /\ ~(ceiling'.until > ceiling.until)
<1>0. ThrottleTypeOK /\ time \in Ticks /\ \A t \in Ticks : t <= t
  BY ThrottleAssumption DEF ThrottleInv, ThrottleTypeOK, Ticks
<1>1. /\ pair' = [b \in Addresses |-> Kept(pair[b])] /\ ceiling' = Kept(ceiling)
      /\ known' = known /\ time' = time /\ failed' = failed
  BY DEF PurgeThrottles
<1>2. /\ \A b \in Addresses : pair'[b] = Absent \/ pair'[b] = pair[b]
      /\ ceiling' = Absent \/ ceiling' = ceiling
  BY <1>1 DEF Kept
<1>3. /\ pair' \in [Addresses -> ThrottleRows \cup {Absent}]
      /\ ceiling \in ThrottleRows \cup {Absent} /\ ceiling' \in ThrottleRows \cup {Absent}
  BY <1>0, <1>1, <1>2 DEF ThrottleTypeOK
<1>4. ThrottleInv'
  BY <1>0, <1>1, <1>2, <1>3, RowsStay DEF ThrottleTypeOK
<1>5. ceiling.until \in Nat /\ Absent.until = 0
  BY <1>3, RowKinds
<1>6. CASE ceiling' = Absent
  BY <1>4, <1>5, <1>6
<1>7. CASE ceiling' = ceiling
  BY <1>4, <1>5, <1>7
<1> QED BY <1>2, <1>6, <1>7

LEMMA TimeKeeps ==
  ASSUME ThrottleInv, PurgeFamilies \/ Clock
  PROVE  ThrottleInv' /\ ceiling' = ceiling
<1>0. ThrottleTypeOK /\ time \in Ticks
  BY DEF ThrottleInv, ThrottleTypeOK
<1>1. /\ pair' = pair /\ ceiling' = ceiling /\ known' \subseteq known /\ failed' = failed
      /\ time' = time \/ (time < LastTick /\ time' = time + 1)
  BY DEF PurgeFamilies, Clock
<1>2. time' \in Ticks /\ time <= time'
  BY <1>0, <1>1, ThrottleAssumption DEF Ticks
<1> QED BY <1>0, <1>1, <1>2, RowsStay DEF ThrottleTypeOK

LEMMA ThrottleStep ==
  ASSUME ThrottleInv, ThrottleNext
  PROVE  /\ ThrottleInv'
         /\ \/ ~(ceiling'.until > ceiling.until)
            \/ time' = time /\ Cardinality(FailingAddresses(pair')) >= MinAddresses
<1>0. ceiling \in ThrottleRows \cup {Absent}
  BY DEF ThrottleInv, ThrottleTypeOK
<1>1. ceiling.until \in Nat
  BY <1>0, RowKinds
<1>2. ceiling'.until = ceiling.until => ~(ceiling'.until > ceiling.until)
  BY <1>1
<1>3. ASSUME NEW a \in Addresses, Login(a) \/ ChangePassword(a)
      PROVE  HeldBack(a) \/ RightPassword(a) \/ WrongPassword(a)
  BY <1>3 DEF Login, ChangePassword
<1>4. ASSUME NEW a \in Addresses, HeldBack(a)
      PROVE  ThrottleInv' /\ ~(ceiling'.until > ceiling.until)
  BY <1>2, <1>4, HeldBackKeeps
<1>5. ASSUME NEW a \in Addresses, RightPassword(a)
      PROVE  ThrottleInv' /\ ~(ceiling'.until > ceiling.until)
  BY <1>2, <1>5, RightPasswordKeeps
<1>6. ASSUME NEW a \in Addresses, WrongPassword(a)
      PROVE  /\ ThrottleInv' /\ time' = time
             /\ ceiling'.until > ceiling.until => Cardinality(FailingAddresses(pair')) >= MinAddresses
  <2>1. time' = time
    BY <1>6 DEF WrongPassword
  <2> QED BY <1>6, <2>1, WrongPasswordCounts
<1>7. CASE PurgeThrottles
  BY <1>7, ThrottlePurgeKeeps
<1>8. CASE PurgeFamilies \/ Clock
  BY <1>2, <1>8, TimeKeeps
<1> QED BY <1>3, <1>4, <1>5, <1>6, <1>7, <1>8 DEF ThrottleNext

LEMMA ThrottleInitially == ThrottleInit => ThrottleInv
<1>1. 0 \in Ticks
  BY ThrottleAssumption DEF Ticks
<1> QED BY <1>1 DEF ThrottleInit, ThrottleInv, ThrottleTypeOK

LEMMA HeldByOwn ==
  ThrottleInv => \A a \in known : LoginHeld(a) => FailuresOf(a, time - LockMax - Window) >= MaxFailures
<1> SUFFICES ASSUME ThrottleInv, NEW a \in known, LoginHeld(a)
             PROVE  FailuresOf(a, time - LockMax - Window) >= MaxFailures
  OBVIOUS
<1>0. /\ a \in Addresses /\ time \in Nat /\ failed \in [Addresses -> [Ticks -> Nat]]
      /\ pair[a] \in ThrottleRows \cup {Absent}
  BY ThrottleAssumption DEF ThrottleInv, ThrottleTypeOK, Ticks
<1>1. pair[a].until > time
  BY DEF LoginHeld, CeilingFor, Holds
<1>2. pair[a] # Absent
  BY <1>0, <1>1, RowKinds
<1>3. PICK until \in Nat : until = pair[a].until /\ until > time
  BY <1>0, <1>1, RowKinds
<1>4. PICK early \in Int, late \in Int :
         early = time - LockMax - Window /\ late = until - LockMax - Window /\ early <= late
  <2>1. LockMax \in Nat /\ Window \in Nat
    BY ThrottleAssumption
  <2> QED BY <1>0, <1>3, <2>1
<1>5. until # 0
  BY <1>0, <1>3
<1>6. FailuresOf(a, late) >= MaxFailures
  BY <1>0, <1>2, <1>3, <1>4, <1>5 DEF ThrottleInv, CountsOwn
<1>7. FailuresOf(a, late) <= FailuresOf(a, early) /\ FailuresOf(a, late) \in Nat /\ FailuresOf(a, early) \in Nat
  BY <1>0, <1>4, FailuresSince, FailuresTyped
<1>8. MaxFailures \in Nat
  BY ThrottleAssumption
<1> QED BY <1>4, <1>6, <1>7, <1>8

LEMMA HeldByOwnAfter ==
  (ThrottleInv => \A a \in known : LoginHeld(a) => FailuresOf(a, time - LockMax - Window) >= MaxFailures)'
BY HeldByOwn, PTL

(* An address found failing has a wrong password in the account's window.  *)
LEMMA FailingHaveFailed ==
  ASSUME ThrottleInv', time' = time, Cardinality(FailingAddresses(pair')) >= MinAddresses
  PROVE  Cardinality({a \in Addresses :
             \E t \in Ticks : failed'[a][t] > 0 /\ t > time - AccountWindow}) >= MinAddresses
<1>1. PICK Failing, Failed :
         /\ Failing = FailingAddresses(pair')
         /\ Failed = {a \in Addresses : \E t \in Ticks : failed'[a][t] > 0 /\ t > time - AccountWindow}
  OBVIOUS
<1>2. ASSUME NEW a \in Failing PROVE a \in Failed
  <2>1. /\ a \in Addresses /\ pair'[a] # Absent /\ pair'[a].updated > time - AccountWindow
        /\ pair'[a].count > 0 \/ pair'[a].until # 0
    BY <1>1 DEF FailingAddresses
  <2>2. pair'[a] \in ThrottleRows
    <3>1. pair'[a] \in ThrottleRows \cup {Absent}
      BY <2>1 DEF ThrottleInv, ThrottleTypeOK, ThrottleRows, Ticks
    <3> QED BY <2>1, <3>1
  <2>3. failed'[a][pair'[a].updated] > 0
    BY <2>1 DEF ThrottleInv, CountsOwn
  <2>4. pair'[a].updated \in Ticks
    BY <2>2, RowFields
  <2> QED BY <1>1, <2>1, <2>3, <2>4
<1>3. IsFiniteSet(Failed) /\ Failed \subseteq Addresses
  BY <1>1, ThrottleAssumption, FS_Subset
<1>4. Failing \subseteq Failed
  BY <1>2
<1>5. IsFiniteSet(Failing) /\ Cardinality(Failing) <= Cardinality(Failed)
  BY <1>3, <1>4, FS_Subset
<1>6. Cardinality(Failing) \in Nat /\ Cardinality(Failed) \in Nat /\ MinAddresses \in Nat
  BY <1>3, <1>5, FS_CardinalityType, ThrottleAssumption
<1> QED BY <1>1, <1>5, <1>6

(* Nobody is locked out by others, for any number of addresses and any     *)
(* windows, thresholds and lock-outs.                                      *)
THEOREM OnlyOwnFailuresHold == ThrottleSpec => OnlyOwnFailuresHoldADevice
<1> DEFINE HeldByOwnOnly == \A a \in known : LoginHeld(a) =>
                       FailuresOf(a, time - LockMax - Window) >= MaxFailures
           Raised == ceiling'.until > ceiling.until =>
                       Cardinality({a \in Addresses :
                           \E t \in Ticks : failed'[a][t] > 0 /\ t > time - AccountWindow}) >= MinAddresses
<1>1. ThrottleInv /\ [ThrottleNext]_throttleVars => ThrottleInv'
  <2>1. ASSUME ThrottleInv, UNCHANGED throttleVars PROVE ThrottleInv'
    <3>1. /\ pair' = pair /\ ceiling' = ceiling /\ known' = known /\ time' = time /\ failed' = failed
          /\ ThrottleTypeOK /\ \A t \in Ticks : t <= t
      BY <2>1, ThrottleAssumption DEF throttleVars, ThrottleInv, Ticks
    <3> QED BY <2>1, <3>1, RowsStay DEF ThrottleTypeOK
  <2> QED BY <2>1, ThrottleStep
<1>2. ThrottleInv /\ [ThrottleNext]_throttleVars => [HeldByOwnOnly' /\ Raised]_throttleVars
  <2> SUFFICES ASSUME ThrottleInv, ThrottleNext PROVE HeldByOwnOnly' /\ Raised
    OBVIOUS
  <2>1. ThrottleInv' /\ HeldByOwnOnly'
    BY ThrottleStep, HeldByOwnAfter
  <2>2. Raised
    BY <2>1, ThrottleStep, FailingHaveFailed
  <2> QED BY <2>1, <2>2
<1> HIDE DEF HeldByOwnOnly, Raised
<1>3. ThrottleSpec => [][HeldByOwnOnly' /\ Raised]_throttleVars
  BY <1>1, <1>2, ThrottleInitially, PTL DEF ThrottleSpec
<1> QED BY <1>3, PTL DEF HeldByOwnOnly, Raised, OnlyOwnFailuresHoldADevice
-----------------------------------------------------------------------------
(***************************************************************************)
(* What a receipt prints was the order's balance (OwedBefore). The books   *)
(* of one order, Books, say of its rows what every handler keeps: what was *)
(* paid is the payments that stand less the cash of the returns that do,   *)
(* every return's own figures balance, and every payment that no stamp of  *)
(* a return comes close to, and that no later edit of the lines may have   *)
(* changed the deposit of, replays from today's rows to what it found. One *)
(* lemma for each way a handler writes: a payment added or reversed, a     *)
(* return added or taken back, the lines edited; a correction is a return  *)
(* taken back and one added at the same time.                              *)
(***************************************************************************)
EntryRows == [type : EntryTypes, amount : Nat \ {0}, of : Nat, at : Nat, owedBefore : Nat]
VisitRows == [due : Nat, cash : Nat, owedBefore : Nat, at : Nat, gone : Nat \cup {-1}]

(* The sums over an order's rows. *)
PaidBys(es)    == [n \in DOMAIN es |-> Signed(es[n].type, es[n].amount)]
Takings(es)    == [n \in DOMAIN es |-> es[n].amount]
DuesOf(vs)     == [r \in DOMAIN vs |-> vs[r].due]
CashOf(vs)     == [r \in DOMAIN vs |-> vs[r].cash]
PaidOver(es, ids)  == SumOver(ids, PaidBys(es))
TakenOver(es, ids) == SumOver(ids, Takings(es))
DuesOver(vs, rets) == SumOver(rets, DuesOf(vs))
CashOver(vs, rets) == SumOver(rets, CashOf(vs))
StandingOf(vs) == {r \in DOMAIN vs : vs[r].gone = -1}
Reverses(es, p) == \E n \in DOMAIN es : es[n].type = "PAYMENT_REVERSAL" /\ es[n].of = p
PaysOf(es)     == {p \in DOMAIN es : es[p].type = "PAYMENT" /\ ~Reverses(es, p)}
OwedOf(d, es, vs) == d - PaidOver(es, DOMAIN es) - DuesOver(vs, StandingOf(vs))

LEMMA SumsOfRows ==
  /\ \A ids : PaidIn(ids) = PaidOver(entries, ids)
  /\ \A rets : DueIn(rets) = DuesOver(visits, rets)
  /\ StandingRets = StandingOf(visits) /\ StandingPays = PaysOf(entries)
  /\ OwedNow = OwedOf(depositTotal, entries, visits)
<1>1. PICK got, due : got = PaidBy /\ due = DueOf
  OBVIOUS
<1>2. got = PaidBys(entries) /\ due = DuesOf(visits)
  BY <1>1 DEF PaidBy, PaidBys, DueOf, DuesOf
<1>3. \A ids : PaidIn(ids) = PaidOver(entries, ids)
  <2> SUFFICES ASSUME NEW ids PROVE PaidIn(ids) = PaidOver(entries, ids)
    OBVIOUS
  <2>1. PaidIn(ids) = SumOver(ids, PaidBy)
    BY DEF PaidIn, SumOver
  <2> QED BY <1>1, <1>2, <2>1 DEF PaidOver
<1>4. \A rets : DueIn(rets) = DuesOver(visits, rets)
  <2> SUFFICES ASSUME NEW rets PROVE DueIn(rets) = DuesOver(visits, rets)
    OBVIOUS
  <2>1. DueIn(rets) = SumOver(rets, DueOf)
    BY DEF DueIn, SumOver
  <2> QED BY <1>1, <1>2, <2>1 DEF DuesOver
<1>5. StandingRets = StandingOf(visits) /\ StandingPays = PaysOf(entries)
  BY DEF StandingRets, StandingOf, NotGone, StandingPays, PaysOf, ReversedBy, Reverses
<1> QED BY <1>3, <1>4, <1>5 DEF OwedNow, OwedOf

LEMMA SeqRows ==
  ASSUME NEW R, NEW s \in Seq(R)
  PROVE  /\ Len(s) \in Nat /\ DOMAIN s = 1 .. Len(s) /\ IsFiniteSet(DOMAIN s)
         /\ DOMAIN s \subseteq Nat \ {0} /\ \A k \in DOMAIN s : s[k] \in R
<1>1. Len(s) \in Nat /\ DOMAIN s = 1 .. Len(s) /\ \A k \in DOMAIN s : s[k] \in R
  OBVIOUS
<1>2. PICK n \in Nat : n = Len(s)
  BY <1>1
<1>3. IsFiniteSet(1 .. n) /\ 1 .. n \subseteq Nat \ {0}
  BY FS_Interval
<1> QED BY <1>1, <1>2, <1>3

LEMMA RowAppended ==
  ASSUME NEW R, NEW s \in Seq(R), NEW e \in R, NEW u, u = Append(s, e), NEW n, n = Len(s) + 1
  PROVE  /\ u \in Seq(R) /\ n \in Nat \ {0} /\ n \notin DOMAIN s /\ DOMAIN u = DOMAIN s \cup {n}
         /\ u[n] = e /\ \A k \in DOMAIN s : u[k] = s[k] /\ k < n
<1>1. Len(s) \in Nat /\ DOMAIN s = 1 .. Len(s)
  BY SeqRows
<1>2. u \in Seq(R) /\ DOMAIN u = 1 .. (Len(s) + 1) /\ u[n] = e /\ \A k \in 1 .. Len(s) : u[k] = s[k]
  BY <1>1
<1>3. 1 .. (Len(s) + 1) = (1 .. Len(s)) \cup {n} /\ n \notin 1 .. Len(s) /\ n \in Nat \ {0}
  BY <1>1
<1>4. \A k \in 1 .. Len(s) : k < n
  BY <1>1
<1> QED BY <1>1, <1>2, <1>3, <1>4

LEMMA SignedTyped ==
  ASSUME NEW e \in EntryRows PROVE Signed(e.type, e.amount) \in Int /\ e.amount \in Int
<1>1. e.amount \in Nat
  BY DEF EntryRows
<1> QED BY <1>1 DEF Signed

(* Of a row written, the sums take its own share. *)
LEMMA PaidTyped ==
  ASSUME NEW es \in Seq(EntryRows), NEW ids \in SUBSET DOMAIN es
  PROVE  /\ PaidOver(es, ids) \in Int /\ TakenOver(es, ids) \in Int /\ IsFiniteSet(ids)
         /\ \A k \in DOMAIN es : PaidBys(es)[k] \in Int /\ Takings(es)[k] \in Int
<1>1. IsFiniteSet(DOMAIN es) /\ IsFiniteSet(ids) /\ \A k \in DOMAIN es : es[k] \in EntryRows
  BY SeqRows, FS_Subset
<1>2. \A k \in DOMAIN es : PaidBys(es)[k] \in Int /\ Takings(es)[k] \in Int
  BY <1>1, SignedTyped DEF PaidBys, Takings
<1>3. \A k \in ids : PaidBys(es)[k] \in Int /\ Takings(es)[k] \in Int
  BY <1>2
<1>4. PaidOver(es, ids) \in Int /\ TakenOver(es, ids) \in Int
  BY <1>1, <1>3, SumIsInt DEF PaidOver, TakenOver
<1> QED BY <1>1, <1>2, <1>4

Follows(es, u, n) ==
    /\ n \notin DOMAIN es /\ DOMAIN u = DOMAIN es \cup {n} /\ u \in Seq(EntryRows)
    /\ \A k \in DOMAIN es : u[k] = es[k]

RowTaken(es, u, n, ids) ==
    /\ PaidOver(u, ids) = PaidOver(es, ids) /\ TakenOver(u, ids) = TakenOver(es, ids)
    /\ PaidOver(u, ids \cup {n}) = PaidOver(es, ids) + Signed(u[n].type, u[n].amount)
    /\ TakenOver(u, ids \cup {n}) = TakenOver(es, ids) + u[n].amount

LEMMA PaidAppended ==
  ASSUME NEW es \in Seq(EntryRows), NEW u, NEW n, Follows(es, u, n), NEW ids \in SUBSET DOMAIN es
  PROVE  RowTaken(es, u, n, ids)
<1>1. /\ u \in Seq(EntryRows) /\ n \notin DOMAIN es /\ DOMAIN u = DOMAIN es \cup {n}
      /\ \A k \in DOMAIN es : u[k] = es[k]
  BY DEF Follows
<1>2. PICK f, g, a, b : f = PaidBys(es) /\ g = PaidBys(u) /\ a = Takings(es) /\ b = Takings(u)
  OBVIOUS
<1>3. /\ \A k \in DOMAIN es : f[k] = g[k] /\ a[k] = b[k]
      /\ g[n] = Signed(u[n].type, u[n].amount) /\ b[n] = u[n].amount
  BY <1>1, <1>2 DEF PaidBys, Takings
<1>4. \A k \in DOMAIN u : g[k] \in Int /\ b[k] \in Int
  BY <1>1, <1>2, PaidTyped
<1>5. IsFiniteSet(ids) /\ n \notin ids /\ \A k \in ids \cup {n} : g[k] \in Int /\ b[k] \in Int
  BY <1>1, <1>4, PaidTyped
<1>6. SumOver(ids, g) = SumOver(ids, f) /\ SumOver(ids, b) = SumOver(ids, a)
  <2>1. \A k \in ids : f[k] = g[k] /\ a[k] = b[k]
    BY <1>3
  <2> QED BY ONLY <1>5, <2>1, SumAgrees
<1>7. SumOver(ids \cup {n}, b) = SumOver(ids, b) + b[n] /\ SumOver(ids \cup {n}, g) = SumOver(ids, g) + g[n]
  BY ONLY <1>5, SumOneAdded
<1> QED BY <1>2, <1>3, <1>6, <1>7 DEF PaidOver, TakenOver, RowTaken

RowAdded(es, u, e, n) == n \in Nat \ {0} /\ n = Len(es) + 1 /\ Follows(es, u, n) /\ u[n] = e
LEMMA RowFollows ==
  ASSUME NEW es \in Seq(EntryRows), NEW e \in EntryRows, NEW u, u = Append(es, e)
  PROVE  \E n : RowAdded(es, u, e, n)
<1>1. PICK n : n = Len(es) + 1
  OBVIOUS
<1>2. /\ u \in Seq(EntryRows) /\ n \in Nat \ {0} /\ n \notin DOMAIN es
      /\ DOMAIN u = DOMAIN es \cup {n} /\ u[n] = e /\ \A k \in DOMAIN es : u[k] = es[k]
  BY <1>1, RowAppended
<1> QED BY <1>1, <1>2 DEF Follows, RowAdded

LEMMA AllPaidAppended ==
  ASSUME NEW es \in Seq(EntryRows), NEW u, NEW n, Follows(es, u, n)
  PROVE  PaidOver(u, DOMAIN u) = PaidOver(es, DOMAIN es) + Signed(u[n].type, u[n].amount)
<1>1. PICK ids : ids = DOMAIN es
  OBVIOUS
<1>2. DOMAIN u = ids \cup {n} /\ ids \in SUBSET DOMAIN es
  BY <1>1 DEF Follows
<1>3. RowTaken(es, u, n, ids)
  BY <1>2, PaidAppended
<1> QED BY <1>1, <1>2, <1>3 DEF RowTaken

LEMMA DuesTyped ==
  ASSUME NEW vs \in Seq(VisitRows), NEW rets \in SUBSET DOMAIN vs
  PROVE  /\ DuesOver(vs, rets) \in Int /\ CashOver(vs, rets) \in Int /\ IsFiniteSet(rets)
         /\ \A k \in DOMAIN vs : DuesOf(vs)[k] \in Int /\ CashOf(vs)[k] \in Int
<1>1. IsFiniteSet(DOMAIN vs) /\ IsFiniteSet(rets) /\ \A k \in DOMAIN vs : vs[k] \in VisitRows
  BY SeqRows, FS_Subset
<1>2. \A k \in DOMAIN vs : DuesOf(vs)[k] \in Int /\ CashOf(vs)[k] \in Int
  <2>1. \A v \in VisitRows : v.due \in Int /\ v.cash \in Int
    BY DEF VisitRows
  <2> QED BY <1>1, <2>1 DEF DuesOf, CashOf
<1>3. \A k \in rets : DuesOf(vs)[k] \in Int /\ CashOf(vs)[k] \in Int
  BY <1>2
<1>4. DuesOver(vs, rets) \in Int /\ CashOver(vs, rets) \in Int
  BY <1>1, <1>3, SumIsInt DEF DuesOver, CashOver
<1> QED BY <1>1, <1>2, <1>4

LEMMA DuesAppended ==
  ASSUME NEW vs \in Seq(VisitRows), NEW v \in VisitRows, NEW u, u = Append(vs, v), NEW n, n = Len(vs) + 1,
         NEW rets \in SUBSET DOMAIN vs
  PROVE  /\ DuesOver(u, rets) = DuesOver(vs, rets) /\ CashOver(u, rets) = CashOver(vs, rets)
         /\ DuesOver(u, rets \cup {n}) = DuesOver(vs, rets) + v.due
         /\ CashOver(u, rets \cup {n}) = CashOver(vs, rets) + v.cash
<1>1. /\ u \in Seq(VisitRows) /\ n \notin DOMAIN vs /\ DOMAIN u = DOMAIN vs \cup {n}
      /\ u[n] = v /\ \A k \in DOMAIN vs : u[k] = vs[k]
  BY RowAppended
<1>2. PICK f, g, a, b : f = DuesOf(vs) /\ g = DuesOf(u) /\ a = CashOf(vs) /\ b = CashOf(u)
  OBVIOUS
<1>3. /\ \A k \in rets : f[k] = g[k] /\ a[k] = b[k]
      /\ g[n] = v.due /\ b[n] = v.cash
  BY <1>1, <1>2 DEF DuesOf, CashOf
<1>4. IsFiniteSet(rets) /\ n \notin rets /\ \A k \in rets \cup {n} : g[k] \in Int /\ b[k] \in Int
  BY <1>1, <1>2, DuesTyped
<1>5. SumOver(rets, g) = SumOver(rets, f) /\ SumOver(rets, b) = SumOver(rets, a)
  BY ONLY <1>3, <1>4, SumAgrees
<1>6. SumOver(rets \cup {n}, b) = SumOver(rets, b) + b[n] /\ SumOver(rets \cup {n}, g) = SumOver(rets, g) + g[n]
  BY ONLY <1>4, SumOneAdded
<1> QED BY <1>2, <1>3, <1>5, <1>6 DEF DuesOver, CashOver

(* A return taken back keeps its figures. *)
TakenAt(vs, u, r, stamp) ==
    /\ u \in Seq(VisitRows) /\ DOMAIN u = DOMAIN vs /\ u[r].gone = stamp
    /\ \A k \in DOMAIN vs : /\ u[k].due = vs[k].due /\ u[k].cash = vs[k].cash
                            /\ u[k].owedBefore = vs[k].owedBefore /\ u[k].at = vs[k].at
                            /\ k # r => u[k] = vs[k]
    /\ DuesOf(u) = DuesOf(vs) /\ CashOf(u) = CashOf(vs)
LEMMA DuesKept ==
  ASSUME NEW vs \in Seq(VisitRows), NEW r \in DOMAIN vs, NEW stamp \in Nat,
         NEW u, u = [vs EXCEPT ![r].gone = stamp]
  PROVE  TakenAt(vs, u, r, stamp)
<1>1. PICK v : v = [vs[r] EXCEPT !.gone = stamp]
  OBVIOUS
<1>2. vs[r] \in VisitRows
  BY SeqRows
<1>3. /\ v \in VisitRows /\ v.gone = stamp /\ v.due = vs[r].due /\ v.cash = vs[r].cash
      /\ v.owedBefore = vs[r].owedBefore /\ v.at = vs[r].at
  BY <1>1, <1>2 DEF VisitRows
<1>4. u = [vs EXCEPT ![r] = v]
  BY <1>1
<1>5. u \in Seq(VisitRows) /\ DOMAIN u = DOMAIN vs /\ u[r] = v /\ \A k \in DOMAIN vs : k # r => u[k] = vs[k]
  <2>1. Len(vs) \in Nat /\ DOMAIN vs = 1 .. Len(vs) /\ \A k \in DOMAIN vs : vs[k] \in VisitRows
    BY SeqRows
  <2>2. DOMAIN u = 1 .. Len(vs) /\ u[r] = v /\ \A k \in DOMAIN vs : k # r => u[k] = vs[k]
    BY <1>4, <2>1
  <2>3. u \in [1 .. Len(vs) -> VisitRows]
    BY <1>3, <1>4, <2>1
  <2> QED BY <2>1, <2>2, <2>3
<1>6. \A k \in DOMAIN vs : /\ u[k].due = vs[k].due /\ u[k].cash = vs[k].cash
                           /\ u[k].owedBefore = vs[k].owedBefore /\ u[k].at = vs[k].at
  BY <1>3, <1>5
<1> QED BY <1>3, <1>5, <1>6 DEF DuesOf, CashOf, TakenAt
-----------------------------------------------------------------------------
(* The books of an order: its rows as the handlers leave them at time t.    *)
RowsTyped(d, es, vs, t) ==
    d \in Nat /\ es \in Seq(EntryRows) /\ vs \in Seq(VisitRows) /\ t \in Nat
RowsPast(es, vs, t) ==
    /\ \A n \in DOMAIN es : es[n].at <= t
    /\ \A r \in DOMAIN vs : vs[r].at <= t /\ vs[r].gone <= t + Skew
Linked(es, vs) ==
    /\ \A n \in DOMAIN es :
          /\ es[n].type = "PAYMENT_REVERSAL" => es[n].of \in DOMAIN es
          /\ es[n].type = "REFUND" => es[n].of \in DOMAIN vs /\ es[n].amount = vs[es[n].of].cash
    /\ \A r \in DOMAIN vs : vs[r].cash > 0 =>
          \E n \in DOMAIN es : es[n].type = "REFUND" /\ es[n].of = r
Balanced(v) ==
    /\ v.cash <= v.due /\ v.owedBefore - v.due + v.cash >= 0
    /\ v.cash > 0 => v.owedBefore - v.due + v.cash = 0
(* What was paid is the payments that stand less the cash of the returns.   *)
PaidSplits(es, vs) == PaidOver(es, DOMAIN es) = TakenOver(es, PaysOf(es)) - CashOver(vs, StandingOf(vs))

StoodOf(vs, t) == {r \in DOMAIN vs : vs[r].at <= t /\ (vs[r].gone = -1 \/ vs[r].gone > t)}
ToldApart(vs, t) ==
    \A r \in DOMAIN vs : ~Near(vs[r].at, t) /\ (vs[r].gone # -1 => ~Near(vs[r].gone, t))
ReplayedAs(d, es, vs, p) == d - PaidOver(es, 1 .. p - 1) - DuesOver(vs, StoodOf(vs, es[p].at))
ReplaysAt(d, es, vs, altered, p) ==
    (/\ es[p].type = "PAYMENT" /\ ToldApart(vs, es[p].at)
     /\ ~(Reverses(es, p) /\ \E e \in altered : e > es[p].at)) =>
    ReplayedAs(d, es, vs, p) = es[p].owedBefore

Books(d, es, vs, altered, t) ==
    /\ RowsTyped(d, es, vs, t) /\ RowsPast(es, vs, t) /\ Linked(es, vs)
    /\ \A r \in DOMAIN vs : Balanced(vs[r])
    /\ PaidSplits(es, vs) /\ OwedOf(d, es, vs) >= 0
    /\ \A p \in DOMAIN es : ReplaysAt(d, es, vs, altered, p)
PaymentsBefore(es, t) == \A p \in DOMAIN es : es[p].type = "PAYMENT" => es[p].at < t

Continues(es, u) ==
    /\ u \in Seq(EntryRows) /\ DOMAIN es \subseteq DOMAIN u
    /\ \A k \in DOMAIN es : u[k] = es[k]
    /\ \A ids \in SUBSET DOMAIN es : PaidOver(u, ids) = PaidOver(es, ids)

LEMMA AppendedContinues ==
  ASSUME NEW es \in Seq(EntryRows), NEW e \in EntryRows, NEW u, u = Append(es, e)
  PROVE  Continues(es, u)
<1>1. PICK n : Follows(es, u, n)
  BY RowFollows DEF RowAdded
<1>2. ASSUME NEW ids \in SUBSET DOMAIN es PROVE PaidOver(u, ids) = PaidOver(es, ids)
  <2>1. RowTaken(es, u, n, ids)
    BY <1>1, PaidAppended
  <2> QED BY <2>1 DEF RowTaken
<1> QED BY <1>1, <1>2 DEF Continues, Follows

LEMMA RowTimes ==
  /\ \A e \in EntryRows : e.at \in Int /\ e.amount \in Nat \ {0} /\ e.of \in Nat /\ e.owedBefore \in Int
  /\ \A v \in VisitRows : /\ v.at \in Int /\ v.gone \in Int /\ v.due \in Nat /\ v.cash \in Nat
                          /\ v.owedBefore \in Nat
BY DEF EntryRows, VisitRows

LEMMA OwedTyped ==
  ASSUME NEW d \in Nat, NEW es \in Seq(EntryRows), NEW vs \in Seq(VisitRows)
  PROVE  /\ OwedOf(d, es, vs) \in Int
         /\ OwedOf(d, es, vs) = d - PaidOver(es, DOMAIN es) - DuesOver(vs, StandingOf(vs))
         /\ PaidOver(es, DOMAIN es) \in Int /\ DuesOver(vs, StandingOf(vs)) \in Int
         /\ CashOver(vs, StandingOf(vs)) \in Int /\ TakenOver(es, PaysOf(es)) \in Int
         /\ StandingOf(vs) \in SUBSET DOMAIN vs /\ PaysOf(es) \in SUBSET DOMAIN es
<1>1. StandingOf(vs) \in SUBSET DOMAIN vs /\ PaysOf(es) \in SUBSET DOMAIN es
  BY DEF StandingOf, PaysOf
<1>2. PaidOver(es, DOMAIN es) \in Int /\ TakenOver(es, PaysOf(es)) \in Int
  BY <1>1, PaidTyped
<1>3. DuesOver(vs, StandingOf(vs)) \in Int /\ CashOver(vs, StandingOf(vs)) \in Int
  BY <1>1, DuesTyped
<1>4. OwedOf(d, es, vs) = d - PaidOver(es, DOMAIN es) - DuesOver(vs, StandingOf(vs))
  BY DEF OwedOf
<1> QED BY <1>1, <1>2, <1>3, <1>4

(* A payment is still replayed as it was while what stood at its time adds  *)
(* up the same.                                                             *)
LEMMA ReplayStays ==
  ASSUME NEW d, NEW es \in Seq(EntryRows), NEW vs, NEW altered, NEW u, NEW w, NEW p \in DOMAIN es,
         Continues(es, u), ReplaysAt(d, es, vs, altered, p),
         (es[p].type = "PAYMENT" /\ ToldApart(w, es[p].at)) =>
             ToldApart(vs, es[p].at) /\ DuesOver(w, StoodOf(w, es[p].at)) = DuesOver(vs, StoodOf(vs, es[p].at))
  PROVE  ReplaysAt(d, u, w, altered, p)
<1>1. u[p] = es[p]
  BY DEF Continues
<1>2. PaidOver(u, 1 .. p - 1) = PaidOver(es, 1 .. p - 1)
  <2>1. 1 .. p - 1 \in SUBSET DOMAIN es
    <3>1. Len(es) \in Nat /\ DOMAIN es = 1 .. Len(es)
      BY SeqRows
    <3> QED BY <3>1
  <2> QED BY <2>1 DEF Continues
<1>3. Reverses(es, p) => Reverses(u, p)
  BY DEF Continues, Reverses
<1> QED BY <1>1, <1>2, <1>3 DEF ReplaysAt, ReplayedAs

LEMMA TimePasses ==
  ASSUME NEW d, NEW es, NEW vs, NEW altered, NEW s, Books(d, es, vs, altered, s), NEW t \in Nat, s < t
  PROVE  Books(d, es, vs, altered, t) /\ PaymentsBefore(es, t)
<1>1. /\ es \in Seq(EntryRows) /\ vs \in Seq(VisitRows) /\ d \in Nat /\ s \in Nat
      /\ \A n \in DOMAIN es : es[n].at <= s
      /\ \A r \in DOMAIN vs : vs[r].at <= s /\ vs[r].gone <= s + Skew
  BY DEF Books, RowsTyped, RowsPast
<1>2. /\ \A n \in DOMAIN es : es[n].at \in Int
      /\ \A r \in DOMAIN vs : vs[r].at \in Int /\ vs[r].gone \in Int
  BY <1>1, SeqRows, RowTimes
<1>3. Skew \in Nat
  BY ReplayAssumption
<1>4. RowsPast(es, vs, t) /\ PaymentsBefore(es, t)
  <2>1. \A n \in DOMAIN es : es[n].at <= t /\ es[n].at < t
    BY <1>1, <1>2
  <2>2. \A r \in DOMAIN vs : vs[r].at <= t /\ vs[r].gone <= t + Skew
    BY <1>1, <1>2, <1>3
  <2> QED BY <2>1, <2>2 DEF RowsPast, PaymentsBefore
<1>5. RowsTyped(d, es, vs, t)
  BY <1>1 DEF RowsTyped
<1> QED BY <1>4, <1>5 DEF Books

(* What stands at t is what a payment of time t would be replayed with.     *)
LEMMA StandingNow ==
  ASSUME NEW es, NEW vs \in Seq(VisitRows), NEW s \in Nat, RowsPast(es, vs, s), NEW t \in Nat, s < t,
         ToldApart(vs, t)
  PROVE  StoodOf(vs, t) = StandingOf(vs)
<1>1. Skew \in Nat /\ CloseCall \in Nat /\ Skew < CloseCall
  BY ReplayAssumption
<1>2. ASSUME NEW r \in DOMAIN vs
      PROVE  vs[r].at <= t /\ (vs[r].gone # -1 => ~(vs[r].gone > t))
  <2>1. vs[r].at <= s /\ vs[r].gone <= s + Skew /\ vs[r].at \in Int /\ vs[r].gone \in Int
    BY SeqRows, RowTimes DEF RowsPast
  <2>2. vs[r].gone # -1 => ~(vs[r].gone - t < CloseCall /\ t - vs[r].gone < CloseCall)
    BY DEF ToldApart, Near
  <2> QED BY <1>1, <2>1, <2>2
<1>3. ASSUME NEW r \in DOMAIN vs PROVE (vs[r].gone = -1) <=> (vs[r].gone = -1 \/ vs[r].gone > t)
  BY <1>2
<1> QED BY <1>2, <1>3 DEF StoodOf, StandingOf

LEMMA PaymentAdded ==
  ASSUME NEW d, NEW es, NEW vs, NEW altered, NEW s, Books(d, es, vs, altered, s), NEW t \in Nat, s < t,
         NEW amount \in Nat \ {0}, amount <= OwedOf(d, es, vs),
         NEW u, u = Append(es, Entry("PAYMENT", amount, 0, t, OwedOf(d, es, vs)))
  PROVE  Books(d, u, vs, altered, t)
<1>1. /\ es \in Seq(EntryRows) /\ vs \in Seq(VisitRows) /\ d \in Nat /\ s \in Nat
      /\ RowsPast(es, vs, s) /\ RowsPast(es, vs, t) /\ Linked(es, vs) /\ PaidSplits(es, vs)
      /\ OwedOf(d, es, vs) >= 0
  BY TimePasses DEF Books, RowsTyped
<1>2. PICK owed \in Nat : owed = OwedOf(d, es, vs) /\ amount <= owed
  <2>1. PICK o \in Int : o = OwedOf(d, es, vs)
    BY <1>1, OwedTyped
  <2> QED BY <1>1, <2>1
<1>3. PICK e : e = Entry("PAYMENT", amount, 0, t, owed)
  OBVIOUS
<1>4. e \in EntryRows /\ e.type = "PAYMENT" /\ e.amount = amount /\ e.at = t /\ e.owedBefore = owed
  BY <1>2, <1>3 DEF Entry, EntryRows, EntryTypes
<1>5. u = Append(es, e)
  BY <1>2, <1>3
<1>6. PICK n : RowAdded(es, u, e, n)
  BY <1>1, <1>4, <1>5, RowFollows
<1>7. /\ n = Len(es) + 1 /\ Follows(es, u, n) /\ u \in Seq(EntryRows) /\ n \notin DOMAIN es /\ DOMAIN u = DOMAIN es \cup {n}
      /\ u[n] = e /\ \A k \in DOMAIN es : u[k] = es[k]
  BY <1>6 DEF Follows, RowAdded
<1>8. /\ PaidOver(u, DOMAIN u) = PaidOver(es, DOMAIN es) + amount
      /\ TakenOver(u, PaysOf(es) \cup {n}) = TakenOver(es, PaysOf(es)) + amount
  <2>1. Signed(e.type, e.amount) = amount
    BY <1>4 DEF Signed
  <2>2. PaidOver(u, DOMAIN u) = PaidOver(es, DOMAIN es) + Signed(u[n].type, u[n].amount)
    <3>1. es \in Seq(EntryRows) /\ Follows(es, u, n)
      BY <1>1, <1>7
    <3> QED BY ONLY <3>1, AllPaidAppended
  <2>3. PICK ids \in SUBSET DOMAIN es : ids = PaysOf(es)
    BY DEF PaysOf
  <2>4. RowTaken(es, u, n, ids)
    BY <1>1, <1>7, PaidAppended
  <2> QED BY <1>4, <1>7, <2>1, <2>2, <2>3, <2>4 DEF RowTaken
<1>9. RowsPast(u, vs, t)
  BY <1>1, <1>4, <1>7 DEF RowsPast
<1>10. Linked(u, vs)
  <2>1. \A k \in DOMAIN u : u[k] = e \/ (k \in DOMAIN es /\ u[k] = es[k])
    BY <1>7
  <2> QED BY <1>1, <1>4, <1>7, <2>1 DEF Linked
<1>11. PaysOf(u) = PaysOf(es) \cup {n}
  <2>1. \A k \in DOMAIN es : es[k].type = "PAYMENT_REVERSAL" => es[k].of # n
    BY <1>1, <1>7 DEF Linked
  <2>2. ~Reverses(u, n) /\ \A p \in DOMAIN es : Reverses(u, p) <=> Reverses(es, p)
    BY <1>4, <1>7, <2>1 DEF Reverses
  <2> QED BY <1>4, <1>7, <2>2 DEF PaysOf
<1>12. PaidSplits(u, vs) /\ OwedOf(d, u, vs) >= 0
  <2>1. /\ OwedOf(d, es, vs) = d - PaidOver(es, DOMAIN es) - DuesOver(vs, StandingOf(vs))
        /\ PaidOver(es, DOMAIN es) \in Int /\ DuesOver(vs, StandingOf(vs)) \in Int
        /\ CashOver(vs, StandingOf(vs)) \in Int /\ TakenOver(es, PaysOf(es)) \in Int
    BY <1>1, OwedTyped
  <2>2. OwedOf(d, u, vs) = d - PaidOver(u, DOMAIN u) - DuesOver(vs, StandingOf(vs))
    BY DEF OwedOf
  <2>3. PICK got \in Int, due \in Int, cash \in Int, taken \in Int :
           /\ got = PaidOver(es, DOMAIN es) /\ due = DuesOver(vs, StandingOf(vs))
           /\ cash = CashOver(vs, StandingOf(vs)) /\ taken = TakenOver(es, PaysOf(es))
    BY <2>1
  <2>4. PaidOver(u, DOMAIN u) = got + amount /\ TakenOver(u, PaysOf(u)) = taken + amount
    BY <1>8, <1>11, <2>3
  <2>5. OwedOf(d, u, vs) = d - (got + amount) - due /\ owed = d - got - due
    BY <1>2, <2>1, <2>2, <2>3, <2>4
  <2>6. d - (got + amount) - due >= 0
    <3>1. d \in Int
      BY <1>1
    <3> QED BY <1>2, <2>3, <2>5, <3>1, SMTT(30)
  <2>7. got = taken - cash
    BY <1>1, <2>3 DEF PaidSplits
  <2>8. got + amount = (taken + amount) - cash
    BY <2>3, <2>7
  <2>9. PaidSplits(u, vs)
    BY <2>3, <2>4, <2>8 DEF PaidSplits
  <2> QED BY <2>5, <2>6, <2>9
<1>13. ASSUME NEW p \in DOMAIN u PROVE ReplaysAt(d, u, vs, altered, p)
  <2>1. CASE p \in DOMAIN es
    <3>1. ReplaysAt(d, es, vs, altered, p)
      BY <2>1 DEF Books
    <3> QED BY <1>1, <1>4, <1>5, <2>1, <3>1, AppendedContinues, ReplayStays
  <2>2. CASE p = n
    <3>1. 1 .. p - 1 = DOMAIN es
      <4>1. Len(es) \in Nat /\ DOMAIN es = 1 .. Len(es)
        BY <1>1, SeqRows
      <4> QED BY <1>7, <2>2, <4>1
    <3>2. PaidOver(u, 1 .. p - 1) = PaidOver(es, DOMAIN es)
      <4>1. \A ids \in SUBSET DOMAIN es : PaidOver(u, ids) = PaidOver(es, ids)
        BY <1>1, <1>4, <1>5, AppendedContinues DEF Continues
      <4> QED BY <3>1, <4>1
    <3>3. ToldApart(vs, t) => StoodOf(vs, t) = StandingOf(vs)
      BY <1>1, StandingNow
    <3> QED BY <1>2, <1>4, <1>7, <2>2, <3>2, <3>3 DEF ReplaysAt, ReplayedAs, OwedOf
  <2> QED BY <1>7, <2>1, <2>2
<1>14. RowsTyped(d, u, vs, t) /\ \A r \in DOMAIN vs : Balanced(vs[r])
  BY <1>1, <1>7 DEF Books, RowsTyped
<1> QED BY <1>9, <1>10, <1>12, <1>13, <1>14 DEF Books

(* Rows that are no payment, and returns that change nothing of what stood  *)
(* at a payment's time, leave every payment replayed as it was.             *)
LEMMA BooksStay ==
  ASSUME NEW d, NEW es \in Seq(EntryRows), NEW vs, NEW altered, NEW u, NEW w,
         Continues(es, u), \A p \in DOMAIN es : ReplaysAt(d, es, vs, altered, p),
         \A k \in DOMAIN u : k \in DOMAIN es \/ u[k].type # "PAYMENT",
         \A p \in DOMAIN es : (es[p].type = "PAYMENT" /\ ToldApart(w, es[p].at)) =>
             ToldApart(vs, es[p].at) /\ DuesOver(w, StoodOf(w, es[p].at)) = DuesOver(vs, StoodOf(vs, es[p].at))
  PROVE  \A p \in DOMAIN u : ReplaysAt(d, u, w, altered, p)
<1> SUFFICES ASSUME NEW p \in DOMAIN u PROVE ReplaysAt(d, u, w, altered, p)
  OBVIOUS
<1>1. CASE p \in DOMAIN es
  BY <1>1, ReplayStays
<1>2. CASE u[p].type # "PAYMENT"
  BY <1>2 DEF ReplaysAt
<1> QED BY <1>1, <1>2

LEMMA PaymentTaken ==
  ASSUME NEW d, NEW es, NEW vs, NEW altered, NEW s, Books(d, es, vs, altered, s), NEW t \in Nat, s < t,
         NEW p \in PaysOf(es), NEW u, u = Append(es, Entry("PAYMENT_REVERSAL", es[p].amount, p, t, 0))
  PROVE  Books(d, u, vs, altered, t)
<1>1. /\ es \in Seq(EntryRows) /\ vs \in Seq(VisitRows) /\ d \in Nat /\ s \in Nat
      /\ RowsPast(es, vs, t) /\ Linked(es, vs) /\ PaidSplits(es, vs) /\ OwedOf(d, es, vs) >= 0
      /\ \A q \in DOMAIN es : ReplaysAt(d, es, vs, altered, q)
      /\ \A r \in DOMAIN vs : Balanced(vs[r])
  BY TimePasses DEF Books, RowsTyped
<1>2. p \in DOMAIN es /\ p \in Nat /\ es[p].type = "PAYMENT"
  BY <1>1, SeqRows DEF PaysOf
<1>3. PICK amount \in Nat \ {0} : amount = es[p].amount
  BY <1>1, <1>2, SeqRows, RowTimes
<1>4. PICK e : e = Entry("PAYMENT_REVERSAL", amount, p, t, 0)
  OBVIOUS
<1>5. e \in EntryRows /\ e.type = "PAYMENT_REVERSAL" /\ e.amount = amount /\ e.at = t /\ e.of = p
  BY <1>2, <1>4 DEF Entry, EntryRows, EntryTypes
<1>6. u = Append(es, e)
  BY <1>3, <1>4
<1>7. PICK n : RowAdded(es, u, e, n)
  BY <1>1, <1>5, <1>6, RowFollows
<1>8. /\ Follows(es, u, n) /\ u \in Seq(EntryRows) /\ n \notin DOMAIN es /\ DOMAIN u = DOMAIN es \cup {n}
      /\ u[n] = e /\ \A k \in DOMAIN es : u[k] = es[k]
  BY <1>7 DEF Follows, RowAdded
<1>9. \A k \in DOMAIN u : u[k] = e \/ (k \in DOMAIN es /\ u[k] = es[k])
  BY <1>8
<1>10. RowsPast(u, vs, t) /\ Linked(u, vs)
  <2>1. RowsPast(u, vs, t)
    BY <1>1, <1>5, <1>8, <1>9 DEF RowsPast
  <2>2. Linked(u, vs)
    BY <1>1, <1>2, <1>5, <1>8, <1>9 DEF Linked
  <2> QED BY <2>1, <2>2
<1>11. PaysOf(u) = PaysOf(es) \ {p}
  <2>1. \A q \in DOMAIN es : Reverses(u, q) <=> Reverses(es, q) \/ q = p
    BY <1>5, <1>8 DEF Reverses
  <2> QED BY <1>5, <1>8, <2>1 DEF PaysOf
<1>12. PaidOver(u, DOMAIN u) = PaidOver(es, DOMAIN es) - amount
  <2>1. Signed(e.type, e.amount) = -amount
    BY <1>5 DEF Signed
  <2>2. PaidOver(u, DOMAIN u) = PaidOver(es, DOMAIN es) + Signed(u[n].type, u[n].amount)
    <3>1. es \in Seq(EntryRows) /\ Follows(es, u, n)
      BY <1>1, <1>8
    <3> QED BY ONLY <3>1, AllPaidAppended
  <2>3. PaidOver(es, DOMAIN es) \in Int
    BY <1>1, OwedTyped
  <2> QED BY <1>8, <2>1, <2>2, <2>3
<1>13. TakenOver(u, PaysOf(u)) = TakenOver(es, PaysOf(es)) - amount
  <2>1. PICK ids, less \in SUBSET DOMAIN es : ids = PaysOf(es) /\ less = ids \ {p}
    BY DEF PaysOf
  <2>2. RowTaken(es, u, n, less)
    BY <1>1, <1>8, <2>1, PaidAppended
  <2>3. TakenOver(u, less) = TakenOver(es, less) /\ TakenOver(es, less) \in Int
    BY <1>1, <2>1, <2>2, PaidTyped DEF RowTaken
  <2>4. PICK f : f = Takings(es)
    OBVIOUS
  <2>5. IsFiniteSet(ids) /\ \A k \in ids : f[k] \in Int
    BY <1>1, <2>1, <2>4, PaidTyped
  <2>6. SumOver(ids, f) = f[p] + SumOver(ids \ {p}, f)
    BY <2>1, <2>5, SumTakesOut
  <2>7. f[p] = amount
    BY <1>2, <1>3, <2>4 DEF Takings
  <2>8. TakenOver(es, ids) = amount + TakenOver(es, less)
    BY <2>1, <2>4, <2>6, <2>7 DEF TakenOver
  <2>9. PICK stays \in Int : stays = TakenOver(es, less)
    BY <2>3
  <2>10. TakenOver(u, PaysOf(u)) = stays /\ TakenOver(es, PaysOf(es)) = amount + stays
    BY <1>11, <2>1, <2>3, <2>8, <2>9
  <2> QED BY <2>9, <2>10
<1>14. PaidSplits(u, vs) /\ OwedOf(d, u, vs) >= 0
  <2>1. PICK got \in Int, due \in Int, back \in Int, takes \in Int :
           /\ got = PaidOver(es, DOMAIN es) /\ due = DuesOver(vs, StandingOf(vs))
           /\ back = CashOver(vs, StandingOf(vs)) /\ takes = TakenOver(es, PaysOf(es))
    BY <1>1, OwedTyped
  <2>2. got = takes - back /\ d - got - due >= 0
    BY <1>1, <2>1 DEF PaidSplits, OwedOf
  <2>3. got - amount = (takes - amount) - back
    BY <2>1, <2>2
  <2>4. d - (got - amount) - due >= 0
    <3>1. d \in Int /\ amount \in Nat
      BY <1>1
    <3> QED BY ONLY <2>1, <2>2, <3>1
  <2>5. PaidSplits(u, vs)
    BY <1>12, <1>13, <2>1, <2>3 DEF PaidSplits
  <2> QED BY <1>12, <2>1, <2>4, <2>5 DEF OwedOf
<1>15. \A q \in DOMAIN u : ReplaysAt(d, u, vs, altered, q)
  <2>1. Continues(es, u)
    BY <1>1, <1>5, <1>6, AppendedContinues
  <2>2. \A k \in DOMAIN u : k \in DOMAIN es \/ u[k].type # "PAYMENT"
    BY <1>5, <1>9
  <2>3. \A q \in DOMAIN es : (es[q].type = "PAYMENT" /\ ToldApart(vs, es[q].at)) =>
           ToldApart(vs, es[q].at) /\ DuesOver(vs, StoodOf(vs, es[q].at)) = DuesOver(vs, StoodOf(vs, es[q].at))
    OBVIOUS
  <2>4. es \in Seq(EntryRows) /\ \A q \in DOMAIN es : ReplaysAt(d, es, vs, altered, q)
    BY <1>1
  <2> QED BY ONLY <2>1, <2>2, <2>3, <2>4, BooksStay
<1>16. RowsTyped(d, u, vs, t)
  BY <1>1, <1>8 DEF RowsTyped
<1> QED BY <1>1, <1>10, <1>14, <1>15, <1>16 DEF Books

NoRefundOf(es, r) == \A n \in DOMAIN es : es[n].type = "REFUND" => es[n].of # r
RefundTaken(es, u, vs, r, t) ==
    \/ NoRefundOf(es, r) /\ u = es
    \/ ~NoRefundOf(es, r) /\ u = Append(es, Entry("REFUND_REVERSAL", vs[r].cash, r, t, 0))

(* What a return's refund, taken back or written, adds to the entries.      *)
MoneyMoved(es, u, t, by, of) ==
    /\ Continues(es, u) /\ PaysOf(u) = PaysOf(es)
    /\ PaidOver(u, DOMAIN u) = PaidOver(es, DOMAIN es) + by
    /\ TakenOver(u, PaysOf(u)) = TakenOver(es, PaysOf(es))
    /\ \A k \in DOMAIN u :
          \/ k \in DOMAIN es /\ u[k] = es[k]
          \/ u[k] = Entry(IF by > 0 THEN "REFUND_REVERSAL" ELSE "REFUND", IF by > 0 THEN by ELSE -by, of, t, 0)

LEMMA NothingMoved ==
  ASSUME NEW es \in Seq(EntryRows), NEW t, NEW of
  PROVE  MoneyMoved(es, es, t, 0, of)
<1>1. PICK x \in Int : x = PaidOver(es, DOMAIN es)
  BY PaidTyped
<1>2. x = x + 0
  OBVIOUS
<1>3. Continues(es, es)
  BY DEF Continues
<1> QED BY <1>1, <1>2, <1>3 DEF MoneyMoved

LEMMA RefundMoved ==
  ASSUME NEW es \in Seq(EntryRows), NEW t \in Nat, NEW of \in Nat, NEW type \in {"REFUND", "REFUND_REVERSAL"},
         NEW amount \in Nat \ {0}, NEW u, u = Append(es, Entry(type, amount, of, t, 0)),
         NEW by, by = Signed(type, amount)
  PROVE  MoneyMoved(es, u, t, by, of)
<1>1. PICK e : e = Entry(type, amount, of, t, 0)
  OBVIOUS
<1>2. e \in EntryRows /\ e.type = type /\ e.amount = amount
  BY <1>1 DEF Entry, EntryRows, EntryTypes
<1>3. u = Append(es, e)
  BY <1>1
<1>4. PICK n : RowAdded(es, u, e, n)
  BY <1>2, <1>3, RowFollows
<1>5. /\ Follows(es, u, n) /\ n \notin DOMAIN es /\ DOMAIN u = DOMAIN es \cup {n}
      /\ u[n] = e /\ \A k \in DOMAIN es : u[k] = es[k]
  BY <1>4 DEF Follows, RowAdded
<1>6. Continues(es, u)
  BY <1>2, <1>3, AppendedContinues
<1>7. PaysOf(u) = PaysOf(es)
  <2>1. \A q \in DOMAIN es : Reverses(u, q) <=> Reverses(es, q)
    BY <1>2, <1>5 DEF Reverses
  <2> QED BY <1>2, <1>5, <2>1 DEF PaysOf
<1>8. PaidOver(u, DOMAIN u) = PaidOver(es, DOMAIN es) + by
  <2>1. PaidOver(u, DOMAIN u) = PaidOver(es, DOMAIN es) + Signed(u[n].type, u[n].amount)
    <3>1. es \in Seq(EntryRows) /\ Follows(es, u, n)
      BY <1>5
    <3> QED BY ONLY <3>1, AllPaidAppended
  <2> QED BY <1>2, <1>5, <2>1
<1>9. TakenOver(u, PaysOf(u)) = TakenOver(es, PaysOf(es))
  <2>1. PICK ids \in SUBSET DOMAIN es : ids = PaysOf(es)
    BY DEF PaysOf
  <2>2. RowTaken(es, u, n, ids)
    BY <1>5, PaidAppended
  <2> QED BY <1>7, <2>1, <2>2 DEF RowTaken
<1>10. type = (IF by > 0 THEN "REFUND_REVERSAL" ELSE "REFUND") /\ amount = (IF by > 0 THEN by ELSE -by)
  BY DEF Signed
<1>11. \A k \in DOMAIN u : (k \in DOMAIN es /\ u[k] = es[k]) \/ u[k] = e
  BY <1>5
<1> QED BY <1>1, <1>6, <1>7, <1>8, <1>9, <1>10, <1>11 DEF MoneyMoved

LEMMA TakenMoved ==
  ASSUME NEW es \in Seq(EntryRows), NEW vs \in Seq(VisitRows), Linked(es, vs), NEW r \in DOMAIN vs,
         NEW t \in Nat, NEW u, RefundTaken(es, u, vs, r, t)
  PROVE  MoneyMoved(es, u, t, vs[r].cash, r)
<1>1. r \in Nat /\ vs[r].cash \in Nat
  BY SeqRows, RowTimes
<1>2. CASE NoRefundOf(es, r)
  <2>1. vs[r].cash = 0
    BY <1>1, <1>2 DEF Linked, NoRefundOf
  <2> QED BY <1>2, <2>1, NothingMoved DEF RefundTaken
<1>3. CASE ~NoRefundOf(es, r)
  <2>1. PICK n \in DOMAIN es : es[n].type = "REFUND" /\ es[n].of = r
    BY <1>3 DEF NoRefundOf
  <2>2. es[n].amount = vs[r].cash /\ es[n].amount \in Nat \ {0}
    BY <2>1, SeqRows, RowTimes DEF Linked
  <2>3. PICK amount \in Nat \ {0} : amount = vs[r].cash
    BY <2>2
  <2>4. u = Append(es, Entry("REFUND_REVERSAL", amount, r, t, 0))
    BY <1>3, <2>3 DEF RefundTaken
  <2>5. amount = Signed("REFUND_REVERSAL", amount)
    BY DEF Signed
  <2>6. MoneyMoved(es, u, t, amount, r)
    BY <1>1, <2>4, <2>5, RefundMoved
  <2> QED BY <2>3, <2>6
<1> QED BY <1>2, <1>3

(* A stamp at most Skew behind does not hide the return from a payment     *)
(* whose time no stamp of the return comes close to.                        *)
LEMMA ToldApartEnough ==
  ASSUME NEW at \in Int, NEW t \in Nat, at < t, NEW stamp \in Nat, t - Skew <= stamp, ~Near(stamp, at)
  PROVE  stamp > at
<1>1. Skew \in Nat /\ CloseCall \in Nat /\ Skew < CloseCall
  BY ReplayAssumption
<1> QED BY <1>1 DEF Near

OwesWithout(d, es, vs, u, w, r) == OwedOf(d, u, w) = OwedOf(d, es, vs) + vs[r].due - vs[r].cash
LEMMA ReturnTaken ==
  ASSUME NEW d, NEW es, NEW vs, NEW altered, NEW t, Books(d, es, vs, altered, t), PaymentsBefore(es, t),
         NEW r \in StandingOf(vs), NEW stamp \in Nat, t - Skew <= stamp, stamp <= t + Skew,
         NEW w, w = [vs EXCEPT ![r].gone = stamp], NEW u, RefundTaken(es, u, vs, r, t)
  PROVE  /\ Books(d, u, w, altered, t) /\ PaymentsBefore(u, t)
         /\ OwesWithout(d, es, vs, u, w, r)
<1>1. /\ es \in Seq(EntryRows) /\ vs \in Seq(VisitRows) /\ d \in Nat /\ t \in Nat
      /\ RowsPast(es, vs, t) /\ Linked(es, vs) /\ PaidSplits(es, vs) /\ OwedOf(d, es, vs) >= 0
      /\ \A q \in DOMAIN es : ReplaysAt(d, es, vs, altered, q)
      /\ \A k \in DOMAIN vs : Balanced(vs[k])
  BY DEF Books, RowsTyped
<1>2. r \in DOMAIN vs /\ vs[r].gone = -1
  BY DEF StandingOf
<1>3. PICK due \in Nat, cash \in Nat : due = vs[r].due /\ cash = vs[r].cash
  BY <1>1, <1>2, SeqRows, RowTimes
<1>4. MoneyMoved(es, u, t, cash, r)
  BY <1>1, <1>2, <1>3, TakenMoved
<1>5. /\ w \in Seq(VisitRows) /\ DOMAIN w = DOMAIN vs /\ w[r].gone = stamp
      /\ \A k \in DOMAIN vs : /\ w[k].due = vs[k].due /\ w[k].cash = vs[k].cash
                              /\ w[k].owedBefore = vs[k].owedBefore /\ w[k].at = vs[k].at
                              /\ k # r => w[k] = vs[k]
      /\ DuesOf(w) = DuesOf(vs) /\ CashOf(w) = CashOf(vs)
  <2>1. TakenAt(vs, w, r, stamp)
    BY <1>1, <1>2, DuesKept
  <2> QED BY <2>1 DEF TakenAt
<1>6. PICK type, amount : \A k \in DOMAIN u :
         \/ k \in DOMAIN es /\ u[k] = es[k]
         \/ u[k] = Entry(type, amount, r, t, 0) /\ (cash > 0 => type = "REFUND_REVERSAL")
  BY <1>4 DEF MoneyMoved
<1>7. \A k \in DOMAIN u : (k \in DOMAIN es /\ u[k] = es[k]) \/ (u[k].at = t /\ u[k].type = "REFUND_REVERSAL")
  <2>1. CASE cash = 0
    <3>1. u = es
      <4>1. CASE ~NoRefundOf(es, r)
        <5>1. PICK n \in DOMAIN es : es[n].type = "REFUND" /\ es[n].of = r
          BY <4>1 DEF NoRefundOf
        <5>2. es[n].amount = cash /\ es[n].amount \in Nat \ {0}
          BY <1>1, <1>3, <5>1, SeqRows, RowTimes DEF Linked
        <5> QED BY <2>1, <5>2
      <4> QED BY <4>1 DEF RefundTaken
    <3> QED BY <3>1
  <2>2. CASE cash > 0
    BY <1>6, <2>2 DEF Entry
  <2> QED BY <2>1, <2>2
<1>8. u \in Seq(EntryRows) /\ DOMAIN es \subseteq DOMAIN u /\ \A k \in DOMAIN es : u[k] = es[k]
  BY <1>4 DEF MoneyMoved, Continues
<1>9. RowsPast(u, w, t)
  <2>1. \A k \in DOMAIN u : u[k].at <= t
    BY <1>1, <1>7 DEF RowsPast
  <2>2. \A k \in DOMAIN w : w[k].at <= t /\ w[k].gone <= t + Skew
    BY <1>1, <1>5 DEF RowsPast
  <2> QED BY <2>1, <2>2 DEF RowsPast
<1>10. Linked(u, w)
  <2>1. ASSUME NEW n \in DOMAIN u
        PROVE  /\ u[n].type = "PAYMENT_REVERSAL" => u[n].of \in DOMAIN u
               /\ u[n].type = "REFUND" => u[n].of \in DOMAIN w /\ u[n].amount = w[u[n].of].cash
    BY <1>1, <1>5, <1>7, <1>8 DEF Linked
  <2>2. ASSUME NEW k \in DOMAIN w, w[k].cash > 0 PROVE \E n \in DOMAIN u : u[n].type = "REFUND" /\ u[n].of = k
    <3>1. PICK n \in DOMAIN es : es[n].type = "REFUND" /\ es[n].of = k
      BY <1>1, <1>5, <2>2 DEF Linked
    <3> QED BY <1>8, <3>1
  <2> QED BY <2>1, <2>2 DEF Linked
<1>11. \A k \in DOMAIN w : Balanced(w[k])
  BY <1>1, <1>5 DEF Balanced
<1>12. PICK got \in Int, dues \in Int, back \in Int, takes \in Int :
          /\ got = PaidOver(es, DOMAIN es) /\ dues = DuesOver(vs, StandingOf(vs))
          /\ back = CashOver(vs, StandingOf(vs)) /\ takes = TakenOver(es, PaysOf(es))
  BY <1>1, OwedTyped
<1>13. DuesOver(w, StandingOf(w)) = dues - due /\ CashOver(w, StandingOf(w)) = back - cash
  <2>1. StandingOf(w) = StandingOf(vs) \ {r}
    BY <1>5 DEF StandingOf
  <2>2. PICK ids \in SUBSET DOMAIN vs : ids = StandingOf(vs) /\ r \in ids
    BY DEF StandingOf
  <2>3. PICK f, g : f = DuesOf(vs) /\ g = CashOf(vs)
    OBVIOUS
  <2>4. IsFiniteSet(ids) /\ \A k \in ids : f[k] \in Int /\ g[k] \in Int
    BY <1>1, <2>2, <2>3, DuesTyped
  <2>5. SumOver(ids, f) = f[r] + SumOver(ids \ {r}, f) /\ SumOver(ids, g) = g[r] + SumOver(ids \ {r}, g)
    BY ONLY <2>2, <2>4, SumTakesOut
  <2>6. f[r] = due /\ g[r] = cash
    BY <1>2, <1>3, <2>3 DEF DuesOf, CashOf
  <2>7. PICK x \in Int, y \in Int : x = SumOver(ids \ {r}, f) /\ y = SumOver(ids \ {r}, g)
    <3>1. IsFiniteSet(ids \ {r}) /\ \A k \in ids \ {r} : f[k] \in Int /\ g[k] \in Int
      BY <2>4, FS_Subset
    <3> QED BY ONLY <3>1, SumIsInt
  <2>8. dues = due + x /\ back = cash + y
    BY <1>12, <2>2, <2>3, <2>5, <2>6, <2>7 DEF DuesOver, CashOver
  <2>9. DuesOver(w, StandingOf(w)) = x /\ CashOver(w, StandingOf(w)) = y
    BY <1>5, <2>1, <2>2, <2>3, <2>7 DEF DuesOver, CashOver
  <2> QED BY <2>7, <2>8, <2>9
<1>14. PaidOver(u, DOMAIN u) = got + cash /\ TakenOver(u, PaysOf(u)) = takes
  BY <1>4, <1>12 DEF MoneyMoved
<1>15. got = takes - back /\ OwedOf(d, es, vs) = d - got - dues /\ d - got - dues >= 0
  BY <1>1, <1>12 DEF PaidSplits, OwedOf
<1>16. OwedOf(d, u, w) = d - (got + cash) - (dues - due)
  BY <1>13, <1>14 DEF OwedOf
<1>17. cash <= due
  BY <1>1, <1>2, <1>3 DEF Balanced
<1>18. /\ got + cash = takes - (back - cash) /\ d - (got + cash) - (dues - due) >= 0
       /\ d - (got + cash) - (dues - due) = (d - got - dues) + due - cash
  <2>1. d \in Int /\ cash \in Int /\ due \in Int
    BY <1>1
  <2> QED BY ONLY <1>12, <1>15, <1>17, <2>1
<1>19. PaidSplits(u, w)
  BY <1>13, <1>14, <1>18 DEF PaidSplits
<1>20. /\ OwedOf(d, u, w) >= 0
       /\ OwedOf(d, u, w) = OwedOf(d, es, vs) + vs[r].due - vs[r].cash
  BY <1>3, <1>15, <1>16, <1>18
<1>21. ASSUME NEW p \in DOMAIN es, es[p].type = "PAYMENT", ToldApart(w, es[p].at)
       PROVE  /\ ToldApart(vs, es[p].at)
              /\ DuesOver(w, StoodOf(w, es[p].at)) = DuesOver(vs, StoodOf(vs, es[p].at))
  <2>1. PICK at \in Int : at = es[p].at
    BY <1>1, SeqRows, RowTimes
  <2>2. at < t
    BY <1>21, <2>1 DEF PaymentsBefore
  <2>3. ToldApart(vs, at)
    BY <1>2, <1>5, <1>21, <2>1 DEF ToldApart
  <2>4. stamp > at
    <3>1. ~Near(stamp, at)
      <4>1. stamp # -1
        OBVIOUS
      <4> QED BY <1>2, <1>5, <1>21, <2>1, <4>1 DEF ToldApart
    <3> QED BY <1>1, <2>1, <2>2, <3>1, ToldApartEnough
  <2>5. StoodOf(w, at) = StoodOf(vs, at)
    BY <1>2, <1>5, <2>4 DEF StoodOf
  <2>6. DuesOver(w, StoodOf(w, at)) = DuesOver(vs, StoodOf(vs, at))
    BY <1>5, <2>5 DEF DuesOver
  <2> QED BY <2>1, <2>3, <2>6
<1>22. \A q \in DOMAIN u : ReplaysAt(d, u, w, altered, q)
  <2>1. Continues(es, u)
    BY <1>4 DEF MoneyMoved
  <2>2. \A k \in DOMAIN u : k \in DOMAIN es \/ u[k].type # "PAYMENT"
    BY <1>7
  <2>3. es \in Seq(EntryRows) /\ \A q \in DOMAIN es : ReplaysAt(d, es, vs, altered, q)
    BY <1>1
  <2> QED BY ONLY <1>21, <2>1, <2>2, <2>3, BooksStay
<1>23. PaymentsBefore(u, t) /\ RowsTyped(d, u, w, t)
  BY <1>1, <1>5, <1>7, <1>8 DEF PaymentsBefore, RowsTyped
<1> QED BY <1>9, <1>10, <1>11, <1>19, <1>20, <1>22, <1>23 DEF Books, OwesWithout

NewVisit(due, cash, owed, t) == [due |-> due, cash |-> cash, owedBefore |-> owed, at |-> t, gone |-> -1]
RefundWritten(es, u, m, cash, t) ==
    \/ cash = 0 /\ u = es
    \/ cash # 0 /\ u = Append(es, Entry("REFUND", cash, m, t, 0))

LEMMA WrittenMoved ==
  ASSUME NEW es \in Seq(EntryRows), NEW m \in Nat, NEW cash \in Nat, NEW t \in Nat,
         NEW u, RefundWritten(es, u, m, cash, t)
  PROVE  /\ MoneyMoved(es, u, t, -cash, m)
         /\ \A k \in DOMAIN u : \/ k \in DOMAIN es /\ u[k] = es[k]
                                \/ u[k] = Entry("REFUND", cash, m, t, 0)
         /\ cash > 0 => \E k \in DOMAIN u : u[k] = Entry("REFUND", cash, m, t, 0)
<1>1. CASE cash = 0
  <2>1. u = es
    BY <1>1 DEF RefundWritten
  <2>2. -cash = 0
    <3>1. -cash = 0 - cash
      OBVIOUS
    <3> QED BY <1>1, <3>1
  <2>3. MoneyMoved(es, es, t, 0, m)
    BY NothingMoved
  <2> QED BY <1>1, <2>1, <2>2, <2>3
<1>2. CASE cash # 0
  <2>1. cash \in Nat \ {0} /\ -cash = Signed("REFUND", cash) /\ u = Append(es, Entry("REFUND", cash, m, t, 0))
    BY <1>2 DEF Signed, RefundWritten
  <2>2. PICK by : by = -cash /\ by = Signed("REFUND", cash)
    BY <2>1
  <2>3. MoneyMoved(es, u, t, by, m)
    BY <2>1, <2>2, RefundMoved
  <2>4. PICK e : e = Entry("REFUND", cash, m, t, 0)
    OBVIOUS
  <2>5. e \in EntryRows /\ u = Append(es, e)
    BY <2>1, <2>4 DEF Entry, EntryRows, EntryTypes
  <2>6. PICK n : RowAdded(es, u, e, n)
    BY <2>5, RowFollows
  <2>7. DOMAIN u = DOMAIN es \cup {n} /\ u[n] = e /\ \A k \in DOMAIN es : u[k] = es[k]
    BY <2>6 DEF RowAdded, Follows
  <2> QED BY <2>2, <2>3, <2>4, <2>7
<1> QED BY <1>1, <1>2

VisitAdded(vs, w, v, m) ==
    /\ w \in Seq(VisitRows) /\ m \notin DOMAIN vs /\ DOMAIN w = DOMAIN vs \cup {m} /\ w[m] = v
    /\ \A k \in DOMAIN vs : w[k] = vs[k]
    /\ \A rets \in SUBSET DOMAIN vs : DuesOver(w, rets) = DuesOver(vs, rets)
    /\ v.gone = -1 => /\ DuesOver(w, StandingOf(w)) = DuesOver(vs, StandingOf(vs)) + v.due
                      /\ CashOver(w, StandingOf(w)) = CashOver(vs, StandingOf(vs)) + v.cash

LEMMA VisitFollows ==
  ASSUME NEW vs \in Seq(VisitRows), NEW v \in VisitRows, NEW w, w = Append(vs, v), NEW m, m = Len(vs) + 1
  PROVE  VisitAdded(vs, w, v, m)
<1>1. /\ w \in Seq(VisitRows) /\ m \notin DOMAIN vs /\ DOMAIN w = DOMAIN vs \cup {m}
      /\ w[m] = v /\ \A k \in DOMAIN vs : w[k] = vs[k]
  BY RowAppended
<1>2. PICK f, g, a, b : f = DuesOf(vs) /\ g = DuesOf(w) /\ a = CashOf(vs) /\ b = CashOf(w)
  OBVIOUS
<1>3. \A k \in DOMAIN vs : f[k] = g[k] /\ a[k] = b[k]
  BY <1>1, <1>2 DEF DuesOf, CashOf
<1>4. g[m] = v.due /\ b[m] = v.cash
  BY <1>1, <1>2 DEF DuesOf, CashOf
<1>5. \A k \in DOMAIN w : g[k] \in Int /\ b[k] \in Int
  BY <1>1, <1>2, DuesTyped
<1>6. ASSUME NEW rets \in SUBSET DOMAIN vs
      PROVE  SumOver(rets, g) = SumOver(rets, f) /\ SumOver(rets, b) = SumOver(rets, a) /\ IsFiniteSet(rets)
  <2>1. IsFiniteSet(rets) /\ \A k \in rets : f[k] = g[k] /\ a[k] = b[k]
    BY <1>3, DuesTyped
  <2> QED BY ONLY <2>1, SumAgrees
<1>7. \A rets \in SUBSET DOMAIN vs : DuesOver(w, rets) = DuesOver(vs, rets)
  BY <1>2, <1>6 DEF DuesOver
<1>8. ASSUME v.gone = -1
      PROVE  /\ DuesOver(w, StandingOf(w)) = DuesOver(vs, StandingOf(vs)) + v.due
             /\ CashOver(w, StandingOf(w)) = CashOver(vs, StandingOf(vs)) + v.cash
  <2>1. PICK ids \in SUBSET DOMAIN vs : ids = StandingOf(vs)
    BY DEF StandingOf
  <2>2. StandingOf(w) = ids \cup {m}
    BY <1>1, <1>8, <2>1 DEF StandingOf
  <2>3. IsFiniteSet(ids) /\ m \notin ids /\ \A k \in ids \cup {m} : g[k] \in Int /\ b[k] \in Int
    BY <1>1, <1>5, <1>6
  <2>4. SumOver(ids \cup {m}, g) = SumOver(ids, g) + g[m] /\ SumOver(ids \cup {m}, b) = SumOver(ids, b) + b[m]
    BY ONLY <2>3, SumOneAdded
  <2>5. SumOver(ids, g) = SumOver(ids, f) /\ SumOver(ids, b) = SumOver(ids, a)
    BY <1>6
  <2> QED BY <1>2, <1>4, <2>1, <2>2, <2>4, <2>5 DEF DuesOver, CashOver
<1> QED BY <1>1, <1>7, <1>8 DEF VisitAdded

LEMMA ReturnAdded ==
  ASSUME NEW d, NEW es, NEW vs, NEW altered, NEW t, Books(d, es, vs, altered, t), PaymentsBefore(es, t),
         NEW owed, owed = OwedOf(d, es, vs), NEW due \in Nat,
         NEW cash \in Nat, cash = IF due > owed THEN due - owed ELSE 0,
         NEW w, w = Append(vs, NewVisit(due, cash, owed, t)),
         NEW u, RefundWritten(es, u, Len(vs) + 1, cash, t)
  PROVE  Books(d, u, w, altered, t)
<1>1. /\ es \in Seq(EntryRows) /\ vs \in Seq(VisitRows) /\ d \in Nat /\ t \in Nat
      /\ RowsPast(es, vs, t) /\ Linked(es, vs) /\ PaidSplits(es, vs) /\ OwedOf(d, es, vs) >= 0
      /\ \A q \in DOMAIN es : ReplaysAt(d, es, vs, altered, q)
      /\ \A k \in DOMAIN vs : Balanced(vs[k])
  BY DEF Books, RowsTyped
<1>2. owed \in Nat
  <2>1. OwedOf(d, es, vs) \in Int
    BY <1>1, OwedTyped
  <2> QED BY <1>1, <2>1
<1>3. PICK v : v = NewVisit(due, cash, owed, t)
  OBVIOUS
<1>4. /\ v.due = due /\ v.cash = cash /\ v.owedBefore = owed /\ v.at = t /\ v.gone = -1
      /\ v \in VisitRows
  BY <1>1, <1>2, <1>3 DEF NewVisit, VisitRows
<1>5. PICK m \in Nat : m = Len(vs) + 1
  BY <1>1
<1>6. VisitAdded(vs, w, v, m)
  BY <1>1, <1>3, <1>4, <1>5, VisitFollows
<1>7. /\ w \in Seq(VisitRows) /\ m \notin DOMAIN vs /\ DOMAIN w = DOMAIN vs \cup {m} /\ w[m] = v
      /\ \A k \in DOMAIN vs : w[k] = vs[k]
  BY <1>6 DEF VisitAdded
<1>8. RefundWritten(es, u, m, cash, t)
  BY <1>5
<1>9. PICK e : e = Entry("REFUND", cash, m, t, 0)
  OBVIOUS
<1>10. e.type = "REFUND" /\ e.of = m /\ e.amount = cash /\ e.at = t
  BY <1>9 DEF Entry
<1>11. /\ MoneyMoved(es, u, t, -cash, m)
       /\ \A k \in DOMAIN u : (k \in DOMAIN es /\ u[k] = es[k]) \/ u[k] = e
       /\ cash > 0 => \E k \in DOMAIN u : u[k] = e
  BY <1>1, <1>8, <1>9, WrittenMoved
<1>12. u \in Seq(EntryRows) /\ DOMAIN es \subseteq DOMAIN u /\ \A k \in DOMAIN es : u[k] = es[k]
  BY <1>11 DEF MoneyMoved, Continues
<1>13. RowsPast(u, w, t)
  <2>1. \A k \in DOMAIN u : u[k].at <= t
    BY <1>1, <1>10, <1>11 DEF RowsPast
  <2>2. Skew \in Nat
    BY ReplayAssumption
  <2>3. v.at <= t /\ v.gone <= t + Skew
    BY <1>1, <1>4, <2>2
  <2>4. \A k \in DOMAIN w : w[k].at <= t /\ w[k].gone <= t + Skew
    BY <1>1, <1>7, <2>3 DEF RowsPast
  <2> QED BY <2>1, <2>4 DEF RowsPast
<1>14. Linked(u, w)
  <2>1. ASSUME NEW n \in DOMAIN u
        PROVE  /\ u[n].type = "PAYMENT_REVERSAL" => u[n].of \in DOMAIN u
               /\ u[n].type = "REFUND" => u[n].of \in DOMAIN w /\ u[n].amount = w[u[n].of].cash
    <3>1. CASE u[n] = e
      BY <1>4, <1>7, <1>10, <3>1
    <3>2. CASE n \in DOMAIN es /\ u[n] = es[n]
      BY <1>1, <1>7, <1>12, <3>2 DEF Linked
    <3> QED BY <1>11, <3>1, <3>2
  <2>2. ASSUME NEW k \in DOMAIN w, w[k].cash > 0 PROVE \E n \in DOMAIN u : u[n].type = "REFUND" /\ u[n].of = k
    <3>1. CASE k = m
      BY <1>4, <1>7, <1>10, <1>11, <2>2, <3>1
    <3>2. CASE k \in DOMAIN vs
      <4>1. PICK n \in DOMAIN es : es[n].type = "REFUND" /\ es[n].of = k
        BY <1>1, <1>7, <2>2, <3>2 DEF Linked
      <4> QED BY <1>12, <4>1
    <3> QED BY <1>7, <3>1, <3>2
  <2> QED BY <2>1, <2>2 DEF Linked
<1>15. cash <= due /\ owed - due + cash >= 0 /\ (cash > 0 => owed - due + cash = 0)
  BY <1>2
<1>16. \A k \in DOMAIN w : Balanced(w[k])
  <2>1. Balanced(v)
    BY <1>4, <1>15 DEF Balanced
  <2> QED BY <1>1, <1>7, <2>1
<1>17. PICK got \in Int, dues \in Int, back \in Int, takes \in Int :
          /\ got = PaidOver(es, DOMAIN es) /\ dues = DuesOver(vs, StandingOf(vs))
          /\ back = CashOver(vs, StandingOf(vs)) /\ takes = TakenOver(es, PaysOf(es))
  BY <1>1, OwedTyped
<1>18. /\ DuesOver(w, StandingOf(w)) = dues + due /\ CashOver(w, StandingOf(w)) = back + cash
       /\ PaidOver(u, DOMAIN u) = got + (-cash) /\ TakenOver(u, PaysOf(u)) = takes
  <2>1. DuesOver(w, StandingOf(w)) = dues + due /\ CashOver(w, StandingOf(w)) = back + cash
    BY <1>4, <1>6, <1>17 DEF VisitAdded
  <2>2. PaidOver(u, DOMAIN u) = got + (-cash) /\ TakenOver(u, PaysOf(u)) = takes
    BY <1>11, <1>17 DEF MoneyMoved
  <2> QED BY <2>1, <2>2
<1>19. got = takes - back /\ owed = d - got - dues
  BY <1>1, <1>17 DEF PaidSplits, OwedOf
<1>20. got + (-cash) = takes - (back + cash) /\ d - (got + (-cash)) - (dues + due) >= 0
  <2>1. d \in Int /\ cash \in Int /\ due \in Int
    BY <1>1
  <2> QED BY ONLY <1>15, <1>17, <1>19, <2>1
<1>21. PaidSplits(u, w) /\ OwedOf(d, u, w) >= 0
  BY <1>18, <1>20 DEF PaidSplits, OwedOf
<1>22. ASSUME NEW p \in DOMAIN es, es[p].type = "PAYMENT", ToldApart(w, es[p].at)
       PROVE  /\ ToldApart(vs, es[p].at)
              /\ DuesOver(w, StoodOf(w, es[p].at)) = DuesOver(vs, StoodOf(vs, es[p].at))
  <2>1. PICK at \in Int : at = es[p].at
    BY <1>1, SeqRows, RowTimes
  <2>2. at < t
    BY <1>22, <2>1 DEF PaymentsBefore
  <2>3. ToldApart(vs, at)
    BY <1>7, <1>22, <2>1 DEF ToldApart
  <2>4. ~(v.at <= at)
    BY <1>1, <1>4, <2>1, <2>2
  <2>5. PICK ids \in SUBSET DOMAIN vs : ids = StoodOf(vs, at)
    BY DEF StoodOf
  <2>6. StoodOf(w, at) = ids
    BY <1>7, <2>4, <2>5 DEF StoodOf
  <2>7. DuesOver(w, ids) = DuesOver(vs, ids)
    BY <1>6 DEF VisitAdded
  <2> QED BY <2>1, <2>3, <2>5, <2>6, <2>7
<1>23. \A q \in DOMAIN u : ReplaysAt(d, u, w, altered, q)
  <2>1. Continues(es, u)
    BY <1>11 DEF MoneyMoved
  <2>2. \A k \in DOMAIN u : k \in DOMAIN es \/ u[k].type # "PAYMENT"
    BY <1>10, <1>11
  <2>3. es \in Seq(EntryRows) /\ \A q \in DOMAIN es : ReplaysAt(d, es, vs, altered, q)
    BY <1>1
  <2> QED BY ONLY <1>22, <2>1, <2>2, <2>3, BooksStay
<1>24. RowsTyped(d, u, w, t)
  BY <1>1, <1>7, <1>12 DEF RowsTyped
<1> QED BY <1>13, <1>14, <1>16, <1>21, <1>23, <1>24 DEF Books

LEMMA LinesEdited ==
  ASSUME NEW d, NEW es, NEW vs, NEW altered, NEW s, Books(d, es, vs, altered, s), NEW t \in Nat, s < t,
         StandingOf(vs) = {}, PaysOf(es) = {}, NEW total \in Nat
  PROVE  Books(total, es, vs, altered \cup {t}, t)
<1>1. /\ es \in Seq(EntryRows) /\ vs \in Seq(VisitRows) /\ d \in Nat /\ t \in Nat
      /\ RowsPast(es, vs, t) /\ Linked(es, vs) /\ PaidSplits(es, vs) /\ PaymentsBefore(es, t)
      /\ \A k \in DOMAIN vs : Balanced(vs[k])
  BY TimePasses DEF Books, RowsTyped
<1>2. TakenOver(es, {}) = 0 /\ CashOver(vs, {}) = 0 /\ DuesOver(vs, {}) = 0
  BY SumOfNone DEF TakenOver, CashOver, DuesOver
<1>3. PaidOver(es, DOMAIN es) = 0
  BY <1>1, <1>2 DEF PaidSplits
<1>4. OwedOf(total, es, vs) >= 0
  BY <1>2, <1>3 DEF OwedOf
<1>5. \A p \in DOMAIN es : ReplaysAt(total, es, vs, altered \cup {t}, p)
  <2> SUFFICES ASSUME NEW p \in DOMAIN es, es[p].type = "PAYMENT"
               PROVE  Reverses(es, p) /\ t > es[p].at
    BY DEF ReplaysAt
  <2>1. es[p].at < t /\ es[p].at \in Int
    BY <1>1, SeqRows, RowTimes DEF PaymentsBefore
  <2>2. Reverses(es, p)
    BY DEF PaysOf
  <2> QED BY <2>1, <2>2
<1>6. RowsTyped(total, es, vs, t)
  BY <1>1 DEF RowsTyped
<1> QED BY <1>1, <1>4, <1>5, <1>6 DEF Books
-----------------------------------------------------------------------------
ReplayInv ==
    \E d, es, vs, altered, s :
       /\ d = depositTotal /\ es = entries /\ vs = visits /\ altered = lineEdits /\ s = seconds
       /\ Books(d, es, vs, altered, s)

LEMMA CashBeyondOwed ==
  ASSUME NEW due \in Int, NEW owed \in Int
  PROVE  Max({0, due - owed}) = IF due > owed THEN due - owed ELSE 0
<1>1. PICK x \in Int : x = due - owed
  OBVIOUS
<1>2. PICK most : most = Max({0, x})
  OBVIOUS
<1>3. \E m \in {0, x} : \A y \in {0, x} : m >= y
  <2>1. CASE x >= 0
    BY <2>1
  <2>2. CASE x < 0
    BY <2>2
  <2> QED BY <2>1, <2>2
<1>4. most \in {0, x} /\ \A y \in {0, x} : most >= y
  BY <1>2, <1>3 DEF Max
<1>5. most = IF x > 0 THEN x ELSE 0
  BY <1>4
<1> QED BY <1>1, <1>2, <1>5

LEMMA ReplayInitially == ASSUME ReplayInit PROVE ReplayInv
<1>1. PICK d \in Nat : d = depositTotal
  BY ReplayAssumption DEF ReplayInit
<1>2. PICK es, vs, altered, s : es = <<>> /\ vs = <<>> /\ altered = {} /\ s = 0
  OBVIOUS
<1>3. DOMAIN es = {} /\ DOMAIN vs = {} /\ es \in Seq(EntryRows) /\ vs \in Seq(VisitRows) /\ s \in Nat
  BY <1>2
<1>4. RowsTyped(d, es, vs, s) /\ RowsPast(es, vs, s) /\ Linked(es, vs)
  BY <1>3 DEF RowsTyped, RowsPast, Linked
<1>5. StandingOf(vs) = {} /\ PaysOf(es) = {}
  BY <1>3 DEF StandingOf, PaysOf
<1>6. PaidOver(es, {}) = 0 /\ TakenOver(es, {}) = 0 /\ CashOver(vs, {}) = 0 /\ DuesOver(vs, {}) = 0
  BY SumOfNone DEF PaidOver, TakenOver, CashOver, DuesOver
<1>7. PaidSplits(es, vs) /\ OwedOf(d, es, vs) >= 0
  BY <1>3, <1>5, <1>6 DEF PaidSplits, OwedOf
<1>8. Books(d, es, vs, altered, s)
  BY <1>3, <1>4, <1>7 DEF Books
<1> QED BY <1>1, <1>2, <1>8 DEF ReplayInit, ReplayInv

LEMMA LaterThan ==
  ASSUME seconds \in Nat, Later
  PROVE  seconds' \in Nat /\ seconds < seconds'
BY ReplayAssumption DEF Later

(* What TakeBack and Recorded come to. *)
LEMMA TakeBackIs ==
  ASSUME NEW vs, NEW es, NEW r, NEW stamp, NEW t, t = seconds', es = entries
  PROVE  /\ TakeBack(vs, es, r, stamp).visits = [vs EXCEPT ![r].gone = stamp]
         /\ RefundTaken(es, TakeBack(vs, es, r, stamp).entries, vs, r, t)
BY DEF TakeBack, RefundEntry, RefundTaken, NoRefundOf, Entry

LEMMA RecordedIs ==
  ASSUME NEW vs, NEW es, NEW due \in Int, NEW owed \in Int, NEW t, t = seconds',
         NEW cash, cash = IF due > owed THEN due - owed ELSE 0
  PROVE  /\ Recorded(vs, es, due, owed).visits = Append(vs, NewVisit(due, cash, owed, t))
         /\ RefundWritten(es, Recorded(vs, es, due, owed).entries, Len(vs) + 1, cash, t)
BY CashBeyondOwed DEF Recorded, NewVisit, RefundWritten, Entry

LEMMA ReplayStep == ASSUME ReplayInv, [ReplayNext]_replayVars PROVE ReplayInv'
<1>1. PICK d, es, vs, altered, s :
         /\ d = depositTotal /\ es = entries /\ vs = visits /\ altered = lineEdits /\ s = seconds
         /\ Books(d, es, vs, altered, s)
  BY DEF ReplayInv
<1>2. PICK t, u, w, total, more :
         t = seconds' /\ u = entries' /\ w = visits' /\ total = depositTotal' /\ more = lineEdits'
  OBVIOUS
<1>3. d \in Nat /\ es \in Seq(EntryRows) /\ vs \in Seq(VisitRows) /\ s \in Nat
  BY <1>1 DEF Books, RowsTyped
<1>4. /\ OwedNow = OwedOf(d, es, vs) /\ OwedOf(d, es, vs) \in Nat
      /\ StandingRets = StandingOf(vs) /\ StandingPays = PaysOf(es)
  <2>1. OwedNow = OwedOf(d, es, vs) /\ StandingRets = StandingOf(vs) /\ StandingPays = PaysOf(es)
    BY <1>1, SumsOfRows
  <2>2. OwedOf(d, es, vs) >= 0 /\ OwedOf(d, es, vs) \in Int
    BY <1>1, <1>3, OwedTyped DEF Books
  <2> QED BY <2>1, <2>2
<1>5. Later => t \in Nat /\ s < t
  BY <1>1, <1>2, <1>3, LaterThan
<1> SUFFICES Books(total, u, w, more, t)
  BY <1>2 DEF ReplayInv
<1>6. ASSUME NEW amount \in Sums, RecordPayment(amount) PROVE Books(total, u, w, more, t)
  <2>1. amount \in Nat \ {0}
    BY ReplayAssumption
  <2>2. PICK owed : owed = OwedOf(d, es, vs)
    OBVIOUS
  <2>3. /\ t \in Nat /\ s < t /\ amount <= owed /\ u = Append(es, Entry("PAYMENT", amount, 0, t, owed))
        /\ total = d /\ w = vs /\ more = altered
    BY <1>1, <1>2, <1>4, <1>5, <1>6, <2>2 DEF RecordPayment
  <2> QED BY <1>1, <2>1, <2>2, <2>3, PaymentAdded
<1>7. ASSUME NEW p \in DOMAIN entries, ReversePay(p) PROVE Books(total, u, w, more, t)
  <2>1. /\ t \in Nat /\ s < t /\ p \in PaysOf(es)
        /\ u = Append(es, Entry("PAYMENT_REVERSAL", es[p].amount, p, t, 0))
        /\ total = d /\ w = vs /\ more = altered
    BY <1>1, <1>2, <1>4, <1>5, <1>7 DEF ReversePay
  <2> QED BY <1>1, <2>1, PaymentTaken
<1>8. ASSUME NEW due \in Sums, RecordReturn(due) PROVE Books(total, u, w, more, t)
  <2>1. due \in Nat
    BY ReplayAssumption
  <2>2. PICK owed \in Nat : owed = OwedOf(d, es, vs)
    BY <1>4
  <2>3. PICK cash \in Nat : cash = IF due > owed THEN due - owed ELSE 0
    <3>1. (IF due > owed THEN due - owed ELSE 0) \in Nat
      BY <2>1, <2>2
    <3> QED BY <3>1
  <2>4. /\ t \in Nat /\ s < t /\ total = d /\ more = altered
        /\ u = Recorded(vs, es, due, owed).entries /\ w = Recorded(vs, es, due, owed).visits
    BY <1>1, <1>2, <1>4, <1>5, <1>8, <2>2 DEF RecordReturn, Write
  <2>5. w = Append(vs, NewVisit(due, cash, owed, t)) /\ RefundWritten(es, u, Len(vs) + 1, cash, t)
    BY <1>2, <2>1, <2>3, <2>4, RecordedIs
  <2>6. Books(d, es, vs, altered, t) /\ PaymentsBefore(es, t)
    BY <1>1, <2>4, TimePasses
  <2>7. Books(d, u, w, altered, t)
    BY ONLY <2>1, <2>2, <2>3, <2>5, <2>6, ReturnAdded
  <2> QED BY <2>4, <2>7
<1>9. ASSUME NEW r \in DOMAIN visits, DeleteStanding(r) PROVE Books(total, u, w, more, t)
  <2>1. PICK stamp \in Stamps : Write(TakeBack(visits, entries, r, stamp))
    BY <1>9 DEF DeleteStanding
  <2>2. /\ t \in Nat /\ s < t /\ total = d /\ more = altered /\ r \in StandingOf(vs)
        /\ u = TakeBack(vs, es, r, stamp).entries /\ w = TakeBack(vs, es, r, stamp).visits
    BY <1>1, <1>2, <1>4, <1>5, <1>9, <2>1 DEF DeleteStanding, Write
  <2>3. stamp \in Nat /\ t - Skew <= stamp /\ stamp <= t + Skew
    <3>1. Stamps = {x \in t - Skew .. t + Skew : x >= 0}
      BY <1>2 DEF Stamps
    <3>2. t \in Nat /\ Skew \in Nat
      BY <2>2, ReplayAssumption
    <3> QED BY <3>1, <3>2
  <2>4. w = [vs EXCEPT ![r].gone = stamp] /\ RefundTaken(es, u, vs, r, t)
    BY <1>1, <1>2, <2>2, TakeBackIs
  <2>5. Books(d, es, vs, altered, t) /\ PaymentsBefore(es, t)
    BY <1>1, <2>2, TimePasses
  <2>6. Books(d, u, w, altered, t)
    BY ONLY <2>2, <2>3, <2>4, <2>5, ReturnTaken
  <2> QED BY <2>2, <2>6
<1>10. ASSUME NEW r \in DOMAIN visits, NEW due \in Sums, CorrectReturn(r, due)
       PROVE  Books(total, u, w, more, t)
  <2>1. PICK stamp \in Stamps :
           LET without == TakeBack(visits, entries, r, stamp)
           IN  Write(Recorded(without.visits, without.entries, due, OwedNow + visits[r].due - visits[r].cash))
    BY <1>10 DEF CorrectReturn
  <2>2. PICK vs1, es1, owed :
           /\ vs1 = TakeBack(vs, es, r, stamp).visits /\ es1 = TakeBack(vs, es, r, stamp).entries
           /\ owed = OwedOf(d, es, vs) + vs[r].due - vs[r].cash
    OBVIOUS
  <2>3. /\ t \in Nat /\ s < t /\ r \in StandingOf(vs)
    BY <1>4, <1>5, <1>10 DEF CorrectReturn
  <2>4. /\ total = d /\ more = altered
        /\ u = Recorded(vs1, es1, due, owed).entries /\ w = Recorded(vs1, es1, due, owed).visits
    BY <1>1, <1>2, <1>4, <2>1, <2>2 DEF Write
  <2>5. stamp \in Nat /\ t - Skew <= stamp /\ stamp <= t + Skew
    <3>1. Stamps = {x \in t - Skew .. t + Skew : x >= 0}
      BY <1>2 DEF Stamps
    <3>2. t \in Nat /\ Skew \in Nat
      BY <2>3, ReplayAssumption
    <3> QED BY <3>1, <3>2
  <2>6. vs1 = [vs EXCEPT ![r].gone = stamp] /\ RefundTaken(es, es1, vs, r, t)
    BY <1>1, <1>2, <2>2, TakeBackIs
  <2>7. Books(d, es, vs, altered, t) /\ PaymentsBefore(es, t)
    BY <1>1, <2>3, TimePasses
  <2>8. Books(d, es1, vs1, altered, t) /\ PaymentsBefore(es1, t) /\ OwedOf(d, es1, vs1) = owed
    <3>1. Books(d, es1, vs1, altered, t) /\ PaymentsBefore(es1, t)
      BY ONLY <2>3, <2>5, <2>6, <2>7, ReturnTaken
    <3>2. OwesWithout(d, es, vs, es1, vs1, r)
      BY ONLY <2>3, <2>5, <2>6, <2>7, ReturnTaken
    <3> QED BY <2>2, <3>1, <3>2 DEF OwesWithout
  <2>9. owed \in Nat
    <3>1. d \in Nat /\ es1 \in Seq(EntryRows) /\ vs1 \in Seq(VisitRows) /\ OwedOf(d, es1, vs1) >= 0
      BY <2>8 DEF Books, RowsTyped
    <3>2. OwedOf(d, es1, vs1) \in Int
      BY <3>1, OwedTyped
    <3> QED BY <2>8, <3>1, <3>2
  <2>10. due \in Nat
    BY ReplayAssumption
  <2>11. PICK cash \in Nat : cash = IF due > owed THEN due - owed ELSE 0
    BY <2>9, <2>10
  <2>12. w = Append(vs1, NewVisit(due, cash, owed, t)) /\ RefundWritten(es1, u, Len(vs1) + 1, cash, t)
    BY <1>2, <2>4, <2>9, <2>10, <2>11, RecordedIs
  <2>13. Books(d, u, w, altered, t)
    BY ONLY <2>8, <2>10, <2>11, <2>12, ReturnAdded
  <2> QED BY <2>4, <2>13
<1>11. ASSUME NEW n \in OrderDeposits, EditOrderLines(n) PROVE Books(total, u, w, more, t)
  <2>1. n \in Nat
    BY ReplayAssumption
  <2>2. /\ t \in Nat /\ s < t /\ StandingOf(vs) = {} /\ PaysOf(es) = {}
        /\ total = n /\ more = altered \cup {t} /\ u = es /\ w = vs
    BY <1>1, <1>2, <1>4, <1>5, <1>11 DEF EditOrderLines
  <2> QED BY <1>1, <2>1, <2>2, LinesEdited
<1>12. CASE UNCHANGED replayVars
  <2>1. total = d /\ more = altered /\ u = es /\ w = vs /\ t = s
    BY <1>1, <1>2, <1>12 DEF replayVars
  <2> QED BY <1>1, <2>1
<1> QED BY <1>6, <1>7, <1>8, <1>9, <1>10, <1>11, <1>12 DEF ReplayNext

LEMMA ReplayInvHolds == ReplaySpec => []ReplayInv
BY ReplayInitially, ReplayStep, PTL DEF ReplaySpec

LEMMA ReplayAsBooked ==
  ASSUME NEW d, d = depositTotal, NEW es, es = entries, NEW vs, vs = visits, NEW altered, altered = lineEdits,
         NEW s, Books(d, es, vs, altered, s), NEW p \in DOMAIN es, es[p].type = "PAYMENT", Trusted(p)
  PROVE  Replayed(p) = es[p].owedBefore
<1>1. StoodAt(es[p].at) = StoodOf(vs, es[p].at)
  BY DEF StoodAt, StoodOf, NotGone
<1>2. /\ PaidIn(1 .. p - 1) = PaidOver(es, 1 .. p - 1)
      /\ DueIn(StoodAt(es[p].at)) = DuesOver(vs, StoodOf(vs, es[p].at))
  <2>1. PICK ids, rets : ids = 1 .. p - 1 /\ rets = StoodAt(es[p].at)
    OBVIOUS
  <2>2. PaidIn(ids) = PaidOver(es, ids) /\ DueIn(rets) = DuesOver(vs, rets)
    BY SumsOfRows
  <2> QED BY <1>1, <2>1, <2>2
<1>3. Replayed(p) = ReplayedAs(d, es, vs, p)
  BY <1>2 DEF Replayed, ReplayedAs
<1>4. ToldApart(vs, es[p].at)
  BY DEF Trusted, NoCloseCall, ToldApart, NotGone
<1>5. ~(Reverses(es, p) /\ \E e \in altered : e > es[p].at)
  BY DEF Trusted, DepositMayHaveChanged, ReversedBy, Reverses
<1>6. ReplaysAt(d, es, vs, altered, p)
  BY DEF Books
<1> QED BY <1>3, <1>4, <1>5, <1>6 DEF ReplaysAt

LEMMA PaymentPaperTrue ==
  ASSUME NEW d, d = depositTotal, NEW es, es = entries, NEW vs, vs = visits, NEW altered, altered = lineEdits,
         NEW s, Books(d, es, vs, altered, s), NEW n \in DOMAIN es, es[n].type = "PAYMENT",
         NEW paper, paper = MoneyPaper(n), "before" \in FiguresShown(paper)
  PROVE  paper.before = es[n].owedBefore /\ paper.after >= 0
<1>1. PICK before : before = IF Trusted(n) THEN Replayed(n) ELSE Unknown
  OBVIOUS
<1>2. paper = [before |-> before, credit |-> Unknown, amount |-> es[n].amount,
               after  |-> IF before = Unknown THEN Unknown ELSE before - es[n].amount]
  BY <1>1 DEF MoneyPaper
<1>3. before # Unknown /\ paper.before = before /\ paper.after = before - es[n].amount
  <2>1. paper["before"] # Unknown
    BY DEF FiguresShown
  <2> QED BY <1>2, <2>1
<1>4. Trusted(n) /\ before = Replayed(n)
  BY <1>1, <1>3
<1>5. before = es[n].owedBefore
  BY <1>4, ReplayAsBooked
<1>6. before >= es[n].amount
  BY <1>4 DEF Trusted
<1>7. es[n].owedBefore \in Int /\ es[n].amount \in Int
  <2>1. es \in Seq(EntryRows)
    BY DEF Books, RowsTyped
  <2> QED BY <2>1, SeqRows, RowTimes
<1> QED BY <1>3, <1>5, <1>6, <1>7

LEMMA RefundPaperTrue ==
  ASSUME NEW d, NEW es, es = entries, NEW vs, vs = visits, NEW altered,
         NEW s, Books(d, es, vs, altered, s), NEW n \in DOMAIN es, es[n].type = "REFUND",
         NEW paper, paper = MoneyPaper(n)
  PROVE  /\ FiguresShown(paper) = DOMAIN paper
         /\ paper.after = paper.before - paper.credit + paper.amount
<1>1. PICK r : r = es[n].of
  OBVIOUS
<1>2. /\ es \in Seq(EntryRows) /\ vs \in Seq(VisitRows) /\ r \in DOMAIN vs
      /\ es[n].amount = vs[r].cash /\ Balanced(vs[r])
  BY <1>1 DEF Books, RowsTyped, Linked
<1>3. PICK owed \in Nat, due \in Nat, cash \in Nat :
         owed = vs[r].owedBefore /\ due = vs[r].due /\ cash = vs[r].cash
  BY <1>2, SeqRows, RowTimes
<1>4. cash > 0
  BY <1>2, <1>3, SeqRows, RowTimes
<1>5. owed - due + cash = 0
  BY <1>2, <1>3, <1>4 DEF Balanced
<1>6. paper = [before |-> owed, credit |-> due, amount |-> cash, after |-> 0]
  BY <1>1, <1>2, <1>3 DEF MoneyPaper
<1>7. owed # Unknown /\ due # Unknown /\ cash # Unknown /\ 0 # Unknown
  BY <1>3 DEF Unknown
<1>8. \A figure \in DOMAIN paper : paper[figure] # Unknown
  BY <1>6, <1>7
<1>9. FiguresShown(paper) = DOMAIN paper
  BY <1>8 DEF FiguresShown
<1>10. paper.after = 0 /\ paper.before = owed /\ paper.credit = due /\ paper.amount = cash
  BY <1>6
<1> QED BY <1>5, <1>9, <1>10

LEMMA BooksSayWhatWasOwed == ASSUME ReplayInv PROVE ReceiptsSayWhatWasOwed
<1>1. PICK d, es, vs, altered, s :
         /\ d = depositTotal /\ es = entries /\ vs = visits /\ altered = lineEdits /\ s = seconds
         /\ Books(d, es, vs, altered, s)
  BY DEF ReplayInv
<1>2. ASSUME NEW n \in DOMAIN es, NEW paper, paper = MoneyPaper(n)
      PROVE  /\ es[n].type = "PAYMENT" /\ "before" \in FiguresShown(paper) =>
                    paper.before = es[n].owedBefore /\ paper.after >= 0
             /\ es[n].type = "REFUND" =>
                    /\ FiguresShown(paper) = DOMAIN paper
                    /\ paper.after = paper.before - paper.credit + paper.amount
  <2>1. ASSUME es[n].type = "PAYMENT", "before" \in FiguresShown(paper)
        PROVE  paper.before = es[n].owedBefore /\ paper.after >= 0
    BY <1>1, <1>2, <2>1, PaymentPaperTrue
  <2>2. ASSUME es[n].type = "REFUND"
        PROVE  /\ FiguresShown(paper) = DOMAIN paper
               /\ paper.after = paper.before - paper.credit + paper.amount
    BY <1>1, <1>2, <2>2, RefundPaperTrue
  <2> QED BY <2>1, <2>2
<1>3. ASSUME NEW r \in DOMAIN vs
      PROVE  OwedAfter(r) >= 0 /\ (vs[r].cash > 0 => OwedAfter(r) = 0)
  BY <1>1 DEF Books, Balanced, OwedAfter
<1> QED BY <1>1, <1>2, <1>3 DEF ReceiptsSayWhatWasOwed

(* A receipt reprinted long after never shows a balance that was not the    *)
(* order's: for any amounts, pauses and orders of the handlers, any number  *)
(* of rows, and clocks that differ by less than the close-call allowance,   *)
(* what owed-before-replay.ts trusts of an old payment is what it found, a  *)
(* refund's paper adds up by its own figures, and none leaves less than 0.  *)
THEOREM ReceiptsAreTrue == ReplaySpec => []ReceiptsSayWhatWasOwed
BY ReplayInvHolds, BooksSayWhatWasOwed, PTL
-----------------------------------------------------------------------------
MoveRows == [item : Goods, quantity : Int \ {0}, reason : Reasons, batch : Nat]

LEMMA MovesAre ==
  ASSUME NEW s \in Seq(MoveRows)
  PROVE  /\ Len(s) \in Nat /\ DOMAIN s = 1 .. Len(s) /\ IsFiniteSet(DOMAIN s)
         /\ Cardinality(DOMAIN s) = Len(s)
         /\ \A k \in DOMAIN s : /\ k \in Nat /\ k <= Len(s) /\ s[k] \in MoveRows
                                /\ s[k].item \in Goods /\ s[k].reason \in Reasons
                                /\ s[k].quantity \in Int /\ s[k].quantity # 0
<1>1. Len(s) \in Nat /\ DOMAIN s = 1 .. Len(s) /\ \A k \in DOMAIN s : s[k] \in MoveRows
  OBVIOUS
<1>2. \A m \in MoveRows : m.item \in Goods /\ m.reason \in Reasons /\ m.quantity \in Int /\ m.quantity # 0
  BY DEF MoveRows
<1>3. PICK n \in Nat : n = Len(s)
  BY <1>1
<1>4. IsFiniteSet(1 .. n) /\ Cardinality(1 .. n) = n
  BY FS_Interval
<1> QED BY <1>1, <1>2, <1>3, <1>4

(* Before is a strict order in which any two rows stand. *)
LEMMA BeforeOrders ==
  ASSUME NEW s \in Seq(MoveRows)
  PROVE  /\ \A j, k, l \in DOMAIN s : Before(s, j, k) /\ Before(s, k, l) => Before(s, j, l)
         /\ \A k \in DOMAIN s : ~Before(s, k, k)
         /\ \A j, k \in DOMAIN s : j = k \/ Before(s, j, k) \/ Before(s, k, j)
<1>1. \A k \in DOMAIN s : k \in Nat /\ s[k].quantity \in Int /\ s[k].quantity # 0
  BY MovesAre
<1>2. ASSUME NEW j \in DOMAIN s, NEW k \in DOMAIN s
      PROVE  Before(s, j, k) <=> \/ s[j].quantity > 0 /\ s[k].quantity < 0
                                 \/ j < k /\ ~(s[k].quantity > 0 /\ s[j].quantity < 0)
  BY DEF Before, GoesFirst
<1>3. ASSUME NEW j \in DOMAIN s, NEW k \in DOMAIN s, NEW l \in DOMAIN s, Before(s, j, k), Before(s, k, l)
      PROVE  Before(s, j, l)
  BY <1>1, <1>2, <1>3
<1>4. \A k \in DOMAIN s : ~Before(s, k, k)
  BY <1>1, <1>2
<1>5. ASSUME NEW j \in DOMAIN s, NEW k \in DOMAIN s PROVE j = k \/ Before(s, j, k) \/ Before(s, k, j)
  BY <1>1, <1>2
<1> QED BY <1>3, <1>4, <1>5

(* So a row's place is its own, and it grows along the order.               *)
LEMMA PlacesIncrease ==
  ASSUME NEW s \in Seq(MoveRows), NEW j \in DOMAIN s, NEW k \in DOMAIN s
  PROVE  /\ Place(s, k) \in 1 .. Len(s)
         /\ Before(s, j, k) => Place(s, j) < Place(s, k)
<1> DEFINE Ahead(n) == {m \in DOMAIN s : Before(s, m, n)}
<1>1. IsFiniteSet(DOMAIN s) /\ Cardinality(DOMAIN s) = Len(s)
  BY MovesAre
<1>2. ASSUME NEW n \in DOMAIN s
      PROVE  IsFiniteSet(Ahead(n)) /\ Cardinality(Ahead(n)) \in Nat /\ n \notin Ahead(n)
  BY <1>1, FS_Subset, FS_CardinalityType, BeforeOrders
<1>3. PICK first, next : first = Ahead(j) /\ next = Ahead(k)
  OBVIOUS
<1>4. PICK m \in Nat, n \in Nat, all \in Nat :
         m = Cardinality(first) /\ n = Cardinality(next) /\ all = Len(s)
  <2>1. Cardinality(first) \in Nat /\ Cardinality(next) \in Nat
    BY <1>2, <1>3
  <2>2. Len(s) \in Nat
    OBVIOUS
  <2> QED BY <2>1, <2>2
<1>5. Place(s, j) = 1 + m /\ Place(s, k) = 1 + n
  BY <1>3, <1>4 DEF Place
<1>6. n < all
  <2>1. next \in SUBSET DOMAIN s /\ next # DOMAIN s
    BY <1>2, <1>3
  <2>2. Cardinality(next) <= Cardinality(DOMAIN s) /\ Cardinality(DOMAIN s) # Cardinality(next)
    BY <1>1, <2>1, FS_Subset
  <2> QED BY <1>1, <1>4, <2>2
<1>7. Before(s, j, k) => m < n
  <2> SUFFICES ASSUME Before(s, j, k) PROVE m < n
    OBVIOUS
  <2>1. first \in SUBSET next /\ first # next
    BY <1>2, <1>3, BeforeOrders
  <2>2. Cardinality(first) <= Cardinality(next) /\ Cardinality(next) # Cardinality(first)
    BY <1>2, <1>3, <2>1, FS_Subset
  <2> QED BY <1>4, <2>2
<1>8. 1 + n \in 1 .. all /\ (m < n => 1 + m < 1 + n)
  BY <1>6
<1> QED BY <1>4, <1>5, <1>7, <1>8

(* Where the rows given go in what is written: additions first, none twice. *)
Lands(s, r, b) ==
    /\ r \in Seq(MoveRows) /\ DOMAIN r = DOMAIN s
    /\ b \in [DOMAIN s -> DOMAIN s]
    /\ \A k \in DOMAIN s : r[b[k]] = s[k]
    /\ \A n \in DOMAIN s : \E k \in DOMAIN s : b[k] = n
    /\ \A j, k \in DOMAIN s : b[j] = b[k] => j = k
    /\ \A j, k \in DOMAIN s : s[j].quantity > 0 /\ s[k].quantity < 0 => b[j] < b[k]

LEMMA OrderedLands ==
  ASSUME NEW s \in Seq(MoveRows)
  PROVE  \E b : Lands(s, Ordered(s), b)
<1>1. Len(s) \in Nat /\ DOMAIN s = 1 .. Len(s) /\ IsFiniteSet(DOMAIN s)
  BY MovesAre
<1>2. PICK b : b = [k \in DOMAIN s |-> Place(s, k)]
  OBVIOUS
<1>3. b \in [DOMAIN s -> DOMAIN s]
  BY <1>1, <1>2, PlacesIncrease
<1>4. ASSUME NEW j \in DOMAIN s, NEW k \in DOMAIN s, Before(s, j, k) PROVE b[j] < b[k]
  BY <1>2, <1>4, PlacesIncrease
<1>5. ASSUME NEW j \in DOMAIN s, NEW k \in DOMAIN s, b[j] = b[k] PROVE j = k
  <2>1. b[j] \in Nat /\ b[k] \in Nat
    BY <1>1, <1>3
  <2>2. ~Before(s, j, k) /\ ~Before(s, k, j)
    BY <1>4, <1>5, <2>1
  <2> QED BY <2>2, BeforeOrders
<1>6. \A n \in DOMAIN s : \E k \in DOMAIN s : b[k] = n
  <2>1. b \in Injection(DOMAIN s, DOMAIN s)
    BY <1>3, <1>5 DEF Injection, IsInjective
  <2>2. b \in Surjection(DOMAIN s, DOMAIN s)
    BY <1>1, <2>1, FS_Injection
  <2> QED BY <2>2 DEF Surjection
<1>7. PICK r : r = Ordered(s)
  OBVIOUS
<1>8. ASSUME NEW n \in DOMAIN s PROVE \E k \in DOMAIN s : b[k] = n /\ r[n] = s[k]
  <2>1. PICK k \in DOMAIN s : b[k] = n
    BY <1>6
  <2>2. \A l \in DOMAIN s : Place(s, l) = n <=> l = k
    BY <1>2, <1>5, <2>1
  <2>3. (CHOOSE l \in DOMAIN s : Place(s, l) = n) = k
    BY <2>2
  <2>4. r[n] = s[CHOOSE l \in DOMAIN s : Place(s, l) = n]
    BY <1>7 DEF Ordered
  <2> QED BY <2>1, <2>3, <2>4
<1>9. \A k \in DOMAIN s : r[b[k]] = s[k]
  BY <1>3, <1>5, <1>8
<1>10. r \in Seq(MoveRows) /\ DOMAIN r = DOMAIN s
  <2>1. DOMAIN r = 1 .. Len(s)
    BY <1>1, <1>7 DEF Ordered
  <2>2. \A n \in 1 .. Len(s) : r[n] \in MoveRows
    BY <1>1, <1>8, MovesAre
  <2>3. r = [n \in 1 .. Len(s) |-> r[n]]
    BY <1>1, <1>7 DEF Ordered
  <2>4. r \in [1 .. Len(s) -> MoveRows]
    BY <2>2, <2>3
  <2> QED BY <1>1, <2>1, <2>4
<1>11. \A j, k \in DOMAIN s : s[j].quantity > 0 /\ s[k].quantity < 0 => b[j] < b[k]
  BY <1>4 DEF Before, GoesFirst
<1>12. Lands(s, r, b)
  BY <1>3, <1>5, <1>6, <1>9, <1>10, <1>11 DEF Lands
<1> QED BY <1>7, <1>12

Added(ms, s, u, c) ==
    /\ u \in Seq(MoveRows) /\ DOMAIN ms \subseteq DOMAIN u /\ \A k \in DOMAIN ms : u[k] = ms[k]
    /\ \A k \in DOMAIN s : c[k] \in DOMAIN u /\ c[k] \notin DOMAIN ms /\ u[c[k]] = s[k]
    /\ \A n \in DOMAIN u : n \in DOMAIN ms \/ \E k \in DOMAIN s : c[k] = n
    /\ \A j, k \in DOMAIN s : c[j] = c[k] => j = k
    /\ \A j, k \in DOMAIN s : s[j].quantity > 0 /\ s[k].quantity < 0 => c[j] < c[k]
    /\ \A m \in DOMAIN ms : \A k \in DOMAIN s : m < c[k]

LEMMA RowsWritten ==
  ASSUME NEW ms \in Seq(MoveRows), NEW s \in Seq(MoveRows), NEW u, u = ms \o Ordered(s)
  PROVE  \E c : Added(ms, s, u, c)
<1>1. PICK r, b : r = Ordered(s) /\ Lands(s, r, b)
  BY OrderedLands
<1>2. PICK l \in Nat, n \in Nat : l = Len(ms) /\ n = Len(s)
  BY MovesAre
<1>3. DOMAIN ms = 1 .. l /\ DOMAIN s = 1 .. n
  BY <1>2, MovesAre
<1>4. r \in Seq(MoveRows) /\ DOMAIN r = 1 .. n /\ Len(r) = n
  <2>1. r \in Seq(MoveRows) /\ DOMAIN r = 1 .. n
    BY <1>1, <1>3 DEF Lands
  <2>2. Len(r) \in Nat /\ DOMAIN r = 1 .. Len(r)
    BY <2>1
  <2>3. Len(r) = n
    BY <2>1, <2>2
  <2> QED BY <2>1, <2>3
<1>5. /\ u \in Seq(MoveRows) /\ Len(u) = l + n
      /\ \A k \in 1 .. l : u[k] = ms[k]
      /\ \A k \in 1 .. n : u[l + k] = r[k]
  <2>1. u = ms \o r
    BY <1>1
  <2>2. /\ u \in Seq(MoveRows) /\ Len(u) = Len(ms) + Len(r)
        /\ \A k \in 1 .. Len(ms) + Len(r) :
              u[k] = IF k <= Len(ms) THEN ms[k] ELSE r[k - Len(ms)]
    BY <1>4, <2>1, ConcatProperties
  <2>3. \A k \in 1 .. l + n : u[k] = IF k <= l THEN ms[k] ELSE r[k - l]
    BY <1>2, <1>4, <2>2
  <2>4. \A k \in 1 .. l : u[k] = ms[k]
    BY <1>2, <2>3
  <2>5. ASSUME NEW k \in 1 .. n PROVE u[l + k] = r[k]
    <3>1. l + k \in 1 .. l + n /\ ~(l + k <= l) /\ (l + k) - l = k
      BY <1>2
    <3> QED BY <2>3, <3>1
  <2> QED BY <1>2, <1>4, <2>2, <2>4, <2>5
<1>6. DOMAIN u = 1 .. (l + n)
  BY <1>5
<1>7. \A k \in 1 .. n : b[k] \in 1 .. n /\ r[b[k]] = s[k]
  BY <1>1, <1>3 DEF Lands
<1>8. PICK c : c = [k \in DOMAIN s |-> l + b[k]]
  OBVIOUS
<1>9. ASSUME NEW k \in DOMAIN s PROVE c[k] \in DOMAIN u /\ c[k] \notin DOMAIN ms /\ u[c[k]] = s[k]
  <2>1. PICK x \in 1 .. n : x = b[k]
    BY <1>3, <1>7
  <2>2. c[k] = l + x /\ r[x] = s[k]
    BY <1>3, <1>7, <1>8, <2>1
  <2>3. l + x \in 1 .. (l + n) /\ l + x \notin 1 .. l
    BY <1>2, <2>1
  <2> QED BY <1>3, <1>5, <1>6, <2>1, <2>2, <2>3
<1>10. ASSUME NEW m \in DOMAIN u PROVE m \in DOMAIN ms \/ \E k \in DOMAIN s : c[k] = m
  <2>1. m \in 1 .. l \/ m - l \in 1 .. n
    BY <1>2, <1>6
  <2>2. CASE m - l \in 1 .. n
    <3>1. PICK k \in DOMAIN s : b[k] = m - l
      BY <1>1, <1>3, <2>2 DEF Lands
    <3>2. c[k] = m
      <4>1. m \in Int /\ c[k] = l + (m - l)
        BY <1>6, <1>8, <3>1
      <4> QED BY <1>2, <4>1
    <3> QED BY <3>2
  <2> QED BY <1>3, <2>1, <2>2
<1>11. ASSUME NEW j \in DOMAIN s, NEW k \in DOMAIN s
       PROVE  (c[j] = c[k] => j = k) /\ (s[j].quantity > 0 /\ s[k].quantity < 0 => c[j] < c[k])
  <2>1. PICK x \in Nat, y \in Nat : x = b[j] /\ y = b[k]
    BY <1>3, <1>7
  <2>2. c[j] = l + x /\ c[k] = l + y
    BY <1>8, <2>1
  <2>3. (x = y => j = k) /\ (s[j].quantity > 0 /\ s[k].quantity < 0 => x < y)
    BY <1>1, <2>1 DEF Lands
  <2> QED BY <1>2, <2>1, <2>2, <2>3
<1>12. ASSUME NEW m \in DOMAIN ms, NEW k \in DOMAIN s PROVE m < c[k]
  <2>1. c[k] \in 1 .. (l + n) /\ c[k] \notin 1 .. l /\ m \in 1 .. l
    BY <1>3, <1>6, <1>9
  <2> QED BY <1>2, <2>1
<1>13. DOMAIN ms \subseteq DOMAIN u
  BY <1>2, <1>3, <1>6
<1>14. Added(ms, s, u, c)
  BY <1>3, <1>5, <1>9, <1>10, <1>11, <1>12, <1>13 DEF Added
<1> QED BY <1>14

(* What a set of rows adds up to is a sum over it.                          *)
LEMMA QuantitiesAre ==
  ASSUME NEW s \in Seq(MoveRows)
  PROVE  /\ \A ids : SumOf(ids, s) = SumOver(ids, Quantities(s))
         /\ \A k \in DOMAIN s : Quantities(s)[k] \in Int /\ Quantities(s)[k] = s[k].quantity
         /\ \A ids \in SUBSET DOMAIN s : IsFiniteSet(ids) /\ SumOf(ids, s) \in Int
<1>1. \A ids : SumOf(ids, s) = SumOver(ids, Quantities(s))
  BY DEF SumOf, SumOver
<1>2. \A k \in DOMAIN s : Quantities(s)[k] \in Int /\ Quantities(s)[k] = s[k].quantity
  BY MovesAre DEF Quantities
<1>3. ASSUME NEW ids \in SUBSET DOMAIN s PROVE IsFiniteSet(ids) /\ SumOf(ids, s) \in Int
  <2>1. IsFiniteSet(ids)
    BY MovesAre, FS_Subset
  <2>2. PICK f : f = Quantities(s)
    OBVIOUS
  <2>3. \A k \in ids : f[k] \in Int
    BY <1>2, <2>2
  <2>4. SumOver(ids, f) \in Int
    BY <2>1, <2>3, SumIsInt
  <2> QED BY <1>1, <2>1, <2>2, <2>4
<1> QED BY <1>1, <1>2, <1>3

(* Of any of the rows there were and any of those given, what they add up to.*)
LEMMA PartsAdded ==
  ASSUME NEW ms \in Seq(MoveRows), NEW s \in Seq(MoveRows), NEW u, NEW c, Added(ms, s, u, c),
         NEW S \in SUBSET DOMAIN ms, NEW T \in SUBSET DOMAIN s
  PROVE  SumOf(S \cup {c[k] : k \in T}, u) = SumOf(S, ms) + SumOf(T, s)
<1>1. PICK f, g, h : f = Quantities(ms) /\ g = Quantities(u) /\ h = Quantities(s)
  OBVIOUS
<1>2. PICK I, U : I = {c[k] : k \in T} /\ U = S \cup I
  OBVIOUS
<1>3. u \in Seq(MoveRows) /\ U \in SUBSET DOMAIN u /\ S \in SUBSET U /\ U \ S = I
  BY <1>2 DEF Added
<1>4. IsFiniteSet(U) /\ IsFiniteSet(S) /\ IsFiniteSet(T)
  BY <1>3, QuantitiesAre
<1>5. (\A x \in U : g[x] \in Int) /\ (\A x \in T : h[x] \in Int)
  BY <1>1, <1>3, QuantitiesAre
<1>6. SumOver(U, g) = SumOver(S, g) + SumOver(I, g)
  <2>1. SumOver(U, g) = SumOver(S, g) + SumOver(U \ S, g)
    BY ONLY <1>3, <1>4, <1>5, SumSplits
  <2> QED BY <1>3, <2>1
<1>7. SumOver(S, g) = SumOver(S, f)
  <2>1. \A x \in S : g[x] = f[x]
    BY <1>1 DEF Quantities, Added
  <2> QED BY ONLY <1>4, <2>1, SumAgrees
<1>8. SumOver(I, g) = SumOver(T, h)
  <2>1. \A x \in T : h[x] \in Int /\ g[c[x]] = h[x]
    BY <1>1, <1>5 DEF Quantities, Added
  <2>2. \A x, y \in T : c[x] = c[y] => x = y
    BY DEF Added
  <2>3. SumOver({c[x] : x \in T}, g) = SumOver(T, h)
    BY ONLY <1>4, <2>1, <2>2, SumRenamed
  <2> QED BY <1>2, <2>3
<1>9. SumOf(U, u) = SumOver(U, g) /\ SumOf(S, ms) = SumOver(S, f) /\ SumOf(T, s) = SumOver(T, h)
  BY <1>1, <1>3, QuantitiesAre
<1> QED BY <1>2, <1>6, <1>7, <1>8, <1>9

BatchRows(b, s)   == {k \in DOMAIN s : s[k].batch = b}
RowsUpTo(i, n, s) == {k \in MovesOf(i, s) : k <= n}
NeverShort(s)     == \A i \in Goods : \A n \in DOMAIN s : SumOf(RowsUpTo(i, n, s), s) >= 0

RowsAdd(ms, s, u, i, b) ==
    /\ Net(i, u) = Net(i, ms) + Net(i, s)
    /\ SumOf(BatchRows(b, u), u) = SumOf(BatchRows(b, ms), ms) + SumOf(BatchRows(b, s), s)
LEMMA NetsAdded ==
  ASSUME NEW ms \in Seq(MoveRows), NEW s \in Seq(MoveRows), NEW u, NEW c, Added(ms, s, u, c), NEW i, NEW b
  PROVE  RowsAdd(ms, s, u, i, b)
<1>1. Net(i, u) = Net(i, ms) + Net(i, s)
  <2>1. PICK S \in SUBSET DOMAIN ms, T \in SUBSET DOMAIN s : S = MovesOf(i, ms) /\ T = MovesOf(i, s)
    BY DEF MovesOf
  <2>2. MovesOf(i, u) = S \cup {c[k] : k \in T}
    BY <2>1, SMTT(30) DEF MovesOf, Added
  <2>3. SumOf(S \cup {c[k] : k \in T}, u) = SumOf(S, ms) + SumOf(T, s)
    BY PartsAdded
  <2> QED BY <2>1, <2>2, <2>3 DEF Net
<1>2. SumOf(BatchRows(b, u), u) = SumOf(BatchRows(b, ms), ms) + SumOf(BatchRows(b, s), s)
  <2>1. PICK S \in SUBSET DOMAIN ms, T \in SUBSET DOMAIN s : S = BatchRows(b, ms) /\ T = BatchRows(b, s)
    BY DEF BatchRows
  <2>2. BatchRows(b, u) = S \cup {c[k] : k \in T}
    BY <2>1, SMTT(30) DEF BatchRows, Added
  <2>3. SumOf(S \cup {c[k] : k \in T}, u) = SumOf(S, ms) + SumOf(T, s)
    BY PartsAdded
  <2> QED BY <2>1, <2>2, <2>3
<1> QED BY <1>1, <1>2 DEF RowsAdd

LEMMA SumOfAdditions ==
  ASSUME NEW s \in Seq(MoveRows), NEW T \in SUBSET DOMAIN s, \A k \in T : ~(s[k].quantity < 0)
  PROVE  SumOf(T, s) >= 0
<1>1. PICK h : h = Quantities(s)
  OBVIOUS
<1>2. IsFiniteSet(T) /\ SumOf(T, s) = SumOver(T, h) /\ \A k \in T : h[k] \in Nat
  BY <1>1, QuantitiesAre
<1>3. SumOver(T, h) \in Nat
  BY ONLY <1>2, SumIsNat
<1> QED BY <1>2, <1>3

(* Taking removals out of some rows makes them more. *)
LEMMA SumWithoutRemovals ==
  ASSUME NEW s \in Seq(MoveRows), NEW T \in SUBSET DOMAIN s, NEW P \in SUBSET T,
         \A k \in T \ P : ~(s[k].quantity > 0)
  PROVE  SumOf(P, s) >= SumOf(T, s)
<1>1. PICK h, z : h = Quantities(s) /\ z = [k \in T |-> 0]
  OBVIOUS
<1>2. IsFiniteSet(T) /\ IsFiniteSet(T \ P) /\ \A k \in T : h[k] \in Int
  BY <1>1, QuantitiesAre, FS_Subset
<1>3. SumOf(T, s) = SumOver(T, h) /\ SumOf(P, s) = SumOver(P, h)
  BY <1>1, QuantitiesAre
<1>4. SumOver(T, h) = SumOver(P, h) + SumOver(T \ P, h)
  BY ONLY <1>2, SumSplits, P \in SUBSET T
<1>5. SumOver(T \ P, h) <= 0
  <2>1. \A k \in T \ P : h[k] \in Int /\ z[k] \in Int /\ h[k] <= z[k]
    BY <1>1, <1>2, QuantitiesAre
  <2>2. SumOver(T \ P, h) <= SumOver(T \ P, z)
    BY ONLY <1>2, <2>1, SumAtMost
  <2>3. \A k \in T \ P : z[k] = 0
    BY <1>1
  <2>4. SumOver(T \ P, z) = 0
    BY ONLY <1>2, <2>3, SumOfZeros
  <2> QED BY <2>2, <2>4
<1>6. SumOver(P, h) \in Int /\ SumOver(T \ P, h) \in Int
  <2>1. IsFiniteSet(P) /\ (\A k \in P : h[k] \in Int) /\ (\A k \in T \ P : h[k] \in Int)
    BY <1>2, FS_Subset
  <2> QED BY ONLY <1>2, <2>1, SumIsInt
<1>7. PICK x \in Int, y \in Int : x = SumOver(P, h) /\ y = SumOver(T \ P, h)
  BY <1>6
<1> QED BY <1>3, <1>4, <1>5, <1>7

(* With additions first, no row leaves less than nothing if the rows given *)
(* leave no less in all.                                                    *)
LEMMA StaysCovered ==
  ASSUME NEW ms \in Seq(MoveRows), NEW s \in Seq(MoveRows), NEW u, NEW c, Added(ms, s, u, c),
         NeverShort(ms), \A i \in Goods : Net(i, ms) >= 0 /\ Net(i, ms) + Net(i, s) >= 0
  PROVE  NeverShort(u)
<1> SUFFICES ASSUME NEW i \in Goods, NEW n \in DOMAIN u PROVE SumOf(RowsUpTo(i, n, u), u) >= 0
  BY DEF NeverShort
<1>1. \A k \in DOMAIN u : k \in Nat
  BY MovesAre DEF Added
<1>2. CASE n \in DOMAIN ms
  <2>1. PICK S \in SUBSET DOMAIN ms : S = RowsUpTo(i, n, ms)
    BY DEF RowsUpTo, MovesOf
  <2>2. RowsUpTo(i, n, u) = S
    <3>1. \A k \in DOMAIN s : ~(c[k] <= n)
      BY <1>1, <1>2 DEF Added
    <3> QED BY <2>1, <3>1 DEF RowsUpTo, MovesOf, Added
  <2>3. PICK T \in SUBSET DOMAIN s : T = {}
    OBVIOUS
  <2>4. SumOf(S \cup {c[k] : k \in T}, u) = SumOf(S, ms) + SumOf(T, s)
    BY PartsAdded
  <2>5. S \cup {c[k] : k \in T} = S /\ SumOf(T, s) = 0
    BY <2>3, QuantitiesAre, SumOfNone
  <2>6. SumOf(S, ms) >= 0 /\ SumOf(S, ms) \in Int
    BY <1>2, <2>1, QuantitiesAre DEF NeverShort
  <2>7. PICK x \in Int : x = SumOf(S, ms)
    BY <2>6
  <2>8. SumOf(S, u) = x + 0 /\ x >= 0
    BY <2>4, <2>5, <2>6, <2>7
  <2> QED BY <2>2, <2>7, <2>8
<1>3. CASE n \notin DOMAIN ms
  <2>1. PICK last \in DOMAIN s : c[last] = n
    BY <1>3 DEF Added
  <2>2. PICK S \in SUBSET DOMAIN ms, T \in SUBSET DOMAIN s : S = MovesOf(i, ms) /\ T = MovesOf(i, s)
    BY DEF MovesOf
  <2>3. PICK P : P = {k \in T : c[k] <= n}
    OBVIOUS
  <2>4. RowsUpTo(i, n, u) = S \cup {c[k] : k \in P}
    <3>1. \A k \in DOMAIN ms : k < n /\ k \in Nat /\ k \in DOMAIN u /\ u[k] = ms[k]
      BY <1>1, <2>1 DEF Added
    <3>2. \A k \in DOMAIN s : c[k] \in DOMAIN u /\ u[c[k]] = s[k]
      BY DEF Added
    <3>3. \A x \in DOMAIN u : x \in DOMAIN ms \/ \E k \in DOMAIN s : c[k] = x
      BY DEF Added
    <3>4. n \in Nat /\ \A k \in DOMAIN ms : k <= n
      BY <1>1, <3>1
    <3>5. MovesOf(i, u) = S \cup {c[k] : k \in T}
      BY <2>2, <3>1, <3>2, <3>3 DEF MovesOf
    <3>6. {x \in S \cup {c[k] : k \in T} : x <= n} = S \cup {c[k] : k \in P}
      BY <2>3, <3>4
    <3> QED BY <3>5, <3>6 DEF RowsUpTo
  <2>5. P \in SUBSET DOMAIN s /\ P \in SUBSET T
    BY <2>3
  <2>6. SumOf(S \cup {c[k] : k \in P}, u) = SumOf(S, ms) + SumOf(P, s)
    BY <2>5, PartsAdded
  <2>7. SumOf(P, s) >= 0 \/ SumOf(P, s) >= SumOf(T, s)
    <3>1. \A k \in DOMAIN s : c[k] \in Nat /\ s[k].quantity \in Int /\ s[k].quantity # 0
      BY <1>1, MovesAre DEF Added
    <3> DEFINE First(j, k) == s[j].quantity > 0 /\ s[k].quantity < 0
    <3>4. \A j, k \in DOMAIN s : First(j, k) => c[j] < c[k]
      BY DEF Added
    <3>2. CASE s[last].quantity > 0
      <4>1. ASSUME NEW k \in P PROVE ~(s[k].quantity < 0)
        <5>1. First(last, k) => n < c[k]
          BY <2>1, <2>5, <3>4
        <5>2. c[k] <= n /\ n \in Nat /\ c[k] \in Nat
          BY <1>1, <2>3, <2>5, <3>1
        <5>3. ~First(last, k)
          BY <5>1, <5>2
        <5> QED BY <3>2, <5>3
      <4> QED BY <2>5, <4>1, SumOfAdditions
    <3>3. CASE s[last].quantity < 0
      <4>1. ASSUME NEW k \in T \ P PROVE ~(s[k].quantity > 0)
        <5>1. First(k, last) => c[k] < n
          BY <2>1, <3>4
        <5>2. ~(c[k] <= n) /\ n \in Nat /\ c[k] \in Nat
          BY <1>1, <2>3, <3>1
        <5>3. ~First(k, last)
          BY <5>1, <5>2
        <5> QED BY <3>3, <5>3
      <4> QED BY <2>5, <4>1, SumWithoutRemovals
    <3> QED BY <3>1, <3>2, <3>3
  <2>8. SumOf(S, ms) >= 0 /\ SumOf(S, ms) + SumOf(T, s) >= 0
    BY <2>2 DEF Net
  <2>9. PICK x \in Int, y \in Int, z \in Int : x = SumOf(S, ms) /\ y = SumOf(P, s) /\ z = SumOf(T, s)
    BY <2>5, QuantitiesAre
  <2>10. x + y >= 0
    BY <2>7, <2>8, <2>9
  <2> QED BY <2>4, <2>6, <2>9, <2>10
<1> QED BY <1>2, <1>3

-----------------------------------------------------------------------------
(* A finite set of numbers that is not empty has a largest.                 *)
LEMMA LargestOf ==
  ASSUME NEW S, IsFiniteSet(S), S \subseteq Int, S # {}
  PROVE  Max(S) \in S /\ \A n \in S : n <= Max(S)
<1> DEFINE Good == {T \in SUBSET S : T = {} \/ \E m \in T : \A n \in T : m >= n}
<1>1. ASSUME NEW T \in SUBSET S, \A U \in SUBSET S : U \subseteq T /\ U # T => U \in Good
      PROVE  T \in Good
  <2>1. CASE T # {}
    <3>1. PICK x \in T : TRUE
      BY <2>1
    <3>2. T \ {x} \in Good
      BY <1>1, <3>1
    <3>3. CASE T \ {x} = {}
      BY <3>1, <3>3
    <3>4. CASE T \ {x} # {}
      <4>1. PICK m \in T \ {x} : \A n \in T \ {x} : m >= n
        BY <3>2, <3>4
      <4>2. CASE m >= x
        BY <4>1, <4>2
      <4>3. CASE ~(m >= x)
        <5>1. \A n \in T : x >= n
          BY <3>1, <4>1, <4>3
        <5> QED BY <3>1, <5>1
      <4> QED BY <4>2, <4>3
    <3> QED BY <3>3, <3>4
  <2> QED BY <2>1
<1>2. S \in Good
  <2> HIDE DEF Good
  <2> QED BY <1>1, SubsetInduction
<1>3. \E m \in S : \A n \in S : m >= n
  BY <1>2
<1> QED BY <1>3 DEF Max

-----------------------------------------------------------------------------
ItemRows == [state : {"none", "live", "archived"}, onHand : Nat]
BatchTypes ==
    [state : {"none", "live", "deleted"}, item : Goods \cup {"none"}, date : Nat, quantity : Nat]
Known(its, i)  == its[i].state # "none"
Worth(row)     == IF row.state = "live" THEN row.quantity ELSE 0
HeldOf(bs, its) == \A b \in BatchIds : bs[b].state = "live" => bs[b].item \in Goods /\ Known(its, bs[b].item)
Stocked(its, ms) ==
    \A i \in Goods : its[i].onHand = Net(i, ms) /\ (~Known(its, i) => its[i].onHand = 0)
Filled(bs, ms) == \A b \in BatchIds : SumOf(BatchRows(b, ms), ms) = Worth(bs[b])
StockBooks(its, bs, ms) ==
    /\ its \in [Goods -> ItemRows] /\ bs \in [BatchIds -> BatchTypes] /\ ms \in Seq(MoveRows)
    /\ HeldOf(bs, its) /\ Stocked(its, ms) /\ Filled(bs, ms) /\ NeverShort(ms)

(* What a handler may send to the ledger, with its items as they will be.   *)
MayMove(its, made, s) ==
    /\ made \in [Goods -> ItemRows] /\ s \in Seq(MoveRows)
    /\ \A i \in Goods : made[i].onHand = its[i].onHand /\ (Known(its, i) => Known(made, i))
    /\ \A k \in DOMAIN s : Known(made, s[k].item)
    /\ \A i \in Goods : made[i].onHand + Net(i, s) >= 0
Fills(bs, nbs, made, s) ==
    /\ nbs \in [BatchIds -> BatchTypes] /\ HeldOf(nbs, made)
    /\ \A b \in BatchIds : Worth(nbs[b]) = Worth(bs[b]) + SumOf(BatchRows(b, s), s)

Columns(made, s) == [i \in Goods |-> [made[i] EXCEPT !.onHand = @ + Net(i, s)]]
(* The one lemma of all handlers: what they move keeps the books.           *)
LEMMA BooksMoved ==
  ASSUME NEW its, NEW bs, NEW ms, StockBooks(its, bs, ms),
         NEW made, NEW s, MayMove(its, made, s), NEW nbs, Fills(bs, nbs, made, s),
         NEW u, u = ms \o Ordered(s),
         NEW nits, nits = Columns(made, s)
  PROVE  StockBooks(nits, nbs, u)
<1>1. ms \in Seq(MoveRows) /\ s \in Seq(MoveRows) /\ nbs \in [BatchIds -> BatchTypes]
  BY DEF StockBooks, MayMove, Fills
<1>2. PICK c : Added(ms, s, u, c)
  BY <1>1, RowsWritten
<1>3. u \in Seq(MoveRows)
  BY <1>2 DEF Added
<1>0. \A i, b : RowsAdd(ms, s, u, i, b)
  BY <1>1, <1>2, NetsAdded
<1>4. \A i \in Goods : Net(i, u) = Net(i, ms) + Net(i, s)
  BY <1>0 DEF RowsAdd
<1>5. \A b \in BatchIds : SumOf(BatchRows(b, u), u) = SumOf(BatchRows(b, ms), ms) + SumOf(BatchRows(b, s), s)
  BY <1>0 DEF RowsAdd
<1>6. ASSUME NEW i \in Goods
      PROVE  /\ nits[i] \in ItemRows /\ nits[i].state = made[i].state
             /\ nits[i].onHand = Net(i, u) /\ Net(i, ms) >= 0 /\ Net(i, ms) + Net(i, s) >= 0
             /\ ~Known(made, i) => Net(i, u) = 0
  <2>1. made[i] \in ItemRows /\ its[i] \in ItemRows
    BY DEF MayMove, StockBooks
  <2>2. made[i].onHand = its[i].onHand /\ its[i].onHand = Net(i, ms) /\ made[i].onHand + Net(i, s) >= 0
    BY DEF MayMove, StockBooks, Stocked
  <2>3. nits[i].state = made[i].state /\ nits[i].onHand = made[i].onHand + Net(i, s)
        /\ (nits[i].onHand \in Nat => nits[i] \in ItemRows)
    BY <2>1 DEF ItemRows, Columns
  <2>4. Net(i, s) \in Int
    <3>1. MovesOf(i, s) \in SUBSET DOMAIN s
      BY DEF MovesOf
    <3> QED BY <1>1, <3>1, QuantitiesAre DEF Net
  <2>5. made[i].onHand \in Nat
    BY <2>1 DEF ItemRows
  <2>6. ~Known(made, i) => Net(i, s) = 0 /\ its[i].onHand = 0
    <3> SUFFICES ASSUME ~Known(made, i) PROVE Net(i, s) = 0 /\ its[i].onHand = 0
      OBVIOUS
    <3>1. MovesOf(i, s) = {}
      BY DEF MovesOf, MayMove
    <3>2. Net(i, s) = 0
      BY <1>1, <3>1, QuantitiesAre, SumOfNone DEF Net
    <3> QED BY <3>2 DEF MayMove, StockBooks, Stocked
  <2>7. Net(i, u) = made[i].onHand + Net(i, s)
    BY <1>4, <2>2
  <2>8. PICK held \in Nat, more \in Int : held = made[i].onHand /\ more = Net(i, s)
    BY <2>4, <2>5
  <2>9. nits[i].onHand = held + more /\ held + more >= 0 /\ held + more \in Nat /\ Net(i, u) = held + more
        /\ Net(i, ms) = held
    BY <2>2, <2>3, <2>7, <2>8
  <2>10. ~Known(made, i) => Net(i, u) = 0
    BY <2>2, <2>6, <2>8, <2>9
  <2> QED BY <2>3, <2>8, <2>9, <2>10
<1>7. nits \in [Goods -> ItemRows] /\ Stocked(nits, u)
  BY <1>6 DEF Stocked, Known, Columns
<1>8. HeldOf(nbs, nits)
  BY <1>6 DEF Fills, HeldOf, Known
<1>9. Filled(nbs, u)
  BY <1>5 DEF Fills, Filled, StockBooks
<1>10. NeverShort(u)
  BY <1>1, <1>2, <1>6, StaysCovered DEF StockBooks
<1> QED BY <1>1, <1>3, <1>7, <1>8, <1>9, <1>10 DEF StockBooks

LEMMA BatchUntouched ==
  ASSUME NEW s \in Seq(MoveRows), NEW b, \A k \in DOMAIN s : s[k].batch # b
  PROVE  SumOf(BatchRows(b, s), s) = 0
<1>1. BatchRows(b, s) = {}
  BY DEF BatchRows
<1> QED BY <1>1, QuantitiesAre, SumOfNone

LEMMA OneMove ==
  ASSUME NEW m \in MoveRows, NEW s, s = <<m>>
  PROVE  /\ s \in Seq(MoveRows) /\ DOMAIN s = {1} /\ s[1] = m
         /\ SumOf(BatchRows(m.batch, s), s) = m.quantity
<1>1. s \in Seq(MoveRows) /\ DOMAIN s = {1} /\ s[1] = m
  OBVIOUS
<1>2. PICK h : h = Quantities(s)
  OBVIOUS
<1>3. h[1] = m.quantity /\ h[1] \in Int
  BY <1>1, <1>2, QuantitiesAre
<1>4. BatchRows(m.batch, s) = {1}
  BY <1>1 DEF BatchRows
<1>5. SumOf({1}, s) = SumOver({1}, h)
  BY <1>1, <1>2, QuantitiesAre
<1>6. SumOver({1}, h) = h[1]
  BY ONLY <1>3, SumOfOne
<1> QED BY <1>1, <1>3, <1>4, <1>5, <1>6

(* What a handler does to the batches beside what it moves.                 *)
Reaches(its, made) ==
    /\ made \in [Goods -> ItemRows]
    /\ \A i \in Goods : made[i].onHand = its[i].onHand /\ (Known(its, i) => Known(made, i))
LEMMA FillsOne ==
  ASSUME NEW its, NEW bs, NEW ms, StockBooks(its, bs, ms), NEW made, Reaches(its, made),
         NEW b \in BatchIds, NEW row \in BatchTypes, NEW nbs, nbs = [bs EXCEPT ![b] = row],
         row.state = "live" => row.item \in Goods /\ Known(made, row.item),
         NEW m \in MoveRows, m.batch = b, NEW s, s = <<m>>, Worth(row) = Worth(bs[b]) + m.quantity
  PROVE  Fills(bs, nbs, made, s)
<1>1. bs \in [BatchIds -> BatchTypes] /\ nbs \in [BatchIds -> BatchTypes]
      /\ nbs[b] = row /\ \A c \in BatchIds \ {b} : nbs[c] = bs[c]
  BY DEF StockBooks
<1>2. HeldOf(nbs, made)
  BY <1>1 DEF HeldOf, StockBooks, Reaches
<1>3. s \in Seq(MoveRows) /\ DOMAIN s = {1} /\ s[1] = m /\ SumOf(BatchRows(b, s), s) = m.quantity
  BY OneMove
<1>4. ASSUME NEW c \in BatchIds PROVE Worth(nbs[c]) = Worth(bs[c]) + SumOf(BatchRows(c, s), s)
  <2>1. CASE c = b
    BY <1>1, <1>3, <2>1
  <2>2. CASE c # b
    <3>1. SumOf(BatchRows(c, s), s) = 0
      BY <1>3, <2>2, BatchUntouched
    <3>2. nbs[c] = bs[c] /\ bs[c] \in BatchTypes
      BY <1>1, <2>2
    <3>3. Worth(bs[c]) \in Nat
      BY <3>2 DEF Worth, BatchTypes
    <3> QED BY <3>1, <3>2, <3>3
  <2> QED BY <2>1, <2>2
<1> QED BY <1>1, <1>2, <1>4 DEF Fills

LEMMA FillsNone ==
  ASSUME NEW its, NEW bs, NEW ms, StockBooks(its, bs, ms), NEW made, Reaches(its, made),
         NEW s \in Seq(MoveRows), \A k \in DOMAIN s : s[k].batch = 0,
         NEW nbs \in [BatchIds -> BatchTypes],
         \A b \in BatchIds : /\ nbs[b].state = bs[b].state /\ nbs[b].item = bs[b].item
                             /\ nbs[b].quantity = bs[b].quantity
  PROVE  Fills(bs, nbs, made, s)
<1>1. HeldOf(nbs, made)
  BY DEF HeldOf, StockBooks, Reaches
<1>2. ASSUME NEW b \in BatchIds PROVE Worth(nbs[b]) = Worth(bs[b]) + SumOf(BatchRows(b, s), s)
  <2>1. \A k \in DOMAIN s : s[k].batch # b
    BY StockAssumption DEF BatchIds
  <2>2. SumOf(BatchRows(b, s), s) = 0
    BY <2>1, BatchUntouched
  <2>3. Worth(nbs[b]) = Worth(bs[b]) /\ Worth(bs[b]) \in Nat
    BY DEF Worth, BatchTypes, StockBooks
  <2> QED BY <2>2, <2>3
<1> QED BY <1>1, <1>2 DEF Fills

StockInv == \E its, bs, ms : its = items /\ bs = batches /\ ms = movements /\ StockBooks(its, bs, ms)

LEMMA AppliedStays ==
  ASSUME StockBooks(items, batches, movements), NEW made, Reaches(items, made),
         NEW s \in Seq(MoveRows), \A k \in DOMAIN s : Known(made, s[k].item), Apply(made, s),
         NEW nbs, nbs = batches', Fills(batches, nbs, made, s)
  PROVE  StockInv'
<1>1. PICK its, bs, ms, nits, u :
         its = items /\ bs = batches /\ ms = movements /\ nits = items' /\ u = movements'
  OBVIOUS
<1>2. MayMove(its, made, s)
  BY <1>1 DEF MayMove, Reaches, Apply
<1>3. u = ms \o Ordered(s) /\ nits = Columns(made, s)
  BY <1>1 DEF Apply, Columns
<1>4. StockBooks(its, bs, ms) /\ Fills(bs, nbs, made, s)
  BY <1>1
<1>5. StockBooks(nits, nbs, u)
  BY ONLY <1>2, <1>3, <1>4, BooksMoved
<1> QED BY <1>1, <1>5 DEF StockInv

LEMMA StockInitially == ASSUME StockInit PROVE StockInv
<1>1. PICK its, bs, ms : its = items /\ bs = batches /\ ms = movements
  OBVIOUS
<1>2. its = [i \in Goods |-> Unused] /\ bs = [b \in BatchIds |-> NoBatch] /\ ms = <<>>
  BY <1>1 DEF StockInit
<1>3. its \in [Goods -> ItemRows] /\ bs \in [BatchIds -> BatchTypes] /\ ms \in Seq(MoveRows) /\ DOMAIN ms = {}
  BY <1>2 DEF Unused, NoBatch, ItemRows, BatchTypes
<1>4. \A i : Net(i, ms) = 0
  <2> SUFFICES ASSUME NEW i PROVE Net(i, ms) = 0
    OBVIOUS
  <2>1. MovesOf(i, ms) = {}
    BY <1>3 DEF MovesOf
  <2> QED BY <1>3, <2>1, QuantitiesAre, SumOfNone DEF Net
<1>5. Stocked(its, ms)
  BY <1>2, <1>4 DEF Stocked, Unused
<1>6. Filled(bs, ms)
  <2> SUFFICES ASSUME NEW b \in BatchIds PROVE SumOf(BatchRows(b, ms), ms) = Worth(bs[b])
    BY DEF Filled
  <2>1. SumOf(BatchRows(b, ms), ms) = 0
    BY <1>3, BatchUntouched
  <2> QED BY <1>2, <2>1 DEF Worth, NoBatch
<1>7. HeldOf(bs, its) /\ NeverShort(ms)
  BY <1>2, <1>3 DEF HeldOf, NoBatch, NeverShort
<1> QED BY <1>1, <1>3, <1>5, <1>6, <1>7 DEF StockInv, StockBooks

LEMMA AmountsTyped ==
  /\ \A q \in 1 .. MaxPallets : q \in Nat \ {0}
  /\ \A q \in Differences : q \in Int \ {0}
  /\ \A d \in PurchaseDays : d \in Nat
  /\ \A b \in BatchIds : b \in Nat \ {0}
  BY StockAssumption DEF Differences, BatchIds

LEMMA MovementTyped ==
  ASSUME NEW i \in Goods, NEW q \in Int \ {0}, NEW reason \in Reasons, NEW b \in Nat
  PROVE  /\ Movement(i, q, reason, b) \in MoveRows
         /\ Movement(i, q, reason, b).item = i /\ Movement(i, q, reason, b).quantity = q
         /\ Movement(i, q, reason, b).batch = b
  BY DEF Movement, MoveRows

(* An item of a handler that moves nothing.                                 *)
LEMMA ItemsStay ==
  ASSUME StockBooks(items, batches, movements), NEW made, Reaches(items, made), items' = made,
         UNCHANGED <<batches, movements>>
  PROVE  StockInv'
<1>1. PICK its, bs, ms : its = items /\ bs = batches /\ ms = movements
  OBVIOUS
<1>2. StockBooks(its, bs, ms) /\ Reaches(its, made)
  BY <1>1
<1>3. made \in [Goods -> ItemRows] /\ HeldOf(bs, made)
  BY <1>2 DEF Reaches, StockBooks, HeldOf
<1>4. Stocked(made, ms)
  BY <1>2 DEF Reaches, StockBooks, Stocked
<1>5. StockBooks(made, bs, ms)
  BY <1>2, <1>3, <1>4 DEF StockBooks
<1> QED BY <1>1, <1>5 DEF StockInv

LEMMA BatchInserted ==
  ASSUME StockBooks(items, batches, movements), NEW made, Reaches(items, made),
         NEW b \in BatchIds, NEW i \in Goods, Known(made, i), NEW date \in PurchaseDays,
         NEW quantity \in 1 .. MaxPallets, InsertBatch(made, b, i, date, quantity)
  PROVE  StockInv'
<1>1. PICK m, row, s, nbs :
         /\ m = Movement(i, quantity, "BATCH_ADD", b) /\ s = <<m>> /\ nbs = batches'
         /\ row = [state |-> "live", item |-> i, date |-> date, quantity |-> quantity]
  OBVIOUS
<1>2. m \in MoveRows /\ m.item = i /\ m.quantity = quantity /\ m.batch = b
  BY <1>1, AmountsTyped, MovementTyped DEF Reasons
<1>3. row \in BatchTypes /\ Worth(row) = quantity /\ row.item = i
  BY <1>1, AmountsTyped DEF BatchTypes, Worth
<1>4. nbs = [batches EXCEPT ![b] = row] /\ Apply(made, s) /\ batches[b].state = "none"
  BY <1>1 DEF InsertBatch, NextBatch
<1>5. Worth(row) = Worth(batches[b]) + m.quantity
  BY <1>2, <1>3, <1>4, AmountsTyped DEF Worth
<1>6. Fills(batches, nbs, made, s)
  BY <1>1, <1>2, <1>3, <1>4, <1>5, FillsOne
<1>7. s \in Seq(MoveRows) /\ \A k \in DOMAIN s : Known(made, s[k].item)
  BY <1>1, <1>2, OneMove
<1> QED BY <1>1, <1>4, <1>6, <1>7, AppliedStays

(* Moves of no batch: counted adjustments and the lending handlers.         *)
LEMMA MovedBeside ==
  ASSUME StockBooks(items, batches, movements), NEW s \in Seq(MoveRows),
         \A k \in DOMAIN s : s[k].batch = 0 /\ Known(items, s[k].item), Apply(items, s), UNCHANGED batches
  PROVE  StockInv'
<1>1. PICK made, nbs : made = items /\ nbs = batches
  OBVIOUS
<1>2. Reaches(items, made) /\ nbs \in [BatchIds -> BatchTypes] /\ nbs = batches' /\ Apply(made, s)
  BY <1>1 DEF Reaches, StockBooks
<1>3. Fills(batches, nbs, made, s)
  BY <1>1, <1>2, FillsNone
<1>4. \A k \in DOMAIN s : Known(made, s[k].item)
  BY <1>1
<1> QED BY <1>2, <1>3, <1>4, AppliedStays

LEMMA BatchMoved ==
  ASSUME StockBooks(items, batches, movements), NEW b \in BatchIds, batches[b].state = "live",
         NEW row \in BatchTypes, row.item = batches[b].item, row.state # "none",
         NEW m \in MoveRows, m.item = batches[b].item, m.batch = b,
         Worth(row) = batches[b].quantity + m.quantity,
         Apply(items, <<m>>), batches' = [batches EXCEPT ![b] = row]
  PROVE  StockInv'
<1>1. PICK made, nbs, s : made = items /\ nbs = batches' /\ s = <<m>>
  OBVIOUS
<1>2. Reaches(items, made) /\ batches[b].item \in Goods /\ Known(made, batches[b].item)
  BY <1>1 DEF Reaches, StockBooks, HeldOf
<1>3. Worth(batches[b]) = batches[b].quantity
  BY DEF Worth
<1>4. Fills(batches, nbs, made, s)
  BY <1>1, <1>2, <1>3, FillsOne
<1>5. s \in Seq(MoveRows) /\ (\A k \in DOMAIN s : Known(made, s[k].item)) /\ Apply(made, s)
  BY <1>1, <1>2, OneMove
<1> QED BY <1>1, <1>2, <1>4, <1>5, AppliedStays

LEMMA StockStep == ASSUME StockInv, [StockNext]_stockVars PROVE StockInv'
<1>1. StockBooks(items, batches, movements)
  BY DEF StockInv
<1>2. /\ items \in [Goods -> ItemRows] /\ batches \in [BatchIds -> BatchTypes]
      /\ \A b \in BatchIds : batches[b].state = "live" =>
            batches[b].item \in Goods /\ Known(items, batches[b].item)
  BY <1>1 DEF StockBooks, HeldOf
<1>3. ASSUME NEW i \in Goods, CreateItem(i) \/ ArchiveItem(i) PROVE StockInv'
  <2>1. PICK made : made = NewItem(i)
    OBVIOUS
  <2>2. Reaches(items, made) /\ Known(made, i)
    BY <1>2, <2>1 DEF NewItem, Reaches, Known, ItemRows
  <2>3. CASE CreateItem(i)
    <3>1. CASE items' = NewItem(i) /\ UNCHANGED <<batches, movements>>
      BY <1>1, <2>1, <2>2, <3>1, ItemsStay
    <3>2. ASSUME NEW b \in BatchIds, NEW date \in PurchaseDays, NEW quantity \in 1 .. MaxPallets,
                 InsertBatch(NewItem(i), b, i, date, quantity)
          PROVE  StockInv'
      BY <1>1, <2>1, <2>2, <3>2, BatchInserted
    <3> QED BY <2>3, <3>1, <3>2 DEF CreateItem
  <2>4. CASE ArchiveItem(i)
    <3>1. PICK put : put = [items EXCEPT ![i].state = "archived"]
      OBVIOUS
    <3>2. Reaches(items, put)
      BY <1>2, <3>1 DEF Reaches, Known, ItemRows
    <3> QED BY <1>1, <2>4, <3>1, <3>2, ItemsStay DEF ArchiveItem
  <2> QED BY <1>3, <2>3, <2>4
<1>4. ASSUME NEW i \in Goods, NEW quantity \in Differences, AdjustStock(i, quantity) PROVE StockInv'
  <2>1. PICK m, s : m = Movement(i, quantity, "MANUAL_ADJUSTMENT", 0) /\ s = <<m>>
    OBVIOUS
  <2>2. m \in MoveRows /\ m.item = i /\ m.batch = 0
    BY <2>1, AmountsTyped, MovementTyped DEF Reasons
  <2>3. s \in Seq(MoveRows) /\ \A k \in DOMAIN s : s[k].batch = 0 /\ Known(items, s[k].item)
    BY <1>4, <2>1, <2>2, OneMove DEF AdjustStock, Exists, Known
  <2> QED BY <1>1, <1>4, <2>1, <2>3, MovedBeside DEF AdjustStock
<1>5. ASSUME NEW b \in BatchIds, NEW i \in Goods, NEW d \in PurchaseDays, NEW q \in 1 .. MaxPallets,
             CreateBatch(b, i, d, q)
      PROVE  StockInv'
  <2>1. PICK made : made = items
    OBVIOUS
  <2>2. Reaches(items, made) /\ Known(made, i) /\ InsertBatch(made, b, i, d, q)
    BY <1>2, <1>5, <2>1 DEF Reaches, Known, CreateBatch
  <2> QED BY <1>1, <2>2, BatchInserted
<1>6. ASSUME NEW b \in BatchIds, NEW d \in PurchaseDays, NEW q \in 1 .. MaxPallets, UpdateBatch(b, d, q)
      PROVE  StockInv'
  <2>1. PICK row, nbs : row = [batches[b] EXCEPT !.date = d, !.quantity = q] /\ nbs = [batches EXCEPT ![b] = row]
    OBVIOUS
  <2>2. /\ row \in BatchTypes /\ row.state = "live" /\ row.item = batches[b].item /\ row.quantity = q
        /\ batches[b] \in BatchTypes /\ batches[b].state = "live" /\ batches[b].item \in Goods
    BY <1>2, <1>6, <2>1, AmountsTyped DEF BatchTypes, UpdateBatch
  <2>3. batches' = nbs
    BY <1>2, <1>6, <2>1 DEF UpdateBatch, BatchTypes
  <2>4. CASE q = batches[b].quantity
    <3>1. PICK made, s : made = items /\ s = <<>>
      OBVIOUS
    <3>2. Apply(made, s) /\ s \in Seq(MoveRows) /\ DOMAIN s = {} /\ Reaches(items, made)
      BY <1>2, <1>6, <2>4, <3>1 DEF UpdateBatch, DifferenceMoves, Reaches
    <3>3. /\ nbs \in [BatchIds -> BatchTypes]
          /\ \A c \in BatchIds : /\ nbs[c].state = batches[c].state /\ nbs[c].item = batches[c].item
                                 /\ nbs[c].quantity = batches[c].quantity
      BY <1>2, <2>1, <2>2, <2>4
    <3>4. Fills(batches, nbs, made, s)
      BY <1>1, <3>2, <3>3, FillsNone
    <3> QED BY <1>1, <2>3, <3>2, <3>4, AppliedStays
  <2>5. CASE q # batches[b].quantity
    <3>1. PICK more \in Int \ {0} : more = q - batches[b].quantity
      BY <2>2, <2>5, AmountsTyped DEF BatchTypes
    <3>2. PICK m : m = Movement(batches[b].item, more, "BATCH_EDIT", b)
      OBVIOUS
    <3>3. m \in MoveRows /\ m.item = batches[b].item /\ m.batch = b /\ m.quantity = more
      BY <2>2, <3>2, AmountsTyped, MovementTyped DEF Reasons
    <3>4. Worth(row) = batches[b].quantity + m.quantity
      <4>1. batches[b].quantity \in Nat
        BY <2>2 DEF BatchTypes
      <4> QED BY <2>2, <3>1, <3>3, <4>1, AmountsTyped DEF Worth
    <3>5. Apply(items, <<m>>)
      BY <1>6, <2>5, <3>1, <3>2 DEF UpdateBatch, DifferenceMoves
    <3> QED BY <1>1, <2>1, <2>2, <2>3, <3>3, <3>4, <3>5, BatchMoved
  <2> QED BY <2>4, <2>5
<1>7. ASSUME NEW b \in BatchIds, RemoveBatch(b) PROVE StockInv'
  <2>1. PICK row, m : /\ row = [batches[b] EXCEPT !.state = "deleted"]
                      /\ m = Movement(batches[b].item, -batches[b].quantity, "BATCH_DELETE", b)
    OBVIOUS
  <2>2. /\ row \in BatchTypes /\ row.state = "deleted" /\ row.item = batches[b].item
        /\ batches[b] \in BatchTypes /\ batches[b].state = "live" /\ batches[b].item \in Goods
    BY <1>2, <1>7, <2>1 DEF BatchTypes, RemoveBatch
  <2>3. Apply(items, <<m>>)
    BY <1>7, <2>1 DEF RemoveBatch
  <2>4. -batches[b].quantity \in Int /\ batches[b].quantity + (-batches[b].quantity) = 0
    BY <2>2 DEF BatchTypes
  <2>5. -batches[b].quantity # 0
    BY <2>1, <2>3 DEF Apply, Movement
  <2>6. m \in MoveRows /\ m.item = batches[b].item /\ m.batch = b /\ m.quantity = -batches[b].quantity
    BY <2>1, <2>2, <2>4, <2>5, AmountsTyped, MovementTyped DEF Reasons
  <2>7. Worth(row) = batches[b].quantity + m.quantity
    BY <2>2, <2>4, <2>6 DEF Worth
  <2>8. batches' = [batches EXCEPT ![b] = row]
    BY <1>2, <1>7, <2>1 DEF RemoveBatch
  <2> QED BY <1>1, <2>2, <2>3, <2>6, <2>7, <2>8, BatchMoved
<1>8. ASSUME NEW m \in LendingMoves, NEW n \in LendingMoves, Lend(<<m>>) \/ Lend(<<m, n>>) PROVE StockInv'
  <2>1. \A k \in LendingMoves : k \in MoveRows /\ k.batch = 0
    BY AmountsTyped DEF LendingMoves, MoveRows, Reasons
  <2>2. PICK s : (s = <<m>> \/ s = <<m, n>>) /\ Lend(s)
    BY <1>8
  <2>3. s \in Seq(MoveRows) /\ \A k \in DOMAIN s : s[k].batch = 0 /\ Known(items, s[k].item)
    BY <2>1, <2>2 DEF Lend, Exists, Known
  <2> QED BY <1>1, <2>2, <2>3, MovedBeside DEF Lend
<1>9. CASE UNCHANGED stockVars
  BY <1>9 DEF stockVars, StockInv
<1> QED BY <1>3, <1>4, <1>5, <1>6, <1>7, <1>8, <1>9 DEF StockNext

LEMMA StockInvHolds == StockSpec => []StockInv
BY StockInitially, StockStep, PTL DEF StockSpec

(* An item's rows up to a place and those after it, up to a further one.    *)
LEMMA RowsAfter ==
  ASSUME NEW ms \in Seq(MoveRows), NEW i, NEW k \in Nat, NEW m \in Nat, k <= m,
         NEW A, A = {n \in MovesOf(i, ms) : n <= k}, NEW B, B = {n \in MovesOf(i, ms) : n > k /\ n <= m},
         NEW C, C = {n \in MovesOf(i, ms) : n <= m}
  PROVE  SumOf(A, ms) = SumOf(C, ms) - SumOf(B, ms)
<1>1. \A n \in DOMAIN ms : n \in Nat
  BY MovesAre
<1>2. MovesOf(i, ms) \subseteq DOMAIN ms
  BY DEF MovesOf
<1>3. A \in SUBSET C /\ C \ A = B /\ C \in SUBSET DOMAIN ms /\ B \in SUBSET DOMAIN ms /\ A \in SUBSET DOMAIN ms
  BY <1>1, <1>2
<1>4. PICK f : f = Quantities(ms)
  OBVIOUS
<1>5. IsFiniteSet(C) /\ \A n \in C : f[n] \in Int
  BY <1>3, <1>4, QuantitiesAre
<1>6. SumOver(C, f) = SumOver(A, f) + SumOver(C \ A, f)
  BY ONLY <1>3, <1>5, SumSplits
<1>7. /\ SumOf(A, ms) = SumOver(A, f) /\ SumOf(B, ms) = SumOver(C \ A, f) /\ SumOf(C, ms) = SumOver(C, f)
      /\ SumOf(A, ms) \in Int /\ SumOf(B, ms) \in Int
  BY <1>3, <1>4, QuantitiesAre
<1> QED BY <1>6, <1>7

(* Stepping back from the newest row of a page, whatever the page shows of  *)
(* the rows between, meets the stock the ledger had left at each.           *)
LEMMA HistoryIsTrue == ASSUME StockBooks(items, batches, movements) PROVE HistoryShowsBalances
<1> SUFFICES ASSUME NEW i \in Goods, NEW reasons \in {Reasons} \cup {{r} : r \in Reasons},
                    NEW page \in 1 .. (MaxMovements \div PageSize) + 1,
                    NEW k \in PageOf(MovementIds(i, reasons), page)
             PROVE  /\ BalanceAfter(i, reasons, page, k) = StockAfter(i, k)
                    /\ StockAfter(i, k) >= 0
  BY DEF HistoryShowsBalances
<1>1. PICK ms, on : ms \in Seq(MoveRows) /\ ms = movements /\ on = items[i].onHand
  BY DEF StockBooks
<1>2. NeverShort(ms) /\ on = Net(i, ms)
  BY <1>1 DEF StockBooks, Stocked
<1>3. PICK shown, newest : shown = PageOf(MovementIds(i, reasons), page) /\ newest = Max(shown)
  OBVIOUS
<1>4. /\ \A n \in DOMAIN ms : n \in Nat /\ n <= Len(ms)
      /\ Len(ms) \in Nat /\ IsFiniteSet(DOMAIN ms)
  BY <1>1, MovesAre
<1>5. shown \subseteq MovesOf(i, ms) /\ MovesOf(i, ms) \subseteq DOMAIN ms /\ k \in shown
  BY <1>1, <1>3 DEF PageOf, MovementIds, MovesOf
<1>6. newest \in shown /\ k <= newest
  <2>1. IsFiniteSet(shown) /\ shown \subseteq Int /\ shown # {}
    BY <1>4, <1>5, FS_Subset
  <2> QED BY <1>3, <1>5, <2>1, LargestOf
<1>7. newest \in Nat /\ k \in Nat /\ newest <= Len(ms) /\ k \in DOMAIN ms
  BY <1>4, <1>5, <1>6
<1>8. MovementIds(i, Reasons) = MovesOf(i, ms)
  BY <1>1, MovesAre DEF MovementIds, MovesOf
<1>9. PICK all, last, upTo, after, between :
         /\ all = {n \in MovesOf(i, ms) : n <= Len(ms)}
         /\ last = {n \in MovesOf(i, ms) : n > newest /\ n <= Len(ms)}
         /\ upTo = {n \in MovesOf(i, ms) : n <= newest}
         /\ between = {n \in MovesOf(i, ms) : n > k /\ n <= newest}
         /\ after = {n \in MovesOf(i, ms) : n <= k}
  OBVIOUS
<1>10. SumOf(upTo, ms) = SumOf(all, ms) - SumOf(last, ms)
  BY <1>1, <1>4, <1>7, <1>9, RowsAfter
<1>11. SumOf(after, ms) = SumOf(upTo, ms) - SumOf(between, ms)
  BY <1>1, <1>6, <1>7, <1>9, RowsAfter
<1>12. all = MovesOf(i, ms)
  BY <1>4, <1>5, <1>9
<1>13. BalanceAfter(i, reasons, page, k) = on - SumOf(last, ms) - SumOf(between, ms)
  BY <1>1, <1>3, <1>8, <1>9 DEF BalanceAfter, WrittenAfter
<1>14. StockAfter(i, k) = SumOf(after, ms)
  BY <1>1, <1>9 DEF StockAfter
<1>15. SumOf(after, ms) >= 0
  BY <1>2, <1>7, <1>9 DEF NeverShort, RowsUpTo
<1>16. on = SumOf(all, ms)
  BY <1>2, <1>12 DEF Net
<1> QED BY <1>10, <1>11, <1>13, <1>14, <1>15, <1>16

(* The totals count what stands of each batch; an untruncated list is whole.*)
LEMMA PurchasesAreTrue ==
  ASSUME StockBooks(items, batches, movements), NEW from \in PurchaseDays, NEW to \in PurchaseDays
  PROVE  PurchasesFollowLedger(from, to)
<1>1. PICK bs, ms, held, origin, sums, moved, days, bought :
         /\ bs = batches /\ ms = movements /\ held = [b \in BatchIds |-> bs[b].quantity]
         /\ origin = [b \in BatchIds |-> bs[b].item] /\ sums = PurchasesOf(from, to) /\ moved = BatchMoves
         /\ days = {b \in BatchIds : bs[b].date \in from .. to} /\ bought = Purchased(from, to)
  OBVIOUS
<1>2. IsFiniteSet(BatchIds)
  BY StockAssumption, FS_Interval DEF BatchIds
<1>3. bought \in SUBSET days /\ days \in SUBSET BatchIds /\ \A b \in days : b \in bought <=> bs[b].state = "live"
  BY <1>1 DEF Purchased
<1>4. IsFiniteSet(days) /\ IsFiniteSet(bought) /\ IsFiniteSet(Goods)
  BY <1>2, <1>3, FS_Subset, StockAssumption
<1>5. ASSUME NEW b \in BatchIds
      PROVE  /\ held[b] \in Nat /\ moved[b] \in Nat /\ (bs[b].state = "live" => moved[b] = held[b])
             /\ bs[b].state # "live" => moved[b] = 0
             /\ bs[b].state = "live" => origin[b] \in Goods
  <2>1. moved[b] = SumOf(BatchRows(b, ms), ms)
    BY <1>1 DEF BatchMoves, BatchRows
  <2>2. SumOf(BatchRows(b, ms), ms) = Worth(bs[b]) /\ bs[b] \in BatchTypes
    BY <1>1 DEF StockBooks, Filled
  <2>3. bs[b].state = "live" => bs[b].item \in Goods
    BY <1>1 DEF StockBooks, HeldOf
  <2>4. held[b] = bs[b].quantity /\ held[b] \in Nat /\ origin[b] = bs[b].item
    BY <1>1, <2>2 DEF BatchTypes
  <2> QED BY <2>1, <2>2, <2>3, <2>4 DEF Worth
<1>6. PurchasesTotal(from, to) = SumOver(Goods, sums)
  BY <1>1 DEF PurchasesTotal, SumOver
<1>7. \A i \in Goods : sums[i] = SumOver(PartAt(bought, origin, i), held)
  <2> SUFFICES ASSUME NEW i \in Goods PROVE sums[i] = SumOver(PartAt(bought, origin, i), held)
    OBVIOUS
  <2>1. PartAt(bought, origin, i) = {b \in Purchased(from, to) : batches[b].item = i}
    BY <1>1, <1>3 DEF PartAt
  <2>2. sums[i] = MapThenSumSet(LAMBDA b : held[b], {b \in Purchased(from, to) : batches[b].item = i})
    BY <1>1 DEF PurchasesOf
  <2> QED BY <2>1, <2>2 DEF SumOver
<1>8. SumOver(Goods, sums) = SumOver(bought, held)
  <2>1. \A b \in bought : held[b] \in Int /\ origin[b] \in Goods
    BY <1>3, <1>5
  <2> QED BY ONLY <1>4, <1>7, <2>1, SumByParts
<1>9. SumOver(days, moved) = SumOver(bought, moved)
  <2>1. (\A b \in bought : moved[b] \in Int) /\ \A b \in days \ bought : moved[b] = 0
    BY <1>3, <1>5
  <2> QED BY ONLY <1>3, <1>4, <2>1, SumOfPart
<1>10. SumOver(bought, moved) = SumOver(bought, held)
  <2>1. \A b \in bought : moved[b] = held[b]
    BY <1>3, <1>5
  <2> QED BY ONLY <1>4, <2>1, SumAgrees
<1>11. MapThenSumSet(LAMBDA b : BatchMoves[b], {b \in BatchIds : batches[b].date \in from .. to})
         = SumOver(days, moved)
  BY <1>1 DEF SumOver
<1>12. ASSUME ~PurchasesTruncated(from, to) PROVE PurchasesRows(from, to) = Purchased(from, to)
  <2> DEFINE Ahead(b) == {c \in bought : \/ batches[c].date < batches[b].date
                                         \/ batches[c].date = batches[b].date /\ c < b}
  <2>1. ASSUME NEW b \in bought PROVE Cardinality(Ahead(b)) < RowCap
    <3>1. b \in Nat /\ batches[b].date \in Nat
      <4>1. b \in BatchIds
        BY <1>3
      <4>2. batches[b] \in BatchTypes
        BY <4>1 DEF StockBooks
      <4> QED BY <4>1, <4>2, AmountsTyped DEF BatchTypes
    <3>2. b \notin Ahead(b)
      BY <3>1
    <3>3. PICK before : before = Ahead(b)
      OBVIOUS
    <3>4. before \in SUBSET bought /\ before # bought
      BY <3>2, <3>3
    <3>5. Cardinality(before) <= Cardinality(bought) /\ Cardinality(bought) # Cardinality(before)
          /\ IsFiniteSet(before)
      BY <1>4, <3>4, FS_Subset
    <3>6. PICK few \in Nat, many \in Nat, cap \in Nat :
             few = Cardinality(before) /\ many = Cardinality(bought) /\ cap = RowCap
      BY <1>4, <3>5, FS_CardinalityType, StockAssumption
    <3>7. ~(many > cap)
      BY <1>1, <1>12, <3>6 DEF PurchasesTruncated
    <3>8. few < cap
      BY <3>5, <3>6, <3>7
    <3> QED BY <3>3, <3>6, <3>8
  <2>2. PurchasesRows(from, to) = {b \in bought : Cardinality(Ahead(b)) < RowCap}
    BY <1>1 DEF PurchasesRows
  <2> HIDE DEF Ahead
  <2> QED BY <1>1, <2>1, <2>2
<1> QED BY <1>6, <1>8, <1>9, <1>10, <1>11, <1>12 DEF PurchasesFollowLedger

LEMMA ReportIsTrue ==
  ASSUME StockBooks(items, batches, movements)
  PROVE  StockReportTotal = SumOf(DOMAIN movements, movements)
<1>1. PICK ms, held, origin, f :
         /\ ms = movements /\ held = OnHand /\ origin = [k \in DOMAIN ms |-> ms[k].item] /\ f = Quantities(ms)
  OBVIOUS
<1>2. ms \in Seq(MoveRows)
  BY <1>1 DEF StockBooks
<1>3. IsFiniteSet(Goods) /\ IsFiniteSet(DOMAIN ms) /\ ReportedItems \in SUBSET Goods
  BY <1>2, StockAssumption, MovesAre DEF ReportedItems
<1>4. ASSUME NEW i \in Goods
      PROVE  /\ held[i] \in Int /\ held[i] = SumOver(PartAt(DOMAIN ms, origin, i), f)
             /\ i \notin ReportedItems => held[i] = 0
  <2>1. held[i] = items[i].onHand /\ items[i] \in ItemRows /\ items[i].onHand = Net(i, ms)
    BY <1>1 DEF OnHand, StockBooks, Stocked
  <2>2. MovesOf(i, ms) = PartAt(DOMAIN ms, origin, i) /\ MovesOf(i, ms) \in SUBSET DOMAIN ms
    BY <1>1 DEF MovesOf, PartAt
  <2>3. Net(i, ms) = SumOver(MovesOf(i, ms), f)
    BY <1>1, <1>2, QuantitiesAre DEF Net
  <2>4. i \notin ReportedItems => items[i].onHand = 0
    BY DEF ReportedItems, Exists, StockBooks, Stocked, Known
  <2>5. items[i].onHand \in Int
    BY <2>1 DEF ItemRows
  <2> QED BY <2>1, <2>2, <2>3, <2>4, <2>5
<1>5. SumOver(Goods, held) = SumOver(DOMAIN ms, f)
  <2>1. PICK all : all = DOMAIN ms
    OBVIOUS
  <2>2. \A k \in all : f[k] \in Int /\ origin[k] \in Goods
    BY <1>1, <1>2, <2>1, QuantitiesAre, MovesAre
  <2>3. \A i \in Goods : held[i] = SumOver(PartAt(all, origin, i), f)
    BY <1>4, <2>1
  <2>4. IsFiniteSet(Goods) /\ IsFiniteSet(all)
    BY <1>3, <2>1
  <2>5. SumOver(Goods, held) = SumOver(all, f)
    BY ONLY <2>2, <2>3, <2>4, SumByParts
  <2> QED BY <2>1, <2>5
<1>6. SumOver(Goods, held) = SumOver(ReportedItems, held)
  <2>1. (\A i \in ReportedItems : held[i] \in Int) /\ \A i \in Goods \ ReportedItems : held[i] = 0
    BY <1>3, <1>4
  <2> QED BY ONLY <1>3, <2>1, SumOfPart
<1>7. StockReportTotal = SumOver(ReportedItems, held)
  BY <1>1 DEF StockReportTotal, SumOver
<1>8. SumOf(DOMAIN ms, ms) = SumOver(DOMAIN ms, f)
  BY <1>1, <1>2, QuantitiesAre
<1> QED BY <1>1, <1>5, <1>6, <1>7, <1>8

LEMMA BooksAddUp == ASSUME StockInv PROVE LedgerAddsUp
<1>1. StockBooks(items, batches, movements)
  BY DEF StockInv
<1>2. StockIsLedger
  BY <1>1 DEF StockBooks, Stocked, StockIsLedger
<1>3. BatchIsLedger
  BY <1>1 DEF StockBooks, Filled, BatchIsLedger, BatchMoves, BatchRows, Worth
<1>4. \A from, to \in PurchaseDays : PurchasesFollowLedger(from, to)
  BY <1>1, PurchasesAreTrue
<1> QED BY <1>1, <1>2, <1>3, <1>4, HistoryIsTrue, ReportIsTrue DEF LedgerAddsUp

(* Whatever was bought, corrected, deleted, counted or lent: for any items, *)
(* batches, page sizes and row caps, what items.service, purchases.service  *)
(* and the lending handlers leave in the columns is what their rows add up  *)
(* to, the history shows each row the balance it left, which was never less *)
(* than nothing, and the two reports total the ledger though cut short.     *)
THEOREM StockIsItsLedger == StockSpec => []LedgerAddsUp
BY StockInvHolds, BooksAddUp, PTL
-----------------------------------------------------------------------------
(* A list.                                                                  *)
Terms == 0 .. 2
TabRows ==
    [history : Seq(Searches), at : Nat, search : Searches, term : Terms, debounced : Terms,
     unread : BOOLEAN, table : [of : Searches, rows : -1 .. 2]]
OnTab(l) == l \in TabRows /\ l.at \in 1 .. Len(l.history)
ListTyped ==
    /\ OnTab(tab) /\ cache \in [Searches -> -1 .. 2]
    /\ fetching \subseteq Searches /\ unread \subseteq Searches
    /\ gone \in Nat /\ presses = tab.at /\ meant \in 0 .. 1 /\ hurried \in BOOLEAN

(* The table is the drawn address's once its answer is there; until then    *)
(* the answer is on its way, or was not to be had.                          *)
TableFollows(l) ==
    /\ l.unread <=> l.search \in unread
    /\ Asks(l.search) =>
         IF cache[l.search] = -1 THEN l.search \in fetching \cup unread
         ELSE l.table = [of |-> l.search, rows |-> cache[l.search]]
(* The term meant is the box's until it is drawn, then the address's; and   *)
(* the box's is in the address, drawn or not, once it has settled.          *)
BoxFollowed(l) ==
    /\ meant = IF Trim(l.term) # l.search.q THEN Trim(l.term) ELSE Address(l).q
    /\ l.term = l.debounced /\ Trim(l.term) # l.search.q => Address(l).q = Trim(l.term)
WithinEnd(l) ==
    l.search = Address(l) /\ Asks(l.search) /\ cache[l.search] # -1 => ~PastEnd(l)
ListInv ==
    /\ ListTyped /\ TableFollows(tab)
    /\ ~hurried => BoxFollowed(tab) /\ WithinEnd(tab)

(* All but the history and the place in it.                                 *)
SameView(l, k) ==
    /\ k.search = l.search /\ k.term = l.term /\ k.debounced = l.debounced
    /\ k.unread = l.unread /\ k.table = l.table

LEMMA SearchesAre ==
  /\ Home \in Searches /\ Home.q = 0
  /\ \A s \in Searches : s.q \in 0 .. 1 /\ s.page \in 1 .. 2
  /\ \A t \in Terms : Trim(t) \in 0 .. 1
  BY DEF Home, Searches, Terms, Trim

LEMMA PageIs ==
  ASSUME NEW s \in Searches, NEW p \in 1 .. 2
  PROVE  LET r == [s EXCEPT !.page = p]
         IN  r \in Searches /\ r.q = s.q /\ r.page = p
  BY DEF Searches

LEMMA TermIs ==
  ASSUME NEW s \in Searches, NEW q \in 0 .. 1
  PROVE  LET r == [s EXCEPT !.q = q, !.page = 1]
         IN  r \in Searches /\ r.q = q
<1>1. PICK m : m = [s EXCEPT !.q = q]
  OBVIOUS
<1>2. m \in Searches /\ m.q = q
  BY <1>1 DEF Searches
<1>3. [s EXCEPT !.q = q, !.page = 1] = [m EXCEPT !.page = 1]
  BY <1>1 DEF Searches
<1>5. [m EXCEPT !.page = 1] \in Searches /\ [m EXCEPT !.page = 1].q = m.q
  <2>1. 1 \in 1 .. 2
    OBVIOUS
  <2> QED BY ONLY <1>2, <2>1, PageIs
<1> QED BY <1>2, <1>3, <1>5

LEMMA FilterIs ==
  ASSUME NEW s \in Searches, NEW f \in {"none", "some", "backToFront"}
  PROVE  LET r == [s EXCEPT !.filter = f, !.page = 1]
         IN  r \in Searches /\ r.q = s.q /\ r.filter = f
<1>1. PICK m : m = [s EXCEPT !.filter = f]
  OBVIOUS
<1>2. m \in Searches /\ m.q = s.q /\ m.filter = f
  BY <1>1 DEF Searches
<1>3. [s EXCEPT !.filter = f, !.page = 1] = [m EXCEPT !.page = 1]
  BY <1>1 DEF Searches
<1>4. [m EXCEPT !.page = 1].filter = m.filter
  BY <1>2 DEF Searches
<1>5. [m EXCEPT !.page = 1] \in Searches /\ [m EXCEPT !.page = 1].q = m.q
  <2>1. 1 \in 1 .. 2
    OBVIOUS
  <2> QED BY ONLY <1>2, <2>1, PageIs
<1> QED BY <1>2, <1>3, <1>4, <1>5

LEMMA AddressIs == ASSUME NEW l, OnTab(l) PROVE Address(l) \in Searches
  BY DEF OnTab, TabRows, Address

LEMMA ReplaceIs ==
  ASSUME NEW l, OnTab(l), NEW a \in Searches
  PROVE  /\ OnTab(Replace(l, a)) /\ SameView(l, Replace(l, a))
         /\ Replace(l, a).at = l.at /\ Address(Replace(l, a)) = a
  BY DEF OnTab, TabRows, Replace, SameView, Address

LEMMA PushIs ==
  ASSUME NEW l, OnTab(l), NEW a \in Searches
  PROVE  /\ OnTab(Push(l, a)) /\ SameView(l, Push(l, a))
         /\ Address(Push(l, a)) = a
<1>1. CASE a = Address(l)
  BY <1>1 DEF Push, SameView
<1>2. CASE a # Address(l)
  <2>1. PICK h : h = SubSeq(l.history, 1, l.at)
    OBVIOUS
  <2>2. h \in Seq(Searches) /\ Len(h) = l.at /\ l.at \in Nat
    BY <2>1 DEF OnTab, TabRows
  <2>3. PICK g : g = Append(h, a)
    OBVIOUS
  <2>4. g \in Seq(Searches) /\ Len(g) = l.at + 1 /\ g[l.at + 1] = a
    BY <2>2, <2>3
  <2>5. Push(l, a) = [l EXCEPT !.history = g, !.at = l.at + 1]
    BY <1>2, <2>1, <2>3 DEF Push
  <2>6. PICK k : k = Push(l, a)
    OBVIOUS
  <2>7. /\ k \in TabRows /\ SameView(l, k) /\ k.history = g /\ k.at = l.at + 1
    <3>1. l \in TabRows /\ l.at + 1 \in Nat
      BY <2>2 DEF OnTab
    <3> QED BY <2>4, <2>5, <2>6, <3>1 DEF TabRows, SameView
  <2>8. Len(g) = l.at + 1
    BY <2>4
  <2>9. OnTab(k) /\ Address(k) = a
    BY <2>2, <2>4, <2>7, <2>8 DEF OnTab, Address
  <2> QED BY <2>6, <2>7, <2>9
<1> QED BY <1>1, <1>2

LEMMA CommitIs ==
  ASSUME NEW l, OnTab(l)
  PROVE  LET k == CommitSearch(l)
         IN  /\ OnTab(k) /\ SameView(l, k) /\ k.at = l.at
             /\ IF l.debounced = l.term /\ Trim(l.term) # l.search.q
                THEN Address(k).q = Trim(l.term) ELSE Address(k) = Address(l)
<1>1. Address(l) \in Searches /\ l.term \in Terms /\ l.debounced \in Terms
  BY AddressIs DEF OnTab, TabRows
<1>2. CASE Paused(l) /\ Trim(l.debounced) # l.search.q
  <2>1. PICK a : a = [Address(l) EXCEPT !.q = Trim(l.debounced), !.page = 1]
    OBVIOUS
  <2>2. a \in Searches /\ a.q = Trim(l.debounced)
    BY <1>1, <2>1, SearchesAre, TermIs
  <2>3. CommitSearch(l) = Replace(l, a)
    BY <1>2, <2>1 DEF CommitSearch
  <2> QED BY <1>2, <2>2, <2>3, ReplaceIs DEF Paused
<1>3. CASE ~(Paused(l) /\ Trim(l.debounced) # l.search.q)
  <2>1. CommitSearch(l) = l
    BY <1>3 DEF CommitSearch
  <2> QED BY <1>3, <2>1 DEF Paused, SameView
<1> QED BY <1>2, <1>3

LEMMA StepBackIs ==
  ASSUME NEW l, OnTab(l)
  PROVE  LET k == StepBack(l)
         IN  /\ OnTab(k) /\ SameView(l, k) /\ k.at = l.at /\ Address(k).q = Address(l).q
             /\ PastEnd(k) = PastEnd(l)
             /\ PastEnd(l) /\ l.table.of = l.search => Address(k) # l.search
             /\ ~PastEnd(l) => Address(k) = Address(l)
<1>1. Address(l) \in Searches /\ l.table.rows \in -1 .. 2 /\ l.table.of.page \in 1 .. 2
  BY AddressIs, SearchesAre DEF OnTab, TabRows
<1>2. CASE PastEnd(l)
  <2>1. PICK a : a = [Address(l) EXCEPT !.page = LastPage(l)]
    OBVIOUS
  <2>2. l.table.of.page = 2 /\ LastPage(l) = 1
    BY <1>1, <1>2 DEF PastEnd, LastPage
  <2>3. a \in Searches /\ a.q = Address(l).q /\ a.page = 1
    <3>1. a = [Address(l) EXCEPT !.page = 1] /\ 1 \in 1 .. 2
      BY <2>1, <2>2
    <3> QED BY ONLY <1>1, <3>1, PageIs
  <2>4. StepBack(l) = Replace(l, a)
    BY <1>2, <2>1 DEF StepBack
  <2>5. PastEnd(Replace(l, a)) = PastEnd(l)
    BY <2>3, ReplaceIs DEF SameView, PastEnd, TableDrawn
  <2> QED BY <1>2, <2>2, <2>3, <2>4, <2>5, ReplaceIs
<1>3. CASE ~PastEnd(l)
  <2>1. StepBack(l) = l
    BY <1>3 DEF StepBack
  <2> QED BY <1>3, <2>1 DEF SameView
<1> QED BY <1>2, <1>3

LEMMA TableIs ==
  ASSUME NEW l, OnTab(l), NEW answers \in [Searches -> -1 .. 2], NEW lost \in SUBSET Searches
  PROVE  LET k == WithTable(l, answers, lost)
         IN  /\ OnTab(k) /\ k.at = l.at /\ Address(k) = Address(l)
             /\ k.search = l.search /\ k.term = l.term /\ k.debounced = l.debounced
             /\ k.unread <=> l.search \in lost
             /\ k.table = IF Asks(l.search) /\ answers[l.search] # -1
                          THEN [of |-> l.search, rows |-> answers[l.search]] ELSE l.table
<1>1. l.search \in Searches /\ l.table \in [of : Searches, rows : -1 .. 2] /\ l \in TabRows
  BY DEF OnTab, TabRows
<1>2. PICK drawn : drawn = IF Asks(l.search) /\ answers[l.search] # -1
                         THEN [of |-> l.search, rows |-> answers[l.search]] ELSE l.table
  OBVIOUS
<1>3. drawn \in [of : Searches, rows : -1 .. 2]
  BY <1>1, <1>2
<1>4. WithTable(l, answers, lost) = [l EXCEPT !.unread = l.search \in lost, !.table = drawn]
  BY <1>1, <1>2 DEF WithTable, TabRows
<1>5. PICK b : b = (l.search \in lost)
  OBVIOUS
<1>10. b \in BOOLEAN
  <2>1. CASE l.search \in lost
    BY <1>5, <2>1
  <2>2. CASE l.search \notin lost
    BY <1>5, <2>2
  <2> QED BY <2>1, <2>2
<1>6. WithTable(l, answers, lost) = [l EXCEPT !.unread = b, !.table = drawn]
  BY <1>4, <1>5
<1>7. PICK k : k = WithTable(l, answers, lost)
  OBVIOUS
<1>8. /\ k \in TabRows /\ k.history = l.history /\ k.at = l.at
      /\ k.search = l.search /\ k.term = l.term /\ k.debounced = l.debounced
      /\ k.unread = b /\ k.table = drawn
  BY <1>1, <1>3, <1>6, <1>7, <1>10 DEF TabRows
<1>9. OnTab(k) /\ Address(k) = Address(l)
  BY <1>8 DEF OnTab, Address
<1> QED BY <1>2, <1>5, <1>7, <1>8, <1>9

(* What a draw of the table, and a step back where it is past the end,      *)
(* leave: the table is the answer's, and not past its end where it settles. *)
LEMMA ShownIs ==
  ASSUME NEW l, OnTab(l), NEW answers \in [Searches -> -1 .. 2], NEW lost \in SUBSET Searches
  PROVE  LET k == StepBack(WithTable(l, answers, lost))
         IN  /\ OnTab(k) /\ k.at = l.at /\ Address(k).q = Address(l).q
             /\ k.search = l.search /\ k.term = l.term /\ k.debounced = l.debounced
             /\ k.unread <=> l.search \in lost
             /\ Asks(l.search) /\ answers[l.search] # -1
                  => /\ k.table = [of |-> l.search, rows |-> answers[l.search]]
                     /\ k.search = Address(k) => ~PastEnd(k)
<1>1. PICK m : m = WithTable(l, answers, lost)
  OBVIOUS
<1>2. /\ OnTab(m) /\ m.at = l.at /\ Address(m) = Address(l)
      /\ m.search = l.search /\ m.term = l.term /\ m.debounced = l.debounced
      /\ m.unread <=> l.search \in lost
      /\ m.table = IF Asks(l.search) /\ answers[l.search] # -1
                   THEN [of |-> l.search, rows |-> answers[l.search]] ELSE l.table
  BY <1>1, TableIs
<1>3. PICK k : k = StepBack(m)
  OBVIOUS
<1>4. /\ OnTab(k) /\ SameView(m, k) /\ k.at = m.at /\ Address(k).q = Address(m).q
      /\ PastEnd(k) = PastEnd(m)
      /\ PastEnd(m) /\ m.table.of = m.search => Address(k) # m.search
      /\ ~PastEnd(m) => Address(k) = Address(m)
  BY <1>2, <1>3, StepBackIs
<1>5. ASSUME Asks(l.search), answers[l.search] # -1
      PROVE  /\ k.table = [of |-> l.search, rows |-> answers[l.search]]
             /\ k.search = Address(k) => ~PastEnd(k)
  <2>1. k.table = [of |-> l.search, rows |-> answers[l.search]] /\ m.table = k.table
    BY <1>2, <1>4, <1>5 DEF SameView
  <2>2. m.table.of = m.search
    BY <1>2, <2>1
  <2> QED BY <1>4, <2>1, <2>2 DEF SameView
<1>6. k.unread <=> l.search \in lost
  BY <1>2, <1>4, Zenon DEF SameView
<1> QED BY <1>1, <1>2, <1>3, <1>4, <1>5, <1>6 DEF SameView

(* After a search is committed, the same, the address with its term.        *)
LEMMA DrawnIs ==
  ASSUME ListTyped, NEW l, OnTab(l)
  PROVE  LET k == Drawn(CommitSearch(l))
         IN  /\ OnTab(k) /\ k.at = l.at
             /\ Address(k).q = IF l.debounced = l.term /\ Trim(l.term) # l.search.q
                               THEN Trim(l.term) ELSE Address(l).q
             /\ k.search = l.search /\ k.term = l.term /\ k.debounced = l.debounced
             /\ k.unread <=> l.search \in unread
             /\ Asks(l.search) /\ cache[l.search] # -1
                  => /\ k.table = [of |-> l.search, rows |-> cache[l.search]]
                     /\ k.search = Address(k) => ~PastEnd(k)
<1>1. PICK m : m = CommitSearch(l)
  OBVIOUS
<1>2. /\ OnTab(m) /\ SameView(l, m) /\ m.at = l.at
      /\ Address(m).q = IF l.debounced = l.term /\ Trim(l.term) # l.search.q
                        THEN Trim(l.term) ELSE Address(l).q
  BY <1>1, CommitIs
<1>3. cache \in [Searches -> -1 .. 2] /\ unread \in SUBSET Searches
  BY DEF ListTyped
<1>4. PICK k : k = Drawn(m)
  OBVIOUS
<1>5. /\ OnTab(k) /\ k.at = m.at /\ Address(k).q = Address(m).q
      /\ k.search = m.search /\ k.term = m.term /\ k.debounced = m.debounced
      /\ k.unread <=> m.search \in unread
      /\ Asks(m.search) /\ cache[m.search] # -1
           => /\ k.table = [of |-> m.search, rows |-> cache[m.search]]
              /\ k.search = Address(k) => ~PastEnd(k)
  BY <1>2, <1>3, <1>4, ShownIs DEF Drawn
<1> QED BY <1>1, <1>2, <1>4, <1>5 DEF SameView

LEMMA ListInitially == ListInit => ListInv
<1>1. SUFFICES ASSUME ListInit PROVE ListInv
  OBVIOUS
<1>2. tab.history = <<Home>> /\ tab.at = 1 /\ tab.search = Home /\ tab.term = 0
  BY <1>1 DEF ListInit
<1>3. <<Home>> \in Seq(Searches) /\ Len(<<Home>>) = 1 /\ NoTable \in [of : Searches, rows : -1 .. 2]
  BY SearchesAre DEF NoTable
<1>4. OnTab(tab) /\ Address(tab) = Home
  BY <1>1, <1>3, SearchesAre DEF ListInit, OnTab, TabRows, Terms, Address
<1>5. ListTyped
  <2>1. cache \in [Searches -> -1 .. 2]
    BY <1>1 DEF ListInit
  <2> QED BY <1>1, <1>4, <2>1, SearchesAre DEF ListInit, ListTyped
<1>6. TableFollows(tab) /\ WithinEnd(tab)
  <2>1. cache[Home] = -1 /\ tab.search = Home /\ fetching = {Home} /\ unread = {}
    BY <1>1, SearchesAre DEF ListInit
  <2>2. tab.unread = FALSE
    BY <1>1 DEF ListInit
  <2> QED BY <2>1, <2>2 DEF TableFollows, WithinEnd
<1>7. BoxFollowed(tab)
  BY <1>1, <1>4, SearchesAre DEF ListInit, BoxFollowed, Trim
<1> QED BY <1>5, <1>6, <1>7 DEF ListInv

(* A user's act that changes nothing but the address.                       *)
LEMMA AddressMoves ==
  ASSUME ListInv, OnTab(tab'), SameView(tab, tab'), presses' = tab'.at,
         UNCHANGED <<cache, fetching, unread, gone>>,
         hurried' = (hurried \/ tab.search # Address(tab)),
         meant' \in 0 .. 1,
         ~hurried' => meant' = IF Trim(tab.term) # tab.search.q THEN Trim(tab.term)
                               ELSE Address(tab').q
  PROVE  ListInv'
<1> DEFINE view == SameView(tab, tab')
<1>1. hurried' \in BOOLEAN /\ (~hurried' => ~hurried /\ tab.search = Address(tab))
  BY DEF ListInv, ListTyped
<1>2. ListTyped'
  BY <1>1 DEF ListInv, ListTyped
<1>3. TableFollows(tab)'
  BY DEF ListInv, TableFollows, SameView
<1>4. ASSUME ~hurried' PROVE BoxFollowed(tab)' /\ WithinEnd(tab)'
  <2>1. BoxFollowed(tab) /\ WithinEnd(tab) /\ tab.search = Address(tab)
    BY <1>1, <1>4 DEF ListInv
  <2>2. ~(tab.term = tab.debounced /\ Trim(tab.term) # tab.search.q)
    BY <2>1 DEF BoxFollowed
  <2>3. BoxFollowed(tab)'
    BY <1>4, <2>2 DEF BoxFollowed, SameView
  <2>4. PastEnd(tab') = PastEnd(tab)
    BY DEF PastEnd, TableDrawn, SameView
  <2>5. WithinEnd(tab)'
    BY <2>1, <2>4 DEF WithinEnd, SameView
  <2> QED BY <2>3, <2>5
<1> QED BY <1>2, <1>3, <1>4 DEF ListInv

LEMMA MeantIs ==
  ASSUME ListInv, NEW q \in 0 .. 1
  PROVE  /\ MeantBy(q) = IF Trim(tab.term) # tab.search.q THEN Trim(tab.term) ELSE q
         /\ MeantBy(q) \in 0 .. 1
<1>1. tab.term \in Terms
  BY DEF ListInv, ListTyped, OnTab, TabRows
<1> QED BY <1>1, SearchesAre DEF MeantBy

LEMMA FilterStep ==
  ASSUME ListInv, NEW f \in {"none", "some", "backToFront"}, SetFilter(f)
  PROVE  ListInv'
<1>1. PICK a : a = [Address(tab) EXCEPT !.filter = f, !.page = 1]
  OBVIOUS
<1>2. OnTab(tab) /\ Address(tab) \in Searches
  BY AddressIs, SMTT(30) DEF ListInv, ListTyped
<1>3. a \in Searches /\ a.q = Address(tab).q
  BY <1>1, <1>2, FilterIs
<1>4. tab' = Replace(tab, a)
  BY <1>1 DEF SetFilter
<1>5. OnTab(tab') /\ SameView(tab, tab') /\ tab'.at = tab.at /\ Address(tab') = a
  BY <1>2, <1>3, <1>4, ReplaceIs
<1>6. /\ UNCHANGED <<cache, fetching, unread, gone>> /\ presses' = tab'.at
      /\ hurried' = (hurried \/ tab.search # Address(tab)) /\ meant' = meant /\ meant \in 0 .. 1
  BY <1>5 DEF SetFilter, Acts, ListInv, ListTyped
<1>7. ~hurried => BoxFollowed(tab)
  BY DEF ListInv
<1>8. ~hurried' => meant' = IF Trim(tab.term) # tab.search.q THEN Trim(tab.term)
                            ELSE Address(tab').q
  BY <1>3, <1>5, <1>6, <1>7 DEF BoxFollowed
<1> QED BY <1>5, <1>6, <1>8, AddressMoves

LEMMA PageStep ==
  ASSUME ListInv, NEW p \in 1 .. 2, TurnPage(p)
  PROVE  ListInv'
<1>1. PICK a : a = [Address(tab) EXCEPT !.page = p]
  OBVIOUS
<1>2. OnTab(tab) /\ Address(tab) \in Searches
  BY AddressIs DEF ListInv, ListTyped
<1>3. a \in Searches /\ a.q = Address(tab).q
  BY <1>1, <1>2, PageIs
<1>4. tab' = Push(tab, a)
  BY <1>1 DEF TurnPage
<1>5. OnTab(tab') /\ SameView(tab, tab') /\ Address(tab') = a
  BY <1>2, <1>3, <1>4, PushIs
<1>6. /\ UNCHANGED <<cache, fetching, unread, gone>> /\ presses' = tab'.at
      /\ hurried' = (hurried \/ tab.search # Address(tab)) /\ meant' = meant /\ meant \in 0 .. 1
  BY <1>5 DEF TurnPage, Acts, ListInv, ListTyped
<1>7. ~hurried => BoxFollowed(tab)
  BY DEF ListInv
<1>8. ~hurried' => meant' = IF Trim(tab.term) # tab.search.q THEN Trim(tab.term)
                            ELSE Address(tab').q
  BY <1>3, <1>5, <1>6, <1>7 DEF BoxFollowed
<1> QED BY <1>5, <1>6, <1>8, AddressMoves

(* Back, a link and the clearing of filters: the term on its way goes on.   *)
LEMMA ElsewhereStep ==
  ASSUME ListInv, ListBack \/ ListLink \/ ClearFilters
  PROVE  ListInv'
<1>1. OnTab(tab) /\ Home \in Searches /\ Home.q = 0 /\ presses = tab.at
  BY SearchesAre DEF ListInv, ListTyped
<1>2. /\ OnTab(tab') /\ SameView(tab, tab') /\ presses' = tab'.at
      /\ meant' = MeantBy(Address(tab').q)
  <2>1. CASE ListBack
    <3>1. tab' = [tab EXCEPT !.at = tab.at - 1] /\ tab.at > 1 /\ presses' = presses - 1
          /\ meant' = MeantBy(Address(tab').q)
      BY <2>1 DEF ListBack
    <3>2. tab'.at = tab.at - 1 /\ OnTab(tab') /\ SameView(tab, tab')
      BY <1>1, <3>1 DEF OnTab, TabRows, SameView
    <3> QED BY <1>1, <3>1, <3>2
  <2>2. CASE ListLink
    BY <1>1, <2>2, PushIs DEF ListLink
  <2>3. CASE ClearFilters
    BY <1>1, <2>3, ReplaceIs DEF ClearFilters
  <2> QED BY <2>1, <2>2, <2>3
<1>3. UNCHANGED <<cache, fetching, unread, gone>> /\ hurried' = (hurried \/ tab.search # Address(tab))
  BY DEF ListBack, ListLink, ClearFilters, Acts
<1>4. Address(tab').q \in 0 .. 1
  BY <1>2, AddressIs, SearchesAre
<1>5. /\ meant' \in 0 .. 1
      /\ meant' = IF Trim(tab.term) # tab.search.q THEN Trim(tab.term) ELSE Address(tab').q
  BY <1>2, <1>4, MeantIs
<1> QED BY <1>2, <1>3, <1>5, AddressMoves

(* The tab is drawn after a search is committed; all but the tab, the term  *)
(* meant and what is asked for stays.                                       *)
LEMMA Redraws ==
  ASSUME ListInv, NEW l, OnTab(l), l.at = tab.at, tab' = Drawn(CommitSearch(l)),
         UNCHANGED <<cache, unread, gone, presses>>,
         fetching' \in SUBSET Searches, hurried' \in BOOLEAN, meant' \in 0 .. 1,
         Asks(l.search) /\ cache[l.search] = -1 => l.search \in fetching' \cup unread,
         ~hurried' => meant' = IF Trim(l.term) # l.search.q THEN Trim(l.term) ELSE Address(l).q
  PROVE  ListInv'
<1>1. ListTyped
  BY DEF ListInv
<1>2. /\ OnTab(tab') /\ tab'.at = l.at
      /\ Address(tab').q = IF l.debounced = l.term /\ Trim(l.term) # l.search.q
                           THEN Trim(l.term) ELSE Address(l).q
      /\ tab'.search = l.search /\ tab'.term = l.term /\ tab'.debounced = l.debounced
      /\ tab'.unread <=> l.search \in unread
      /\ Asks(l.search) /\ cache[l.search] # -1
           => /\ tab'.table = [of |-> l.search, rows |-> cache[l.search]]
              /\ tab'.search = Address(tab') => ~PastEnd(tab')
  BY <1>1, DrawnIs
<1>3. ListTyped'
  BY <1>1, <1>2 DEF ListTyped
<1>4. TableFollows(tab)'
  BY <1>2 DEF TableFollows
<1>5. WithinEnd(tab)'
  BY <1>2 DEF WithinEnd
<1>6. ~hurried' => BoxFollowed(tab)'
  BY <1>2 DEF BoxFollowed
<1> QED BY <1>3, <1>4, <1>5, <1>6 DEF ListInv

LEMMA TypeStep ==
  ASSUME ListInv, NEW term \in Terms, ListType(term)
  PROVE  ListInv'
<1>1. PICK l : l = [tab EXCEPT !.term = term]
  OBVIOUS
<1>2. OnTab(tab) /\ tab.term \in Terms
  BY DEF ListInv, ListTyped, OnTab, TabRows
<1>3. /\ OnTab(l) /\ l.at = tab.at /\ l.search = tab.search /\ l.term = term
      /\ l.debounced = tab.debounced /\ Address(l) = Address(tab)
  BY <1>1, <1>2 DEF OnTab, TabRows, Address
<1>4. /\ tab' = Drawn(CommitSearch(l)) /\ UNCHANGED <<cache, fetching, unread, gone, presses>>
      /\ hurried' = (hurried \/ tab.search # Address(tab)) /\ meant' = Trim(term)
  BY <1>1 DEF ListType, Acts
<1>5. fetching' \in SUBSET Searches /\ hurried' \in BOOLEAN /\ meant' \in 0 .. 1
  BY <1>4, SearchesAre DEF ListInv, ListTyped
<1>6. Asks(l.search) /\ cache[l.search] = -1 => l.search \in fetching' \cup unread
  BY <1>3, <1>4 DEF ListInv, TableFollows
<1>7. ~hurried' => meant' = IF Trim(l.term) # l.search.q THEN Trim(l.term) ELSE Address(l).q
  BY <1>3, <1>4
<1> QED BY <1>3, <1>4, <1>5, <1>6, <1>7, Redraws

LEMMA PauseStep ==
  ASSUME ListInv, ListPause
  PROVE  ListInv'
<1>1. PICK l : l = [tab EXCEPT !.debounced = tab.term]
  OBVIOUS
<1>2. OnTab(tab) /\ tab.term \in Terms
  BY DEF ListInv, ListTyped, OnTab, TabRows
<1>3. /\ OnTab(l) /\ l.at = tab.at /\ l.search = tab.search /\ l.term = tab.term
      /\ Address(l) = Address(tab)
  BY <1>1, <1>2 DEF OnTab, TabRows, Address
<1>4. /\ tab' = Drawn(CommitSearch(l)) /\ UNCHANGED <<cache, fetching, unread, gone, presses>>
      /\ hurried' = hurried /\ meant' = meant
  BY <1>1 DEF ListPause
<1>5. fetching' \in SUBSET Searches /\ hurried' \in BOOLEAN /\ meant' \in 0 .. 1
  BY <1>4 DEF ListInv, ListTyped
<1>6. Asks(l.search) /\ cache[l.search] = -1 => l.search \in fetching' \cup unread
  BY <1>3, <1>4 DEF ListInv, TableFollows
<1>7. ~hurried' => meant' = IF Trim(l.term) # l.search.q THEN Trim(l.term) ELSE Address(l).q
  BY <1>3, <1>4 DEF ListInv, BoxFollowed
<1> QED BY <1>3, <1>4, <1>5, <1>6, <1>7, Redraws

(* The box holds the address's term when it is drawn, or one still on its   *)
(* way there.                                                               *)
LEMMA DrawStep ==
  ASSUME ListInv, RouterDraws
  PROVE  ListInv'
<1>1. OnTab(tab) /\ tab.term \in Terms /\ Address(tab) \in Searches /\ tab.search \in Searches
  BY AddressIs DEF ListInv, ListTyped, OnTab, TabRows
<1>2. PICK b : b = BoxFollows(tab)
  OBVIOUS
<1>3. Address(tab).q \in 0 .. 1 /\ Address(tab).q \in Terms /\ tab.search.q \in 0 .. 1
      /\ Trim(tab.term) \in 0 .. 1 /\ Trim(Address(tab).q) = Address(tab).q
  BY <1>1, SearchesAre DEF Terms, Trim
<1>4. /\ OnTab(b) /\ b.at = tab.at /\ b.search = tab.search /\ b.debounced = tab.debounced
      /\ Address(b) = Address(tab)
      /\ b.term = IF Address(tab).q # tab.search.q /\ Trim(tab.term) # Address(tab).q
                  THEN Address(tab).q ELSE tab.term
  BY <1>1, <1>2, <1>3 DEF BoxFollows, OnTab, TabRows, Address
<1>5. PICK l : l = [b EXCEPT !.search = Address(tab)]
  OBVIOUS
<1>6. /\ OnTab(l) /\ l.at = tab.at /\ l.search = Address(tab) /\ l.term = b.term
      /\ l.debounced = tab.debounced /\ Address(l) = Address(tab)
  BY <1>1, <1>4, <1>5 DEF OnTab, TabRows, Address
<1>7. /\ tab' = Drawn(CommitSearch(l)) /\ UNCHANGED <<cache, unread, gone, presses, meant, hurried>>
      /\ fetching' = IF Asks(tab'.search) /\ cache[tab'.search] = -1
                     THEN fetching \cup {tab'.search} ELSE fetching
  BY <1>2, <1>5 DEF RouterDraws
<1>8. tab'.search = l.search
  BY <1>6, <1>7, DrawnIs DEF ListInv
<1>9. fetching' \in SUBSET Searches /\ hurried' \in BOOLEAN /\ meant' \in 0 .. 1
  BY <1>1, <1>6, <1>7, <1>8 DEF ListInv, ListTyped
<1>10. Asks(l.search) /\ cache[l.search] = -1 => l.search \in fetching' \cup unread
  BY <1>7, <1>8
<1>11. ASSUME ~hurried'
       PROVE  meant' = IF Trim(l.term) # l.search.q THEN Trim(l.term) ELSE Address(l).q
  <2>1. /\ meant = IF Trim(tab.term) # tab.search.q THEN Trim(tab.term) ELSE Address(tab).q
    BY <1>7, <1>11 DEF ListInv, BoxFollowed
  <2>2. meant' = meant
    BY <1>7
  <2> QED BY ONLY <1>3, <1>4, <1>6, <2>1, <2>2
<1> QED BY <1>6, <1>7, <1>9, <1>10, <1>11, Redraws

LEMMA RowsAre ==
  ASSUME ListInv, NEW s \in Searches
  PROVE  RowsOf(s) \in 0 .. 2
<1>1. PICK n : n = (IF s.q = 0 /\ s.filter = "none" THEN 2 ELSE 1)
  OBVIOUS
<1>2. n \in 1 .. 2 /\ gone \in Nat
  BY <1>1 DEF ListInv, ListTyped
<1> QED BY <1>1, <1>2 DEF RowsOf

LEMMA AnswerStep ==
  ASSUME ListInv, NEW s \in Searches, ListAnswer(s)
  PROVE  ListInv'
<1>1. OnTab(tab) /\ tab.search \in Searches /\ ListTyped
  BY DEF ListInv, ListTyped, OnTab, TabRows
<1>2. /\ fetching' = fetching \ {s} /\ unread' = unread \ {s}
      /\ cache' = [cache EXCEPT ![s] = RowsOf(s)]
      /\ tab' = StepBack(WithTable(tab, cache', unread'))
      /\ UNCHANGED <<gone, moves, presses, meant, hurried>>
  BY DEF ListAnswer
<1>3. /\ cache' \in [Searches -> -1 .. 2] /\ unread' \in SUBSET Searches /\ cache'[s] # -1
      /\ \A k \in Searches \ {s} : cache'[k] = cache[k]
  BY <1>1, <1>2, RowsAre DEF ListTyped
<1>4. /\ OnTab(tab') /\ tab'.at = tab.at /\ Address(tab').q = Address(tab).q
      /\ tab'.search = tab.search /\ tab'.term = tab.term /\ tab'.debounced = tab.debounced
      /\ tab'.unread <=> tab.search \in unread'
      /\ Asks(tab.search) /\ cache'[tab.search] # -1
           => /\ tab'.table = [of |-> tab.search, rows |-> cache'[tab.search]]
              /\ tab'.search = Address(tab') => ~PastEnd(tab')
  <2>1. PICK answers, lost : answers = cache' /\ lost = unread'
    OBVIOUS
  <2>2. /\ answers \in [Searches -> -1 .. 2] /\ lost \in SUBSET Searches
        /\ tab' = StepBack(WithTable(tab, answers, lost))
    BY <1>2, <1>3, <2>1
  <2>3. /\ OnTab(tab') /\ tab'.at = tab.at /\ Address(tab').q = Address(tab).q
        /\ tab'.search = tab.search /\ tab'.term = tab.term /\ tab'.debounced = tab.debounced
        /\ tab'.unread <=> tab.search \in lost
        /\ Asks(tab.search) /\ answers[tab.search] # -1
             => /\ tab'.table = [of |-> tab.search, rows |-> answers[tab.search]]
                /\ tab'.search = Address(tab') => ~PastEnd(tab')
    BY <1>1, <2>2, ShownIs
  <2> QED BY <2>1, <2>3
<1>5. ListTyped'
  BY <1>1, <1>2, <1>3, <1>4 DEF ListTyped
<1>6. TableFollows(tab)'
  BY <1>1, <1>2, <1>3, <1>4 DEF ListInv, TableFollows
<1>7. WithinEnd(tab)'
  BY <1>4 DEF WithinEnd
<1>8. ~hurried' => BoxFollowed(tab)'
  BY <1>2, <1>4 DEF ListInv, BoxFollowed
<1> QED BY <1>5, <1>6, <1>7, <1>8 DEF ListInv

LEMMA FailureStep ==
  ASSUME ListInv, NEW s \in Searches, ListFails(s)
  PROVE  ListInv'
<1>1. OnTab(tab) /\ tab.search \in Searches /\ ListTyped
  BY DEF ListInv, ListTyped, OnTab, TabRows
<1>2. /\ fetching' = fetching \ {s} /\ unread' = unread \cup {s}
      /\ tab' = WithTable(tab, cache, unread')
      /\ UNCHANGED <<cache, gone, moves, presses, meant, hurried>>
  BY DEF ListFails
<1>3. cache \in [Searches -> -1 .. 2] /\ unread' \in SUBSET Searches
  BY <1>1, <1>2 DEF ListTyped
<1>4. /\ OnTab(tab') /\ tab'.at = tab.at /\ Address(tab') = Address(tab)
      /\ tab'.search = tab.search /\ tab'.term = tab.term /\ tab'.debounced = tab.debounced
      /\ tab'.unread <=> tab.search \in unread'
      /\ tab'.table = IF Asks(tab.search) /\ cache[tab.search] # -1
                      THEN [of |-> tab.search, rows |-> cache[tab.search]] ELSE tab.table
  BY <1>1, <1>2, <1>3, TableIs
<1>5. ListTyped'
  BY <1>1, <1>2, <1>3, <1>4 DEF ListTyped
<1>6. TableFollows(tab)'
  BY <1>1, <1>2, <1>3, <1>4 DEF ListInv, TableFollows
<1>7. ASSUME ~hurried' PROVE WithinEnd(tab)'
  <2>1. SUFFICES ASSUME tab.search = Address(tab), Asks(tab.search), cache[tab.search] # -1,
                        PastEnd(tab')
                 PROVE  FALSE
    BY <1>2, <1>4 DEF WithinEnd
  <2>2. ~PastEnd(tab) /\ tab.table = [of |-> tab.search, rows |-> cache[tab.search]]
        /\ (tab.unread <=> tab.search \in unread)
    BY <1>2, <1>7, <2>1 DEF ListInv, WithinEnd, TableFollows
  <2>3. tab'.table = tab.table /\ ~tab'.unread /\ tab.search \notin unread'
    BY <1>4, <2>1, <2>2 DEF PastEnd, TableDrawn
  <2>4. ~tab.unread
    BY <1>2, <2>2, <2>3
  <2> QED BY <1>4, <2>1, <2>2, <2>3, <2>4 DEF PastEnd, TableDrawn, LastPage
<1>8. ~hurried' => BoxFollowed(tab)'
  BY <1>2, <1>4 DEF ListInv, BoxFollowed
<1> QED BY <1>5, <1>6, <1>7, <1>8 DEF ListInv

LEMMA ListStep == ListInv /\ [ListNext]_listVars => ListInv'
<1> SUFFICES ASSUME ListInv, [ListNext]_listVars PROVE ListInv'
  OBVIOUS
<1>1. CASE RowsReadAgain
  <2>1. tab.search \in Searches
    BY DEF ListInv, ListTyped, OnTab, TabRows
  <2> QED BY <1>1, <2>1 DEF RowsReadAgain, ListInv, ListTyped, TableFollows, BoxFollowed, WithinEnd
<1>2. CASE RowGoes
  <2>1. gone' \in Nat
    BY <1>2 DEF RowGoes, ListInv, ListTyped
  <2> QED BY <1>2, <2>1 DEF RowGoes, ListInv, ListTyped, TableFollows, BoxFollowed, WithinEnd
<1>3. CASE UNCHANGED listVars
  BY <1>3 DEF listVars, ListInv, ListTyped, TableFollows, BoxFollowed, WithinEnd
<1>4. CASE ListPause
  BY <1>4, PauseStep
<1>5. CASE RouterDraws
  BY <1>5, DrawStep
<1>6. CASE ListBack \/ ListLink \/ ClearFilters
  BY <1>6, ElsewhereStep
<1>7. ASSUME NEW term \in 0 .. 2, ListType(term) PROVE ListInv'
  BY <1>7, TypeStep DEF Terms
<1>8. ASSUME NEW f \in {"none", "some", "backToFront"}, SetFilter(f) PROVE ListInv'
  BY <1>8, FilterStep
<1>9. ASSUME NEW p \in 1 .. 2, TurnPage(p) PROVE ListInv'
  BY <1>9, PageStep
<1>10. ASSUME NEW s \in Searches, ListAnswer(s) \/ ListFails(s) PROVE ListInv'
  BY <1>10, AnswerStep, FailureStep
<1> QED BY <1>1, <1>2, <1>3, <1>4, <1>5, <1>6, <1>7, <1>8, <1>9, <1>10 DEF ListNext

LEMMA ListInvHolds == ListSpec => []ListInv
BY ListInitially, ListStep, PTL DEF ListSpec

LEMMA ListSettles == ListInv => ListSettlesOnItsAddress
<1> SUFFICES ASSUME ListInv PROVE ListSettlesOnItsAddress
  OBVIOUS
<1>1. tab.at = presses
  BY DEF ListInv, ListTyped
<1>2. ASSUME AtPause
      PROVE  /\ Asks(tab.search) => tab.unread \/ TableDrawn(tab)
             /\ TableDrawn(tab) => tab.table.of = tab.search
             /\ ~hurried => ~PastEnd(tab) /\ Trim(tab.term) = tab.search.q
                            /\ tab.search.q = meant
  <2>1. /\ tab.search = Address(tab) /\ tab.search \notin fetching /\ tab.term = tab.debounced
        /\ (tab.unread <=> tab.search \in unread)
    BY <1>2 DEF AtPause, ListInv, TableFollows
  <2>2. ASSUME Asks(tab.search), ~tab.unread
        PROVE  /\ tab.table = [of |-> tab.search, rows |-> cache[tab.search]]
               /\ cache[tab.search] # -1
    BY <2>1, <2>2 DEF ListInv, TableFollows
  <2>3. Asks(tab.search) => tab.unread \/ TableDrawn(tab)
    BY <2>2 DEF TableDrawn
  <2>4. TableDrawn(tab) => tab.table.of = tab.search
    BY <2>2 DEF TableDrawn
  <2>5. ASSUME ~hurried
        PROVE  ~PastEnd(tab) /\ Trim(tab.term) = tab.search.q /\ tab.search.q = meant
    <3>1. BoxFollowed(tab) /\ WithinEnd(tab)
      BY <2>5 DEF ListInv
    <3>2. ~PastEnd(tab)
      BY <2>1, <2>2, <3>1 DEF WithinEnd, PastEnd, TableDrawn
    <3> QED BY <2>1, <3>1, <3>2 DEF BoxFollowed
  <2> QED BY <2>3, <2>4, <2>5
<1> QED BY <1>1, <1>2 DEF ListSettlesOnItsAddress

(* However the box is typed in, filters and pages pressed and Back taken,   *)
(* whatever comes late or fails: once nothing is on its way, the table of   *)
(* data-table.tsx shows the page the address of use-list-route.ts names,    *)
(* the box of use-search-input.ts its term, and Back undoes one press.      *)
THEOREM ListsSettle == ListSpec => []ListSettlesOnItsAddress
BY ListInvHolds, ListSettles, PTL
=============================================================================
