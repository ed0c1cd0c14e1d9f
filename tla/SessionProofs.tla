--------------------------- MODULE SessionProofs ---------------------------
(***************************************************************************)
(* For any number of accounts, sessions and requests at work at once, each *)
(* rolled back at any point: sessions end for good, a revoked one keeps no *)
(* usable token, and an administrator remains.                             *)
(*                                                                         *)
(* The argument is what READ COMMITTED and row locks leave of it: what a   *)
(* request has written but not committed is of rows it has locked or is    *)
(* about to add, no two requests write the same row, and so what each of   *)
(* them found under its locks still holds when it commits.                 *)
(*                                                                         *)
(* And the gate before the password checks of the same module: for any     *)
(* number of callers, slots and places in the queue, no slot is lost and   *)
(* none is made up.                                                        *)
(***************************************************************************)
EXTENDS Sessions, Semaphore, TLAPS, FiniteSetTheorems, SequenceTheorems

AllOps == {"login", "rotate", "logout", "logoutAll", "reset", "change",
           "deactivate", "activate", "demote", "promote", "recover", "recoverPromote"}
FamilyOps == {"rotate", "logout"}
Asking    == {"lockFamily", "decide", "listAdmins", "lockAdmins", "lockUser", "check"}
Closing   == {"audit", "commit"}
Pcs       == {"idle", "read", "revoke"} \cup Asking \cup Closing

Changes(S, R) == UNION {[D -> R] : D \in SUBSET S}
Writes == [user : Changes(Users, UserRows), families : Changes(FamilyIds, FamilyRows),
           tokens : Changes(TokenIds, TokenRows)]
Requests ==
    [op : AllOps \cup {"none"}, pc : Pcs, actor : 0 .. MaxUsers, user : 0 .. MaxUsers,
     token : 0 .. MaxTokens, family : 0 .. MaxFamilies, password : Versions,
     version : Editions, todo : SUBSET Nat, found : SUBSET FamilyIds, tv : Versions,
     answers : BOOLEAN, accounts : SUBSET Users, shares : SUBSET (0 .. MaxUsers),
     holds : SUBSET FamilyIds, writes : Writes]
Typed == TypeOK /\ txs \in [Txs -> Requests]

(* Two requests lock and write apart. *)
Apart(s, r) ==
    /\ s.accounts \cap r.accounts = {}
    /\ s.holds \cap r.holds = {}
    /\ DOMAIN s.writes.families \cap DOMAIN r.writes.families = {}
    /\ DOMAIN s.writes.tokens \cap DOMAIN r.writes.tokens = {}

(* Nothing is written before the locks are had; an operation on an account *)
(* has it locked from its check on.                                        *)
Locked(s) ==
    /\ s.pc \in Asking \cup {"idle"} => s.writes = NoWrites /\ ~s.answers
    /\ s.pc = "revoke" => DOMAIN s.writes.user = {} /\ DOMAIN s.writes.tokens = {} /\ ~s.answers
    /\ s.pc \in {"check", "revoke"} \/ (s.pc \in Closing /\ s.op \notin FamilyOps)
          => s.user \in s.accounts
    /\ s.pc \in {"listAdmins", "lockAdmins", "lockUser", "check"} =>
          s.user \in Users /\ s.holds = {}
    /\ s.pc \in {"lockFamily", "decide"} =>
          /\ s.family \in FamilyIds /\ families[s.family].state # "none"
          /\ s.token \in TokenIds /\ tokens[s.token].status # "none"
          /\ tokens[s.token].family = s.family
    /\ s.pc = "decide" => s.family \in s.holds
    /\ s.pc = "read" => s.op \in FamilyOps
    /\ s.pc = "lockAdmins" => s.todo \subseteq Users

(* The account as the request leaves it. *)
After(s) == IF s.user \in DOMAIN s.writes.user THEN s.writes.user[s.user] ELSE users[s.user]

(* A session written is one the request holds, kept or revoked, or one it  *)
(* opens, on its account as it will be.                                    *)
Kept(s, f) ==
    LET row == s.writes.families[f]
    IN  /\ f \in s.holds /\ families[f].state # "none"
        /\ row.user = families[f].user /\ row.born = families[f].born /\ row.by = families[f].by
        /\ row.state = "revoked" \/ (row.state = "live" /\ families[f].state = "live")
Opens(s, f) ==
    LET row == s.writes.families[f]
    IN  /\ families[f].state = "none" /\ row.state = "live"
        /\ s.user \in s.accounts /\ row.user = s.user
        /\ row.born = After(s).tv /\ (After(s).active \/ row.by = "change")
        /\ s.pc \in Closing /\ s.op \notin FamilyOps
FamilyWrites(s) == \A f \in DOMAIN s.writes.families : Kept(s, f) \/ Opens(s, f)

(* Whoever ends an account's sessions writes every live one as revoked.    *)
EndsLive(s) ==
    \A f \in FamilyIds : families[f].state = "live" /\ families[f].user = s.user =>
        f \in DOMAIN s.writes.families /\ s.writes.families[f].state = "revoked"
AccountWrites(s) ==
    \A u \in DOMAIN s.writes.user :
        /\ u = s.user /\ u \in s.accounts
        /\ s.writes.user[u].password <= s.writes.user[u].tv
        /\ \/ EndsLive(s)
           \/ /\ s.writes.user[u].tv = users[u].tv
              /\ users[u].active => s.writes.user[u].active
Ending(s) ==
    s.pc = "revoke" =>
        /\ s.op \in EndsAll
        /\ DOMAIN s.writes.families = s.holds
        /\ \A f \in DOMAIN s.writes.families : s.writes.families[f].state = "revoked"
        /\ s.todo \subseteq s.found /\ s.holds \subseteq s.found
        /\ \A f \in s.found :
              /\ families[f].user = s.user /\ families[f].state # "none"
              /\ f \in s.todo \/ f \in s.holds \/ families[f].state = "revoked"
        /\ \A f \in FamilyIds : families[f].state = "live" /\ families[f].user = s.user =>
              f \in s.todo \/ f \in s.holds

(* A token written is of a session written: one of a session revoked is    *)
(* revoked, all of them are, and no session is left two active ones.       *)
TokenWrites(s) ==
    LET wrote == s.writes.tokens
    IN  /\ \A k \in DOMAIN wrote :
              /\ wrote[k].status # "none"
              /\ wrote[k].family \in DOMAIN s.writes.families
              /\ tokens[k].status # "none" => tokens[k].family = wrote[k].family
              /\ s.writes.families[wrote[k].family].state = "revoked" => wrote[k].status = "REVOKED"
              /\ wrote[k].status = "ACTIVE" =>
                    /\ \A j \in DOMAIN wrote :
                          wrote[j].status = "ACTIVE" /\ wrote[j].family = wrote[k].family => j = k
                    /\ \A j \in TokensOf({wrote[k].family}) :
                          tokens[j].status = "ACTIVE" => j \in DOMAIN wrote
        /\ s.pc \in Closing =>
              \A f \in DOMAIN s.writes.families : s.writes.families[f].state = "revoked" =>
                  \A k \in TokensOf({f}) : tokens[k].status = "REVOKED" \/ k \in DOMAIN wrote

(* What is answered is of the session written. *)
Answers(s) ==
    s.pc = "read" \/ s.answers =>
        /\ s.family \in DOMAIN s.writes.families
        /\ s.writes.families[s.family].user = s.user
        /\ s.writes.families[s.family].state = "live"
        /\ s.pc = "read" => /\ Kept(s, s.family) /\ ~s.answers
                            /\ DOMAIN s.writes.families = {s.family}
        /\ s.answers => s.writes.families[s.family].born = s.tv

Own(s) == /\ Locked(s) /\ FamilyWrites(s) /\ AccountWrites(s) /\ Ending(s)
          /\ TokenWrites(s) /\ Answers(s)

(* Sessions have an account, tokens and answers a session; a new password   *)
(* comes with a new token_version.                                          *)
Related ==
    /\ \A u \in Users : users[u].password <= users[u].tv
    /\ \A f \in FamilyIds : families[f].state # "none" => families[f].user \in Users
    /\ \A k \in TokenIds : tokens[k].status # "none" =>
          tokens[k].family \in FamilyIds /\ families[tokens[k].family].state # "none"
    /\ \A g \in grants : families[g.family].state # "none"

SessionInv ==
    /\ Typed /\ Related /\ EverySessionIsCurrent
    /\ \A t \in Txs : Own(txs[t])
    /\ \A t \in Txs : \A o \in Others(t) : Apart(txs[t], txs[o])
-----------------------------------------------------------------------------
(* Administrators. A request that would take power from an administrator,   *)
(* as things stand: the version it names is the account's.                  *)
Power(u) == users[u].active /\ users[u].admin
Takes(s) == s.op \in {"deactivate", "demote"}
Listed   == {"lockAdmins", "lockUser", "check", "revoke", "audit", "commit"}
Strong(s) == /\ Takes(s) /\ s.pc \in Listed
             /\ s.version = users[s.user].version /\ Power(s.user)
Decided(s) == Takes(s) /\ s.pc \in {"revoke"} \cup Closing

(* The accounts it has locked, or means to before it looks at its own. *)
Reach(s) == s.accounts \cup (IF s.pc = "lockAdmins" THEN s.todo ELSE {})

(* Of two such, one at least meets the other: whichever listed the          *)
(* administrators later found the other's among them.                       *)
Meet(s, r) == Strong(s) /\ Strong(r) => s.user \in Reach(r) \/ r.user \in Reach(s)

Keeps(s) ==
    /\ s.pc # "idle" /\ s.op \in Powers => s.user \in Users /\ s.version <= users[s.user].version
    /\ Decided(s) => /\ s.version = users[s.user].version
                     /\ Power(s.user) => \E a \in Users \ {s.user} : Power(a)
    /\ \A u \in DOMAIN s.writes.user :
          LET row == s.writes.user[u]
          IN  /\ row.version >= users[u].version
              /\ row.version = users[u].version =>
                    row.active = users[u].active /\ row.admin = users[u].admin
              /\ ~Takes(s) /\ Power(u) => row.active /\ row.admin

PowerInv ==
    /\ SessionInv /\ AdminRemains
    /\ \A t \in Txs : Keeps(txs[t])
    /\ \A t \in Txs : \A o \in Others(t) : Meet(txs[t], txs[o])
-----------------------------------------------------------------------------
LEMMA RequestTypes ==
  ASSUME Typed, NEW t \in Txs
  PROVE  txs[t] \in Requests
  BY DEF Typed

(* A change is a function over part of the rows. *)
LEMMA ChangeTypes ==
  ASSUME NEW S, NEW R, NEW c \in Changes(S, R)
  PROVE  /\ DOMAIN c \subseteq S
         /\ \A x \in DOMAIN c : c[x] \in R
         /\ c = [x \in DOMAIN c |-> c[x]]
  BY DEF Changes
LEMMA ChangeMade ==
  ASSUME NEW S, NEW R, NEW D \in SUBSET S, NEW c \in [D -> R]
  PROVE  c \in Changes(S, R) /\ DOMAIN c = D
  BY DEF Changes
LEMMA NoChange ==
  ASSUME NEW S, NEW R
  PROVE  NoRow \in Changes(S, R) /\ DOMAIN NoRow = {}
<1>1. NoRow \in [{} -> R] /\ DOMAIN NoRow = {}
  BY DEF NoRow
<1> QED BY <1>1, ChangeMade

(* What a request at work sees: a step of its own, with the database left   *)
(* alone.                                                                  *)
LEMMA StepKeeps ==
  ASSUME SessionInv, NEW t \in Txs, NEW next \in Requests, Step(t, next), Own(next),
         \A o \in Others(t) : Apart(next, txs[o])
  PROVE  SessionInv'
<1>1. UNCHANGED <<users, families, tokens, grants>>
  BY DEF Step
<1>2. txs' \in [Txs -> Requests] /\ txs'[t] = next /\ \A o \in Others(t) : txs'[o] = txs[o]
  BY DEF Step, SessionInv, Typed, Others
<1>3. Typed' /\ Related' /\ EverySessionIsCurrent'
  BY <1>1, <1>2 DEF SessionInv, Typed, TypeOK, Related, EverySessionIsCurrent, LiveIsCurrent,
                    GrantsAreOfTheirSession, RevokedHasNoToken, OneActiveToken, TokensOf
<1>4. \A o \in Txs : Own(txs'[o])
  BY <1>2 DEF SessionInv, Others
<1>5. \A o \in Txs : Own(txs[o])'
  <2> SUFFICES ASSUME NEW o \in Txs PROVE Own(txs[o])'
    OBVIOUS
  <2>1. Own(txs'[o])
    BY <1>4
  <2>2. Locked(txs[o])' /\ Ending(txs[o])'
    BY <1>1, <2>1 DEF Own, Locked, Ending
  <2>3. FamilyWrites(txs[o])' /\ AccountWrites(txs[o])'
    BY <1>1, <2>1, SMTT(40) DEF Own, FamilyWrites, AccountWrites, Kept, Opens, After, EndsLive
  <2>4. TokenWrites(txs[o])' /\ Answers(txs[o])'
    BY <1>1, <2>1 DEF Own, TokenWrites, TokensOf, Answers, Kept
  <2> QED BY <2>2, <2>3, <2>4 DEF Own
<1>6. \A o \in Txs : \A r \in Others(o) : Apart(txs[o], txs[r])'
  BY <1>2 DEF SessionInv, Others, Apart
<1> QED BY <1>3, <1>5, <1>6 DEF SessionInv, Others

LEMMA NothingWritten ==
  /\ NoWrites \in Writes
  /\ DOMAIN NoWrites.user = {} /\ DOMAIN NoWrites.families = {} /\ DOMAIN NoWrites.tokens = {}
  BY NoChange DEF NoWrites, Writes

(* A request that has written nothing yet. *)
LEMMA UnwrittenIsOwn ==
  ASSUME NEW s \in Requests, s.writes = NoWrites, ~s.answers, s.pc \in Asking \cup {"idle"},
         Locked(s)
  PROVE  Own(s)
<1>1. s.pc \notin Closing \cup {"read", "revoke"}
  BY DEF Asking, Closing
<1> QED BY <1>1, NothingWritten DEF Own, FamilyWrites, AccountWrites, Ending, TokenWrites, Answers

LEMMA UnwrittenApart ==
  ASSUME NEW s, NEW r, s.writes = NoWrites, s.accounts \cap r.accounts = {},
         s.holds \cap r.holds = {}
  PROVE  Apart(s, r)
  BY NothingWritten DEF Apart

LEMMA IdleIsOwn ==
  /\ Idle \in Requests /\ Own(Idle)
  /\ \A r : Apart(Idle, r)
<1>1. 0 \in Versions /\ 0 \in Editions
  BY SessionsAssumption DEF Versions, Editions
<1>2. Idle \in Requests
  BY <1>1, NothingWritten, SessionsAssumption DEF Idle, Requests, Pcs, AllOps
<1>3. Locked(Idle)
  BY DEF Locked, Idle, Asking, Closing
<1>4. Own(Idle)
  BY <1>2, <1>3, UnwrittenIsOwn DEF Idle
<1> QED BY <1>2, <1>4, UnwrittenApart DEF Idle

LEMMA RefusedKeeps ==
  ASSUME SessionInv, NEW t \in Txs, Refused(t)
  PROVE  SessionInv'
  BY IdleIsOwn, StepKeeps DEF Refused

(* A request is asked for: what it is about to lock is known, and exists. *)
LEMMA AskKeeps ==
  ASSUME SessionInv, NEW t \in Txs, NEW request \in Requests, Ask(t, request),
         request.writes = NoWrites, ~request.answers, request.accounts = {}, request.holds = {},
         \/ /\ request.pc = "lockFamily"
            /\ request.family \in FamilyIds /\ families[request.family].state # "none"
            /\ request.token \in TokenIds /\ tokens[request.token].status # "none"
            /\ tokens[request.token].family = request.family
         \/ request.pc \in {"listAdmins", "lockUser"} /\ request.user \in Users
  PROVE  SessionInv'
<1>1. Locked(request)
  BY DEF Locked, Asking, Closing
<1>2. Own(request)
  BY <1>1, UnwrittenIsOwn DEF Asking
<1> QED BY <1>2, UnwrittenApart, StepKeeps DEF Ask

LEMMA SubmitKeeps ==
  ASSUME SessionInv, NEW t \in Txs, Submit(t)
  PROVE  SessionInv'
<1> USE SessionsAssumption
<1>0. /\ 0 \in Versions /\ 0 \in Editions /\ 0 \in 0 .. MaxUsers
      /\ Users \subseteq 0 .. MaxUsers /\ TokenIds \subseteq 0 .. MaxTokens
      /\ FamilyIds \subseteq 0 .. MaxFamilies
  BY DEF Versions, Editions, Users, TokenIds, FamilyIds
<1>i. \A op \in AllOps :
         \E r \in Requests : /\ r = Request(op) /\ r.writes = NoWrites /\ r.answers = FALSE
                             /\ r.accounts = {} /\ r.holds = {}
  <2> SUFFICES ASSUME NEW op \in AllOps
               PROVE  /\ Request(op) \in Requests /\ Request(op).writes = NoWrites
                      /\ Request(op).answers = FALSE /\ Request(op).accounts = {}
                      /\ Request(op).holds = {}
    OBVIOUS
  <2>1. PICK idle \in Requests : idle = Idle
    BY IdleIsOwn
  <2>2. Request(op) = [idle EXCEPT !.op = op]
    BY <2>1 DEF Request
  <2>3. /\ idle.writes = NoWrites /\ idle.answers = FALSE
        /\ idle.accounts = {} /\ idle.holds = {}
    BY <2>1 DEF Idle
  <2> QED BY <2>2, <2>3 DEF Requests
<1>u. \A u \in Users : users[u] \in UserRows
  BY DEF SessionInv, Typed, TypeOK
<1>1. CASE \E u \in Users : AskLogin(t, u)
  <2>1. PICK u \in Users : AskLogin(t, u)
    BY <1>1
  <2>b. PICK base \in Requests :
           /\ base = Request("login") /\ base.writes = NoWrites /\ base.answers = FALSE
           /\ base.accounts = {} /\ base.holds = {}
    BY <1>i DEF AllOps
  <2> DEFINE request == [base EXCEPT !.pc = "lockUser", !.user = u, !.actor = u,
                                                 !.password = users[u].password]
  <2>2. /\ request \in Requests /\ request.writes = NoWrites /\ request.answers = FALSE
        /\ request.accounts = {} /\ request.holds = {}
        /\ request.pc = "lockUser" /\ request.user = u
    BY <1>0, <2>b, <1>u, ZenonT(60) DEF Requests, UserRows, AllOps, Pcs, Asking
  <2>3. Ask(t, request)
    BY <2>1, <2>b DEF AskLogin
  <2> HIDE DEF request
  <2> QED BY <2>2, <2>3, AskKeeps
<1>2. CASE \E k \in TokenIds, op \in {"rotate", "logout"} : AskWithToken(t, op, k)
  <2>1. PICK k \in TokenIds, op \in {"rotate", "logout"} : AskWithToken(t, op, k)
    BY <1>2
  <2>b. PICK base \in Requests :
           /\ base = Request(op) /\ base.writes = NoWrites /\ base.answers = FALSE
           /\ base.accounts = {} /\ base.holds = {}
    BY <1>i DEF AllOps
  <2> DEFINE request == [base EXCEPT !.pc = "lockFamily", !.token = k,
                                            !.family = tokens[k].family]
  <2>2. tokens[k].family \in FamilyIds /\ families[tokens[k].family].state # "none"
    BY <2>1, <2>b DEF AskWithToken, SessionInv, Related
  <2>3. /\ request \in Requests /\ request.writes = NoWrites /\ request.answers = FALSE
        /\ request.accounts = {} /\ request.holds = {}
        /\ request.pc = "lockFamily" /\ request.family = tokens[k].family
        /\ request.token = k
    BY <1>0, <2>b, <2>2 DEF Requests, AllOps, Pcs, Asking
  <2>4. Ask(t, request)
    BY <2>1, <2>b DEF AskWithToken
  <2> HIDE DEF request
  <2>5. tokens[k].status # "none"
    BY <2>1 DEF AskWithToken
  <2> QED BY <2>2, <2>3, <2>4, <2>5, AskKeeps
<1>3. CASE \E actor, u \in Users, op \in Powers \cup {"change", "logoutAll", "reset"} :
              AskForUser(t, op, actor, u)
  <2>1. PICK actor \in Users, u \in Users, op \in Powers \cup {"change", "logoutAll", "reset"} :
           AskForUser(t, op, actor, u)
    BY <1>3
  <2>b. PICK base \in Requests :
           /\ base = Request(op) /\ base.writes = NoWrites /\ base.answers = FALSE
           /\ base.accounts = {} /\ base.holds = {}
    BY <1>i DEF AllOps, Powers
  <2> DEFINE pc == IF op \in Powers THEN "listAdmins" ELSE "lockUser"
             request == [base EXCEPT !.user = u, !.actor = actor, !.pc = pc,
                            !.password = users[u].password, !.version = users[u].version]
  <2>3. Ask(t, request)
    BY <2>1, <2>b DEF AskForUser
  <2>p. pc \in {"listAdmins", "lockUser"}
    OBVIOUS
  <2> HIDE DEF pc
  <2>2. /\ request \in Requests /\ request.writes = NoWrites /\ request.answers = FALSE
        /\ request.accounts = {} /\ request.holds = {}
        /\ request.pc \in {"listAdmins", "lockUser"} /\ request.user = u
    BY <1>0, <2>p, <2>b, <1>u, ZenonT(60) DEF Requests, UserRows, AllOps, Powers, Pcs, Asking
  <2> HIDE DEF request
  <2> QED BY <2>2, <2>3, AskKeeps
<1>4. CASE \E u \in Users, op \in {"recover", "recoverPromote"} : AskToRecover(t, op, u)
  <2>1. PICK u \in Users, op \in {"recover", "recoverPromote"} : AskToRecover(t, op, u)
    BY <1>4
  <2>b. PICK base \in Requests :
           /\ base = Request(op) /\ base.writes = NoWrites /\ base.answers = FALSE
           /\ base.accounts = {} /\ base.holds = {}
    BY <1>i DEF AllOps, Powers
  <2> DEFINE pc == IF op = "recoverPromote" THEN "listAdmins" ELSE "lockUser"
             request == [base EXCEPT !.user = u, !.pc = pc]
  <2>3. Ask(t, request)
    BY <2>1, <2>b DEF AskToRecover
  <2>p. pc \in {"listAdmins", "lockUser"}
    OBVIOUS
  <2> HIDE DEF pc
  <2>2. /\ request \in Requests /\ request.writes = NoWrites /\ request.answers = FALSE
        /\ request.accounts = {} /\ request.holds = {}
        /\ request.pc \in {"listAdmins", "lockUser"} /\ request.user = u
    BY <1>0, <2>p, <2>b DEF Requests, AllOps, Pcs, Asking
  <2> HIDE DEF request
  <2> QED BY <2>2, <2>3, AskKeeps
<1> QED BY <1>1, <1>2, <1>3, <1>4 DEF Submit
-----------------------------------------------------------------------------
(* Locking. *)
LEMMA RequestIsOwn ==
  ASSUME SessionInv, NEW t \in Txs
  PROVE  /\ txs[t] \in Requests /\ Own(txs[t])
         /\ \A o \in Others(t) : txs[o] \in Requests /\ Own(txs[o]) /\ Apart(txs[t], txs[o])
  BY DEF SessionInv, Typed, Others

LEMMA WaitingWroteNothing ==
  ASSUME SessionInv, NEW t \in Txs, txs[t].pc \in Asking
  PROVE  txs[t].writes = NoWrites /\ ~txs[t].answers
  BY RequestIsOwn DEF Own, Locked

LEMMA LockFamilyKeeps ==
  ASSUME SessionInv, NEW t \in Txs, LockFamily(t)
  PROVE  SessionInv'
<1> DEFINE s == txs[t]
           next == [s EXCEPT !.pc = "decide", !.holds = {s.family}]
<1>1. s \in Requests /\ s.writes = NoWrites /\ ~s.answers /\ s.pc = "lockFamily"
  BY RequestIsOwn, WaitingWroteNothing DEF LockFamily, Asking
<1>2. /\ s.family \in FamilyIds /\ families[s.family].state # "none"
      /\ s.token \in TokenIds /\ tokens[s.token].status # "none"
      /\ tokens[s.token].family = s.family
  BY <1>1, RequestIsOwn DEF Own, Locked
<1>3. Step(t, next)
  BY DEF LockFamily
<1>4. /\ next \in Requests /\ next.writes = NoWrites /\ ~next.answers
      /\ next.pc = "decide" /\ next.family = s.family /\ next.token = s.token
      /\ next.holds = {s.family} /\ next.accounts = s.accounts
  BY <1>1, <1>2 DEF Requests, Pcs, Asking
<1>5. \A o \in Others(t) : s.family \notin txs[o].holds /\ s.accounts \cap txs[o].accounts = {}
  BY RequestIsOwn DEF LockFamily, FamilyFree, Apart
<1> HIDE DEF s, next
<1>6. Own(next)
  BY <1>2, <1>4, UnwrittenIsOwn DEF Locked, Asking, Closing
<1>7. \A o \in Others(t) : Apart(next, txs[o])
  BY <1>4, <1>5, UnwrittenApart
<1> QED BY <1>3, <1>4, <1>6, <1>7, StepKeeps

LEMMA ListAdminsKeeps ==
  ASSUME SessionInv, NEW t \in Txs, ListAdmins(t)
  PROVE  SessionInv'
<1> DEFINE s == txs[t]
           admins == {u \in Users : users[u].active /\ users[u].admin}
           next == [s EXCEPT !.pc = "lockAdmins", !.todo = admins]
<1>1. s \in Requests /\ s.writes = NoWrites /\ ~s.answers /\ s.pc = "listAdmins"
  BY RequestIsOwn, WaitingWroteNothing DEF ListAdmins, Asking
<1>2. s.user \in Users /\ s.holds = {}
  BY <1>1, RequestIsOwn DEF Own, Locked
<1>3. Step(t, next)
  BY DEF ListAdmins
<1>a. admins \in SUBSET Nat /\ admins \subseteq Users
  BY SessionsAssumption DEF Users
<1>4. /\ next \in Requests /\ next.writes = NoWrites /\ ~next.answers
      /\ next.pc = "lockAdmins" /\ next.user = s.user /\ next.todo = admins
      /\ next.holds = s.holds /\ next.accounts = s.accounts
  <2> HIDE DEF admins
  <2> QED BY <1>1, <1>a DEF Requests, Pcs, Asking
<1>5. \A o \in Others(t) : Apart(s, txs[o])
  BY RequestIsOwn
<1> HIDE DEF s, admins, next
<1>6. Own(next)
  BY <1>2, <1>4, <1>a, UnwrittenIsOwn DEF Locked, Asking, Closing
<1>7. \A o \in Others(t) : Apart(next, txs[o])
  <2>1. \A o \in Others(t) : /\ next.accounts \cap txs[o].accounts = {}
                             /\ next.holds \cap txs[o].holds = {}
    BY <1>4, <1>5 DEF Apart
  <2> QED BY <1>4, <2>1, UnwrittenApart
<1> QED BY <1>3, <1>4, <1>6, <1>7, StepKeeps

LEMMA LockAdminKeeps ==
  ASSUME SessionInv, NEW t \in Txs, LockAdmin(t)
  PROVE  SessionInv'
<1> DEFINE s == txs[t]
<1>1. s \in Requests /\ s.writes = NoWrites /\ ~s.answers /\ s.pc = "lockAdmins"
  BY RequestIsOwn, WaitingWroteNothing DEF LockAdmin, Asking
<1>2. s.user \in Users /\ s.holds = {} /\ s.todo \subseteq Users
  BY <1>1, RequestIsOwn DEF Own, Locked
<1>3. \A o \in Others(t) : Apart(s, txs[o])
  BY RequestIsOwn
<1>4. CASE Step(t, [s EXCEPT !.pc = "lockUser"])
  <2> DEFINE next == [s EXCEPT !.pc = "lockUser"]
  <2>1. /\ next \in Requests /\ next.writes = NoWrites /\ ~next.answers
        /\ next.pc = "lockUser" /\ next.user = s.user
        /\ next.holds = s.holds /\ next.accounts = s.accounts
    BY <1>1 DEF Requests, Pcs, Asking
  <2>2. Step(t, next)
    BY <1>4
  <2> HIDE DEF s, next
  <2>3. Own(next)
    BY <1>2, <2>1, UnwrittenIsOwn DEF Locked, Asking, Closing
  <2>4. \A o \in Others(t) : Apart(next, txs[o])
    <3>1. \A o \in Others(t) : /\ next.accounts \cap txs[o].accounts = {}
                               /\ next.holds \cap txs[o].holds = {}
      BY <1>3, <2>1 DEF Apart
    <3> QED BY <2>1, <3>1, UnwrittenApart
  <2> QED BY <2>1, <2>2, <2>3, <2>4, StepKeeps
<1>5. ASSUME NEW u \in Users, UserFree(t, u),
             Step(t, [s EXCEPT !.todo = @ \ {u}, !.accounts = @ \cup {u}])
      PROVE  SessionInv'
  <2> DEFINE next == [s EXCEPT !.todo = @ \ {u}, !.accounts = @ \cup {u}]
  <2>1. /\ next \in Requests /\ next.writes = NoWrites /\ ~next.answers
        /\ next.pc = "lockAdmins" /\ next.user = s.user /\ next.todo = s.todo \ {u}
        /\ next.holds = s.holds /\ next.accounts = s.accounts \cup {u}
    BY <1>1 DEF Requests, Pcs, Asking
  <2>2. Step(t, next)
    BY <1>5
  <2>3. \A o \in Others(t) : u \notin txs[o].accounts
    BY <1>5 DEF UserFree
  <2> HIDE DEF s, next
  <2>4. Own(next)
    BY <1>2, <2>1, UnwrittenIsOwn DEF Locked, Asking, Closing
  <2>5. \A o \in Others(t) : Apart(next, txs[o])
    <3>1. \A o \in Others(t) : /\ next.accounts \cap txs[o].accounts = {}
                               /\ next.holds \cap txs[o].holds = {}
      BY <1>3, <2>1, <2>3 DEF Apart
    <3> QED BY <2>1, <3>1, UnwrittenApart
  <2> QED BY <2>1, <2>2, <2>4, <2>5, StepKeeps
<1> QED BY <1>2, <1>4, <1>5 DEF LockAdmin, Least

LEMMA LockUserKeeps ==
  ASSUME SessionInv, NEW t \in Txs, LockUser(t)
  PROVE  SessionInv'
<1> DEFINE s == txs[t]
           next == [s EXCEPT !.pc = "check", !.accounts = @ \cup {s.user}]
<1>1. s \in Requests /\ s.writes = NoWrites /\ ~s.answers /\ s.pc = "lockUser"
  BY RequestIsOwn, WaitingWroteNothing DEF LockUser, Asking
<1>2. s.user \in Users /\ s.holds = {}
  BY <1>1, RequestIsOwn DEF Own, Locked
<1>3. Step(t, next)
  BY DEF LockUser
<1>4. /\ next \in Requests /\ next.writes = NoWrites /\ ~next.answers
      /\ next.pc = "check" /\ next.user = s.user
      /\ next.holds = s.holds /\ next.accounts = s.accounts \cup {s.user}
  BY <1>1, <1>2 DEF Requests, Pcs, Asking
<1>5. \A o \in Others(t) : s.user \notin txs[o].accounts /\ Apart(s, txs[o])
  BY RequestIsOwn DEF LockUser, AccountFree, UserFree
<1> HIDE DEF s, next
<1>6. Own(next)
  BY <1>2, <1>4, UnwrittenIsOwn DEF Locked, Asking, Closing
<1>7. \A o \in Others(t) : Apart(next, txs[o])
  <2>1. \A o \in Others(t) : /\ next.accounts \cap txs[o].accounts = {}
                             /\ next.holds \cap txs[o].holds = {}
    BY <1>4, <1>5 DEF Apart
  <2> QED BY <1>4, <2>1, UnwrittenApart
<1> QED BY <1>3, <1>4, <1>6, <1>7, StepKeeps
-----------------------------------------------------------------------------
(* Refreshing and signing out. *)
LEMMA RowTypes ==
  ASSUME SessionInv
  PROVE  /\ \A u \in Users : users[u] \in UserRows
         /\ \A f \in FamilyIds : families[f] \in FamilyRows
         /\ \A k \in TokenIds : tokens[k] \in TokenRows
  BY DEF SessionInv, Typed, TypeOK

(* No other request writes a session this one holds, or its tokens. *)
LEMMA OthersElsewhere ==
  ASSUME SessionInv, NEW t \in Txs, NEW o \in Others(t), NEW f \in FamilyIds,
         f \in txs[t].holds, families[f].state # "none"
  PROVE  /\ f \notin DOMAIN txs[o].writes.families
         /\ \A k \in TokensOf({f}) : k \notin DOMAIN txs[o].writes.tokens
<1>1. Own(txs[o]) /\ txs[t].holds \cap txs[o].holds = {}
  BY RequestIsOwn DEF Apart
<1>2. f \notin DOMAIN txs[o].writes.families
  BY <1>1 DEF Own, FamilyWrites, Kept, Opens
<1> QED BY <1>1, <1>2 DEF Own, TokenWrites, TokensOf

LEMMA VoidTypes ==
  ASSUME SessionInv, NEW F
  PROVE  /\ Void(F) \in Changes(TokenIds, TokenRows)
         /\ DOMAIN Void(F) = {k \in TokensOf(F) : tokens[k].status # "REVOKED"}
         /\ \A k \in DOMAIN Void(F) : /\ Void(F)[k].status = "REVOKED"
                                      /\ Void(F)[k].family = tokens[k].family
<1> DEFINE D == {k \in TokensOf(F) : tokens[k].status # "REVOKED"}
           row(k) == [tokens[k] EXCEPT !.status = "REVOKED", !.fresh = FALSE]
<1>1. D \in SUBSET TokenIds
  BY DEF TokensOf
<1>2. \A k \in TokenIds :
         row(k) \in TokenRows /\ row(k).status = "REVOKED" /\ row(k).family = tokens[k].family
  BY RowTypes DEF TokenRows
<1>3. Void(F) = [k \in D |-> row(k)]
  BY DEF Void
<1> HIDE DEF D, row
<1>4. Void(F) \in [D -> TokenRows]
  BY <1>1, <1>2, <1>3
<1>5. Void(F) \in Changes(TokenIds, TokenRows) /\ DOMAIN Void(F) = D
  BY <1>1, <1>4, ChangeMade
<1>6. \A k \in D : Void(F)[k] = row(k)
  BY <1>3
<1> QED BY <1>1, <1>2, <1>5, <1>6 DEF D

LEMMA EndFamilyKeeps ==
  ASSUME SessionInv, NEW t \in Txs, txs[t].pc = "decide", txs[t].op \in FamilyOps,
         NEW pc \in Closing, EndFamily(t, pc)
  PROVE  SessionInv'
<1> DEFINE s == txs[t]
           f == s.family
           wrote == [g \in {f} |-> Revoked(f)]
           write == [s.writes EXCEPT !.families = wrote, !.tokens = Void({f})]
           next == [s EXCEPT !.pc = pc, !.user = families[f].user, !.actor = families[f].user,
                             !.writes = write]
<1>1. /\ s \in Requests /\ s.writes = NoWrites /\ ~s.answers /\ s.pc = "decide"
      /\ s.op \in FamilyOps
  BY RequestIsOwn, WaitingWroteNothing DEF Asking
<1>2. f \in FamilyIds /\ families[f].state # "none" /\ f \in s.holds
  BY <1>1, RequestIsOwn DEF Own, Locked
<1>3. families[f] \in FamilyRows /\ families[f].user \in Users
  BY <1>2, RowTypes DEF SessionInv, Related
<1>4. Step(t, next)
  BY DEF EndFamily
<1>5. /\ wrote \in Changes(FamilyIds, FamilyRows) /\ DOMAIN wrote = {f}
      /\ wrote[f].state = "revoked" /\ wrote[f].user = families[f].user
      /\ wrote[f].born = families[f].born /\ wrote[f].by = families[f].by
  <2>1. /\ Revoked(f) \in FamilyRows /\ Revoked(f).state = "revoked"
        /\ Revoked(f).user = families[f].user
        /\ Revoked(f).born = families[f].born /\ Revoked(f).by = families[f].by
    BY <1>3 DEF Revoked, FamilyRows
  <2>2. wrote \in [{f} -> FamilyRows] /\ wrote[f] = Revoked(f)
    BY <2>1
  <2> QED BY <1>2, <2>1, <2>2, ChangeMade
<1>6. \A o \in Others(t) : Apart(s, txs[o])
  BY RequestIsOwn
<1> HIDE DEF s, wrote
<1>7. /\ next \in Requests /\ next.pc = pc /\ next.op = s.op /\ ~next.answers
      /\ next.holds = s.holds /\ next.accounts = s.accounts
      /\ next.writes.user = s.writes.user
      /\ next.writes.families = wrote /\ next.writes.tokens = Void({f})
  <2>1. write \in Writes /\ write.user = s.writes.user /\ write.families = wrote
        /\ write.tokens = Void({f})
    BY <1>1, <1>5, VoidTypes DEF Requests, Writes
  <2> HIDE DEF write
  <2>2. families[f].user \in 0 .. MaxUsers
    BY <1>3, SessionsAssumption DEF Users
  <2> QED BY <1>1, <2>1, <2>2 DEF Requests, Pcs, Closing
<1>w. DOMAIN next.writes.user = {}
  BY <1>1, <1>7, NothingWritten
<1> HIDE DEF next
<1>8. Own(next)
  <2>1. Locked(next)
    BY <1>1, <1>7 DEF Locked, Asking, Closing
  <2>2. FamilyWrites(next)
    BY <1>2, <1>5, <1>7 DEF FamilyWrites, Kept
  <2>3. AccountWrites(next) /\ Ending(next) /\ Answers(next)
    BY <1>7, <1>w DEF AccountWrites, Ending, Answers, Closing
  <2>4. /\ \A k \in DOMAIN Void({f}) :
              /\ Void({f})[k].status = "REVOKED" /\ Void({f})[k].family = tokens[k].family
              /\ tokens[k].family = f
        /\ \A k \in TokensOf({f}) : tokens[k].status = "REVOKED" \/ k \in DOMAIN Void({f})
    <3>1. /\ DOMAIN Void({f}) = {k \in TokensOf({f}) : tokens[k].status # "REVOKED"}
          /\ \A k \in DOMAIN Void({f}) : /\ Void({f})[k].status = "REVOKED"
                                         /\ Void({f})[k].family = tokens[k].family
      BY VoidTypes
    <3>2. \A k \in TokensOf({f}) : tokens[k].family = f
      BY DEF TokensOf
    <3> QED BY <3>1, <3>2
  <2>5. TokenWrites(next)
    BY <1>5, <1>7, <2>4, ZenonT(60) DEF TokenWrites
  <2> QED BY <2>1, <2>2, <2>3, <2>5 DEF Own
<1>9. \A o \in Others(t) : Apart(next, txs[o])
  <2>1. \A o \in Others(t) : /\ f \notin DOMAIN txs[o].writes.families
                             /\ \A k \in TokensOf({f}) : k \notin DOMAIN txs[o].writes.tokens
    BY <1>2, OthersElsewhere DEF s
  <2>2. DOMAIN Void({f}) \subseteq TokensOf({f})
    BY VoidTypes
  <2> QED BY <1>5, <1>6, <1>7, <2>1, <2>2 DEF Apart
<1> QED BY <1>4, <1>7, <1>8, <1>9, StepKeeps

LEMMA FreeTokenIsNew ==
  ASSUME SessionInv, NEW f \in FamilyIds, NEW n \in FreeToken(f)
  PROVE  /\ n \in TokenIds /\ tokens[n].status = "none"
         /\ \A o \in Txs : n \notin DOMAIN txs[o].writes.tokens
<1>1. n \in TokenIds /\ tokens[n].status = "none" /\ n \notin Pending("tokens")
  BY DEF FreeToken, Least
<1>2. \A o \in Txs : DOMAIN txs[o].writes["tokens"] \subseteq Pending("tokens")
  BY DEF Pending
<1>3. \A o \in Txs : txs[o].writes["tokens"] = txs[o].writes.tokens
  OBVIOUS
<1> QED BY <1>1, <1>2, <1>3

LEMMA RenewKeeps ==
  ASSUME SessionInv, NEW t \in Txs, txs[t].pc = "decide", txs[t].op = "rotate",
         families[txs[t].family].state # "revoked",
         tokens[txs[t].token].status \in {"ACTIVE", "ROTATED"},
         NEW n \in TokenIds, Renew(t, n)
  PROVE  SessionInv'
<1> DEFINE s == txs[t]
           k == s.token
           f == s.family
           kept == [g \in {f} |-> [families[f] EXCEPT !.lapse = "none"]]
           retired == {j \in TokensOf({f}) : tokens[j].status = "ACTIVE"} \ {k}
           rotated == IF tokens[k].status = "ACTIVE"
                      THEN [tokens[k] EXCEPT !.status = "ROTATED", !.fresh = TRUE]
                      ELSE tokens[k]
           D == {k, n} \cup retired
           row(j) == IF j = n THEN Issued(f)
                     ELSE IF j = k THEN rotated
                     ELSE [tokens[j] EXCEPT !.status = "RETIRED"]
           renewed == [j \in D |-> row(j)]
           write == [s.writes EXCEPT !.families = kept, !.tokens = renewed]
           next == [s EXCEPT !.pc = "read", !.user = families[f].user, !.writes = write]
<1>1. /\ s \in Requests /\ s.writes = NoWrites /\ ~s.answers /\ s.pc = "decide"
      /\ s.op = "rotate"
  BY RequestIsOwn, WaitingWroteNothing DEF Asking
<1>2. /\ f \in FamilyIds /\ families[f].state # "none" /\ f \in s.holds
      /\ k \in TokenIds /\ tokens[k].status # "none" /\ tokens[k].family = f
  BY <1>1, RequestIsOwn DEF Own, Locked
<1>3. /\ families[f] \in FamilyRows /\ families[f].user \in Users /\ families[f].state = "live"
      /\ tokens[k] \in TokenRows
  BY <1>2, RowTypes DEF SessionInv, Related, FamilyRows
<1>4. Step(t, next)
  BY DEF Renew
<1>5. n \in FreeToken(f) /\ tokens[n].status = "none" /\ n # k
  BY <1>2, FreeTokenIsNew DEF Renew
<1>6. /\ kept \in Changes(FamilyIds, FamilyRows) /\ DOMAIN kept = {f}
      /\ kept[f].state = "live" /\ kept[f].user = families[f].user
      /\ kept[f].born = families[f].born /\ kept[f].by = families[f].by
  <2> DEFINE row1 == [families[f] EXCEPT !.lapse = "none"]
  <2>1. /\ row1 \in FamilyRows /\ row1.state = "live" /\ row1.user = families[f].user
        /\ row1.born = families[f].born /\ row1.by = families[f].by
    BY <1>3 DEF FamilyRows
  <2> HIDE DEF row1
  <2>2. kept \in [{f} -> FamilyRows] /\ kept[f] = row1
    BY <2>1 DEF row1
  <2> HIDE DEF kept
  <2>3. {f} \in SUBSET FamilyIds
    BY <1>2
  <2>4. kept \in Changes(FamilyIds, FamilyRows) /\ DOMAIN kept = {f}
    BY <2>2, <2>3, ChangeMade
  <2> QED BY <2>1, <2>2, <2>4
<1>7. /\ renewed \in Changes(TokenIds, TokenRows) /\ DOMAIN renewed = D
      /\ \A j \in D : renewed[j].family = f /\ renewed[j].status # "none"
      /\ \A j \in D : renewed[j].status = "ACTIVE" => j = n
      /\ \A j \in D : tokens[j].status # "none" => tokens[j].family = f
      /\ \A j \in TokensOf({f}) : tokens[j].status = "ACTIVE" => j \in D
  <2>1. D \in SUBSET TokenIds
    BY <1>2 DEF TokensOf
  <2>2. Issued(f) \in TokenRows /\ Issued(f).family = f /\ Issued(f).status = "ACTIVE"
    BY <1>2, SessionsAssumption DEF Issued, TokenRows, FamilyIds
  <2>3. rotated \in TokenRows /\ rotated.family = f /\ rotated.status = "ROTATED"
    BY <1>2, <1>3 DEF TokenRows
  <2>4. \A j \in retired :
           LET x == [tokens[j] EXCEPT !.status = "RETIRED"]
           IN  x \in TokenRows /\ x.family = f /\ x.status = "RETIRED" /\ tokens[j].family = f
    BY RowTypes DEF TokensOf, TokenRows
  <2>5. \A j \in TokensOf({f}) : tokens[j].status = "ACTIVE" => j \in D
    OBVIOUS
  <2> HIDE DEF rotated
  <2>6. \A j \in D : /\ row(j) \in TokenRows /\ row(j).family = f /\ row(j).status # "none"
                     /\ row(j).status = "ACTIVE" => j = n
                     /\ tokens[j].status # "none" => tokens[j].family = f
    BY <1>2, <1>5, <2>2, <2>3, <2>4
  <2> HIDE DEF row, D
  <2>7. renewed \in [D -> TokenRows] /\ \A j \in D : renewed[j] = row(j)
    BY <2>6
  <2> QED BY <2>1, <2>5, <2>6, <2>7, ChangeMade
<1>8. \A o \in Others(t) : Apart(s, txs[o])
  BY RequestIsOwn
<1>9. \A o \in Others(t) : /\ f \notin DOMAIN txs[o].writes.families
                           /\ \A j \in D : j \notin DOMAIN txs[o].writes.tokens
  <2>1. \A j \in D : j = n \/ j \in TokensOf({f})
    BY <1>2 DEF TokensOf
  <2>2. \A o \in Others(t) : n \notin DOMAIN txs[o].writes.tokens
    BY <1>2, <1>5, FreeTokenIsNew DEF Others
  <2> HIDE DEF D
  <2> QED BY <1>2, <2>1, <2>2, OthersElsewhere
<1> HIDE DEF s, kept, D, renewed
<1>10. /\ next \in Requests /\ next.pc = "read" /\ next.op = s.op /\ ~next.answers
       /\ next.user = families[f].user /\ next.family = f
       /\ next.holds = s.holds /\ next.accounts = s.accounts
       /\ next.writes.user = s.writes.user
       /\ next.writes.families = kept /\ next.writes.tokens = renewed
  <2>1. write \in Writes /\ write.user = s.writes.user /\ write.families = kept
        /\ write.tokens = renewed
    BY <1>1, <1>6, <1>7 DEF Requests, Writes
  <2> HIDE DEF write
  <2>2. families[f].user \in 0 .. MaxUsers
    BY <1>3, SessionsAssumption DEF Users
  <2> QED BY <1>1, <2>1, <2>2 DEF Requests, Pcs, Closing
<1>w. DOMAIN next.writes.user = {}
  BY <1>1, <1>10, NothingWritten
<1> HIDE DEF next
<1>11. Own(next)
  <2>1. Locked(next)
    BY <1>1, <1>10 DEF Locked, Asking, Closing, FamilyOps
  <2>2. FamilyWrites(next) /\ Kept(next, f)
    BY <1>2, <1>3, <1>6, <1>10 DEF FamilyWrites, Kept
  <2>3. AccountWrites(next) /\ Ending(next)
    BY <1>10, <1>w DEF AccountWrites, Ending
  <2>4. Answers(next)
    BY <1>6, <1>10, <2>2 DEF Answers
  <2>5. TokenWrites(next)
    BY <1>6, <1>7, <1>10 DEF TokenWrites, Closing
  <2> QED BY <2>1, <2>2, <2>3, <2>4, <2>5 DEF Own
<1>12. \A o \in Others(t) : Apart(next, txs[o])
  BY <1>6, <1>7, <1>8, <1>9, <1>10 DEF Apart
<1> QED BY <1>4, <1>10, <1>11, <1>12, StepKeeps

LEMMA RotateKeeps ==
  ASSUME SessionInv, NEW t \in Txs, Rotate(t)
  PROVE  SessionInv'
<1>1. txs[t].pc = "decide" /\ txs[t].op = "rotate"
  BY DEF Rotate
<1>2. EndFamily(t, "commit") \/ EndFamily(t, "audit") => SessionInv'
  BY <1>1, EndFamilyKeeps DEF FamilyOps, Closing
<1>3. ASSUME NEW n \in TokenIds, Renew(t, n), families[txs[t].family].state # "revoked",
             tokens[txs[t].token].status = "ACTIVE" \/ WithinGrace(txs[t].token)
      PROVE  SessionInv'
  BY <1>1, <1>3, RenewKeeps DEF WithinGrace
<1> QED BY <1>2, <1>3, RefusedKeeps DEF Rotate

LEMMA LogoutKeeps ==
  ASSUME SessionInv, NEW t \in Txs, Logout(t)
  PROVE  SessionInv'
  BY EndFamilyKeeps, RefusedKeeps DEF Logout, FamilyOps, Closing

LEMMA ReadUserKeeps ==
  ASSUME SessionInv, NEW t \in Txs, ReadUser(t)
  PROVE  SessionInv'
<1> DEFINE s == txs[t]
           next == [s EXCEPT !.pc = "commit", !.answers = TRUE, !.tv = users[s.user].tv]
<1>1. s \in Requests /\ Own(s) /\ s.pc = "read"
  BY RequestIsOwn DEF ReadUser
<1>2. /\ s.family \in DOMAIN s.writes.families /\ s.writes.families[s.family].user = s.user
      /\ s.writes.families[s.family].state = "live" /\ Kept(s, s.family)
  BY <1>1 DEF Own, Answers
<1>3. s.family \in FamilyIds
  BY <1>1, <1>2, ChangeTypes DEF Requests, Writes
<1>4. s.user \in Users /\ s.writes.families[s.family].born = users[s.user].tv
      /\ users[s.user].tv \in Versions
  BY <1>2, <1>3, RowTypes DEF Kept, SessionInv, Related, EverySessionIsCurrent, LiveIsCurrent, UserRows
<1>5. Step(t, next)
  BY DEF ReadUser
<1>6. \A o \in Others(t) : Apart(s, txs[o])
  BY RequestIsOwn
<1> HIDE DEF s
<1>7. /\ next \in Requests /\ next.pc = "commit" /\ next.op = s.op /\ next.answers
      /\ next.tv = users[s.user].tv /\ next.user = s.user /\ next.family = s.family
      /\ next.holds = s.holds /\ next.accounts = s.accounts /\ next.writes = s.writes
  BY <1>1, <1>4 DEF Requests, Pcs, Closing
<1> HIDE DEF next
<1>8. Own(next)
  <2>1. Locked(next)
    BY <1>1, <1>7 DEF Own, Locked, Asking, Closing
  <2>2. DOMAIN s.writes.families = {s.family} /\ DOMAIN next.writes.families = {s.family}
    BY <1>1, <1>7 DEF Own, Answers
  <2>3. FamilyWrites(next)
    BY <1>2, <1>7, <2>2 DEF FamilyWrites, Kept
  <2>4. AccountWrites(next) /\ Ending(next)
    BY <1>1, <1>7 DEF Own, AccountWrites, EndsLive, Ending
  <2>5. Answers(next)
    BY <1>2, <1>4, <1>7 DEF Answers
  <2>6. TokenWrites(next)
    BY <1>1, <1>2, <1>7, <2>2, SMTT(40) DEF Own, TokenWrites
  <2> QED BY <2>1, <2>3, <2>4, <2>5, <2>6 DEF Own
<1>9. \A o \in Others(t) : Apart(next, txs[o])
  BY <1>6, <1>7 DEF Apart
<1> QED BY <1>5, <1>7, <1>8, <1>9, StepKeeps
-----------------------------------------------------------------------------
(* Operations on an account. *)
LEMMA FreeFamilyIsNew ==
  ASSUME SessionInv, NEW f \in FreeFamily
  PROVE  /\ f \in FamilyIds /\ families[f].state = "none" /\ TokensOf({f}) = {}
         /\ \A o \in Txs : f \notin DOMAIN txs[o].writes.families
<1>1. f \in FamilyIds /\ families[f].state = "none" /\ f \notin Pending("families")
  BY DEF FreeFamily, Least
<1>2. \A o \in Txs : DOMAIN txs[o].writes["families"] \subseteq Pending("families")
  BY DEF Pending
<1>3. \A o \in Txs : txs[o].writes["families"] = txs[o].writes.families
  OBVIOUS
<1>4. TokensOf({f}) = {}
  BY <1>1 DEF TokensOf, SessionInv, Related
<1> QED BY <1>1, <1>2, <1>3, <1>4

LEMMA OpenedTypes ==
  ASSUME NEW u \in Users, NEW tv \in Versions, NEW op \in {"login", "change"}
  PROVE  /\ Opened(u, tv, op) \in FamilyRows /\ Opened(u, tv, op).state = "live"
         /\ Opened(u, tv, op).user = u /\ Opened(u, tv, op).born = tv
         /\ Opened(u, tv, op).by = op
  BY SessionsAssumption DEF Opened, FamilyRows, Users

LEMMA IssuedTypes ==
  ASSUME NEW f \in FamilyIds
  PROVE  Issued(f) \in TokenRows /\ Issued(f).status = "ACTIVE" /\ Issued(f).family = f
  BY SessionsAssumption DEF Issued, TokenRows, FamilyIds

LEMMA CheckedHasAccount ==
  ASSUME SessionInv, NEW t \in Txs, txs[t].pc = "check"
  PROVE  /\ txs[t] \in Requests /\ txs[t].writes = NoWrites /\ ~txs[t].answers
         /\ txs[t].user \in Users /\ txs[t].user \in txs[t].accounts /\ txs[t].holds = {}
         /\ users[txs[t].user] \in UserRows
         /\ users[txs[t].user].password <= users[txs[t].user].tv
  BY RequestIsOwn, WaitingWroteNothing, RowTypes
     DEF Own, Locked, Asking, SessionInv, Related

LEMMA LoginKeeps ==
  ASSUME SessionInv, NEW t \in Txs, txs[t].pc = "check", txs[t].op = "login",
         users[txs[t].user].active,
         NEW f \in FamilyIds, NEW n \in TokenIds, Login(t, f, n)
  PROVE  SessionInv'
<1> DEFINE s == txs[t]
           u == s.user
           opened == [g \in {f} |-> Opened(u, users[u].tv, "login")]
           issued == [k \in {n} |-> Issued(f)]
           write == [s.writes EXCEPT !.families = opened, !.tokens = issued]
           next == [s EXCEPT !.pc = "audit", !.tv = users[u].tv, !.family = f,
                             !.answers = TRUE, !.writes = write]
<1>1. /\ s \in Requests /\ s.writes = NoWrites /\ ~s.answers /\ s.op = "login"
      /\ u \in Users /\ u \in s.accounts /\ s.holds = {}
      /\ users[u] \in UserRows /\ users[u].active
  BY CheckedHasAccount
<1>2. users[u].tv \in Versions
  BY <1>1 DEF UserRows
<1>3. /\ families[f].state = "none" /\ TokensOf({f}) = {} /\ tokens[n].status = "none"
      /\ \A o \in Txs : /\ f \notin DOMAIN txs[o].writes.families
                        /\ n \notin DOMAIN txs[o].writes.tokens
  BY FreeFamilyIsNew, FreeTokenIsNew DEF Login
<1>4. Step(t, next)
  BY DEF Login
<1>5. /\ opened \in Changes(FamilyIds, FamilyRows) /\ DOMAIN opened = {f}
      /\ opened[f] = Opened(u, users[u].tv, "login")
  <2>1. opened \in [{f} -> FamilyRows] /\ {f} \in SUBSET FamilyIds
    BY <1>1, <1>2, OpenedTypes
  <2>2. opened[f] = Opened(u, users[u].tv, "login")
    OBVIOUS
  <2> HIDE DEF opened
  <2> QED BY <2>1, <2>2, ChangeMade
<1>6. /\ issued \in Changes(TokenIds, TokenRows) /\ DOMAIN issued = {n}
      /\ issued[n] = Issued(f)
  <2>1. issued \in [{n} -> TokenRows] /\ {n} \in SUBSET TokenIds
    BY IssuedTypes
  <2>2. issued[n] = Issued(f)
    OBVIOUS
  <2> HIDE DEF issued
  <2> QED BY <2>1, <2>2, ChangeMade
<1>7. \A o \in Others(t) : Apart(s, txs[o]) /\ o \in Txs
  BY RequestIsOwn DEF Others
<1> HIDE DEF s, u, opened, issued
<1>8. /\ next \in Requests /\ next.pc = "audit" /\ next.op = "login" /\ next.answers
      /\ next.user = s.user /\ next.family = f /\ next.tv = users[u].tv
      /\ next.holds = s.holds /\ next.accounts = s.accounts
      /\ next.writes.user = s.writes.user
      /\ next.writes.families = opened /\ next.writes.tokens = issued
  <2>1. write \in Writes /\ write.user = s.writes.user /\ write.families = opened
        /\ write.tokens = issued
    BY <1>1, <1>5, <1>6 DEF Requests, Writes
  <2> HIDE DEF write
  <2>2. f \in 0 .. MaxFamilies
    BY SessionsAssumption DEF FamilyIds
  <2> QED BY <1>1, <1>2, <2>1, <2>2 DEF Requests, Pcs, Closing
<1>w. DOMAIN next.writes.user = {}
  BY <1>1, <1>8, NothingWritten
<1> HIDE DEF next
<1>9. Own(next)
  <2>1. Locked(next)
    BY <1>1, <1>8 DEF Locked, Asking, Closing, u
  <2>2. FamilyWrites(next)
    BY <1>1, <1>2, <1>3, <1>5, <1>8, <1>w, OpenedTypes
       DEF FamilyWrites, Opens, After, Closing, FamilyOps, u
  <2>3. AccountWrites(next) /\ Ending(next)
    BY <1>8, <1>w DEF AccountWrites, Ending
  <2>4. Answers(next)
    BY <1>1, <1>2, <1>5, <1>8, OpenedTypes DEF Answers, u
  <2>5. TokenWrites(next)
    <3>1. /\ opened[f].state = "live" /\ issued[n].family = f /\ issued[n].status = "ACTIVE"
          /\ TokensOf({issued[n].family}) = {}
      <4>1. issued[n].family = f /\ issued[n].status = "ACTIVE"
        BY <1>6, IssuedTypes
      <4>2. opened[f].state = "live"
        BY <1>1, <1>2, <1>5, OpenedTypes
      <4>3. TokensOf({issued[n].family}) = TokensOf({f})
        BY <4>1
      <4> QED BY <1>3, <4>1, <4>2, <4>3
    <3>2. DOMAIN next.writes.tokens = {n} /\ DOMAIN next.writes.families = {f}
      BY <1>5, <1>6, <1>8
    <3> QED BY <1>3, <1>8, <3>1, <3>2 DEF TokenWrites
  <2> QED BY <2>1, <2>2, <2>3, <2>4, <2>5 DEF Own
<1>10. \A o \in Others(t) : Apart(next, txs[o])
  BY <1>3, <1>5, <1>6, <1>7, <1>8 DEF Apart
<1> QED BY <1>4, <1>8, <1>9, <1>10, StepKeeps

LEMMA WriteAccountKeeps ==
  ASSUME SessionInv, NEW t \in Txs, txs[t].pc = "check", txs[t].op \notin FamilyOps,
         NEW row \in UserRows, row.tv = users[txs[t].user].tv,
         row.password = users[txs[t].user].password,
         users[txs[t].user].active => row.active, WriteAccount(t, row)
  PROVE  SessionInv'
<1> DEFINE s == txs[t]
           changed == [row EXCEPT !.version = @ + 1]
           account == [v \in {s.user} |-> changed]
           write == [s.writes EXCEPT !.user = account]
           next == [s EXCEPT !.pc = "audit", !.writes = write]
<1>1. /\ s \in Requests /\ s.writes = NoWrites /\ ~s.answers /\ s.op \notin FamilyOps
      /\ s.user \in Users /\ s.user \in s.accounts /\ s.holds = {}
      /\ users[s.user].password <= users[s.user].tv
  BY CheckedHasAccount
<1>2. Step(t, next)
  BY DEF WriteAccount
<1>3. /\ changed \in UserRows /\ changed.tv = row.tv /\ changed.password = row.password
      /\ changed.active = row.active
  BY SessionsAssumption DEF WriteAccount, UserRows, Editions
<1>4. /\ account \in Changes(Users, UserRows) /\ DOMAIN account = {s.user}
      /\ account[s.user] = changed
  <2> HIDE DEF changed, s
  <2>1. account \in [{s.user} -> UserRows] /\ {s.user} \in SUBSET Users
    BY <1>1, <1>3
  <2>2. account[s.user] = changed
    OBVIOUS
  <2> HIDE DEF account
  <2> QED BY <2>1, <2>2, ChangeMade
<1>5. \A o \in Others(t) : Apart(s, txs[o])
  BY RequestIsOwn
<1>r. /\ row.tv = users[s.user].tv /\ row.password = users[s.user].password
      /\ users[s.user].active => row.active
  OBVIOUS
<1> HIDE DEF s, changed, account
<1>6. /\ next \in Requests /\ next.pc = "audit" /\ next.op = s.op /\ ~next.answers
      /\ next.user = s.user
      /\ next.holds = s.holds /\ next.accounts = s.accounts
      /\ next.writes.user = account
      /\ next.writes.families = s.writes.families /\ next.writes.tokens = s.writes.tokens
  <2>1. write \in Writes /\ write.user = account /\ write.families = s.writes.families
        /\ write.tokens = s.writes.tokens
    BY <1>1, <1>4 DEF Requests, Writes
  <2> HIDE DEF write
  <2> QED BY <1>1, <2>1 DEF Requests, Pcs, Closing
<1>w. DOMAIN next.writes.families = {} /\ DOMAIN next.writes.tokens = {}
  BY <1>1, <1>6, NothingWritten
<1> HIDE DEF next
<1>7. Own(next)
  <2>1. Locked(next)
    BY <1>1, <1>6 DEF Locked, Asking, Closing
  <2>2. AccountWrites(next)
    BY <1>1, <1>3, <1>4, <1>6, <1>r DEF AccountWrites
  <2>3. FamilyWrites(next) /\ Ending(next) /\ Answers(next) /\ TokenWrites(next)
    BY <1>6, <1>w DEF FamilyWrites, Ending, Answers, TokenWrites
  <2> QED BY <2>1, <2>2, <2>3 DEF Own
<1>8. \A o \in Others(t) : Apart(next, txs[o])
  BY <1>5, <1>6, <1>w DEF Apart
<1> QED BY <1>2, <1>6, <1>7, <1>8, StepKeeps

LEMMA ListFamiliesKeeps ==
  ASSUME SessionInv, NEW t \in Txs, txs[t].pc = "check", txs[t].op \in EndsAll, ListFamilies(t)
  PROVE  SessionInv'
<1> DEFINE s == txs[t]
           live == {f \in FamilyIds : families[f].state = "live" /\ families[f].user = s.user}
           next == [s EXCEPT !.pc = "revoke", !.todo = live, !.found = live]
<1>1. /\ s \in Requests /\ s.writes = NoWrites /\ ~s.answers /\ s.op \in EndsAll
      /\ s.user \in Users /\ s.user \in s.accounts /\ s.holds = {}
  BY CheckedHasAccount
<1>2. Step(t, next)
  BY DEF ListFamilies
<1>3. live \in SUBSET FamilyIds /\ live \in SUBSET Nat
  BY SessionsAssumption DEF FamilyIds
<1>4. \A o \in Others(t) : Apart(s, txs[o])
  BY RequestIsOwn
<1>5. /\ next \in Requests /\ next.pc = "revoke" /\ next.op = s.op /\ ~next.answers
      /\ next.user = s.user /\ next.todo = live /\ next.found = live
      /\ next.holds = {} /\ next.accounts = s.accounts /\ next.writes = NoWrites
  <2> HIDE DEF live
  <2> QED BY <1>1, <1>3 DEF Requests, Pcs
<1>6. \A f \in live : families[f].state = "live" /\ families[f].user = s.user
  OBVIOUS
<1>7. \A f \in FamilyIds : families[f].state = "live" /\ families[f].user = s.user => f \in live
  OBVIOUS
<1> HIDE DEF s, live, next
<1>8. Own(next)
  <2>1. Locked(next)
    BY <1>1, <1>5, NothingWritten DEF Locked, Asking, Closing
  <2>2. Ending(next)
    BY <1>1, <1>5, <1>6, <1>7, NothingWritten DEF Ending
  <2>3. FamilyWrites(next) /\ AccountWrites(next) /\ Answers(next) /\ TokenWrites(next)
    BY <1>5, NothingWritten DEF FamilyWrites, AccountWrites, Answers, TokenWrites, Closing
  <2> QED BY <2>1, <2>2, <2>3 DEF Own
<1>9. \A o \in Others(t) : Apart(next, txs[o])
  BY <1>1, <1>4, <1>5 DEF Apart
<1> QED BY <1>2, <1>5, <1>8, <1>9, StepKeeps

LEMMA CheckKeeps ==
  ASSUME SessionInv, NEW t \in Txs, Check(t)
  PROVE  SessionInv'
<1> DEFINE row == users[txs[t].user]
<1>1. txs[t].pc = "check"
  BY DEF Check
<1>2. row \in UserRows
  BY <1>1, CheckedHasAccount
<1>3. ASSUME txs[t].op = "login", Allowed(t), NEW f \in FamilyIds, NEW n \in TokenIds,
             Login(t, f, n)
      PROVE  SessionInv'
  <2>1. users[txs[t].user].active
    BY <1>3 DEF Allowed
  <2> QED BY <1>1, <1>3, <2>1, LoginKeeps
<1>4. ASSUME txs[t].op \in EndsAll, ListFamilies(t) PROVE SessionInv'
  BY <1>1, <1>4, ListFamiliesKeeps
<1>5. ASSUME NEW changed \in UserRows, changed.tv = row.tv, changed.password = row.password,
             row.active => changed.active, txs[t].op \in Powers, WriteAccount(t, changed)
      PROVE  SessionInv'
  BY <1>1, <1>5, WriteAccountKeeps DEF Powers, FamilyOps
<1>6. /\ [row EXCEPT !.active = TRUE] \in UserRows
      /\ [row EXCEPT !.active = TRUE].tv = row.tv
      /\ [row EXCEPT !.active = TRUE].password = row.password
      /\ [row EXCEPT !.active = TRUE].active
  BY <1>2 DEF UserRows
<1>7. \A b \in BOOLEAN :
         /\ [row EXCEPT !.admin = b] \in UserRows /\ [row EXCEPT !.admin = b].tv = row.tv
         /\ [row EXCEPT !.admin = b].password = row.password
         /\ [row EXCEPT !.admin = b].active = row.active
  BY <1>2 DEF UserRows
<1> QED BY <1>3, <1>4, <1>5, <1>6, <1>7, RefusedKeeps DEF Check, Powers
-----------------------------------------------------------------------------
(* Ending every session of an account. *)
LEMMA RevokeFamilyKeeps ==
  ASSUME SessionInv, NEW t \in Txs, NEW f \in FamilyIds, RevokeFamily(t, f)
  PROVE  SessionInv'
<1> DEFINE s == txs[t]
           live == IF families[f].state = "live" THEN {f} ELSE {}
           done == s.writes.families
           D == DOMAIN done \cup live
           revoked == [g \in D |-> IF g \in DOMAIN done THEN done[g] ELSE Revoked(g)]
           write == [s.writes EXCEPT !.families = revoked]
           next == [s EXCEPT !.todo = @ \ {f}, !.holds = @ \cup live, !.writes = write]
<1>1. /\ s \in Requests /\ Own(s) /\ s.pc = "revoke" /\ f \in s.todo
      /\ \A o \in Others(t) : f \notin txs[o].holds /\ Apart(s, txs[o])
      /\ Step(t, next)
  BY RequestIsOwn DEF RevokeFamily, FamilyFree
<1>2. /\ DOMAIN s.writes.user = {} /\ DOMAIN s.writes.tokens = {} /\ ~s.answers
      /\ s.user \in s.accounts /\ s.op \in EndsAll
      /\ DOMAIN done = s.holds /\ \A g \in DOMAIN done : done[g].state = "revoked"
      /\ s.todo \subseteq s.found /\ s.holds \subseteq s.found
      /\ f \in s.found /\ families[f].user = s.user /\ families[f].state # "none"
  BY <1>1 DEF Own, Locked, Ending
<1>3. /\ done \in Changes(FamilyIds, FamilyRows) /\ DOMAIN done \subseteq FamilyIds
      /\ \A g \in DOMAIN done : done[g] \in FamilyRows /\ Kept(s, g)
  <2>1. done \in Changes(FamilyIds, FamilyRows)
    BY <1>1 DEF Requests, Writes
  <2>2. \A g \in DOMAIN done : done[g].state # "live"
    BY <1>2
  <2> QED BY <1>1, <2>1, <2>2, ChangeTypes DEF Own, FamilyWrites, Opens
<1>4. /\ Revoked(f) \in FamilyRows /\ Revoked(f).state = "revoked"
      /\ Revoked(f).user = families[f].user /\ Revoked(f).born = families[f].born
      /\ Revoked(f).by = families[f].by
  BY RowTypes DEF Revoked, FamilyRows
<1>5. live \subseteq {f} /\ (families[f].state = "live" => live = {f})
      /\ (families[f].state # "live" => live = {})
  OBVIOUS
<1> HIDE DEF done, live
<1>6. /\ revoked \in Changes(FamilyIds, FamilyRows) /\ DOMAIN revoked = D
      /\ \A g \in DOMAIN done : revoked[g] = done[g]
      /\ \A g \in live \ DOMAIN done : revoked[g] = Revoked(f)
  <2>1. \A g \in D : g \in DOMAIN done \/ g = f
    BY <1>5
  <2>2. revoked \in [D -> FamilyRows]
    BY <1>3, <1>4, <2>1
  <2>3. D \in SUBSET FamilyIds
    BY <1>3, <1>5
  <2>4. /\ \A g \in DOMAIN done : revoked[g] = done[g]
        /\ \A g \in live \ DOMAIN done : revoked[g] = Revoked(g) /\ g = f
    BY <1>5
  <2> HIDE DEF revoked, D
  <2> QED BY <2>2, <2>3, <2>4, ChangeMade
<1>7. /\ next \in Requests /\ next.pc = "revoke" /\ next.op = s.op /\ ~next.answers
      /\ next.user = s.user /\ next.found = s.found /\ next.todo = s.todo \ {f}
      /\ next.holds = s.holds \cup live /\ next.accounts = s.accounts
      /\ next.writes.user = s.writes.user /\ next.writes.tokens = s.writes.tokens
      /\ next.writes.families = revoked
  <2>1. write \in Writes /\ write.user = s.writes.user /\ write.tokens = s.writes.tokens
        /\ write.families = revoked
    <3> HIDE DEF revoked
    <3> QED BY <1>1, <1>6 DEF Requests, Writes
  <2> HIDE DEF write
  <2> QED BY <1>1, <1>2, <1>5, <2>1 DEF Requests, Pcs
<1> HIDE DEF revoked, next, s
<1>8. \A g \in D : /\ revoked[g].state = "revoked"
                   /\ Kept(next, g)
  <2>1. \A g \in DOMAIN done : Kept(next, g) /\ revoked[g].state = "revoked"
    BY <1>2, <1>3, <1>6, <1>7 DEF Kept, done
  <2>2. f \in live => Kept(next, f) /\ revoked[f].state = "revoked"
    BY <1>2, <1>4, <1>6, <1>7, <2>1 DEF Kept
  <2> QED BY <1>5, <2>1, <2>2
<1>9. Own(next)
  <2>1. Locked(next)
    BY <1>1, <1>2, <1>7 DEF Own, Locked, Asking, Closing
  <2>2. FamilyWrites(next)
    BY <1>6, <1>7, <1>8 DEF FamilyWrites
  <2>3. Ending(next)
    <3>1. \A g \in s.found :
             /\ families[g].user = s.user /\ families[g].state # "none"
             /\ g \in s.todo \/ g \in s.holds \/ families[g].state = "revoked"
      BY <1>1 DEF Own, Ending
    <3>2. \A g \in FamilyIds : families[g].state = "live" /\ families[g].user = s.user =>
             g \in s.todo \/ g \in s.holds
      BY <1>1 DEF Own, Ending
    <3>3. families[f].state = "live" \/ families[f].state = "revoked"
      BY <1>2, RowTypes DEF FamilyRows
    <3> QED BY <1>2, <1>5, <1>6, <1>7, <1>8, <3>1, <3>2, <3>3 DEF Ending
  <2>4. AccountWrites(next) /\ Answers(next) /\ TokenWrites(next)
    BY <1>2, <1>7 DEF AccountWrites, Answers, TokenWrites, Closing
  <2> QED BY <2>1, <2>2, <2>3, <2>4 DEF Own
<1>10. \A o \in Others(t) : Apart(next, txs[o])
  <2> SUFFICES ASSUME NEW o \in Others(t) PROVE Apart(next, txs[o])
    OBVIOUS
  <2>1. f \notin DOMAIN txs[o].writes.families
    BY <1>1, <1>2, RequestIsOwn DEF Own, FamilyWrites, Kept, Opens
  <2>2. Apart(s, txs[o]) /\ f \notin txs[o].holds
    BY <1>1
  <2> QED BY <1>5, <1>6, <1>7, <2>1, <2>2 DEF Apart, done
<1> QED BY <1>1, <1>7, <1>9, <1>10, StepKeeps DEF s

LEMMA AccountTypes ==
  ASSUME NEW row \in UserRows, NEW op, row.tv < MaxVersion, row.version < MaxEdition,
         row.password <= row.tv
  PROVE  /\ Account(op, row) \in UserRows
         /\ Account(op, row).password <= Account(op, row).tv
         /\ Account(op, row).tv = row.tv + 1
<1>1. /\ row.tv \in Versions /\ row.version \in Editions /\ row.password \in Versions
      /\ row.active \in BOOLEAN /\ row.admin \in BOOLEAN
  BY DEF UserRows
<1>2. /\ row.tv + 1 \in Versions /\ row.version + 1 \in Editions
      /\ row.password + 1 \in Versions /\ row.password + 1 <= row.tv + 1
  BY <1>1, SessionsAssumption DEF Versions, Editions
<1>3. row.password <= row.tv + 1
  BY <1>1 DEF Versions
<1>4. CASE op \in {"recover", "recoverPromote"}
  <2>1. Account(op, row) = Recovered(op, row)
    BY <1>4 DEF Account
  <2>2. (row.admin \/ op = "recoverPromote") \in BOOLEAN
    OBVIOUS
  <2> DEFINE b == row.admin \/ op = "recoverPromote"
  <2>3. /\ Recovered(op, row) \in UserRows /\ Recovered(op, row).tv = row.tv + 1
        /\ Recovered(op, row).password = row.password + 1
    <3> HIDE DEF b
    <3>1. Recovered(op, row) = [row EXCEPT !.active = TRUE, !.tv = row.tv + 1,
                  !.version = row.version + 1, !.password = row.password + 1, !.admin = b]
      BY DEF Recovered, b
    <3> QED BY <1>1, <1>2, <2>2, <3>1 DEF UserRows, b
  <2> QED BY <1>2, <2>1, <2>3
<1>5. CASE op \notin {"recover", "recoverPromote"}
  <2> DEFINE b == row.active /\ op # "deactivate"
             v == IF op \in {"reset", "deactivate"} THEN row.version + 1 ELSE row.version
             p == IF op \in {"reset", "change"} THEN row.password + 1 ELSE row.password
  <2>1. b \in BOOLEAN /\ v \in Editions /\ p \in Versions /\ p <= row.tv + 1
    BY <1>1, <1>2, <1>3
  <2>2. Account(op, row) = [row EXCEPT !.active = b, !.tv = row.tv + 1, !.version = v,
                                       !.password = p]
    BY <1>5 DEF Account
  <2> HIDE DEF b, v, p
  <2> QED BY <1>1, <1>2, <2>1, <2>2 DEF UserRows
<1> QED BY <1>4, <1>5

(* Nothing is left to revoke: every live session of the account is held. *)
LEMMA AllEnded ==
  ASSUME SessionInv, NEW t \in Txs, txs[t].pc = "revoke", txs[t].todo = {}
  PROVE  LET s == txs[t]
             done == s.writes.families
         IN  /\ s \in Requests /\ ~s.answers /\ s.op \in EndsAll
             /\ s.user \in Users /\ s.user \in s.accounts
             /\ done \in Changes(FamilyIds, FamilyRows) /\ DOMAIN done = s.holds
             /\ \A g \in DOMAIN done : /\ Kept(s, g) /\ done[g].state = "revoked"
                                       /\ done[g] \in FamilyRows /\ g \in FamilyIds
             /\ \A g \in FamilyIds : families[g].state = "live" /\ families[g].user = s.user =>
                   g \in DOMAIN done
             /\ DOMAIN Void(s.found) \subseteq TokensOf(s.holds)
             /\ \A g \in s.holds : \A k \in TokensOf({g}) :
                   tokens[k].status = "REVOKED" \/ k \in DOMAIN Void(s.found)
<1> DEFINE s == txs[t]
           done == s.writes.families
<1>1. s \in Requests /\ Own(s) /\ s.pc = "revoke" /\ s.todo = {}
  BY RequestIsOwn
<1>2. /\ ~s.answers /\ s.user \in s.accounts /\ s.op \in EndsAll
      /\ DOMAIN done = s.holds /\ \A g \in DOMAIN done : done[g].state = "revoked"
      /\ s.holds \subseteq s.found
      /\ \A g \in s.found : /\ families[g].state # "none"
                            /\ g \in s.holds \/ families[g].state = "revoked"
      /\ \A g \in FamilyIds : families[g].state = "live" /\ families[g].user = s.user =>
             g \in s.holds
  BY <1>1 DEF Own, Locked, Ending
<1>3. /\ done \in Changes(FamilyIds, FamilyRows) /\ DOMAIN done \subseteq FamilyIds
      /\ s.found \subseteq FamilyIds /\ s.user \in Users
  BY <1>1, <1>2, ChangeTypes DEF Requests, Writes
<1>4. \A g \in DOMAIN done : Kept(s, g) /\ done[g] \in FamilyRows
  <2>1. \A g \in DOMAIN done : done[g].state # "live"
    BY <1>2
  <2> QED BY <1>1, <1>3, <2>1, ChangeTypes DEF Own, FamilyWrites, Opens
<1>5. DOMAIN Void(s.found) = {k \in TokensOf(s.found) : tokens[k].status # "REVOKED"}
  BY VoidTypes
<1>6. \A k \in TokensOf(s.found) : k \in TokenIds /\ tokens[k].family \in s.found
                                   /\ tokens[k].status # "none"
  BY DEF TokensOf
<1>7. \A k \in DOMAIN Void(s.found) : k \in TokensOf(s.holds)
  <2> SUFFICES ASSUME NEW k \in TokensOf(s.found), tokens[k].status # "REVOKED"
               PROVE  k \in TokensOf(s.holds)
    BY <1>5
  <2>1. k \in TokensOf({tokens[k].family}) /\ tokens[k].family \in FamilyIds
    BY <1>3, <1>6 DEF TokensOf
  <2>2. families[tokens[k].family].state # "revoked"
    BY <2>1 DEF SessionInv, EverySessionIsCurrent, RevokedHasNoToken
  <2> QED BY <1>2, <1>6, <2>2 DEF TokensOf
<1>8. \A g \in s.holds : \A k \in TokensOf({g}) :
         tokens[k].status = "REVOKED" \/ k \in DOMAIN Void(s.found)
  BY <1>2, <1>5, SMTT(30) DEF TokensOf
<1> QED BY <1>1, <1>2, <1>3, <1>4, <1>7, <1>8

LEMMA RevokeTokensKeeps ==
  ASSUME SessionInv, NEW t \in Txs, RevokeTokens(t)
  PROVE  SessionInv'
<1> DEFINE s == txs[t]
           u == s.user
           after == Account(s.op, users[u])
           done == s.writes.families
           void == Void(s.found)
           account == [v \in {u} |-> after]
           write == [user |-> account, families |-> done, tokens |-> void]
<1>1. /\ s \in Requests /\ ~s.answers /\ s.op \in EndsAll /\ u \in Users /\ u \in s.accounts
      /\ done \in Changes(FamilyIds, FamilyRows) /\ DOMAIN done = s.holds
      /\ \A g \in DOMAIN done : /\ Kept(s, g) /\ done[g].state = "revoked"
                                /\ done[g] \in FamilyRows /\ g \in FamilyIds
      /\ \A g \in FamilyIds : families[g].state = "live" /\ families[g].user = u =>
            g \in DOMAIN done
      /\ DOMAIN void \subseteq TokensOf(s.holds)
      /\ \A g \in s.holds : \A k \in TokensOf({g}) :
            tokens[k].status = "REVOKED" \/ k \in DOMAIN void
  BY AllEnded DEF RevokeTokens
<1>2. after \in UserRows /\ after.password <= after.tv
  BY <1>1, RowTypes, AccountTypes DEF RevokeTokens, SessionInv, Related
<1>3. /\ account \in Changes(Users, UserRows) /\ DOMAIN account = {u} /\ account[u] = after
  <2> HIDE DEF after, u
  <2>1. account \in [{u} -> UserRows] /\ {u} \in SUBSET Users /\ account[u] = after
    BY <1>1, <1>2
  <2> HIDE DEF account
  <2> QED BY <2>1, ChangeMade
<1>4. /\ void \in Changes(TokenIds, TokenRows)
      /\ \A k \in DOMAIN void : /\ void[k].status = "REVOKED" /\ void[k] \in TokenRows
                                /\ void[k].family = tokens[k].family
                                /\ tokens[k].family \in DOMAIN done /\ k \in TokenIds
                                /\ tokens[k].status # "none"
  <2>1. void \in Changes(TokenIds, TokenRows) /\ \A k \in DOMAIN void : void[k] \in TokenRows
    BY VoidTypes, ChangeTypes
  <2> QED BY <1>1, <2>1, VoidTypes DEF TokensOf
<1>5. \A o \in Others(t) : Apart(s, txs[o])
  BY RequestIsOwn
<1>6. \A o \in Others(t) : \A k \in DOMAIN void : k \notin DOMAIN txs[o].writes.tokens
  <2> SUFFICES ASSUME NEW o \in Others(t), NEW k \in DOMAIN void
               PROVE  k \notin DOMAIN txs[o].writes.tokens
    OBVIOUS
  <2>1. tokens[k].family \in s.holds /\ tokens[k].family \in FamilyIds
        /\ families[tokens[k].family].state # "none" /\ k \in TokensOf({tokens[k].family})
    BY <1>1, <1>4 DEF Kept, TokensOf
  <2> QED BY <2>1, OthersElsewhere
<1>7. ASSUME s.op # "change", Step(t, [s EXCEPT !.pc = "audit", !.writes = write])
      PROVE  SessionInv'
  <2> DEFINE next == [s EXCEPT !.pc = "audit", !.writes = write]
  <2>1. Step(t, next)
    BY <1>7
  <2> HIDE DEF s, u, after, void, account
  <2>2. /\ next \in Requests /\ next.pc = "audit" /\ next.op = s.op /\ ~next.answers
        /\ next.user = u /\ next.holds = s.holds /\ next.accounts = s.accounts
        /\ next.writes.user = account /\ next.writes.tokens = void
        /\ next.writes.families = done
    <3>1. write \in Writes
      BY <1>1, <1>3, <1>4 DEF Writes
    <3>2. write.user = account /\ write.tokens = void /\ write.families = done
      OBVIOUS
    <3> HIDE DEF write
    <3> QED BY <1>1, <3>1, <3>2 DEF Requests, Pcs, Closing, u
  <2> HIDE DEF next
  <2>3. Own(next)
    <3>1. Locked(next)
      BY <1>1, <2>2 DEF Locked, Asking, Closing
    <3>2. FamilyWrites(next)
      BY <1>1, <2>2 DEF FamilyWrites, Kept
    <3>3. AccountWrites(next)
      BY <1>1, <1>2, <1>3, <2>2 DEF AccountWrites, EndsLive
    <3>4. Ending(next) /\ Answers(next)
      BY <2>2 DEF Ending, Answers
    <3>5. TokenWrites(next)
      BY <1>1, <1>4, <2>2 DEF TokenWrites
    <3> QED BY <3>1, <3>2, <3>3, <3>4, <3>5 DEF Own
  <2>4. \A o \in Others(t) : Apart(next, txs[o])
    BY <1>1, <1>5, <1>6, <2>2 DEF Apart
  <2> QED BY <2>1, <2>2, <2>3, <2>4, StepKeeps
<1>8. ASSUME s.op = "change", NEW f \in FamilyIds, NEW n \in TokenIds,
             f \in FreeFamily, n \in FreeToken(f),
             Step(t, [s EXCEPT !.pc = "audit", !.tv = after.tv, !.family = f, !.answers = TRUE,
                       !.writes = [write EXCEPT
                           !.families = [g \in DOMAIN done \cup {f} |->
                                 IF g = f THEN Opened(u, after.tv, "change") ELSE done[g]],
                           !.tokens = [k \in DOMAIN void \cup {n} |->
                                 IF k = n THEN Issued(f) ELSE void[k]]]])
      PROVE  SessionInv'
  <2> DEFINE opened == [g \in DOMAIN done \cup {f} |->
                           IF g = f THEN Opened(u, after.tv, "change") ELSE done[g]]
             issued == [k \in DOMAIN void \cup {n} |-> IF k = n THEN Issued(f) ELSE void[k]]
             all == [write EXCEPT !.families = opened, !.tokens = issued]
             next == [s EXCEPT !.pc = "audit", !.tv = after.tv, !.family = f,
                               !.answers = TRUE, !.writes = all]
  <2>1. Step(t, next)
    BY <1>8
  <2>2. after.tv \in Versions
    BY <1>2 DEF UserRows
  <2>3. /\ families[f].state = "none" /\ TokensOf({f}) = {} /\ tokens[n].status = "none"
        /\ \A o \in Txs : /\ f \notin DOMAIN txs[o].writes.families
                          /\ n \notin DOMAIN txs[o].writes.tokens
    BY <1>8, FreeFamilyIsNew, FreeTokenIsNew
  <2>4. f \notin DOMAIN done /\ n \notin DOMAIN void
    BY <2>3, <1>4
  <2> HIDE DEF s, u, after, void, account, done
  <2>5. /\ opened \in Changes(FamilyIds, FamilyRows) /\ DOMAIN opened = DOMAIN done \cup {f}
        /\ opened[f] = Opened(u, after.tv, "change")
        /\ \A g \in DOMAIN done : opened[g] = done[g]
    <3>1. /\ opened \in [DOMAIN done \cup {f} -> FamilyRows]
          /\ DOMAIN done \cup {f} \in SUBSET FamilyIds
      BY <1>1, <2>2, OpenedTypes
    <3>2. opened[f] = Opened(u, after.tv, "change") /\ \A g \in DOMAIN done : opened[g] = done[g]
      BY <2>4
    <3> HIDE DEF opened
    <3> QED BY <3>1, <3>2, ChangeMade
  <2>6. /\ issued \in Changes(TokenIds, TokenRows) /\ DOMAIN issued = DOMAIN void \cup {n}
        /\ issued[n] = Issued(f) /\ \A k \in DOMAIN void : issued[k] = void[k]
    <3>1. /\ issued \in [DOMAIN void \cup {n} -> TokenRows]
          /\ DOMAIN void \cup {n} \in SUBSET TokenIds
      BY <1>4, IssuedTypes
    <3>2. issued[n] = Issued(f) /\ \A k \in DOMAIN void : issued[k] = void[k]
      BY <2>4
    <3> HIDE DEF issued
    <3> QED BY <3>1, <3>2, ChangeMade
  <2> HIDE DEF opened, issued
  <2>7. /\ next \in Requests /\ next.pc = "audit" /\ next.op = s.op /\ next.answers
        /\ next.user = u /\ next.holds = s.holds /\ next.accounts = s.accounts
        /\ next.family = f /\ next.tv = after.tv
        /\ next.writes.user = account /\ next.writes.tokens = issued
        /\ next.writes.families = opened
    <3>1. all \in Writes
      BY <1>3, <2>5, <2>6 DEF Writes
    <3>2. all.user = account /\ all.tokens = issued /\ all.families = opened
      OBVIOUS
    <3> HIDE DEF all
    <3>3. f \in 0 .. MaxFamilies
      BY SessionsAssumption DEF FamilyIds
    <3> QED BY <1>1, <2>2, <3>1, <3>2, <3>3 DEF Requests, Pcs, Closing, u
  <2> HIDE DEF next
  <2>8. /\ opened[f].state = "live" /\ opened[f].user = u /\ opened[f].born = after.tv
        /\ opened[f].by = "change"
    BY <1>1, <2>2, <2>5, OpenedTypes
  <2>9. Own(next)
    <3>1. Locked(next)
      BY <1>1, <2>7 DEF Locked, Asking, Closing
    <3>2. FamilyWrites(next)
      <4>1. \A g \in DOMAIN done : Kept(next, g)
        BY <1>1, <2>5, <2>7 DEF Kept, done
      <4>2. Opens(next, f)
        BY <1>1, <1>3, <1>8, <2>3, <2>7, <2>8 DEF Opens, After, Closing, FamilyOps
      <4> QED BY <2>5, <2>7, <4>1, <4>2 DEF FamilyWrites
    <3>3. AccountWrites(next)
      BY <1>1, <1>2, <1>3, <2>3, <2>5, <2>7 DEF AccountWrites, EndsLive
    <3>4. Ending(next) /\ Answers(next)
      BY <2>5, <2>7, <2>8 DEF Ending, Answers
    <3>5. TokenWrites(next)
      <4>1. issued[n].family = f /\ issued[n].status = "ACTIVE"
        BY <2>6, IssuedTypes
      <4>2. \A k \in DOMAIN void :
               /\ issued[k].status = "REVOKED" /\ issued[k].family = tokens[k].family
               /\ tokens[k].family \in DOMAIN done
        BY <1>4, <2>6
      <4>3. \A g \in DOMAIN opened : opened[g].state = "revoked" => g \in DOMAIN done
        BY <2>5, <2>8
      <4>4. TokensOf({issued[n].family}) = {}
        <5>1. TokensOf({issued[n].family}) = TokensOf({f})
          BY <4>1
        <5> QED BY <2>3, <5>1
      <4>5. \A g \in DOMAIN opened : opened[g].state = "revoked" =>
               \A k \in TokensOf({g}) : tokens[k].status = "REVOKED" \/ k \in DOMAIN issued
        BY <1>1, <2>6, <4>3
      <4>6. \A k \in DOMAIN issued :
               /\ issued[k].status # "none" /\ issued[k].family \in DOMAIN opened
               /\ tokens[k].status # "none" => tokens[k].family = issued[k].family
               /\ opened[issued[k].family].state = "revoked" => issued[k].status = "REVOKED"
               /\ issued[k].status = "ACTIVE" => k = n
        BY <2>3, <2>5, <2>6, <2>8, <4>1, <4>2
      <4> QED BY <2>7, <4>4, <4>5, <4>6, ZenonT(60) DEF TokenWrites
    <3> QED BY <3>1, <3>2, <3>3, <3>4, <3>5 DEF Own
  <2>10. \A o \in Others(t) : Apart(next, txs[o])
    <3>1. \A o \in Others(t) : /\ f \notin DOMAIN txs[o].writes.families
                               /\ n \notin DOMAIN txs[o].writes.tokens
      BY <2>3 DEF Others
    <3> QED BY <1>5, <1>6, <2>5, <2>6, <2>7, <3>1 DEF Apart, done
  <2> QED BY <2>1, <2>7, <2>9, <2>10, StepKeeps
<1> QED BY <1>7, <1>8 DEF RevokeTokens

LEMMA AuditKeeps ==
  ASSUME SessionInv, NEW t \in Txs, Audit(t)
  PROVE  SessionInv'
<1> DEFINE s == txs[t]
           next == [s EXCEPT !.pc = "commit", !.shares = {s.actor}]
<1>1. s \in Requests /\ Own(s) /\ s.pc = "audit" /\ Step(t, next)
  BY RequestIsOwn DEF Audit
<1>2. \A o \in Others(t) : Apart(s, txs[o])
  BY RequestIsOwn
<1> HIDE DEF s
<1>3. /\ next \in Requests /\ next.pc = "commit" /\ next.op = s.op /\ next.answers = s.answers
      /\ next.tv = s.tv /\ next.user = s.user /\ next.family = s.family
      /\ next.holds = s.holds /\ next.accounts = s.accounts /\ next.writes = s.writes
  BY <1>1 DEF Requests, Pcs, Closing
<1> HIDE DEF next
<1>4. Own(next)
  <2>1. Locked(next)
    BY <1>1, <1>3 DEF Own, Locked, Asking, Closing
  <2>2. FamilyWrites(next)
    BY <1>1, <1>3 DEF Own, FamilyWrites, Kept, Opens, After, Closing
  <2>3. AccountWrites(next) /\ Ending(next)
    BY <1>1, <1>3 DEF Own, AccountWrites, EndsLive, Ending
  <2>4. Answers(next)
    BY <1>1, <1>3 DEF Own, Answers
  <2>5. TokenWrites(next)
    BY <1>1, <1>3, SMTT(100) DEF Own, TokenWrites, Closing
  <2> QED BY <2>1, <2>2, <2>3, <2>4, <2>5 DEF Own
<1>5. \A o \in Others(t) : Apart(next, txs[o])
  BY <1>2, <1>3 DEF Apart
<1> QED BY <1>1, <1>3, <1>4, <1>5, StepKeeps
-----------------------------------------------------------------------------
(* Committing. A row is as the request wrote it, or as it was. *)
LEMMA RowsWritten ==
  ASSUME NEW S, NEW R, NEW rows \in [S -> R], NEW changes \in Changes(S, R)
  PROVE  /\ Written(rows, changes) \in [S -> R]
         /\ \A x \in DOMAIN changes : x \in S /\ Written(rows, changes)[x] = changes[x]
         /\ \A x \in S \ DOMAIN changes : Written(rows, changes)[x] = rows[x]
<1>1. DOMAIN rows = S /\ \A x \in S : rows[x] \in R
  OBVIOUS
<1>2. DOMAIN changes \subseteq S /\ \A x \in DOMAIN changes : changes[x] \in R
  BY ChangeTypes
<1>3. Written(rows, changes) =
         [x \in S |-> IF x \in DOMAIN changes THEN changes[x] ELSE rows[x]]
  BY <1>1 DEF Written
<1> QED BY <1>1, <1>2, <1>3

(* What the database holds after the commit of t, told apart by whether t   *)
(* wrote it.                                                               *)
Commits(t) ==
    LET s == txs[t]
        w == s.writes
    IN  /\ s \in Requests /\ Own(s) /\ s.pc = "commit"
        /\ \A u \in DOMAIN w.user : /\ u \in Users /\ users'[u] = w.user[u]
                                    /\ u = s.user /\ u \in s.accounts
        /\ \A u \in Users \ DOMAIN w.user : users'[u] = users[u]
        /\ \A f \in DOMAIN w.families : f \in FamilyIds /\ families'[f] = w.families[f]
        /\ \A f \in FamilyIds \ DOMAIN w.families : families'[f] = families[f]
        /\ \A k \in DOMAIN w.tokens : k \in TokenIds /\ tokens'[k] = w.tokens[k]
        /\ \A k \in TokenIds \ DOMAIN w.tokens : tokens'[k] = tokens[k]

LEMMA CommitWrites ==
  ASSUME SessionInv, NEW t \in Txs, Commit(t)
  PROVE  /\ Commits(t)
         /\ users' \in [Users -> UserRows] /\ families' \in [FamilyIds -> FamilyRows]
         /\ tokens' \in [TokenIds -> TokenRows]
<1>1. txs[t] \in Requests /\ Own(txs[t]) /\ txs[t].pc = "commit"
  BY RequestIsOwn DEF Commit
<1>2. /\ txs[t].writes.user \in Changes(Users, UserRows)
      /\ txs[t].writes.families \in Changes(FamilyIds, FamilyRows)
      /\ txs[t].writes.tokens \in Changes(TokenIds, TokenRows)
  BY <1>1 DEF Requests, Writes
<1>3. /\ users \in [Users -> UserRows] /\ families \in [FamilyIds -> FamilyRows]
      /\ tokens \in [TokenIds -> TokenRows]
  BY DEF SessionInv, Typed, TypeOK
<1>4. /\ users' = Written(users, txs[t].writes.user)
      /\ families' = Written(families, txs[t].writes.families)
      /\ tokens' = Written(tokens, txs[t].writes.tokens)
  BY DEF Commit
<1>5. \A u \in DOMAIN txs[t].writes.user : u = txs[t].user /\ u \in txs[t].accounts
  BY <1>1 DEF Own, AccountWrites
<1>6. /\ users' \in [Users -> UserRows]
      /\ \A u \in DOMAIN txs[t].writes.user : u \in Users /\ users'[u] = txs[t].writes.user[u]
      /\ \A u \in Users \ DOMAIN txs[t].writes.user : users'[u] = users[u]
  BY <1>2, <1>3, <1>4, RowsWritten
<1>7. /\ families' \in [FamilyIds -> FamilyRows]
      /\ \A f \in DOMAIN txs[t].writes.families :
            f \in FamilyIds /\ families'[f] = txs[t].writes.families[f]
      /\ \A f \in FamilyIds \ DOMAIN txs[t].writes.families : families'[f] = families[f]
  BY <1>2, <1>3, <1>4, RowsWritten
<1>8. /\ tokens' \in [TokenIds -> TokenRows]
      /\ \A k \in DOMAIN txs[t].writes.tokens :
            k \in TokenIds /\ tokens'[k] = txs[t].writes.tokens[k]
      /\ \A k \in TokenIds \ DOMAIN txs[t].writes.tokens : tokens'[k] = tokens[k]
  BY <1>2, <1>3, <1>4, RowsWritten
<1> QED BY <1>1, <1>5, <1>6, <1>7, <1>8 DEF Commits

(* A session there was stays its account's, opened as it was; a revoked one *)
(* stays revoked. A new one is of the account the request has locked.       *)
LEMMA SessionsCommitted ==
  ASSUME SessionInv, NEW t \in Txs, Commits(t), NEW f \in FamilyIds
  PROVE  /\ families[f].state # "none" =>
               /\ families'[f].state # "none" /\ families'[f].user = families[f].user
               /\ families'[f].born = families[f].born /\ families'[f].by = families[f].by
               /\ families'[f].state = "live" => families[f].state = "live"
               /\ families[f].state = "revoked" => families'[f].state = "revoked"
         /\ families[f].state = "none" /\ families'[f].state # "none" =>
               /\ f \in DOMAIN txs[t].writes.families
               /\ families'[f].user = txs[t].user /\ txs[t].user \in txs[t].accounts
               /\ families'[f].born = After(txs[t]).tv
               /\ After(txs[t]).active \/ families'[f].by = "change"
<1>1. CASE f \in DOMAIN txs[t].writes.families
  BY <1>1 DEF Commits, Own, FamilyWrites, Kept, Opens
<1>2. CASE f \notin DOMAIN txs[t].writes.families
  BY <1>2 DEF Commits
<1> QED BY <1>1, <1>2

LEMMA TokensCommitted ==
  ASSUME SessionInv, NEW t \in Txs, Commits(t), NEW k \in TokenIds
  PROVE  /\ tokens[k].status # "none" =>
               tokens'[k].status # "none" /\ tokens'[k].family = tokens[k].family
         /\ k \in DOMAIN txs[t].writes.tokens =>
               /\ tokens'[k].family \in DOMAIN txs[t].writes.families
               /\ families'[tokens'[k].family].state = "revoked" => tokens'[k].status = "REVOKED"
         /\ k \notin DOMAIN txs[t].writes.tokens => tokens'[k] = tokens[k]
<1>1. CASE k \in DOMAIN txs[t].writes.tokens
  <2> DEFINE w == txs[t].writes
             f == w.tokens[k].family
  <2>1. /\ w.tokens[k].status # "none" /\ f \in DOMAIN w.families
        /\ tokens[k].status # "none" => tokens[k].family = f
        /\ w.families[f].state = "revoked" => w.tokens[k].status = "REVOKED"
    BY <1>1 DEF Commits, Own, TokenWrites
  <2>2. tokens'[k] = w.tokens[k] /\ families'[f] = w.families[f]
    BY <1>1, <2>1 DEF Commits
  <2> QED BY <1>1, <2>1, <2>2
<1>2. CASE k \notin DOMAIN txs[t].writes.tokens
  BY <1>2 DEF Commits
<1> QED BY <1>1, <1>2

LEMMA CommitKeepsCurrent ==
  ASSUME SessionInv, NEW t \in Txs, Commit(t)
  PROVE  EverySessionIsCurrent' /\ Related' /\ TypeOK'
<1> DEFINE s == txs[t]
           w == s.writes
<1>1. /\ Commits(t) /\ users' \in [Users -> UserRows]
      /\ families' \in [FamilyIds -> FamilyRows] /\ tokens' \in [TokenIds -> TokenRows]
  BY CommitWrites
<1>2. s \in Requests /\ Own(s) /\ s.pc = "commit"
  BY <1>1 DEF Commits
<1>3. \A u \in Users : u \notin DOMAIN w.user => users'[u] = users[u]
  BY <1>1 DEF Commits
<1>4. s.user \in Users => users'[s.user] = After(s)
  BY <1>1, <1>3 DEF Commits, After
<1>5. s.accounts \subseteq Users
  BY <1>2 DEF Requests
<1>6. LiveIsCurrent'
  <2> SUFFICES ASSUME NEW f \in FamilyIds, families'[f].state = "live"
               PROVE  /\ families'[f].born = users'[families'[f].user].tv
                      /\ users'[families'[f].user].active \/ families'[f].by = "change"
    BY DEF LiveIsCurrent
  <2>1. CASE families[f].state = "none"
    BY <1>1, <1>4, <1>5, <2>1, SessionsCommitted
  <2>2. CASE families[f].state # "none"
    <3> DEFINE u == families[f].user
    <3>1. /\ families[f].state = "live" /\ families'[f].user = u
          /\ families'[f].born = families[f].born /\ families'[f].by = families[f].by
      BY <1>1, <2>2, SessionsCommitted
    <3>2. /\ u \in Users /\ families[f].born = users[u].tv
          /\ users[u].active \/ families[f].by = "change"
      BY <2>2, <3>1 DEF SessionInv, Related, EverySessionIsCurrent, LiveIsCurrent
    <3>3. ~(u = s.user /\ EndsLive(s))
      BY <1>1, <3>1 DEF EndsLive, Commits
    <3>4. users'[u].tv = users[u].tv /\ (users[u].active => users'[u].active)
      <4>1. CASE u \in DOMAIN w.user
        BY <1>1, <1>2, <3>3, <4>1 DEF Own, AccountWrites, Commits
      <4>2. CASE u \notin DOMAIN w.user
        BY <1>3, <3>2, <4>2
      <4> QED BY <4>1, <4>2
    <3> QED BY <3>1, <3>2, <3>4
  <2> QED BY <2>1, <2>2
<1>7. ASSUME s.answers
      PROVE  /\ s.family \in FamilyIds /\ s.user \in Users /\ s.tv \in Versions
             /\ families'[s.family].born = s.tv /\ families'[s.family].user = s.user
             /\ families'[s.family].state # "none"
  <2>1. /\ s.family \in DOMAIN w.families /\ w.families[s.family].user = s.user
        /\ w.families[s.family].state = "live" /\ w.families[s.family].born = s.tv
    BY <1>2, <1>7 DEF Own, Answers
  <2>2. s.family \in FamilyIds /\ families'[s.family] = w.families[s.family]
    BY <1>1, <2>1 DEF Commits
  <2>3. s.user \in Users
    BY <1>2, <1>5, <2>1, <2>2, SMTT(40) DEF Own, FamilyWrites, Kept, Opens, SessionInv, Related
  <2> QED BY <1>2, <2>1, <2>2, <2>3 DEF Requests
<1>8. \A g \in grants' : \/ g \in grants
                         \/ s.answers /\ g = [user |-> s.user, tv |-> s.tv, family |-> s.family]
  BY DEF Commit
<1>9. \A g \in grants : g \in Grants /\ g.family \in FamilyIds
                        /\ families[g.family].state # "none"
                        /\ families[g.family].born = g.tv /\ families[g.family].user = g.user
  BY DEF SessionInv, Typed, TypeOK, Related, Grants, EverySessionIsCurrent, GrantsAreOfTheirSession
<1>10. GrantsAreOfTheirSession' /\ \A g \in grants' : g \in Grants /\ families'[g.family].state # "none"
  BY <1>1, <1>7, <1>8, <1>9, SessionsCommitted DEF GrantsAreOfTheirSession, Grants
<1>11. RevokedHasNoToken'
  <2> SUFFICES ASSUME NEW f \in FamilyIds, families'[f].state = "revoked",
                      NEW k \in TokenIds, tokens'[k].status # "none", tokens'[k].family = f
               PROVE  tokens'[k].status = "REVOKED"
    BY DEF RevokedHasNoToken, TokensOf
  <2>1. CASE k \in DOMAIN w.tokens
    BY <1>1, <2>1, TokensCommitted
  <2>2. CASE k \notin DOMAIN w.tokens
    <3>1. tokens'[k] = tokens[k] /\ k \in TokensOf({f})
      BY <1>1, <2>2, TokensCommitted DEF TokensOf
    <3>2. CASE f \in DOMAIN w.families
      <4>1. w.families[f].state = "revoked"
        BY <1>1, <3>2 DEF Commits
      <4> QED BY <1>2, <2>2, <3>1, <3>2, <4>1 DEF Own, TokenWrites, Closing
    <3>3. CASE f \notin DOMAIN w.families
      <4>1. families[f].state = "revoked"
        BY <1>1, <3>3 DEF Commits
      <4> QED BY <3>1, <4>1 DEF SessionInv, EverySessionIsCurrent, RevokedHasNoToken
    <3> QED BY <3>2, <3>3
  <2> QED BY <2>1, <2>2
<1>12. OneActiveToken'
  <2> SUFFICES ASSUME NEW f \in FamilyIds, NEW j \in TokenIds, NEW k \in TokenIds,
                      tokens'[j].status = "ACTIVE", tokens'[k].status = "ACTIVE",
                      tokens'[j].family = f, tokens'[k].family = f
               PROVE  j = k
    BY DEF OneActiveToken, TokensOf
  <2>1. \A i \in TokenIds \ DOMAIN w.tokens : tokens'[i] = tokens[i]
    BY <1>1, TokensCommitted
  <2>2. \A i \in DOMAIN w.tokens : tokens'[i] = w.tokens[i]
    BY <1>1 DEF Commits
  <2>3. \A i \in TokenIds \ DOMAIN w.tokens :
           tokens'[i].status = "ACTIVE" /\ tokens'[i].family = f =>
              i \in TokensOf({f}) /\ tokens[i].status = "ACTIVE"
    BY <2>1 DEF TokensOf
  <2>4. CASE j \in DOMAIN w.tokens /\ k \in DOMAIN w.tokens
    <3>1. /\ w.tokens[j].status = "ACTIVE" /\ w.tokens[k].status = "ACTIVE"
          /\ w.tokens[j].family = w.tokens[k].family
      BY <2>2, <2>4
    <3>2. TokenWrites(s)
      BY <1>2 DEF Own
    <3> HIDE DEF s
    <3> QED BY <2>4, <3>1, <3>2 DEF TokenWrites
  <2>5. CASE j \in DOMAIN w.tokens /\ k \notin DOMAIN w.tokens
    BY <1>2, <2>2, <2>3, <2>5 DEF Own, TokenWrites
  <2>6. CASE j \notin DOMAIN w.tokens /\ k \in DOMAIN w.tokens
    BY <1>2, <2>2, <2>3, <2>6 DEF Own, TokenWrites
  <2>7. CASE j \notin DOMAIN w.tokens /\ k \notin DOMAIN w.tokens
    BY <2>3, <2>7 DEF SessionInv, EverySessionIsCurrent, OneActiveToken
  <2> QED BY <2>4, <2>5, <2>6, <2>7
<1>13. Related'
  <2>1. \A u \in Users : users'[u].password <= users'[u].tv
    <3> SUFFICES ASSUME NEW u \in Users PROVE users'[u].password <= users'[u].tv
      OBVIOUS
    <3>1. CASE u \in DOMAIN w.user
      BY <1>1, <1>2, <3>1 DEF Own, AccountWrites, Commits
    <3>2. CASE u \notin DOMAIN w.user
      BY <1>3, <3>2 DEF SessionInv, Related
    <3> QED BY <3>1, <3>2
  <2>2. \A f \in FamilyIds : families'[f].state # "none" => families'[f].user \in Users
    BY <1>1, <1>5, SessionsCommitted DEF SessionInv, Related
  <2>3. \A k \in TokenIds : tokens'[k].status # "none" =>
           tokens'[k].family \in FamilyIds /\ families'[tokens'[k].family].state # "none"
    <3> SUFFICES ASSUME NEW k \in TokenIds, tokens'[k].status # "none"
                 PROVE  /\ tokens'[k].family \in FamilyIds
                        /\ families'[tokens'[k].family].state # "none"
      OBVIOUS
    <3>1. CASE k \in DOMAIN w.tokens
      <4>1. tokens'[k].family \in DOMAIN w.families
        BY <1>1, <3>1, TokensCommitted
      <4> QED BY <1>1, <1>2, <4>1 DEF Commits, Own, FamilyWrites, Kept, Opens
    <3>2. CASE k \notin DOMAIN w.tokens
      <4>1. /\ tokens'[k] = tokens[k] /\ tokens[k].family \in FamilyIds
            /\ families[tokens[k].family].state # "none"
        BY <1>1, <3>2, TokensCommitted DEF SessionInv, Related
      <4> QED BY <1>1, <4>1, SessionsCommitted
    <3> QED BY <3>1, <3>2
  <2> QED BY <1>10, <2>1, <2>2, <2>3 DEF Related
<1> QED BY <1>1, <1>6, <1>10, <1>11, <1>12, <1>13 DEF EverySessionIsCurrent, TypeOK

(* What another request has written, found or locked is none of it. *)
LEMMA CommitKeepsOthers ==
  ASSUME SessionInv, NEW t \in Txs, Commit(t), NEW r \in Requests, Own(r), Apart(txs[t], r)
  PROVE  Own(r)'
<1> DEFINE s == txs[t]
           w == s.writes
<1>1. Commits(t) /\ s \in Requests /\ Own(s) /\ s.pc = "commit"
  BY CommitWrites DEF Commits
<1>2. Own(r) /\ Apart(s, r)
  OBVIOUS
<1>4. \A u \in r.accounts : u \in Users /\ users'[u] = users[u]
  <2>1. r.accounts \subseteq Users
    BY <1>2 DEF Requests
  <2> QED BY <1>1, <1>2, <2>1 DEF Commits, Apart
<1>5. \A f \in DOMAIN r.writes.families : f \in FamilyIds /\ families'[f] = families[f]
  <2>1. DOMAIN r.writes.families \subseteq FamilyIds
    BY <1>2, ChangeTypes DEF Requests, Writes
  <2> QED BY <1>1, <1>2, <2>1 DEF Commits, Apart
<1>6. \A k \in DOMAIN r.writes.tokens : k \in TokenIds /\ tokens'[k] = tokens[k]
  <2>1. DOMAIN r.writes.tokens \subseteq TokenIds
    BY <1>2, ChangeTypes DEF Requests, Writes
  <2> QED BY <1>1, <1>2, <2>1 DEF Commits, Apart
<1>7. \A f \in FamilyIds :
         families[f].state # "none" =>
            /\ families'[f].state # "none" /\ families'[f].user = families[f].user
            /\ families[f].state = "revoked" => families'[f].state = "revoked"
  BY <1>1, SessionsCommitted
<1>8. \A k \in TokenIds : tokens[k].status # "none" =>
         tokens'[k].status # "none" /\ tokens'[k].family = tokens[k].family
  BY <1>1, TokensCommitted
(* No session of its account is new: that takes the account's lock. *)
<1>9. \A f \in FamilyIds :
         families'[f].state = "live" /\ families'[f].user = r.user /\ r.user \in r.accounts =>
            families[f].state = "live" /\ families[f].user = r.user
  <2> SUFFICES ASSUME NEW f \in FamilyIds, families'[f].state = "live",
                      families'[f].user = r.user, r.user \in r.accounts
               PROVE  families[f].state = "live" /\ families[f].user = r.user
    OBVIOUS
  <2>1. families[f].state # "none"
    BY <1>1, <1>2, SessionsCommitted DEF Apart
  <2> QED BY <1>1, <2>1, SessionsCommitted
(* A token of a session it writes is as it was. *)
<1>10. \A f \in DOMAIN r.writes.families, k \in TokenIds :
          tokens'[k].status # "none" /\ tokens'[k].family = f =>
             tokens'[k] = tokens[k] /\ k \in TokensOf({f})
  <2> SUFFICES ASSUME NEW f \in DOMAIN r.writes.families, NEW k \in TokenIds,
                      tokens'[k].status # "none", tokens'[k].family = f
               PROVE  tokens'[k] = tokens[k] /\ k \in TokensOf({f})
    OBVIOUS
  <2>1. k \notin DOMAIN w.tokens
    BY <1>1, <1>2, TokensCommitted DEF Apart
  <2> QED BY <1>1, <2>1, TokensCommitted DEF TokensOf
<1> HIDE DEF s
<1>11. Locked(r)'
  BY <1>2, <1>7, <1>8 DEF Own, Locked
<1>12. \A f \in DOMAIN r.writes.families :
          /\ Kept(r, f) => Kept(r, f)'
          /\ Opens(r, f) => Opens(r, f)'
  <2>1. \A f \in DOMAIN r.writes.families : Kept(r, f) => Kept(r, f)'
    BY <1>5 DEF Kept
  <2>2. r.user \in r.accounts => After(r)' = After(r)
    BY <1>4 DEF After
  <2>3. \A f \in DOMAIN r.writes.families : Opens(r, f) => Opens(r, f)'
    BY <1>5, <2>2 DEF Opens
  <2> QED BY <2>1, <2>3
<1>13. FamilyWrites(r)'
  BY <1>2, <1>12 DEF Own, FamilyWrites
<1>14. AccountWrites(r)'
  <2>1. r.user \in r.accounts /\ EndsLive(r) => EndsLive(r)'
    BY <1>9 DEF EndsLive
  <2>2. AccountWrites(r)
    BY <1>2 DEF Own
  <2> QED BY <1>4, <2>1, <2>2 DEF AccountWrites
<1>15. Ending(r)'
  <2> SUFFICES ASSUME r.pc = "revoke" PROVE Ending(r)'
    BY DEF Ending
  <2>1. Ending(r) /\ r.user \in r.accounts /\ r.found \subseteq FamilyIds
    BY <1>2 DEF Own, Locked, Requests
  <2> QED BY <1>7, <1>9, <2>1 DEF Ending
<1>16. TokenWrites(r)'
  <2>1. TokenWrites(r)
    BY <1>2 DEF Own
  <2>2. \A f \in DOMAIN r.writes.families : \A k \in TokensOf({f})' :
           tokens'[k] = tokens[k] /\ k \in TokensOf({f})
    BY <1>10 DEF TokensOf
  <2>3. \A k \in DOMAIN r.writes.tokens :
           TokensOf({r.writes.tokens[k].family})' \subseteq TokensOf({r.writes.tokens[k].family})
    BY <2>1, <2>2 DEF TokenWrites
  <2> QED BY <1>6, <2>1, <2>2 DEF TokenWrites
<1>17. Answers(r)'
  BY <1>2, <1>12 DEF Own, Answers
<1> QED BY <1>11, <1>13, <1>14, <1>15, <1>16, <1>17 DEF Own

LEMMA CommitKeeps ==
  ASSUME SessionInv, NEW t \in Txs, Commit(t)
  PROVE  SessionInv'
<1>1. EverySessionIsCurrent' /\ Related' /\ TypeOK'
  BY CommitKeepsCurrent
<1>2. /\ txs' \in [Txs -> Requests] /\ txs'[t] = Idle
      /\ \A o \in Others(t) : txs'[o] = txs[o]
  BY IdleIsOwn DEF Commit, Others, SessionInv, Typed
<1>3. \A o \in Txs : Own(txs[o])'
  <2> SUFFICES ASSUME NEW o \in Txs PROVE Own(txs[o])'
    OBVIOUS
  <2>1. CASE o = t
    <3>1. txs'[o].writes = NoWrites /\ txs'[o].pc = "idle" /\ txs'[o].answers = FALSE
      BY <1>2, <2>1 DEF Idle
    <3> QED BY <3>1, NothingWritten
            DEF Own, Locked, FamilyWrites, AccountWrites, Ending, TokenWrites, Answers,
                Asking, Closing
  <2>2. CASE o # t
    <3>1. PICK r \in Requests : r = txs[o] /\ Own(r) /\ Apart(txs[t], r) /\ txs'[o] = r
      BY <1>2, <2>2, RequestIsOwn DEF Others
    <3>2. Own(r)'
      BY <3>1, CommitKeepsOthers
    <3>3. Locked(txs[o])' /\ Ending(txs[o])'
      BY <3>1, <3>2 DEF Own, Locked, Ending
    <3>4. FamilyWrites(txs[o])' /\ AccountWrites(txs[o])'
      BY <3>1, <3>2, SMTT(40) DEF Own, FamilyWrites, AccountWrites, Kept, Opens, After, EndsLive
    <3>5. txs'[o] = r /\ TokenWrites(r)' /\ Answers(r)'
      BY <3>1, <3>2 DEF Own
    <3>6. TokenWrites(txs[o])'
      BY ONLY <3>5 DEF TokenWrites, TokensOf
    <3>7. Answers(txs[o])'
      BY ONLY <3>5 DEF Answers, Kept
    <3> QED BY <3>3, <3>4, <3>6, <3>7 DEF Own
  <2> QED BY <2>1, <2>2
<1>4. \A o \in Txs : \A r \in Others(o) : Apart(txs[o], txs[r])'
  BY <1>2, IdleIsOwn DEF SessionInv, Others, Apart
<1> QED BY <1>1, <1>2, <1>3, <1>4 DEF SessionInv, Typed, Others
-----------------------------------------------------------------------------
LEMMA TimeKeeps ==
  ASSUME SessionInv, Time
  PROVE  SessionInv'
<1>1. ASSUME NEW k \in TokenIds, GraceOver(k) PROVE SessionInv'
  <2> DEFINE row == [tokens[k] EXCEPT !.fresh = FALSE]
  <2>1. /\ row \in TokenRows /\ row.status = tokens[k].status /\ row.family = tokens[k].family
    BY RowTypes DEF TokenRows
  <2>2. /\ tokens' \in [TokenIds -> TokenRows]
        /\ \A j \in TokenIds : /\ tokens'[j].status = tokens[j].status
                               /\ tokens'[j].family = tokens[j].family
    BY <1>1, <2>1 DEF GraceOver, SessionInv, Typed, TypeOK
  <2>3. UNCHANGED <<users, families, grants, txs>>
    BY <1>1 DEF GraceOver
  <2> HIDE DEF row
  <2>4. \A F : TokensOf(F)' = TokensOf(F)
    BY <2>2 DEF TokensOf
  <2>5. Typed' /\ Related' /\ EverySessionIsCurrent'
    <3>1. \A F : TokensOf(F) \subseteq TokenIds
      BY DEF TokensOf
    <3>2. RevokedHasNoToken' /\ OneActiveToken'
      BY <2>2, <2>3, <2>4, <3>1
         DEF SessionInv, EverySessionIsCurrent, RevokedHasNoToken, OneActiveToken
    <3>3. LiveIsCurrent' /\ GrantsAreOfTheirSession'
      BY <2>3 DEF SessionInv, EverySessionIsCurrent, LiveIsCurrent, GrantsAreOfTheirSession
    <3> QED BY <2>2, <2>3, <3>2, <3>3
            DEF SessionInv, Typed, TypeOK, Related, EverySessionIsCurrent
  <2>6. ASSUME NEW o \in Txs PROVE Own(txs[o])'
    <3>1. PICK r \in Requests : r = txs[o] /\ Own(r) /\ txs'[o] = r
      BY <2>3, RequestIsOwn
    <3>t. /\ DOMAIN r.writes.tokens \subseteq TokenIds
          /\ r.pc \in {"lockFamily", "decide"} => r.token \in TokenIds
      BY <3>1, ChangeTypes DEF Requests, Writes, Own, Locked
    <3>2. Locked(r)' /\ Ending(r)'
      BY <2>2, <2>3, <3>1 DEF Own, Locked, Ending
    <3>3. FamilyWrites(r)' /\ AccountWrites(r)' /\ Answers(r)'
      BY <2>3, <3>1 DEF Own, FamilyWrites, AccountWrites, Kept, Opens, After, EndsLive, Answers
    <3>4. TokenWrites(r)'
      <4>1. \A F : \A k1 \in TokensOf(F) : k1 \in TokenIds
        BY DEF TokensOf
      <4> QED BY <2>2, <2>4, <3>1, <3>t, <4>1 DEF Own, TokenWrites
    <3>5. Locked(txs[o])' /\ Ending(txs[o])'
      BY ONLY <3>1, <3>2 DEF Locked, Ending
    <3>6. FamilyWrites(txs[o])' /\ AccountWrites(txs[o])'
      BY ONLY <3>1, <3>3, SMTT(40) DEF FamilyWrites, AccountWrites, Kept, Opens, After, EndsLive
    <3>7. TokenWrites(txs[o])'
      BY ONLY <3>1, <3>4 DEF TokenWrites, TokensOf
    <3>8. Answers(txs[o])'
      BY ONLY <3>1, <3>3 DEF Answers, Kept
    <3> QED BY <3>5, <3>6, <3>7, <3>8 DEF Own
  <2>7. \A o \in Txs : \A r \in Others(o) : Apart(txs[o], txs[r])'
    BY <2>3 DEF SessionInv, Others, Apart
  <2> QED BY <2>5, <2>6, <2>7 DEF SessionInv, Others
<1>2. ASSUME NEW f \in FamilyIds, NEW how \in {"idle", "expired"}, Lapse(f, how)
      PROVE  SessionInv'
  <2> DEFINE row == [families[f] EXCEPT !.lapse = how]
  <2>1. /\ row \in FamilyRows /\ row.state = families[f].state /\ row.user = families[f].user
        /\ row.born = families[f].born /\ row.by = families[f].by
    BY RowTypes DEF FamilyRows
  <2>2. /\ families' \in [FamilyIds -> FamilyRows]
        /\ \A g \in FamilyIds : /\ families'[g].state = families[g].state
                                /\ families'[g].user = families[g].user
                                /\ families'[g].born = families[g].born
                                /\ families'[g].by = families[g].by
    BY <1>2, <2>1 DEF Lapse, SessionInv, Typed, TypeOK
  <2>3. UNCHANGED <<users, tokens, grants, txs>>
    BY <1>2 DEF Lapse
  <2> HIDE DEF row
  <2>4. \A F : TokensOf(F)' = TokensOf(F)
    BY <2>3 DEF TokensOf
  <2>5. Typed' /\ Related' /\ EverySessionIsCurrent'
    <3>1. \A g \in grants : g.family \in FamilyIds
      BY DEF SessionInv, Typed, TypeOK, Grants
    <3>2. RevokedHasNoToken' /\ OneActiveToken'
      BY <2>2, <2>3, <2>4
         DEF SessionInv, EverySessionIsCurrent, RevokedHasNoToken, OneActiveToken
    <3>3. LiveIsCurrent' /\ GrantsAreOfTheirSession'
      BY <2>2, <2>3, <3>1
         DEF SessionInv, EverySessionIsCurrent, LiveIsCurrent, GrantsAreOfTheirSession
    <3> QED BY <2>2, <2>3, <3>1, <3>2, <3>3
            DEF SessionInv, Typed, TypeOK, Related, EverySessionIsCurrent
  <2>6. ASSUME NEW o \in Txs PROVE Own(txs[o])'
    <3>1. PICK r \in Requests : r = txs[o] /\ Own(r) /\ txs'[o] = r
      BY <2>3, RequestIsOwn
    <3>t. DOMAIN r.writes.families \subseteq FamilyIds /\ r.found \subseteq FamilyIds
      BY <3>1, ChangeTypes DEF Requests, Writes
    <3>2. Locked(r)' /\ Ending(r)'
      BY <2>2, <2>3, <3>1, <3>t DEF Own, Locked, Ending
    <3>3. /\ \A g \in DOMAIN r.writes.families : Kept(r, g) => Kept(r, g)'
          /\ \A g \in DOMAIN r.writes.families : Opens(r, g) => Opens(r, g)'
      BY <2>2, <2>3, <3>t DEF Kept, Opens, After
    <3>4. FamilyWrites(r)' /\ Answers(r)'
      BY <3>1, <3>3 DEF Own, FamilyWrites, Answers
    <3>9. AccountWrites(r)'
      BY <2>2, <2>3, <3>1 DEF Own, AccountWrites, EndsLive
    <3>10. TokenWrites(r)'
      BY <2>3, <2>4, <3>1 DEF Own, TokenWrites
    <3>5. Locked(txs[o])' /\ Ending(txs[o])'
      BY ONLY <3>1, <3>2 DEF Locked, Ending
    <3>6. FamilyWrites(txs[o])' /\ AccountWrites(txs[o])'
      BY ONLY <3>1, <3>4, <3>9 DEF FamilyWrites, AccountWrites, Kept, Opens, After, EndsLive
    <3>7. TokenWrites(txs[o])'
      BY ONLY <3>1, <3>10 DEF TokenWrites, TokensOf
    <3>8. Answers(txs[o])'
      BY ONLY <3>1, <3>4 DEF Answers, Kept
    <3> QED BY <3>5, <3>6, <3>7, <3>8 DEF Own
  <2>7. \A o \in Txs : \A r \in Others(o) : Apart(txs[o], txs[r])'
    BY <2>3 DEF SessionInv, Others, Apart
  <2> QED BY <2>5, <2>6, <2>7 DEF SessionInv, Others
<1> QED BY <1>1, <1>2 DEF Time

LEMMA InitSessions == Init => SessionInv
<1> SUFFICES ASSUME Init PROVE SessionInv
  OBVIOUS
<1>1. 0 \in Versions /\ 0 \in Editions
  BY SessionsAssumption DEF Versions, Editions
<1>2. TypeOK
  <2>1. NoFamily \in FamilyRows /\ NoToken \in TokenRows
    BY <1>1, SessionsAssumption DEF NoFamily, NoToken, FamilyRows, TokenRows
  <2>2. users \in [Users -> UserRows]
    BY <1>1 DEF Init, UserRows
  <2> QED BY <2>1, <2>2 DEF Init, TypeOK
<1>3. txs \in [Txs -> Requests] /\ \A t \in Txs : txs[t] = Idle
  BY IdleIsOwn DEF Init
<1>4. /\ \A f \in FamilyIds : families[f].state = "none"
      /\ \A k \in TokenIds : tokens[k].status = "none"
      /\ \A u \in Users : users[u].password = 0 /\ users[u].tv = 0
      /\ grants = {}
  BY DEF Init, NoFamily, NoToken
<1>5. Related /\ EverySessionIsCurrent
  BY <1>4 DEF Related, EverySessionIsCurrent, LiveIsCurrent, GrantsAreOfTheirSession,
              RevokedHasNoToken, OneActiveToken, TokensOf
<1> QED BY <1>2, <1>3, <1>5, IdleIsOwn DEF SessionInv, Typed, Others

LEMMA StepKeepsSessions == SessionInv /\ [Next]_sessions => SessionInv'
<1> SUFFICES ASSUME SessionInv, [Next]_sessions PROVE SessionInv'
  OBVIOUS
<1>1. CASE Time
  BY <1>1, TimeKeeps
<1>2. ASSUME NEW t \in Txs, Submit(t) PROVE SessionInv'
  BY <1>2, SubmitKeeps
<1>3. ASSUME NEW t \in Txs, Serve(t) PROVE SessionInv'
  BY <1>3, LockFamilyKeeps, RotateKeeps, LogoutKeeps, ReadUserKeeps, ListAdminsKeeps,
     LockAdminKeeps, LockUserKeeps, CheckKeeps, RevokeFamilyKeeps, RevokeTokensKeeps,
     AuditKeeps, CommitKeeps DEF Serve
<1>4. ASSUME NEW t \in Txs, Rollback(t) PROVE SessionInv'
  BY <1>4, RefusedKeeps DEF Rollback
<1>5. CASE UNCHANGED sessions
  <2>1. ASSUME NEW t \in Txs PROVE SessionInv'
    <3>1. txs[t] \in Requests /\ Own(txs[t]) /\ \A o \in Others(t) : Apart(txs[t], txs[o])
      BY RequestIsOwn
    <3>2. Step(t, txs[t])
      BY <1>5 DEF Step, sessions, SessionInv, Typed
    <3> QED BY <3>1, <3>2, StepKeeps
  <2>2. CASE Txs = {}
    BY <1>5, <2>2 DEF sessions, SessionInv, Typed, TypeOK, Related, EverySessionIsCurrent,
            LiveIsCurrent, GrantsAreOfTheirSession, RevokedHasNoToken, OneActiveToken, TokensOf
  <2> QED BY <2>1, <2>2
<1> QED BY <1>1, <1>2, <1>3, <1>4, <1>5 DEF Next

(* Whatever requests were at work together, and wherever each was rolled    *)
(* back: ending every session of an account is final, a revoked session has *)
(* no token a refresh would take, and a session one active token at most.   *)
THEOREM SessionsAreCurrent == Spec => []EverySessionIsCurrent
<1>1. SessionInv => EverySessionIsCurrent
  BY DEF SessionInv
<1> QED BY <1>1, InitSessions, StepKeepsSessions, PTL DEF Spec
-----------------------------------------------------------------------------
(* An administrator remains. *)
LEMMA PowerStep ==
  ASSUME PowerInv, SessionInv', NEW t \in Txs, NEW next, Step(t, next), Keeps(next),
         \A o \in Others(t) : Meet(next, txs[o])
  PROVE  PowerInv'
<1>1. users' = users /\ txs'[t] = next /\ \A o \in Others(t) : txs'[o] = txs[o]
  BY DEF Step, PowerInv, SessionInv, Typed, Others
<1>2. AdminRemains'
  BY <1>1 DEF PowerInv, AdminRemains
<1>3. \A o \in Txs : Keeps(txs'[o])
  BY <1>1 DEF PowerInv, Others
<1>4. \A o \in Txs : \A r \in Others(o) : Meet(txs'[o], txs'[r])
  BY <1>1 DEF PowerInv, Others, Meet
<1>5. ASSUME NEW o \in Txs PROVE Keeps(txs[o])'
  <2>1. Keeps(txs'[o])
    BY <1>3
  <2> QED BY ONLY <1>1, <2>1 DEF Keeps, Decided, Takes, Power
<1>6. ASSUME NEW o \in Txs, NEW r \in Others(o) PROVE Meet(txs[o], txs[r])'
  <2>1. Meet(txs'[o], txs'[r])
    BY <1>4
  <2> QED BY ONLY <1>1, <2>1 DEF Meet, Strong, Takes, Power, Reach
<1> QED BY <1>2, <1>5, <1>6 DEF PowerInv, Others

(* A request that goes on with what it was asked, having written nothing to *)
(* the account, is as far from harm as it was.                             *)
LEMMA GoesOn ==
  ASSUME PowerInv, SessionInv', NEW t \in Txs, NEW next, Step(t, next),
         txs[t].pc # "idle", next.op = txs[t].op, next.user = txs[t].user,
         next.version = txs[t].version, next.writes.user = txs[t].writes.user,
         Decided(next) => Decided(txs[t]), next.pc \in Listed => txs[t].pc \in Listed,
         Reach(txs[t]) \subseteq Reach(next)
  PROVE  PowerInv'
<1>1. Keeps(txs[t]) /\ \A o \in Others(t) : Meet(txs[t], txs[o])
  BY DEF PowerInv
<1> PICK s : s = txs[t]
  OBVIOUS
<1>2. Keeps(next)
  BY <1>1 DEF Keeps, Takes
<1>3. Strong(next) => Strong(txs[t])
  BY DEF Strong, Takes
<1>4. \A o \in Others(t) : Meet(next, txs[o])
  BY <1>1, <1>3 DEF Meet
<1> QED BY <1>2, <1>4, PowerStep

(* One that takes no power. *)
LEMMA TakesNone ==
  ASSUME PowerInv, SessionInv', NEW t \in Txs, NEW next, Step(t, next), Keeps(next),
         ~Takes(next) \/ next.pc \notin Listed
  PROVE  PowerInv'
  BY PowerStep DEF Meet, Strong

LEMMA RefusedKeepsPower ==
  ASSUME PowerInv, SessionInv', NEW t \in Txs, Refused(t)
  PROVE  PowerInv'
<1>1. Keeps(Idle) /\ Idle.pc \notin Listed
  BY NothingWritten DEF Keeps, Idle, Decided, Takes, Closing, Listed
<1> QED BY <1>1, TakesNone DEF Refused

(* A request as it was asked: an update names the version of the account. *)
Asked(r) ==
    /\ DOMAIN r.writes.user = {} /\ r.pc \in {"lockFamily", "listAdmins", "lockUser"}
    /\ r.op \in Powers => /\ r.pc = "listAdmins" /\ r.user \in Users
                          /\ r.version = users[r.user].version

LEMMA AskedKeepsPower ==
  ASSUME PowerInv, SessionInv', NEW t \in Txs, NEW r, Step(t, r), Asked(r)
  PROVE  PowerInv'
<1>1. \A u \in Users : users[u].version <= users[u].version
  <2>1. \A u \in Users : users[u].version \in Nat
    BY RowTypes, SessionsAssumption DEF PowerInv, UserRows, Editions
  <2> QED BY <2>1
<1>2. Keeps(r)
  BY <1>1 DEF Asked, Keeps, Decided, Closing
<1>3. ~Takes(r) \/ r.pc \notin Listed
  BY DEF Asked, Takes, Powers, Listed
<1> QED BY <1>2, <1>3, TakesNone

LEMMA SubmitKeepsPower ==
  ASSUME PowerInv, SessionInv', NEW t \in Txs, Submit(t)
  PROVE  PowerInv'
<1>1. \A op \in AllOps :
         \E r \in Requests : /\ r = Request(op) /\ r.op = op
                             /\ DOMAIN r.writes.user = {}
  <2>1. PICK idle \in Requests : idle = Idle
    BY IdleIsOwn
  <2>2. DOMAIN idle.writes.user = {}
    BY <2>1, NothingWritten DEF Idle
  <2> SUFFICES ASSUME NEW op \in AllOps
               PROVE  /\ Request(op) \in Requests /\ Request(op).op = op
                      /\ DOMAIN Request(op).writes.user = {}
    OBVIOUS
  <2>3. Request(op) = [idle EXCEPT !.op = op]
    BY <2>1 DEF Request
  <2> QED BY <2>2, <2>3 DEF Requests
<1>2. ASSUME NEW u \in Users, AskLogin(t, u) PROVE PowerInv'
  <2>1. PICK base \in Requests :
           base = Request("login") /\ base.op = "login" /\ DOMAIN base.writes.user = {}
    BY <1>1 DEF AllOps
  <2> DEFINE r == [base EXCEPT !.pc = "lockUser", !.user = u, !.actor = u,
                               !.password = users[u].password]
  <2>2. Step(t, r)
    BY <1>2, <2>1 DEF AskLogin, Ask
  <2>3. Asked(r)
    BY <2>1 DEF Asked, Requests, Powers
  <2> HIDE DEF r
  <2> QED BY <2>2, <2>3, AskedKeepsPower
<1>3. ASSUME NEW k \in TokenIds, NEW op \in {"rotate", "logout"}, AskWithToken(t, op, k)
      PROVE  PowerInv'
  <2>1. PICK base \in Requests :
           base = Request(op) /\ base.op = op /\ DOMAIN base.writes.user = {}
    BY <1>1 DEF AllOps
  <2> DEFINE r == [base EXCEPT !.pc = "lockFamily", !.token = k, !.family = tokens[k].family]
  <2>2. Step(t, r)
    BY <1>3, <2>1 DEF AskWithToken, Ask
  <2>3. Asked(r)
    BY <2>1 DEF Asked, Requests, Powers
  <2> HIDE DEF r
  <2> QED BY <2>2, <2>3, AskedKeepsPower
<1>4. ASSUME NEW actor \in Users, NEW u \in Users,
             NEW op \in Powers \cup {"change", "logoutAll", "reset"}, AskForUser(t, op, actor, u)
      PROVE  PowerInv'
  <2>1. PICK base \in Requests :
           base = Request(op) /\ base.op = op /\ DOMAIN base.writes.user = {}
    BY <1>1 DEF AllOps, Powers
  <2> DEFINE pc == IF op \in Powers THEN "listAdmins" ELSE "lockUser"
             r == [base EXCEPT !.user = u, !.actor = actor, !.pc = pc,
                               !.password = users[u].password, !.version = users[u].version]
  <2>2. Step(t, r)
    BY <1>4, <2>1 DEF AskForUser, Ask
  <2>p. pc \in {"listAdmins", "lockUser"} /\ (op \in Powers => pc = "listAdmins")
    OBVIOUS
  <2> HIDE DEF pc
  <2>3. Asked(r)
    BY <2>1, <2>p DEF Asked, Requests
  <2> HIDE DEF r
  <2> QED BY <2>2, <2>3, AskedKeepsPower
<1>5. ASSUME NEW u \in Users, NEW op \in {"recover", "recoverPromote"}, AskToRecover(t, op, u)
      PROVE  PowerInv'
  <2>1. PICK base \in Requests :
           base = Request(op) /\ base.op = op /\ DOMAIN base.writes.user = {}
    BY <1>1 DEF AllOps
  <2> DEFINE pc == IF op = "recoverPromote" THEN "listAdmins" ELSE "lockUser"
             r == [base EXCEPT !.user = u, !.pc = pc]
  <2>2. Step(t, r)
    BY <1>5, <2>1 DEF AskToRecover, Ask
  <2>p. pc \in {"listAdmins", "lockUser"}
    OBVIOUS
  <2> HIDE DEF pc
  <2>3. Asked(r)
    BY <2>1, <2>p DEF Asked, Requests, Powers
  <2> HIDE DEF r
  <2> QED BY <2>2, <2>3, AskedKeepsPower
<1> QED BY <1>2, <1>3, <1>4, <1>5 DEF Submit

(* Locking, and the operations with a token. *)
LEMMA LockingKeepsPower ==
  ASSUME PowerInv, SessionInv', NEW t \in Txs,
         LockFamily(t) \/ ListAdmins(t) \/ LockAdmin(t) \/ LockUser(t)
  PROVE  PowerInv'
<1> DEFINE s == txs[t]
<1>1. (s \in Requests /\ s.writes = NoWrites) \/ s.pc \notin Asking
  BY RequestIsOwn, WaitingWroteNothing DEF PowerInv
<1>2. s \in Requests
  BY RequestIsOwn DEF PowerInv
<1>3. CASE LockFamily(t)
  <2> DEFINE next == [s EXCEPT !.pc = "decide", !.holds = {s.family}]
  <2>1. Step(t, next) /\ s.pc = "lockFamily"
    BY <1>3 DEF LockFamily
  <2>2. /\ next.op = s.op /\ next.user = s.user /\ next.version = s.version
        /\ next.writes = s.writes /\ next.pc = "decide" /\ next.accounts = s.accounts
    BY <1>2 DEF Requests
  <2> HIDE DEF next
  <2> QED BY <2>1, <2>2, GoesOn DEF Decided, Closing, Listed, Reach
<1>4. CASE ListAdmins(t)
  <2> DEFINE admins == {u \in Users : users[u].active /\ users[u].admin}
             next == [s EXCEPT !.pc = "lockAdmins", !.todo = admins]
  <2>1. Step(t, next) /\ s.pc = "listAdmins"
    BY <1>4 DEF ListAdmins
  <2>a. \A u \in Users : Power(u) => u \in admins
    BY DEF Power
  <2> HIDE DEF admins
  <2>2. /\ next.op = s.op /\ next.user = s.user /\ next.version = s.version
        /\ next.writes = s.writes /\ next.pc = "lockAdmins" /\ next.todo = admins
    BY <1>2 DEF Requests
  <2> HIDE DEF next
  <2>3. Keeps(next)
    BY <2>1, <2>2 DEF PowerInv, Keeps, Decided, Takes, Closing
  <2>4. \A o \in Others(t) : Meet(next, txs[o])
    <3> SUFFICES ASSUME NEW o \in Others(t), Strong(txs[o]) PROVE txs[o].user \in admins
      BY <2>2 DEF Meet, Reach
    <3>1. txs[o].user \in Users
      BY DEF PowerInv, Keeps, Strong, Takes, Listed, Powers, Others
    <3> QED BY <2>a, <3>1 DEF Strong
  <2> QED BY <2>1, <2>3, <2>4, PowerStep
<1>5. ASSUME LockAdmin(t), s.todo = {}, Step(t, [s EXCEPT !.pc = "lockUser"]) PROVE PowerInv'
  <2> DEFINE next == [s EXCEPT !.pc = "lockUser"]
  <2>1. Step(t, next) /\ s.pc = "lockAdmins"
    BY <1>5 DEF LockAdmin
  <2>2. /\ next.op = s.op /\ next.user = s.user /\ next.version = s.version
        /\ next.writes = s.writes /\ next.pc = "lockUser" /\ next.accounts = s.accounts
    BY <1>2 DEF Requests
  <2> HIDE DEF next
  <2> QED BY <1>5, <2>1, <2>2, GoesOn DEF Decided, Closing, Listed, Reach
<1>6. ASSUME LockAdmin(t), NEW u, Step(t, [s EXCEPT !.todo = @ \ {u}, !.accounts = @ \cup {u}])
      PROVE  PowerInv'
  <2> DEFINE next == [s EXCEPT !.todo = @ \ {u}, !.accounts = @ \cup {u}]
  <2>1. Step(t, next) /\ s.pc = "lockAdmins"
    BY <1>6 DEF LockAdmin
  <2>2. /\ next.op = s.op /\ next.user = s.user /\ next.version = s.version
        /\ next.writes = s.writes /\ next.pc = "lockAdmins"
        /\ next.accounts = s.accounts \cup {u} /\ next.todo = s.todo \ {u}
    BY <1>2, <2>1 DEF Requests
  <2> HIDE DEF next
  <2> QED BY <2>1, <2>2, GoesOn DEF Decided, Closing, Listed, Reach
<1>7. CASE LockUser(t)
  <2> DEFINE next == [s EXCEPT !.pc = "check", !.accounts = @ \cup {s.user}]
  <2>1. Step(t, next) /\ s.pc = "lockUser"
    BY <1>7 DEF LockUser
  <2>2. /\ next.op = s.op /\ next.user = s.user /\ next.version = s.version
        /\ next.writes = s.writes /\ next.pc = "check"
        /\ next.accounts = s.accounts \cup {s.user}
    BY <1>2 DEF Requests
  <2> HIDE DEF next
  <2> QED BY <2>1, <2>2, GoesOn DEF Decided, Closing, Listed, Reach
<1> QED BY <1>3, <1>4, <1>5, <1>6, <1>7 DEF LockAdmin

LEMMA TokenOpsKeepPower ==
  ASSUME PowerInv, SessionInv', NEW t \in Txs, Rotate(t) \/ Logout(t) \/ ReadUser(t)
  PROVE  PowerInv'
<1> DEFINE s == txs[t]
<1>1. s \in Requests /\ s.op \in FamilyOps
  BY RequestIsOwn DEF PowerInv, Rotate, Logout, ReadUser, Own, Locked, FamilyOps
<1>2. ASSUME NEW next, Step(t, next), next.op = s.op, next.writes.user = s.writes.user
      PROVE  PowerInv'
  <2>1. Keeps(s)
    BY DEF PowerInv
  <2>2. Keeps(next) /\ ~Takes(next)
    BY <1>1, <1>2, <2>1 DEF Keeps, Decided, Takes, FamilyOps, Powers
  <2> QED BY <1>2, <2>2, TakesNone
<1>3. ASSUME NEW pc, EndFamily(t, pc) PROVE PowerInv'
  <2> DEFINE f == s.family
             write == [s.writes EXCEPT !.families = [g \in {f} |-> Revoked(f)],
                                       !.tokens = Void({f})]
             next == [s EXCEPT !.pc = pc, !.user = families[f].user,
                               !.actor = families[f].user, !.writes = write]
  <2>1. Step(t, next)
    BY <1>3 DEF EndFamily
  <2>2. write.user = s.writes.user
    BY <1>1 DEF Requests, Writes
  <2> HIDE DEF write
  <2>3. next.op = s.op /\ next.writes = write
    BY <1>1 DEF Requests
  <2> HIDE DEF next
  <2> QED BY <1>2, <2>1, <2>2, <2>3
<1>4. ASSUME NEW n, Renew(t, n) PROVE PowerInv'
  <2>1. PICK kept, renewed :
           Step(t, [s EXCEPT !.pc = "read", !.user = families[s.family].user,
                             !.writes = [@ EXCEPT !.families = kept, !.tokens = renewed]])
    BY <1>4 DEF Renew
  <2> DEFINE write == [s.writes EXCEPT !.families = kept, !.tokens = renewed]
             next == [s EXCEPT !.pc = "read", !.user = families[s.family].user, !.writes = write]
  <2>2. Step(t, next)
    BY <2>1
  <2>3. write.user = s.writes.user
    BY <1>1 DEF Requests, Writes
  <2> HIDE DEF write
  <2>4. next.op = s.op /\ next.writes = write
    BY <1>1 DEF Requests
  <2> HIDE DEF next
  <2> QED BY <1>2, <2>2, <2>3, <2>4
<1>5. ASSUME ReadUser(t) PROVE PowerInv'
  <2> DEFINE next == [s EXCEPT !.pc = "commit", !.answers = TRUE, !.tv = users[s.user].tv]
  <2>1. Step(t, next)
    BY <1>5 DEF ReadUser
  <2>2. next.op = s.op /\ next.writes = s.writes
    BY <1>1 DEF Requests
  <2> HIDE DEF next
  <2> QED BY <1>2, <2>1, <2>2
<1> QED BY <1>3, <1>4, <1>5, RefusedKeepsPower DEF Rotate, Logout

(* The check looks at the account under its lock: a change that takes power *)
(* goes on only with the version it names, and another administrator.       *)
LEMMA CheckKeepsPower ==
  ASSUME PowerInv, SessionInv', NEW t \in Txs, Check(t)
  PROVE  PowerInv'
<1> DEFINE s == txs[t]
           u == s.user
           row == users[u]
<1>1. /\ s \in Requests /\ s.writes = NoWrites /\ s.pc = "check" /\ u \in Users
      /\ row \in UserRows /\ Keeps(s)
  BY CheckedHasAccount DEF PowerInv, Check
<1>2. \A a \in Users : users[a] \in UserRows
  BY RowTypes DEF PowerInv
<1>3. Allowed(t) /\ Takes(s) => /\ s.version = row.version
                                /\ Power(u) => \E a \in Users \ {u} : Power(a)
  BY DEF Allowed, Takes, Powers, MayUpdate, AdminStays, Power
(* The request as it goes on, with what it writes to the account. *)
<1>4. ASSUME Allowed(t), NEW next, Step(t, next), next.op = s.op, next.user = u,
             next.version = s.version, next.accounts = s.accounts, next.pc # "lockAdmins",
             \/ DOMAIN next.writes.user = {}
             \/ /\ DOMAIN next.writes.user = {u}
                /\ next.writes.user[u].version = row.version + 1
                /\ ~Takes(s) /\ Power(u) =>
                      next.writes.user[u].active /\ next.writes.user[u].admin
      PROVE  PowerInv'
  <2>1. row.version \in Nat
    BY <1>1, SessionsAssumption DEF UserRows, Editions
  <2>2. Keeps(next)
    <3>1. next.op \in Powers => s.version <= row.version
      BY <1>1, <1>4 DEF Keeps
    <3>2. Decided(next) => /\ s.version = row.version
                           /\ Power(u) => \E a \in Users \ {u} : Power(a)
      BY <1>3, <1>4 DEF Decided, Takes
    <3>3. next.op \in Powers => next.user \in Users /\ next.version <= users[next.user].version
      BY <1>1, <1>4, <3>1
    <3>4. \A v \in DOMAIN next.writes.user :
             LET new == next.writes.user[v]
             IN  /\ new.version >= users[v].version
                 /\ new.version = users[v].version =>
                       new.active = users[v].active /\ new.admin = users[v].admin
                 /\ ~Takes(next) /\ Power(v) => new.active /\ new.admin
      <4>1. CASE DOMAIN next.writes.user = {}
        BY <4>1
      <4>2. CASE DOMAIN next.writes.user # {}
        <5>1. /\ DOMAIN next.writes.user = {u}
              /\ next.writes.user[u].version = row.version + 1
              /\ ~Takes(s) /\ Power(u) =>
                    next.writes.user[u].active /\ next.writes.user[u].admin
          BY <1>4, <4>2
        <5>2. Takes(next) <=> Takes(s)
          BY <1>4 DEF Takes
        <5>3. next.writes.user[u].version >= row.version
              /\ next.writes.user[u].version # row.version
          BY <2>1, <5>1
        <5> QED BY <5>1, <5>2, <5>3
      <4> QED BY <4>1, <4>2
    <3> QED BY <1>4, <3>2, <3>3, <3>4 DEF Keeps
  <2>3. \A o \in Others(t) : Meet(next, txs[o])
    <3>1. \A o \in Others(t) : Meet(s, txs[o])
      BY DEF PowerInv
    <3>2. Strong(next) => Strong(s)
      BY <1>1, <1>4 DEF Strong, Takes, Listed
    <3>3. Reach(next) = Reach(s)
      BY <1>1, <1>4 DEF Reach
    <3> QED BY <1>4, <3>1, <3>2, <3>3 DEF Meet
  <2> QED BY <1>4, <2>2, <2>3, PowerStep
<1>5. ASSUME Allowed(t), NEW f, NEW n, Login(t, f, n) PROVE PowerInv'
  <2>1. PICK opened, issued :
           Step(t, [s EXCEPT !.pc = "audit", !.tv = row.tv, !.family = f, !.answers = TRUE,
                             !.writes = [@ EXCEPT !.families = opened, !.tokens = issued]])
    BY <1>5 DEF Login
  <2> DEFINE write == [s.writes EXCEPT !.families = opened, !.tokens = issued]
             next == [s EXCEPT !.pc = "audit", !.tv = row.tv, !.family = f, !.answers = TRUE,
                               !.writes = write]
  <2>2. Step(t, next)
    BY <2>1
  <2>3. DOMAIN write.user = {}
    BY <1>1, NothingWritten DEF Writes
  <2> HIDE DEF write
  <2>4. /\ next.op = s.op /\ next.user = u /\ next.version = s.version
        /\ next.accounts = s.accounts /\ next.pc = "audit" /\ next.writes = write
    BY <1>1 DEF Requests
  <2> HIDE DEF next
  <2> QED BY <1>4, <1>5, <2>2, <2>3, <2>4
<1>6. ASSUME Allowed(t), ListFamilies(t) PROVE PowerInv'
  <2>1. PICK live : Step(t, [s EXCEPT !.pc = "revoke", !.todo = live, !.found = live])
    BY <1>6 DEF ListFamilies
  <2> DEFINE next == [s EXCEPT !.pc = "revoke", !.todo = live, !.found = live]
  <2>2. Step(t, next)
    BY <2>1
  <2>3. /\ next.op = s.op /\ next.user = u /\ next.version = s.version
        /\ next.accounts = s.accounts /\ next.pc = "revoke" /\ next.writes = NoWrites
    BY <1>1 DEF Requests
  <2> HIDE DEF next
  <2> QED BY <1>4, <1>6, <2>2, <2>3, NothingWritten
<1>7. ASSUME Allowed(t), NEW changed \in UserRows, changed.version = row.version,
             ~Takes(s) /\ Power(u) => changed.active /\ changed.admin, WriteAccount(t, changed)
      PROVE  PowerInv'
  <2> DEFINE new == [changed EXCEPT !.version = @ + 1]
             account == [v \in {u} |-> new]
             write == [s.writes EXCEPT !.user = account]
             next == [s EXCEPT !.pc = "audit", !.writes = write]
  <2>1. Step(t, next)
    BY <1>7 DEF WriteAccount
  <2>2. /\ new.version = row.version + 1
        /\ new.active = changed.active /\ new.admin = changed.admin
    BY <1>1, <1>7, SessionsAssumption DEF UserRows, Editions
  <2> HIDE DEF new
  <2>3. DOMAIN account = {u} /\ account[u] = new
    OBVIOUS
  <2> HIDE DEF account
  <2>4. write.user = account
    BY <1>1, NothingWritten DEF Writes
  <2> HIDE DEF write
  <2>5. /\ next.op = s.op /\ next.user = u /\ next.version = s.version
        /\ next.accounts = s.accounts /\ next.pc = "audit" /\ next.writes = write
    BY <1>1 DEF Requests
  <2> HIDE DEF next
  <2> QED BY <1>4, <1>7, <2>1, <2>2, <2>3, <2>4, <2>5
<1>8. /\ [row EXCEPT !.active = TRUE] \in UserRows
      /\ [row EXCEPT !.active = TRUE].version = row.version
      /\ Power(u) => /\ [row EXCEPT !.active = TRUE].active
                     /\ [row EXCEPT !.active = TRUE].admin
  BY <1>1 DEF UserRows, Power
<1>9. \A b \in BOOLEAN :
         /\ [row EXCEPT !.admin = b] \in UserRows
         /\ [row EXCEPT !.admin = b].version = row.version
         /\ [row EXCEPT !.admin = b].active = row.active /\ [row EXCEPT !.admin = b].admin = b
  BY <1>1 DEF UserRows
<1>10. s.op = "demote" => Takes(s)
  BY DEF Takes
<1> QED BY <1>5, <1>6, <1>7, <1>8, <1>9, <1>10, RefusedKeepsPower DEF Check, Power

(* Ending the sessions of an account, and what is done to it then. *)
LEMMA AccountVersions ==
  ASSUME NEW row \in UserRows, NEW op \in EndsAll
  PROVE  /\ Account(op, row).version >= row.version
         /\ Account(op, row).version = row.version =>
               Account(op, row).active = row.active /\ Account(op, row).admin = row.admin
         /\ op # "deactivate" /\ row.active /\ row.admin =>
               Account(op, row).active /\ Account(op, row).admin
<1>1. row.version \in Nat /\ row.active \in BOOLEAN /\ row.admin \in BOOLEAN
  BY SessionsAssumption DEF UserRows, Editions
<1>2. CASE op \in {"recover", "recoverPromote"}
  <2> DEFINE b == row.admin \/ op = "recoverPromote"
  <2>1. b \in BOOLEAN /\ (row.admin => b)
    BY <1>1
  <2>2. Account(op, row) = [row EXCEPT !.active = TRUE, !.tv = row.tv + 1,
                  !.version = row.version + 1, !.password = row.password + 1, !.admin = b]
    BY <1>2 DEF Account, Recovered
  <2> HIDE DEF b
  <2>3. /\ Account(op, row).version = row.version + 1 /\ Account(op, row).active = TRUE
        /\ Account(op, row).admin = b
    BY <2>2 DEF UserRows
  <2> QED BY <1>1, <2>1, <2>3
<1>3. CASE op \notin {"recover", "recoverPromote"}
  <2> DEFINE b == row.active /\ op # "deactivate"
             v == IF op \in {"reset", "deactivate"} THEN row.version + 1 ELSE row.version
             p == IF op \in {"reset", "change"} THEN row.password + 1 ELSE row.password
  <2>1. /\ b \in BOOLEAN /\ v >= row.version /\ (v = row.version => b = row.active)
        /\ op # "deactivate" /\ row.active => b
    BY <1>1
  <2>2. Account(op, row) = [row EXCEPT !.active = b, !.tv = row.tv + 1, !.version = v,
                                       !.password = p]
    BY <1>3 DEF Account
  <2> HIDE DEF b, v, p
  <2> QED BY <1>1, <2>1, <2>2 DEF UserRows
<1> QED BY <1>2, <1>3

LEMMA EndingKeepsPower ==
  ASSUME PowerInv, SessionInv', NEW t \in Txs,
         (\E f \in FamilyIds : RevokeFamily(t, f)) \/ RevokeTokens(t) \/ Audit(t)
  PROVE  PowerInv'
<1> DEFINE s == txs[t]
           u == s.user
<1>1. s \in Requests /\ Own(s) /\ Keeps(s)
  BY RequestIsOwn DEF PowerInv
<1>2. ASSUME NEW f \in FamilyIds, RevokeFamily(t, f) PROVE PowerInv'
  <2>1. PICK left, held, wrote :
           Step(t, [s EXCEPT !.todo = left, !.holds = held,
                             !.writes = [@ EXCEPT !.families = wrote]]) /\ s.pc = "revoke"
    BY <1>2 DEF RevokeFamily
  <2> DEFINE write == [s.writes EXCEPT !.families = wrote]
             next == [s EXCEPT !.todo = left, !.holds = held, !.writes = write]
  <2>2. Step(t, next) /\ s.pc = "revoke"
    BY <2>1
  <2>3. write.user = s.writes.user
    BY <1>1 DEF Requests, Writes
  <2> HIDE DEF write
  <2>4. /\ next.op = s.op /\ next.user = s.user /\ next.version = s.version
        /\ next.pc = s.pc /\ next.accounts = s.accounts /\ next.writes = write
    BY <1>1 DEF Requests
  <2> HIDE DEF next
  <2> QED BY <2>2, <2>3, <2>4, GoesOn DEF Decided, Takes, Reach
<1>3. CASE Audit(t)
  <2> DEFINE next == [s EXCEPT !.pc = "commit", !.shares = {s.actor}]
  <2>1. Step(t, next) /\ s.pc = "audit"
    BY <1>3 DEF Audit
  <2>2. /\ next.op = s.op /\ next.user = s.user /\ next.version = s.version
        /\ next.pc = "commit" /\ next.accounts = s.accounts /\ next.writes = s.writes
    BY <1>1 DEF Requests
  <2> HIDE DEF next
  <2> QED BY <2>1, <2>2, GoesOn DEF Decided, Takes, Closing, Listed, Reach
<1>4. CASE RevokeTokens(t)
  <2> DEFINE after == Account(s.op, users[u])
             account == [v \in {u} |-> after]
  <2>1. s.op \in EndsAll /\ u \in Users /\ users[u] \in UserRows /\ s.pc = "revoke"
    BY <1>4, AllEnded, RowTypes DEF PowerInv, RevokeTokens
  <2>2. /\ after.version >= users[u].version
        /\ after.version = users[u].version =>
              after.active = users[u].active /\ after.admin = users[u].admin
        /\ ~Takes(s) /\ Power(u) => after.active /\ after.admin
    BY <2>1, AccountVersions DEF Takes, Power
  <2>3. ASSUME NEW next, Step(t, next), next.op = s.op, next.user = u,
               next.version = s.version, next.accounts = s.accounts, next.pc = "audit",
               next.writes.user = account
        PROVE  PowerInv'
    <3>1. DOMAIN account = {u} /\ account[u] = after
      OBVIOUS
    <3> HIDE DEF after, account, u
    <3>2. Keeps(next)
      BY <1>1, <2>1, <2>2, <2>3, <3>1 DEF Keeps, Decided, Takes, Closing, u
    <3>3. \A o \in Others(t) : Meet(next, txs[o])
      <4>1. \A o \in Others(t) : Meet(s, txs[o])
        BY DEF PowerInv
      <4>2. Strong(next) => Strong(s)
        BY <2>1, <2>3 DEF Strong, Takes, Listed, u
      <4>3. Reach(next) = Reach(s)
        BY <2>1, <2>3 DEF Reach
      <4> QED BY <2>3, <4>1, <4>2, <4>3 DEF Meet, u
    <3> QED BY <2>3, <3>2, <3>3, PowerStep
  <2>4. ASSUME NEW write, write.user = account, Step(t, [s EXCEPT !.pc = "audit", !.writes = write])
        PROVE  PowerInv'
    <3> DEFINE next == [s EXCEPT !.pc = "audit", !.writes = write]
    <3> HIDE DEF account
    <3>1. /\ next.op = s.op /\ next.user = s.user /\ next.version = s.version
          /\ next.pc = "audit" /\ next.accounts = s.accounts /\ next.writes = write
      BY <1>1 DEF Requests
    <3>2. Step(t, next)
      BY <2>4
    <3> HIDE DEF next
    <3> QED BY <2>3, <2>4, <3>1, <3>2
  <2>5. ASSUME NEW write, NEW f, write.user = account,
               Step(t, [s EXCEPT !.pc = "audit", !.tv = after.tv, !.family = f, !.answers = TRUE,
                                 !.writes = write])
        PROVE  PowerInv'
    <3> DEFINE next == [s EXCEPT !.pc = "audit", !.tv = after.tv, !.family = f,
                                 !.answers = TRUE, !.writes = write]
    <3>2. Step(t, next)
      BY <2>5
    <3> HIDE DEF account, after
    <3>1. /\ next.op = s.op /\ next.user = s.user /\ next.version = s.version
          /\ next.pc = "audit" /\ next.accounts = s.accounts /\ next.writes = write
      BY <1>1, SMTT(30) DEF Requests
    <3> HIDE DEF next
    <3> QED BY <2>3, <2>5, <3>1, <3>2
  <2> DEFINE done == s.writes.families
             void == Void(s.found)
             write == [user |-> account, families |-> done, tokens |-> void]
             opened(f) == [g \in DOMAIN done \cup {f} |->
                              IF g = f THEN Opened(u, after.tv, "change") ELSE done[g]]
             issued(f, n) == [k \in DOMAIN void \cup {n} |-> IF k = n THEN Issued(f) ELSE void[k]]
             all(f, n) == [write EXCEPT !.families = opened(f), !.tokens = issued(f, n)]
  <2>6. \/ Step(t, [s EXCEPT !.pc = "audit", !.writes = write])
        \/ \E f \in FamilyIds, n \in TokenIds :
              Step(t, [s EXCEPT !.pc = "audit", !.tv = after.tv, !.family = f, !.answers = TRUE,
                                !.writes = all(f, n)])
    BY <1>4 DEF RevokeTokens
  <2> HIDE DEF account, after, done, void, opened, issued, s
  <2>7. write.user = account /\ \A f, n : all(f, n).user = account
    OBVIOUS
  <2> HIDE DEF write, all
  <2>8. CASE Step(t, [s EXCEPT !.pc = "audit", !.writes = write])
    BY <2>4, <2>7, <2>8
  <2>9. ASSUME NEW f, NEW n,
               Step(t, [s EXCEPT !.pc = "audit", !.tv = after.tv, !.family = f, !.answers = TRUE,
                                 !.writes = all(f, n)])
        PROVE  PowerInv'
    <3>1. PICK x : x = all(f, n)
      OBVIOUS
    <3> QED BY <2>5, <2>7, <2>9, <3>1
  <2> QED BY <2>6, <2>8, <2>9
<1> QED BY <1>2, <1>3, <1>4

(* Of two requests that would take power from an administrator, and have    *)
(* looked, one has locked the other's account.                             *)
LEMMA OneTakesPower ==
  ASSUME PowerInv, NEW t \in Txs, NEW o \in Others(t), Strong(txs[t]), Strong(txs[o]),
         Decided(txs[t]), Decided(txs[o])
  PROVE  FALSE
<1>1. txs[t].user \in txs[t].accounts /\ txs[o].user \in txs[o].accounts
  BY RequestIsOwn DEF PowerInv, Decided, Own, Locked, Takes, FamilyOps, Closing, Others
<1>2. Reach(txs[t]) = txs[t].accounts /\ Reach(txs[o]) = txs[o].accounts
  BY DEF Decided, Closing, Reach
<1> QED BY <1>1, <1>2, RequestIsOwn DEF PowerInv, Meet, Apart

LEMMA CommitKeepsPower ==
  ASSUME PowerInv, SessionInv', NEW t \in Txs, Commit(t)
  PROVE  PowerInv'
<1> DEFINE s == txs[t]
           w == s.writes
<1>1. /\ SessionInv /\ Commits(t) /\ s \in Requests /\ Own(s) /\ s.pc = "commit" /\ Keeps(s)
  BY CommitWrites DEF PowerInv, Commits
<1>2. \A u \in Users : u \notin DOMAIN w.user => users'[u] = users[u]
  BY <1>1 DEF Commits
<1>3. \A u \in DOMAIN w.user :
         /\ u \in Users /\ u = s.user /\ u \in s.accounts
         /\ users'[u].version >= users[u].version
         /\ users'[u].version = users[u].version =>
               users'[u].active = users[u].active /\ users'[u].admin = users[u].admin
         /\ ~Takes(s) /\ Power(u) => users'[u].active /\ users'[u].admin
  BY <1>1 DEF Commits, Keeps
<1>4. \A u \in Users : users[u].version \in Nat /\ users'[u].version \in Nat
  BY <1>1, CommitWrites, RowTypes, SessionsAssumption DEF UserRows, Editions
<1>5. \A u \in Users :
         /\ users'[u].version >= users[u].version
         /\ users'[u].version = users[u].version =>
               (users'[u].active <=> users[u].active) /\ (users'[u].admin <=> users[u].admin)
  BY <1>2, <1>3, <1>4
(* An administrator keeps that power, unless this request takes it from it. *)
<1>6. \A a \in Users : Power(a) => Power(a)' \/ (a = s.user /\ Takes(s))
  BY <1>2, <1>3 DEF Power
<1>7. Takes(s) => Decided(s) /\ (Power(s.user) => Strong(s))
  BY <1>1 DEF Keeps, Decided, Closing, Strong, Listed
<1>8. AdminRemains'
  <2> SUFFICES ASSUME Admins # {} PROVE \E u \in Users : Power(u)'
    BY DEF AdminRemains, Power
  <2>1. PICK a \in Users : Power(a)
    BY DEF PowerInv, AdminRemains, Power
  <2>2. CASE a = s.user /\ Takes(s)
    <3>1. PICK b \in Users \ {s.user} : Power(b)
      BY <1>1, <1>7, <2>1, <2>2 DEF Keeps
    <3> QED BY <1>6, <3>1
  <2> QED BY <1>6, <2>1, <2>2
<1>9. ASSUME NEW o \in Others(t) PROVE Keeps(txs[o])'
  <2>1. PICK r \in Requests : /\ r = txs[o] /\ Own(r) /\ Apart(s, r) /\ Keeps(r)
                              /\ txs'[o] = r
    BY RequestIsOwn DEF PowerInv, Commit, Others, SessionInv, Typed
  <2>2. \A u \in r.accounts : u \in Users /\ users'[u] = users[u]
    <3>1. r.accounts \subseteq Users
      BY DEF Requests
    <3> QED BY <1>2, <1>3, <2>1, <3>1 DEF Apart
  <2>3. r.pc # "idle" /\ r.op \in Powers => r.user \in Users /\ r.version <= users'[r.user].version
    <3>1. r.version \in Nat
      BY SessionsAssumption DEF Requests, Editions
    <3> QED BY <1>4, <1>5, <2>1, <3>1 DEF Keeps
  <2>4. ASSUME Decided(r)
        PROVE  /\ r.version = users'[r.user].version
               /\ Power(r.user)' => \E a \in Users \ {r.user} : Power(a)'
    <3>1. r.user \in r.accounts
      BY <2>1, <2>4 DEF Decided, Own, Locked, Takes, FamilyOps, Closing
    <3>2. r.version = users'[r.user].version /\ (Power(r.user)' => Power(r.user))
      BY <2>1, <2>2, <2>4, <3>1 DEF Keeps, Power
    <3>3. ASSUME Power(r.user) PROVE \E a \in Users \ {r.user} : Power(a)'
      <4>1. PICK a \in Users \ {r.user} : Power(a)
        BY <2>1, <2>4, <3>3 DEF Keeps
      <4>2. Strong(r)
        BY <2>1, <2>4, <3>3 DEF Keeps, Decided, Strong, Listed, Closing
      <4>3. ~(a = s.user /\ Takes(s))
        BY <1>7, <2>1, <2>4, <4>1, <4>2, OneTakesPower
      <4> QED BY <1>6, <4>1, <4>3
    <3> QED BY <3>2, <3>3
  <2>5. \A u \in DOMAIN r.writes.user :
           LET row == r.writes.user[u]
           IN  /\ row.version >= users'[u].version
               /\ row.version = users'[u].version =>
                     row.active = users'[u].active /\ row.admin = users'[u].admin
               /\ ~Takes(r) /\ Power(u)' => row.active /\ row.admin
    <3>1. \A u \in DOMAIN r.writes.user : users'[u] = users[u]
      BY <2>1, <2>2 DEF Own, AccountWrites
    <3> QED BY <2>1, <3>1 DEF Keeps, Power
  <2> QED BY ONLY <2>1, <2>3, <2>4, <2>5 DEF Keeps, Decided, Takes, Power
<1>10. \A o \in Others(t) : Strong(txs[o])' => Strong(txs[o])
  <2> SUFFICES ASSUME NEW o \in Others(t), Strong(txs[o])' PROVE Strong(txs[o])
    OBVIOUS
  <2>1. PICK r \in Requests : r = txs[o] /\ Keeps(r) /\ txs'[o] = r
    BY RequestIsOwn DEF PowerInv, Commit, Others, SessionInv, Typed
  <2>2. Strong(r)'
    BY ONLY <2>1, Strong(txs[o])' DEF Strong, Takes, Power
  <2>3. r.user \in Users /\ r.version <= users[r.user].version /\ r.version \in Nat
    BY <2>1, <2>2, SessionsAssumption DEF Keeps, Strong, Takes, Listed, Powers, Requests, Editions
  <2>4. users[r.user].version = users'[r.user].version
    BY <1>4, <1>5, <2>2, <2>3 DEF Strong
  <2>5. Strong(r)
    BY <1>5, <2>2, <2>3, <2>4 DEF Strong, Power
  <2> QED BY <2>1, <2>5
<1>11. ASSUME NEW o \in Txs, NEW r \in Others(o) PROVE Meet(txs[o], txs[r])'
  <2>1. txs'[t] = Idle /\ \A x \in Others(t) : txs'[x] = txs[x]
    BY DEF Commit, Others, PowerInv, SessionInv, Typed
  <2>2. CASE o = t \/ r = t
    <3>1. ~Strong(txs[t])'
      BY <2>1 DEF Strong, Idle, Takes
    <3> QED BY <2>2, <3>1 DEF Meet
  <2>3. CASE o # t /\ r # t
    <3>1. Meet(txs[o], txs[r]) /\ txs'[o] = txs[o] /\ txs'[r] = txs[r]
      BY <2>1, <2>3 DEF PowerInv, Others
    <3>2. Strong(txs[o])' /\ Strong(txs[r])' => Strong(txs[o]) /\ Strong(txs[r])
      BY <1>10, <2>3 DEF Others
    <3> QED BY ONLY <3>1, <3>2 DEF Meet, Reach
  <2> QED BY <2>2, <2>3
<1>12. Keeps(txs[t])'
  <2>1. txs'[t] = Idle
    BY DEF Commit, PowerInv, SessionInv, Typed
  <2>2. DOMAIN txs'[t].writes.user = {} /\ txs'[t].op = "none" /\ txs'[t].pc = "idle"
    BY <2>1, NothingWritten DEF Idle
  <2> QED BY <2>2 DEF Keeps, Decided, Takes
<1> QED BY <1>8, <1>9, <1>11, <1>12 DEF PowerInv, Others

LEMMA AwakeKeepsPower ==
  ASSUME PowerInv, SessionInv', UNCHANGED <<users, txs>>
  PROVE  PowerInv'
  BY DEF PowerInv, AdminRemains, Keeps, Meet, Decided, Takes, Power, Strong, Reach, Others

LEMMA InitPower == Init => PowerInv
<1> SUFFICES ASSUME Init PROVE PowerInv
  OBVIOUS
<1>1. SessionInv
  BY InitSessions
<1>2. AdminRemains
  BY SessionsAssumption DEF Init, AdminRemains, Users
<1>3. Keeps(Idle) /\ ~Strong(Idle)
  BY NothingWritten DEF Keeps, Idle, Decided, Takes, Strong
<1>4. \A t \in Txs : txs[t] = Idle
  BY DEF Init
<1> QED BY <1>1, <1>2, <1>3, <1>4 DEF PowerInv, Meet, Others

LEMMA StepKeepsPower == PowerInv /\ [Next]_sessions => PowerInv'
<1> SUFFICES ASSUME PowerInv, [Next]_sessions PROVE PowerInv'
  OBVIOUS
<1>0. SessionInv'
  BY StepKeepsSessions DEF PowerInv
<1>1. CASE Time \/ UNCHANGED sessions
  BY <1>0, <1>1, AwakeKeepsPower DEF Time, GraceOver, Lapse, sessions
<1>2. ASSUME NEW t \in Txs, Submit(t) \/ Serve(t) \/ Rollback(t) PROVE PowerInv'
  BY <1>0, <1>2, SubmitKeepsPower, LockingKeepsPower, TokenOpsKeepPower, CheckKeepsPower,
     EndingKeepsPower, CommitKeepsPower, RefusedKeepsPower DEF Serve, Rollback
<1> QED BY <1>1, <1>2 DEF Next

(* However many requests change administrators at once, each from what it   *)
(* saw when it was made, and whatever is recovered meanwhile: an active     *)
(* administrator remains.                                                   *)
THEOREM AdministratorRemains == Spec => []AdminRemains
<1>1. PowerInv => AdminRemains
  BY DEF PowerInv
<1> QED BY <1>1, InitPower, StepKeepsPower, PTL DEF Spec
-----------------------------------------------------------------------------
(***************************************************************************)
(* The gate before the password checks.                                    *)
(***************************************************************************)
(* NoSlotLost is inductive with the types. *)
GateInv == GateTypeOK /\ NoSlotLost

LEMMA WorkingFinite ==
  ASSUME GateTypeOK
  PROVE  /\ IsFiniteSet(Working) /\ Cardinality(Working) \in Nat
         /\ Working = {} => Cardinality(Working) = 0
  BY PermitsAssumption, FS_Subset, FS_CardinalityType, FS_EmptySet DEF Working

LEMMA GateInitially == GateInit => GateInv
<1> SUFFICES ASSUME GateInit PROVE GateInv
  OBVIOUS
<1>1. GateTypeOK
  BY DEF GateInit, GateTypeOK, Standings
<1>2. Working = {} /\ Waiting = {}
  BY DEF GateInit, Working, Waiting
<1> QED BY <1>1, <1>2, FS_EmptySet, PermitsAssumption
        DEF GateInit, GateInv, NoSlotLost, ToSet, IsInjective

(* A queue of callers told apart, with one appended or one taken out.      *)
LEMMA SetOfQueue ==
  ASSUME NEW q \in Seq(Attempts)
  PROVE  /\ Len(q) \in Nat /\ DOMAIN q = 1 .. Len(q)
         /\ \A x : x \in ToSet(q) <=> \E n \in 1 .. Len(q) : q[n] = x
  BY DEF ToSet

LEMMA Appended ==
  ASSUME NEW q \in Seq(Attempts), IsInjective(q), NEW a \in Attempts, a \notin ToSet(q)
  PROVE  /\ Append(q, a) \in Seq(Attempts)
         /\ IsInjective(Append(q, a))
         /\ ToSet(Append(q, a)) = ToSet(q) \cup {a}
  BY DEF IsInjective, ToSet

LEMMA HeadTaken ==
  ASSUME NEW q \in Seq(Attempts), IsInjective(q), q # <<>>
  PROVE  /\ Tail(q) \in Seq(Attempts) /\ Len(Tail(q)) = Len(q) - 1
         /\ IsInjective(Tail(q))
         /\ Head(q) \in ToSet(q)
         /\ ToSet(Tail(q)) = ToSet(q) \ {Head(q)}
<1>1. /\ Len(q) \in Nat \ {0} /\ Len(Tail(q)) = Len(q) - 1 /\ Tail(q) \in Seq(Attempts)
      /\ \A n \in 1 .. Len(q) - 1 : Tail(q)[n] = q[n + 1]
      /\ Head(q) = q[1]
  OBVIOUS
<1>2. IsInjective(Tail(q))
  BY <1>1 DEF IsInjective
<1>3. \A x \in ToSet(q) : x # Head(q) => x \in ToSet(Tail(q))
  <2> SUFFICES ASSUME NEW n \in 1 .. Len(q), q[n] # q[1] PROVE q[n] \in ToSet(Tail(q))
    BY <1>1 DEF ToSet
  <2>1. n # 1 /\ n - 1 \in 1 .. Len(q) - 1 /\ Tail(q)[n - 1] = q[n]
    BY <1>1
  <2> QED BY <2>1, <1>1, SetOfQueue
<1>4. \A x \in ToSet(Tail(q)) : x \in ToSet(q) /\ x # Head(q)
  <2>0. \A x \in ToSet(Tail(q)) : \E n \in 1 .. Len(q) - 1 : Tail(q)[n] = x
    BY <1>1, SetOfQueue, ZenonT(60)
  <2> SUFFICES ASSUME NEW n \in 1 .. Len(q) - 1
               PROVE  Tail(q)[n] \in ToSet(q) /\ Tail(q)[n] # q[1]
    BY <1>1, <2>0, Zenon
  <2>1. n + 1 \in 1 .. Len(q) /\ n + 1 # 1 /\ 1 \in 1 .. Len(q)
    BY <1>1
  <2>2. Tail(q)[n] = q[n + 1]
    BY <1>1
  <2>3. q[n + 1] \in ToSet(q)
    BY <2>1, SetOfQueue
  <2>4. q[n + 1] # q[1]
    BY <2>1, SetOfQueue DEF IsInjective
  <2> QED BY <2>2, <2>3, <2>4
<1>5. Head(q) \in ToSet(q)
  BY <1>1, SetOfQueue
<1> QED BY <1>1, <1>2, <1>3, <1>4, <1>5

LEMMA OneTakenOut ==
  ASSUME NEW q \in Seq(Attempts), IsInjective(q), NEW n \in DOMAIN q
  PROVE  /\ RemoveAt(q, n) \in Seq(Attempts)
         /\ Len(RemoveAt(q, n)) = Len(q) - 1
         /\ IsInjective(RemoveAt(q, n))
         /\ ToSet(RemoveAt(q, n)) = ToSet(q) \ {q[n]}
<1> DEFINE r     == RemoveAt(q, n)
           front == SubSeq(q, 1, n - 1)
           back  == SubSeq(q, n + 1, Len(q))
<1>1. Len(q) \in Nat /\ n \in 1 .. Len(q)
  BY SetOfQueue
<1>2. /\ front \in Seq(Attempts) /\ Len(front) = n - 1
      /\ \A m \in 1 .. n - 1 : front[m] = q[m]
  BY <1>1
<1>3. /\ back \in Seq(Attempts) /\ Len(back) = Len(q) - n
      /\ \A m \in 1 .. Len(q) - n : back[m] = q[n + m]
  BY <1>1
<1>4. /\ r \in Seq(Attempts) /\ Len(r) = Len(q) - 1
      /\ \A m \in 1 .. n - 1 : r[m] = q[m]
      /\ \A m \in n .. Len(q) - 1 : r[m] = q[m + 1]
  <2> HIDE DEF front, back
  <2>1. r = front \o back
    BY DEF RemoveAt, front, back
  <2> HIDE DEF r
  <2>2. /\ r \in Seq(Attempts) /\ Len(r) = Len(q) - 1
        /\ \A m \in 1 .. Len(r) : r[m] = IF m <= n - 1 THEN front[m] ELSE back[m - (n - 1)]
    <3>1. /\ front \o back \in Seq(Attempts)
          /\ Len(front \o back) = Len(front) + Len(back)
          /\ \A m \in 1 .. Len(front) + Len(back) :
                (front \o back)[m] = IF m <= Len(front) THEN front[m] ELSE back[m - Len(front)]
      BY <1>2, <1>3, ConcatProperties
    <3>2. Len(front) + Len(back) = Len(q) - 1
      BY <1>1, <1>2, <1>3
    <3>3. Len(front) = n - 1
      BY <1>2
    <3>4. \A m \in 1 .. Len(q) - 1 : r[m] = IF m <= n - 1 THEN front[m] ELSE back[m - (n - 1)]
      BY <2>1, <3>1, <3>2, <3>3
    <3>5. r \in Seq(Attempts) /\ Len(r) = Len(q) - 1
      BY <2>1, <3>1, <3>2
    <3> QED BY <3>4, <3>5
  <2>3. ASSUME NEW m \in n .. Len(q) - 1 PROVE r[m] = q[m + 1]
    <3>1. m - (n - 1) \in 1 .. Len(q) - n /\ n + (m - (n - 1)) = m + 1
      BY <1>1
    <3>2. m \in 1 .. Len(r) /\ ~(m <= n - 1)
      BY <1>1, <2>2
    <3> QED BY <3>1, <3>2, <2>2, <1>3
  <2>4. ASSUME NEW m \in 1 .. n - 1 PROVE r[m] = q[m]
    <3>1. m \in 1 .. Len(r) /\ m <= n - 1
      BY <1>1, <2>2
    <3> QED BY <3>1, <2>2, <1>2
  <2> QED BY <2>2, <2>3, <2>4
<1> HIDE DEF r, front, back
<1> DEFINE from(m) == IF m < n THEN m ELSE m + 1
<1>5. \A m \in 1 .. Len(q) - 1 : /\ r[m] = q[from(m)]
                                 /\ from(m) \in 1 .. Len(q) /\ from(m) # n
  BY <1>1, <1>4
<1>6. IsInjective(r)
  <2> SUFFICES ASSUME NEW a \in 1 .. Len(q) - 1, NEW b \in 1 .. Len(q) - 1, r[a] = r[b]
               PROVE  a = b
    BY <1>4, SetOfQueue DEF IsInjective
  <2>1. from(a) = from(b)
    BY <1>5, SetOfQueue DEF IsInjective
  <2> QED BY <2>1, <1>1
<1>7. \A x \in ToSet(q) : x # q[n] => x \in ToSet(r)
  <2> SUFFICES ASSUME NEW m \in 1 .. Len(q), q[m] # q[n] PROVE q[m] \in ToSet(r)
    BY SetOfQueue
  <2>1. CASE m < n
    BY <2>1, <1>1, <1>4, SetOfQueue
  <2>2. CASE m > n
    <3>1. m - 1 \in n .. Len(q) - 1 /\ m - 1 \in 1 .. Len(q) - 1 /\ (m - 1) + 1 = m
      BY <2>2, <1>1
    <3> QED BY <3>1, <1>4, SetOfQueue
  <2> QED BY <2>1, <2>2, <1>1
<1>8. \A x \in ToSet(r) : x \in ToSet(q) /\ x # q[n]
  <2> SUFFICES ASSUME NEW m \in 1 .. Len(q) - 1 PROVE r[m] \in ToSet(q) /\ r[m] # q[n]
    BY <1>4, SetOfQueue
  <2> QED BY <1>1, <1>5, SetOfQueue DEF IsInjective
<1> QED BY <1>4, <1>6, <1>7, <1>8 DEF r

LEMMA AcquireStep == ASSUME GateInv, NEW a \in Attempts, Acquire(a) PROVE GateInv'
<1> USE DEF GateInv, GateTypeOK
<1>0. a \notin Working /\ a \notin Waiting
  BY DEF Acquire, Working, Waiting
<1>1. CASE /\ active < Permits /\ active' = active + 1
           /\ Stands(a, "working") /\ UNCHANGED queue
  <2>1. Working' = Working \cup {a} /\ Waiting' = Waiting
    BY <1>0, <1>1 DEF Stands, Working, Waiting, Standings
  <2>2. Cardinality(Working') = Cardinality(Working) + 1
    BY <2>1, <1>0, WorkingFinite, FS_AddElement
  <2> QED BY <1>1, <2>1, <2>2, PermitsAssumption DEF NoSlotLost, Stands, Standings
<1>2. CASE /\ active >= Permits /\ Len(queue) >= MaxQueue
           /\ Stands(a, "refused") /\ UNCHANGED <<active, queue>>
  <2>1. Working' = Working /\ Waiting' = Waiting
    BY <1>0, <1>2 DEF Stands, Working, Waiting, Standings
  <2> QED BY <1>2, <2>1 DEF NoSlotLost, Stands, Standings
<1>3. CASE /\ active >= Permits /\ Len(queue) < MaxQueue /\ queue' = Append(queue, a)
           /\ Stands(a, "waiting") /\ UNCHANGED active
  <2>1. Working' = Working /\ Waiting' = Waiting \cup {a}
    BY <1>0, <1>3 DEF Stands, Working, Waiting, Standings
  <2>2. active = Permits
    BY <1>3, PermitsAssumption DEF NoSlotLost
  <2>3. caller' \in [Attempts -> Standings]
    BY <1>3 DEF Stands, Standings
  <2> QED BY <1>0, <1>3, <2>1, <2>2, <2>3, Appended DEF NoSlotLost
<1> QED BY <1>1, <1>2, <1>3 DEF Acquire

LEMMA ReleaseStep == ASSUME GateInv, NEW a \in Attempts, Release(a) PROVE GateInv'
<1> USE DEF GateInv, GateTypeOK
<1>0. a \in Working /\ a \notin Waiting
  BY DEF Release, Working, Waiting
<1>1. CASE queue # <<>>
  <2> DEFINE h == Head(queue)
  <2>1. h \in Waiting /\ h # a /\ h \in Attempts
    BY <1>0, <1>1, HeadTaken DEF NoSlotLost, Waiting
  <2>2. /\ queue' = Tail(queue) /\ UNCHANGED active
        /\ caller' = [caller EXCEPT ![a] = "away", ![h] = "working"]
    BY <1>1 DEF Release, HandOver
  <2>3. Working' = (Working \ {a}) \cup {h} /\ Waiting' = Waiting \ {h}
    BY <1>0, <2>1, <2>2 DEF Working, Waiting, Standings
  <2>4. Cardinality(Working') = Cardinality(Working)
    <3>1. h \notin Working
      BY <2>1 DEF Working, Waiting
    <3>2. /\ IsFiniteSet(Working \ {a})
          /\ Cardinality(Working \ {a}) = Cardinality(Working) - 1
      BY <1>0, WorkingFinite, FS_RemoveElement
    <3>3. Cardinality((Working \ {a}) \cup {h}) = Cardinality(Working \ {a}) + 1
      BY <3>1, <3>2, FS_AddElement
    <3> QED BY <2>3, <3>2, <3>3, WorkingFinite
  <2>5. caller' \in [Attempts -> Standings]
    BY <2>1, <2>2 DEF Standings
  <2> QED BY <1>1, <2>2, <2>3, <2>4, <2>5, HeadTaken DEF NoSlotLost
<1>2. CASE queue = <<>>
  <2>1. active' = active - 1 /\ Stands(a, "away") /\ UNCHANGED queue
    BY <1>2 DEF Release, HandOver
  <2>2. Working' = Working \ {a} /\ Waiting' = Waiting
    BY <1>0, <2>1 DEF Stands, Working, Waiting, Standings
  <2>3. Cardinality(Working') = Cardinality(Working) - 1 /\ Cardinality(Working') \in Nat
    BY <1>0, <2>2, WorkingFinite, FS_RemoveElement, FS_CardinalityType
  <2> QED BY <1>2, <2>1, <2>2, <2>3, PermitsAssumption DEF NoSlotLost, Stands, Standings
<1> QED BY <1>1, <1>2

LEMMA TimeOutStep == ASSUME GateInv, NEW a \in Attempts, TimeOut(a) PROVE GateInv'
<1> USE DEF GateInv, GateTypeOK
<1> DEFINE place == CHOOSE n \in DOMAIN queue : queue[n] = a
<1>1. place \in DOMAIN queue /\ queue[place] = a
  <2>1. a \in ToSet(queue)
    BY DEF TimeOut, NoSlotLost, Waiting
  <2> QED BY <2>1 DEF ToSet
<1>2. queue' = RemoveAt(queue, place) /\ Stands(a, "timedOut") /\ UNCHANGED active
  BY DEF TimeOut, WithoutWaiter
<1>3. Working' = Working /\ Waiting' = Waiting \ {a}
  BY <1>2 DEF TimeOut, Stands, Working, Waiting, Standings
<1>4. caller' \in [Attempts -> Standings]
  BY <1>2 DEF Stands, Standings
<1>5. queue # <<>>
  BY <1>1
<1> HIDE DEF place
<1> QED BY <1>1, <1>2, <1>3, <1>4, <1>5, OneTakenOut DEF NoSlotLost

LEMMA GateInvKept == GateInv /\ [GateNext]_gateVars => GateInv'
<1> SUFFICES ASSUME GateInv, [GateNext]_gateVars PROVE GateInv'
  OBVIOUS
<1>1. CASE GateNext
  BY <1>1, AcquireStep, ReleaseStep, TimeOutStep DEF GateNext
<1>2. CASE UNCHANGED gateVars
  BY <1>2 DEF gateVars, GateInv, GateTypeOK, NoSlotLost, Working, Waiting
<1> QED BY <1>1, <1>2

(* The slots taken are the callers at work, the queue is the callers       *)
(* waiting, and nobody waits beside a free slot, however calls, releases   *)
(* and timeouts meet.                                                      *)
THEOREM SlotsAddUp == GateSpec => []NoSlotLost
<1>1. GateInv => NoSlotLost
  BY DEF GateInv
<1> QED BY <1>1, GateInitially, GateInvKept, PTL DEF GateSpec
=============================================================================
