------------------------------ MODULE Sessions ------------------------------
(***************************************************************************)
(* Sessions: families of refresh tokens with rotation, a grace window and  *)
(* reuse detection (session.service), and the operations that start and    *)
(* end them (auth.service, users.service).                                 *)
(*                                                                         *)
(* Here transactions interleave, statement by statement. A transaction     *)
(* holds the rows it locked, reads what is committed, keeps its writes to  *)
(* itself until it commits (READ COMMITTED), and may be rolled back at any *)
(* point: a deadlock victim, the 15 s timeout, a restart of the server.    *)
(***************************************************************************)
EXTENDS Integers

CONSTANTS
    MaxUsers, Admins,     \* accounts 1 .. MaxUsers, and the administrators at the start
    Txs,                  \* requests the server works on at once
    Ops,                  \* operations asked for
    MaxFamilies, MaxTokens,               \* bounds on rows
    MaxVersion, MaxEdition                \* bounds on token_version and on version

ASSUME SessionsAssumption ==
    /\ MaxUsers \in Nat /\ Admins \subseteq 1 .. MaxUsers
    /\ MaxFamilies \in Nat /\ MaxTokens \in Nat
    /\ MaxVersion \in Nat /\ MaxEdition \in Nat
    /\ Ops \subseteq {"login", "rotate", "logout", "logoutAll", "reset", "change",
                      "deactivate", "activate", "demote", "promote",
                      "recover", "recoverPromote"}

VARIABLES
    users,       \* user -> is_active, role, token_version, version, password
    families,    \* family id -> session_families row
    tokens,      \* token id -> refresh_tokens row
    grants,      \* access tokens answered so far
    txs          \* the transaction of each request

sessions == <<users, families, tokens, grants, txs>>

Users     == 1 .. MaxUsers
FamilyIds == 1 .. MaxFamilies
TokenIds  == 1 .. MaxTokens
Versions  == 0 .. MaxVersion
Editions  == 0 .. MaxEdition

UserRows   == [active : BOOLEAN, admin : BOOLEAN, tv : Versions, version : Editions,
               password : Versions]
FamilyRows == [state : {"none", "live", "revoked"}, user : 0 .. MaxUsers,
               lapse : {"none", "idle", "expired"},
               born  : Versions,     \* history: the token_version it was opened at,
               by    : {"none", "login", "change"}]    \* and by what
TokenRows  == [status : {"none", "ACTIVE", "ROTATED", "RETIRED", "REVOKED"},
               family : 0 .. MaxFamilies,
               fresh  : BOOLEAN]     \* rotated no longer than the grace window ago
Grants     == [user : Users, tv : Versions, family : FamilyIds]

NoFamily == [state |-> "none", user |-> 0, lapse |-> "none", born |-> 0, by |-> "none"]
NoToken  == [status |-> "none", family |-> 0, fresh |-> FALSE]
Opened(u, tv, op) == [state |-> "live", user |-> u, lapse |-> "none", born |-> tv, by |-> op]
Issued(f)     == [status |-> "ACTIVE", family |-> f, fresh |-> FALSE]
NoRow    == [x \in {} |-> x]
NoWrites == [user |-> NoRow, families |-> NoRow, tokens |-> NoRow]

(* A request at rest: no lock, nothing written. *)
Idle == [op |-> "none", pc |-> "idle", actor |-> 0, user |-> 0, token |-> 0,
         family |-> 0, password |-> 0, version |-> 0, todo |-> {}, found |-> {}, tv |-> 0, answers |-> FALSE,
         accounts |-> {}, shares |-> {}, holds |-> {}, writes |-> NoWrites]

Init ==
    /\ users    = [u \in Users |-> [active |-> TRUE, admin |-> u \in Admins,
                                   tv |-> 0, version |-> 0, password |-> 0]]
    /\ families = [f \in FamilyIds |-> NoFamily]
    /\ tokens   = [k \in TokenIds |-> NoToken]
    /\ grants   = {}
    /\ txs      = [t \in Txs |-> Idle]
-----------------------------------------------------------------------------
(* Row locks. FOR UPDATE on a user keeps out every other lock on it, the    *)
(* KEY SHARE an audit row's foreign key takes included; KEY SHAREs go       *)
(* together.                                                                *)
Others(t) == Txs \ {t}
UserFree(t, u) ==
    \A o \in Others(t) : u \notin txs[o].accounts /\ u \notin txs[o].shares
ShareFree(t, u) == \A o \in Others(t) : u \notin txs[o].accounts
AnyFamilyFree(t, f) == TRUE      \* mutant: the family is read without its lock
FamilyFree(t, f) == \A o \in Others(t) : f \notin txs[o].holds

TokensOf(fs) == {k \in TokenIds : tokens[k].status # "none" /\ tokens[k].family \in fs}

(* The id the next row gets: a family's tokens are numbered in the order of  *)
(* their issue. The set is empty when the bound is reached.                 *)
Pending(what) == UNION {DOMAIN txs[t].writes[what] : t \in Txs}
Least(S) == {x \in S : \A y \in S : x <= y}
FreeFamily == Least({f \in FamilyIds : families[f].state = "none" /\ f \notin Pending("families")})
FreeToken(f) == Least({k \in TokenIds : /\ tokens[k].status = "none" /\ k \notin Pending("tokens")
                                        /\ \A j \in TokensOf({f}) : j < k})


Step(t, next) == /\ txs' = [txs EXCEPT ![t] = next]
                 /\ UNCHANGED <<users, families, tokens, grants>>
Refused(t) == Step(t, Idle)
-----------------------------------------------------------------------------
(* AuthGuard: the caller is rebuilt from the database on every request. *)
Accepted(g) == users[g.user].active /\ users[g.user].tv = g.tv
SignedIn(u) == \E g \in grants : g.user = u /\ Accepted(g)

Request(op) == [Idle EXCEPT !.op = op]
Ask(t, request) == /\ txs[t].pc = "idle"
                   /\ request.op \in Ops
                   /\ Step(t, request)

(* login: whoever types the password knew it when they typed it. *)
AskLogin(t, u) ==
    Ask(t, [Request("login") EXCEPT !.pc = "lockUser", !.user = u, !.actor = u,
                                    !.password = users[u].password])
(* refresh and logout, with any token ever handed out. *)
AskWithToken(t, op, k) ==
    /\ tokens[k].status # "none"
    /\ Ask(t, [Request(op) EXCEPT !.pc = "lockFamily", !.token = k,
                                  !.family = tokens[k].family])
(* logoutAll, resetPassword and update (activation, role) by another, an    *)
(* administrator; logoutAll and changePassword by the account itself. An    *)
(* update names the version of the account it was made from.                *)
Powers == {"deactivate", "activate", "demote", "promote"}
AskForUser(t, op, actor, u) ==
    /\ SignedIn(actor)
    /\ CASE op = "change"    -> actor = u
         [] op = "logoutAll" -> actor = u \/ users[actor].admin
         [] op = "reset"     -> users[actor].admin
         [] op \in Powers    -> users[actor].admin /\ actor # u
    /\ Ask(t, [Request(op) EXCEPT !.user = u, !.actor = actor,
                                  !.pc = IF op \in Powers THEN "listAdmins" ELSE "lockUser",
                                  !.password = users[u].password,
                                  !.version = users[u].version])
(* recover-admin, run at the server by nobody the history could name, while *)
(* the API serves requests: any account, signed in or not.                  *)
AskToRecover(t, op, u) ==
    Ask(t, [Request(op) EXCEPT !.user = u,
                !.pc = IF op = "recoverPromote" THEN "listAdmins" ELSE "lockUser"])
-----------------------------------------------------------------------------
(* rotate and logout lock the token's family and read it again. *)
LockFamily(t) ==
    /\ txs[t].pc = "lockFamily"
    /\ FamilyFree(t, txs[t].family)
    /\ Step(t, [txs[t] EXCEPT !.pc = "decide", !.holds = {txs[t].family}])

Revoked(f) == [families[f] EXCEPT !.state = "revoked"]
Void(fs)   == [k \in {k \in TokensOf(fs) : tokens[k].status # "REVOKED"} |->
                  [tokens[k] EXCEPT !.status = "REVOKED", !.fresh = FALSE]]
EndFamily(t, next) ==
    LET f == txs[t].family
    IN  Step(t, [txs[t] EXCEPT !.pc = next, !.user = families[f].user,
                    !.actor = families[f].user,
                    !.writes = [@ EXCEPT !.families = [g \in {f} |-> Revoked(f)],
                                         !.tokens = Void({f})]])

(* Only the most recently rotated token, within the window. Tokens of a     *)
(* family are rotated in the order they were issued.                        *)
WithinGrace(k) ==
    /\ tokens[k].status = "ROTATED" /\ tokens[k].fresh
    /\ \A j \in TokensOf({tokens[k].family}) : tokens[j].status = "ROTATED" => j <= k

(* The token is replaced by a new one; its predecessor's successor, when it *)
(* had one already, is retired.                                             *)
Renew(t, n) ==
    LET k == txs[t].token
        f == txs[t].family
        retired == {j \in TokensOf({f}) : tokens[j].status = "ACTIVE"} \ {k}
        rotated == IF tokens[k].status = "ACTIVE"
                   THEN [tokens[k] EXCEPT !.status = "ROTATED", !.fresh = TRUE]
                   ELSE tokens[k]
    IN  /\ n \in FreeToken(f)
        /\ Step(t, [txs[t] EXCEPT !.pc = "read", !.user = families[f].user,
              !.writes = [@ EXCEPT
                  !.families = [g \in {f} |-> [families[f] EXCEPT !.lapse = "none"]],
                  !.tokens = [j \in {k, n} \cup retired |->
                        IF j = n THEN Issued(f)
                        ELSE IF j = k THEN rotated
                        ELSE [tokens[j] EXCEPT !.status = "RETIRED"]]]])

Rotate(t) ==
    LET f == txs[t].family
        k == txs[t].token
        known == tokens[k].status = "ACTIVE" \/ WithinGrace(k)
    IN  /\ txs[t].pc = "decide" /\ txs[t].op = "rotate"
        /\ IF families[f].state = "revoked" \/ families[f].lapse = "expired" THEN Refused(t)
           ELSE IF families[f].lapse = "idle" \/ ~users[families[f].user].active
           THEN EndFamily(t, "commit")
           ELSE IF known THEN \E n \in TokenIds : Renew(t, n)
           ELSE EndFamily(t, "audit")

Logout(t) ==
    /\ txs[t].pc = "decide" /\ txs[t].op = "logout"
    /\ IF families[txs[t].family].state = "revoked" THEN Refused(t) ELSE EndFamily(t, "audit")

(* refresh reads the user once more, without a lock, for the access token. *)
ReadUser(t) ==
    /\ txs[t].pc = "read"
    /\ Step(t, [txs[t] EXCEPT !.pc = "commit", !.answers = TRUE,
                              !.tv = users[txs[t].user].tv])
-----------------------------------------------------------------------------
(* A change of administrators' power first locks every active one, in id    *)
(* order.                                                                   *)
ListAdmins(t) ==
    /\ txs[t].pc = "listAdmins"
    /\ Step(t, [txs[t] EXCEPT !.pc = "lockAdmins",
                  !.todo = {u \in Users : users[u].active /\ users[u].admin}])
LockAdmin(t) ==
    /\ txs[t].pc = "lockAdmins"
    /\ \/ txs[t].todo = {} /\ Step(t, [txs[t] EXCEPT !.pc = "lockUser"])
       \/ \E u \in Least(txs[t].todo) :
             /\ UserFree(t, u)
             /\ Step(t, [txs[t] EXCEPT !.todo = @ \ {u}, !.accounts = @ \cup {u}])

(* The others lock the account first and read it under the lock.            *)
AnyUserFree(t, u) == TRUE        \* mutant: the account is read without its lock
AccountFree(t, u) == UserFree(t, u)
LockUser(t) ==
    /\ txs[t].pc = "lockUser"
    /\ AccountFree(t, txs[t].user)
    /\ Step(t, [txs[t] EXCEPT !.pc = "check", !.accounts = @ \cup {txs[t].user}])

Login(t, f, n) ==
    LET u == txs[t].user
    IN  /\ f \in FreeFamily /\ n \in FreeToken(f)
        /\ Step(t, [txs[t] EXCEPT !.pc = "audit", !.tv = users[u].tv, !.family = f,
              !.answers = TRUE,
              !.writes = [@ EXCEPT
                  !.families = [g \in {f} |-> Opened(u, users[u].tv, "login")],
                  !.tokens = [k \in {n} |-> Issued(f)]]])

(* revokeAllFamilies first lists the account's live families. *)
ListFamilies(t) ==
    LET live == {f \in FamilyIds : families[f].state = "live"
                                   /\ families[f].user = txs[t].user}
    IN  Step(t, [txs[t] EXCEPT !.pc = "revoke", !.todo = live, !.found = live])

(* What makes an operation do nothing but answer: a wrong password, an      *)
(* account changed since, no change, or no administrator left.              *)
NoLastAdmin(u) == TRUE           \* mutant: the last administrator may go
AdminStays(u) == \E a \in Users \ {u} : users[a].active /\ users[a].admin
MayUpdate(op, u) ==
    /\ op = "deactivate" => users[u].active /\ (users[u].admin => AdminStays(u))
    /\ op = "demote"     => users[u].admin /\ (users[u].active => AdminStays(u))
    /\ op = "activate"   => ~users[u].active
    /\ op = "promote"    => ~users[u].admin
Allowed(t) ==
    LET row == users[txs[t].user]
        op  == txs[t].op
    IN  /\ op = "login"  => row.active /\ row.password = txs[t].password
        /\ op = "change" => row.password = txs[t].password
        /\ op \in Powers => txs[t].version = row.version /\ MayUpdate(op, txs[t].user)
EndsAll == {"change", "logoutAll", "reset", "deactivate", "recover", "recoverPromote"}
WriteAccount(t, row) ==
    /\ row.version < MaxEdition
    /\ Step(t, [txs[t] EXCEPT !.pc = "audit", !.writes = [@ EXCEPT
                  !.user = [u \in {txs[t].user} |-> [row EXCEPT !.version = @ + 1]]]])
Check(t) ==
    LET row == users[txs[t].user]
        op  == txs[t].op
    IN  /\ txs[t].pc = "check"
        /\ \/ ~Allowed(t) /\ Refused(t)
           \/ /\ Allowed(t)
              /\ \/ op = "login" /\ \E f \in FamilyIds, n \in TokenIds : Login(t, f, n)
                 \/ op \in EndsAll /\ ListFamilies(t)
                 \/ op = "activate" /\ WriteAccount(t, [row EXCEPT !.active = TRUE])
                 \/ op = "promote" /\ WriteAccount(t, [row EXCEPT !.admin = TRUE])
                 \/ op = "demote" /\ WriteAccount(t, [row EXCEPT !.admin = FALSE])

(* Then updates them, waiting for whoever holds one; a family revoked       *)
(* meanwhile is left as it is.                                              *)
RevokeFamily(t, f) ==
    LET live == IF families[f].state = "live" THEN {f} ELSE {}
        done == txs[t].writes.families
    IN  /\ txs[t].pc = "revoke" /\ f \in txs[t].todo
        /\ FamilyFree(t, f)
        /\ Step(t, [txs[t] EXCEPT !.todo = @ \ {f}, !.holds = @ \cup live,
              !.writes = [@ EXCEPT !.families = [g \in DOMAIN done \cup live |->
                    IF g \in DOMAIN done THEN done[g] ELSE Revoked(g)]]])

(* Then their tokens, and what the operation does to the account: recovered, *)
(* it has a new password, is active again, and an administrator if asked.   *)
(* A change of one's own password and a log-out keep the account's version. *)
Recovered(op, row) ==
    [row EXCEPT !.active = TRUE, !.tv = row.tv + 1, !.version = row.version + 1,
                !.password = row.password + 1,
                !.admin = row.admin \/ op = "recoverPromote"]
Account(op, row) ==
    IF op \in {"recover", "recoverPromote"} THEN Recovered(op, row)
    ELSE [row EXCEPT !.active = row.active /\ op # "deactivate",
                     !.tv = row.tv + 1,
                     !.version = IF op \in {"reset", "deactivate"} THEN row.version + 1
                                 ELSE row.version,
                     !.password = IF op \in {"reset", "change"} THEN row.password + 1
                                  ELSE row.password]
RevokeTokens(t) ==
    LET u     == txs[t].user
        op    == txs[t].op
        after == Account(op, users[u])
        done  == txs[t].writes.families
        void  == Void(txs[t].found)
        write == [user |-> [v \in {u} |-> after], families |-> done, tokens |-> void]
    IN  /\ txs[t].pc = "revoke" /\ txs[t].todo = {}
        /\ users[u].tv < MaxVersion /\ users[u].version < MaxEdition
        /\ \/ op # "change" /\ Step(t, [txs[t] EXCEPT !.pc = "audit", !.writes = write])
           \/ /\ op = "change"
              /\ \E f \in FamilyIds, n \in TokenIds :
                  /\ f \in FreeFamily /\ n \in FreeToken(f)
                  /\ Step(t, [txs[t] EXCEPT !.pc = "audit", !.tv = after.tv, !.family = f,
                       !.answers = TRUE,
                       !.writes = [write EXCEPT
                           !.families = [g \in DOMAIN done \cup {f} |->
                                 IF g = f THEN Opened(u, after.tv, "change") ELSE done[g]],
                           !.tokens = [k \in DOMAIN void \cup {n} |->
                                 IF k = n THEN Issued(f) ELSE void[k]]]])
-----------------------------------------------------------------------------
(* The audit row of what was done names who did it, by a foreign key; a      *)
(* recovery names nobody, and waits for nobody.                             *)
Audit(t) ==
    /\ txs[t].pc = "audit"
    /\ ShareFree(t, txs[t].actor)
    /\ Step(t, [txs[t] EXCEPT !.pc = "commit", !.shares = {txs[t].actor}])

Written(rows, changes) ==
    [x \in DOMAIN rows |-> IF x \in DOMAIN changes THEN changes[x] ELSE rows[x]]
Commit(t) ==
    /\ txs[t].pc = "commit"
    /\ users'    = Written(users, txs[t].writes.user)
    /\ families' = Written(families, txs[t].writes.families)
    /\ tokens'   = Written(tokens, txs[t].writes.tokens)
    /\ grants'   = grants \cup (IF txs[t].answers
                                THEN {[user |-> txs[t].user, tv |-> txs[t].tv,
                                       family |-> txs[t].family]}
                                ELSE {})
    /\ txs' = [txs EXCEPT ![t] = Idle]

Rollback(t) == txs[t].pc # "idle" /\ Refused(t)

(* Time passes between transactions, short beside it: a grace window ends,  *)
(* a session is left alone or reaches the end of its absolute lifetime.     *)
GraceOver(k) ==
    /\ tokens[k].fresh /\ k \notin Pending("tokens")
    /\ tokens' = [tokens EXCEPT ![k].fresh = FALSE]
    /\ UNCHANGED <<users, families, grants, txs>>
Lapse(f, how) ==
    /\ families[f].state = "live" /\ families[f].lapse = "none"
    /\ f \notin Pending("families")
    /\ families' = [families EXCEPT ![f].lapse = how]
    /\ UNCHANGED <<users, tokens, grants, txs>>
-----------------------------------------------------------------------------
Serve(t) ==
    \/ LockFamily(t) \/ Rotate(t) \/ Logout(t) \/ ReadUser(t)
    \/ ListAdmins(t) \/ LockAdmin(t) \/ LockUser(t) \/ Check(t)
    \/ \E f \in FamilyIds : RevokeFamily(t, f)
    \/ RevokeTokens(t) \/ Audit(t) \/ Commit(t)

Submit(t) ==
    \/ \E u \in Users : AskLogin(t, u)
    \/ \E k \in TokenIds, op \in {"rotate", "logout"} : AskWithToken(t, op, k)
    \/ \E actor, u \in Users, op \in Powers \cup {"change", "logoutAll", "reset"} :
          AskForUser(t, op, actor, u)
    \/ \E u \in Users, op \in {"recover", "recoverPromote"} : AskToRecover(t, op, u)

Time == \/ \E k \in TokenIds : GraceOver(k)
        \/ \E f \in FamilyIds, how \in {"idle", "expired"} : Lapse(f, how)

Next == Time \/ \E t \in Txs : Submit(t) \/ Serve(t) \/ Rollback(t)

Spec == Init /\ [][Next]_sessions
-----------------------------------------------------------------------------
TypeOK ==
    /\ users    \in [Users -> UserRows]
    /\ families \in [FamilyIds -> FamilyRows]
    /\ tokens   \in [TokenIds -> TokenRows]
    /\ grants   \subseteq Grants

(* Ending every session of an account is final: whatever logins, refreshes  *)
(* and log-outs were under way, a session that is live was opened since,    *)
(* and on an active account unless a password change opened it; an access   *)
(* token carries the token_version its session was opened at, so none       *)
(* outlives the ending. A revoked session has no token left that a refresh  *)
(* would take, and a session has one active token at most: the partial      *)
(* unique index is never hit.                                               *)
LiveIsCurrent ==
    \A f \in FamilyIds : families[f].state = "live" =>
        /\ families[f].born = users[families[f].user].tv
        /\ users[families[f].user].active \/ families[f].by = "change"
GrantsAreOfTheirSession ==
    \A g \in grants : families[g.family].born = g.tv /\ families[g.family].user = g.user
RevokedHasNoToken ==
    \A f \in FamilyIds : families[f].state = "revoked" =>
        \A k \in TokensOf({f}) : tokens[k].status = "REVOKED"
OneActiveToken ==
    \A f \in FamilyIds : \A j, k \in TokensOf({f}) :
        tokens[j].status = "ACTIVE" /\ tokens[k].status = "ACTIVE" => j = k
EverySessionIsCurrent ==
    LiveIsCurrent /\ GrantsAreOfTheirSession /\ RevokedHasNoToken /\ OneActiveToken

(* All sessions of a deactivated account end immediately (manage-users.md): *)
(* no session of it is live.                                                *)
DeactivatedIsOut ==
    \A f \in FamilyIds : families[f].state = "live" => users[families[f].user].active

(* Two administrators demoting or deactivating each other at once never     *)
(* leave none.                                                              *)
AdminRemains == Admins # {} => \E u \in Users : users[u].active /\ users[u].admin

(* Locks are taken in one order, so no requests wait for each other in a    *)
(* ring (locks.ts).                                                         *)
WaitsFor(t) ==
    {o \in Others(t) :
        \/ txs[t].pc = "lockFamily" /\ txs[t].family \in txs[o].holds
        \/ txs[t].pc = "revoke" /\ txs[t].todo \cap txs[o].holds # {}
        \/ txs[t].pc = "lockUser" /\ txs[t].user \in txs[o].accounts \cup txs[o].shares
        \/ /\ txs[t].pc = "lockAdmins"
           /\ Least(txs[t].todo) \cap (txs[o].accounts \cup txs[o].shares) # {}
        \/ txs[t].pc = "audit" /\ txs[t].actor \in txs[o].accounts}
NoRingOfWaiters == ~\E S \in SUBSET Txs : S # {} /\ \A t \in S : WaitsFor(t) \cap S # {}
=============================================================================
