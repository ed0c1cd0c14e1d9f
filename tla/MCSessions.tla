----------------------------- MODULE MCSessions -----------------------------
(***************************************************************************)
(* Sessions on small instances, three questions in one run: what one       *)
(* account's own requests and those that end its sessions do to each       *)
(* other; what two administrators do who sign in and change each other's   *)
(* power; and the recovery script beside logins and an administrator who   *)
(* loses power or is deactivated meanwhile. The first session alone        *)
(* lapses, in the first question. The requests at work are interchangeable. *)
(***************************************************************************)
EXTENDS Sessions, TLC

VARIABLE question

RequestSymmetry == Permutations(Txs)

AskedFor(op) ==
    \/ op \in {"none", "login"}
    \/ question = "endings" /\ op \in {"rotate", "logout", "logoutAll", "reset", "change"}
    \/ question = "powers" /\ op \in Powers \cup {"change"}
    \/ question = "recovery" /\ op \in {"demote", "deactivate", "recover", "recoverPromote"}
ServedTo(u) == question = "endings" => u \in {0, 1}
Keeps ==
    /\ \A t \in Txs : AskedFor(txs[t].op) /\ ServedTo(txs[t].user)
    /\ \A f \in FamilyIds :
          families[f].lapse = "none" \/ (question = "endings" /\ f = 1)

QuestionsInit == Init /\ question \in {"endings", "powers", "recovery"}
QuestionsNext == Next /\ UNCHANGED question
QuestionsSpec == QuestionsInit /\ [][QuestionsNext]_<<sessions, question>>
=============================================================================
