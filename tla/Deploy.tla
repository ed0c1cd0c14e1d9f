------------------------------- MODULE Deploy -------------------------------
(***************************************************************************)
(* deploy.sh: one deploy after another on the server, each to a version    *)
(* that may or may not start, with a migration that may fail half way (and *)
(* then stops every later one until someone undoes it). Any command may    *)
(* fail, which the ERR trap turns into a rollback; the script itself may   *)
(* be killed, which it does not. Deploys run one at a time (deploy.yml's   *)
(* concurrency group). Version 0 is no version.                            *)
(***************************************************************************)
EXTENDS Integers, Sequences, SequencesExt

CONSTANTS
    Versions,       \* commits that may be deployed
    Keep,           \* pre-migration dumps kept
    MaxDeploys,     \* bound on deploys
    MaxWrites       \* bound on what users write

ASSUME DeployAssumption ==
    /\ Versions \subseteq Nat \ {0} /\ Keep \in Nat \ {0}
    /\ {MaxDeploys, MaxWrites} \subseteq Nat

VARIABLES
    appVersion,     \* APP_VERSION in .env
    running,        \* the version the API runs, 0 stopped
    db,             \* what users wrote, and whether a migration lies half done in it
    dumps,          \* the pre-migration dumps, newest first
    deployStep,     \* where the script stands
    target,         \* NEW_SHA
    prevSha,        \* PREV_SHA: the version to roll back to
    original,       \* ORIGINAL_VERSION
    previousFile,   \* .previous_version, for a rollback by hand
    passed,         \* history: versions that passed the health check
    halfDone,       \* history: what was written when the migration failed, and dumps since
    killed,         \* history: a deploy was killed
    deploys

deployVars == <<appVersion, running, db, dumps, deployStep, target, prevSha, original,
                previousFile, passed, halfDone, killed, deploys>>

Database  == [data : 0 .. MaxWrites, broken : BOOLEAN]
DumpFiles == [data : 0 .. MaxWrites, broken : BOOLEAN, whole : BOOLEAN]
Steps     == {"idle", "checkout", "pull", "stop", "dump", "migrate", "up", "health",
              "rollback", "restart"}
DeployTypeOK ==
    /\ {appVersion, running, target, prevSha, original, previousFile} \subseteq Versions \cup {0}
    /\ db \in Database /\ dumps \in Seq(DumpFiles) /\ deployStep \in Steps
    /\ passed \subseteq Versions /\ killed \in BOOLEAN /\ deploys \in 0 .. MaxDeploys
    /\ halfDone \in [data : 0 .. MaxWrites, dumps : 0 .. MaxDeploys]

(* A new server, or one that runs a version that passed. *)
DeployInit ==
    /\ \E v \in Versions \cup {0} :
          appVersion = v /\ running = v /\ passed = {v} \ {0}
    /\ db = [data |-> 0, broken |-> FALSE] /\ dumps = << >>
    /\ deployStep = "idle" /\ target = 0 /\ prevSha = 0 /\ original = 0 /\ previousFile = 0
    /\ halfDone = [data |-> 0, dumps |-> 0] /\ killed = FALSE /\ deploys = 0
-----------------------------------------------------------------------------
Goto(step) == deployStep' = step
script   == <<target, prevSha, original>>
recorded == <<previousFile, passed, killed, deploys>>

StartDeploy(v) ==
    /\ deployStep = "idle" /\ deploys < MaxDeploys
    /\ target' = v /\ prevSha' = appVersion /\ original' = appVersion
    /\ deploys' = deploys + 1 /\ Goto("checkout")
    /\ UNCHANGED <<appVersion, running, db, dumps, previousFile, passed, halfDone, killed>>
(* A failure here stops the script with nothing changed: the trap is not set. *)
Checkout ==
    /\ deployStep = "checkout"
    /\ \/ appVersion' = target /\ Goto("pull")
       \/ UNCHANGED appVersion /\ Goto("idle")
    /\ UNCHANGED <<running, db, dumps, script, recorded, halfDone>>
Pull ==
    /\ deployStep = "pull" /\ Goto("stop")
    /\ UNCHANGED <<appVersion, running, db, dumps, script, recorded, halfDone>>
ApiLeftRunning ==                                                   \* mutant
    /\ deployStep = "stop" /\ Goto("dump")
    /\ UNCHANGED <<appVersion, running, db, dumps, script, recorded, halfDone>>
StopApi ==
    /\ deployStep = "stop" /\ Goto("dump")
    /\ running' = 0
    /\ UNCHANGED <<appVersion, db, dumps, script, recorded, halfDone>>

(* The dump: whole, and then the oldest beyond Keep go; cut off half way, a  *)
(* file stays that a later prune counts; empty, it is removed.               *)
DumpOf(whole) == [data |-> db.data, broken |-> db.broken, whole |-> whole]
Newest(files) == SubSeq(files, 1, IF Len(files) < Keep THEN Len(files) ELSE Keep)
CountDump == halfDone' = IF db.broken THEN [halfDone EXCEPT !.dumps = @ + 1] ELSE halfDone
DumpDatabase ==
    /\ deployStep = "dump"
    /\ \/ dumps' = Newest(<<DumpOf(TRUE)>> \o dumps) /\ CountDump /\ Goto("migrate")
       \/ dumps' = <<DumpOf(FALSE)>> \o dumps /\ CountDump /\ Goto("rollback")
       \/ UNCHANGED <<dumps, halfDone>> /\ Goto("rollback")
    /\ UNCHANGED <<appVersion, running, db, script, recorded>>

(* migrate.ts: the migrations, the grants, the seed; a migration left half   *)
(* done stops this and every later one, the rest fails with nothing changed. *)
Migrate ==
    /\ deployStep = "migrate"
    /\ \/ ~db.broken /\ Goto("up") /\ UNCHANGED <<db, halfDone>>
       \/ ~db.broken /\ Goto("rollback") /\ UNCHANGED <<db, halfDone>>
       \/ /\ db' = [db EXCEPT !.broken = TRUE]
          /\ halfDone' = IF db.broken THEN halfDone ELSE [data |-> db.data, dumps |-> 0]
          /\ Goto("rollback")
    /\ UNCHANGED <<appVersion, running, dumps, script, recorded>>
Up ==
    /\ deployStep = "up" /\ Goto("health")
    /\ running' = target
    /\ UNCHANGED <<appVersion, db, dumps, script, recorded, halfDone>>
Healthy ==
    /\ deployStep = "health" /\ Goto("idle")
    /\ passed' = passed \cup {target} /\ previousFile' = prevSha
    /\ UNCHANGED <<appVersion, running, db, dumps, script, killed, deploys, halfDone>>

(* The ERR trap, and the health check's timeout. *)
CommandFails ==
    /\ deployStep \in {"pull", "stop", "up", "health"}
    /\ Goto("rollback")
    /\ UNCHANGED <<appVersion, running, db, dumps, script, recorded, halfDone>>
(* Back to the version before; on a first deploy .env says again what it   *)
(* said, and nothing is restarted.                                         *)
VersionLeft == IF prevSha # 0 THEN prevSha ELSE appVersion          \* mutant
VersionBack == IF prevSha # 0 THEN prevSha ELSE original
Rollback ==
    /\ deployStep = "rollback"
    /\ appVersion' = VersionBack
    /\ Goto(IF prevSha # 0 THEN "restart" ELSE "idle")
    /\ UNCHANGED <<running, db, dumps, script, recorded, halfDone>>
Restart ==
    /\ deployStep = "restart" /\ Goto("idle")
    /\ running' \in {prevSha, running}
    /\ UNCHANGED <<appVersion, db, dumps, script, recorded, halfDone>>
(* Killed, or a command of the rollback itself fails: no trap sees either. *)
Kill ==
    /\ deployStep # "idle"
    /\ killed' = TRUE /\ Goto("idle")
    /\ UNCHANGED <<appVersion, running, db, dumps, script, previousFile, passed, deploys, halfDone>>

(* Users work while the API runs; a half-done migration is undone by hand. *)
UsersWrite ==
    /\ running # 0 /\ db.data < MaxWrites
    /\ db' = [db EXCEPT !.data = @ + 1]
    /\ UNCHANGED <<appVersion, running, dumps, deployStep, script, recorded, halfDone>>
UndoMigration ==
    /\ deployStep = "idle" /\ db.broken
    /\ db' = [db EXCEPT !.broken = FALSE]
    /\ halfDone' = [data |-> 0, dumps |-> 0]
    /\ UNCHANGED <<appVersion, running, dumps, deployStep, script, recorded>>

DeployNext ==
    \/ \E v \in Versions : StartDeploy(v)
    \/ Checkout \/ Pull \/ StopApi \/ DumpDatabase \/ Migrate \/ Up \/ Healthy
    \/ CommandFails \/ Rollback \/ Restart \/ Kill \/ UsersWrite \/ UndoMigration
DeploySpec == DeployInit /\ [][DeployNext]_deployVars
-----------------------------------------------------------------------------
(* Wherever a deploy stops there is a way back. A migration that went wrong  *)
(* can be undone without losing what was written before it: a whole dump of  *)
(* the database as it was then stays, until Keep further deploys have taken  *)
(* theirs. And between deploys .env and .previous_version name no version    *)
(* that did not pass its health check, unless a deploy was killed, which no  *)
(* trap sees.                                                                *)
UndoneWithoutLoss ==
    db.broken /\ halfDone.dumps < Keep =>
        \E n \in 1 .. Len(dumps) :
            dumps[n] = [data |-> halfDone.data, broken |-> FALSE, whole |-> TRUE]
RollbackTargetsPassed ==
    deployStep = "idle" /\ ~killed => {appVersion, previousFile} \subseteq passed \cup {0}
WayBackStays == UndoneWithoutLoss /\ RollbackTargetsPassed
=============================================================================
