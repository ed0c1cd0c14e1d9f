------------------------------- MODULE Restore -------------------------------
(***************************************************************************)
(* restore.sh: a snapshot put back in place of the database and the        *)
(* uploads, run again and again if need be, failing or killed at any       *)
(* step. A database or a set of uploads is told apart by number; what a    *)
(* name stands for is swapped, not the data. Number 0 is none.             *)
(***************************************************************************)
EXTENDS Integers, FiniteSets

CONSTANTS
    Snapshots,      \* snapshots of the backup: a record of what each holds
    MaxRestores     \* bound on runs

VARIABLES
    pallet,         \* the database named pallet
    palletRestore,  \* the one named pallet_restore
    keptDbs,        \* those named pallet_before_<stamp>
    uploads,        \* the files in the uploads volume: of which set, whole or mixed
    keptUploads,    \* the sets copied to an uploads-before
    restoreStep,    \* where the script stands
    chosen,         \* the snapshot being restored
    hadCurrent, swapped,
    usable,         \* history: databases found with migrations and an admin
    everPallet,     \* history: every database that was in use as pallet
    numbered        \* databases made so far

restoreVars == <<pallet, palletRestore, keptDbs, uploads, keptUploads, restoreStep, chosen,
                 hadCurrent, swapped, usable, everPallet, numbered>>
databases == <<pallet, palletRestore, keptDbs, usable, everPallet, numbered>>
files     == <<uploads, keptUploads>>

(* A snapshot: whether its dump restores and holds a usable database, and    *)
(* the uploads in it, 0 for none.                                            *)
SnapshotKinds == [loads : BOOLEAN, sound : BOOLEAN, uploads : Nat]
FilesOf == {s.uploads : s \in Snapshots} \cup {1}
RestoreSteps == {"idle", "stop", "keep", "load", "check", "swap", "rename", "copy", "replace",
                 "start"}

RestoreTypeOK ==
    /\ Snapshots \subseteq SnapshotKinds
    /\ {pallet, palletRestore} \subseteq 0 .. numbered
    /\ keptDbs \subseteq 1 .. numbered /\ numbered \in 0 .. MaxRestores + 1
    /\ uploads \in FilesOf \X {"whole", "mixed"} /\ keptUploads \subseteq FilesOf
    /\ restoreStep \in RestoreSteps /\ chosen \in Snapshots
    /\ hadCurrent \in BOOLEAN /\ swapped \in BOOLEAN

(* A server in use, or a new one with no database yet. *)
RestoreInit ==
    /\ pallet \in {0, 1} /\ numbered = pallet /\ everPallet = {pallet} \ {0}
    /\ palletRestore = 0 /\ keptDbs = {} /\ usable = everPallet
    /\ uploads = <<1, "whole">> /\ keptUploads = {}
    /\ restoreStep = "idle" /\ chosen \in Snapshots /\ hadCurrent = FALSE /\ swapped = FALSE
-----------------------------------------------------------------------------
At(step, next) == restoreStep = step /\ restoreStep' = next

StartRestore(s) ==
    /\ At("idle", "stop") /\ numbered < MaxRestores + 1
    /\ chosen' = s /\ hadCurrent' = FALSE /\ swapped' = FALSE
    /\ UNCHANGED <<databases, files>>
(* Caddy and the API stopped; what there is is dumped beside it. *)
StopAndKeep ==
    /\ At("stop", "load")
    /\ hadCurrent' = (pallet # 0)
    /\ UNCHANGED <<databases, files, chosen, swapped>>
(* Into pallet_restore, what was left there dropped. *)
LoadRestore ==
    /\ At("load", "check")
    /\ palletRestore' = numbered + 1 /\ numbered' = numbered + 1
    /\ UNCHANGED <<pallet, keptDbs, usable, everPallet, files, chosen, hadCurrent, swapped>>
CheckRestored ==
    /\ At("check", "swap")
    /\ chosen.loads /\ chosen.sound
    /\ usable' = usable \cup {palletRestore}
    /\ UNCHANGED <<pallet, palletRestore, keptDbs, everPallet, numbered, files, chosen,
                   hadCurrent, swapped>>
DropsCurrent ==                                                     \* mutant
    /\ At("swap", "rename")
    /\ pallet' = 0 /\ swapped' = TRUE
    /\ UNCHANGED <<palletRestore, keptDbs, usable, everPallet, numbered, files, chosen, hadCurrent>>
(* The names are swapped: pallet first, if there was one; then the other. *)
RenameCurrent ==
    /\ At("swap", "rename")
    /\ IF hadCurrent THEN pallet' = 0 /\ keptDbs' = keptDbs \cup {pallet}
                     ELSE UNCHANGED <<pallet, keptDbs>>
    /\ swapped' = TRUE
    /\ UNCHANGED <<palletRestore, usable, everPallet, numbered, files, chosen, hadCurrent>>
RenameRestored ==
    /\ At("rename", "copy")
    /\ pallet = 0
    /\ pallet' = palletRestore /\ palletRestore' = 0
    /\ everPallet' = everPallet \cup {palletRestore}
    /\ UNCHANGED <<keptDbs, usable, numbered, files, chosen, hadCurrent, swapped>>
(* The uploads in place are copied, then replaced, file by file. *)
NoCopy ==                                                           \* mutant
    /\ At("copy", IF chosen.uploads = 0 THEN "start" ELSE "replace")
    /\ UNCHANGED <<databases, files, chosen, hadCurrent, swapped>>
CopyUploads ==
    /\ At("copy", IF chosen.uploads = 0 THEN "start" ELSE "replace")
    /\ keptUploads' = IF chosen.uploads # 0 /\ uploads[2] = "whole"
                      THEN keptUploads \cup {uploads[1]} ELSE keptUploads
    /\ UNCHANGED <<databases, uploads, chosen, hadCurrent, swapped>>
ReplaceUploads ==
    /\ restoreStep = "replace"
    /\ \/ uploads' = <<chosen.uploads, "mixed">> /\ UNCHANGED restoreStep
       \/ uploads' = <<chosen.uploads, "whole">> /\ restoreStep' = "start"
    /\ UNCHANGED <<databases, keptUploads, chosen, hadCurrent, swapped>>
StartAgain ==
    /\ At("start", "idle")
    /\ UNCHANGED <<databases, files, chosen, hadCurrent, swapped>>
(* Any command fails (the trap only says where), or the script is killed. *)
Stopped ==
    /\ restoreStep # "idle" /\ restoreStep' = "idle"
    /\ UNCHANGED <<databases, files, chosen, hadCurrent, swapped>>

RestoreNext ==
    \/ \E s \in Snapshots : StartRestore(s)
    \/ StopAndKeep \/ LoadRestore \/ CheckRestored \/ RenameCurrent \/ RenameRestored
    \/ CopyUploads \/ ReplaceUploads \/ StartAgain \/ Stopped
RestoreSpec == RestoreInit /\ [][RestoreNext]_restoreVars
-----------------------------------------------------------------------------
(* Wherever restores stop, and however often one is run again, no database   *)
(* that was in use is destroyed nor the uploads there were, and only a       *)
(* database found usable ever takes the name.                                *)
NothingDestroyed ==
    /\ everPallet \subseteq keptDbs \cup {pallet}
    /\ 1 \in keptUploads \/ uploads = <<1, "whole">>
    /\ pallet \in usable \cup {0}
=============================================================================
