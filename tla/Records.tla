------------------------------ MODULE Records ------------------------------
(***************************************************************************)
(* A record that several people edit: a customer, a driver, an item, an    *)
(* order's header, a user's cards, the factory's settings. The server      *)
(* (customers, drivers, items, users, settings .service.ts) takes an edit  *)
(* of the version it was made from, under the row's lock, and writes what  *)
(* changed. The screens (the edit pages, their forms, driver-dialog.tsx)   *)
(* hold what they read, and are keyed by its version. An answer may be     *)
(* lost or come after its form is gone.                                    *)
(*                                                                         *)
(* A record has two fields: its phone number, which a save of a customer   *)
(* or driver compares with the others', and its name, for the rest; of a   *)
(* user, the profile card's and the permissions card's.                    *)
(***************************************************************************)
EXTENDS Naturals, FiniteSets

CONSTANTS
    Screens,        \* the tabs records are shown and edited in
    Inputs,         \* what a field may hold
    Taken,          \* the numbers of other records, not shown here
    MaxRecords,     \* rows of the table
    MaxEdition,     \* version up to which others edit; a save here may pass it
    MaxSaves        \* requests under way at once

ASSUME RecordsAssumption ==
    /\ {MaxRecords, MaxEdition, MaxSaves} \subseteq Nat
    /\ Inputs \subseteq Nat /\ \E v \in Inputs : \A w \in Inputs : v <= w

VARIABLES
    kind,           \* what the records are
    records,        \* the rows, NoRecord while unused
    screens,        \* what each tab shows and what was typed into it
    clash,          \* the row whose version conflict a tab is asked about, or 0
    saves           \* the requests under way

recordVars == <<kind, records, screens, clash, saves>>
tables == <<kind, records>>

Kinds   == {"customer", "driver", "item", "order", "user", "settings"}
Fields  == {"phone", "name"}
Ids     == 1 .. MaxRecords
SaveIds == 1 .. MaxSaves
Blank   == CHOOSE v \in Inputs : \A w \in Inputs : v <= w

NoRecord == [fields |-> [f \in Fields |-> Blank], version |-> 0, archived |-> FALSE]
NoSave   == [at |-> "none"]
Away     == [at |-> "away"]

(* Phone numbers are compared with the others' of customers and drivers. *)
ComparesPhones == kind \in {"customer", "driver"}
(* The driver's dialog holds the driver as it was when Edit was pressed. *)
InDialog == kind = "driver"
(* An order's form and a user's cards send what changed; the others all. *)
SendsAll == kind \notin {"order", "user"}
(* Saving a card or the settings leaves its page open.                    *)
KeepsOpen == kind \in {"user", "settings"}
Archives == kind \notin {"user", "settings"}
-----------------------------------------------------------------------------
RecordsInit ==
    /\ kind \in Kinds
    /\ \E used \in SUBSET Ids :
          records = [r \in Ids |-> IF r \in used THEN [NoRecord EXCEPT !.version = 1] ELSE NoRecord]
    /\ screens = [s \in Screens |-> Away]
    /\ clash = [s \in Screens |-> 0]
    /\ saves = [c \in SaveIds |-> NoSave]
-----------------------------------------------------------------------------
(* The screens. *)

Shows(s, r)  == screens[s].at \in {"looking", "editing"} /\ screens[s].id = r
Mine(s)      == {c \in SaveIds : saves[c].at # "none" /\ saves[c].screen = s}
Busy(s, sent) == \E c \in Mine(s) : saves[c].form /\ (kind = "user" => saves[c].sent = sent)
Pending(s)   == \E c \in Mine(s) : saves[c].form

Looking(r, found) == [at |-> "looking", id |-> r, cached |-> found]

(* The form as it mounts over the row read: keyed by its version. *)
Form(r, found, first) ==
    [at |-> "editing", id |-> r, cached |-> found, shown |-> found.fields,
     version |-> found.version, typed |-> found.fields, first |-> first,
     asking |-> FALSE, asked |-> found.fields]

EmptyForm == [Form(0, NoRecord, FALSE) EXCEPT !.at = "new"]

(* What a page makes of the row it reads again: a banner once archived, a  *)
(* new form over another version, and else the form it has.                *)
FormKept(s, found) == [screens[s] EXCEPT !.cached = found, !.first = FALSE]  \* mutant
Remounted(s, found) ==
    IF found.archived THEN Looking(screens[s].id, found)
    ELSE IF found.version # screens[s].version THEN Form(screens[s].id, found, FALSE)
    ELSE [screens[s] EXCEPT !.cached = found, !.first = FALSE]

(* The requests of a form that is gone or mounted anew no longer hold it.  *)
Orphaned(s) ==
    LET now  == screens'[s]
        gone == screens[s].at \in {"editing", "new"}
                /\ ~(now.at = screens[s].at /\ now.shown = screens[s].shown
                     /\ now.version = screens[s].version)
    IN  [c \in SaveIds |-> IF gone /\ c \in Mine(s) THEN [saves[c] EXCEPT !.form = FALSE]
                           ELSE saves[c]]

(* A page over any of these records reads its own again. *)
Refreshed(s) ==
    CASE screens[s].at = "looking" \/ (screens[s].at = "editing" /\ InDialog) ->
           [screens[s] EXCEPT !.cached = records[screens[s].id]]
      [] screens[s].at = "editing" /\ ~InDialog -> Remounted(s, records[screens[s].id])
      [] OTHER -> screens[s]

(* A list or a record's page is opened, and read again whenever the window *)
(* regains focus; a form's page is not (WHILE_EDITING), and the dialog has *)
(* its own copy.                                                           *)
Look(s, r) ==
    /\ screens[s].at = "away" /\ records[r] # NoRecord
    /\ screens' = [screens EXCEPT ![s] = Looking(r, records[r])]
    /\ UNCHANGED <<tables, clash, saves>>

RefocusAny(s) ==  \* mutant
    /\ screens[s].at \in {"looking", "editing"}
    /\ screens[s].cached # records[screens[s].id]
    /\ screens' = [screens EXCEPT ![s] = Refreshed(s)]
    /\ saves' = Orphaned(s)
    /\ UNCHANGED <<tables, clash>>
Refocus(s) ==
    /\ screens[s].at = "looking" \/ (screens[s].at = "editing" /\ InDialog)
    /\ screens[s].cached # records[screens[s].id]
    /\ screens' = [screens EXCEPT ![s].cached = records[screens[s].id]]
    /\ UNCHANGED <<tables, clash, saves>>

(* The form opens on what is cached, and a page's query reads the record   *)
(* once more as it mounts.                                                 *)
OpenForm(s) ==
    /\ screens[s].at = "looking" /\ ~screens[s].cached.archived
    /\ screens' = [screens EXCEPT ![s] = Form(screens[s].id, screens[s].cached, ~InDialog)]
    /\ UNCHANGED <<tables, clash, saves>>

FirstRead(s) ==
    /\ screens[s].at = "editing" /\ screens[s].first
    /\ screens' = [screens EXCEPT ![s] = Refreshed(s)]
    /\ saves' = Orphaned(s)
    /\ UNCHANGED <<tables, clash>>

OpenNew(s) ==
    /\ screens[s].at = "away" /\ kind \notin {"order", "settings"}
    /\ screens' = [screens EXCEPT ![s] = EmptyForm]
    /\ UNCHANGED <<tables, clash, saves>>

TypeInto(s, f, v) ==
    /\ screens[s].at \in {"editing", "new"} /\ ~screens[s].asking
    /\ screens[s].typed[f] # v
    /\ screens' = [screens EXCEPT ![s].typed[f] = v]
    /\ UNCHANGED <<tables, clash, saves>>

(* Leaving asks first when there is something typed; the dialog stays while *)
(* its save is on its way.                                                  *)
Leave(s) ==
    /\ screens[s].at # "away"
    /\ ~(InDialog /\ screens[s].at \in {"editing", "new"} /\ Pending(s))
    /\ screens' = [screens EXCEPT ![s] = Away]
    /\ saves' = Orphaned(s)
    /\ UNCHANGED <<tables, clash>>
-----------------------------------------------------------------------------
(* The requests. *)

(* The version an edit names: its page's, which the form is keyed by, or   *)
(* the dialog's own copy's.                                                *)
LiveVersion(s) == screens[s].cached.version  \* mutant
NamedVersion(s) ==
    IF InDialog /\ screens[s].at = "editing" THEN screens[s].version
    ELSE screens[s].cached.version

SendRequest(s, op, sent, body, confirm) ==
    \E c \in SaveIds :
        /\ saves[c] = NoSave /\ (\A d \in 1 .. c - 1 : saves[d] # NoSave)
        /\ saves' = [saves EXCEPT ![c] =
              [at |-> "sent", screen |-> s, form |-> screens[s].at # "looking", heard |-> TRUE, op |-> op,
               id |-> screens[s].id, sent |-> sent, body |-> body, confirm |-> confirm,
               version |-> NamedVersion(s),
               seen |-> IF screens[s].at = "looking" THEN NoRecord.fields ELSE screens[s].shown]]

(* The fields a press of Save sends: all of them; those of an order that   *)
(* changed; a user's card's own, the permissions' set even unchanged.      *)
Edited(s)    == {f \in Fields : screens[s].typed[f] # screens[s].shown[f]}
OrderSends(s) == {Edited(s)} \ {{}}
CardsSend(s) == {{f} : f \in Edited(s)} \cup {{"name"}}
Sendable(s) ==
    IF screens[s].at = "new" \/ SendsAll THEN {Fields}
    ELSE IF kind = "order" THEN OrderSends(s) ELSE CardsSend(s)

SaveForm(s) ==
    /\ screens[s].at \in {"editing", "new"} /\ ~screens[s].asking
    /\ \E sent \in Sendable(s) :
          /\ ~Busy(s, sent)
          /\ SendRequest(s, IF screens[s].at = "new" THEN "create" ELSE "update", sent,
                     screens[s].typed, FALSE)
    /\ UNCHANGED <<tables, screens, clash>>

(* The number is another's: saved all the same, as it was typed then, or   *)
(* back to the form.                                                       *)
SaveAnyway(s) ==
    /\ screens[s].at \in {"editing", "new"} /\ screens[s].asking /\ ~Pending(s)
    /\ SendRequest(s, IF screens[s].at = "new" THEN "create" ELSE "update", Fields,
               screens[s].asked, TRUE)
    /\ UNCHANGED <<tables, screens, clash>>
BackToForm(s) ==
    /\ screens[s].at \in {"editing", "new"} /\ screens[s].asking /\ ~Pending(s)
    /\ screens' = [screens EXCEPT ![s].asking = FALSE, ![s].asked = screens[s].shown]
    /\ UNCHANGED <<tables, clash, saves>>

(* A customer, driver or item is archived, an order cancelled, as it is    *)
(* shown; a user's password is reset, whatever the version.                *)
PressArchive(s) ==
    /\ screens[s].at = "looking" /\ Archives /\ ~screens[s].cached.archived
    /\ Mine(s) = {}
    /\ SendRequest(s, "archive", {}, NoRecord.fields, FALSE)
    /\ UNCHANGED <<tables, screens, clash>>
ResetPassword(s) ==
    /\ screens[s].at = "editing" /\ kind = "user" /\ Mine(s) = {}
    /\ SendRequest(s, "reset", {}, NoRecord.fields, FALSE)
    /\ UNCHANGED <<tables, screens, clash>>
-----------------------------------------------------------------------------
(* The server. An update or archive holds its row's lock from its read to  *)
(* its commit; a create compares numbers before its transaction.           *)

NoLock(r) == TRUE  \* mutant
RowFree(r) ==
    ~\E c \in SaveIds : saves[c].at = "checked" /\ saves[c].id = r /\ saves[c].op # "create"

ChangedBy(c) ==
    {f \in saves[c].sent : saves[c].body[f] # records[saves[c].id].fields[f]}

(* Another row, archived or not, holds the number being saved.             *)
NumberTaken(c) ==
    /\ ComparesPhones /\ ~saves[c].confirm
    /\ saves[c].op = "create" \/ "phone" \in ChangedBy(c)
    /\ \/ saves[c].body.phone \in Taken
       \/ \E r \in Ids \ {saves[c].id} : /\ records[r] # NoRecord
                                         /\ records[r].fields.phone = saves[c].body.phone

(* setPermissions writes a set that is the same, every other edit nothing. *)
WritesUnchanged(c) == kind = "user" /\ saves[c].sent = {"name"}

(* assertVersion *)
AnyVersion(c) == TRUE  \* mutant
VersionHolds(c) == records[saves[c].id].version = saves[c].version

Verdict(c) ==
    IF saves[c].op = "create" THEN IF NumberTaken(c) THEN "duplicate" ELSE "go"
    ELSE IF kind # "order" /\ records[saves[c].id].archived THEN "archived"
    ELSE IF saves[c].op # "reset" /\ ~VersionHolds(c) THEN "conflict"
    ELSE IF records[saves[c].id].archived THEN "archived"
    ELSE IF saves[c].op = "update" /\ ChangedBy(c) = {} /\ ~WritesUnchanged(c) THEN "saved"
    ELSE IF saves[c].op = "update" /\ NumberTaken(c) THEN "duplicate"
    ELSE "go"

(* An answer nobody waits for is dropped. *)
Answer(save, answer, id) ==
    IF ~save.heard THEN NoSave
    ELSE [at |-> "answered", screen |-> save.screen, form |-> save.form, op |-> save.op, id |-> id,
          sent |-> save.sent, answer |-> answer,
          body |-> IF answer = "duplicate" THEN save.body ELSE NoRecord.fields]
Answered(c, answer, id) == [saves EXCEPT ![c] = Answer(saves[c], answer, id)]

Judge(c) ==
    /\ saves[c].at = "sent"
    /\ saves[c].op = "create" \/ RowFree(saves[c].id)
    /\ saves' = IF Verdict(c) = "go" THEN [saves EXCEPT ![c].at = "checked"]
                ELSE Answered(c, Verdict(c), saves[c].id)
    /\ UNCHANGED <<tables, screens, clash>>

(* Only the fields that changed are written. *)
Written(c, row) ==
    [fields   |-> [f \in Fields |-> IF f \in ChangedBy(c) THEN saves[c].body[f] ELSE row.fields[f]],
     version  |-> row.version + 1,
     archived |-> row.archived \/ saves[c].op = "archive"]
WriteRecord(c) ==
    LET r == saves[c].id
    IN  /\ records[r].version <= MaxEdition
        /\ records' = [records EXCEPT ![r] = Written(c, records[r])]
        /\ saves' = Answered(c, "saved", r)

InsertRecord(c) ==
    \E r \in Ids :
        /\ records[r] = NoRecord /\ (\A q \in 1 .. r - 1 : records[q] # NoRecord)
        /\ records' = [records EXCEPT ![r] =
              [fields |-> saves[c].body, version |-> 1, archived |-> FALSE]]
        /\ saves' = Answered(c, "saved", r)

CommitSave(c) ==
    /\ saves[c].at = "checked"
    /\ IF saves[c].op = "create" THEN InsertRecord(c) ELSE WriteRecord(c)
    /\ UNCHANGED <<kind, screens, clash>>

(* The transaction ends in an error, or its time runs out. *)
RollBack(c) ==
    /\ saves[c].at = "checked"
    /\ saves' = Answered(c, "error", saves[c].id)
    /\ UNCHANGED <<tables, screens, clash>>

(* Somebody at another tab saves or archives meanwhile: what their requests *)
(* come to here, under the same lock and rules.                             *)
EditedElsewhere(r) ==
    /\ RowFree(r)
    /\ records[r] # NoRecord /\ ~records[r].archived /\ records[r].version < MaxEdition
    /\ \E fields \in [Fields -> Inputs], archived \in {FALSE, Archives} :
          /\ archived = (fields = records[r].fields)
          /\ records' = [records EXCEPT ![r] =
                [fields |-> fields, version |-> records[r].version + 1, archived |-> archived]]
    /\ UNCHANGED <<kind, screens, clash, saves>>
-----------------------------------------------------------------------------
(* The answers. *)

(* The browser gives up on a request; the server does not.                 *)
LoseAnswer(c) ==
    /\ saves[c].at \in {"sent", "checked"} /\ saves[c].heard
    /\ saves' = [saves EXCEPT ![c].heard = FALSE, ![c].form = FALSE]
    /\ UNCHANGED <<tables, screens, clash>>

Unsaved(screen) == screen.at \in {"editing", "new"} /\ screen.typed # screen.shown

(* Saved: everything shown is read again, and a form that is done gives    *)
(* way to the record; so does whatever the tab shows by then, unless asked *)
(* to stay for what is typed in it. An order's form that was left, a card  *)
(* and the settings go nowhere.                                            *)
AfterSave(s, c) ==
    LET toRecord == Looking(saves[c].id, records[saves[c].id])
    IN  CASE saves[c].form /\ ~KeepsOpen -> toRecord
          [] saves[c].op = "archive" /\ InDialog /\ screens[s].at = "editing" ->
               Looking(screens[s].id, records[screens[s].id])
          [] saves[c].op \in {"archive", "reset"} \/ kind \in {"order", "settings"}
               \/ (kind = "user" /\ saves[c].op = "update") -> Refreshed(s)
          [] OTHER -> IF Unsaved(Refreshed(s)) THEN Refreshed(s) ELSE toRecord

AfterAnswer(s, c) ==
    CASE saves[c].answer = "saved" -> AfterSave(s, c)
      [] saves[c].answer = "duplicate" /\ saves[c].form ->
           [screens[s] EXCEPT !.asking = TRUE, !.asked = saves[c].body]
      [] saves[c].op = "archive" /\ InDialog /\ screens[s].at = "editing"
           /\ saves[c].answer # "saved" -> Looking(screens[s].id, screens[s].cached)
      [] OTHER -> screens[s]

Hear(c) ==
    /\ saves[c].at = "answered"
    /\ LET s == saves[c].screen
       IN  /\ screens' = [screens EXCEPT ![s] = AfterAnswer(s, c)]
           /\ clash' = IF saves[c].answer = "conflict"
                       THEN [clash EXCEPT ![s] = saves[c].id] ELSE clash
           /\ saves' = [Orphaned(s) EXCEPT ![c] = NoSave]
    /\ UNCHANGED tables

(* Reload: the page reads the record again, and the dialog closes.         *)
Reloaded(s) ==
    IF ~Shows(s, clash[s]) THEN screens[s]
    ELSE IF InDialog THEN Looking(clash[s], records[clash[s]]) ELSE Refreshed(s)
Reload(s) ==
    /\ clash[s] # 0
    /\ clash' = [clash EXCEPT ![s] = 0]
    /\ screens' = [screens EXCEPT ![s] = Reloaded(s)]
    /\ saves' = Orphaned(s)
    /\ UNCHANGED tables
KeepEditing(s) ==
    /\ clash[s] # 0
    /\ clash' = [clash EXCEPT ![s] = 0]
    /\ UNCHANGED <<tables, screens, saves>>
-----------------------------------------------------------------------------
(* The version conflict is asked about before anything else. *)
Press(s) ==
    /\ clash[s] = 0
    /\ \/ \E r \in Ids : Look(s, r)
       \/ OpenForm(s) \/ OpenNew(s) \/ Leave(s)
       \/ \E f \in Fields, v \in Inputs : TypeInto(s, f, v)
       \/ SaveForm(s) \/ SaveAnyway(s) \/ BackToForm(s)
       \/ PressArchive(s) \/ ResetPassword(s)

RecordsNext ==
    \/ \E s \in Screens : Press(s) \/ Refocus(s) \/ FirstRead(s) \/ Reload(s) \/ KeepEditing(s)
    \/ \E r \in Ids : EditedElsewhere(r)
    \/ \E c \in SaveIds : Judge(c) \/ CommitSave(c) \/ RollBack(c) \/ LoseAnswer(c) \/ Hear(c)
RecordsSpec == RecordsInit /\ [][RecordsNext]_recordVars
-----------------------------------------------------------------------------
(* Nothing is lost unseen. An edit goes through only over the record its   *)
(* form showed: what another changed meanwhile is never overwritten, nor by *)
(* a lost save sent again. And what is typed into a form is not wiped by a  *)
(* record read again behind it, but for the read of the page as it opens,   *)
(* the reload asked for, and the tab's own save or archive.                 *)
NothingLostUnseen ==
    /\ [][\A c \in SaveIds :
             (saves[c].at = "checked" /\ saves[c].op = "update" /\ records' # records
                /\ saves'[c] # saves[c]) =>
             saves[c].seen = records[saves[c].id].fields]_recordVars
    /\ [][\A s \in Screens :
             (Unsaved(screens[s]) /\ screens'[s].at # "away"
                /\ ~(screens'[s].at = screens[s].at /\ screens'[s].shown = screens[s].shown
                      /\ screens'[s].version = screens[s].version)) =>
             \/ screens[s].first
             \/ clash[s] # 0 /\ clash'[s] = 0
             \/ \E c \in Mine(s) : saves[c].at = "answered" /\ saves'[c] # saves[c]
                                  /\ (saves[c].answer = "saved" \/ saves[c].op = "archive")]_recordVars
=============================================================================
