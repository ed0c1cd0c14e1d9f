------------------------------ MODULE Printing ------------------------------
(***************************************************************************)
(* Receipts printed from one tab: a press of a print button reads the      *)
(* receipt, draws it into an unseen frame and prints that, on the page the *)
(* user is on. A press replaces the one being prepared, but cannot call    *)
(* back what that one set going: its read, which a press for the same      *)
(* receipt shares, and the print that waits for styles and fonts, whose    *)
(* frame is gone when they are there. Beside it a receipt's own page, in a *)
(* tab of its own, which prints once by itself, when logo and fonts are    *)
(* there, and at a press what it then reads; its edition is what the       *)
(* receipt says, which others change meanwhile.                            *)
(***************************************************************************)
EXTENDS Integers

CONSTANTS
    Receipts,           \* receipts that may be printed
    MaxPresses,         \* bound on presses
    MaxReissues,        \* bound on changes of what the page's receipt says
    MaxVisits           \* bound on the times the app's layout is entered

ASSUME PrintingAssumption ==
    Receipts # {} /\ {MaxPresses, MaxReissues, MaxVisits} \subseteq Nat

VARIABLES
    signedIn,           \* a session is open in the tab
    visit,              \* how often the layout was entered, and whether it is mounted
    codeLoaded,         \* the receipts' code has arrived
    jobs,               \* the presses, by number: what each draws and where it stands
    current,            \* the press asked for last, 0 none
    preparing,          \* the press whose button shows a spinner, 0 none
    notice,             \* the press that opened the notice shown, 0 none
    edition,            \* what the page's receipt says now
    reads,              \* the read of each receipt that is on its way
    ownPage             \* a receipt's own page: its read, its answer, what it shows

printVars == <<signedIn, visit, codeLoaded, jobs, current, preparing, notice, edition,
               reads, ownPage>>

Presses  == 1 .. MaxPresses
UnderWay == {"loading", "reading", "drawn", "settling"}
NoPress  == [receipt |-> CHOOSE r \in Receipts : TRUE, stage |-> "none", visit |-> 0,
             printedIn |-> 0, prints |-> 0]
NewPage  == [at |-> "sent", says |-> 0, answer |-> -1, outcome |-> "none", rendered |-> TRUE,
             shows |-> -1, first |-> "unready", reprint |-> -1,
             newest |-> -1, stalePaper |-> FALSE]

PrintingInit ==
    /\ signedIn = TRUE /\ visit = [number |-> 1, mounted |-> TRUE] /\ codeLoaded = FALSE
    /\ jobs = [j \in Presses |-> NoPress]
    /\ current = 0 /\ preparing = 0 /\ notice = 0
    /\ reads = [r \in Receipts |-> "none"]
    /\ edition = 0 /\ ownPage = NewPage
-----------------------------------------------------------------------------
pressed == <<current, preparing, notice>>

(* Whether press j's end closes the notice and the spinner.                 *)
FinishesAny(j) == preparing # 0                                     \* mutant
Finishes(j) == preparing = j
FinishPrintJob(j) ==
    /\ preparing' = IF Finishes(j) THEN 0 ELSE preparing
    /\ notice'    = IF Finishes(j) THEN 0 ELSE notice

(* A press no longer drawn: its read tells nobody; a print that waits for   *)
(* fonts goes on, without the frame it would print.                         *)
Unmounted(job) ==
    [job EXCEPT !.stage = IF @ = "settling" THEN "adrift"
                          ELSE IF @ \in UnderWay THEN "dropped" ELSE @]
(* A press drawn: it reads its receipt, or joins the read on its way.       *)
Mounted(job) == [job EXCEPT !.stage = IF codeLoaded THEN "reading" ELSE "loading"]
(* Without a session the API bars it. *)
ReadsWith(r) ==
    [reads EXCEPT ![r] = IF @ # "none" THEN @ ELSE IF signedIn THEN "sent" ELSE "barred"]

PrintRequest(r) ==
    /\ visit.mounted
    /\ \E j \in Presses :
          /\ jobs[j].stage = "none" /\ \A k \in 1 .. j - 1 : jobs[k].stage # "none"
          /\ jobs' = [k \in Presses |->
                IF k = j THEN Mounted([NoPress EXCEPT !.receipt = r, !.visit = visit.number])
                ELSE IF k = current THEN Unmounted(jobs[k]) ELSE jobs[k]]
          /\ current' = j /\ preparing' = j
          /\ notice' = IF notice = 0 THEN j ELSE notice
    /\ reads' = IF codeLoaded THEN ReadsWith(r) ELSE reads
    /\ UNCHANGED <<signedIn, visit, codeLoaded, edition, ownPage>>

CodeArrives ==
    /\ ~codeLoaded /\ codeLoaded' = TRUE
    /\ jobs[1].stage # "none"
    /\ jobs' = [j \in Presses |->
          IF jobs[j].stage = "loading" THEN [jobs[j] EXCEPT !.stage = "reading"] ELSE jobs[j]]
    /\ reads' = IF current # 0 THEN ReadsWith(jobs[current].receipt) ELSE reads
    /\ UNCHANGED <<signedIn, visit, pressed, edition, ownPage>>

(* The press drawn at the moment is the only one an answer is drawn for.    *)
Waits(j, r) == jobs[j].stage = "reading" /\ jobs[j].receipt = r
ReadArrives(r) ==
    /\ reads[r] = "sent"
    /\ reads' = [reads EXCEPT ![r] = "none"]
    /\ jobs' = [j \in Presses |->
          IF Waits(j, r) THEN [jobs[j] EXCEPT !.stage = "drawn"] ELSE jobs[j]]
    /\ UNCHANGED <<signedIn, visit, codeLoaded, pressed, edition, ownPage>>
(* The reads in R fail; none is tried again.                                *)
ReadsFail(R) ==
    /\ reads' = [r \in Receipts |-> IF r \in R THEN "none" ELSE reads[r]]
    /\ jobs' = [j \in Presses |->
          IF \E r \in R : Waits(j, r) THEN [jobs[j] EXCEPT !.stage = "failed"] ELSE jobs[j]]
    /\ IF \E r \in R : current # 0 /\ Waits(current, r)
       THEN FinishPrintJob(current)
       ELSE UNCHANGED <<preparing, notice>>
    /\ UNCHANGED current
ReadFails(r) ==
    /\ reads[r] # "none"
    /\ ReadsFail({r})
    /\ UNCHANGED <<signedIn, visit, codeLoaded, edition, ownPage>>

(* The frame, its paper and the logo, or ten seconds without it.            *)
PaperReady(j) ==
    /\ jobs[j].stage = "drawn"
    /\ jobs' = [jobs EXCEPT ![j].stage = "settling"]
    /\ UNCHANGED <<signedIn, visit, codeLoaded, pressed, edition, reads, ownPage>>
(* Styles and fonts are there.                                              *)
FramePrinted(job) ==
    IF job.stage = "adrift" THEN [job EXCEPT !.stage = "dropped"]
    ELSE [job EXCEPT !.stage = "printed", !.prints = @ + 1, !.printedIn = visit.number]
PrintFrame(j) ==
    /\ jobs[j].stage \in {"settling", "adrift"}
    /\ jobs' = [jobs EXCEPT ![j] = FramePrinted(@)]
    /\ FinishPrintJob(j)
    /\ UNCHANGED <<signedIn, visit, codeLoaded, current, edition, reads, ownPage>>

(* The session ends: the cache is emptied, and the layout is left next.     *)
EndSession ==
    /\ signedIn /\ signedIn' = FALSE
    /\ ReadsFail(Receipts)
    /\ UNCHANGED <<visit, codeLoaded, edition, ownPage>>
KeepsPrintJob == UNCHANGED pressed                                  \* mutant
ClearPrintJob == current' = 0 /\ preparing' = 0 /\ notice' = 0
LeaveLayout ==
    /\ visit.mounted /\ visit' = [visit EXCEPT !.mounted = FALSE]
    /\ jobs' = [j \in Presses |-> IF j = current THEN Unmounted(jobs[j]) ELSE jobs[j]]
    /\ ClearPrintJob
    /\ UNCHANGED <<signedIn, codeLoaded, edition, reads, ownPage>>
EnterLayout ==
    /\ ~visit.mounted /\ visit.number < MaxVisits
    /\ visit' = [number |-> visit.number + 1, mounted |-> TRUE]
    /\ signedIn' = TRUE
    /\ jobs' = [j \in Presses |-> IF j = current THEN Mounted(jobs[j]) ELSE jobs[j]]
    /\ reads' = IF current # 0 /\ codeLoaded THEN ReadsWith(jobs[current].receipt) ELSE reads
    /\ UNCHANGED <<codeLoaded, pressed, edition, ownPage>>

-----------------------------------------------------------------------------
(* A receipt's own page. *)
inPlace == <<signedIn, visit, codeLoaded, jobs, pressed, reads>>
Reissue ==
    /\ edition < MaxReissues /\ edition' = edition + 1
    /\ UNCHANGED <<inPlace, ownPage>>
(* What the page shows is printed, for a press made when the receipt was at *)
(* an edition; history: the newest paper, and one older than the press it   *)
(* was for or than a paper before it. A refusal on the page is no paper.    *)
Prints(p, asked) ==
    IF p.shows = -1 THEN p
    ELSE [p EXCEPT !.stalePaper = @ \/ p.shows < asked \/ p.shows < p.newest,
                   !.newest = p.shows]

PageServed ==
    /\ ownPage.at = "sent"
    /\ ownPage' = [ownPage EXCEPT !.at = "served", !.says = edition]
    /\ UNCHANGED <<inPlace, edition>>
PrintsAtOnce(p) == IF p.reprint = -1 THEN p ELSE Prints(p, p.reprint)   \* mutant
AtTheAnswer(p) == p
PageAnswered ==
    /\ ownPage.at = "served"
    /\ ownPage' = AtTheAnswer([ownPage EXCEPT !.at = "none", !.answer = ownPage.says,
                                             !.outcome = "answered", !.rendered = FALSE])
    /\ UNCHANGED <<inPlace, edition>>
(* A lost connection, or the answer that there is no such receipt any more. *)
PageReadFails ==
    /\ ownPage.at # "none"
    /\ \E outcome \in {"failed", "refused"} :
          ownPage' = [ownPage EXCEPT !.at = "none", !.outcome = outcome, !.rendered = FALSE]
    /\ UNCHANGED <<inPlace, edition>>
(* React puts the answer on the page, and a refusal in its place. What a    *)
(* reprint waited for prints then, unless its read failed; the first answer *)
(* begins the wait of the page's own paper.                                 *)
Rendered(p) ==
    [p EXCEPT !.rendered = TRUE,
              !.shows = IF p.outcome = "refused" THEN -1 ELSE p.answer,
              !.first = IF @ = "unready" /\ p.answer # -1 THEN "gated" ELSE @]
ReprintsAnyway(p) ==                                                \* mutant
    IF p.reprint # -1 /\ p.at = "none" THEN [Prints(p, p.reprint) EXCEPT !.reprint = -1] ELSE p
Reprinted(p) ==
    IF p.reprint # -1 /\ p.at = "none"
    THEN [(IF p.outcome = "answered" THEN Prints(p, p.reprint) ELSE p) EXCEPT !.reprint = -1]
    ELSE p
PageRenders ==
    /\ ~ownPage.rendered
    /\ ownPage' = Reprinted(Rendered(ownPage))
    /\ UNCHANGED <<inPlace, edition>>
(* The logo is there, or there is none, or ten seconds are over: the page   *)
(* prints itself, once, as soon as its fonts are there too.                 *)
PageLogoReady ==
    /\ ownPage.first = "gated"
    /\ ownPage' = [ownPage EXCEPT !.first = "settling"]
    /\ UNCHANGED <<inPlace, edition>>
(* The fonts are there: what the page shows by now is printed, though a     *)
(* press may wait for its own paper, and its read may have failed.          *)
FirstPrint ==
    /\ ownPage.first = "settling"
    /\ ownPage' = [Prints(ownPage, -1) EXCEPT !.first = "printed"]
    /\ UNCHANGED <<inPlace, edition>>
(* The print button, pressable once there is a receipt and while none is    *)
(* being read, the page's own paper printed or not.                         *)
PageReprint ==
    /\ ownPage.rendered /\ ownPage.first # "unready" /\ ownPage.at = "none"
    /\ ownPage' = [ownPage EXCEPT !.reprint = edition, !.at = "sent"]
    /\ UNCHANGED <<inPlace, edition>>
(* The tab is looked at again, or the read is retried after a failure.      *)
PageReadAgain ==
    /\ ownPage.at = "none" /\ ownPage' = [ownPage EXCEPT !.at = "sent"]
    /\ UNCHANGED <<inPlace, edition>>
-----------------------------------------------------------------------------
InPlaceNext ==
    \/ \E r \in Receipts : PrintRequest(r) \/ ReadArrives(r) \/ ReadFails(r)
    \/ \E j \in Presses : PaperReady(j) \/ PrintFrame(j)
    \/ CodeArrives \/ EndSession \/ LeaveLayout \/ EnterLayout
OwnPageNext ==
    \/ PageServed \/ PageAnswered \/ PageReadFails \/ PageRenders \/ PageLogoReady \/ FirstPrint
    \/ PageReprint \/ PageReadAgain \/ Reissue
PrintingSpec == PrintingInit /\ [][InPlaceNext \/ OwnPageNext]_printVars
-----------------------------------------------------------------------------
(* Each press prints at most once, only during the visit to the app it was  *)
(* made in and only if no later press replaced it; the notice and the       *)
(* spinner are there exactly while the last press is being read and drawn,  *)
(* whatever an earlier press set going still does; nothing is left for the  *)
(* next session to print. On the receipt's own page the paper of a press is *)
(* never older than the press, and no paper is older than one that came out *)
(* before it, though the page's own, which waits for logo and fonts, may    *)
(* come out at any time beside them. (print-receipt.ts, print-job.tsx,      *)
(* receipt-printer.tsx, receipt-print-page.tsx, auto-print.ts)              *)
EachPressPrintsOnce ==
    /\ \A j \in Presses :
          /\ jobs[j].prints <= 1
          /\ jobs[j].prints = 1 => jobs[j].printedIn = jobs[j].visit
          /\ jobs[j].stage \in UnderWay => j = current
    /\ preparing # 0 <=> notice # 0
    /\ preparing # 0 <=> current # 0 /\ jobs[current].stage \in UnderWay
    /\ preparing \in {0, current}
    /\ ~visit.mounted => current = 0
    /\ ~ownPage.stalePaper
=============================================================================
