------------------------------ MODULE OrderPage ------------------------------
(***************************************************************************)
(* What one tab does to an order: a payment, a pallet given back, the      *)
(* correction of a return, the deletion of a return or of a payment, the   *)
(* cancellation. Every form is filled from what the tab last read; answers *)
(* are lost, late, or refusals because others were first; the order is     *)
(* read again under a form whenever the tab is looked at. A payment and a  *)
(* give-back are told from their repeats by a key, the others by the row   *)
(* they reverse or the version they cancel. What the rows do to the        *)
(* figures is the lending core's; here a return moves none.                *)
(***************************************************************************)
EXTENDS Integers, Sequences

CONSTANTS
    MostOwed,       \* what is owed at most, and how many pallets to the customer
    MaxAsked,       \* bound on requests
    MaxRetyped,     \* bound on amounts typed
    MaxMeanwhile    \* bound on what others do

ASSUME OrderPageAssumption == {MostOwed, MaxAsked, MaxRetyped, MaxMeanwhile} \subseteq Nat

VARIABLES
    books,          \* the server's: figures, standing rows, version
    seen,           \* the tab's copy
    dialog,         \* the form or dialog open: its amount and the row it is about
    kept,           \* the key the form keeps, and the amount it is for
    asked,          \* the requests, with what became of each
    awaiting,       \* those whose answers are waited for
    opened,         \* how often a form or dialog was opened
    retyped,        \* how often an amount was typed
    meanwhile       \* how often others did something

orderPageVars == <<books, seen, dialog, kept, asked, awaiting, opened, retyped, meanwhile>>

Keyed     == {"payment", "giveBack"}
Flows     == {"payment", "correct"}             \* pages of their own, with a saved dialog
Confirmed == {"deleteReturn", "deletePayment", "cancel"}
NoDialog  == [kind |-> "none", amount |-> 0, about |-> 0, opening |-> 0]
NoneKept  == [key |-> 0, amount |-> 0]

(* An order with a payment of 1 and one return; more is owed either way.    *)
OrderPageInit ==
    /\ books = [owed |-> MostOwed, credit |-> MostOwed, return |-> 1, payments |-> {0},
              version |-> 0, cancelled |-> FALSE]
    /\ seen = books /\ dialog = NoDialog /\ kept = NoneKept
    /\ asked = << >> /\ awaiting = {} /\ opened = 0 /\ retyped = 0 /\ meanwhile = 0
-----------------------------------------------------------------------------
Payable(order)     == order.owed > 0 /\ ~order.cancelled
Cancellable(order) == ~order.cancelled /\ order.return = 0 /\ order.payments = {}

Opened(kind, amount, about) ==
    /\ dialog.kind = "none" /\ opened < MaxAsked
    /\ dialog' = [kind |-> kind, amount |-> amount, about |-> about, opening |-> opened + 1]
    /\ opened' = opened + 1 /\ kept' = NoneKept
    /\ UNCHANGED <<books, seen, asked, awaiting, retyped, meanwhile>>
OpenPayment       == Payable(seen) /\ Opened("payment", seen.owed, 0)
OpenGiveBack      == seen.credit > 0 /\ Opened("giveBack", seen.credit, 0)
OpenCorrection    == seen.return # 0 /\ ~seen.cancelled /\ Opened("correct", 0, seen.return)
ConfirmDeleting   == seen.return # 0 /\ ~seen.cancelled /\ Opened("deleteReturn", 0, seen.return)
ConfirmUnpaying(p) == p \in seen.payments /\ ~seen.cancelled /\ Opened("deletePayment", 0, p)
ConfirmCancel     == Cancellable(seen) /\ Opened("cancel", 0, 0)

Retype(amount) ==
    /\ dialog.kind \in Keyed /\ amount # dialog.amount /\ retyped < MaxRetyped
    /\ dialog' = [dialog EXCEPT !.amount = amount] /\ retyped' = retyped + 1
    /\ UNCHANGED <<books, seen, kept, asked, awaiting, opened, meanwhile>>

(* Refused as typed: more than is owed, as the tab last read it. *)
AmountFits ==
    CASE dialog.kind = "payment"  -> dialog.amount \in 1 .. seen.owed
      [] dialog.kind = "giveBack" -> dialog.amount \in 1 .. seen.credit
      [] dialog.kind \in Confirmed \cup {"correct"} -> TRUE
      [] OTHER -> FALSE
(* A form's request is its own, a confirmation's the page's: one at a time. *)
AskedAlready(kind, opening) ==
    \E n \in awaiting :
        asked[n].kind = kind /\ (kind \in Confirmed \/ asked[n].opening = opening)
NewKeyEachTime == [key |-> Len(asked) + 1, amount |-> dialog.amount]  \* mutant
PaysBy ==
    IF kept.key # 0 /\ kept.amount = dialog.amount THEN kept
    ELSE [key |-> Len(asked) + 1, amount |-> dialog.amount]
AskServer ==
    /\ AmountFits /\ ~AskedAlready(dialog.kind, dialog.opening) /\ Len(asked) < MaxAsked
    /\ kept' = IF dialog.kind \in Keyed THEN PaysBy ELSE kept
    /\ asked' = Append(asked,
          [kind |-> dialog.kind, amount |-> dialog.amount, opening |-> dialog.opening,
           about |-> IF dialog.kind = "cancel" THEN seen.version ELSE dialog.about,
           key |-> kept'.key, typed |-> retyped, outcome |-> "sent", shown |-> "no"])
    /\ awaiting' = awaiting \cup {Len(asked) + 1}
    /\ UNCHANGED <<books, seen, dialog, opened, retyped, meanwhile>>
-----------------------------------------------------------------------------
(* The server. *)
Repeated(n) ==
    asked[n].kind \in Keyed /\ \E m \in 1 .. Len(asked) :
        asked[m].outcome = "done" /\ asked[m].key = asked[n].key
StandsOrNot(ask) == TRUE                                            \* mutant
StillStands(ask) ==
    IF ask.kind = "deletePayment" THEN ask.about \in books.payments ELSE books.return = ask.about
ServerAllows(ask) ==
    CASE ask.kind = "payment"  -> ~books.cancelled /\ ask.amount <= books.owed
      [] ask.kind = "giveBack" -> ask.amount <= books.credit
      [] ask.kind = "cancel"   -> ask.about = books.version /\ Cancellable(books)
      [] OTHER                 -> StillStands(ask)
AmountOf(p) == IF p = 0 THEN 1 ELSE asked[p].amount
BooksAfter(n) ==
    LET ask == asked[n] IN
    CASE ask.kind = "payment" ->
            [books EXCEPT !.owed = @ - ask.amount, !.payments = @ \cup {n}]
      [] ask.kind = "giveBack" -> [books EXCEPT !.credit = @ - ask.amount]
      [] ask.kind = "correct" -> [books EXCEPT !.return = n + 1]
      [] ask.kind = "deleteReturn" -> [books EXCEPT !.return = 0]
      [] ask.kind = "deletePayment" ->
            [books EXCEPT !.owed = @ + AmountOf(ask.about), !.payments = @ \ {ask.about}]
      [] ask.kind = "cancel" -> [books EXCEPT !.cancelled = TRUE, !.version = @ + 1]
ServeAsked(n) ==
    /\ asked[n].outcome = "sent"
    /\ LET outcome == IF Repeated(n) THEN "repeated"
                      ELSE IF ServerAllows(asked[n]) THEN "done" ELSE "refused"
       IN  /\ asked' = [asked EXCEPT ![n].outcome = outcome]
           /\ books' = IF outcome = "done" THEN BooksAfter(n) ELSE books
    /\ UNCHANGED <<seen, dialog, kept, awaiting, opened, retyped, meanwhile>>
AskedFails(n) ==
    /\ asked[n].outcome = "sent" /\ asked' = [asked EXCEPT ![n].outcome = "failed"]
    /\ UNCHANGED <<books, seen, dialog, kept, awaiting, opened, retyped, meanwhile>>

(* Another tab or user. *)
Meanwhile ==
    /\ meanwhile < MaxMeanwhile /\ meanwhile' = meanwhile + 1 /\ ~books.cancelled
    /\ \/ books.owed > 0 /\ books' = [books EXCEPT !.owed = @ - 1]
       \/ books.credit > 0 /\ books' = [books EXCEPT !.credit = @ - 1]
       \/ books.return # 0 /\ books' = [books EXCEPT !.return = 0]
       \/ \E p \in books.payments :
             books' = [books EXCEPT !.owed = @ + AmountOf(p), !.payments = @ \ {p}]
       \/ books' = [books EXCEPT !.version = @ + 1]
    /\ UNCHANGED <<seen, dialog, kept, asked, awaiting, opened, retyped>>
-----------------------------------------------------------------------------
IsOpen(n) == dialog.kind = asked[n].kind /\ dialog.opening = asked[n].opening
Worked(n) == asked[n].outcome \in {"done", "repeated"}
(* A flow that worked shows what it saved, and lets go of its key.          *)
FlowSaved(n) ==
    /\ asked[n].kind \in Flows /\ Worked(n)
    /\ IF IsOpen(n)
       THEN /\ dialog' = [dialog EXCEPT !.kind = "saved", !.about = n] /\ kept' = NoneKept
            /\ asked' = [asked EXCEPT ![n].shown = "now"]
       ELSE UNCHANGED <<dialog, kept, asked>>
(* A give-back, a confirmation, or a correction that came too late, closes  *)
(* what is open of its kind; a confirmation when it fails, too.             *)
AnswerCloses(n) ==
    /\ \/ asked[n].kind = "giveBack" /\ Worked(n)
       \/ asked[n].kind = "correct" /\ asked[n].outcome = "refused"
       \/ asked[n].kind \in Confirmed
    /\ dialog' = IF dialog.kind = asked[n].kind THEN NoDialog ELSE dialog
    /\ UNCHANGED <<kept, asked>>
(* Anything else is said on the form, which stays as typed, with its key.   *)
AnswerSaid(n) ==
    /\ \/ asked[n].kind \in Keyed /\ asked[n].outcome \in {"refused", "failed"}
       \/ asked[n].kind = "correct" /\ asked[n].outcome = "failed"
    /\ UNCHANGED <<dialog, kept, asked>>
AnswerHeard(n) ==
    /\ asked[n].outcome # "sent" /\ awaiting' = awaiting \ {n}
    /\ FlowSaved(n) \/ AnswerCloses(n) \/ AnswerSaid(n)
    /\ UNCHANGED <<books, seen, opened, retyped, meanwhile>>
(* No answer in time is a failure, though the server may serve it yet.      *)
NoAnswer(n) ==
    /\ awaiting' = awaiting \ {n}
    /\ dialog' = IF asked[n].kind \in Confirmed /\ dialog.kind = asked[n].kind
                 THEN NoDialog ELSE dialog
    /\ UNCHANGED <<books, seen, kept, asked, opened, retyped, meanwhile>>

(* The order is read again: after a refusal or a success, at a focus of the *)
(* tab. A form it leaves nothing to do in is gone; not once it has saved.   *)
HoldsNothing == FALSE                                               \* mutant
Held == dialog.kind = "saved"
LeftToDo ==
    CASE dialog.kind = "payment"  -> Payable(books)
      [] dialog.kind = "giveBack" -> books.credit > 0
      [] dialog.kind = "correct"  -> books.return = dialog.about
      [] dialog.kind = "saved"    -> Payable(books)
      [] OTHER                    -> TRUE
ReadOrderAgain ==
    /\ ~Held /\ seen # books /\ seen' = books
    /\ dialog' = IF LeftToDo THEN dialog ELSE NoDialog
    /\ UNCHANGED <<books, kept, asked, awaiting, opened, retyped, meanwhile>>
CloseDialog ==
    /\ dialog.kind # "none" /\ dialog' = NoDialog
    /\ asked' = IF dialog.kind = "saved" THEN [asked EXCEPT ![dialog.about].shown = "closed"] ELSE asked
    /\ UNCHANGED <<books, seen, kept, awaiting, opened, retyped, meanwhile>>

OrderPageNext ==
    \/ OpenPayment \/ OpenGiveBack \/ OpenCorrection \/ ConfirmDeleting \/ ConfirmCancel
    \/ \E p \in 0 .. MaxAsked : ConfirmUnpaying(p)
    \/ \E amount \in 1 .. MostOwed : Retype(amount)
    \/ AskServer \/ Meanwhile \/ ReadOrderAgain \/ CloseDialog
    \/ \E n \in 1 .. Len(asked) : ServeAsked(n) \/ AskedFails(n)
    \/ \E n \in awaiting : AnswerHeard(n) \/ NoAnswer(n)
OrderPageSpec == OrderPageInit /\ [][OrderPageNext]_orderPageVars
-----------------------------------------------------------------------------
DoneOf(kinds) == {n \in 1 .. Len(asked) : asked[n].outcome = "done" /\ asked[n].kind \in kinds}

(* However answers are lost, repeated or late, and whatever others do under *)
(* the form: an amount typed once is paid, or given back, once; a return    *)
(* and a payment are reversed once, an order cancelled once; never is more  *)
(* paid or given back than was owed; and what was saved stays shown until   *)
(* it is closed, though the order then has nothing left to pay or correct.  *)
(* (payment-form.tsx, pallet-credits.tsx, return-form.tsx, the order page)  *)
WorkedOnceAndShown ==
    /\ \A m, n \in DoneOf(Keyed) :
          asked[m].opening = asked[n].opening /\ asked[m].typed = asked[n].typed => m = n
    /\ \A m, n \in DoneOf({"correct", "deleteReturn"}) \cup DoneOf({"cancel"}) :
          asked[m].about = asked[n].about /\ (asked[m].kind = "cancel") = (asked[n].kind = "cancel")
          => m = n
    /\ \A m, n \in DoneOf({"deletePayment"}) : asked[m].about = asked[n].about => m = n
    /\ books.owed >= 0 /\ books.credit >= 0
    /\ \A n \in 1 .. Len(asked) : asked[n].shown = "now" => dialog.kind = "saved" /\ dialog.about = n
=============================================================================
