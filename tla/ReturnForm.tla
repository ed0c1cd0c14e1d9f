----------------------------- MODULE ReturnForm -----------------------------
(***************************************************************************)
(* The screen a return is typed on (customer-return-form.tsx, allocate.ts, *)
(* return-rows.ts), against the customer's orders as they change under it. *)
(* The clerk types how many pallets of an item came back; the form places  *)
(* them on the item's order lines, oldest order first, and sends that      *)
(* split. The list it places them on is read again whenever the window     *)
(* comes back into view and after a refusal, so a split may move without a *)
(* key being pressed. One item: each has a row, a split and a hold of its  *)
(* own. The form may be recording a return, or editing one (`placed`, its  *)
(* counts by line); the orders are then listed as if it had never been.    *)
(***************************************************************************)
EXTENDS Integers, FiniteSets, Sequences, SequencesExt, FiniteSetsExt

CONSTANTS
    OrderNumbers,         \* orders of the customer, by number
    FormDays,           \* business days
    MaxOut,         \* most pallets of the item out on one order
    Prices,         \* unit deposits
    MaxTyped,       \* most pallets typed in a row
    Refunds,        \* damage refunds typed
    MaxChanges      \* bound on what others do to the orders meanwhile

ASSUME FormAssumption ==
    /\ OrderNumbers \subseteq Nat /\ IsFiniteSet(OrderNumbers) /\ FormDays \subseteq Nat
    /\ Prices \subseteq Nat /\ Refunds \subseteq Nat
    /\ MaxOut \in Nat /\ MaxTyped \in Nat /\ MaxChanges \in Nat

VARIABLES
    lines,      \* the server's: order -> its line of the item
    list,       \* the form's: the lines as last read
    placed,     \* order -> what the edited return had there
    row,        \* the counts typed
    onDate,     \* the date chosen
    refused,    \* boxes the server's last word stands on
    recheck,    \* the item is held for a look before saving
    looked,     \* history: the split last put before the clerk's eyes
    posted,     \* the request being answered, or NotSent
    changes     \* how often others changed the orders

formVars == <<lines, list, placed, row, onDate, refused, recheck, looked, posted, changes>>

TypedRows == {r \in [accepted : 0 .. MaxTyped, damaged : 0 .. MaxTyped, refund : Refunds] :
                 r.accepted + r.damaged <= MaxTyped /\ (r.damaged = 0 => r.refund = 0)}
NoRow   == [accepted |-> 0, damaged |-> 0, refund |-> 0]
(* `open` until its order is cancelled or the line taken off it. *)
OrderLines == [date : FormDays, out : 0 .. MaxOut, price : Prices, open : BOOLEAN]
NoOrder    == [date |-> Min(FormDays), out |-> 0, price |-> 0, open |-> FALSE]
Nowhere    == [o \in OrderNumbers |-> NoRow]
NotSent    == [shares |-> Nowhere, extra |-> 0, date |-> Min(FormDays)]

(* The returnable orders are those with pallets out (returnableFor). *)
Listed(on) == {o \in OrderNumbers : on[o].open /\ on[o].out > 0}
-----------------------------------------------------------------------------
Least(a, b, c) == Min({a, b, c})
AfterReturn(line, day) == line.date > day

(* Oldest first: the order's date, then its number. *)
OldestFirst(on) ==
    SetToSortSeq(Listed(on), LAMBDA o, p :
        on[o].date < on[p].date \/ (on[o].date = on[p].date /\ o < p))

(* One pass over the lines: each takes damaged pallets first, then accepted *)
(* ones, up to what it has out and to its cap; the refund follows the       *)
(* damaged ones up to their deposit.                                        *)
Placing(on, day, cap, start) ==
    LET Take(so, o) ==
            LET share == so.shares[o]
                damaged  == Least(on[o].out - share.damaged - share.accepted,
                                  cap[o].damaged, so.left.damaged)
                accepted == Least(on[o].out - share.damaged - damaged - share.accepted,
                                  cap[o].accepted, so.left.accepted)
                refund   == Least((share.damaged + damaged) * on[o].price - share.refund,
                                  cap[o].refund, so.left.refund)
            IN  [shares |-> [so.shares EXCEPT ![o] =
                                [accepted |-> @.accepted + accepted,
                                 damaged  |-> @.damaged + damaged,
                                 refund   |-> @.refund + refund]],
                 left   |-> [accepted |-> so.left.accepted - accepted,
                             damaged  |-> so.left.damaged - damaged,
                             refund   |-> so.left.refund - refund]]
    IN  FoldLeft(LAMBDA so, o : IF AfterReturn(on[o], day) THEN so ELSE Take(so, o),
                 start, OldestFirst(on))

(* allocate: a return being edited first goes back on the lines it was on. *)
AllocateWhateverDate(on, typed, day) ==                             \* mutant
    LET start == [shares |-> Nowhere, left |-> typed]
    IN  Placing(on, Max(FormDays), [o \in OrderNumbers |-> typed],
                Placing(on, Max(FormDays), placed, start)).shares
Allocate(on, typed, day) ==
    LET start == [shares |-> Nowhere, left |-> typed]
    IN  Placing(on, day, [o \in OrderNumbers |-> typed],
                Placing(on, day, placed, start)).shares

SumListed(on, Of(_)) == MapThenSumSet(Of, Listed(on))
OutBy(on, day) == SumListed(on, LAMBDA o : IF AfterReturn(on[o], day) THEN 0 ELSE on[o].out)
Back(r)        == r.accepted + r.damaged

(* More than is out may come back when every pallet of the item does; the   *)
(* rest is owed to the customer.                                            *)
CanOwe(on, typed, day) ==
    OutBy(on, day) = SumListed(on, LAMBDA o : on[o].out) /\ typed.damaged <= OutBy(on, day)
Extra(on, typed, day) ==
    IF CanOwe(on, typed, day) THEN Max({0, Back(typed) - OutBy(on, day)}) ELSE 0

(* checkRow: over what is out, or refunding more than the damaged pallets  *)
(* where they were placed; a count over what is out is the one error.      *)
RefundMaximum(on, typed, day) ==
    LET shares == Allocate(on, typed, day)
    IN  SumListed(on, LAMBDA o : shares[o].damaged * on[o].price)
CountOver(on, typed, day) == Back(typed) > OutBy(on, day) /\ ~CanOwe(on, typed, day)
Invalid(on, typed, day) ==
    \/ CountOver(on, typed, day)
    \/ typed.refund > RefundMaximum(on, typed, day)
    \/ refused # {}
(* Counts on an item no longer listed hold the save until they are let go. *)
Gone == Listed(list) = {} /\ Back(row) > 0
-----------------------------------------------------------------------------
FormTypeOK ==
    /\ {lines, list} \subseteq [OrderNumbers -> OrderLines \cup {NoOrder}]
    /\ placed \in [OrderNumbers -> TypedRows] /\ row \in TypedRows /\ onDate \in FormDays
    /\ refused \subseteq {"accepted", "refund"} /\ recheck \in BOOLEAN
    /\ changes \in 0 .. MaxChanges

(* Bounds: an open order starts with MaxOut out, others change that; the    *)
(* more orders, the fewer changes. An edited return was taken on lines that *)
(* had the pallets out.                                                     *)
FormInit ==
    /\ \E open \in SUBSET OrderNumbers \ {{}}, day \in [OrderNumbers -> FormDays] :
          /\ lines = [o \in OrderNumbers |->
                         IF o \in open
                         THEN [date |-> day[o], out |-> MaxOut, price |-> Max(Prices), open |-> TRUE]
                         ELSE NoOrder]
          /\ changes = Cardinality(open) - 1
    /\ list = lines
    /\ onDate \in FormDays
    /\ \E o \in OrderNumbers, r \in {NoRow, [NoRow EXCEPT !.accepted = 1]} :
          /\ lines[o].open /\ ~AfterReturn(lines[o], onDate)
          /\ placed = [Nowhere EXCEPT ![o] = r]
          /\ row = r
    /\ refused = {} /\ recheck = FALSE /\ posted = NotSent
    /\ looked = Allocate(list, row, onDate)

(* The clerk types a count or presses All: that item's hold is let go, and  *)
(* the server's word on the boxes that changed. No damaged, no refund. The  *)
(* boxes stay open while a save is being answered.                          *)
BoxesOf(was, now) ==
    (IF was.accepted # now.accepted \/ was.damaged # now.damaged THEN {"accepted"} ELSE {})
    \cup (IF was.damaged # now.damaged \/ was.refund # now.refund THEN {"refund"} ELSE {})
Sees(typed, day) == looked' = Allocate(list, typed, day)
TypeCount(typed) ==
    /\ Listed(list) # {}
    /\ typed # row
    /\ row' = typed
    /\ refused' = refused \ BoxesOf(row, typed)
    /\ recheck' = FALSE
    /\ Sees(typed, onDate)
    /\ UNCHANGED <<lines, list, placed, onDate, posted, changes>>
RestAccepted(was) ==
    [was EXCEPT !.accepted = Max({0, OutBy(list, onDate) - was.damaged})]
AllBack ==
    /\ Listed(list) # {}
    /\ RestAccepted(row) \in TypedRows
    /\ row' = RestAccepted(row)
    /\ refused' = refused \ {"accepted"}
    /\ recheck' = FALSE
    /\ Sees(row', onDate)
    /\ UNCHANGED <<lines, list, placed, onDate, posted, changes>>
ChooseDate(day) ==
    /\ day # onDate
    /\ onDate' = day
    /\ Sees(row, day)
    /\ UNCHANGED <<lines, list, placed, row, refused, recheck, posted, changes>>

(* The notices: the split has been looked at; the count of an item no      *)
(* longer listed is let go.                                                *)
Looked ==
    /\ recheck /\ Listed(list) # {}
    /\ recheck' = FALSE
    /\ Sees(row, onDate)
    /\ UNCHANGED <<lines, list, placed, row, onDate, refused, posted, changes>>
LetGo ==
    /\ Gone
    /\ row' = NoRow
    /\ recheck' = FALSE
    /\ Sees(NoRow, onDate)
    /\ UNCHANGED <<lines, list, placed, onDate, refused, posted, changes>>

(* The list is read again. A count whose split moved, or whose item comes  *)
(* back after a reading without it, is held for a look.                    *)
MovedIfKnown(on) ==                                                 \* mutant
    /\ Back(row) > 0 /\ Listed(on) # {} /\ Listed(list) # {}
    /\ Allocate(list, row, onDate) # Allocate(on, row, onDate)
Moved(on) ==
    /\ Back(row) > 0 /\ Listed(on) # {}
    /\ Listed(list) # {} => Allocate(list, row, onDate) # Allocate(on, row, onDate)
ListReadAgain ==
    /\ list # lines
    /\ list' = lines
    /\ recheck' = (recheck \/ Moved(lines))
    /\ UNCHANGED <<lines, placed, row, onDate, refused, looked, posted, changes>>

(* The save: each order's share of the row, and the extra; open while every *)
(* box is in order and nothing waits for a look.                            *)
Request == [shares |-> Allocate(list, row, onDate),
            extra  |-> Extra(list, row, onDate), date |-> onDate]
CanSave ==
    /\ posted = NotSent
    /\ Listed(list) # {}
    /\ ~Invalid(list, row, onDate) /\ ~recheck /\ ~Gone
    /\ Back(row) > 0
SendSave ==
    /\ CanSave
    /\ posted' = Request
    /\ UNCHANGED <<lines, list, placed, row, onDate, refused, recheck, looked, changes>>
-----------------------------------------------------------------------------
(* What the server checks under its locks (createForCustomer,               *)
(* replaceForCustomer, return-rules, checkSurplus) on the orders as they    *)
(* are, in the order it does: an order cancelled or dated after the return, *)
(* a refund over its line's, counts over what is out, an extra of an item   *)
(* still out somewhere.                                                     *)
Named(req) == {o \in OrderNumbers : Back(req.shares[o]) > 0}
NoLonger(req) == {o \in Named(req) : ~lines[o].open}
TooEarly(req) == {o \in Named(req) : AfterReturn(lines[o], req.date)}
OverPaid(req) ==
    {o \in Named(req) : req.shares[o].refund > req.shares[o].damaged * lines[o].price}
OverOut(req) == {o \in Named(req) : Back(req.shares[o]) > lines[o].out}
BackOf(req, on) == SumListed(on, LAMBDA o : Back(req.shares[o]))
StillOut(req) ==
    req.extra > 0 /\ SumListed(lines, LAMBDA o : lines[o].out) > BackOf(req, lines)
Takes(req) ==
    /\ Named(req) # {}
    /\ NoLonger(req) \cup TooEarly(req) \cup OverPaid(req) \cup OverOut(req) = {}
    /\ ~StillOut(req)

SaveAccepted ==
    /\ posted # NotSent /\ Takes(posted)
    /\ lines' = [o \in OrderNumbers |-> [lines[o] EXCEPT !.out = @ - Back(posted.shares[o])]]
    /\ posted' = NotSent /\ row' = NoRow /\ placed' = Nowhere
    /\ list' = lines' /\ refused' = {} /\ recheck' = FALSE /\ looked' = Nowhere
    /\ UNCHANGED <<onDate, changes>>

(* A refusal is judged on what was sent, not on what may have been typed    *)
(* since; the list is then read again (ListReadAgain). Counts over: refused in the *)
(* box if they are over what the item has out now as far as the answer says.*)
OutNow == OutBy([o \in OrderNumbers |-> IF o \in OverOut(posted)
                                        THEN [list[o] EXCEPT !.out = lines[o].out] ELSE list[o]],
                posted.date)
LimitNow(o) == SumListed(list, LAMBDA p : posted.shares[p].damaged
                               * (IF p = o THEN lines[p].price ELSE list[p].price))
PostedRefund == SumListed(list, LAMBDA o : posted.shares[o].refund)
SaveRefused ==
    /\ posted # NotSent /\ ~Takes(posted)
    /\ LET over == OverOut(posted)
           paid == OverPaid(posted)
           orders == NoLonger(posted) \cup TooEarly(posted)
       IN  \/ (orders # {} \/ over \cup paid = {}) /\ UNCHANGED refused
           \/ \E o \in paid :
                 refused' = IF o \in Listed(list) /\ PostedRefund > LimitNow(o)
                            THEN refused \cup {"refund"} ELSE refused
           \/ /\ orders \cup paid = {} /\ over # {}
              /\ refused' = IF over \cap Listed(list) # {} /\ BackOf(posted, list) > OutNow
                            THEN refused \cup {"accepted"} ELSE refused
    /\ posted' = NotSent
    /\ UNCHANGED <<lines, list, placed, row, onDate, recheck, looked, changes>>

(* No answer: the form may be sent again. *)
SaveUnanswered ==
    /\ posted # NotSent
    /\ posted' = NotSent
    /\ UNCHANGED <<lines, list, placed, row, onDate, refused, recheck, looked, changes>>

(* Others: a return, its deletion or a hand-over; an order re-dated, its     *)
(* deposit corrected, its line taken off or the order cancelled.            *)
Changed(line) ==
    {[line EXCEPT !.out = n] : n \in 0 .. MaxOut}
    \cup {[line EXCEPT !.date = day] : day \in FormDays}
    \cup {[line EXCEPT !.price = price] : price \in Prices}
    \cup {NoOrder}
Elsewhere(o, line) ==
    /\ changes < MaxChanges
    /\ lines[o].open /\ line # lines[o]
    /\ lines' = [lines EXCEPT ![o] = line]
    /\ changes' = changes + 1
    /\ UNCHANGED <<list, placed, row, onDate, refused, recheck, looked, posted>>

FormNext ==
    \/ \E typed \in TypedRows : TypeCount(typed)
    \/ AllBack
    \/ \E day \in FormDays : ChooseDate(day)
    \/ Looked \/ LetGo \/ ListReadAgain \/ SendSave \/ SaveAccepted \/ SaveRefused \/ SaveUnanswered
    \/ \E o \in OrderNumbers : \E line \in Changed(lines[o]) : Elsewhere(o, line)
FormSpec == FormInit /\ [][FormNext]_formVars
-----------------------------------------------------------------------------
(* A save sends what the clerk saw: the whole of what was typed, the rest   *)
(* beyond what is out as extra, split over the orders as last shown however *)
(* often the list was read again since - a count meant for one order never  *)
(* moves to another without a word. And built on the orders as they still   *)
(* are, it is accepted: the form refuses whatever the server would.         *)
SavesWhatWasSeen ==
    CanSave => /\ Request.shares = looked
               /\ BackOf(Request, list) + Request.extra = Back(row)
               /\ SumListed(list, LAMBDA o : Request.shares[o].refund) = row.refund
               /\ list = lines => Takes(Request)
=============================================================================
