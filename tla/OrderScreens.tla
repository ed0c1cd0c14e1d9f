---------------------------- MODULE OrderScreens ----------------------------
(***************************************************************************)
(* The forms that make an order and edit its lines (new-order-form.tsx,    *)
(* edit-order-form.tsx over order-lines.ts): from what they have read they *)
(* work out apart from the server what an order will take of the pallets   *)
(* owed, its deposit, whether the stock, the credit limit and the one rule *)
(* allow it, and let the button be pressed or not.                         *)
(***************************************************************************)
EXTENDS Reconciliation

None == [i \in Items |-> 0]

(* What a form has read: the stock, what is owed the customer, and what     *)
(* they have out; and what it starts from: nothing, or an order's lines and *)
(* what it took of the pallets owed. A row's deposit is the stored one, or  *)
(* the item's. A row is all that goes out of its item, one row to an item.  *)
FormOn(lent, tookOwed, out, total, deposit) ==
    [outBefore |-> Plus(lent, tookOwed), tookOwed |-> tookOwed, out |-> out,
     total |-> total, deposit |-> deposit,
     onHand |-> stock, owed |-> [i \in Items |-> Owed(i)],
     outValue |-> CustomerTotals.outValue,
     held |-> [i \in Items |-> IF i \in DOMAIN Holdings THEN Holdings[i].quantityOut ELSE 0]]
NewForm(price) == FormOn(None, None, None, 0, price)
EditForm(o, price) ==
    FormOn(orders[o].quantity, orders[o].used, cache[o].out, cache[o].depositTotal,
           [i \in Items |-> IF orders[o].quantity[i] > 0 THEN orders[o].deposit[i] ELSE price[i]])

(* What a row may take of the stock, and of what is owed: what the order    *)
(* holds already with it.                                                   *)
OnHandOnly(form) == form.onHand                                     \* mutant
Available(form) == Plus(form.onHand, form.outBefore)
OwedNow(form) == form.owed                                          \* mutant
OwedTo(form) == Plus(form.owed, form.tookOwed)

(* What the summary beside the rows shows: what goes out of the pallets     *)
(* owed, and the deposit of the rest.                                       *)
FromCredit(form, rows) == [i \in Items |-> LesserOf(OwedTo(form)[i], rows[i])]
DepositTotalOf(lent, deposit) == SumOver(Items, [i \in Items |-> lent[i] * deposit[i]])
Typed(form, rows, deposit) ==
    LET fromCredit == FromCredit(form, rows)
        lent == Minus(rows, fromCredit)
    IN  [rows |-> rows, deposit |-> deposit, fromCredit |-> fromCredit, lent |-> lent,
         total |-> DepositTotalOf(lent, deposit)]

(* Lines are sent only when they changed. *)
LinesChanged(form, entry) ==
    \/ entry.rows # form.outBefore
    \/ \E i \in Items : entry.rows[i] > 0 /\ entry.deposit[i] # form.deposit[i]

OverStock(form, entry) == \E i \in Items : entry.rows[i] > Available(form)[i]

(* The limit checked as it is typed; an administrator is asked, and answers *)
(* for it, only beyond it.                                                  *)
OverLimit(form, entry) == ~CreditAllows(CreditLimit, form.outValue, entry.total - form.total)
MayOverride(form, entry) == IF OverLimit(form, entry) THEN BOOLEAN ELSE {FALSE}

(* The one rule, refused as it is typed: still owed after the edit, of the  *)
(* items it names or took, and out on another order.                        *)
OutAnywhere(form, i) == form.held[i]                                \* mutant
OutElsewhere(form, i) == form.held[i] - form.out[i]
OwedWhileOut(form, entry) ==
    \E i \in Items : /\ entry.rows[i] > 0 \/ form.tookOwed[i] > 0
                     /\ OwedTo(form)[i] > entry.fromCredit[i]
                     /\ OutElsewhere(form, i) > 0

(* The button can be pressed. *)
Creatable(form, entry, override) ==
    ~OverStock(form, entry) /\ (OverLimit(form, entry) => override)
Savable(form, entry, override) ==
    Creatable(form, entry, override) /\ LinesChanged(form, entry) /\ ~OwedWhileOut(form, entry)
-----------------------------------------------------------------------------
(* What the forms cannot know: that a line's item came back on a return     *)
(* since taken back, and that the customer was archived. A deposit typed    *)
(* for pallets that all go out of those owed is sent and changes nothing.   *)
OnlyServerKnows(o, entry) ==
    \/ ~LinesMayGo(o, entry.lent)
    \/ archived /\ ~NothingMoreOut(o, entry.lent, entry.fromCredit)
ChangesNothing(o, entry) ==
    /\ entry.lent = orders[o].quantity /\ entry.fromCredit = orders[o].used
    /\ Priced(entry.lent, entry.deposit) = orders[o].deposit

(* The order stored is the one the form's summary showed. *)
AsShown(o, entry) ==
    /\ orders'[o].used = entry.fromCredit /\ orders'[o].quantity = entry.lent
    /\ cache'[o].depositTotal = entry.total

(* Filling a form in: one row to an item - a picker leaves out the items of *)
(* the other rows -, none without a quantity; any quantities at the deposits*)
(* the form starts from, or a deposit typed in the rows it starts from.     *)
Prices == [Items -> Deposits]
RowsTyped == Requests
Entries(form) ==
    {Typed(form, rows, form.deposit) : rows \in RowsTyped}
    \cup {Typed(form, rows, [i \in Items |-> form.deposit[i] + 1]) :
             rows \in RowsTyped \cap {form.outBefore}}

(* Read afresh, the forms let through exactly what the server takes, with   *)
(* the limit overridden exactly where it must be, and show what it stores:  *)
(* two workings of the same order, in two programs, that must not part.     *)
OrderFormsForetell ==
    /\ \A o \in OrderIds : NextFree(o, OrderIds, orders) /\ ~archived =>
          \A form \in {NewForm(price) : price \in Prices} : \A entry \in Entries(form), date \in Days :
              \A override \in MayOverride(form, entry) :
                  Creatable(form, entry, override) <=>
                      ENABLED (/\ CreateOrder(o, "LENT", date, entry.rows, entry.deposit, override)
                               /\ AsShown(o, entry))
    /\ \A o \in Live : Offered(o) =>
          \A form \in {EditForm(o, price) : price \in Prices} : \A entry \in Entries(form) :
              \/ ~LinesChanged(form, entry) \/ OnlyServerKnows(o, entry) \/ ChangesNothing(o, entry)
              \/ \A override \in MayOverride(form, entry) :
                    Savable(form, entry, override) <=>
                      ENABLED (/\ EditLines(o, orders[o].date, entry.rows, entry.deposit, override)
                               /\ AsShown(o, entry))
=============================================================================
