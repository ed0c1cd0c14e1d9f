------------------------------- MODULE Orders -------------------------------
(***************************************************************************)
(* Orders: the hand-over (orders.service create), and the changes to an    *)
(* order afterwards (order-changes.service update and cancel).             *)
(***************************************************************************)
EXTENDS PalletCredits

(* A request's lines: how many pallets of each item go out, and at what     *)
(* unit deposit. The deposit of an absent line is kept at 0.                *)
Requests == {q \in [Items -> 0 .. MaxQuantity] : \E i \in Items : q[i] > 0}
Priced(quantity, deposit) ==
    [i \in Items |-> IF quantity[i] > 0 THEN deposit[i] ELSE 0]
Minus(a, b) == [i \in Items |-> a[i] - b[i]]
Plus(a, b)  == [i \in Items |-> a[i] + b[i]]

(* What happened on an order since it was handed over: its standing returns,*)
(* other orders' returns recorded with it, its standing manual payments.    *)
ActivityReturns(o) ==
    {r \in StandingReturns : returns[r].order = o \/ returns[r].withOrder = o}
OwnReturns(o) == ReturnsOf(o)                                      \* mutant
ManualPayments(o) == {p \in PaymentsOf(o) : ~payments[p].automatic}
NoOwnActivity(o) == OwnReturns(o) = {} /\ ManualPayments(o) = {}   \* mutant
NoActivity(o) == ActivityReturns(o) = {} /\ ManualPayments(o) = {}

(* An order is not dated after anything that happened on it. *)
DateAllowedByOwn(o, date) ==                                       \* mutant
    /\ \A r \in OwnReturns(o) : date <= returns[r].date
    /\ \A p \in ManualPayments(o) : date <= payments[p].date
DateAllowed(o, date) ==
    /\ \A r \in ActivityReturns(o) : date <= returns[r].date
    /\ \A p \in ManualPayments(o) : date <= payments[p].date

NoneAutomatic(o) == {}                                             \* mutant
StandingAutomatic(o) == {p \in PaymentsOf(o) : payments[p].automatic}

(* The customer's limit, or an administrator who confirms going beyond it.  *)
MayLendOnOwnDelta(depositDelta, override) ==                       \* mutant
    override \/ CreditAllows(CreditLimit, 0, depositDelta)
MayLend(depositDelta, override) ==
    override \/ CreditAllows(CreditLimit, CustomerOutValue, depositDelta)

(* The automatic payment of a cash order for its deposit, none when it is 0;*)
(* `reversed` are payments reversed with it.                                *)
IssuePayment(o, reversed, amount) ==
    LET kept(p) == IF p \in reversed THEN [payments[p] EXCEPT !.state = "reversed"]
                                     ELSE payments[p]
    IN  IF amount = 0
        THEN payments' = [p \in PaymentIds |-> kept(p)]
        ELSE \E n \in PaymentIds :
               /\ NextFree(n, PaymentIds, payments)
               /\ payments' = [p \in PaymentIds |->
                     IF p = n THEN [state |-> "standing", order |-> o, automatic |-> TRUE,
                                    amount |-> amount, date |-> 0]
                              ELSE kept(p)]
-----------------------------------------------------------------------------
(* create: pallets owed go out first, only the rest are lent. *)
CreateOrder(o, payment, date, requested, deposit, override) ==
    LET used  == TakenFromOwed(owing, requested)
        lent  == Minus(requested, used)
        row   == [state |-> "live", payment |-> payment, date |-> date, quantity |-> lent,
                  deposit |-> Priced(lent, deposit), used |-> used]
        total == DepositTotal(row)
    IN  /\ NextFree(o, OrderIds, orders)
        /\ ~archived
        /\ total \in Counts
        /\ MayLend(total, override)
        /\ orders' = [orders EXCEPT ![o] = row]
        /\ ApplyStock([i \in Items |-> -requested[i]])
        /\ WriteCredits([i \in Items |-> -used[i]])
        /\ IssuePayment(o, {}, IF payment = "CASH" THEN total ELSE 0)
        /\ UNCHANGED <<returns, refunds>>
        /\ RecomputeOrders({o})
        /\ UNCHANGED <<surplus, credited, handBacks, archived>>

(* update without lines: the order's date (its driver and notes carry no    *)
(* rule the figures depend on).                                             *)
EditHeader(o, date) ==
    /\ o \in Live
    /\ date # orders[o].date
    /\ date > orders[o].date => DateAllowed(o, date)
    /\ orders' = [orders EXCEPT ![o].date = date]
    /\ UNCHANGED <<returns, refunds, payments>>
    /\ RecomputeOrders({o})
    /\ UNCHANGED <<stock, owing, surplus, credited, handBacks, archived>>

(* A line whose item any return row still points at may shrink, never go.   *)
LinesMayGo(o, lent) ==
    \A r \in ReturnIds, i \in Items :
        /\ returns[r].state # "none" /\ returns[r].order = o
        /\ returns[r].body.accepted[i] + returns[r].body.damaged[i] > 0
        /\ orders[o].quantity[i] > 0
        => lent[i] > 0

(* An archived customer's order may shrink, but nothing more goes out to    *)
(* them: neither a line movement nor a credit entry is negative.            *)
NothingMoreOut(o, lent, used) ==
    \A i \in Items : lent[i] <= orders[o].quantity[i] /\ used[i] <= orders[o].used[i]

(* update with lines: each requested quantity is all that goes out of its   *)
(* item, what is owed first - with what this order took already - and only  *)
(* the rest lent. A cash order's payment is issued again.                   *)
EditLines(o, date, requested, deposit, override) ==
    LET before == orders[o]
        used   == TakenFromOwed(Plus([i \in Items |-> Owed(i)], before.used), requested)
        lent   == Minus(requested, used)
        row    == [before EXCEPT !.date = date, !.quantity = lent,
                                 !.deposit = Priced(lent, deposit), !.used = used]
        total  == DepositTotal(row)
        linesChanged == row.quantity # before.quantity \/ row.deposit # before.deposit
        touched      == {i \in Items : requested[i] > 0 \/ before.used[i] > 0}
    IN  /\ o \in Live
        /\ row # before
        /\ NoActivity(o)
        /\ LinesMayGo(o, lent)
        /\ archived => NothingMoreOut(o, lent, used)
        /\ total \in Counts
        /\ MayLend(total - cache[o].depositTotal, override)
        /\ orders' = [orders EXCEPT ![o] = row]
        /\ ApplyStock(Minus(Plus(before.quantity, before.used), requested))
        /\ WriteCredits(Minus(before.used, used))
        /\ IF linesChanged /\ before.payment = "CASH"
           THEN IssuePayment(o, StandingAutomatic(o), total)
           ELSE UNCHANGED payments
        /\ UNCHANGED <<returns, refunds>>
        /\ RecomputeOrders({o})
        /\ OneRuleHolds(touched)
        /\ UNCHANGED <<surplus, credited, handBacks, archived>>

(* cancel: the order's pallets come back, what it took of those owed is     *)
(* owed again - never refused -, and its automatic payment is reversed.     *)
OwedAgainLentToo(o) == Plus(orders[o].used, orders[o].quantity)    \* mutant
OwedAgain(o) == orders[o].used
CancelOrder(o) ==
    /\ o \in Live
    /\ NoActivity(o)
    /\ ApplyStock(Plus(orders[o].quantity, orders[o].used))
    /\ WriteCredits(OwedAgain(o))
    /\ IssuePayment(o, StandingAutomatic(o), 0)
    /\ orders' = [orders EXCEPT ![o].state = "cancelled",
                                ![o].used = [i \in Items |-> 0]]
    /\ UNCHANGED <<returns, refunds>>
    /\ RecomputeOrders({o})
    /\ UNCHANGED <<surplus, credited, handBacks, archived>>
=============================================================================
