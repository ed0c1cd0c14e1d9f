------------------------------- MODULE Reports -------------------------------
(***************************************************************************)
(* What the factory is told about its lending (positions-report.ts,        *)
(* activity-report.ts, dashboard.service positions): two reports that read *)
(* different columns of different rows in queries of their own, the one    *)
(* what is standing now, from the cache of open orders, the other what     *)
(* happened in a period, from the dated rows of live orders.               *)
(*                                                                         *)
(* A scope is a period and, perhaps, one item (0: all of them).            *)
(***************************************************************************)
EXTENDS Lending

(* effective-date.ts: a ledger row counts on its own date, the automatic    *)
(* payment, which has none, on its order's.                                 *)
EffectiveDate(p) == IF payments[p].automatic THEN orders[payments[p].order].date
                    ELSE payments[p].date

AllTime == [days |-> Days, items |-> Items]
MoneyOmitted(scope) == scope.items # Items

(* Live orders, of the one customer; a section's rows have a line of  *)
(* the items asked for.                                                     *)
HandoverRows(scope) ==
    {o \in Live : orders[o].date \in scope.days /\ \E i \in scope.items : orders[o].quantity[i] > 0}
ReversedToo(scope) ==                                               \* mutant
    {r \in ReturnIds : /\ returns[r].state # "none" /\ returns[r].order \in Live
                       /\ returns[r].date \in scope.days
                       /\ BodyItems(returns[r].body) \cap scope.items # {}}
ReturnRowsIn(scope) ==
    {r \in StandingReturns : /\ returns[r].order \in Live
                             /\ returns[r].date \in scope.days
                             /\ BodyItems(returns[r].body) \cap scope.items # {}}
PaymentRowsIn(scope) ==
    {p \in PaymentIds : /\ payments[p].state # "none" /\ payments[p].order \in Live
                        /\ EffectiveDate(p) \in scope.days}
RefundRowsIn(scope) ==
    {r \in ReturnIds : /\ refunds[r].state # "none" /\ returns[r].order \in Live
                       /\ returns[r].date \in scope.days}

OverLines(rows, scope, Figure(_, _)) ==
    SumOver(rows, [x \in rows |-> SumOver(scope.items, [i \in Items |-> Figure(x, i)])])
Handed(o, i)   == orders[o].quantity[i]
Deposited(o, i) == orders[o].quantity[i] * orders[o].deposit[i]
CameBack(r, i) == returns[r].body.accepted[i] + returns[r].body.damaged[i]
DepositOf(r, i) == orders[returns[r].order].deposit[i]
Credited(r, i) == returns[r].body.accepted[i] * DepositOf(r, i) + returns[r].body.damagedRefund[i]
Compensated(r, i) == returns[r].body.damaged[i] * DepositOf(r, i) - returns[r].body.damagedRefund[i]

(* Compensation is listed apart, one row to a line with damaged pallets.    *)
CompensationRows(scope) ==
    {x \in ReturnRowsIn(scope) \X scope.items : returns[x[1]].body.damaged[x[2]] > 0}

(* A money section lists the ledger rows and the rows that reversed them,   *)
(* each as a row of its own, with what both come to. Over all time, every   *)
(* reversal's day is in the period.                                         *)
MoneySection(rows, table) ==
    LET reversed == {x \in rows : table[x].state = "reversed"}
    IN  [rows      |-> (rows \X {"entry"}) \cup (reversed \X {"reversal"}),
         gross     |-> SumOver(rows, [x \in rows |-> table[x].amount]),
         reversals |-> SumOver(reversed, [x \in rows |-> table[x].amount])]
Net(rows, table) == MoneySection(rows, table).gross - MoneySection(rows, table).reversals

(* The totals: every section sums its lines in SQL. *)
ActivityTotals(scope) ==
    [handoverQuantity       |-> OverLines(HandoverRows(scope), scope, Handed),
     handoverDepositTotal   |-> OverLines(HandoverRows(scope), scope, Deposited),
     returned               |-> OverLines(ReturnRowsIn(scope), scope, CameBack),
     refundDueTotal         |-> OverLines(ReturnRowsIn(scope), scope, Credited),
     compensationAssessed   |-> OverLines(ReturnRowsIn(scope), scope, Compensated),
     paymentsNet            |-> IF MoneyOmitted(scope) THEN 0 ELSE Net(PaymentRowsIn(scope), payments),
     refundsNet             |-> IF MoneyOmitted(scope) THEN 0 ELSE Net(RefundRowsIn(scope), refunds)]

(* What a customer's deposits still cover of the pallets out. *)
Held(o) == ZeroOrMore(cache[o].outValue - cache[o].owed)

(* openOrderTotalsByCustomer, which the dashboard, the customer list and    *)
(* the positions report read.                                               *)
TotalsOver(S) ==
    LET sum(Figure(_)) == SumOver(S, [o \in OrderIds |-> Figure(o)])
    IN  [palletsOut |-> sum(LAMBDA o : SumOver(Items, cache[o].out)),
         outValue   |-> sum(LAMBDA o : cache[o].outValue),
         owed       |-> sum(LAMBDA o : cache[o].owed),
         held       |-> sum(Held)]
StandingTotals == TotalsOver(OpenOrders)
PalletsOutByItem(i) == SumOver(Live, [o \in OrderIds |-> cache[o].out[i]])

(* The positions report: a customer with nothing standing has no row; the   *)
(* pallets by item are counted apart, over live orders' lines, and only the *)
(* items the customer has out are named.                                    *)
PositionsReport ==
    LET row == StandingTotals
        byItem == [i \in {k \in Items : PalletsOutByItem(k) > 0} |-> PalletsOutByItem(i)]
    IN  [listed |-> row.palletsOut > 0 \/ row.owed > 0 \/ row.held > 0,
         row    |-> row,
         byItem |-> byItem]
-----------------------------------------------------------------------------
(* The two reports agree: over all time, what was handed over and has not   *)
(* come back is what the positions say is out - for each item too, and in   *)
(* value, with what was kept for damage -, and deposits less credits and    *)
(* payments, with refunds, are what they say is owed. What the positions    *)
(* read from open orders alone is what stands on every live order, a        *)
(* customer they leave out has no open order, and the compensation listed    *)
(* line by line comes to the total above it.                                *)
ReportsAgree ==
    LET all == ActivityTotals(AllTime)
        report == PositionsReport
        standing == report.row
        kept == CompensationRows(AllTime)
    IN  /\ standing.palletsOut = all.handoverQuantity - all.returned
        /\ standing.outValue = all.handoverDepositTotal - all.refundDueTotal
                               - all.compensationAssessed
        /\ standing.owed = all.handoverDepositTotal - all.refundDueTotal
                           - all.paymentsNet + all.refundsNet
        /\ standing.palletsOut = SumOver(DOMAIN report.byItem, report.byItem)
        /\ \A figure \in DOMAIN TotalsOver(Live) : standing[figure] = TotalsOver(Live)[figure]
        /\ report.listed <=> OpenOrders # {}
        /\ all.compensationAssessed = SumOver(kept, [x \in kept |-> Compensated(x[1], x[2])])
        /\ \A i \in Items :
              LET of == ActivityTotals([AllTime EXCEPT !.items = {i}])
              IN  PalletsOutByItem(i) = of.handoverQuantity - of.returned
=============================================================================
