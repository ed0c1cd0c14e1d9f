--------------------------- MODULE Reconciliation ---------------------------
(***************************************************************************)
(* The operators' check of the books (reconciliation.ts, R2-R4, R7, R9 and *)
(* R10 over the rows of the lending core; R6 is of Stock), the conditions  *)
(* the schema's CHECK constraints put on those rows, and the customer's    *)
(* own figures (customers.queries.ts, orders.mapper.ts): each written apart*)
(* from the handlers, whose guards alone keep them true.                   *)
(***************************************************************************)
EXTENDS Papers

(* A discrepancy names what is wrong with which row. *)
Break(field, S) == S \X {field}
Made == {o \in OrderIds : orders[o].state # "none"}

(* R2: an order whose rows break the formulas, or whose stored columns are  *)
(* not what they come to.                                                   *)
Breaks(totals) == totals.owed < 0 \/ \E i \in Items : totals.out[i] < 0
CheckOrderTotals ==
    Break("invariant", {o \in Made : Breaks(TotalsOf(o))})
    \cup UNION {Break(f, {o \in Made : ~Breaks(TotalsOf(o)) /\ cache[o][f] # TotalsOf(o)[f]})
                : f \in DOMAIN NoTotals}

(* R3: a live cash order's automatic payment; a manual one, even a reversed *)
(* one, never belongs to it.                                                *)
LiveCash == {o \in Live : orders[o].payment = "CASH"}
AnyManual(p) == payments[p].state = "standing" /\ ~payments[p].automatic
Automatic(o) == {p \in PaymentsOf(o) : payments[p].automatic}
ManualOf(o) == {p \in PaymentIds : payments[p].order = o /\ payments[p].state # "none"
                                   /\ ~payments[p].automatic}
CashBreaks ==
    LET stored(o)   == <<Cardinality(Automatic(o)), Amounts(Automatic(o), payments)>>
        expected(o) == IF cache[o].depositTotal > 0 THEN <<1, cache[o].depositTotal>> ELSE <<0, 0>>
    IN  Break("automaticPayments", {o \in LiveCash : stored(o) # expected(o)})
        \cup Break("manualPayments", {o \in LiveCash : ManualOf(o) # {}})

(* R4: a cancelled order has nothing standing. *)
CancelledBreaks ==
    LET gone == Made \ Live
    IN  Break("cancelledReturns", {o \in gone : ReturnsOf(o) # {}})
        \cup Break("cancelledPayments", {o \in gone : Net(PaymentsListed(o), payments) # 0})

(* R7 and R9: a return that paid cash has its one REFUND, which stands as   *)
(* long as it does.                                                         *)
Recorded == {r \in ReturnIds : returns[r].state # "none"}
Refunded(r) == IF refunds[r].state = "none" THEN 0 ELSE refunds[r].amount
RefundBreaks ==
    Break("refund", {r \in Recorded : Refunded(r) # returns[r].cashRefund})
    \cup Break("refundStanding",
               {r \in Recorded : /\ refunds[r].state # "none"
                                 /\ (refunds[r].state = "standing") # (returns[r].state = "standing")})

(* R10: what is owed of an item never sums below zero. *)
PalletCreditBreaks == Break("owed", {i \in Items : owing[i] < 0})

Discrepancies == CheckOrderTotals \cup CashBreaks \cup CancelledBreaks
                 \cup RefundBreaks \cup PalletCreditBreaks
-----------------------------------------------------------------------------
(* The CHECK constraints of orders and their lines, of returns and their    *)
(* lines, and of the money ledger. A write that breaks one is an error      *)
(* nobody explains to the user: the handlers must refuse it before. (A      *)
(* line of a return keeps its unit deposit; the order's is the same while   *)
(* the return stands.)                                                      *)
OrderChecks(o) ==
    LET row == cache[o]
        gone(i)  == SumOver(ReturnsOf(o), [r \in ReturnIds |-> CameBack(r, i)])
    IN  /\ row.depositTotal >= 0 /\ row.owed >= 0 /\ row.outValue >= 0
        /\ (row.status = "CANCELLED") = (orders[o].state = "cancelled")
        /\ row.status = "SETTLED" =>
              row.owed = 0 /\ row.outValue = 0 /\ \A i \in Items : row.out[i] = 0
        /\ \A i \in Items :
              /\ row.out[i] >= 0
              /\ \/ row.out[i] = orders[o].quantity[i] - gone(i)
                 \/ row.out[i] = 0 /\ gone(i) = 0
ReturnChecks(r) ==
    LET row == returns[r]
    IN  /\ row.refundDue >= 0 /\ row.cashRefund >= 0 /\ row.cashRefund <= row.refundDue
        /\ (row.state = "EDIT") = (row.replacedBy # 0)
        /\ row.replacedBy # r
        /\ BodyItems(row.body) # {}
        /\ row.state = "standing" => \A i \in BodyItems(row.body) :
              row.body.damagedRefund[i] <= row.body.damaged[i] * DepositOf(r, i)
LedgerChecks ==
    /\ \A p \in PaymentIds : payments[p].state # "none" => payments[p].amount > 0
    /\ \A r \in ReturnIds : refunds[r].state # "none" => refunds[r].amount > 0
RowsPassChecks ==
    (\A o \in Made : OrderChecks(o)) /\ (\A r \in Recorded : ReturnChecks(r)) /\ LedgerChecks
-----------------------------------------------------------------------------
(* The customer's page and list: what is held, by item, from live orders'   *)
(* lines; the totals of open orders; compensation of orders not cancelled,  *)
(* which settling leaves.                                                   *)
Holdings ==
    [i \in {k \in Items : \E o \in Live : cache[o].out[k] > 0} |->
        [quantityOut |-> SumOver(Live, [o \in OrderIds |-> cache[o].out[i]]),
         outValue    |-> SumOver(Live, [o \in OrderIds |-> cache[o].out[i] * orders[o].deposit[i]])]]
CompensationOf(o) ==
    SumOver(ReturnsOf(o), [r \in ReturnIds |-> SumOver(Items, [i \in Items |-> Compensated(r, i)])])
AssessedWhileOpen == {o \in OpenOrders : CompensationOf(o) > 0}      \* mutant
Assessed == {o \in Live : cache[o].status # "CANCELLED" /\ CompensationOf(o) > 0}
CustomerTotals ==
    [palletsOut   |-> StandingTotals.palletsOut,
     outValue     |-> StandingTotals.outValue,
     owed         |-> StandingTotals.owed,
     compensation |-> SumOver(Assessed, [o \in OrderIds |-> CompensationOf(o)])]
HasOpenOrders == OpenOrders # {}

(* What an order's page offers: its lines stay editable, and it may be      *)
(* cancelled, until something has happened on it.                           *)
Offered(o) ==
    /\ o \in Live
    /\ ~ \E r \in StandingReturns :
            returns[r].order = o \/ (returns[r].withOrder = o /\ returns[r].order # o)
    /\ ~ \E p \in PaymentIds : payments[p].order = o /\ AnyManual(p)

(* The customer's figures are the reports': what is held is what is out, in *)
(* pallets and value; the compensation, settled orders' too, is what the    *)
(* activity report assessed over all time; one with nothing open owes and   *)
(* holds nothing; and a page offers to edit an order's lines or to cancel it*)
(* exactly when the server would take it.                                   *)
CustomerAgrees ==
    LET held == DOMAIN Holdings
    IN  /\ SumOver(held, [i \in held |-> Holdings[i].quantityOut]) = CustomerTotals.palletsOut
        /\ SumOver(held, [i \in held |-> Holdings[i].outValue]) = CustomerTotals.outValue
        /\ CustomerTotals.compensation = ActivityTotals(AllTime).compensationAssessed
        /\ ~HasOpenOrders => held = {} /\ CustomerTotals.owed = 0
        /\ \A o \in Made : Offered(o) <=> o \in Live /\ NoActivity(o)

(* Every reading of the money agrees: the books reconcile and no row breaks *)
(* a condition of its table; the two reports, and the customer's figures    *)
(* with them; an order's money paper, whose figures with what its returns   *)
(* credited make its deposit, or nothing on a cancelled one; a return's     *)
(* paper, whose rows at the lines' deposits come to what the return was     *)
(* recorded as worth and count what came back, damaged or not, once; the    *)
(* timeline, whose entries come to what is owed.                            *)
ReadingsAgree ==
    /\ Discrepancies = {}
    /\ RowsPassChecks
    /\ ReportsAgree
    /\ CustomerAgrees
    /\ \A o \in OrderIds : orders[o].state # "none" =>
          LET paper == TransactionsPaper(o)
          IN  paper.received - paper.refunded + paper.owed
                + SumOver(ReturnsOf(o), [r \in ReturnIds |-> returns[r].refundDue])
              = IF o \in Live THEN DepositTotal(orders[o]) ELSE 0
    /\ \A S \in {{r} : r \in StandingReturns} \cup {PartsOfVisit(v) : v \in Visits} :
          /\ PaperWorth(S) = ReturnPaper(S).credit
          /\ LET rows == ReturnPaper(S).rows
             IN  SumOver(rows, [x \in rows |->
                                   x[2].accepted + IF ShowsDamaged(S) THEN x[2].damaged ELSE 0])
                   = SumOver(S, [r \in ReturnIds |-> SumOver(Items, [i \in Items |-> CameBack(r, i)])])
    /\ SumOver(Timeline, [entry \in Timeline |-> OwedBy(entry)]) = StandingTotals.owed
=============================================================================
