------------------------------- MODULE Lending -------------------------------
(***************************************************************************)
(* The lending core of one customer: orders, returns, payments, what the   *)
(* factory owes, and the archiving of the customer, composed over the rows *)
(* of LendingState.                                                        *)
(***************************************************************************)
EXTENDS Orders, Returns, Payments

(* customers.service archive: only once none of the orders is OPEN. *)
ArchiveCustomer ==
    /\ ~archived
    /\ OpenOrders = {}
    /\ archived' = TRUE
    /\ UNCHANGED <<orders, returns, refunds, payments, cache, stock, owing,
                   surplus, credited, handBacks>>

(* What a return form can send for one order. *)
BodyInputs ==
    {b \in [accepted      : [Items -> 0 .. MaxQuantity],
            damaged       : [Items -> 0 .. MaxQuantity],
            damagedRefund : [Items -> DamageRefunds]] :
        /\ \A i \in Items : b.accepted[i] + b.damaged[i] <= MaxQuantity
        /\ \A i \in Items : b.damaged[i] = 0 => b.damagedRefund[i] = 0
        /\ b # NoBody}
ExtraInputs == [Items -> 0 .. MaxExtra]
FormInputs(o) ==                     \* the form of an order offers its own lines
    {b \in BodyInputs : \A i \in Items :
        b.accepted[i] + b.damaged[i] <= orders[o].quantity[i]}
VisitInputs ==
    LET form == [o \in Live |-> FormInputs(o)]
    IN  UNION {{bodies \in [S -> BodyInputs] : \A o \in S : bodies[o] \in form[o]} :
               S \in (SUBSET Live) \ {{}}}

OrderStep ==
    \E o \in OrderIds, date \in Days :
        \/ \E payment \in PaymentTypes, requested \in Requests,
              deposit \in [Items -> Deposits], override \in Overrides :
              CreateOrder(o, payment, date, requested, deposit, override)
        \/ EditHeader(o, date)
        \/ \E requested \in Requests, deposit \in [Items -> Deposits],
              override \in Overrides :
              EditLines(o, date, requested, deposit, override)

CancelStep == \E o \in OrderIds : CancelOrder(o)

ReturnStep ==
    \E date \in Days :
        \/ \E o \in Live : \E body \in FormInputs(o) : CreateReturn(o, body, date)
        \/ \E r \in StandingReturns : \E body \in FormInputs(returns[r].order) :
              ReplaceReturn(r, body, date)
        \/ \E bodies \in VisitInputs, withOrder \in RecordedWith, extra \in ExtraInputs :
              CreateForCustomer(bodies, date, withOrder, extra)
        \/ \E r \in StandingReturns, bodies \in VisitInputs, extra \in ExtraInputs :
              ReplaceForCustomer(r, bodies, date, extra)

DeleteStep == \E r \in ReturnIds : DeleteReturn(r)

PaymentStep ==
    \E p \in PaymentIds :
        \/ \E o \in OrderIds, date \in Days, amount \in PaymentAmounts :
              CreatePayment(p, o, amount, date)
        \/ ReversePayment(p)

HandBackStep ==
    \E h \in HandBackIds :
        \/ \E i \in Items, quantity \in 1 .. (MaxQuantity + MaxExtra) : HandBack(h, i, quantity)
        \/ UndoHandBack(h)

Next == OrderStep \/ CancelStep \/ ReturnStep \/ DeleteStep \/ PaymentStep
        \/ HandBackStep \/ ArchiveCustomer

Spec == Init /\ [][Next]_vars
-----------------------------------------------------------------------------
(* computeOrderTotals never throws on a live order: whatever was returned,  *)
(* corrected, paid and reversed in whatever order, its rows never add up to *)
(* less than nothing owed, nor to more pallets back than went out.          *)
TotalsNeverThrow ==
    \A o \in Live : LET totals == TotalsOf(o)
                    IN  totals.owed >= 0 /\ \A i \in Items : totals.out[i] >= 0

(* The stored columns of every order are what its rows add up to: no        *)
(* handler leaves an order it changed without recomputing it.               *)
CacheIsRecomputation ==
    \A o \in OrderIds : orders[o].state # "none" => cache[o] = TotalsOf(o)

(* What is on hand is what the factory started with, less what live orders  *)
(* lent, plus what standing returns accepted, plus what it holds of the     *)
(* pallets it owes: every handler's stock movements match its rows.         *)
StockMatchesLedgers ==
    \A i \in Items :
        stock[i] = InitialStock
                   - SumOver(Live, [o \in OrderIds |-> orders[o].quantity[i]])
                   + SumOver(StandingReturns, [r \in ReturnIds |-> returns[r].body.accepted[i]])
                   + owing[i]

(* The one ledger of pallets owed reads the same by item as by return, by   *)
(* order and by hand-back, and no correction or deletion takes back more    *)
(* than is still owed: an item's balance never goes below zero.             *)
CreditsAddUp ==
    \A i \in Items :
        /\ owing[i] = SumOver(ReturnIds, [r \in ReturnIds |-> surplus[r][i]])
                      - SumOver(OrderIds, [o \in OrderIds |-> orders[o].used[i]])
                      - SumOver({h \in HandBackIds : handBacks[h].state = "standing"},
                                [h \in HandBackIds |-> handBacks[h].quantity[i]])
        /\ owing[i] >= 0

(* A return that paid out has one REFUND of that amount, standing exactly   *)
(* as long as the return does; one that paid nothing has none.              *)
RefundStandsWithItsReturn ==
    \A r \in ReturnIds :
        /\ refunds[r].state = "standing" <=>
              returns[r].state = "standing" /\ returns[r].cashRefund > 0
        /\ refunds[r].state # "none" => refunds[r].amount = returns[r].cashRefund

(* A live cash order has exactly one standing payment, automatic, of its    *)
(* deposit - none when the deposit is 0 - through every edit and reversal.  *)
CashPaidAutomatically ==
    \A o \in Live : orders[o].payment = "CASH" =>
        /\ \A p \in PaymentsOf(o) :
              payments[p].automatic /\ payments[p].amount = DepositTotal(orders[o])
        /\ Cardinality(PaymentsOf(o)) = IF DepositTotal(orders[o]) > 0 THEN 1 ELSE 0

(* Nothing stands on a cancelled order: no return, no payment, no pallets   *)
(* taken of those owed, and no other order's return recorded with it.       *)
CancelledHoldsNothing ==
    \A o \in OrderIds : orders[o].state = "cancelled" =>
        /\ PaymentsOf(o) = {}
        /\ \A r \in StandingReturns : returns[r].order # o /\ returns[r].withOrder # o
        /\ \A i \in Items : orders[o].used[i] = 0

(* Whatever the order of recordings and re-datings, nothing that stands on  *)
(* an order, or was recorded with it, is dated before it.                   *)
ActivityNotBeforeOrder ==
    /\ \A r \in StandingReturns :
          /\ returns[r].date >= orders[returns[r].order].date
          /\ returns[r].withOrder # 0 =>
                returns[r].date >= orders[returns[r].withOrder].date
    /\ \A p \in PaymentIds : payments[p].state = "standing" /\ ~payments[p].automatic
          => payments[p].date >= orders[payments[p].order].date

(* Whatever stands on an order, or was recorded with it, finds it live and  *)
(* dated no later.                                                          *)
ActivityKeepsToItsOrder == CancelledHoldsNothing /\ ActivityNotBeforeOrder

(* Pallets come to be owed beside pallets of that type out in one way only: *)
(* an order that had taken them is cancelled.                               *)
OnlyCancelOwesBesideOut ==
    [][\A i \in Items : ~OwedBesideOut(i) /\ OwedBesideOut(i)'
           => \E o \in OrderIds : orders[o].state = "live" /\ orders'[o].state = "cancelled"]_vars

(* A step that leaves what is owed as it was and a standing return's surplus*)
(* alone leaves what remains of that surplus alone: a correction moving its *)
(* own keeps its place in the order pallets owed go out, and never pushes   *)
(* what was given back onto a later return. One edit may: of a visit whose  *)
(* surplus lies elsewhere by now, onto the correction of a return that had  *)
(* some before, and so into that return's old place.                        *)
TakesOldPlace(i) ==
    \E q, new \in ReturnIds :
        /\ i \in credited[q] /\ surplus'[q][i] = surplus[q][i]
        /\ returns[q].replacedBy = 0 /\ returns'[q].replacedBy = new
        /\ surplus'[new][i] > 0
CorrectionKeepsPlace ==
    [][owing' = owing =>
         \A i \in Items, r \in ReturnIds :
             /\ returns[r].state = "standing" /\ returns'[r].state = "standing"
             /\ surplus'[r][i] = surplus[r][i]
             /\ ~TakesOldPlace(i)
             => RemainingByReturn(i)'[r] = RemainingByReturn(i)[r]]_vars

(* A deleted return of a visit takes the visit's surplus of what it took    *)
(* back with it, whichever of the visit's returns carries it: it was counted*)
(* over all of them.                                                        *)
VisitSurplusGoesWithItsReturns ==
    [][\A r, q \in ReturnIds, i \in Items :
          /\ returns[r].state = "standing" /\ returns'[r].state = "DELETE"
          /\ returns[r].visit # 0 /\ returns[q].visit = returns[r].visit
          /\ i \in BodyItems(returns[r].body)
          /\ \A k \in ReturnIds : returns[k].state = "none" => returns'[k].state = "none"
          => surplus'[q][i] = 0]_vars

(* Pallets are lent only once none of that type is owed: whatever an order  *)
(* already took, a hand-over or an edit that lends more leaves nothing owed.*)
OwedGoesOutFirst ==
    [][\A o \in OrderIds, i \in Items :
          orders'[o].quantity[i] > orders[o].quantity[i] => Owed(i)' = 0]_vars

(* An archived customer starts with every order settled by its rows.        *)
ArchivedWhenSettled ==
    [][~archived /\ archived' =>
         \A o \in Live : TotalsOf(o).owed = 0 /\ \A i \in Items : TotalsOf(o).out[i] = 0]_vars

(* With no override, an order that grows leaves the value of all pallets    *)
(* out, by the rows of every live order, within the credit limit.           *)
OutValueByRows == SumOver(Live, [o \in OrderIds |-> TotalsOf(o).outValue])
CreditRespected ==
    [][(\E o \in OrderIds : orders'[o].state = "live"
            /\ DepositTotal(orders'[o]) > DepositTotal(orders[o]))
        => OutValueByRows' <= CreditLimit]_vars
-----------------------------------------------------------------------------
(* The promise about money, and how the rows keep it: what a return credits *)
(* is what it was worth less what it paid out in cash.                      *)
CreditsOf(o) ==
    SumOver(ReturnsOf(o), [r \in ReturnsOf(o) |->
        returns[r].refundDue - returns[r].cashRefund])
Account == INSTANCE OrderAccount WITH
    Orders  <- OrderIds,
    Amounts <- Counts,
    state   <- [o \in OrderIds |-> orders[o].state],
    deposit <- [o \in OrderIds |-> DepositTotal(orders[o])],
    paid    <- [o \in OrderIds |-> PaidOn(o)],
    credits <- [o \in OrderIds |-> CreditsOf(o)]

(* Every step of the rows is a step of the account, or leaves it alone.     *)
KeepsAccount == Account!AccountSpec
=============================================================================
