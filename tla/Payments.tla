------------------------------ MODULE Payments ------------------------------
(***************************************************************************)
(* Manual payments on a lent order, and their reversal (payments.service). *)
(***************************************************************************)
EXTENDS LendingState

(* The cap is what the ledger rows say is owed, not the stored total. *)
WithinDeposit(o, amount) == amount <= TotalsOf(o).depositTotal     \* mutant
WithinOwed(o, amount) == amount <= TotalsOf(o).owed

CreatePayment(p, o, amount, date) ==
    /\ NextFree(p, PaymentIds, payments)
    /\ o \in Live
    /\ orders[o].payment = "LENT"
    /\ date >= orders[o].date
    /\ WithinOwed(o, amount)
    /\ payments' = [payments EXCEPT ![p] =
            [state |-> "standing", order |-> o, automatic |-> FALSE,
             amount |-> amount, date |-> date]]
    /\ UNCHANGED <<orders, returns, refunds>>
    /\ RecomputeOrders({o})
    /\ UNCHANGED <<stock, owing, surplus, credited, handBacks, archived>>

(* reverse: a manual payment that stands, once. The order's totals follow.  *)
NotRecomputed(p) == {}                                             \* mutant
Recomputed(p) == {payments[p].order}
ReversePayment(p) ==
    /\ payments[p].state = "standing"
    /\ ~payments[p].automatic
    /\ payments' = [payments EXCEPT ![p].state = "reversed"]
    /\ UNCHANGED <<orders, returns, refunds>>
    /\ RecomputeOrders(Recomputed(p))
    /\ UNCHANGED <<stock, owing, surplus, credited, handBacks, archived>>
=============================================================================
