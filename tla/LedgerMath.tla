----------------------------- MODULE LedgerMath -----------------------------
(***************************************************************************)
(* The pure arithmetic of an order, of packages/shared/src/domain/         *)
(* ledger-math.ts: what a return credits, what it pays out in cash, every  *)
(* derived figure of an order, and the credit-limit rule.                  *)
(*                                                                         *)
(* An order is a record with per-item functions (a line of the code is an  *)
(* item with a quantity above zero: lines are unique by item); a return is *)
(* a record with per-item functions of what came back.                     *)
(***************************************************************************)
EXTENDS Integers, FiniteSetsExt

CONSTANT Items                  \* pallet types

(* A return body that takes nothing back. *)
NoBody == [accepted       |-> [i \in Items |-> 0],
           damaged        |-> [i \in Items |-> 0],
           damagedRefund  |-> [i \in Items |-> 0]]

LesserOf(a, b) == IF a <= b THEN a ELSE b
ZeroOrMore(n)  == IF n > 0 THEN n ELSE 0

(* Sum of f[x] over x in S. *)
SumOver(S, f) == MapThenSumSet(LAMBDA x : f[x], S)

-----------------------------------------------------------------------------
(* What a return credits: its accepted pallets at the order line's deposit, *)
(* and what was agreed for its damaged ones.                                *)
RefundDue(deposit, body) ==
    SumOver(Items, [i \in Items |->
        body.accepted[i] * deposit[i] + body.damagedRefund[i]])

(* The part of a return's credit beyond what was owed is paid out in cash. *)
CashRefund(owedBefore, due) == ZeroOrMore(due - owedBefore)

DepositTotal(order) ==
    SumOver(Items, [i \in Items |-> order.quantity[i] * order.deposit[i]])

(* Pallets of an item neither accepted nor damaged by the active returns. *)
LeftOut(order, active, body) ==
    [i \in Items |-> order.quantity[i]
        - SumOver(active, [r \in active |-> body[r].accepted[i] + body[r].damaged[i]])]

(* Every derived value of one order: `active` are its returns not reversed, *)
(* `paid` and `refunded` its ledger rows net of their reversals.            *)
OrderTotals(order, active, body, paid, refunded) ==
    IF order.state = "cancelled"
    THEN [status |-> "CANCELLED", depositTotal |-> DepositTotal(order),
          owed |-> 0, outValue |-> 0, out |-> [i \in Items |-> 0]]
    ELSE LET out     == LeftOut(order, active, body)
             credits == SumOver(active, [r \in active |-> RefundDue(order.deposit, body[r])])
             owed    == DepositTotal(order) - paid - credits + refunded
         IN  [status       |-> IF owed > 0 \/ (\E i \in Items : out[i] > 0)
                               THEN "OPEN" ELSE "SETTLED",
              depositTotal |-> DepositTotal(order),
              owed         |-> owed,
              outValue     |-> SumOver(Items, [i \in Items |-> out[i] * order.deposit[i]]),
              out          |-> out]

(* A larger deposit is allowed while it keeps the pallets out within the    *)
(* customer's limit; a smaller or equal one always is.                      *)
CreditAllows(limit, customerOutValue, depositDelta) ==
    depositDelta <= 0 \/ customerOutValue + depositDelta <= limit

=============================================================================
