---------------------------- MODULE ReadingProofs ----------------------------
(***************************************************************************)
(* What is read back of the rows, for every value of the constants: the    *)
(* books reconcile, the reports agree, and a return opened again for       *)
(* editing is taken as it was.                                             *)
(***************************************************************************)
EXTENDS CreditProofs, Reconciliation

(* What every row was when it was written, and stays: an order is dated, a  *)
(* return is of a recorded order, of some item, paid out no more than it    *)
(* was worth and has a REFUND when it paid anything; a payment is of a      *)
(* recorded order, and a manual one of a lent one.                          *)
OrdersDated == \A o \in OrderIds : orders[o].state # "none" => orders[o].date \in Days
NeverWritten(r) == returns[r].visit = 0 /\ refunds[r].state = "none"
RecordKept(r) ==
    LET row == returns[r]
    IN  /\ row.order \in OrderIds /\ orders[row.order].state # "none"
        /\ row.date \in Days /\ BodyItems(row.body) # {}
        /\ row.refundDue \in Nat /\ row.cashRefund <= row.refundDue
        /\ (row.state = "EDIT") = (row.replacedBy # 0)
        /\ row.replacedBy # r
        /\ (refunds[r].state # "none") = (row.cashRefund > 0)
ReturnKept(r) == IF returns[r].state = "none" THEN NeverWritten(r) ELSE RecordKept(r)
PaymentKept(p) ==
    LET row == payments[p]
    IN  /\ row.order \in OrderIds /\ orders[row.order].state # "none"
        /\ row.amount > 0
        /\ ~row.automatic => row.date \in Days /\ orders[row.order].payment = "LENT"
PaymentsKept == \A p \in PaymentIds : payments[p].state # "none" => PaymentKept(p)

(* No damaged pallet was refunded above its deposit, at what the order      *)
(* charges now.                                                             *)
DamageWithin ==
    \A r \in StandingReturns, i \in Items :
        returns[r].body.damagedRefund[i]
          <= returns[r].body.damaged[i] * orders[returns[r].order].deposit[i]

(* The returns of a visit have one date and were recorded with one order,   *)
(* and the visit is named for a return that was written.                    *)
SameVisit(q, r) ==
    returns[q].state # "none" /\ returns[q].visit = returns[r].visit
        => returns[q].date = returns[r].date /\ returns[q].withOrder = returns[r].withOrder
VisitKept(r) ==
    returns[r].state # "none" /\ returns[r].visit # 0 =>
        /\ returns[r].visit \in ReturnIds /\ returns[returns[r].visit].state # "none"
        /\ \A q \in ReturnIds : SameVisit(q, r)
VisitsTogether == \A r \in ReturnIds : VisitKept(r)

(* Surplus stands on a return that took the item back. *)
SurplusOfItems ==
    \A r \in StandingReturns, i \in Items : surplus[r][i] > 0 => i \in BodyItems(returns[r].body)

RecordInv ==
    /\ OrdersDated /\ (\A r \in ReturnIds : ReturnKept(r)) /\ PaymentsKept
    /\ DamageWithin /\ VisitsTogether /\ SurplusOfItems
-----------------------------------------------------------------------------
(* A step of orders and payments: rows stay recorded, of the kind they were,*)
(* and an order on which a return stands keeps its deposits.                *)
OrdersMove ==
    /\ UNCHANGED <<returns, refunds, surplus>>
    /\ \A o \in OrderIds :
          /\ orders[o].state # "none" => orders'[o].state # "none"
          /\ (\E r \in StandingReturns : returns[r].order = o)
                => orders'[o].deposit = orders[o].deposit
    /\ OrdersDated' /\ PaymentsKept'

LEMMA OrdersMoveKeeps ==
  ASSUME TypeOK, LedgerInv, RecordInv, OrdersMove PROVE RecordInv'
<1>1. ASSUME NEW r \in ReturnIds PROVE ReturnKept(r)'
  <2>1. returns'[r] = returns[r] /\ refunds'[r] = refunds[r] /\ ReturnKept(r)
    BY DEF OrdersMove, RecordInv
  <2>2. CASE returns[r].state = "none"
    BY <2>1, <2>2 DEF ReturnKept, NeverWritten
  <2>3. CASE returns[r].state # "none"
    <3>1. RecordKept(r)
      BY <2>1, <2>3 DEF ReturnKept
    <3>2. orders'[returns[r].order].state # "none"
      BY <3>1 DEF OrdersMove, RecordKept
    <3>3. RecordKept(r)'
      BY <2>1, <3>1, <3>2 DEF RecordKept, BodyItems
    <3> QED BY <2>1, <2>3, <3>3 DEF ReturnKept
  <2> QED BY <2>2, <2>3
<1>2. DamageWithin'
  <2> SUFFICES ASSUME NEW r \in StandingReturns', NEW i \in Items
               PROVE  returns'[r].body.damagedRefund[i]
                        <= returns'[r].body.damaged[i] * orders'[returns'[r].order].deposit[i]
    BY DEF DamageWithin
  <2>1. r \in StandingReturns /\ returns'[r] = returns[r]
    BY DEF OrdersMove, StandingReturns
  <2>2. returns[r].order \in OrderIds
    BY <2>1 DEF LedgerInv, StandingOnLive, Live
  <2>3. orders'[returns[r].order].deposit = orders[returns[r].order].deposit
    BY <2>1, <2>2 DEF OrdersMove
  <2> QED BY <2>1, <2>3 DEF RecordInv, DamageWithin
<1>3. VisitsTogether'
  BY DEF OrdersMove, RecordInv, VisitsTogether, VisitKept, SameVisit
<1>4. SurplusOfItems'
  BY DEF OrdersMove, RecordInv, SurplusOfItems, StandingReturns, BodyItems
<1> QED BY <1>1, <1>2, <1>3, <1>4 DEF OrdersMove, RecordInv

(* A payment that was there keeps what it was, for orders that do. *)
LEMMA PaymentStays ==
  ASSUME NEW p, PaymentKept(p), NEW q,
         q.order = payments[p].order, q.amount = payments[p].amount,
         q.automatic = payments[p].automatic, q.date = payments[p].date,
         payments'[p] = q,
         orders[payments[p].order].state # "none"
           => /\ orders'[payments[p].order].state # "none"
              /\ orders'[payments[p].order].payment = orders[payments[p].order].payment
  PROVE  PaymentKept(p)'
BY DEF PaymentKept

OrdersStay ==
    \A k \in OrderIds : orders[k].state # "none" =>
        orders'[k].state # "none" /\ orders'[k].payment = orders[k].payment

LEMMA IssueKeeps ==
  ASSUME TypeOK, PaymentsKept, NEW o \in OrderIds, NEW reversed, NEW amount \in Nat,
         IssuePayment(o, reversed, amount), reversed \subseteq PaymentsOf(o),
         OrdersStay, orders'[o].state # "none"
  PROVE  PaymentsKept'
<1> SUFFICES ASSUME NEW p \in PaymentIds, payments'[p].state # "none" PROVE PaymentKept(p)'
  BY DEF PaymentsKept
<1>1. CASE Issued(o, amount, p)
  BY <1>1 DEF Issued, PaymentKept
<1>2. CASE ~Issued(o, amount, p)
  <2>1. \/ p \in reversed /\ payments'[p] = [payments[p] EXCEPT !.state = "reversed"]
        \/ payments'[p] = payments[p]
    BY <1>2, IssueEffect
  <2>2. payments[p].state # "none" /\ payments[p] \in PaymentRows
    BY <2>1 DEF PaymentsOf, TypeOK
  <2>3. PaymentKept(p)
    BY <2>2 DEF PaymentsKept
  <2>4. /\ payments'[p].order = payments[p].order /\ payments'[p].amount = payments[p].amount
        /\ payments'[p].automatic = payments[p].automatic /\ payments'[p].date = payments[p].date
    BY <2>1, <2>2 DEF PaymentRows
  <2>5. payments[p].order \in OrderIds
    BY <2>3 DEF PaymentKept
  <2> QED BY <2>3, <2>4, <2>5, PaymentStays DEF OrdersStay
<1> QED BY <1>1, <1>2

LEMMA CreateOrderRecords ==
  ASSUME TypeOK, LedgerInv, RecordInv, NEW o \in OrderIds, NEW payment, NEW date \in Days,
         NEW requested, NEW deposit, NEW override,
         CreateOrder(o, payment, date, requested, deposit, override)
  PROVE  OrdersMove
<1> DEFINE used == TakenFromOwed(owing, requested)
           lent == Minus(requested, used)
           made == [state |-> "live", payment |-> payment, date |-> date, quantity |-> lent,
                    deposit |-> Priced(lent, deposit), used |-> used]
<1>0. /\ DepositTotal(made) \in Counts
      /\ orders' = [orders EXCEPT ![o] = made]
      /\ IssuePayment(o, {}, IF payment = "CASH" THEN DepositTotal(made) ELSE 0)
      /\ made.state = "live" /\ made.date = date
  BY DEF CreateOrder
<1>1. DepositTotal(made) \in Nat
  BY <1>0, BoundsAssumption DEF Counts
<1> HIDE DEF made
<1>2. UNCHANGED <<returns, refunds, surplus>> /\ orders[o].state = "none"
  BY DEF CreateOrder, NextFree
<1>3. orders'[o] = made /\ \A k \in OrderIds \ {o} : orders'[k] = orders[k]
  BY <1>0 DEF TypeOK
<1>4. ASSUME NEW r \in StandingReturns PROVE returns[r].order # o
  BY <1>2 DEF LedgerInv, StandingOnLive, Live
<1>5. OrdersDated'
  BY <1>0, <1>3 DEF OrdersDated, RecordInv
<1>6. PaymentsKept'
  <2>1. PICK amount \in Nat : IssuePayment(o, {}, amount)
    BY <1>0, <1>1
  <2>2. OrdersStay /\ orders'[o].state # "none"
    BY <1>0, <1>2, <1>3 DEF OrdersStay
  <2> QED BY <2>1, <2>2, IssueKeeps DEF RecordInv
<1> QED BY <1>0, <1>2, <1>3, <1>4, <1>5, <1>6 DEF OrdersMove

LEMMA EditHeaderRecords ==
  ASSUME TypeOK, LedgerInv, RecordInv, NEW o \in OrderIds, NEW date \in Days, EditHeader(o, date)
  PROVE  OrdersMove
<1>1. /\ UNCHANGED <<returns, refunds, payments, surplus>>
      /\ orders' = [orders EXCEPT ![o].date = date]
  BY DEF EditHeader
<1>2. \A k \in OrderIds : /\ orders'[k].state = orders[k].state
                          /\ orders'[k].payment = orders[k].payment
                          /\ orders'[k].deposit = orders[k].deposit
                          /\ orders'[k].date = IF k = o THEN date ELSE orders[k].date
  BY <1>1 DEF TypeOK, OrderRows
<1>3. OrdersDated'
  BY <1>2 DEF OrdersDated, RecordInv
<1>4. PaymentsKept'
  BY <1>1, <1>2 DEF PaymentsKept, PaymentKept, RecordInv
<1> QED BY <1>1, <1>2, <1>3, <1>4 DEF OrdersMove

LEMMA EditLinesRecords ==
  ASSUME TypeOK, LedgerInv, RecordInv, NEW o \in OrderIds, NEW date \in Days,
         NEW requested, NEW deposit, NEW override,
         EditLines(o, date, requested, deposit, override)
  PROVE  OrdersMove
<1>1. /\ UNCHANGED <<returns, refunds, surplus>> /\ o \in Live /\ NoActivity(o)
  BY DEF EditLines
<1>2. PICK lent, priced, used :
        orders' = [orders EXCEPT ![o] = [orders[o] EXCEPT !.date = date, !.quantity = lent,
                                                          !.deposit = priced, !.used = used]]
  BY DEF EditLines
<1>3. /\ orders'[o].state = "live" /\ orders'[o].payment = orders[o].payment
      /\ orders'[o].date = date /\ \A k \in OrderIds \ {o} : orders'[k] = orders[k]
  BY <1>1, <1>2 DEF TypeOK, OrderRows, Live
<1>4. ASSUME NEW r \in StandingReturns PROVE returns[r].order # o
  BY <1>1, NothingStands
<1>5. OrdersDated'
  BY <1>3 DEF OrdersDated, RecordInv
<1>6. OrdersStay /\ orders'[o].state # "none"
  BY <1>3 DEF OrdersStay
<1>7. PaymentsKept'
  <2>1. CASE UNCHANGED payments
    BY <1>6, <2>1 DEF OrdersStay, PaymentsKept, PaymentKept, RecordInv
  <2>2. CASE \E amount \in Counts : IssuePayment(o, StandingAutomatic(o), amount)
    <3>1. PICK amount \in Counts : IssuePayment(o, StandingAutomatic(o), amount)
      BY <2>2
    <3>2. amount \in Nat /\ StandingAutomatic(o) \subseteq PaymentsOf(o)
      BY BoundsAssumption DEF Counts, StandingAutomatic
    <3> QED BY <1>6, <3>1, <3>2, IssueKeeps DEF RecordInv
  <2>3. UNCHANGED payments \/ \E amount \in Counts : IssuePayment(o, StandingAutomatic(o), amount)
    BY DEF EditLines
  <2> QED BY <2>1, <2>2, <2>3
<1> QED BY <1>1, <1>3, <1>4, <1>5, <1>7 DEF OrdersMove, Live

LEMMA CancelOrderRecords ==
  ASSUME TypeOK, LedgerInv, RecordInv, NEW o \in OrderIds, CancelOrder(o) PROVE OrdersMove
<1>1. /\ UNCHANGED <<returns, refunds, surplus>> /\ o \in Live
      /\ IssuePayment(o, StandingAutomatic(o), 0)
      /\ orders' = [orders EXCEPT ![o].state = "cancelled", ![o].used = [i \in Items |-> 0]]
  BY DEF CancelOrder
<1>2. /\ orders'[o].state = "cancelled" /\ orders'[o].payment = orders[o].payment
      /\ orders'[o].date = orders[o].date /\ orders'[o].deposit = orders[o].deposit
      /\ \A k \in OrderIds \ {o} : orders'[k] = orders[k]
  BY <1>1 DEF TypeOK, OrderRows
<1>3. OrdersDated'
  BY <1>1, <1>2 DEF OrdersDated, RecordInv, Live
<1>4. PaymentsKept'
  <2>1. OrdersStay /\ orders'[o].state # "none"
    BY <1>2 DEF OrdersStay
  <2>2. StandingAutomatic(o) \subseteq PaymentsOf(o) /\ 0 \in Nat
    BY DEF StandingAutomatic
  <2> QED BY <1>1, <2>1, <2>2, IssueKeeps DEF RecordInv
<1> QED BY <1>1, <1>2, <1>3, <1>4 DEF OrdersMove

LEMMA PaymentRecords ==
  ASSUME TypeOK, LedgerInv, RecordInv, PaymentStep PROVE OrdersMove
<1>1. UNCHANGED <<orders, returns, refunds, surplus>>
  BY DEF PaymentStep, CreatePayment, ReversePayment
<1>2. OrdersDated'
  BY <1>1 DEF OrdersDated, RecordInv
<1>3. ASSUME NEW p \in PaymentIds, NEW o \in OrderIds, NEW date \in Days,
             NEW amount \in PaymentAmounts, CreatePayment(p, o, amount, date)
      PROVE  PaymentsKept'
  <2>1. amount > 0
    BY DataAssumption, BoundsAssumption
  <2>2. /\ payments' = [payments EXCEPT ![p] =
               [state |-> "standing", order |-> o, automatic |-> FALSE,
                amount |-> amount, date |-> date]]
        /\ o \in Live /\ orders[o].payment = "LENT"
    BY <1>3 DEF CreatePayment
  <2>3. PaymentKept(p)'
    BY <1>1, <2>1, <2>2 DEF PaymentKept, TypeOK, Live
  <2>4. \A q \in PaymentIds \ {p} : payments'[q] = payments[q]
    BY <2>2 DEF TypeOK
  <2> QED BY <1>1, <2>3, <2>4 DEF PaymentsKept, PaymentKept, RecordInv
<1>4. ASSUME NEW p \in PaymentIds, ReversePayment(p) PROVE PaymentsKept'
  <2>1. /\ payments' = [payments EXCEPT ![p].state = "reversed"] /\ payments[p].state = "standing"
    BY <1>4 DEF ReversePayment
  <2>2. payments'[p] = [payments[p] EXCEPT !.state = "reversed"] /\ payments[p] \in PaymentRows
    BY <2>1 DEF TypeOK
  <2>3. PaymentKept(p)'
    BY <1>1, <2>1, <2>2 DEF PaymentKept, PaymentsKept, RecordInv, PaymentRows
  <2>4. \A q \in PaymentIds \ {p} : payments'[q] = payments[q]
    BY <2>1 DEF TypeOK
  <2> QED BY <1>1, <2>3, <2>4 DEF PaymentsKept, PaymentKept, RecordInv
<1>5. PaymentsKept'
  BY <1>3, <1>4 DEF PaymentStep
<1> QED BY <1>1, <1>2, <1>5 DEF OrdersMove
-----------------------------------------------------------------------------
(* What a plan makes of a return: written, taken back or left as it was.    *)
WrittenAs(plan, date, withOrder, visit, o, r) ==
    /\ r = NewId(plan, o) /\ returns[r].state = "none"
    /\ returns'[r] = NewReturn(o, TakenBack(plan), plan[o].body, date, withOrder, visit)
    /\ returns'[r] \in ReturnRows /\ refunds'[r] = RefundOf(returns'[r])
ReversedTo(plan, r, k) ==
    /\ r \in TakenBack(plan) \ NewIds(plan) /\ k \in NewIds(plan) \cup {0}
    /\ returns'[r] = Reversed(r, k) /\ refunds'[r] = RefundReversed(r)
LEMMA PlanEffect ==
  ASSUME LedgerInv, NEW plan, PlanFits(plan), NEW date, NEW withOrder, NEW visit,
         WriteReturns(plan, date, withOrder, visit), NEW r \in ReturnIds
  PROVE  \/ \E o \in Written(plan) : WrittenAs(plan, date, withOrder, visit, o, r)
         \/ \E k : ReversedTo(plan, r, k)
         \/ r \notin TakenBack(plan) \cup NewIds(plan) /\ LeftAlone(r)
<1>1. CASE r \in NewIds(plan)
  <2>1. PICK o \in Written(plan) : r = NewId(plan, o)
    BY <1>1 DEF NewIds
  <2>2. /\ returns[r].state = "none" /\ returns'[r] \in ReturnRows
        /\ returns'[r] = NewReturn(o, TakenBack(plan), plan[o].body, date, withOrder, visit)
    BY <1>1, <2>1, PlanRows
  <2>3. \E row : returns'[r] = row /\ refunds'[r] = RefundOf(row)
    BY <1>1 DEF WriteReturns
  <2> QED BY <2>1, <2>2, <2>3 DEF WrittenAs
<1>2. CASE r \in TakenBack(plan) \ NewIds(plan)
  <2>1. PICK o : o = OrderOfOld(plan, r)
    OBVIOUS
  <2>2. PICK k : k = IF o \in Written(plan) THEN NewId(plan, o) ELSE 0
    OBVIOUS
  <2>3. returns'[r] = Reversed(r, k) /\ refunds'[r] = RefundReversed(r)
    BY <1>2, <2>1, <2>2 DEF WriteReturns
  <2>4. k \in NewIds(plan) \cup {0}
    BY <2>2 DEF NewIds
  <2> QED BY <1>2, <2>3, <2>4 DEF ReversedTo
<1>3. CASE r \notin TakenBack(plan) \cup NewIds(plan)
  BY <1>3 DEF WriteReturns, LeftAlone
<1> QED BY <1>1, <1>2, <1>3

(* The rows a handler of returns writes: of some item, on a day, as one     *)
(* visit or none, and no damaged pallet refunded above its deposit.         *)
PlanKept(plan, date, withOrder, visit) ==
    /\ PlanFits(plan) /\ WriteReturns(plan, date, withOrder, visit)
    /\ Written(plan) # {} => date \in Days
    /\ visit = 0 \/ (visit = FirstNew /\ FirstNew \in NewIds(plan))
    /\ \A o \in Written(plan) :
          /\ BodyItems(plan[o].body) # {}
          /\ \A i \in Items : plan[o].body.damagedRefund[i]
                                <= plan[o].body.damaged[i] * orders[o].deposit[i]

LEMMA WrittenRecord ==
  ASSUME AmountInv, RecordInv, NEW plan, NEW date, NEW withOrder, NEW visit,
         PlanKept(plan, date, withOrder, visit), UNCHANGED orders,
         NEW r \in ReturnIds, NEW o \in Written(plan), WrittenAs(plan, date, withOrder, visit, o, r)
  PROVE  ReturnKept(r)'
<1>1. PICK row : row = NewReturn(o, TakenBack(plan), plan[o].body, date, withOrder, visit)
  OBVIOUS
<1>2. row.refundDue \in Nat /\ row.cashRefund \in Nat /\ row.cashRefund <= row.refundDue
  BY <1>1, NewCreditFits DEF PlanKept, WrittenAs
<1>3. /\ row.state = "standing" /\ row.order = o /\ row.date = date /\ row.replacedBy = 0
      /\ row.body = plan[o].body
  BY <1>1 DEF NewReturn
<1>4. returns'[r] = row /\ refunds'[r] = RefundOf(row) /\ r # 0
  BY <1>1, BoundsAssumption DEF WrittenAs, ReturnIds
<1>5. (refunds'[r].state # "none") = (row.cashRefund > 0)
  BY <1>2, <1>4 DEF RefundOf, NoRefund
<1>6. o \in OrderIds /\ orders[o].state = "live"
  BY DEF PlanKept, PlanFits, Written, Live
<1>7. date \in Days /\ BodyItems(row.body) # {}
  BY <1>3 DEF PlanKept
<1>8. RecordKept(r)'
  BY <1>2, <1>3, <1>4, <1>5, <1>6, <1>7 DEF RecordKept, BodyItems
<1> QED BY <1>3, <1>4, <1>8 DEF ReturnKept

LEMMA ReversedRecord ==
  ASSUME LedgerInv, RecordInv, NEW plan, PlanFits(plan), DOMAIN plan \subseteq OrderIds,
         UNCHANGED orders, NEW r \in ReturnIds, NEW k, ReversedTo(plan, r, k)
  PROVE  ReturnKept(r)'
<1>1. r \in StandingReturns /\ returns[r] \in ReturnRows /\ refunds[r] \in RefundRows
  BY TakenBackOfOrder DEF ReversedTo, LedgerInv, TypeOK
<1>2. RecordKept(r) /\ returns[r].state = "standing"
  BY <1>1 DEF RecordInv, ReturnKept, StandingReturns
<1>3. k # r
  BY BoundsAssumption DEF ReversedTo, ReturnIds
<1>4. /\ returns'[r].state = IF k = 0 THEN "DELETE" ELSE "EDIT"
      /\ returns'[r].replacedBy = k
      /\ returns'[r].order = returns[r].order /\ returns'[r].date = returns[r].date
      /\ returns'[r].body = returns[r].body /\ returns'[r].refundDue = returns[r].refundDue
      /\ returns'[r].cashRefund = returns[r].cashRefund
  BY <1>1 DEF ReversedTo, Reversed, ReturnRows
<1>5. refunds'[r].state # "none" <=> refunds[r].state # "none"
  BY <1>1 DEF ReversedTo, RefundReversed, RefundRows
<1>6. RecordKept(r)'
  BY <1>2, <1>3, <1>4, <1>5 DEF RecordKept, BodyItems
<1> QED BY <1>4, <1>6 DEF ReturnKept

LEMMA LeftRecord ==
  ASSUME RecordInv, UNCHANGED orders, NEW r \in ReturnIds, LeftAlone(r)
  PROVE  ReturnKept(r)'
<1>1. ReturnKept(r) /\ returns'[r] = returns[r] /\ refunds'[r] = refunds[r] /\ orders' = orders
  BY DEF RecordInv, LeftAlone
<1> QED BY <1>1 DEF ReturnKept, NeverWritten, RecordKept, BodyItems

LEMMA PlanDamage ==
  ASSUME LedgerInv, RecordInv, UNCHANGED orders, NEW plan, NEW date, NEW withOrder, NEW visit,
         PlanKept(plan, date, withOrder, visit)
  PROVE  DamageWithin'
<1> SUFFICES ASSUME NEW r \in StandingReturns', NEW i \in Items
             PROVE  returns'[r].body.damagedRefund[i]
                      <= returns'[r].body.damaged[i] * orders[returns'[r].order].deposit[i]
  BY DEF DamageWithin
<1>1. r \in ReturnIds /\ returns'[r].state = "standing"
  BY DEF StandingReturns
<1>2. CASE \E o \in Written(plan) : WrittenAs(plan, date, withOrder, visit, o, r)
  <2>1. PICK o \in Written(plan) : WrittenAs(plan, date, withOrder, visit, o, r)
    BY <1>2
  <2>2. returns'[r].order = o /\ returns'[r].body = plan[o].body
    BY <2>1 DEF WrittenAs, NewReturn
  <2> QED BY <2>2 DEF PlanKept
<1>3. CASE \E k : ReversedTo(plan, r, k)
  <2>1. PICK k : ReversedTo(plan, r, k)
    BY <1>3
  <2>2. returns[r] \in ReturnRows
    BY <1>1 DEF LedgerInv, TypeOK
  <2>3. returns'[r].state \in {"EDIT", "DELETE"}
    BY <2>1, <2>2 DEF ReversedTo, Reversed, ReturnRows
  <2> QED BY <1>1, <2>3
<1>4. CASE LeftAlone(r)
  BY <1>1, <1>4 DEF LeftAlone, RecordInv, DamageWithin, StandingReturns
<1> QED BY <1>1, <1>2, <1>3, <1>4, PlanEffect DEF PlanKept

(* What a row says of its visit, before and after. *)
SaysTheSame(r) ==
    /\ returns'[r].visit = returns[r].visit /\ returns'[r].date = returns[r].date
    /\ returns'[r].withOrder = returns[r].withOrder
    /\ returns'[r].state # "none" <=> returns[r].state # "none"
LEMMA PlanVisits ==
  ASSUME LedgerInv, RecordInv, TypeOK', NEW plan, NEW date, NEW withOrder, NEW visit,
         PlanKept(plan, date, withOrder, visit)
  PROVE  VisitsTogether'
<1>1. ASSUME NEW r \in ReturnIds
      PROVE  \/ /\ r \in NewIds(plan) /\ returns[r].state = "none" /\ returns'[r].state = "standing"
                /\ returns'[r].date = date
                /\ returns'[r].withOrder = withOrder /\ returns'[r].visit = visit
             \/ r \notin NewIds(plan) /\ SaysTheSame(r)
  <2>1. CASE \E o \in Written(plan) : WrittenAs(plan, date, withOrder, visit, o, r)
    BY <2>1 DEF WrittenAs, NewReturn, NewIds
  <2>2. CASE \E k : ReversedTo(plan, r, k)
    <3>1. PICK k : ReversedTo(plan, r, k)
      BY <2>2
    <3>2. returns[r] \in ReturnRows /\ returns[r].state = "standing"
      BY <3>1, TakenBackOfOrder DEF PlanKept, ReversedTo, LedgerInv, TypeOK, StandingReturns
    <3> QED BY <3>1, <3>2 DEF ReversedTo, Reversed, ReturnRows, SaysTheSame
  <2>3. CASE r \notin TakenBack(plan) \cup NewIds(plan) /\ LeftAlone(r)
    BY <2>3 DEF LeftAlone, SaysTheSame
  <2> QED BY <2>1, <2>2, <2>3, PlanEffect DEF PlanKept
<1>2. NewIds(plan) \subseteq ReturnIds
  BY PlanRows DEF PlanKept
<1>3. visit # 0 => /\ visit \in NewIds(plan)
                   /\ \A q \in ReturnIds : returns[q].state # "none" => returns[q].visit # visit
  <2> SUFFICES ASSUME visit # 0, NEW q \in ReturnIds, returns[q].state # "none", returns[q].visit = visit
               PROVE  FALSE
    BY DEF PlanKept
  <2>1. visit = FirstNew /\ FirstNew \in NewIds(plan)
    BY DEF PlanKept
  <2>2. returns[visit].state # "none"
    BY DEF RecordInv, VisitsTogether, VisitKept
  <2>3. returns[visit].state = "none"
    BY <1>1, <1>2, <2>1
  <2> QED BY <2>2, <2>3
<1> SUFFICES ASSUME NEW r \in ReturnIds, returns'[r].state # "none", returns'[r].visit # 0
             PROVE  /\ returns'[r].visit \in ReturnIds /\ returns'[returns'[r].visit].state # "none"
                    /\ \A q \in ReturnIds : SameVisit(q, r)'
  BY DEF VisitsTogether, VisitKept
<1>4. CASE r \in NewIds(plan)
  <2>1. returns'[r].visit = visit /\ returns'[r].date = date /\ returns'[r].withOrder = withOrder
    BY <1>1, <1>4
  <2>2. visit \in ReturnIds /\ returns'[visit].state # "none"
    BY <1>1, <1>2, <1>3, <2>1
  <2>3. ASSUME NEW q \in ReturnIds PROVE SameVisit(q, r)'
    BY <1>1, <1>3, <2>1 DEF SameVisit, SaysTheSame
  <2> QED BY <2>1, <2>2, <2>3
<1>5. CASE r \notin NewIds(plan)
  <2>1. SaysTheSame(r)
    BY <1>1, <1>5
  <2>2. PICK v : v = returns[r].visit
    OBVIOUS
  <2>3. v # 0 /\ returns[r].state # "none" /\ returns'[r].visit = v
    BY <2>1, <2>2 DEF SaysTheSame
  <2>4. v \in ReturnIds /\ returns[v].state # "none" /\ \A q \in ReturnIds : SameVisit(q, r)
    BY <2>2, <2>3 DEF RecordInv, VisitsTogether, VisitKept
  <2>5. returns'[v].state # "none"
    BY <1>1, <2>4 DEF SaysTheSame
  <2>6. v # visit
    BY <1>3, <2>2, <2>3
  <2>7. ASSUME NEW q \in ReturnIds PROVE SameVisit(q, r)'
    BY <1>1, <2>1, <2>2, <2>3, <2>4, <2>6 DEF SameVisit, SaysTheSame
  <2> QED BY <2>3, <2>4, <2>5, <2>7
<1> QED BY <1>4, <1>5

LEMMA PlanRecords ==
  ASSUME AmountInv, RecordInv, TypeOK', NEW plan, NEW date, NEW withOrder, NEW visit,
         PlanKept(plan, date, withOrder, visit), SurplusOfItems'
  PROVE  RecordInv'
<1>1. LedgerInv /\ PlanFits(plan) /\ WriteReturns(plan, date, withOrder, visit)
  BY DEF AmountInv, PlanKept
<1>2. orders' = orders /\ payments' = payments /\ DOMAIN plan \subseteq OrderIds
  BY <1>1 DEF WriteReturns, PlanFits, Live
<1>3. ASSUME NEW r \in ReturnIds PROVE ReturnKept(r)'
  BY <1>1, <1>2, PlanEffect, WrittenRecord, ReversedRecord, LeftRecord
<1>4. OrdersDated' /\ PaymentsKept'
  BY <1>2 DEF RecordInv, OrdersDated, PaymentsKept, PaymentKept
<1> QED BY <1>1, <1>2, <1>3, <1>4, PlanDamage, PlanVisits DEF RecordInv
-----------------------------------------------------------------------------
(* Each handler of returns writes such rows. *)
LEMMA BodyHasItem ==
  ASSUME NEW body \in BodyInputs PROVE BodyItems(body) # {}
<1> SUFFICES ASSUME BodyItems(body) = {} PROVE FALSE
  OBVIOUS
<1>1. /\ body \in [accepted : [Items -> 0 .. MaxQuantity], damaged : [Items -> 0 .. MaxQuantity],
                   damagedRefund : [Items -> DamageRefunds]]
      /\ body # NoBody /\ \A i \in Items : body.damaged[i] = 0 => body.damagedRefund[i] = 0
  BY DEF BodyInputs
<1>2. ASSUME NEW i \in Items
      PROVE  body.accepted[i] = 0 /\ body.damaged[i] = 0 /\ body.damagedRefund[i] = 0
  <2>1. body.accepted[i] \in Nat /\ body.damaged[i] \in Nat
    BY <1>1, BoundsAssumption
  <2>2. ~ (body.accepted[i] + body.damaged[i] > 0)
    BY DEF BodyItems
  <2> QED BY <1>1, <2>1, <2>2
<1>3. /\ body.accepted = [i \in Items |-> 0] /\ body.damaged = [i \in Items |-> 0]
      /\ body.damagedRefund = [i \in Items |-> 0]
  BY <1>1, <1>2
<1> QED BY <1>1, <1>3 DEF NoBody

LEMMA FirstIsWritten ==
  ASSUME NEW plan, DOMAIN plan \subseteq OrderIds, Written(plan) # {}
  PROVE  FirstNew \in NewIds(plan)
<1>1. Written(plan) \in SUBSET (0 .. MaxOrders)
  BY BoundsAssumption DEF Written, OrderIds
<1>2. PICK o \in Written(plan) : \A p \in Written(plan) : o <= p
  BY <1>1, SmallestCount, BoundsAssumption
<1>3. {p \in Written(plan) : p < o} = {}
  BY <1>1, <1>2
<1>4. NewId(plan, o) = FirstNew + 0
  BY <1>3, FS_EmptySet DEF NewId
<1>5. FirstNew \in Nat
  BY NewIdsDiffer
<1> QED BY <1>4, <1>5 DEF NewIds

LEMMA CreateReturnRecords ==
  ASSUME TypeOK, NEW o, NEW body \in BodyInputs, NEW date \in Days, CreateReturn(o, body, date)
  PROVE  \E plan, withOrder, visit : PlanKept(plan, date, withOrder, visit)
<1>1. PICK plan : plan = [k \in {o} |-> [old |-> 0, body |-> body]]
  OBVIOUS
<1>2. WriteReturns(plan, date, 0, 0)
  BY <1>1 DEF CreateReturn
<1>3. PlanFits(plan)
  BY <1>1, CreateReturnFits
<1>4. \A i \in Items : body.damagedRefund[i] <= body.damaged[i] * orders[o].deposit[i]
  BY DEF CreateReturn, Returnable
<1>5. \A k \in Written(plan) : k = o /\ plan[k].body = body
  BY <1>1 DEF Written
<1> QED BY <1>2, <1>3, <1>4, <1>5, BodyHasItem DEF PlanKept

LEMMA ReplaceReturnRecords ==
  ASSUME TypeOK, NEW r \in ReturnIds, NEW body \in BodyInputs, NEW date \in Days,
         ReplaceReturn(r, body, date)
  PROVE  \E plan, withOrder, visit : PlanKept(plan, date, withOrder, visit)
<1>1. PICK plan : plan = [k \in {returns[r].order} |-> [old |-> r, body |-> body]]
  OBVIOUS
<1>2. WriteReturns(plan, date, returns[r].withOrder, 0)
  BY <1>1 DEF ReplaceReturn
<1>3. PlanFits(plan)
  BY <1>1, ReplaceReturnFits
<1>4. \A i \in Items : body.damagedRefund[i]
                         <= body.damaged[i] * orders[returns[r].order].deposit[i]
  BY DEF ReplaceReturn, Returnable
<1>5. \A k \in Written(plan) : k = returns[r].order /\ plan[k].body = body
  BY <1>1 DEF Written
<1> QED BY <1>2, <1>3, <1>4, <1>5, BodyHasItem DEF PlanKept

LEMMA DeleteReturnRecords ==
  ASSUME TypeOK, NEW r \in ReturnIds, DeleteReturn(r)
  PROVE  \E plan, date, withOrder, visit : PlanKept(plan, date, withOrder, visit)
<1>1. PICK plan : plan = [k \in {returns[r].order} |-> [old |-> r, body |-> NoBody]]
  OBVIOUS
<1>2. WriteReturns(plan, 0, 0, 0)
  BY <1>1 DEF DeleteReturn
<1>3. PlanFits(plan)
  BY <1>1, DeleteReturnFits
<1>4. Written(plan) = {}
  BY <1>1 DEF Written
<1> QED BY <1>2, <1>3, <1>4 DEF PlanKept

LEMMA VisitBodies ==
  ASSUME NEW bodies \in VisitInputs
  PROVE  \A o \in DOMAIN bodies : bodies[o] \in BodyInputs
BY DEF VisitInputs

LEMMA OneOrMore ==
  ASSUME NEW S, Cardinality(S) > 1 PROVE S # {}
BY FS_EmptySet

LEMMA CreateForCustomerRecords ==
  ASSUME TypeOK, NEW bodies \in VisitInputs, NEW date \in Days, NEW withOrder, NEW extra,
         CreateForCustomer(bodies, date, withOrder, extra)
  PROVE  \E plan, visit : PlanKept(plan, date, withOrder, visit)
<1>1. PICK plan : plan = [o \in DOMAIN bodies |-> [old |-> 0, body |-> bodies[o]]]
  OBVIOUS
<1>2. PICK visit : visit = IF Cardinality(DOMAIN bodies) > 1 THEN FirstNew ELSE 0
  OBVIOUS
<1>3. WriteReturns(plan, date, withOrder, visit)
  BY <1>1, <1>2 DEF CreateForCustomer
<1>4. \A o \in DOMAIN bodies : Returnable(o, {}, bodies[o], date)
  BY DEF CreateForCustomer
<1>5. PlanFits(plan)
  BY <1>1, <1>4, RecordingFits
<1>6. Written(plan) = DOMAIN bodies /\ \A o \in DOMAIN bodies : plan[o].body = bodies[o]
  BY <1>1, <1>4 DEF Written, Returnable
<1>7. visit = 0 \/ (visit = FirstNew /\ FirstNew \in NewIds(plan))
  BY <1>2, <1>5, <1>6, OneOrMore, FirstIsWritten DEF PlanFits, Live
<1> QED BY <1>3, <1>4, <1>5, <1>6, <1>7, BodyHasItem, VisitBodies DEF PlanKept, Returnable

LEMMA EditRecords ==
  ASSUME TypeOK, NEW r \in ReturnIds, NEW bodies \in VisitInputs, NEW date \in Days, NEW extra,
         ReplaceForCustomer(r, bodies, date, extra)
  PROVE  \E plan, withOrder, visit : PlanKept(plan, date, withOrder, visit)
<1>1. PICK plan : plan = EditPlan(r, bodies)
  OBVIOUS
<1>2. PICK visit : visit = IF Cardinality(Written(plan)) > 1 THEN FirstNew ELSE 0
  OBVIOUS
<1>3. \E withOrder : WriteReturns(plan, date, withOrder, visit)
  BY <1>1, <1>2 DEF ReplaceForCustomer, WriteEdit, EditPlan
<1>4. PlanFits(plan)
  BY <1>1, EditFits
<1>5. \A o \in Written(plan) : o \in DOMAIN bodies /\ plan[o].body = bodies[o]
  BY <1>1 DEF Written, EditPlan
<1>6. \A o \in DOMAIN bodies : \A i \in Items :
         bodies[o].damagedRefund[i] <= bodies[o].damaged[i] * orders[o].deposit[i]
  BY DEF ReplaceForCustomer, Returnable
<1>7. visit = 0 \/ (visit = FirstNew /\ FirstNew \in NewIds(plan))
  BY <1>2, <1>4, OneOrMore, FirstIsWritten DEF PlanFits, Live
<1> QED BY <1>3, <1>4, <1>5, <1>6, <1>7, BodyHasItem, VisitBodies DEF PlanKept
-----------------------------------------------------------------------------
(* Surplus stays with a return that took the item back. Extra is placed on  *)
(* one; a correction that leaves the item out would leave some of it out    *)
(* again, and is refused.                                                   *)
LEMMA MovedSurplusOfItems ==
  ASSUME LedgerInv, TypeOK', CreditsInv, RecordInv, MovesSurplus PROVE SurplusOfItems'
<1>1. PICK plan, extra, rows, taken : SurplusStep(plan, extra, rows, taken)
  BY DEF MovesSurplus
<1>2. PICK date, withOrder, visit : WriteReturns(plan, date, withOrder, visit)
  BY <1>1 DEF SurplusStep
<1>3. PlanFits(plan) /\ TypeOK /\ Replaces(NewIds(plan), TakenBack(plan))
  BY <1>1, MoveReplaces DEF SurplusStep, LedgerInv
<1> SUFFICES ASSUME NEW r \in StandingReturns', NEW i \in Items, surplus'[r][i] > 0
             PROVE  i \in BodyItems(returns'[r].body)
  BY DEF SurplusOfItems, BodyItems
<1>4. r \in ReturnIds /\ returns'[r].state = "standing"
  BY DEF StandingReturns
<1>5. CASE r \in NewIds(plan)
  <2>1. extra[i] > 0 /\ r = Carrier(plan, i)
    BY <1>1, <1>3, <1>5, MovedOf
  <2>2. PICK S : S = {o \in Written(plan) : i \in BodyItems(plan[o].body)}
    OBVIOUS
  <2>3. S # {} /\ S \in SUBSET (0 .. MaxOrders)
    BY <1>1, <2>1, <2>2, BoundsAssumption, <1>3
       DEF SurplusStep, ExtraOfItems, ReturnsItem, PlanFits, Live, OrderIds, Written
  <2>4. PICK o \in Written(plan) : o = Max(S) /\ i \in BodyItems(plan[o].body)
    BY <2>2, <2>3, LargestCount, BoundsAssumption
  <2>5. r = NewId(plan, o)
    BY <2>1, <2>2, <2>4 DEF Carrier
  <2>6. returns'[NewId(plan, o)] = NewReturn(o, TakenBack(plan), plan[o].body, date, withOrder, visit)
    BY <1>2, <1>3, PlanRows
  <2> QED BY <2>4, <2>5, <2>6 DEF NewReturn
<1>6. CASE r \notin NewIds(plan)
  <2>1. returns'[r] = returns[r]
    <3>1. ASSUME NEW k, ReversedTo(plan, r, k) PROVE FALSE
      <4>1. returns[r] \in ReturnRows
        BY <1>3, <1>4 DEF TypeOK
      <4> QED BY <1>4, <3>1, <4>1 DEF ReversedTo, Reversed, ReturnRows
    <3>2. ASSUME NEW o \in Written(plan), WrittenAs(plan, date, withOrder, visit, o, r) PROVE FALSE
      BY <1>6, <3>2 DEF WrittenAs, NewIds
    <3> QED BY <1>2, <1>3, <1>4, <3>1, <3>2, PlanEffect DEF LeftAlone
  <2>2. PICK left, before : left = RemainingByReturn(i)[r] /\ before = surplus[r][i]
    OBVIOUS
  <2>3. \/ surplus'[r][i] = before
        \/ left > 0 /\ surplus'[r][i] = before - left
    <3>1. \A x \in ReturnIds \ NewIds(plan) :
             \/ <<x, i>> \notin rows /\ surplus'[x][i] = surplus[x][i]
             \/ /\ <<x, i>> \in rows /\ RemainingByReturn(i)[x] > 0
                /\ surplus'[x][i] = surplus[x][i] - RemainingByReturn(i)[x]
      BY ONLY <1>1, <1>3, TypeOK', CreditsInv, MovedOf
    <3> QED BY ONLY <1>4, <1>6, <2>2, <3>1
  <2>4. left \in Int /\ before \in Nat
    BY <1>3, <1>4, <2>2, RemainingIsInt, CreditTypes
  <2>5. before > 0
    <3>1. PICK after : after = surplus'[r][i]
      OBVIOUS
    <3> QED BY <2>3, <2>4, <3>1
  <2> QED BY <1>4, <2>1, <2>2, <2>5 DEF RecordInv, SurplusOfItems, StandingReturns
<1> QED BY <1>5, <1>6

LEMMA SomeStillOut ==
  ASSUME OutInv', NEW o \in OrderIds, NEW i \in Items, OutOf(o, i)' > 0
  PROVE  OpenOut(i)' > 0
<1>1. PICK f : f = [k \in OrderIds |-> OutOf(k, i)']
  OBVIOUS
<1>2. /\ \A k \in OrderIds : f[k] \in Nat
      /\ OpenOut(i)' = SumOver(OrderIds, f)
  <2>1. AmountInv'
    BY DEF OutInv
  <2>2. \A k \in OrderIds : OutOf(k, i)' \in Nat
    BY <2>1, OutIsNatAfter
  <2>3. OpenOut(i)' = OutByRows(i)'
    BY OpenOutIsByRowsAfter
  <2> QED BY <1>1, <2>2, <2>3 DEF OutByRows
<1>3. SumOver({o}, f) = f[o] /\ f[o] > 0
  BY <1>1, <1>2, SumOfOne
<1>4. SumOver({o}, f) <= SumOver(OrderIds, f)
  BY <1>2, RowsAreFinite, SumOfPartAtMost
<1>5. SumOver(OrderIds, f) \in Nat /\ f[o] \in Nat
  BY <1>2, RowsAreFinite, SumIsNat
<1> QED BY <1>2, <1>3, <1>4, <1>5

LEMMA CorrectedSurplusOfItems ==
  ASSUME OutInv, OutInv', CreditsInv, RecordInv, NEW r \in ReturnIds, NEW body, NEW date,
         ReplaceReturn(r, body, date)
  PROVE  SurplusOfItems'
<1>0. TypeOK /\ LedgerInv /\ TypeOK' /\ AmountInv
  BY DEF OutInv, AmountInv, LedgerInv
<1>1. PICK new \in ReturnIds : CarriedOver(r, new)
  BY <1>0, CorrectionMoves
<1>2. PICK o \in OrderIds : o = returns[r].order
  BY DEF ReplaceReturn, Returnable, Live
<1>3. PICK plan : plan = [k \in {o} |-> [old |-> r, body |-> body]]
  OBVIOUS
<1>4. /\ PlanFits(plan) /\ WriteReturns(plan, date, returns[r].withOrder, 0)
      /\ r \in ReturnsOf(o) /\ body # NoBody
  BY <1>2, <1>3, ReplaceReturnFits DEF ReplaceReturn, ReturnsOf, StandingReturns, Returnable
<1>5. r # 0 /\ Back(plan, o) = {r} /\ o \in Written(plan) /\ plan[o].body = body /\ plan[o].old = r
  BY <1>3, <1>4, BoundsAssumption DEF Back, Written, ReturnIds
<1>6. NewIds(plan) = {FirstNew}
  BY <1>3, <1>4, OnlyNew
<1>7. NewId(plan, o) = FirstNew
  BY <1>5, <1>6 DEF NewIds
<1>8. /\ returns'[FirstNew] = NewReturn(o, TakenBack(plan), body, date, returns[r].withOrder, 0)
      /\ StandingReturns' = (StandingReturns \ TakenBack(plan)) \cup {FirstNew}
      /\ \A q \in StandingReturns \ TakenBack(plan) : returns'[q] = returns[q]
  BY <1>0, <1>4, <1>5, <1>6, <1>7, PlanRows
<1>9. TakenBack(plan) = {r}
  BY <1>3, <1>5 DEF TakenBack
<1>10. FirstNew = new
  <2>1. new \in StandingReturns' /\ new \notin StandingReturns
    BY <1>1 DEF CarriedOver, Replaces, StandingReturns
  <2> QED BY <1>8, <2>1
<1> SUFFICES ASSUME NEW q \in StandingReturns', NEW i \in Items, surplus'[q][i] > 0
             PROVE  i \in BodyItems(returns'[q].body)
  BY DEF SurplusOfItems, BodyItems
<1>11. CASE q # new
  <2>1. q \in StandingReturns \ {r} /\ returns'[q] = returns[q]
    BY <1>8, <1>9, <1>10, <1>11
  <2>2. surplus'[q] = surplus[q]
    BY <1>1, <1>11, <2>1 DEF CarriedOver, StandingReturns
  <2> QED BY <2>1, <2>2 DEF RecordInv, SurplusOfItems
<1>12. CASE q = new
  <2> SUFFICES ASSUME i \notin BodyItems(body) PROVE FALSE
    BY <1>8, <1>10, <1>12 DEF NewReturn
  <2>1. surplus[r][i] > 0 /\ r \in StandingReturns
    BY <1>1, <1>12 DEF CarriedOver
  <2>2. i \in BodyItems(returns[r].body)
    BY <2>1 DEF RecordInv, SurplusOfItems
  <2>3. OpenOut(i)' <= 0
    <3>1. PICK row : row = <<r, i>>
      OBVIOUS
    <3>2. row \in SurplusOf(r, BodyItems(returns[r].body)) /\ row[2] = i
      BY <2>1, <3>1 DEF SurplusOf
    <3>3. \A x \in SurplusOf(r, BodyItems(returns[r].body)) : OpenOut(x[2])' <= 0
      BY DEF ReplaceReturn, CarryOver
    <3> QED BY <3>2, <3>3
  <2>4. PICK was, left, after, back :
           /\ was = BackLeft(o, {}, i) /\ left = BackLeft(o, {r}, i)
           /\ after = BackLeft(o, {}, i)' /\ back = BackOf(r, i)
    OBVIOUS
  <2>5. was = left + back /\ back \in Nat
    BY <1>0, <1>4, <2>4, BackSplits
  <2>6. back > 0
    BY <2>2, <2>4 DEF BodyItems, BackOf
  <2>7. after = left + 0
    <3>1. /\ after = left + (body.accepted[i] + body.damaged[i])
          /\ body.accepted[i] \in Nat /\ body.damaged[i] \in Nat
      BY <1>0, <1>3, <1>4, <1>5, <2>4, BackAfterPlan
    <3>2. ~ (body.accepted[i] + body.damaged[i] > 0)
      BY DEF BodyItems
    <3> QED BY <3>1, <3>2
  <2>8. was <= orders[o].quantity[i] /\ orders[o].quantity[i] \in Nat /\ left \in Nat
    BY <1>0, <2>4, AmountTypes, RowTypes DEF AmountInv, WithinOrder
  <2>9. orders' = orders /\ orders[o].state = "live"
    BY <1>2, <1>4 DEF WriteReturns, ReplaceReturn, Returnable, Live
  <2>10. OutOf(o, i)' = orders[o].quantity[i] - after
    BY <2>4, <2>9 DEF OutOf
  <2>11. OutOf(o, i)' > 0
    BY <2>5, <2>6, <2>7, <2>8, <2>10
  <2>12. OpenOut(i)' > 0
    BY <2>11, SomeStillOut
  <2>13. OpenOut(i)' \in Int
    BY OpenOutIsByRowsAfter
  <2> QED BY <2>3, <2>12, <2>13
<1> QED BY <1>11, <1>12
-----------------------------------------------------------------------------
LEMMA SurplusItemsStep ==
  ASSUME OutInv, OutInv', CreditsInv, RecordInv, [Next]_vars PROVE SurplusOfItems'
<1>0. TypeOK /\ LedgerInv /\ TypeOK'
  BY DEF OutInv, AmountInv, LedgerInv
<1>1. CASE UNCHANGED <<returns, surplus, credited>>
  BY <1>1 DEF RecordInv, SurplusOfItems, StandingReturns, BodyItems
<1>2. CASE MovesSurplus
  BY <1>0, <1>2, MovedSurplusOfItems
<1>3. CASE \E r \in ReturnIds : \E body, date : ReplaceReturn(r, body, date)
  BY <1>3, CorrectedSurplusOfItems
<1> QED BY <1>0, <1>1, <1>2, <1>3, SurplusSteps

LEMMA OtherRecords ==
  ASSUME RecordInv, UNCHANGED <<orders, returns, refunds, payments, surplus>>
  PROVE  RecordInv'
<1>1. \A r \in ReturnIds : ReturnKept(r)'
  BY DEF RecordInv, ReturnKept, NeverWritten, RecordKept, BodyItems
<1>2. OrdersDated' /\ PaymentsKept' /\ VisitsTogether'
  BY DEF RecordInv, OrdersDated, PaymentsKept, PaymentKept, VisitsTogether, VisitKept, SameVisit
<1>3. DamageWithin' /\ SurplusOfItems'
  BY DEF RecordInv, DamageWithin, SurplusOfItems, StandingReturns, BodyItems
<1> QED BY <1>1, <1>2, <1>3 DEF RecordInv

LEMMA ReturnStepRecords ==
  ASSUME TypeOK, ReturnStep \/ DeleteStep
  PROVE  \E plan, date, withOrder, visit : PlanKept(plan, date, withOrder, visit)
<1>1. \A o : FormInputs(o) \subseteq BodyInputs
  BY DEF FormInputs
<1>2. CASE ReturnStep
  <2>1. PICK date \in Days :
        \/ \E o \in Live : \E body \in FormInputs(o) : CreateReturn(o, body, date)
        \/ \E r \in StandingReturns : \E body \in FormInputs(returns[r].order) :
              ReplaceReturn(r, body, date)
        \/ \E bodies \in VisitInputs, withOrder \in RecordedWith, extra \in ExtraInputs :
              CreateForCustomer(bodies, date, withOrder, extra)
        \/ \E r \in StandingReturns, bodies \in VisitInputs, extra \in ExtraInputs :
              ReplaceForCustomer(r, bodies, date, extra)
    BY <1>2 DEF ReturnStep
  <2>2. CASE \E o \in Live : \E body \in FormInputs(o) : CreateReturn(o, body, date)
    BY <1>1, <2>2, CreateReturnRecords
  <2>3. CASE \E r \in StandingReturns : \E body \in FormInputs(returns[r].order) :
                ReplaceReturn(r, body, date)
    BY <1>1, <2>3, ReplaceReturnRecords DEF StandingReturns
  <2>4. CASE \E bodies \in VisitInputs, withOrder \in RecordedWith, extra \in ExtraInputs :
                CreateForCustomer(bodies, date, withOrder, extra)
    BY <2>4, CreateForCustomerRecords
  <2>5. CASE \E r \in StandingReturns, bodies \in VisitInputs, extra \in ExtraInputs :
                ReplaceForCustomer(r, bodies, date, extra)
    BY <2>5, EditRecords DEF StandingReturns
  <2> QED BY <2>1, <2>2, <2>3, <2>4, <2>5
<1>3. CASE DeleteStep
  BY <1>3, DeleteReturnRecords DEF DeleteStep
<1> QED BY <1>2, <1>3

LEMMA RecordStep ==
  OutInv /\ OutInv' /\ CreditsInv /\ RecordInv /\ [Next]_vars => RecordInv'
<1> SUFFICES ASSUME OutInv, OutInv', CreditsInv, RecordInv, [Next]_vars PROVE RecordInv'
  OBVIOUS
<1>0. TypeOK /\ LedgerInv /\ TypeOK' /\ AmountInv
  BY DEF OutInv, AmountInv, LedgerInv
<1>1. CASE OrderStep
  <2>1. OrdersMove
    BY <1>0, <1>1, CreateOrderRecords, EditHeaderRecords, EditLinesRecords DEF OrderStep
  <2> QED BY <1>0, <2>1, OrdersMoveKeeps
<1>2. CASE CancelStep
  BY <1>0, <1>2, CancelOrderRecords, OrdersMoveKeeps DEF CancelStep
<1>3. CASE ReturnStep \/ DeleteStep
  <2>1. PICK plan, date, withOrder, visit : PlanKept(plan, date, withOrder, visit)
    BY <1>0, <1>3, ReturnStepRecords
  <2> QED BY <1>0, <2>1, SurplusItemsStep, PlanRecords
<1>4. CASE PaymentStep
  BY <1>0, <1>4, PaymentRecords, OrdersMoveKeeps
<1>5. CASE HandBackStep \/ ArchiveCustomer \/ UNCHANGED vars
  <2>1. UNCHANGED <<orders, returns, refunds, payments, surplus>>
    BY <1>5 DEF HandBackStep, HandBack, UndoHandBack, ArchiveCustomer, vars
  <2> QED BY <2>1, OtherRecords
<1> QED BY <1>1, <1>2, <1>3, <1>4, <1>5 DEF Next

LEMMA RecordsInitially == Init => RecordInv
<1> SUFFICES ASSUME Init PROVE RecordInv
  OBVIOUS
<1>1. /\ \A o \in OrderIds : orders[o].state = "none"
      /\ \A r \in ReturnIds : /\ returns[r].state = "none" /\ returns[r].visit = 0
                              /\ refunds[r].state = "none"
      /\ \A p \in PaymentIds : payments[p].state = "none"
  BY DEF Init, NoOrder, NoReturn, NoRefund, NoPayment
<1>2. StandingReturns = {}
  BY <1>1 DEF StandingReturns
<1>3. OrdersDated /\ PaymentsKept /\ VisitsTogether /\ DamageWithin /\ SurplusOfItems
  BY <1>1, <1>2 DEF OrdersDated, PaymentsKept, VisitsTogether, VisitKept, DamageWithin, SurplusOfItems
<1> QED BY <1>1, <1>3 DEF RecordInv, ReturnKept, NeverWritten

(* What every reading below rests on. *)
ReadInv == OutInv /\ CreditsInv /\ RecordInv
LEMMA ReadAlways == Spec => []ReadInv
<1>1. Init => RecordInv
  BY RecordsInitially
<1>2. OutInv /\ OutInv' /\ CreditsInv /\ RecordInv /\ [Next]_vars => RecordInv'
  BY RecordStep
<1>3. Spec => [](TypeOK /\ LedgerInv /\ CreditsInv /\ ChainInv)
  BY ChainHolds
<1>4. Spec => []OutInv
  BY OutAlways
<1> QED BY <1>1, <1>2, <1>3, <1>4, PTL DEF Spec, ReadInv
-----------------------------------------------------------------------------
(* A return opened again for editing. *)
LEMMA PartsStand ==
  ASSUME NEW r \in StandingReturns
  PROVE  r \in PartsOf(r) /\ PartsOf(r) \subseteq StandingReturns
BY DEF PartsOf, StandingReturns

LEMMA PartsTogether ==
  ASSUME ReadInv, NEW r \in StandingReturns, NEW q \in PartsOf(r)
  PROVE  returns[q].date = returns[r].date /\ returns[q].withOrder = returns[r].withOrder
<1>1. CASE returns[r].visit = 0
  BY <1>1 DEF PartsOf
<1>2. CASE returns[r].visit # 0
  <2>1. q \in StandingReturns /\ returns[q].visit = returns[r].visit
    BY <1>2 DEF PartsOf
  <2>2. VisitKept(r)
    BY DEF ReadInv, RecordInv, VisitsTogether, StandingReturns
  <2> QED BY <1>2, <2>1, <2>2 DEF VisitKept, SameVisit, StandingReturns
<1> QED BY <1>1, <1>2

LEMMA FitsWithoutItself ==
  ASSUME ReadInv, NEW q \in StandingReturns
  PROVE  WithinOut(TotalsWithout(returns[q].order, {q}).out, returns[q].body)
<1>0. TypeOK /\ LedgerInv /\ AmountInv
  BY DEF ReadInv, OutInv, AmountInv, LedgerInv
<1>1. PICK o \in Live : o = returns[q].order /\ o \in OrderIds /\ q \in ReturnsOf(o)
  BY <1>0 DEF LedgerInv, StandingOnLive, Live, ReturnsOf
<1> SUFFICES ASSUME NEW i \in Items
             PROVE  returns[q].body.accepted[i] + returns[q].body.damaged[i]
                      <= TotalsWithout(o, {q}).out[i]
  BY <1>1 DEF WithinOut
<1>2. PICK was, left, back, lent, out :
         /\ was = BackLeft(o, {}, i) /\ left = BackLeft(o, {q}, i) /\ back = BackOf(q, i)
         /\ lent = orders[o].quantity[i] /\ out = TotalsWithout(o, {q}).out[i]
  OBVIOUS
<1>3. was = left + back /\ back \in Nat
  BY <1>0, <1>1, <1>2, BackSplits
<1>4. out = lent - left
  BY <1>0, <1>1, <1>2, TotalsAre DEF AmountInv
<1>5. was <= lent /\ left \in Nat /\ lent \in Nat
  BY <1>0, <1>1, <1>2, AmountTypes, RowTypes DEF AmountInv, WithinOrder
<1>6. back <= out
  BY <1>3, <1>4, <1>5
<1> QED BY <1>2, <1>6 DEF BackOf

LEMMA PartFits ==
  ASSUME ReadInv, NEW r \in StandingReturns, NEW q \in PartsOf(r)
  PROVE  /\ returns[q].order \in Live
         /\ WithinOut(TotalsWithout(returns[q].order, {q}).out, returns[q].body)
         /\ NotBeforeOrder(returns[q].order, returns[r].date)
         /\ WithOrderAllows(returns[q].withOrder, returns[r].date)
<1>1. q \in StandingReturns /\ returns[q].date = returns[r].date
  BY PartsStand, PartsTogether
<1>2. LedgerInv
  BY DEF ReadInv, OutInv, AmountInv
<1>3. returns[q].order \in Live /\ NotBeforeOrder(returns[q].order, returns[r].date)
  BY <1>1, <1>2 DEF LedgerInv, StandingOnLive, ActivityNotBeforeOrder, NotBeforeOrder
<1>4. WithOrderAllows(returns[q].withOrder, returns[r].date)
  BY <1>1, <1>2 DEF LedgerInv, StandingOnLive, ActivityNotBeforeOrder, WithOrderAllows
<1> QED BY <1>1, <1>3, <1>4, FitsWithoutItself

LEMMA CashOfParts ==
  ASSUME ReadInv, NEW P \in SUBSET StandingReturns
  PROVE  Amounts({q \in P : refunds[q].state = "standing"}, refunds)
           = SumOver(P, [q \in ReturnIds |-> returns[q].cashRefund])
<1>0. TypeOK /\ RefundStandsWithItsReturn
  BY DEF ReadInv, OutInv, AmountInv, LedgerInv
<1>1. PICK paid, cash, amount :
         /\ paid = {q \in P : refunds[q].state = "standing"}
         /\ cash = [q \in ReturnIds |-> returns[q].cashRefund]
         /\ amount = [q \in paid |-> refunds[q].amount]
  OBVIOUS
<1>2. IsFiniteSet(P) /\ IsFiniteSet(paid) /\ paid \in SUBSET P
  BY <1>1, RowsAreFinite, FS_Subset DEF StandingReturns
<1>3. \A q \in P : /\ q \in ReturnIds /\ returns[q].state = "standing"
                   /\ returns[q].cashRefund \in Nat
  BY <1>0, RowTypes DEF StandingReturns
<1>4. \A q \in paid : cash[q] \in Int /\ cash[q] = amount[q]
  BY <1>0, <1>1, <1>3 DEF RefundStandsWithItsReturn
<1>5. \A q \in P \ paid : cash[q] = 0
  BY <1>0, <1>1, <1>3 DEF RefundStandsWithItsReturn
<1>6. SumOver(P, cash) = SumOver(paid, cash)
  BY ONLY <1>2, <1>4, <1>5, SumOfPart
<1>7. SumOver(paid, cash) = SumOver(paid, amount)
  BY ONLY <1>2, <1>4, SumAgrees
<1> QED BY <1>1, <1>6, <1>7 DEF Amounts

LEMMA ReopenedExtra ==
  ASSUME ReadInv, NEW r \in StandingReturns, NEW parts, parts = PartsOf(r),
         NEW items, items = UNION {BodyItems(returns[q].body) : q \in parts},
         NEW rows, rows = SurplusOf(r, items), NEW i \in Items,
         SurplusByItem(rows, StandingSurplus(rows))[i] > 0
  PROVE  /\ SurplusByItem(rows, StandingSurplus(rows))[i] <= Owed(i)
         /\ \E q \in parts : i \in BodyItems(returns[q].body)
<1>0. TypeOK /\ CreditsInv
  BY DEF ReadInv, OutInv, AmountInv, LedgerInv
<1>1. rows \in SUBSET (ReturnIds \X Items)
  BY DEF SurplusOf
<1>2. PICK taken : taken = StandingSurplus(rows)
  OBVIOUS
<1>3. ASSUME NEW row \in rows
      PROVE  taken[row] \in Nat /\ taken[row] <= RemainingByReturn(row[2])[row[1]]
  <2>1. PICK left : left = RemainingByReturn(row[2])[row[1]]
    OBVIOUS
  <2>2. taken[row] = left /\ taken[row] \in Nat
    BY <1>0, <1>1, <1>2, <2>1, StandingIsRemaining
  <2> QED BY <2>1, <2>2
<1>4. SurplusByItem(rows, taken)[i] \in Nat /\ SurplusByItem(rows, taken)[i] <= owing[i]
  BY ONLY <1>0, <1>1, <1>3, i \in Items, TakenWithinOwed
<1>5. SurplusByItem(rows, taken)[i] <= Owed(i)
  <2>1. owing[i] \in Int
    BY <1>0, CreditTypes
  <2>2. PICK back : back = SurplusByItem(rows, taken)[i]
    OBVIOUS
  <2> QED BY <1>4, <2>1, <2>2 DEF Owed, ZeroOrMore
<1>6. \E row \in rows : row[2] = i
  <2> SUFFICES ASSUME \A row \in rows : row[2] # i PROVE FALSE
    OBVIOUS
  <2>1. {row \in rows : row[2] = i} = {}
    OBVIOUS
  <2>2. SurplusByItem(rows, taken)[i] = 0
    BY <2>1, SumOfNone DEF SurplusByItem
  <2> QED BY <1>2, <2>2
<1>7. \E q \in parts : i \in BodyItems(returns[q].body)
  <2>1. PICK row \in rows : row[2] = i
    BY <1>6
  <2>2. /\ row[1] \in ReturnIds /\ surplus[row[1]][i] > 0
        /\ row[1] = r \/ i \in items
    BY <2>1 DEF SurplusOf
  <2>3. CASE row[1] = r
    BY <2>2, <2>3, PartsStand DEF ReadInv, RecordInv, SurplusOfItems
  <2>4. CASE i \in items
    BY <2>4
  <2> QED BY <2>2, <2>3, <2>4
<1> QED BY <1>2, <1>5, <1>7

LEMMA ReopenedStands == ReadInv => ReopenedSavesUnchanged
<1> SUFFICES ASSUME ReadInv, NEW r \in StandingReturns, NEW edit, edit = EditableFor(r)
             PROVE  /\ \A q \in edit.parts :
                          /\ returns[q].order \in Live
                          /\ WithinOut(edit.out[q], returns[q].body)
                          /\ NotBeforeOrder(returns[q].order, edit.date)
                          /\ WithOrderAllows(returns[q].withOrder, edit.date)
                    /\ edit.cash = SumOver(edit.parts, [q \in ReturnIds |-> returns[q].cashRefund])
                    /\ \A i \in Items : edit.reopened[i] > 0 =>
                          /\ edit.reopened[i] <= Owed(i)
                          /\ \E q \in edit.parts : i \in BodyItems(returns[q].body)
  BY DEF ReopenedSavesUnchanged
<1>1. PICK parts : parts = PartsOf(r)
  OBVIOUS
<1>2. PICK items : items = UNION {BodyItems(returns[q].body) : q \in parts}
  OBVIOUS
<1>3. PICK rows : rows = SurplusOf(r, items)
  OBVIOUS
<1>4. /\ edit.parts = parts /\ edit.date = returns[r].date
      /\ edit.out = [q \in parts |-> TotalsWithout(returns[q].order, {q}).out]
      /\ edit.reopened = SurplusByItem(rows, StandingSurplus(rows))
      /\ edit.cash = Amounts({q \in parts : refunds[q].state = "standing"}, refunds)
  BY <1>1, <1>2, <1>3 DEF EditableFor
<1>5. ASSUME NEW q \in parts
      PROVE  /\ returns[q].order \in Live
             /\ WithinOut(edit.out[q], returns[q].body)
             /\ NotBeforeOrder(returns[q].order, edit.date)
             /\ WithOrderAllows(returns[q].withOrder, edit.date)
  BY <1>1, <1>4, PartFits
<1>6. edit.cash = SumOver(parts, [q \in ReturnIds |-> returns[q].cashRefund])
  BY <1>1, <1>4, PartsStand, CashOfParts
<1>7. ASSUME NEW i \in Items, edit.reopened[i] > 0
      PROVE  edit.reopened[i] <= Owed(i) /\ \E q \in parts : i \in BodyItems(returns[q].body)
  BY <1>1, <1>2, <1>3, <1>4, <1>7, ReopenedExtra
<1> QED BY <1>4, <1>5, <1>6, <1>7

(* A return read again for editing and saved as it was read is taken: its   *)
(* counts fit the orders without it, none of which was cancelled or dated   *)
(* after it, its cash is what it paid, and the extra it shows is of items   *)
(* it took back and no more than is still owed (returns.service             *)
(* editableFor).                                                            *)
THEOREM ReopenedAreTaken == Spec => []ReopenedSavesUnchanged
BY ReadAlways, ReopenedStands, PTL
-----------------------------------------------------------------------------
(* What the stored columns say of a live order, and of others.              *)
LEMMA ReadFacts ==
  ReadInv => /\ TypeOK /\ LedgerInv /\ AmountInv /\ CacheIsRecomputation /\ UnusedAreBlank
             /\ ReturnsPriced /\ RefundStandsWithItsReturn /\ RecordInv
BY DEF ReadInv, OutInv, AmountInv, LedgerInv

LEMMA LiveFigures ==
  ASSUME ReadInv, NEW o \in Live
  PROVE  /\ o \in OrderIds /\ orders[o].state = "live" /\ cache[o] = TotalsOf(o)
         /\ cache[o].owed = DepositTotal(orders[o]) - PaidOn(o) - CreditsLeft(o, {})
         /\ cache[o].owed \in Nat
         /\ \A i \in Items : /\ cache[o].out[i] = orders[o].quantity[i] - BackLeft(o, {}, i)
                             /\ cache[o].out[i] \in Nat
         /\ cache[o].depositTotal = DepositTotal(orders[o])
         /\ cache[o].outValue
              = SumOver(Items, [i \in Items |-> cache[o].out[i] * orders[o].deposit[i]])
         /\ cache[o].outValue \in Nat
         /\ cache[o].status = IF cache[o].owed > 0 \/ (\E i \in Items : cache[o].out[i] > 0)
                              THEN "OPEN" ELSE "SETTLED"
<1>0. TypeOK /\ LedgerInv /\ AmountInv /\ CacheIsRecomputation /\ ReturnsPriced
  BY ReadFacts
<1>1. o \in OrderIds /\ orders[o].state = "live" /\ cache[o] = TotalsOf(o)
  BY <1>0 DEF Live, CacheIsRecomputation
<1>2. PICK row, t : row = cache[o] /\ t = TotalsOf(o)
  OBVIOUS
<1>3. /\ t.owed = DepositTotal(orders[o]) - PaidOn(o) - CreditsLeft(o, {})
      /\ \A i \in Items : t.out[i] = orders[o].quantity[i] - BackLeft(o, {}, i)
  BY <1>0, <1>2, TotalsAre DEF TotalsOf
<1>4. t.owed \in Int /\ \A i \in Items : t.out[i] \in Int
  BY <1>0, <1>1, <1>2, BoundsAssumption DEF TypeOK, CacheRows, Figures
<1>5. t.owed >= 0 /\ \A i \in Items : t.out[i] >= 0
  BY <1>0, <1>2, WithinSuffices DEF TotalsNeverThrow
<1>6. /\ t.status = IF t.owed > 0 \/ (\E i \in Items : t.out[i] > 0) THEN "OPEN" ELSE "SETTLED"
      /\ t.depositTotal = DepositTotal(orders[o])
      /\ t.outValue = SumOver(Items, [i \in Items |-> t.out[i] * orders[o].deposit[i]])
  BY <1>1, <1>2 DEF TotalsOf, TotalsWithout, OrderTotals
<1>7. t.outValue \in Nat
  <2>1. PICK f : f = [i \in Items |-> t.out[i] * orders[o].deposit[i]]
    OBVIOUS
  <2>2. \A i \in Items : f[i] \in Nat
    <3> SUFFICES ASSUME NEW i \in Items PROVE f[i] \in Nat
      OBVIOUS
    <3>1. PICK x \in Nat, y \in Nat : x = t.out[i] /\ y = orders[o].deposit[i]
      BY <1>0, <1>1, <1>4, <1>5, RowTypes
    <3>2. x * y \in Nat
      BY ONLY x \in Nat, y \in Nat
    <3> QED BY <2>1, <3>1, <3>2
  <2>3. SumOver(Items, f) \in Nat
    BY ONLY <2>2, DataAssumption, SumIsNat
  <2> QED BY <1>6, <2>1, <2>3
<1>8. t.owed \in Nat /\ \A i \in Items : t.out[i] \in Nat
  BY <1>4, <1>5
<1> QED BY <1>1, <1>2, <1>3, <1>6, <1>7, <1>8

LEMMA ClosedFigures ==
  ASSUME ReadInv, NEW o \in Live, o \notin OpenOrders
  PROVE  /\ cache[o].owed = 0 /\ cache[o].outValue = 0
         /\ \A i \in Items : cache[o].out[i] = 0
<1>0. TypeOK /\ AmountInv /\ CacheIsRecomputation
  BY ReadFacts
<1>1. cache[o] = TotalsOf(o) /\ o \in OrderIds
  BY LiveFigures
<1>2. cache[o].owed = 0 /\ \A i \in Items : cache[o].out[i] = 0
  BY <1>0, <1>1, SettledWhenClosed DEF OpenOrders
<1>3. PICK f : f = [i \in Items |-> cache[o].out[i] * orders[o].deposit[i]]
  OBVIOUS
<1>4. \A i \in Items : f[i] = 0
  <2> SUFFICES ASSUME NEW i \in Items PROVE f[i] = 0
    OBVIOUS
  <2>1. PICK y \in Nat : y = orders[o].deposit[i]
    BY <1>0, <1>1, RowTypes
  <2> QED BY <1>2, <1>3, <2>1
<1>5. SumOver(Items, f) = 0
  BY ONLY <1>4, DataAssumption, SumOfZeros
<1>6. cache[o].outValue = SumOver(Items, f)
  BY <1>3, LiveFigures
<1> QED BY <1>2, <1>5, <1>6

LEMMA OpenAreLive == ReadInv => OpenOrders \subseteq Live
<1> SUFFICES ASSUME ReadInv, NEW o \in OpenOrders PROVE o \in Live
  OBVIOUS
<1>0. TypeOK /\ CacheIsRecomputation /\ UnusedAreBlank
  BY ReadFacts
<1>1. o \in OrderIds /\ cache[o].status = "OPEN"
  BY DEF OpenOrders
<1>2. orders[o].state \in {"live", "cancelled"} /\ cache[o] = TotalsOf(o)
  BY <1>0, <1>1 DEF UnusedAreBlank, CacheIsRecomputation, TypeOK, OrderRows
<1>3. orders[o].state = "cancelled" => TotalsOf(o).status = "CANCELLED"
  BY DEF TotalsOf, TotalsWithout, OrderTotals
<1> QED BY <1>1, <1>2, <1>3 DEF Live

LEMMA CancelledFigures ==
  ASSUME ReadInv, NEW o \in Made, o \notin Live
  PROVE  /\ o \in OrderIds /\ orders[o].state = "cancelled" /\ cache[o] = TotalsOf(o)
         /\ cache[o].status = "CANCELLED" /\ cache[o].owed = 0 /\ cache[o].outValue = 0
         /\ cache[o].depositTotal \in Nat
         /\ \A i \in Items : cache[o].out[i] = 0
         /\ ReturnsOf(o) = {} /\ PaymentsOf(o) = {}
<1>0. TypeOK /\ LedgerInv /\ CacheIsRecomputation
  BY ReadFacts
<1>1. o \in OrderIds /\ orders[o].state = "cancelled" /\ cache[o] = TotalsOf(o)
  BY <1>0 DEF Made, Live, TypeOK, OrderRows, CacheIsRecomputation
<1>2. TotalsOf(o) = [status |-> "CANCELLED", depositTotal |-> DepositTotal(orders[o]),
                     owed |-> 0, outValue |-> 0, out |-> [i \in Items |-> 0]]
  BY <1>1 DEF TotalsOf, TotalsWithout, OrderTotals
<1>3. DepositTotal(orders[o]) \in Nat
  BY <1>0, <1>1, AmountTypes
<1> QED BY <1>0, <1>1, <1>2, <1>3, NothingOnOthers

LEMMA MadeAreLiveOrCancelled == Live \subseteq Made /\ Made \subseteq OrderIds
BY DEF Made, Live
-----------------------------------------------------------------------------
(* The operators' check finds nothing.                                      *)
LEMMA NoTotalBreaks == ReadInv => CheckOrderTotals = {}
<1> SUFFICES ASSUME ReadInv PROVE CheckOrderTotals = {}
  OBVIOUS
<1>1. ASSUME NEW o \in Made PROVE cache[o] = TotalsOf(o) /\ ~Breaks(TotalsOf(o))
  <2>1. /\ cache[o] = TotalsOf(o)
        /\ ~(cache[o].owed < 0) /\ \A i \in Items : ~(cache[o].out[i] < 0)
    <3>1. CASE o \in Live
      <4>1. /\ cache[o] = TotalsOf(o) /\ cache[o].owed \in Nat
            /\ \A i \in Items : cache[o].out[i] \in Nat
        BY <3>1, LiveFigures
      <4> QED BY <4>1
    <3>2. CASE o \notin Live
      BY <3>2, CancelledFigures
    <3> QED BY <3>1, <3>2
  <2> QED BY <2>1 DEF Breaks
<1> QED BY <1>1 DEF CheckOrderTotals, Break

LEMMA NoCashBreaks == ReadInv => CashBreaks = {}
<1> SUFFICES ASSUME ReadInv PROVE CashBreaks = {}
  OBVIOUS
<1>0. TypeOK /\ LedgerInv /\ AmountInv /\ RecordInv
  BY ReadFacts
<1>1. ASSUME NEW o \in LiveCash
      PROVE  /\ Cardinality(Automatic(o)) = (IF cache[o].depositTotal > 0 THEN 1 ELSE 0)
             /\ Amounts(Automatic(o), payments)
                  = (IF cache[o].depositTotal > 0 THEN cache[o].depositTotal ELSE 0)
             /\ ManualOf(o) = {}
  <2>1. /\ o \in Live /\ o \in OrderIds /\ orders[o].payment = "CASH"
        /\ cache[o].depositTotal = DepositTotal(orders[o])
    BY LiveFigures DEF LiveCash
  <2>2. PaidInFull(o, DepositTotal(orders[o]))
    BY <1>0, <2>1 DEF AmountInv, CashInv
  <2>3. PICK due : due = DepositTotal(orders[o])
    OBVIOUS
  <2>4. ASSUME due = 0, PaymentsOf(o) = {}
        PROVE  Cardinality(Automatic(o)) = 0 /\ Amounts(Automatic(o), payments) = 0
    <3>1. Automatic(o) = {}
      BY <2>4 DEF Automatic
    <3> QED BY <3>1, FS_EmptySet, SumOfNone DEF Amounts
  <2>5. ASSUME due > 0, NEW p \in PaymentIds, PaymentsOf(o) = {p}, payments[p].automatic,
               payments[p].amount = due
        PROVE  /\ Cardinality(Automatic(o)) = 1
               /\ Amounts(Automatic(o), payments) = due
    <3>1. Automatic(o) = {p}
      BY <2>5 DEF Automatic
    <3>2. PICK f : f = [x \in {p} |-> payments[x].amount]
      OBVIOUS
    <3>3. f[p] = due /\ f[p] \in Int
      BY <1>0, <2>5, <3>2, RowTypes
    <3>4. SumOver({p}, f) = due
      BY <3>3, SumOfOne
    <3> QED BY <3>1, <3>2, <3>4, FS_Singleton DEF Amounts
  <2>6. ManualOf(o) = {}
    <3> SUFFICES ASSUME NEW p \in ManualOf(o) PROVE FALSE
      OBVIOUS
    <3>1. PaymentKept(p) /\ payments[p].order = o /\ ~payments[p].automatic
      BY <1>0 DEF ManualOf, RecordInv, PaymentsKept
    <3> QED BY <2>1, <3>1 DEF PaymentKept
  <2>7. due \in Nat
    BY <1>0, <2>1, <2>3, AmountTypes
  <2> QED BY <2>1, <2>2, <2>3, <2>4, <2>5, <2>6, <2>7 DEF PaidInFull
<1>2. \A o \in LiveCash :
        <<Cardinality(Automatic(o)), Amounts(Automatic(o), payments)>>
          = IF cache[o].depositTotal > 0 THEN <<1, cache[o].depositTotal>> ELSE <<0, 0>>
  BY <1>1
<1> QED BY <1>1, <1>2 DEF CashBreaks, Break

(* A money section nets to what stands of its rows.                         *)
LEMMA NetIsStanding ==
  ASSUME NEW rows, IsFiniteSet(rows), NEW table, \A x \in rows : table[x].amount \in Int
  PROVE  Net(rows, table) = Amounts({x \in rows : table[x].state # "reversed"}, table)
<1>1. PICK f, reversed, kept :
         /\ f = [x \in rows |-> table[x].amount]
         /\ reversed = {x \in rows : table[x].state = "reversed"}
         /\ kept = {x \in rows : table[x].state # "reversed"}
  OBVIOUS
<1>2. /\ reversed \in SUBSET rows /\ rows \ reversed = kept
      /\ IsFiniteSet(reversed) /\ IsFiniteSet(kept)
      /\ \A x \in rows : f[x] \in Int
  BY <1>1, FS_Subset
<1>3. SumOver(rows, f) = SumOver(reversed, f) + SumOver(rows \ reversed, f)
  BY ONLY <1>2, IsFiniteSet(rows), SumSplits
<1>4. SumOver(kept, f) = Amounts(kept, table)
  <2>1. PICK g : g = [x \in kept |-> table[x].amount]
    OBVIOUS
  <2>2. \A x \in kept : f[x] = g[x]
    BY <1>1, <2>1
  <2>3. SumOver(kept, f) = SumOver(kept, g)
    BY ONLY <1>2, <2>2, SumAgrees
  <2> QED BY <2>1, <2>3 DEF Amounts
<1>5. PICK x \in Int, y \in Int : x = SumOver(reversed, f) /\ y = SumOver(kept, f)
  <2>1. (\A z \in reversed : f[z] \in Int) /\ (\A z \in kept : f[z] \in Int)
    BY <1>1, <1>2
  <2> QED BY ONLY <1>2, <2>1, SumIsInt
<1>6. Net(rows, table) = SumOver(rows, f) - SumOver(reversed, f)
  BY <1>1 DEF Net, MoneySection
<1>7. SumOver(rows, f) - SumOver(reversed, f) = SumOver(kept, f)
  <2>1. SumOver(rows \ reversed, f) = SumOver(kept, f)
    BY <1>2
  <2>2. SumOver(rows, f) = x + y
    BY <1>3, <1>5, <2>1
  <2> QED BY ONLY <1>5, <2>2
<1> QED BY <1>1, <1>4, <1>6, <1>7

LEMMA NoCancelledBreaks == ReadInv => CancelledBreaks = {}
<1> SUFFICES ASSUME ReadInv PROVE CancelledBreaks = {}
  OBVIOUS
<1>0. TypeOK
  BY ReadFacts
<1>1. ASSUME NEW o \in Made \ Live
      PROVE  ReturnsOf(o) = {} /\ Net(PaymentsListed(o), payments) = 0
  <2>1. ReturnsOf(o) = {} /\ PaymentsOf(o) = {}
    BY CancelledFigures
  <2>2. PICK rows : rows = PaymentsListed(o)
    OBVIOUS
  <2>3. IsFiniteSet(rows) /\ \A p \in rows : payments[p].amount \in Int
    <3>1. rows \in SUBSET PaymentIds
      BY <2>2 DEF PaymentsListed
    <3> QED BY <1>0, <3>1, RowsAreFinite, FS_Subset, RowTypes
  <2>4. {p \in rows : payments[p].state # "reversed"} = {}
    BY <1>0, <2>1, <2>2 DEF PaymentsListed, PaymentsOf, TypeOK, PaymentRows
  <2>5. Net(rows, payments) = Amounts({p \in rows : payments[p].state # "reversed"}, payments)
    BY ONLY <2>3, NetIsStanding
  <2> QED BY <2>1, <2>2, <2>4, <2>5, SumOfNone DEF Amounts
<1> QED BY <1>1 DEF CancelledBreaks, Break

LEMMA NoRefundBreaks == ReadInv => RefundBreaks = {}
<1> SUFFICES ASSUME ReadInv, NEW r \in Recorded
             PROVE  /\ Refunded(r) = returns[r].cashRefund
                    /\ refunds[r].state # "none" =>
                         (refunds[r].state = "standing") = (returns[r].state = "standing")
  BY DEF RefundBreaks, Break
<1>0. TypeOK /\ RefundStandsWithItsReturn /\ RecordInv
  BY ReadFacts
<1>1. r \in ReturnIds /\ RecordKept(r) /\ returns[r].cashRefund \in Nat
  BY <1>0, RowTypes DEF Recorded, RecordInv, ReturnKept
<1>2. /\ refunds[r].state = "standing" <=>
           returns[r].state = "standing" /\ returns[r].cashRefund > 0
      /\ refunds[r].state # "none" => refunds[r].amount = returns[r].cashRefund
      /\ (refunds[r].state # "none") = (returns[r].cashRefund > 0)
  BY <1>0, <1>1 DEF RefundStandsWithItsReturn, RecordKept
<1> QED BY <1>1, <1>2 DEF Refunded

LEMMA NothingDiscrepant == ReadInv => Discrepancies = {}
<1> SUFFICES ASSUME ReadInv PROVE Discrepancies = {}
  OBVIOUS
<1>1. PalletCreditBreaks = {}
  <2>1. \A i \in Items : owing[i] >= 0 /\ owing[i] \in Int
    BY ReadFacts, CreditTypes DEF ReadInv, CreditsInv, CreditsAre
  <2> QED BY <2>1 DEF PalletCreditBreaks, Break
<1> QED BY <1>1, NoTotalBreaks, NoCashBreaks, NoCancelledBreaks, NoRefundBreaks DEF Discrepancies
-----------------------------------------------------------------------------
(* No row breaks a condition of its table.                                  *)
LEMMA GoneIsBack ==
  ASSUME ReadInv, NEW o, NEW i \in Items
  PROVE  SumOver(ReturnsOf(o), [r \in ReturnIds |-> CameBack(r, i)]) = BackLeft(o, {}, i)
<1>1. PICK S, f, g :
         /\ S = ReturnsOf(o) /\ f = [r \in ReturnIds |-> CameBack(r, i)]
         /\ g = [r \in S |-> BackOf(r, i)]
  OBVIOUS
<1>2. IsFiniteSet(S) /\ \A r \in S : f[r] = g[r]
  <2>1. S \in SUBSET ReturnIds
    BY <1>1 DEF ReturnsOf, StandingReturns
  <2> QED BY <1>1, <2>1, RowsAreFinite, FS_Subset DEF CameBack, BackOf
<1>3. SumOver(S, f) = SumOver(S, g)
  BY ONLY <1>2, SumAgrees
<1>4. S \ {} = S
  OBVIOUS
<1> QED BY <1>1, <1>3, <1>4 DEF BackLeft

LEMMA OrdersPass == ASSUME ReadInv, NEW o \in Made PROVE OrderChecks(o)
<1>0. TypeOK
  BY ReadFacts
<1>1. PICK row, gone :
         /\ row = cache[o]
         /\ gone = [i \in Items |-> SumOver(ReturnsOf(o), [r \in ReturnIds |-> CameBack(r, i)])]
  OBVIOUS
<1>2. \A i \in Items : gone[i] = BackLeft(o, {}, i)
  BY <1>1, GoneIsBack
<1>3. CASE o \in Live
  <2>1. /\ row.owed \in Nat /\ row.outValue \in Nat
        /\ row.depositTotal = DepositTotal(orders[o]) /\ o \in OrderIds
        /\ orders[o].state = "live"
        /\ \A i \in Items : /\ row.out[i] = orders[o].quantity[i] - BackLeft(o, {}, i)
                            /\ row.out[i] \in Nat
        /\ row.status = IF row.owed > 0 \/ (\E i \in Items : row.out[i] > 0)
                        THEN "OPEN" ELSE "SETTLED"
    BY <1>1, <1>3, LiveFigures
  <2>2. row.depositTotal \in Nat
    BY <1>0, <2>1, AmountTypes
  <2>3. row.status = "SETTLED" =>
          row.owed = 0 /\ row.outValue = 0 /\ \A i \in Items : row.out[i] = 0
    <3>1. row.status = "SETTLED" => o \notin OpenOrders
      BY <1>1 DEF OpenOrders
    <3> QED BY <1>1, <1>3, <3>1, ClosedFigures
  <2>4. row.depositTotal >= 0 /\ row.owed >= 0 /\ row.outValue >= 0
        /\ \A i \in Items : row.out[i] >= 0
    BY <2>1, <2>2
  <2> QED BY <1>1, <1>2, <2>1, <2>3, <2>4 DEF OrderChecks
<1>4. CASE o \notin Live
  <2>1. /\ orders[o].state = "cancelled" /\ row.status = "CANCELLED"
        /\ row.owed = 0 /\ row.outValue = 0 /\ row.depositTotal \in Nat
        /\ ReturnsOf(o) = {}
        /\ \A i \in Items : row.out[i] = 0
    BY <1>1, <1>4, CancelledFigures
  <2>2. \A i \in Items : gone[i] = 0
    BY <1>1, <2>1, SumOfNone
  <2>3. row.depositTotal >= 0
    BY <2>1
  <2> QED BY <1>1, <2>1, <2>2, <2>3 DEF OrderChecks
<1> QED BY <1>3, <1>4

LEMMA ReturnsPass == ASSUME ReadInv, NEW r \in Recorded PROVE ReturnChecks(r)
<1>0. TypeOK /\ RecordInv
  BY ReadFacts
<1>1. r \in ReturnIds /\ RecordKept(r) /\ returns[r].cashRefund \in Nat
  BY <1>0, RowTypes DEF Recorded, RecordInv, ReturnKept
<1>2. returns[r].state = "standing" => \A i \in Items :
        returns[r].body.damagedRefund[i] <= returns[r].body.damaged[i] * DepositOf(r, i)
  BY <1>0, <1>1 DEF RecordInv, DamageWithin, StandingReturns, DepositOf
<1>3. returns[r].refundDue >= 0 /\ returns[r].cashRefund >= 0
  BY <1>1 DEF RecordKept
<1>4. BodyItems(returns[r].body) \subseteq Items
  BY DEF BodyItems
<1> QED BY <1>1, <1>2, <1>3, <1>4 DEF ReturnChecks, RecordKept

LEMMA RowsPass == ReadInv => RowsPassChecks
<1> SUFFICES ASSUME ReadInv PROVE RowsPassChecks
  OBVIOUS
<1>0. TypeOK /\ RecordInv /\ RefundStandsWithItsReturn
  BY ReadFacts
<1>1. ASSUME NEW r \in ReturnIds, refunds[r].state # "none" PROVE refunds[r].amount > 0
  <2>1. returns[r].state # "none" /\ RecordKept(r)
    BY <1>0, <1>1 DEF RecordInv, ReturnKept, NeverWritten
  <2> QED BY <1>0, <1>1, <2>1 DEF RecordKept, RefundStandsWithItsReturn
<1>2. LedgerChecks
  BY <1>0, <1>1 DEF LedgerChecks, RecordInv, PaymentsKept, PaymentKept
<1> QED BY <1>2, OrdersPass, ReturnsPass DEF RowsPassChecks
-----------------------------------------------------------------------------
(* Sums over the open orders, over the live ones, and over what stands on   *)
(* them: a closed order adds nothing, and every standing row is of one live *)
(* order.                                                                   *)
LEMMA StandingAreFinite ==
  /\ IsFiniteSet(Live) /\ IsFiniteSet(OpenOrders) /\ IsFiniteSet(StandingReturns)
  /\ Live \subseteq OrderIds /\ StandingReturns \subseteq ReturnIds
<1>1. Live \subseteq OrderIds /\ OpenOrders \subseteq OrderIds /\ StandingReturns \subseteq ReturnIds
  BY DEF Live, OpenOrders, StandingReturns
<1> QED BY <1>1, RowsAreFinite, FS_Subset

LEMMA OpenIsAll ==
  ASSUME ReadInv, NEW f, \A o \in Live : f[o] \in Int, \A o \in Live \ OpenOrders : f[o] = 0
  PROVE  SumOver(OpenOrders, f) = SumOver(Live, f)
<1>1. OpenOrders \in SUBSET Live /\ IsFiniteSet(Live)
  BY OpenAreLive, StandingAreFinite
<1>2. \A o \in OpenOrders : f[o] \in Int
  BY <1>1
<1>3. SumOver(Live, f) = SumOver(OpenOrders, f)
  BY ONLY <1>1, <1>2, \A o \in Live \ OpenOrders : f[o] = 0, SumOfPart
<1> QED BY <1>3

LEMMA ByOrder ==
  ASSUME ReadInv, NEW g, \A r \in StandingReturns : g[r] \in Int,
         NEW h, \A o \in Live : h[o] = SumOver(ReturnsOf(o), g)
  PROVE  SumOver(Live, h) = SumOver(StandingReturns, g)
<1>1. PICK key : key = [r \in StandingReturns |-> returns[r].order]
  OBVIOUS
<1>2. \A r \in StandingReturns : key[r] \in Live
  BY <1>1, ReadFacts DEF LedgerInv, StandingOnLive
<1>3. \A o \in Live : h[o] = SumOver(PartAt(StandingReturns, key, o), g)
  <2> SUFFICES ASSUME NEW o \in Live PROVE h[o] = SumOver(PartAt(StandingReturns, key, o), g)
    OBVIOUS
  <2>1. PartAt(StandingReturns, key, o) = ReturnsOf(o)
    BY <1>1 DEF PartAt, ReturnsOf
  <2> QED BY <2>1
<1>4. IsFiniteSet(Live) /\ IsFiniteSet(StandingReturns)
  BY StandingAreFinite
<1> QED BY ONLY <1>2, <1>3, <1>4, \A r \in StandingReturns : g[r] \in Int, SumByParts

StandingPayments == {p \in PaymentIds : payments[p].state = "standing"}
LEMMA ByOrderPaid ==
  ASSUME ReadInv
  PROVE  SumOver(Live, PaidOf) = Amounts(StandingPayments, payments)
<1>0. TypeOK /\ LedgerInv
  BY ReadFacts
<1>1. PICK S, key, f :
         /\ S = StandingPayments /\ key = [p \in S |-> payments[p].order]
         /\ f = [p \in S |-> payments[p].amount]
  OBVIOUS
<1>2. IsFiniteSet(Live) /\ IsFiniteSet(S)
  <2>1. S \in SUBSET PaymentIds
    BY <1>1 DEF StandingPayments
  <2> QED BY <2>1, StandingAreFinite, RowsAreFinite, FS_Subset
<1>3. (\A p \in S : f[p] \in Int) /\ \A p \in S : key[p] \in Live
  BY <1>0, <1>1, RowTypes DEF StandingPayments, LedgerInv, StandingOnLive
<1>4. \A o \in Live : PaidOf[o] = SumOver(PartAt(S, key, o), f)
  <2> SUFFICES ASSUME NEW o \in Live PROVE PaidOf[o] = SumOver(PartAt(S, key, o), f)
    OBVIOUS
  <2>1. PartAt(S, key, o) = PaymentsOf(o) /\ o \in OrderIds
    BY <1>1, StandingAreFinite DEF PartAt, PaymentsOf, StandingPayments
  <2>2. PICK T, g : T = PaymentsOf(o) /\ g = [p \in T |-> payments[p].amount]
    OBVIOUS
  <2>3. IsFiniteSet(T) /\ \A p \in T : g[p] = f[p]
    BY <1>1, <2>2, PaymentsAreFinite DEF PaymentsOf, StandingPayments
  <2>4. SumOver(T, g) = SumOver(T, f)
    BY ONLY <2>3, SumAgrees
  <2> QED BY <2>1, <2>2, <2>4 DEF PaidOf, PaidOn
<1>5. SumOver(Live, PaidOf) = SumOver(S, f)
  BY ONLY <1>2, <1>3, <1>4, SumByParts
<1> QED BY <1>1, <1>5 DEF Amounts

(* A section's rows are those with lines of the items asked for; the others *)
(* add nothing.                                                             *)
LEMMA HandoverSection ==
  ASSUME ReadInv, NEW J \in SUBSET Items, NEW scope, scope = [days |-> Days, items |-> J],
         NEW g, \A o \in Live : g[o] \in Int,
         \A o \in Live : (\A i \in J : orders[o].quantity[i] = 0) => g[o] = 0,
         NEW f, \A o \in HandoverRows(scope) : f[o] = g[o]
  PROVE  SumOver(HandoverRows(scope), f) = SumOver(Live, g)
<1>1. PICK rows : rows = HandoverRows(scope)
  OBVIOUS
<1>2. rows \in SUBSET Live /\ IsFiniteSet(Live) /\ IsFiniteSet(rows)
  BY <1>1, StandingAreFinite, FS_Subset DEF HandoverRows
<1>3. \A o \in Live \ rows : g[o] = 0
  <2> SUFFICES ASSUME NEW o \in Live \ rows PROVE g[o] = 0
    OBVIOUS
  <2>1. o \in OrderIds /\ orders[o].date \in Days
    BY StandingAreFinite, ReadFacts DEF RecordInv, OrdersDated, Live
  <2>2. ASSUME NEW i \in J PROVE orders[o].quantity[i] = 0
    <3>1. ~(orders[o].quantity[i] > 0)
      BY <1>1, <2>1 DEF HandoverRows
    <3>2. orders[o].quantity[i] \in Nat
      BY <2>1, ReadFacts, RowTypes
    <3> QED BY <3>1, <3>2
  <2> QED BY <2>2
<1>4. \A o \in rows : g[o] \in Int /\ f[o] = g[o]
  BY <1>1, <1>2
<1>5. SumOver(Live, g) = SumOver(rows, g)
  BY ONLY <1>2, <1>3, <1>4, SumOfPart
<1>6. SumOver(rows, f) = SumOver(rows, g)
  BY ONLY <1>2, <1>4, SumAgrees
<1> QED BY <1>1, <1>5, <1>6

LEMMA ReturnSection ==
  ASSUME ReadInv, NEW J \in SUBSET Items, NEW scope, scope = [days |-> Days, items |-> J],
         NEW g, \A r \in StandingReturns : g[r] \in Int,
         \A r \in StandingReturns : BodyItems(returns[r].body) \cap J = {} => g[r] = 0,
         NEW f, \A r \in ReturnRowsIn(scope) : f[r] = g[r]
  PROVE  SumOver(ReturnRowsIn(scope), f) = SumOver(StandingReturns, g)
<1>1. PICK rows : rows = ReturnRowsIn(scope)
  OBVIOUS
<1>2. rows \in SUBSET StandingReturns /\ IsFiniteSet(StandingReturns) /\ IsFiniteSet(rows)
  BY <1>1, StandingAreFinite, FS_Subset DEF ReturnRowsIn
<1>3. \A r \in StandingReturns \ rows : g[r] = 0
  <2> SUFFICES ASSUME NEW r \in StandingReturns \ rows PROVE g[r] = 0
    OBVIOUS
  <2>1. returns[r].order \in Live
    BY ReadFacts DEF LedgerInv, StandingOnLive
  <2>2. returns[r].date \in Days
    BY ReadFacts DEF RecordInv, ReturnKept, RecordKept, StandingReturns
  <2> QED BY <1>1, <2>1, <2>2 DEF ReturnRowsIn
<1>4. \A r \in rows : g[r] \in Int /\ f[r] = g[r]
  BY <1>1, <1>2
<1>5. SumOver(StandingReturns, g) = SumOver(rows, g)
  BY ONLY <1>2, <1>3, <1>4, SumOfPart
<1>6. SumOver(rows, f) = SumOver(rows, g)
  BY ONLY <1>2, <1>4, SumAgrees
<1> QED BY <1>1, <1>5, <1>6
-----------------------------------------------------------------------------
(* Pallets: of each item, what live orders lent less what came back is out. *)
QuantitiesOf(i) == [o \in OrderIds |-> orders[o].quantity[i]]
BacksOf(i)      == [r \in ReturnIds |-> CameBack(r, i)]
LentOf(i)       == SumOver(Live, QuantitiesOf(i))
ReturnedOf(i)   == SumOver(StandingReturns, BacksOf(i))

LEMMA CameBackTypes ==
  TypeOK => \A r \in ReturnIds, i \in Items :
    /\ CameBack(r, i) \in Nat
    /\ returns[r].body.accepted[i] \in Nat /\ returns[r].body.damaged[i] \in Nat
    /\ returns[r].body.damagedRefund[i] \in Nat
<1> SUFFICES ASSUME TypeOK, NEW r \in ReturnIds, NEW i \in Items
             PROVE  /\ CameBack(r, i) \in Nat
                    /\ returns[r].body.accepted[i] \in Nat /\ returns[r].body.damaged[i] \in Nat
                    /\ returns[r].body.damagedRefund[i] \in Nat
  OBVIOUS
<1>1. returns[r].body \in Bodies
  BY DEF TypeOK, ReturnRows
<1>2. /\ returns[r].body.accepted[i] \in Nat /\ returns[r].body.damaged[i] \in Nat
      /\ returns[r].body.damagedRefund[i] \in Nat
  BY <1>1, BoundsAssumption DEF Bodies
<1> QED BY <1>2 DEF CameBack

LEMMA ItemSumTypes ==
  ASSUME ReadInv, NEW i \in Items
  PROVE  LentOf(i) \in Nat /\ ReturnedOf(i) \in Nat
<1>1. PICK q, b : q = QuantitiesOf(i) /\ b = BacksOf(i)
  OBVIOUS
<1>2. (\A o \in Live : q[o] \in Nat) /\ \A r \in StandingReturns : b[r] \in Nat
  BY <1>1, ReadFacts, RowTypes, CameBackTypes, StandingAreFinite DEF QuantitiesOf, BacksOf
<1>3. SumOver(Live, q) \in Nat /\ SumOver(StandingReturns, b) \in Nat
  BY ONLY <1>2, StandingAreFinite, SumIsNat
<1> QED BY <1>1, <1>3 DEF LentOf, ReturnedOf

LEMMA ItemIsOut ==
  ASSUME ReadInv, NEW i \in Items
  PROVE  PalletsOutByItem(i) = LentOf(i) - ReturnedOf(i) /\ PalletsOutByItem(i) \in Nat
<1>1. PICK out, q, b, g :
         /\ out = [o \in OrderIds |-> cache[o].out[i]] /\ q = QuantitiesOf(i)
         /\ b = [o \in OrderIds |-> BackLeft(o, {}, i)] /\ g = BacksOf(i)
  OBVIOUS
<1>2. \A o \in Live : out[o] \in Nat /\ b[o] \in Nat /\ q[o] \in Nat /\ out[o] = q[o] - b[o]
  <2> SUFFICES ASSUME NEW o \in Live
               PROVE  out[o] \in Nat /\ b[o] \in Nat /\ q[o] \in Nat /\ out[o] = q[o] - b[o]
    OBVIOUS
  <2>1. /\ o \in OrderIds /\ cache[o].out[i] \in Nat
        /\ cache[o].out[i] = orders[o].quantity[i] - BackLeft(o, {}, i)
    BY LiveFigures
  <2>2. BackLeft(o, {}, i) \in Nat /\ orders[o].quantity[i] \in Nat
    BY <2>1, ReadFacts, AmountTypes, RowTypes
  <2> QED BY <1>1, <2>1, <2>2 DEF QuantitiesOf
<1>3. \A o \in Live : out[o] \in Int /\ b[o] \in Int /\ q[o] = out[o] + b[o]
  BY <1>2
<1>4. SumOver(Live, q) = SumOver(Live, out) + SumOver(Live, b)
  BY ONLY <1>3, StandingAreFinite, SumOfSums
<1>5. SumOver(Live, b) = SumOver(StandingReturns, g)
  <2>1. \A r \in StandingReturns : g[r] \in Int
    BY <1>1, ReadFacts, CameBackTypes, StandingAreFinite DEF BacksOf
  <2>2. \A o \in Live : b[o] = SumOver(ReturnsOf(o), g)
    BY <1>1, StandingAreFinite, GoneIsBack DEF BacksOf
  <2> QED BY ONLY ReadInv, <2>1, <2>2, ByOrder
<1>6. PICK x, y, z : x = SumOver(Live, out) /\ y = SumOver(Live, q) /\ z = SumOver(StandingReturns, g)
  OBVIOUS
<1>7. x \in Nat /\ y \in Nat /\ z \in Nat
  <2>1. x \in Nat
    BY ONLY <1>2, <1>6, StandingAreFinite, SumIsNat
  <2> QED BY <1>1, <1>6, <2>1, ItemSumTypes DEF LentOf, ReturnedOf
<1>8. x = y - z
  BY <1>4, <1>5, <1>6, <1>7
<1> QED BY <1>1, <1>6, <1>7, <1>8 DEF PalletsOutByItem, LentOf, ReturnedOf

(* The sections of a report over all time, of some items.                   *)
LEMMA SectionHandsOver ==
  ASSUME ReadInv, NEW J \in SUBSET Items, NEW scope, scope = [days |-> Days, items |-> J]
  PROVE  OverLines(HandoverRows(scope), scope, Handed) = SumOver(J, [i \in Items |-> LentOf(i)])
<1>1. PICK rows, line, g, table :
         /\ rows = HandoverRows(scope)
         /\ line = [o \in OrderIds |-> [i \in Items |-> Handed(o, i)]]
         /\ g = [o \in OrderIds |-> SumOver(J, line[o])]
         /\ table = [i \in Items |-> QuantitiesOf(i)]
  OBVIOUS
<1>2. IsFiniteSet(J) /\ IsFiniteSet(Live)
  BY DataAssumption, FS_Subset, StandingAreFinite
<1>3. \A o \in Live, i \in J : line[o][i] \in Int /\ table[i][o] = line[o][i]
  BY <1>1, ReadFacts, RowTypes, StandingAreFinite DEF Handed, QuantitiesOf
<1>4. \A o \in Live : g[o] = SumOver(J, line[o])
  BY <1>1, StandingAreFinite
<1>5. SumOver(Live, g) = SumOver(J, [i \in Items |-> LentOf(i)])
  <2>1. PICK columns : columns = [i \in Items |-> LentOf(i)]
    OBVIOUS
  <2>2. \A i \in J : columns[i] = SumOver(Live, table[i])
    BY <1>1, <2>1 DEF LentOf
  <2>3. /\ Transposed(Live, J, line, table)
        /\ SumsOf(Live, J, line, g) /\ SumsOf(J, Live, table, columns)
    BY <1>3, <1>4, <2>2 DEF Transposed, SumsOf
  <2>4. SumOver(Live, g) = SumOver(J, columns)
    BY ONLY <1>2, <2>3, SumExchanged
  <2> QED BY <2>1, <2>4
<1>6. PICK f : f = [o \in rows |-> SumOver(J, [i \in Items |-> Handed(o, i)])]
  OBVIOUS
<1>7. SumOver(HandoverRows(scope), f) = SumOver(Live, g)
  <2>1. \A o \in Live : g[o] \in Int
    <3> SUFFICES ASSUME NEW o \in Live PROVE g[o] \in Int
      OBVIOUS
    <3>1. \A i \in J : line[o][i] \in Int
      BY <1>3
    <3>2. SumOver(J, line[o]) \in Int
      BY ONLY <1>2, <3>1, SumIsInt
    <3> QED BY <1>4, <3>2
  <2>2. \A o \in Live : (\A i \in J : orders[o].quantity[i] = 0) => g[o] = 0
    <3> SUFFICES ASSUME NEW o \in Live, \A i \in J : orders[o].quantity[i] = 0 PROVE g[o] = 0
      OBVIOUS
    <3>1. \A i \in J : line[o][i] = 0
      BY <1>1, StandingAreFinite DEF Handed
    <3>2. SumOver(J, line[o]) = 0
      BY ONLY <1>2, <3>1, SumOfZeros
    <3> QED BY <1>4, <3>2
  <2>3. \A o \in HandoverRows(scope) : f[o] = g[o]
    BY <1>1, <1>6, StandingAreFinite DEF HandoverRows
  <2> QED BY ONLY ReadInv, J \in SUBSET Items, scope = [days |-> Days, items |-> J],
             <2>1, <2>2, <2>3, HandoverSection
<1> QED BY <1>1, <1>5, <1>6, <1>7 DEF OverLines

LEMMA SectionTakesBack ==
  ASSUME ReadInv, NEW J \in SUBSET Items, NEW scope, scope = [days |-> Days, items |-> J]
  PROVE  OverLines(ReturnRowsIn(scope), scope, CameBack)
           = SumOver(J, [i \in Items |-> ReturnedOf(i)])
<1>1. PICK rows, line, g, table :
         /\ rows = ReturnRowsIn(scope)
         /\ line = [r \in ReturnIds |-> [i \in Items |-> CameBack(r, i)]]
         /\ g = [r \in ReturnIds |-> SumOver(J, line[r])]
         /\ table = [i \in Items |-> BacksOf(i)]
  OBVIOUS
<1>2. IsFiniteSet(J) /\ IsFiniteSet(StandingReturns)
  BY DataAssumption, FS_Subset, StandingAreFinite
<1>3. \A r \in StandingReturns, i \in J : line[r][i] \in Int /\ table[i][r] = line[r][i]
  BY <1>1, ReadFacts, CameBackTypes, StandingAreFinite DEF BacksOf
<1>4. \A r \in StandingReturns : g[r] = SumOver(J, line[r])
  BY <1>1, StandingAreFinite
<1>5. SumOver(StandingReturns, g) = SumOver(J, [i \in Items |-> ReturnedOf(i)])
  <2>1. PICK columns : columns = [i \in Items |-> ReturnedOf(i)]
    OBVIOUS
  <2>2. \A i \in J : columns[i] = SumOver(StandingReturns, table[i])
    BY <1>1, <2>1 DEF ReturnedOf
  <2>3. /\ Transposed(StandingReturns, J, line, table)
        /\ SumsOf(StandingReturns, J, line, g) /\ SumsOf(J, StandingReturns, table, columns)
    BY <1>3, <1>4, <2>2 DEF Transposed, SumsOf
  <2>4. SumOver(StandingReturns, g) = SumOver(J, columns)
    BY ONLY <1>2, <2>3, SumExchanged
  <2> QED BY <2>1, <2>4
<1>6. PICK f : f = [r \in rows |-> SumOver(J, [i \in Items |-> CameBack(r, i)])]
  OBVIOUS
<1>7. SumOver(ReturnRowsIn(scope), f) = SumOver(StandingReturns, g)
  <2>1. \A r \in StandingReturns : g[r] \in Int
    <3> SUFFICES ASSUME NEW r \in StandingReturns PROVE g[r] \in Int
      OBVIOUS
    <3>1. \A i \in J : line[r][i] \in Int
      BY <1>3
    <3>2. SumOver(J, line[r]) \in Int
      BY ONLY <1>2, <3>1, SumIsInt
    <3> QED BY <1>4, <3>2
  <2>2. \A r \in StandingReturns : BodyItems(returns[r].body) \cap J = {} => g[r] = 0
    <3> SUFFICES ASSUME NEW r \in StandingReturns, BodyItems(returns[r].body) \cap J = {}
                 PROVE  g[r] = 0
      OBVIOUS
    <3>1. \A i \in J : line[r][i] = 0
      <4> SUFFICES ASSUME NEW i \in J PROVE line[r][i] = 0
        OBVIOUS
      <4>1. CameBack(r, i) \in Nat /\ ~(CameBack(r, i) > 0)
        BY ReadFacts, CameBackTypes, StandingAreFinite DEF BodyItems, CameBack
      <4> QED BY <1>1, <4>1, StandingAreFinite
    <3>2. SumOver(J, line[r]) = 0
      BY ONLY <1>2, <3>1, SumOfZeros
    <3> QED BY <1>4, <3>2
  <2>3. \A r \in ReturnRowsIn(scope) : f[r] = g[r]
    BY <1>1, <1>6, StandingAreFinite DEF ReturnRowsIn
  <2> QED BY ONLY ReadInv, J \in SUBSET Items, scope = [days |-> Days, items |-> J],
             <2>1, <2>2, <2>3, ReturnSection
<1> QED BY <1>1, <1>5, <1>6, <1>7 DEF OverLines

(* So what a report says was handed over and came back of some items is     *)
(* what is out of them.                                                     *)
LEMMA SectionsLeaveOut ==
  ASSUME ReadInv, NEW J \in SUBSET Items, NEW scope, scope = [days |-> Days, items |-> J]
  PROVE  SumOver(J, [i \in Items |-> PalletsOutByItem(i)])
           = OverLines(HandoverRows(scope), scope, Handed)
             - OverLines(ReturnRowsIn(scope), scope, CameBack)
<1>1. PICK out, lent, back :
         /\ out = [i \in Items |-> PalletsOutByItem(i)]
         /\ lent = [i \in Items |-> LentOf(i)] /\ back = [i \in Items |-> ReturnedOf(i)]
  OBVIOUS
<1>2. IsFiniteSet(J)
  BY DataAssumption, FS_Subset
<1>3. \A i \in J : out[i] \in Int /\ back[i] \in Int /\ lent[i] = out[i] + back[i]
  <2> SUFFICES ASSUME NEW i \in J
               PROVE  out[i] \in Int /\ back[i] \in Int /\ lent[i] = out[i] + back[i]
    OBVIOUS
  <2>1. PICK x, y, z : x = PalletsOutByItem(i) /\ y = ReturnedOf(i) /\ z = LentOf(i)
    OBVIOUS
  <2>2. x \in Nat /\ y \in Nat /\ z \in Nat /\ x = z - y
    BY <2>1, ItemIsOut, ItemSumTypes
  <2>3. z = x + y
    BY ONLY <2>2
  <2>4. out[i] = x /\ back[i] = y /\ lent[i] = z
    BY <1>1, <2>1
  <2> QED BY ONLY <2>2, <2>3, <2>4
<1>4. SumOver(J, lent) = SumOver(J, out) + SumOver(J, back)
  BY ONLY <1>2, <1>3, SumOfSums
<1>5. SumOver(J, out) \in Int /\ SumOver(J, back) \in Int
  BY ONLY <1>2, <1>3, SumIsInt
<1>6. SumOver(J, out) = SumOver(J, lent) - SumOver(J, back)
  BY ONLY <1>4, <1>5
<1> QED BY <1>1, <1>6, SectionHandsOver, SectionTakesBack
-----------------------------------------------------------------------------
(* Values: what a standing return credits and what it keeps for damage come *)
(* to its pallets' deposits.                                                *)
DueOf  == [r \in ReturnIds |-> returns[r].refundDue]
CashOf == [r \in ReturnIds |-> returns[r].cashRefund]
KeptOf == [r \in ReturnIds |-> SumOver(Items, [i \in Items |-> Compensated(r, i)])]
WorthOf == [r \in ReturnIds |-> SumOver(Items, [i \in Items |-> CameBack(r, i) * DepositOf(r, i)])]

LEMMA LineWorth ==
  ASSUME ReadInv, NEW r \in StandingReturns, NEW i \in Items
  PROVE  /\ DepositOf(r, i) \in Nat /\ Compensated(r, i) \in Nat /\ Credited(r, i) \in Nat
         /\ CameBack(r, i) * DepositOf(r, i) = Credited(r, i) + Compensated(r, i)
         /\ CameBack(r, i) * DepositOf(r, i) \in Nat
         /\ returns[r].body.damaged[i] = 0 => Compensated(r, i) = 0
         /\ i \notin BodyItems(returns[r].body) =>
               CameBack(r, i) = 0 /\ Credited(r, i) = 0 /\ Compensated(r, i) = 0
<1>0. TypeOK /\ LedgerInv /\ RecordInv
  BY ReadFacts
<1>1. r \in ReturnIds /\ returns[r].order \in OrderIds
  BY <1>0, StandingAreFinite DEF LedgerInv, StandingOnLive
<1>2. PICK a, d, f, p, back : /\ a = returns[r].body.accepted[i] /\ d = returns[r].body.damaged[i]
                              /\ f = returns[r].body.damagedRefund[i] /\ p = DepositOf(r, i)
                              /\ back = CameBack(r, i)
  OBVIOUS
<1>3. a \in Nat /\ d \in Nat /\ f \in Nat /\ p \in Nat
  BY <1>0, <1>1, <1>2, CameBackTypes, RowTypes DEF DepositOf
<1>4. f <= d * p
  BY <1>0, <1>2 DEF RecordInv, DamageWithin, DepositOf
<1>5. /\ back = a + d /\ Credited(r, i) = a * p + f /\ Compensated(r, i) = d * p - f
      /\ i \in BodyItems(returns[r].body) <=> a + d > 0
  BY <1>2 DEF CameBack, Credited, Compensated, BodyItems
<1>6. PICK u, v : u = a * p /\ v = d * p
  OBVIOUS
<1>7. u \in Nat /\ v \in Nat /\ (a + d) * p = u + v
  BY ONLY <1>3, <1>6
<1>8. (d = 0 => v = 0) /\ (a = 0 => u = 0)
  BY ONLY <1>3, <1>6
<1>9. ~(a + d > 0) => a = 0 /\ d = 0
  BY ONLY <1>3
<1>10. /\ Credited(r, i) = u + f /\ Compensated(r, i) = v - f /\ back * p = u + v
       /\ f <= v
  BY <1>4, <1>5, <1>6, <1>7
<1>11. f <= v
  BY <1>10
<1>12. /\ u + f \in Nat /\ v - f \in Nat /\ u + v \in Nat /\ u + v = (u + f) + (v - f)
       /\ d = 0 => v - f = 0
       /\ ~(a + d > 0) => a + d = 0 /\ u + f = 0 /\ v - f = 0
  BY ONLY <1>3, <1>7, <1>8, <1>9, <1>11
<1> QED BY <1>2, <1>3, <1>5, <1>10, <1>11, <1>12

LEMMA ReturnWorth ==
  ASSUME ReadInv, NEW r \in StandingReturns
  PROVE  /\ r \in ReturnIds /\ DueOf[r] \in Nat /\ CashOf[r] \in Nat /\ KeptOf[r] \in Nat
         /\ WorthOf[r] = DueOf[r] + KeptOf[r]
         /\ DueOf[r] = SumOver(Items, [i \in Items |-> Credited(r, i)])
<1>0. TypeOK /\ ReturnsPriced /\ RecordInv
  BY ReadFacts
<1>1. PICK c, k, w : /\ c = [i \in Items |-> Credited(r, i)]
                     /\ k = [i \in Items |-> Compensated(r, i)]
                     /\ w = [i \in Items |-> CameBack(r, i) * DepositOf(r, i)]
  OBVIOUS
<1>2. \A i \in Items : c[i] \in Nat /\ k[i] \in Nat /\ w[i] = c[i] + k[i]
  BY <1>1, LineWorth
<1>3. \A i \in Items : c[i] \in Int /\ k[i] \in Int /\ w[i] = c[i] + k[i]
  BY <1>2
<1>4. SumOver(Items, w) = SumOver(Items, c) + SumOver(Items, k)
  BY ONLY <1>3, DataAssumption, SumOfSums
<1>5. SumOver(Items, c) \in Nat /\ SumOver(Items, k) \in Nat
  BY ONLY <1>2, DataAssumption, SumIsNat
<1>6. r \in ReturnIds
  BY StandingAreFinite
<1>7. returns[r].refundDue = SumOver(Items, c)
  BY <1>0, <1>1, <1>6 DEF ReturnsPriced, RefundDue, Credited, DepositOf
<1>8. returns[r].cashRefund \in Nat
  BY <1>0, <1>6, RowTypes
<1> QED BY <1>1, <1>4, <1>5, <1>6, <1>7, <1>8 DEF DueOf, CashOf, KeptOf, WorthOf

(* What the returns of an order took back, at its deposits.                 *)
LEMMA BackAtDeposits ==
  ASSUME ReadInv, NEW o \in Live
  PROVE  SumOver(Items, [i \in Items |-> BackLeft(o, {}, i) * orders[o].deposit[i]])
           = SumOver(ReturnsOf(o), WorthOf)
<1>0. TypeOK /\ o \in OrderIds
  BY ReadFacts, StandingAreFinite
<1>1. PICK S, line, table, columns :
         /\ S = ReturnsOf(o)
         /\ line = [r \in ReturnIds |-> [i \in Items |-> CameBack(r, i) * DepositOf(r, i)]]
         /\ table = [i \in Items |-> [r \in ReturnIds |-> CameBack(r, i) * DepositOf(r, i)]]
         /\ columns = [i \in Items |-> BackLeft(o, {}, i) * orders[o].deposit[i]]
  OBVIOUS
<1>2. /\ S \subseteq StandingReturns /\ S \subseteq ReturnIds /\ IsFiniteSet(S)
      /\ \A r \in S : returns[r].order = o
  <2>1. S \subseteq StandingReturns /\ \A r \in S : returns[r].order = o
    BY <1>1 DEF ReturnsOf
  <2> QED BY <2>1, StandingAreFinite, FS_Subset
<1>3. Transposed(S, Items, line, table)
  BY <1>1, <1>2, LineWorth DEF Transposed
<1>4. SumsOf(S, Items, line, WorthOf)
  BY <1>1, <1>2 DEF SumsOf, WorthOf
<1>5. SumsOf(Items, S, table, columns)
  <2> SUFFICES ASSUME NEW i \in Items PROVE columns[i] = SumOver(S, table[i])
    BY DEF SumsOf
  <2>1. PICK p, f, g : /\ p = orders[o].deposit[i] /\ f = [r \in ReturnIds |-> CameBack(r, i)]
                       /\ g = table[i]
    OBVIOUS
  <2>2. p \in Int /\ \A r \in S : f[r] \in Int /\ g[r] = f[r] * p
    <3>1. p \in Nat /\ \A r \in S : f[r] \in Nat
      BY <1>0, <1>2, <2>1, RowTypes, CameBackTypes
    <3>2. \A r \in S : g[r] = f[r] * p
      BY <1>1, <1>2, <2>1 DEF DepositOf
    <3> QED BY <3>1, <3>2
  <2>3. SumOver(S, g) = SumOver(S, f) * p
    BY ONLY <1>2, <2>2, SumTimes
  <2>4. SumOver(S, f) = BackLeft(o, {}, i)
    BY <1>1, <2>1, GoneIsBack
  <2> QED BY <1>1, <2>1, <2>3, <2>4
<1>6. SumOver(S, WorthOf) = SumOver(Items, columns)
  BY ONLY <1>2, <1>3, <1>4, <1>5, DataAssumption, SumExchanged
<1> QED BY <1>1, <1>6

LEMMA ValueOfOrder ==
  ASSUME ReadInv, NEW o \in Live
  PROVE  /\ DepositsOf[o] = cache[o].outValue + SumOver(ReturnsOf(o), WorthOf)
         /\ DepositsOf[o] \in Nat /\ SumOver(ReturnsOf(o), WorthOf) \in Nat
<1>0. TypeOK /\ o \in OrderIds
  BY ReadFacts, StandingAreFinite
<1>1. PICK f, g, h :
         /\ f = [i \in Items |-> cache[o].out[i] * orders[o].deposit[i]]
         /\ g = [i \in Items |-> BackLeft(o, {}, i) * orders[o].deposit[i]]
         /\ h = [i \in Items |-> orders[o].quantity[i] * orders[o].deposit[i]]
  OBVIOUS
<1>2. \A i \in Items : f[i] \in Nat /\ g[i] \in Nat /\ h[i] = f[i] + g[i]
  <2> SUFFICES ASSUME NEW i \in Items PROVE f[i] \in Nat /\ g[i] \in Nat /\ h[i] = f[i] + g[i]
    OBVIOUS
  <2>1. PICK x, y, q, p : /\ x = cache[o].out[i] /\ y = BackLeft(o, {}, i)
                          /\ q = orders[o].quantity[i] /\ p = orders[o].deposit[i]
    OBVIOUS
  <2>2. x \in Nat /\ x = q - y /\ y \in Nat /\ q \in Nat /\ p \in Nat
    BY <1>0, <2>1, LiveFigures, AmountTypes, RowTypes
  <2>3. q = x + y
    BY ONLY <2>2
  <2>4. x * p \in Nat /\ y * p \in Nat /\ (x + y) * p = x * p + y * p
    BY ONLY <2>2
  <2>5. f[i] = x * p /\ g[i] = y * p /\ h[i] = q * p
    BY <1>1, <2>1
  <2> QED BY ONLY <2>3, <2>4, <2>5
<1>3. \A i \in Items : f[i] \in Int /\ g[i] \in Int /\ h[i] = f[i] + g[i]
  BY <1>2
<1>4. SumOver(Items, h) = SumOver(Items, f) + SumOver(Items, g)
  BY ONLY <1>3, DataAssumption, SumOfSums
<1>5. SumOver(Items, g) \in Nat
  BY ONLY <1>2, DataAssumption, SumIsNat
<1>6. SumOver(Items, f) = cache[o].outValue /\ SumOver(Items, g) = SumOver(ReturnsOf(o), WorthOf)
  BY <1>1, LiveFigures, BackAtDeposits
<1>7. DepositsOf[o] = SumOver(Items, h) /\ DepositsOf[o] \in Nat
  BY <1>0, <1>1, AmountTypes DEF DepositsOf, DepositTotal
<1> QED BY <1>4, <1>5, <1>6, <1>7

(* Over all live orders: deposits, less what returns credited and kept, are *)
(* out; less credits, payments and with the cash handed back, they are owed.*)
ValuesOut == [o \in OrderIds |-> cache[o].outValue]
OwedOf    == [o \in OrderIds |-> cache[o].owed]
LEMMA BooksSum ==
  ASSUME ReadInv
  PROVE  /\ SumOver(Live, DepositsOf) \in Nat /\ SumOver(Live, PaidOf) \in Nat
         /\ SumOver(StandingReturns, DueOf) \in Nat /\ SumOver(StandingReturns, KeptOf) \in Nat
         /\ SumOver(StandingReturns, CashOf) \in Nat
         /\ SumOver(Live, ValuesOut) \in Nat /\ SumOver(Live, OwedOf) \in Nat
<1>0. TypeOK
  BY ReadFacts
<1>1. ASSUME NEW o \in Live
      PROVE  DepositsOf[o] \in Nat /\ PaidOf[o] \in Nat /\ ValuesOut[o] \in Nat /\ OwedOf[o] \in Nat
  <2>1. o \in OrderIds /\ DepositsOf[o] \in Nat
    BY StandingAreFinite, ValueOfOrder
  <2>2. PaidOf[o] \in Nat
    BY <1>0, <2>1, AmountTypes DEF PaidOf
  <2> QED BY <2>1, <2>2, LiveFigures DEF ValuesOut, OwedOf
<1>2. \A r \in StandingReturns : DueOf[r] \in Nat /\ KeptOf[r] \in Nat /\ CashOf[r] \in Nat
  BY ReturnWorth
<1> QED BY ONLY <1>1, <1>2, StandingAreFinite, SumIsNat

LEMMA ValueOut ==
  ASSUME ReadInv
  PROVE  SumOver(Live, ValuesOut) = SumOver(Live, DepositsOf) - SumOver(StandingReturns, DueOf)
                                      - SumOver(StandingReturns, KeptOf)
<1>1. PICK w, back : w = WorthOf /\ back = [o \in OrderIds |-> SumOver(ReturnsOf(o), WorthOf)]
  OBVIOUS
<1>2. \A o \in Live : /\ ValuesOut[o] \in Int /\ back[o] \in Int
                      /\ DepositsOf[o] = ValuesOut[o] + back[o]
  <2> SUFFICES ASSUME NEW o \in Live
               PROVE  /\ ValuesOut[o] \in Int /\ back[o] \in Int
                      /\ DepositsOf[o] = ValuesOut[o] + back[o]
    OBVIOUS
  <2>1. o \in OrderIds /\ cache[o].outValue \in Nat
    BY LiveFigures
  <2>2. /\ DepositsOf[o] = cache[o].outValue + SumOver(ReturnsOf(o), WorthOf)
        /\ SumOver(ReturnsOf(o), WorthOf) \in Nat
    BY ValueOfOrder
  <2> QED BY <1>1, <2>1, <2>2 DEF ValuesOut
<1>3. SumOver(Live, DepositsOf) = SumOver(Live, ValuesOut) + SumOver(Live, back)
  BY ONLY <1>2, StandingAreFinite, SumOfSums
<1>4. \A r \in StandingReturns : /\ DueOf[r] \in Int /\ KeptOf[r] \in Int /\ w[r] \in Int
                                 /\ w[r] = DueOf[r] + KeptOf[r]
  <2> SUFFICES ASSUME NEW r \in StandingReturns
               PROVE  /\ DueOf[r] \in Int /\ KeptOf[r] \in Int /\ w[r] \in Int
                      /\ w[r] = DueOf[r] + KeptOf[r]
    OBVIOUS
  <2>1. DueOf[r] \in Nat /\ KeptOf[r] \in Nat /\ WorthOf[r] = DueOf[r] + KeptOf[r]
    BY ReturnWorth
  <2> QED BY <1>1, <2>1
<1>5. SumOver(Live, back) = SumOver(StandingReturns, w)
  <2>1. \A o \in Live : back[o] = SumOver(ReturnsOf(o), w)
    BY <1>1, StandingAreFinite
  <2>2. \A r \in StandingReturns : w[r] \in Int
    BY <1>4
  <2> QED BY ONLY ReadInv, <2>1, <2>2, ByOrder
<1>6. SumOver(StandingReturns, w) = SumOver(StandingReturns, DueOf) + SumOver(StandingReturns, KeptOf)
  BY ONLY <1>4, StandingAreFinite, SumOfSums
<1>7. PICK v, d, due, kept : /\ v = SumOver(Live, ValuesOut) /\ d = SumOver(Live, DepositsOf)
                             /\ due = SumOver(StandingReturns, DueOf)
                             /\ kept = SumOver(StandingReturns, KeptOf)
  OBVIOUS
<1>8. v \in Nat /\ d \in Nat /\ due \in Nat /\ kept \in Nat
  BY <1>7, BooksSum
<1>9. d = v + (due + kept)
  BY <1>3, <1>5, <1>6, <1>7
<1>10. v = d - due - kept
  BY ONLY <1>8, <1>9
<1> QED BY <1>7, <1>10

LEMMA OwedInAll ==
  ASSUME ReadInv
  PROVE  SumOver(Live, OwedOf) = SumOver(Live, DepositsOf) - SumOver(StandingReturns, DueOf)
                                   - SumOver(Live, PaidOf) + SumOver(StandingReturns, CashOf)
<1>0. TypeOK
  BY ReadFacts
<1>1. PICK credit, left, both :
         /\ credit = [r \in ReturnIds |-> CreditOf(r)]
         /\ left = [o \in OrderIds |-> CreditsLeft(o, {})]
         /\ both = [o \in OrderIds |-> cache[o].owed + PaidOn(o)]
  OBVIOUS
<1>2. \A o \in Live : /\ OwedOf[o] \in Int /\ PaidOf[o] \in Int /\ left[o] \in Int
                      /\ both[o] \in Int /\ both[o] = OwedOf[o] + PaidOf[o]
                      /\ DepositsOf[o] = both[o] + left[o]
  <2> SUFFICES ASSUME NEW o \in Live
               PROVE  /\ OwedOf[o] \in Int /\ PaidOf[o] \in Int /\ left[o] \in Int
                      /\ both[o] \in Int /\ both[o] = OwedOf[o] + PaidOf[o]
                      /\ DepositsOf[o] = both[o] + left[o]
    OBVIOUS
  <2>1. PICK owed, paid, l, d : /\ owed = cache[o].owed /\ paid = PaidOn(o)
                                /\ l = CreditsLeft(o, {}) /\ d = DepositTotal(orders[o])
    OBVIOUS
  <2>2. o \in OrderIds /\ owed \in Nat /\ owed = d - paid - l
    BY <2>1, LiveFigures
  <2>3. paid \in Nat /\ l \in Int /\ d \in Nat
    BY <1>0, <2>1, <2>2, AmountTypes
  <2>4. d = (owed + paid) + l
    BY ONLY <2>2, <2>3
  <2>5. OwedOf[o] = owed /\ PaidOf[o] = paid /\ left[o] = l /\ both[o] = owed + paid /\ DepositsOf[o] = d
    BY <1>1, <2>1, <2>2 DEF OwedOf, PaidOf, DepositsOf
  <2>6. owed \in Int /\ paid \in Int /\ l \in Int /\ owed + paid \in Int
    BY ONLY <2>2, <2>3
  <2> QED BY ONLY <2>4, <2>5, <2>6
<1>3. SumOver(Live, both) = SumOver(Live, OwedOf) + SumOver(Live, PaidOf)
  BY ONLY <1>2, StandingAreFinite, SumOfSums
<1>4. SumOver(Live, DepositsOf) = SumOver(Live, both) + SumOver(Live, left)
  BY ONLY <1>2, StandingAreFinite, SumOfSums
<1>5. \A r \in StandingReturns : /\ credit[r] \in Int /\ CashOf[r] \in Int
                                 /\ DueOf[r] = credit[r] + CashOf[r]
  <2> SUFFICES ASSUME NEW r \in StandingReturns
               PROVE  credit[r] \in Int /\ CashOf[r] \in Int /\ DueOf[r] = credit[r] + CashOf[r]
    OBVIOUS
  <2>1. PICK due, cash : due = DueOf[r] /\ cash = CashOf[r]
    OBVIOUS
  <2>2. due \in Nat /\ cash \in Nat /\ r \in ReturnIds
    BY <2>1, ReturnWorth
  <2>3. credit[r] = due - cash
    BY <1>1, <2>1, <2>2 DEF CreditOf, DueOf, CashOf
  <2> QED BY ONLY <2>1, <2>2, <2>3
<1>6. SumOver(StandingReturns, DueOf)
        = SumOver(StandingReturns, credit) + SumOver(StandingReturns, CashOf)
  BY ONLY <1>5, StandingAreFinite, SumOfSums
<1>7. SumOver(Live, left) = SumOver(StandingReturns, credit)
  <2>1. \A r \in StandingReturns : credit[r] \in Int
    BY <1>5
  <2>2. \A o \in Live : left[o] = SumOver(ReturnsOf(o), credit)
    <3> SUFFICES ASSUME NEW o \in Live PROVE left[o] = SumOver(ReturnsOf(o), credit)
      OBVIOUS
    <3>1. PICK S, f : S = ReturnsOf(o) \ {} /\ f = [r \in S |-> CreditOf(r)]
      OBVIOUS
    <3>2. S = ReturnsOf(o) /\ IsFiniteSet(S) /\ S \subseteq ReturnIds
      BY <3>1, ReturnsAreFinite, StandingAreFinite DEF ReturnsOf
    <3>3. \A r \in S : f[r] = credit[r]
      BY <1>1, <3>1, <3>2
    <3>4. SumOver(S, f) = SumOver(S, credit)
      BY ONLY <3>2, <3>3, SumAgrees
    <3> QED BY <1>1, <3>1, <3>2, <3>4, StandingAreFinite DEF CreditsLeft
  <2> QED BY ONLY ReadInv, <2>1, <2>2, ByOrder
<1>8. PICK owed, paid, d, due, cash, c :
         /\ owed = SumOver(Live, OwedOf) /\ paid = SumOver(Live, PaidOf)
         /\ d = SumOver(Live, DepositsOf) /\ due = SumOver(StandingReturns, DueOf)
         /\ cash = SumOver(StandingReturns, CashOf) /\ c = SumOver(StandingReturns, credit)
  OBVIOUS
<1>9. owed \in Nat /\ paid \in Nat /\ d \in Nat /\ due \in Nat /\ cash \in Nat /\ c \in Int
  <2>1. c \in Int
    BY ONLY <1>5, <1>8, StandingAreFinite, SumIsInt
  <2> QED BY <1>8, <2>1, BooksSum
<1>10. d = (owed + paid) + c /\ due = c + cash
  BY <1>3, <1>4, <1>6, <1>7, <1>8
<1>11. owed = d - due - paid + cash
  BY ONLY <1>9, <1>10
<1> QED BY <1>8, <1>11
-----------------------------------------------------------------------------
(* The two reports agree, section by section.                               *)
LEMMA DueSection ==
  ASSUME ReadInv
  PROVE  OverLines(ReturnRowsIn(AllTime), AllTime, Credited) = SumOver(StandingReturns, DueOf)
<1>1. PICK rows, f : /\ rows = ReturnRowsIn(AllTime)
                     /\ f = [r \in rows |-> SumOver(Items, [i \in Items |-> Credited(r, i)])]
  OBVIOUS
<1>2. \A r \in StandingReturns : DueOf[r] \in Int
  <2>1. \A r \in StandingReturns : DueOf[r] \in Nat
    BY ReturnWorth
  <2> QED BY ONLY <2>1
<1>3. \A r \in StandingReturns : BodyItems(returns[r].body) \cap Items = {} => DueOf[r] = 0
  <2>1. \A r \in StandingReturns : BodyItems(returns[r].body) # {}
    BY ReadFacts DEF RecordInv, ReturnKept, RecordKept, StandingReturns
  <2> QED BY <2>1 DEF BodyItems
<1>4. \A r \in ReturnRowsIn(AllTime) : f[r] = DueOf[r]
  <2>1. rows \subseteq StandingReturns
    BY <1>1 DEF ReturnRowsIn
  <2> QED BY <1>1, <2>1, ReturnWorth
<1>5. AllTime = [days |-> Days, items |-> Items] /\ Items \in SUBSET Items
  BY DEF AllTime
<1>6. SumOver(ReturnRowsIn(AllTime), f) = SumOver(StandingReturns, DueOf)
  BY ONLY ReadInv, <1>2, <1>3, <1>4, <1>5, ReturnSection
<1> QED BY <1>1, <1>5, <1>6 DEF OverLines

LEMMA KeptSection ==
  ASSUME ReadInv
  PROVE  OverLines(ReturnRowsIn(AllTime), AllTime, Compensated) = SumOver(StandingReturns, KeptOf)
<1>1. PICK rows, f : /\ rows = ReturnRowsIn(AllTime)
                     /\ f = [r \in rows |-> SumOver(Items, [i \in Items |-> Compensated(r, i)])]
  OBVIOUS
<1>2. \A r \in StandingReturns : KeptOf[r] \in Int
  <2>1. \A r \in StandingReturns : KeptOf[r] \in Nat
    BY ReturnWorth
  <2> QED BY ONLY <2>1
<1>3. \A r \in StandingReturns : BodyItems(returns[r].body) \cap Items = {} => KeptOf[r] = 0
  <2>1. \A r \in StandingReturns : BodyItems(returns[r].body) # {}
    BY ReadFacts DEF RecordInv, ReturnKept, RecordKept, StandingReturns
  <2> QED BY <2>1 DEF BodyItems
<1>4. \A r \in ReturnRowsIn(AllTime) : f[r] = KeptOf[r]
  <2>1. rows \subseteq ReturnIds
    BY <1>1, StandingAreFinite DEF ReturnRowsIn
  <2> QED BY <1>1, <2>1 DEF KeptOf
<1>5. AllTime = [days |-> Days, items |-> Items] /\ Items \in SUBSET Items
  BY DEF AllTime
<1>6. SumOver(ReturnRowsIn(AllTime), f) = SumOver(StandingReturns, KeptOf)
  BY ONLY ReadInv, <1>2, <1>3, <1>4, <1>5, ReturnSection
<1> QED BY <1>1, <1>5, <1>6 DEF OverLines

LEMMA DepositSection ==
  ASSUME ReadInv
  PROVE  OverLines(HandoverRows(AllTime), AllTime, Deposited) = SumOver(Live, DepositsOf)
<1>1. PICK rows, f : /\ rows = HandoverRows(AllTime)
                     /\ f = [o \in rows |-> SumOver(Items, [i \in Items |-> Deposited(o, i)])]
  OBVIOUS
<1>2. \A o \in Live : DepositsOf[o] \in Int
  BY ValueOfOrder
<1>3. \A o \in Live : (\A i \in Items : orders[o].quantity[i] = 0) => DepositsOf[o] = 0
  <2> SUFFICES ASSUME NEW o \in Live, \A i \in Items : orders[o].quantity[i] = 0
               PROVE  DepositsOf[o] = 0
    OBVIOUS
  <2>1. PICK h : h = [i \in Items |-> orders[o].quantity[i] * orders[o].deposit[i]]
    OBVIOUS
  <2>2. \A i \in Items : h[i] = 0
    <3> SUFFICES ASSUME NEW i \in Items PROVE h[i] = 0
      OBVIOUS
    <3>1. PICK p \in Nat : p = orders[o].deposit[i]
      BY ReadFacts, RowTypes, StandingAreFinite
    <3>2. h[i] = 0 * p
      BY <2>1, <3>1
    <3> QED BY ONLY <3>2, p \in Nat
  <2>3. SumOver(Items, h) = 0
    BY ONLY <2>2, DataAssumption, SumOfZeros
  <2> QED BY <2>1, <2>3, StandingAreFinite DEF DepositsOf, DepositTotal
<1>4. \A o \in HandoverRows(AllTime) : f[o] = DepositsOf[o]
  <2>1. rows \subseteq OrderIds
    BY <1>1, StandingAreFinite DEF HandoverRows
  <2> QED BY <1>1, <2>1 DEF DepositsOf, DepositTotal, Deposited
<1>5. AllTime = [days |-> Days, items |-> Items] /\ Items \in SUBSET Items
  BY DEF AllTime
<1>6. SumOver(HandoverRows(AllTime), f) = SumOver(Live, DepositsOf)
  BY ONLY ReadInv, <1>2, <1>3, <1>4, <1>5, HandoverSection
<1> QED BY <1>1, <1>5, <1>6 DEF OverLines

LEMMA PaymentsNet ==
  ASSUME ReadInv
  PROVE  Net(PaymentRowsIn(AllTime), payments) = SumOver(Live, PaidOf)
<1>0. TypeOK /\ LedgerInv /\ RecordInv
  BY ReadFacts
<1>1. PICK rows : rows = PaymentRowsIn(AllTime)
  OBVIOUS
<1>2. IsFiniteSet(rows) /\ \A p \in rows : payments[p].amount \in Int
  <2>1. rows \in SUBSET PaymentIds
    BY <1>1 DEF PaymentRowsIn
  <2> QED BY <1>0, <2>1, RowsAreFinite, FS_Subset, RowTypes
<1>3. {p \in rows : payments[p].state # "reversed"} = StandingPayments
  <2>1. ASSUME NEW p \in StandingPayments PROVE p \in rows
    <3>1. /\ p \in PaymentIds /\ payments[p].state = "standing"
          /\ payments[p].order \in Live /\ payments[p].order \in OrderIds
      BY <1>0, StandingAreFinite DEF StandingPayments, LedgerInv, StandingOnLive
    <3>2. orders[payments[p].order].date \in Days
      BY <1>0, <3>1 DEF RecordInv, OrdersDated, Live
    <3>3. ~payments[p].automatic => payments[p].date \in Days
      BY <1>0, <3>1 DEF RecordInv, PaymentsKept, PaymentKept
    <3> QED BY <1>1, <3>1, <3>2, <3>3 DEF PaymentRowsIn, AllTime, EffectiveDate
  <2>2. ASSUME NEW p \in rows, payments[p].state # "reversed" PROVE p \in StandingPayments
    BY <1>0, <1>1, <2>2 DEF PaymentRowsIn, StandingPayments, TypeOK, PaymentRows
  <2>3. \A p \in StandingPayments : payments[p].state # "reversed"
    BY DEF StandingPayments
  <2> QED BY <2>1, <2>2, <2>3
<1>4. Net(rows, payments) = Amounts({p \in rows : payments[p].state # "reversed"}, payments)
  BY ONLY <1>2, NetIsStanding
<1> QED BY <1>1, <1>3, <1>4, ByOrderPaid

LEMMA RefundsNet ==
  ASSUME ReadInv
  PROVE  Net(RefundRowsIn(AllTime), refunds) = SumOver(StandingReturns, CashOf)
<1>0. TypeOK /\ LedgerInv /\ RecordInv /\ RefundStandsWithItsReturn
  BY ReadFacts
<1>1. PICK rows : rows = RefundRowsIn(AllTime)
  OBVIOUS
<1>2. IsFiniteSet(rows) /\ \A r \in rows : refunds[r].amount \in Int
  <2>1. rows \in SUBSET ReturnIds
    BY <1>1 DEF RefundRowsIn
  <2>2. \A r \in ReturnIds : refunds[r].amount \in Int
    BY <1>0, BoundsAssumption DEF TypeOK, RefundRows, Counts
  <2> QED BY <2>1, <2>2, RowsAreFinite, FS_Subset
<1>3. {r \in rows : refunds[r].state # "reversed"}
        = {q \in StandingReturns : refunds[q].state = "standing"}
  <2>1. ASSUME NEW q \in StandingReturns, refunds[q].state = "standing" PROVE q \in rows
    <3>1. q \in ReturnIds /\ returns[q].order \in Live /\ returns[q].date \in Days
      BY <1>0, StandingAreFinite
      DEF LedgerInv, StandingOnLive, RecordInv, ReturnKept, RecordKept, StandingReturns
    <3> QED BY <1>1, <2>1, <3>1 DEF RefundRowsIn, AllTime
  <2>2. ASSUME NEW r \in rows, refunds[r].state # "reversed"
        PROVE  r \in StandingReturns /\ refunds[r].state = "standing"
    <3>1. r \in ReturnIds /\ refunds[r].state = "standing"
      BY <1>0, <1>1, <2>2 DEF RefundRowsIn, TypeOK, RefundRows
    <3> QED BY <1>0, <3>1 DEF RefundStandsWithItsReturn, StandingReturns
  <2> QED BY <2>1, <2>2
<1>4. Net(rows, refunds) = Amounts({r \in rows : refunds[r].state # "reversed"}, refunds)
  BY ONLY <1>2, NetIsStanding
<1>5. StandingReturns \in SUBSET StandingReturns
  OBVIOUS
<1>6. Amounts({q \in StandingReturns : refunds[q].state = "standing"}, refunds)
        = SumOver(StandingReturns, CashOf)
  BY <1>5, CashOfParts DEF CashOf
<1> QED BY <1>1, <1>3, <1>4, <1>6

LEMMA ActivityIs ==
  ASSUME ReadInv, NEW all, all = ActivityTotals(AllTime)
  PROVE  /\ all.handoverDepositTotal = SumOver(Live, DepositsOf)
         /\ all.refundDueTotal = SumOver(StandingReturns, DueOf)
         /\ all.compensationAssessed = SumOver(StandingReturns, KeptOf)
         /\ all.paymentsNet = SumOver(Live, PaidOf)
         /\ all.refundsNet = SumOver(StandingReturns, CashOf)
         /\ all.handoverQuantity - all.returned
              = SumOver(Items, [i \in Items |-> PalletsOutByItem(i)])
<1>1. AllTime = [days |-> Days, items |-> Items] /\ ~MoneyOmitted(AllTime) /\ Items \in SUBSET Items
  BY DEF AllTime, MoneyOmitted
<1>2. /\ all.handoverQuantity = OverLines(HandoverRows(AllTime), AllTime, Handed)
      /\ all.returned = OverLines(ReturnRowsIn(AllTime), AllTime, CameBack)
      /\ all.handoverDepositTotal = OverLines(HandoverRows(AllTime), AllTime, Deposited)
      /\ all.refundDueTotal = OverLines(ReturnRowsIn(AllTime), AllTime, Credited)
      /\ all.compensationAssessed = OverLines(ReturnRowsIn(AllTime), AllTime, Compensated)
      /\ all.paymentsNet = Net(PaymentRowsIn(AllTime), payments)
      /\ all.refundsNet = Net(RefundRowsIn(AllTime), refunds)
  BY <1>1 DEF ActivityTotals
<1>3. SumOver(Items, [i \in Items |-> PalletsOutByItem(i)])
        = OverLines(HandoverRows(AllTime), AllTime, Handed)
          - OverLines(ReturnRowsIn(AllTime), AllTime, CameBack)
  BY ONLY ReadInv, <1>1, SectionsLeaveOut
<1> QED BY <1>2, <1>3, DepositSection, DueSection, KeptSection, PaymentsNet, RefundsNet

(* What stands, from the open orders or from all live ones.                 *)
PalletsOf == [o \in OrderIds |-> SumOver(Items, cache[o].out)]
HeldOf    == [o \in OrderIds |-> Held(o)]
LEMMA TotalsAreSums ==
  ASSUME NEW S
  PROVE  TotalsOver(S) = [palletsOut |-> SumOver(S, PalletsOf), outValue |-> SumOver(S, ValuesOut),
                          owed |-> SumOver(S, OwedOf), held |-> SumOver(S, HeldOf)]
BY DEF TotalsOver, PalletsOf, ValuesOut, OwedOf, HeldOf

LEMMA FigureTypes ==
  ASSUME ReadInv, NEW o \in Live
  PROVE  PalletsOf[o] \in Nat /\ ValuesOut[o] \in Nat /\ OwedOf[o] \in Nat /\ HeldOf[o] \in Nat
<1>1. /\ o \in OrderIds /\ cache[o].owed \in Nat /\ cache[o].outValue \in Nat
      /\ \A i \in Items : cache[o].out[i] \in Nat
  BY LiveFigures
<1>2. PICK out : out = cache[o].out
  OBVIOUS
<1>3. \A i \in Items : out[i] \in Nat
  BY <1>1, <1>2
<1>4. SumOver(Items, out) \in Nat
  BY ONLY <1>3, DataAssumption, SumIsNat
<1>5. Held(o) \in Nat
  <2>1. PICK x \in Nat, y \in Nat : x = cache[o].outValue /\ y = cache[o].owed
    BY <1>1
  <2> QED BY <2>1 DEF Held, ZeroOrMore
<1> QED BY <1>1, <1>2, <1>4, <1>5 DEF PalletsOf, ValuesOut, OwedOf, HeldOf

LEMMA ClosedAddNothing ==
  ASSUME ReadInv, NEW o \in Live \ OpenOrders
  PROVE  PalletsOf[o] = 0 /\ ValuesOut[o] = 0 /\ OwedOf[o] = 0 /\ HeldOf[o] = 0
<1>1. o \in OrderIds /\ cache[o].owed = 0 /\ cache[o].outValue = 0
  BY ClosedFigures, StandingAreFinite
<1>2. PICK out : out = cache[o].out
  OBVIOUS
<1>3. \A i \in Items : out[i] = 0
  BY <1>2, ClosedFigures
<1>4. SumOver(Items, out) = 0
  BY ONLY <1>3, DataAssumption, SumOfZeros
<1>5. Held(o) = 0
  BY <1>1 DEF Held, ZeroOrMore
<1> QED BY <1>1, <1>2, <1>4, <1>5 DEF PalletsOf, ValuesOut, OwedOf, HeldOf

LEMMA StandingIsAll ==
  ASSUME ReadInv
  PROVE  /\ SumOver(OpenOrders, PalletsOf) = SumOver(Live, PalletsOf)
         /\ SumOver(OpenOrders, ValuesOut) = SumOver(Live, ValuesOut)
         /\ SumOver(OpenOrders, OwedOf) = SumOver(Live, OwedOf)
         /\ SumOver(OpenOrders, HeldOf) = SumOver(Live, HeldOf)
         /\ StandingTotals = TotalsOver(Live)
<1>1. \A o \in Live : PalletsOf[o] \in Int /\ ValuesOut[o] \in Int /\ OwedOf[o] \in Int /\ HeldOf[o] \in Int
  BY FigureTypes
<1>2. \A o \in Live \ OpenOrders :
        PalletsOf[o] = 0 /\ ValuesOut[o] = 0 /\ OwedOf[o] = 0 /\ HeldOf[o] = 0
  BY ClosedAddNothing
<1>3. SumOver(OpenOrders, PalletsOf) = SumOver(Live, PalletsOf)
  BY ONLY ReadInv, <1>1, <1>2, OpenIsAll
<1>4. SumOver(OpenOrders, ValuesOut) = SumOver(Live, ValuesOut)
  BY ONLY ReadInv, <1>1, <1>2, OpenIsAll
<1>5. SumOver(OpenOrders, OwedOf) = SumOver(Live, OwedOf)
  BY ONLY ReadInv, <1>1, <1>2, OpenIsAll
<1>6. SumOver(OpenOrders, HeldOf) = SumOver(Live, HeldOf)
  BY ONLY ReadInv, <1>1, <1>2, OpenIsAll
<1>7. /\ TotalsOver(OpenOrders)
           = [palletsOut |-> SumOver(OpenOrders, PalletsOf), outValue |-> SumOver(OpenOrders, ValuesOut),
              owed |-> SumOver(OpenOrders, OwedOf), held |-> SumOver(OpenOrders, HeldOf)]
      /\ TotalsOver(Live)
           = [palletsOut |-> SumOver(Live, PalletsOf), outValue |-> SumOver(Live, ValuesOut),
              owed |-> SumOver(Live, OwedOf), held |-> SumOver(Live, HeldOf)]
  BY ONLY TotalsAreSums
<1> QED BY <1>3, <1>4, <1>5, <1>6, <1>7 DEF StandingTotals
(* Pallets counted by item and by order come to the same.                   *)
LEMMA PalletsByItem ==
  ASSUME ReadInv
  PROVE  SumOver(Live, PalletsOf) = SumOver(Items, [i \in Items |-> PalletsOutByItem(i)])
<1>1. PICK line, table, columns :
         /\ line = [o \in OrderIds |-> cache[o].out]
         /\ table = [i \in Items |-> [o \in OrderIds |-> cache[o].out[i]]]
         /\ columns = [i \in Items |-> PalletsOutByItem(i)]
  OBVIOUS
<1>2. Transposed(Live, Items, line, table)
  <2>1. \A o \in Live, i \in Items : cache[o].out[i] \in Nat
    BY LiveFigures
  <2> QED BY <1>1, <2>1, StandingAreFinite DEF Transposed
<1>3. SumsOf(Live, Items, line, PalletsOf)
  BY <1>1, StandingAreFinite DEF SumsOf, PalletsOf
<1>4. SumsOf(Items, Live, table, columns)
  BY <1>1 DEF SumsOf, PalletsOutByItem
<1>5. SumOver(Live, PalletsOf) = SumOver(Items, columns)
  BY ONLY <1>2, <1>3, <1>4, StandingAreFinite, DataAssumption, SumExchanged
<1> QED BY <1>1, <1>5

LEMMA ByItemIsAll ==
  ASSUME ReadInv, NEW byItem, byItem = PositionsReport.byItem
  PROVE  SumOver(DOMAIN byItem, byItem) = SumOver(Live, PalletsOf)
<1>1. PICK columns, D :
         /\ columns = [i \in Items |-> PalletsOutByItem(i)]
         /\ D = {k \in Items : PalletsOutByItem(k) > 0}
  OBVIOUS
<1>2. byItem = [i \in D |-> PalletsOutByItem(i)]
  BY <1>1 DEF PositionsReport
<1>3. DOMAIN byItem = D /\ D \in SUBSET Items /\ IsFiniteSet(D)
  BY <1>1, <1>2, DataAssumption, FS_Subset
<1>4. \A i \in Items : columns[i] \in Nat /\ (i \notin D => ~(columns[i] > 0))
  BY <1>1, ItemIsOut
<1>5. /\ \A i \in D : columns[i] \in Int /\ byItem[i] = columns[i]
      /\ \A i \in Items \ D : columns[i] = 0
  BY <1>1, <1>2, <1>3, <1>4
<1>6. SumOver(Items, columns) = SumOver(D, columns)
  BY ONLY <1>3, <1>5, DataAssumption, SumOfPart
<1>7. SumOver(D, byItem) = SumOver(D, columns)
  BY ONLY <1>3, <1>5, SumAgrees
<1> QED BY <1>1, <1>3, <1>6, <1>7, PalletsByItem

(* Nothing stands on a customer with no open order, and something on one    *)
(* with any.                                                                *)
LEMMA ListedIsOpen ==
  ASSUME ReadInv
  PROVE  PositionsReport.listed <=> OpenOrders # {}
<1>1. PICK pallets, owed, held : /\ pallets = SumOver(OpenOrders, PalletsOf)
                                 /\ owed = SumOver(OpenOrders, OwedOf)
                                 /\ held = SumOver(OpenOrders, HeldOf)
  OBVIOUS
<1>2. PositionsReport.listed <=> pallets > 0 \/ owed > 0 \/ held > 0
  BY <1>1, TotalsAreSums DEF PositionsReport, StandingTotals
<1>3. CASE OpenOrders = {}
  <2>1. pallets = 0 /\ owed = 0 /\ held = 0
    BY <1>1, <1>3, SumOfNone
  <2> QED BY <1>2, <1>3, <2>1
<1>4. CASE OpenOrders # {}
  <2>1. PICK o \in OpenOrders : TRUE
    BY <1>4
  <2>2. \A p \in OpenOrders : PalletsOf[p] \in Nat /\ OwedOf[p] \in Nat
    BY OpenAreLive, FigureTypes
  <2>3. OwedOf[o] <= owed /\ PalletsOf[o] <= pallets
    BY ONLY <1>1, <2>1, <2>2, StandingAreFinite, TermAtMostSum
  <2>4. owed \in Nat /\ pallets \in Nat
    BY ONLY <1>1, <2>2, StandingAreFinite, SumIsNat
  <2>5. /\ o \in Live /\ o \in OrderIds /\ cache[o].status = "OPEN"
        /\ \A i \in Items : cache[o].out[i] \in Nat
        /\ cache[o].status = IF cache[o].owed > 0 \/ (\E i \in Items : cache[o].out[i] > 0)
                             THEN "OPEN" ELSE "SETTLED"
    BY <2>1, OpenAreLive, LiveFigures DEF OpenOrders
  <2>6. CASE cache[o].owed > 0
    <3>1. OwedOf[o] > 0
      BY <2>5, <2>6 DEF OwedOf
    <3>2. owed > 0
      BY ONLY <2>2, <2>3, <2>4, <3>1, o \in OpenOrders
    <3> QED BY <1>2, <1>4, <3>2
  <2>7. CASE \E i \in Items : cache[o].out[i] > 0
    <3>1. PICK out : out = cache[o].out
      OBVIOUS
    <3>2. PICK i \in Items : out[i] > 0
      BY <2>7, <3>1
    <3>3. \A k \in Items : out[k] \in Nat
      BY <2>5, <3>1
    <3>4. out[i] <= SumOver(Items, out)
      BY ONLY <3>3, i \in Items, DataAssumption, TermAtMostSum
    <3>5. PalletsOf[o] = SumOver(Items, out)
      BY <2>5, <3>1 DEF PalletsOf
    <3>6. pallets > 0
      BY ONLY <2>2, <2>3, <2>4, <3>2, <3>3, <3>4, <3>5, o \in OpenOrders
    <3> QED BY <1>2, <1>4, <3>6
  <2> QED BY <2>5, <2>6, <2>7
<1> QED BY <1>3, <1>4

(* The damage listed line by line is the damage kept.                       *)
LEMMA CompensationListed ==
  ASSUME ReadInv, NEW kept, kept = CompensationRows(AllTime)
  PROVE  SumOver(kept, [x \in kept |-> Compensated(x[1], x[2])]) = SumOver(StandingReturns, KeptOf)
<1>1. PICK pairs, f, g :
         /\ pairs = StandingReturns \X Items
         /\ f = [x \in pairs |-> Compensated(x[1], x[2])]
         /\ g = [x \in kept |-> Compensated(x[1], x[2])]
  OBVIOUS
<1>2. AllTime = [days |-> Days, items |-> Items]
  BY DEF AllTime
<1>3. kept \in SUBSET pairs
  BY <1>1, <1>2 DEF CompensationRows, ReturnRowsIn
<1>4. IsFiniteSet(pairs) /\ IsFiniteSet(kept)
  BY <1>1, <1>3, StandingAreFinite, DataAssumption, FS_Product, FS_Subset
<1>5. \A r \in StandingReturns, i \in Items : f[<<r, i>>] \in Nat
  BY <1>1, LineWorth
<1>6. \A r \in StandingReturns : KeptOf[r] = SumOver(Items, [i \in Items |-> f[<<r, i>>]])
  <2> SUFFICES ASSUME NEW r \in StandingReturns
               PROVE  KeptOf[r] = SumOver(Items, [i \in Items |-> f[<<r, i>>]])
    OBVIOUS
  <2>1. [i \in Items |-> f[<<r, i>>]] = [i \in Items |-> Compensated(r, i)]
    BY <1>1
  <2> QED BY <2>1, StandingAreFinite DEF KeptOf
<1>7. \A r \in StandingReturns, i \in Items : f[<<r, i>>] \in Int
  <2> SUFFICES ASSUME NEW r \in StandingReturns, NEW i \in Items PROVE f[<<r, i>>] \in Int
    OBVIOUS
  <2>1. PICK n \in Nat : n = f[<<r, i>>]
    BY <1>5
  <2> QED BY ONLY n \in Nat, <2>1
<1>8. SumOver(pairs, f) = SumOver(StandingReturns, KeptOf)
  <2>1. SumOver(StandingReturns \X Items, f) = SumOver(StandingReturns, KeptOf)
    <3>1. OfPairs(StandingReturns, Items, f, KeptOf)
      BY <1>6, <1>7 DEF OfPairs
    <3> QED BY ONLY <3>1, StandingAreFinite, DataAssumption, SumOverPairs
  <2> QED BY <1>1, <2>1
<1>9. \A x \in pairs \ kept : f[x] = 0
  <2> SUFFICES ASSUME NEW x \in pairs \ kept PROVE f[x] = 0
    OBVIOUS
  <2>0. PICK r \in StandingReturns, i \in Items : x = <<r, i>>
    BY <1>1
  <2>1. f[<<r, i>>] = Compensated(r, i)
    BY <1>1
  <2>2. returns[r].order \in Live /\ returns[r].date \in Days /\ returns[r].body.damaged[i] \in Nat
    BY ReadFacts, CameBackTypes, StandingAreFinite
    DEF LedgerInv, StandingOnLive, RecordInv, ReturnKept, RecordKept, StandingReturns
  <2>3. BodyItems(returns[r].body) \cap Items = {} \/ ~(returns[r].body.damaged[i] > 0)
    BY <1>2, <2>0, <2>2 DEF CompensationRows, ReturnRowsIn
  <2>4. CASE BodyItems(returns[r].body) \cap Items = {}
    BY <2>0, <2>1, <2>4, LineWorth
  <2>5. CASE ~(returns[r].body.damaged[i] > 0)
    <3>1. returns[r].body.damaged[i] = 0
      BY ONLY <2>2, <2>5
    <3> QED BY <2>0, <2>1, <3>1, LineWorth
  <2> QED BY <2>3, <2>4, <2>5
<1>10. \A x \in kept : f[x] \in Int /\ g[x] = f[x]
  BY <1>1, <1>3, <1>7
<1>11. SumOver(pairs, f) = SumOver(kept, f)
  BY ONLY <1>3, <1>4, <1>9, <1>10, SumOfPart
<1>12. SumOver(kept, g) = SumOver(kept, f)
  BY ONLY <1>4, <1>10, SumAgrees
<1> QED BY <1>1, <1>8, <1>11, <1>12

LEMMA ItemReports ==
  ASSUME ReadInv, NEW i \in Items, NEW totals,
         totals = ActivityTotals([AllTime EXCEPT !.items = {i}])
  PROVE  PalletsOutByItem(i) = totals.handoverQuantity - totals.returned
<1>1. PICK scope, J, out : /\ scope = [days |-> Days, items |-> {i}] /\ J = {i}
                           /\ out = [k \in Items |-> PalletsOutByItem(k)]
  OBVIOUS
<1>2. [AllTime EXCEPT !.items = {i}] = scope
  BY <1>1 DEF AllTime
<1>3. /\ totals.handoverQuantity = OverLines(HandoverRows(scope), scope, Handed)
      /\ totals.returned = OverLines(ReturnRowsIn(scope), scope, CameBack)
  BY <1>2 DEF ActivityTotals
<1>4. scope = [days |-> Days, items |-> J] /\ J \in SUBSET Items
  BY <1>1
<1>5. SumOver(J, [k \in Items |-> PalletsOutByItem(k)])
        = OverLines(HandoverRows(scope), scope, Handed)
          - OverLines(ReturnRowsIn(scope), scope, CameBack)
  BY ONLY ReadInv, <1>4, SectionsLeaveOut
<1>6. out[i] = PalletsOutByItem(i) /\ PalletsOutByItem(i) \in Nat
  BY <1>1, ItemIsOut
<1>7. SumOver({i}, out) = out[i]
  <2>1. out[i] \in Int
    BY <1>6
  <2> QED BY ONLY <2>1, SumOfOne
<1> QED BY <1>1, <1>3, <1>5, <1>6, <1>7

LEMMA ReportsHold == ReadInv => ReportsAgree
<1> SUFFICES ASSUME ReadInv PROVE ReportsAgree
  OBVIOUS
<1>1. PICK all, report, kept :
         all = ActivityTotals(AllTime) /\ report = PositionsReport /\ kept = CompensationRows(AllTime)
  OBVIOUS
<1>2. report.row = StandingTotals /\ StandingTotals = TotalsOver(Live)
  BY <1>1, StandingIsAll DEF PositionsReport
<1>3. /\ report.row.palletsOut = SumOver(Live, PalletsOf)
      /\ report.row.outValue = SumOver(Live, ValuesOut)
      /\ report.row.owed = SumOver(Live, OwedOf)
  BY <1>2, TotalsAreSums
<1>4. /\ all.handoverDepositTotal = SumOver(Live, DepositsOf)
      /\ all.refundDueTotal = SumOver(StandingReturns, DueOf)
      /\ all.compensationAssessed = SumOver(StandingReturns, KeptOf)
      /\ all.paymentsNet = SumOver(Live, PaidOf)
      /\ all.refundsNet = SumOver(StandingReturns, CashOf)
      /\ all.handoverQuantity - all.returned
           = SumOver(Items, [i \in Items |-> PalletsOutByItem(i)])
  BY ONLY ReadInv, <1>1, ActivityIs
<1>5. report.row.palletsOut = all.handoverQuantity - all.returned
  BY <1>3, <1>4, PalletsByItem
<1>6. report.row.outValue = all.handoverDepositTotal - all.refundDueTotal - all.compensationAssessed
  BY <1>3, <1>4, ValueOut
<1>7. report.row.owed = all.handoverDepositTotal - all.refundDueTotal - all.paymentsNet + all.refundsNet
  BY <1>3, <1>4, OwedInAll
<1>8. report.row.palletsOut = SumOver(DOMAIN report.byItem, report.byItem)
  BY <1>1, <1>3, ByItemIsAll
<1>9. report.listed <=> OpenOrders # {}
  BY <1>1, ListedIsOpen
<1>10. all.compensationAssessed = SumOver(kept, [x \in kept |-> Compensated(x[1], x[2])])
  BY <1>1, <1>4, CompensationListed
<1>11. \A i \in Items : LET of == ActivityTotals([AllTime EXCEPT !.items = {i}])
                        IN  PalletsOutByItem(i) = of.handoverQuantity - of.returned
  BY ItemReports
<1> QED BY <1>1, <1>2, <1>5, <1>6, <1>7, <1>8, <1>9, <1>10, <1>11 DEF ReportsAgree
-----------------------------------------------------------------------------
(* The customer's own figures: what is held by item is what is out of it,   *)
(* and its value what open orders say theirs is.                            *)
LEMMA HeldByItem ==
  ASSUME ReadInv, NEW held, held = DOMAIN Holdings
  PROVE  /\ held \in SUBSET Items
         /\ \A i \in held : /\ Holdings[i].quantityOut = PalletsOutByItem(i)
                            /\ Holdings[i].outValue
                                 = SumOver(Live, [o \in OrderIds |-> cache[o].out[i] * orders[o].deposit[i]])
         /\ \A i \in Items \ held : \A o \in Live : cache[o].out[i] = 0
<1>1. held = {k \in Items : \E o \in Live : cache[o].out[k] > 0}
  BY DEF Holdings
<1>2. ASSUME NEW i \in Items \ held, NEW o \in Live PROVE cache[o].out[i] = 0
  <2>1. cache[o].out[i] \in Nat /\ ~(cache[o].out[i] > 0)
    BY <1>1, LiveFigures
  <2> QED BY <2>1
<1>3. held \in SUBSET Items
  BY <1>1
<1>4. ASSUME NEW i \in held
      PROVE  /\ Holdings[i].quantityOut = PalletsOutByItem(i)
             /\ Holdings[i].outValue
                  = SumOver(Live, [o \in OrderIds |-> cache[o].out[i] * orders[o].deposit[i]])
  <2>1. PICK q, v :
           /\ q = SumOver(Live, [o \in OrderIds |-> cache[o].out[i]])
           /\ v = SumOver(Live, [o \in OrderIds |-> cache[o].out[i] * orders[o].deposit[i]])
    OBVIOUS
  <2>2. Holdings[i] = [quantityOut |-> q, outValue |-> v]
    BY <1>1, <2>1 DEF Holdings
  <2>3. Holdings[i].quantityOut = q /\ Holdings[i].outValue = v
    BY ONLY <2>2
  <2> QED BY <2>1, <2>3 DEF PalletsOutByItem
<1> QED BY <1>2, <1>3, <1>4

LEMMA HeldQuantities ==
  ASSUME ReadInv, NEW held, held = DOMAIN Holdings
  PROVE  SumOver(held, [i \in held |-> Holdings[i].quantityOut]) = SumOver(Live, PalletsOf)
<1>1. PICK columns, f : /\ columns = [i \in Items |-> PalletsOutByItem(i)]
                        /\ f = [i \in held |-> Holdings[i].quantityOut]
  OBVIOUS
<1>2. held \in SUBSET Items /\ IsFiniteSet(held)
  BY HeldByItem, DataAssumption, FS_Subset
<1>3. \A i \in held : columns[i] \in Int /\ f[i] = columns[i]
  <2> SUFFICES ASSUME NEW i \in held PROVE columns[i] \in Int /\ f[i] = columns[i]
    OBVIOUS
  <2>1. i \in Items /\ PalletsOutByItem(i) \in Nat
    BY <1>2, ItemIsOut
  <2>2. Holdings[i].quantityOut = PalletsOutByItem(i)
    BY HeldByItem
  <2>3. f[i] = Holdings[i].quantityOut /\ columns[i] = PalletsOutByItem(i)
    BY <1>1, <2>1
  <2> QED BY <2>1, <2>2, <2>3
<1>4. \A i \in Items \ held : columns[i] = 0
  <2> SUFFICES ASSUME NEW i \in Items \ held PROVE columns[i] = 0
    OBVIOUS
  <2>1. PICK g : g = [o \in OrderIds |-> cache[o].out[i]]
    OBVIOUS
  <2>2. \A o \in Live : g[o] = 0
    BY <2>1, HeldByItem, StandingAreFinite
  <2>3. SumOver(Live, g) = 0
    BY ONLY <2>2, StandingAreFinite, SumOfZeros
  <2> QED BY <1>1, <2>1, <2>3 DEF PalletsOutByItem
<1>5. SumOver(Items, columns) = SumOver(held, columns)
  BY ONLY <1>2, <1>3, <1>4, DataAssumption, SumOfPart
<1>6. SumOver(held, f) = SumOver(held, columns)
  BY ONLY <1>2, <1>3, SumAgrees
<1> QED BY <1>1, <1>5, <1>6, PalletsByItem

LEMMA HeldValues ==
  ASSUME ReadInv, NEW held, held = DOMAIN Holdings
  PROVE  SumOver(held, [i \in held |-> Holdings[i].outValue]) = SumOver(Live, ValuesOut)
<1>1. PICK line, table, columns, f :
         /\ line = [o \in OrderIds |-> [i \in Items |-> cache[o].out[i] * orders[o].deposit[i]]]
         /\ table = [i \in Items |-> [o \in OrderIds |-> cache[o].out[i] * orders[o].deposit[i]]]
         /\ columns = [i \in Items |->
                         SumOver(Live, [o \in OrderIds |-> cache[o].out[i] * orders[o].deposit[i]])]
         /\ f = [i \in held |-> Holdings[i].outValue]
  OBVIOUS
<1>2. held \in SUBSET Items /\ IsFiniteSet(held)
  BY HeldByItem, DataAssumption, FS_Subset
<1>3. ASSUME NEW o \in Live, NEW i \in Items
      PROVE  line[o][i] \in Nat /\ table[i][o] = line[o][i] /\ (cache[o].out[i] = 0 => line[o][i] = 0)
  <2>1. o \in OrderIds /\ cache[o].out[i] \in Nat
    BY LiveFigures
  <2>2. orders[o].deposit[i] \in Nat
    BY <2>1, ReadFacts, RowTypes
  <2>3. PICK x \in Nat, p \in Nat : x = cache[o].out[i] /\ p = orders[o].deposit[i]
    BY <2>1, <2>2
  <2>4. x * p \in Nat /\ (x = 0 => x * p = 0)
    BY ONLY x \in Nat, p \in Nat
  <2>5. line[o][i] = x * p /\ table[i][o] = x * p
    BY <1>1, <2>1, <2>3
  <2> QED BY <2>3, <2>4, <2>5
<1>4. Transposed(Live, Items, line, table)
  BY <1>3 DEF Transposed
<1>5. SumsOf(Live, Items, line, ValuesOut)
  BY <1>1, LiveFigures DEF SumsOf, ValuesOut
<1>6. SumsOf(Items, Live, table, columns)
  BY <1>1 DEF SumsOf
<1>7. SumOver(Live, ValuesOut) = SumOver(Items, columns)
  BY ONLY <1>4, <1>5, <1>6, StandingAreFinite, DataAssumption, SumExchanged
<1>8. \A i \in held : columns[i] \in Int /\ f[i] = columns[i]
  <2> SUFFICES ASSUME NEW i \in held PROVE columns[i] \in Int /\ f[i] = columns[i]
    OBVIOUS
  <2>1. i \in Items /\ columns[i] = SumOver(Live, table[i])
    BY <1>1, <1>2
  <2>2. \A o \in Live : table[i][o] \in Int
    BY <1>3, <2>1
  <2>3. SumOver(Live, table[i]) \in Int
    BY ONLY <2>2, StandingAreFinite, SumIsInt
  <2>4. f[i] = columns[i]
    BY <1>1, <2>1, HeldByItem
  <2> QED BY <2>1, <2>3, <2>4
<1>9. \A i \in Items \ held : columns[i] = 0
  <2> SUFFICES ASSUME NEW i \in Items \ held PROVE columns[i] = 0
    OBVIOUS
  <2>1. columns[i] = SumOver(Live, table[i])
    BY <1>1
  <2>2. \A o \in Live : table[i][o] = 0
    BY <1>3, HeldByItem
  <2>3. SumOver(Live, table[i]) = 0
    BY ONLY <2>2, StandingAreFinite, SumOfZeros
  <2> QED BY <2>1, <2>3
<1>10. SumOver(Items, columns) = SumOver(held, columns)
  BY ONLY <1>2, <1>8, <1>9, DataAssumption, SumOfPart
<1>11. SumOver(held, f) = SumOver(held, columns)
  BY ONLY <1>2, <1>8, SumAgrees
<1> QED BY <1>1, <1>7, <1>10, <1>11

LEMMA AssessedIsKept ==
  ASSUME ReadInv
  PROVE  CustomerTotals.compensation = SumOver(StandingReturns, KeptOf)
<1>1. PICK h, S : h = [o \in OrderIds |-> CompensationOf(o)] /\ S = Assessed
  OBVIOUS
<1>2. \A o \in Live : h[o] = SumOver(ReturnsOf(o), KeptOf)
  BY <1>1, StandingAreFinite DEF CompensationOf, KeptOf
<1>3. \A r \in StandingReturns : KeptOf[r] \in Nat
  BY ReturnWorth
<1>4. \A r \in StandingReturns : KeptOf[r] \in Int
  BY ONLY <1>3
<1>5. SumOver(Live, h) = SumOver(StandingReturns, KeptOf)
  BY ONLY ReadInv, <1>2, <1>4, ByOrder
<1>6. \A o \in Live : h[o] \in Nat
  <2> SUFFICES ASSUME NEW o \in Live PROVE h[o] \in Nat
    OBVIOUS
  <2>1. IsFiniteSet(ReturnsOf(o)) /\ \A r \in ReturnsOf(o) : KeptOf[r] \in Nat
    <3>1. ReturnsOf(o) \in SUBSET StandingReturns
      BY DEF ReturnsOf
    <3> QED BY <1>3, <3>1, StandingAreFinite, FS_Subset
  <2>2. SumOver(ReturnsOf(o), KeptOf) \in Nat
    BY ONLY <2>1, SumIsNat
  <2> QED BY <1>2, <2>2
<1>7. S \in SUBSET Live /\ \A o \in Live \ S : ~(h[o] > 0)
  <2>1. \A o \in Live : cache[o].status # "CANCELLED"
    BY LiveFigures
  <2> QED BY <1>1, <2>1, StandingAreFinite DEF Assessed
<1>8. (\A o \in S : h[o] \in Int) /\ \A o \in Live \ S : h[o] = 0
  BY ONLY <1>6, <1>7
<1>9. SumOver(Live, h) = SumOver(S, h)
  BY ONLY <1>7, <1>8, StandingAreFinite, SumOfPart
<1> QED BY <1>1, <1>5, <1>9 DEF CustomerTotals

LEMMA OfferedIsTaken ==
  ASSUME ReadInv, NEW o \in Made
  PROVE  Offered(o) <=> o \in Live /\ NoActivity(o)
<1>1. ActivityReturns(o) = {}
        <=> ~ \E r \in StandingReturns :
                 returns[r].order = o \/ (returns[r].withOrder = o /\ returns[r].order # o)
  BY DEF ActivityReturns
<1>2. ManualPayments(o) = {} <=> ~ \E p \in PaymentIds : payments[p].order = o /\ AnyManual(p)
  BY DEF ManualPayments, PaymentsOf, AnyManual
<1> QED BY <1>1, <1>2 DEF Offered, NoActivity

LEMMA CustomerHolds == ReadInv => CustomerAgrees
<1> SUFFICES ASSUME ReadInv PROVE CustomerAgrees
  OBVIOUS
<1>1. PICK held : held = DOMAIN Holdings
  OBVIOUS
<1>2. /\ CustomerTotals.palletsOut = SumOver(Live, PalletsOf)
      /\ CustomerTotals.outValue = SumOver(Live, ValuesOut)
      /\ CustomerTotals.owed = SumOver(OpenOrders, OwedOf)
  BY StandingIsAll, TotalsAreSums DEF CustomerTotals, StandingTotals
<1>3. SumOver(held, [i \in held |-> Holdings[i].quantityOut]) = CustomerTotals.palletsOut
  BY <1>1, <1>2, HeldQuantities
<1>4. SumOver(held, [i \in held |-> Holdings[i].outValue]) = CustomerTotals.outValue
  BY <1>1, <1>2, HeldValues
<1>5. CustomerTotals.compensation = ActivityTotals(AllTime).compensationAssessed
  BY AssessedIsKept, ActivityIs
<1>6. ASSUME ~HasOpenOrders PROVE held = {} /\ CustomerTotals.owed = 0
  <2>1. OpenOrders = {}
    BY <1>6 DEF HasOpenOrders
  <2>2. \A i \in Items, o \in Live : cache[o].out[i] = 0
    BY <2>1, ClosedFigures
  <2>3. held = {}
    BY <1>1, <2>2 DEF Holdings
  <2> QED BY <1>2, <2>1, <2>3, SumOfNone
<1> QED BY <1>1, <1>3, <1>4, <1>5, <1>6, OfferedIsTaken DEF CustomerAgrees
-----------------------------------------------------------------------------
(* The paper of an order's money.                                           *)
LEMMA PaperOfMoney ==
  ASSUME ReadInv, NEW o \in Made, NEW paper, paper = TransactionsPaper(o)
  PROVE  /\ paper.received = PaidOn(o) /\ paper.owed = cache[o].owed
         /\ paper.refunded = SumOver(ReturnsOf(o), CashOf)
<1>0. TypeOK /\ RefundStandsWithItsReturn /\ o \in OrderIds
  BY ReadFacts, MadeAreLiveOrCancelled
<1>1. Counted(PaymentsListed(o), payments) = PaymentsOf(o)
  BY DEF Counted, PaymentsListed, PaymentsOf
<1>2. Counted(RefundsListed(o), refunds) = {q \in ReturnsOf(o) : refunds[q].state = "standing"}
  <2>1. \A r \in ReturnIds : refunds[r].state = "standing" => returns[r].state = "standing"
    BY <1>0 DEF RefundStandsWithItsReturn
  <2> QED BY <2>1 DEF Counted, RefundsListed, ReturnsOf, StandingReturns
<1>3. ReturnsOf(o) \in SUBSET StandingReturns
  BY DEF ReturnsOf
<1>4. Amounts({q \in ReturnsOf(o) : refunds[q].state = "standing"}, refunds)
        = SumOver(ReturnsOf(o), CashOf)
  BY <1>3, CashOfParts DEF CashOf
<1> QED BY <1>1, <1>2, <1>4 DEF TransactionsPaper, Amounts, PaidOn

LEMMA PaperAddsUp ==
  ASSUME ReadInv, NEW o \in Made, NEW paper, paper = TransactionsPaper(o)
  PROVE  paper.received - paper.refunded + paper.owed
           + SumOver(ReturnsOf(o), [r \in ReturnIds |-> returns[r].refundDue])
         = IF o \in Live THEN DepositTotal(orders[o]) ELSE 0
<1>0. TypeOK /\ o \in OrderIds
  BY ReadFacts, MadeAreLiveOrCancelled
<1>1. PICK S, due, cash, paid, owed :
         /\ S = ReturnsOf(o) /\ due = SumOver(S, DueOf) /\ cash = SumOver(S, CashOf)
         /\ paid = PaidOn(o) /\ owed = cache[o].owed
  OBVIOUS
<1>2. /\ paper.received = paid /\ paper.refunded = cash /\ paper.owed = owed
      /\ SumOver(ReturnsOf(o), [r \in ReturnIds |-> returns[r].refundDue]) = due
  BY <1>1, PaperOfMoney DEF DueOf
<1>3. CASE o \in Live
  <2>1. PICK f, d : f = [r \in S |-> CreditOf(r)] /\ d = DepositTotal(orders[o])
    OBVIOUS
  <2>2. IsFiniteSet(S) /\ S \in SUBSET StandingReturns /\ S \ {} = S
    <3>1. S \in SUBSET StandingReturns
      BY <1>1 DEF ReturnsOf
    <3> QED BY <3>1, StandingAreFinite, FS_Subset
  <2>3. ASSUME NEW r \in S PROVE f[r] \in Int /\ CashOf[r] \in Int /\ DueOf[r] = f[r] + CashOf[r]
    <3>1. PICK x, y : x = DueOf[r] /\ y = CashOf[r]
      OBVIOUS
    <3>2. x \in Nat /\ y \in Nat /\ r \in ReturnIds
      BY <2>2, <3>1, ReturnWorth
    <3>3. f[r] = x - y
      BY <2>1, <3>1, <3>2 DEF CreditOf, DueOf, CashOf
    <3> QED BY ONLY <3>1, <3>2, <3>3
  <2>4. due = SumOver(S, f) + cash
    <3>1. SumOver(S, DueOf) = SumOver(S, f) + SumOver(S, CashOf)
      BY ONLY <2>2, <2>3, SumOfSums
    <3> QED BY <1>1, <3>1
  <2>5. SumOver(S, f) \in Int /\ cash \in Int
    <3>1. SumOver(S, f) \in Int /\ SumOver(S, CashOf) \in Int
      BY ONLY <2>2, <2>3, SumIsInt
    <3> QED BY <1>1, <3>1
  <2>6. SumOver(S, f) = CreditsLeft(o, {})
    BY <1>1, <2>1, <2>2 DEF CreditsLeft
  <2>7. owed \in Nat /\ owed = d - paid - SumOver(S, f)
    BY <1>1, <1>3, <2>1, <2>6, LiveFigures
  <2>8. d \in Nat /\ paid \in Nat
    BY <1>0, <1>1, <2>1, AmountTypes
  <2>9. paid - cash + owed + due = d
    BY ONLY <2>4, <2>5, <2>7, <2>8
  <2> QED BY <1>2, <1>3, <2>1, <2>9
<1>4. CASE o \notin Live
  <2>1. ReturnsOf(o) = {} /\ PaymentsOf(o) = {} /\ owed = 0
    BY <1>1, <1>4, CancelledFigures
  <2>2. due = 0 /\ cash = 0 /\ paid = 0
    BY <1>1, <2>1, SumOfNone DEF PaidOn
  <2> QED BY <1>2, <1>4, <2>1, <2>2
<1> QED BY <1>3, <1>4
-----------------------------------------------------------------------------
(* The paper of returns: its rows, one per item and deposit, share out what *)
(* every line of them is worth, or counts.                                  *)
Sharing(S, figure, shares) ==
    /\ \A r \in S, i \in Items : /\ figure[r][i] \in Int
                                 /\ i \notin BodyItems(returns[r].body) => figure[r][i] = 0
    /\ \A row \in ReturnPaperRows(S) :
          shares[row] = SumOver({r \in S : DepositOf(r, row[1]) = row[2]},
                                [r \in ReturnIds |-> figure[r][row[1]]])
LEMMA RowsShare ==
  ASSUME ReadInv, NEW S \in SUBSET StandingReturns, NEW figure, NEW shares, Sharing(S, figure, shares),
         NEW lines, SumsOf(S, Items, figure, lines)
  PROVE  SumOver(ReturnPaperRows(S), shares) = SumOver(S, lines)
<1>0. /\ \A r \in S, i \in Items : figure[r][i] \in Int
      /\ \A r \in S, i \in Items : i \notin BodyItems(returns[r].body) => figure[r][i] = 0
      /\ \A row \in ReturnPaperRows(S) :
            shares[row] = SumOver({r \in S : DepositOf(r, row[1]) = row[2]},
                                  [r \in ReturnIds |-> figure[r][row[1]]])
  BY DEF Sharing
<1>1. PICK pairs, key, f, K, rows, h :
         /\ pairs = S \X Items
         /\ key = [x \in pairs |-> <<x[2], DepositOf(x[1], x[2])>>]
         /\ f = [x \in pairs |-> figure[x[1]][x[2]]]
         /\ K = {key[x] : x \in pairs} /\ rows = ReturnPaperRows(S)
         /\ h = [k \in K |-> SumOver({x \in pairs : key[x] = k}, f)]
  OBVIOUS
<1>2. IsFiniteSet(S) /\ IsFiniteSet(pairs) /\ IsFiniteSet(K)
  <2>1. IsFiniteSet(S) /\ IsFiniteSet(pairs)
    BY <1>1, StandingAreFinite, DataAssumption, FS_Subset, FS_Product
  <2>2. IsFiniteSet({key[x] : x \in pairs})
    BY ONLY <2>1, ImageIsFinite
  <2> QED BY <1>1, <2>1, <2>2
<1>3. \A r \in S, i \in Items : f[<<r, i>>] = figure[r][i] /\ key[<<r, i>>] = <<i, DepositOf(r, i)>>
  BY <1>1
<1>4. \A x \in pairs : f[x] \in Int
  BY <1>0, <1>1
<1>5. SumOver(pairs, f) = SumOver(S, lines)
  <2>1. ASSUME NEW r \in S PROVE lines[r] = SumOver(Items, [i \in Items |-> f[<<r, i>>]])
    <3>1. PICK g, k : g = [i \in Items |-> f[<<r, i>>]] /\ k = figure[r]
      OBVIOUS
    <3>2. \A i \in Items : k[i] = g[i]
      BY <1>3, <3>1
    <3>3. SumOver(Items, k) = SumOver(Items, g)
      BY ONLY <3>2, DataAssumption, SumAgrees
    <3> QED BY <3>1, <3>3 DEF SumsOf
  <2>2. OfPairs(S, Items, f, lines)
    <3>1. \A r \in S, i \in Items : f[<<r, i>>] \in Int
      BY <1>0, <1>3
    <3> QED BY <2>1, <3>1 DEF OfPairs
  <2>3. SumOver(S \X Items, f) = SumOver(S, lines)
    BY ONLY <1>2, <2>2, DataAssumption, SumOverPairs
  <2> QED BY <1>1, <2>3
<1>6. SumOver(K, h) = SumOver(pairs, f)
  <2>1. /\ \A x \in pairs : key[x] \in K
        /\ \A k \in K : h[k] = SumOver(PartAt(pairs, key, k), f)
    BY <1>1 DEF PartAt
  <2> QED BY ONLY <1>2, <1>4, <2>1, SumByParts
<1>7. rows \in SUBSET K
  BY <1>1 DEF ReturnPaperRows
<1>8. ASSUME NEW k \in K \ rows PROVE h[k] = 0
  <2>1. PICK P : P = {x \in pairs : key[x] = k}
    OBVIOUS
  <2>2. \A x \in P : f[x] = 0
    <3> SUFFICES ASSUME NEW x \in P PROVE f[x] = 0
      OBVIOUS
    <3>1. PICK r \in S, i \in Items : x = <<r, i>>
      BY <1>1, <2>1
    <3>2. k = <<i, DepositOf(r, i)>>
      BY <1>3, <2>1, <3>1
    <3>3. i \notin BodyItems(returns[r].body)
      <4> SUFFICES ASSUME i \in BodyItems(returns[r].body) PROVE k \in rows
        OBVIOUS
      <4>1. x \in {y \in S \X Items : y[2] \in BodyItems(returns[y[1]].body)}
        BY <3>1
      <4>2. k = <<x[2], DepositOf(x[1], x[2])>>
        BY <3>1, <3>2
      <4> QED BY <1>1, <4>1, <4>2 DEF ReturnPaperRows
    <3> QED BY <1>0, <1>3, <3>1, <3>3
  <2>3. IsFiniteSet(P)
    <3>1. P \in SUBSET pairs
      BY <2>1
    <3> QED BY <1>2, <3>1, FS_Subset
  <2>4. SumOver(P, f) = 0
    BY ONLY <2>2, <2>3, SumOfZeros
  <2> QED BY <1>1, <2>1, <2>4
<1>9. ASSUME NEW k \in rows PROVE h[k] = shares[k]
  <2>1. PICK i, d : i \in Items /\ k = <<i, d>>
    BY <1>1 DEF ReturnPaperRows
  <2>2. PICK T, P, b, g : /\ T = {r \in S : DepositOf(r, i) = d} /\ P = {x \in pairs : key[x] = k}
                          /\ b = [r \in T |-> <<r, i>>] /\ g = [r \in ReturnIds |-> figure[r][i]]
    OBVIOUS
  <2>3. P = {b[r] : r \in T}
    <3>1. ASSUME NEW x \in P PROVE \E r \in T : x = b[r]
      <4>1. PICK r \in S, j \in Items : x = <<r, j>>
        BY <1>1, <2>2, <3>1
      <4>2. <<j, DepositOf(r, j)>> = <<i, d>>
        BY <1>3, <2>1, <2>2, <3>1, <4>1
      <4>3. j = i /\ DepositOf(r, i) = d
        BY <4>2
      <4> QED BY <2>2, <4>1, <4>3
    <3>2. ASSUME NEW r \in T PROVE b[r] \in P
      <4>1. r \in S /\ DepositOf(r, i) = d /\ b[r] = <<r, i>>
        BY <2>2
      <4>2. key[<<r, i>>] = <<i, d>>
        BY <1>3, <2>1, <4>1
      <4> QED BY <1>1, <2>1, <2>2, <4>1, <4>2
    <3> QED BY <3>1, <3>2
  <2>4. T \subseteq S /\ IsFiniteSet(T) /\ S \subseteq ReturnIds
    <3>1. T \in SUBSET S
      BY <2>2
    <3> QED BY <1>2, <3>1, FS_Subset, StandingAreFinite
  <2>5. \A r \in T : g[r] \in Int /\ f[b[r]] = g[r]
    BY <1>0, <1>3, <2>1, <2>2, <2>4
  <2>6. \A r, q \in T : b[r] = b[q] => r = q
    BY <2>2
  <2>7. SumOver({b[r] : r \in T}, f) = SumOver(T, g)
    BY ONLY <2>4, <2>5, <2>6, SumRenamed
  <2>8. h[k] = SumOver(P, f)
    BY <1>1, <1>7, <2>2
  <2>9. shares[k] = SumOver(T, g)
    <3>1. k[1] = i /\ k[2] = d
      BY <2>1
    <3> QED BY <1>0, <1>1, <2>2, <3>1
  <2> QED BY <2>3, <2>7, <2>8, <2>9
<1>10. \A k \in rows : h[k] \in Int
  <2> SUFFICES ASSUME NEW k \in rows PROVE h[k] \in Int
    OBVIOUS
  <2>1. PICK P : P = {x \in pairs : key[x] = k}
    OBVIOUS
  <2>2. IsFiniteSet(P) /\ \A x \in P : f[x] \in Int
    <3>1. P \in SUBSET pairs
      BY <2>1
    <3> QED BY <1>2, <1>4, <3>1, FS_Subset
  <2>3. SumOver(P, f) \in Int
    BY ONLY <2>2, SumIsInt
  <2> QED BY <1>1, <1>7, <2>1, <2>3
<1>11. SumOver(K, h) = SumOver(rows, h)
  BY ONLY <1>2, <1>7, <1>8, <1>10, SumOfPart
<1>12. SumOver(rows, h) = SumOver(rows, shares)
  <2>1. IsFiniteSet(rows)
    BY <1>2, <1>7, FS_Subset
  <2> QED BY ONLY <1>9, <2>1, SumAgrees
<1> QED BY <1>1, <1>5, <1>6, <1>11, <1>12

LEMMA PaperIsWorth ==
  ASSUME ReadInv, NEW S \in SUBSET StandingReturns
  PROVE  PaperWorth(S) = ReturnPaper(S).credit
<1>1. PICK figure, shares : /\ figure = [r \in ReturnIds |-> [i \in Items |-> Credited(r, i)]]
                            /\ shares = [row \in ReturnPaperRows(S) |-> RowWorth(S, row)]
  OBVIOUS
<1>2. S \subseteq ReturnIds
  BY StandingAreFinite
<1>3. Sharing(S, figure, shares)
  <2>1. ASSUME NEW r \in S, NEW i \in Items
        PROVE  /\ figure[r][i] \in Int
               /\ i \notin BodyItems(returns[r].body) => figure[r][i] = 0
    <3>1. figure[r][i] = Credited(r, i) /\ Credited(r, i) \in Nat
      BY <1>1, <1>2, LineWorth
    <3> QED BY <3>1, LineWorth
  <2>2. ASSUME NEW row \in ReturnPaperRows(S)
        PROVE  shares[row] = SumOver({r \in S : DepositOf(r, row[1]) = row[2]},
                                     [r \in ReturnIds |-> figure[r][row[1]]])
    <3>1. row[1] \in Items
      BY DEF ReturnPaperRows
    <3>2. [r \in ReturnIds |-> figure[r][row[1]]] = [r \in ReturnIds |-> Credited(r, row[1])]
      BY <1>1, <3>1
    <3> QED BY <1>1, <3>2 DEF RowWorth
  <2> QED BY <2>1, <2>2 DEF Sharing
<1>4. SumsOf(S, Items, figure, DueOf)
  BY <1>1, <1>2, ReturnWorth DEF SumsOf
<1>5. SumOver(ReturnPaperRows(S), shares) = SumOver(S, DueOf)
  BY ONLY ReadInv, S \in SUBSET StandingReturns, <1>3, <1>4, RowsShare
<1> QED BY <1>1, <1>5 DEF PaperWorth, ReturnPaper, DueOf

(* What a row counts, and all rows together.                                *)
LEMMA RowCounts ==
  ASSUME ReadInv, NEW S \in SUBSET StandingReturns, NEW row \in ReturnPaperRows(S),
         NEW column, column = ReturnColumns(S, row)
  PROVE  /\ column.accepted \in Nat /\ column.damaged \in Nat
         /\ SumOver({r \in S : DepositOf(r, row[1]) = row[2]}, [r \in ReturnIds |-> CameBack(r, row[1])])
              = column.accepted + column.damaged
<1>1. PICK i, T, back, accepted, damaged :
         /\ i \in Items /\ i = row[1] /\ T = {r \in S : DepositOf(r, i) = row[2]}
         /\ back = [r \in ReturnIds |-> CameBack(r, i)]
         /\ accepted = [r \in ReturnIds |-> returns[r].body.accepted[i]]
         /\ damaged = [r \in ReturnIds |-> returns[r].body.damaged[i]]
  <2>1. row[1] \in Items
    BY DEF ReturnPaperRows
  <2> QED BY <2>1
<1>2. IsFiniteSet(T) /\ T \subseteq ReturnIds
  <2>1. T \in SUBSET StandingReturns
    BY <1>1
  <2> QED BY <2>1, StandingAreFinite, FS_Subset
<1>3. \A r \in T : accepted[r] \in Nat /\ damaged[r] \in Nat /\ back[r] = accepted[r] + damaged[r]
  BY <1>1, <1>2, ReadFacts, CameBackTypes DEF CameBack
<1>4. SumOver(T, accepted) \in Nat /\ SumOver(T, damaged) \in Nat
  BY ONLY <1>2, <1>3, SumIsNat
<1>5. \A r \in T : accepted[r] \in Int /\ damaged[r] \in Int /\ back[r] = accepted[r] + damaged[r]
  BY ONLY <1>3
<1>6. SumOver(T, back) = SumOver(T, accepted) + SumOver(T, damaged)
  BY ONLY <1>2, <1>5, SumOfSums
<1>7. column.accepted = SumOver(T, accepted) /\ column.damaged = SumOver(T, damaged)
  BY <1>1 DEF ReturnColumns
<1>8. SumOver({r \in S : DepositOf(r, row[1]) = row[2]}, [r \in ReturnIds |-> CameBack(r, row[1])])
        = SumOver(T, back)
  BY <1>1
<1> QED BY <1>4, <1>6, <1>7, <1>8

LEMMA PaperCounts ==
  ASSUME ReadInv, NEW S \in SUBSET StandingReturns, NEW rows, rows = ReturnPaper(S).rows
  PROVE  SumOver(rows, [x \in rows |-> x[2].accepted + IF ShowsDamaged(S) THEN x[2].damaged ELSE 0])
           = SumOver(S, [r \in ReturnIds |-> SumOver(Items, [i \in Items |-> CameBack(r, i)])])
<1>1. PICK R, b, column, figure, shares, lines, f :
         /\ R = ReturnPaperRows(S)
         /\ column = [row \in R |-> ReturnColumns(S, row)]
         /\ b = [row \in R |-> <<row, ReturnColumns(S, row)>>]
         /\ figure = [r \in ReturnIds |-> [i \in Items |-> CameBack(r, i)]]
         /\ shares = [row \in R |-> column[row].accepted + column[row].damaged]
         /\ lines = [r \in ReturnIds |-> SumOver(Items, [i \in Items |-> CameBack(r, i)])]
         /\ f = [x \in rows |-> x[2].accepted + IF ShowsDamaged(S) THEN x[2].damaged ELSE 0]
  OBVIOUS
<1>2. S \subseteq ReturnIds
  BY StandingAreFinite
<1>3. rows = {b[row] : row \in R}
  BY <1>1 DEF ReturnPaper
<1>4. Sharing(S, figure, shares)
  <2>1. ASSUME NEW r \in S, NEW i \in Items
        PROVE  /\ figure[r][i] \in Int
               /\ i \notin BodyItems(returns[r].body) => figure[r][i] = 0
    <3>1. figure[r][i] = CameBack(r, i) /\ CameBack(r, i) \in Nat
      BY <1>1, <1>2, ReadFacts, CameBackTypes
    <3> QED BY <3>1, LineWorth
  <2>2. ASSUME NEW row \in ReturnPaperRows(S)
        PROVE  shares[row] = SumOver({r \in S : DepositOf(r, row[1]) = row[2]},
                                     [r \in ReturnIds |-> figure[r][row[1]]])
    <3>1. row[1] \in Items
      BY DEF ReturnPaperRows
    <3>2. [r \in ReturnIds |-> figure[r][row[1]]] = [r \in ReturnIds |-> CameBack(r, row[1])]
      BY <1>1, <3>1
    <3> QED BY <1>1, <3>2, RowCounts
  <2> QED BY <2>1, <2>2 DEF Sharing
<1>5. SumsOf(S, Items, figure, lines)
  BY <1>1, <1>2 DEF SumsOf
<1>6. SumOver(R, shares) = SumOver(S, lines)
  <2>1. SumOver(ReturnPaperRows(S), shares) = SumOver(S, lines)
    BY ONLY ReadInv, S \in SUBSET StandingReturns, <1>4, <1>5, RowsShare
  <2> QED BY <1>1, <2>1
<1>7. \A row \in R : column[row].accepted \in Nat /\ column[row].damaged \in Nat
  BY <1>1, RowCounts
<1>8. ASSUME NEW row \in R PROVE shares[row] \in Int /\ f[b[row]] = shares[row]
  <2>1. PICK a \in Nat, d \in Nat : a = column[row].accepted /\ d = column[row].damaged
    BY <1>7
  <2>2. b[row] \in rows /\ b[row][2] = column[row]
    BY <1>1, <1>3
  <2>3. f[b[row]] = a + IF ShowsDamaged(S) THEN d ELSE 0
    BY <1>1, <2>1, <2>2
  <2>4. ~ShowsDamaged(S) => d = 0
    <3>1. ~ShowsDamaged(S) => ~(d > 0)
      BY <1>1, <2>1 DEF ShowsDamaged
    <3> QED BY <3>1, d \in Nat
  <2>5. shares[row] = a + d
    BY <1>1, <2>1
  <2> QED BY <2>1, <2>3, <2>4, <2>5
<1>9. \A row, other \in R : b[row] = b[other] => row = other
  BY <1>1
<1>10. IsFiniteSet(R)
  <2>1. PICK X, g : /\ X = {y \in S \X Items : y[2] \in BodyItems(returns[y[1]].body)}
                    /\ g = [x \in X |-> <<x[2], DepositOf(x[1], x[2])>>]
    OBVIOUS
  <2>2. IsFiniteSet(S \X Items) /\ X \in SUBSET (S \X Items)
    BY <2>1, StandingAreFinite, DataAssumption, FS_Subset, FS_Product
  <2>3. IsFiniteSet(X)
    BY ONLY <2>2, FS_Subset
  <2>4. IsFiniteSet({g[x] : x \in X})
    BY ONLY <2>3, ImageIsFinite
  <2>5. R = {g[x] : x \in X}
    BY <1>1, <2>1 DEF ReturnPaperRows
  <2> QED BY <2>4, <2>5
<1>11. SumOver({b[row] : row \in R}, f) = SumOver(R, shares)
  BY ONLY <1>8, <1>9, <1>10, SumRenamed
<1> QED BY <1>1, <1>3, <1>6, <1>11
-----------------------------------------------------------------------------
(* The timeline, by kind of entry: a kind's entries come to what its rows   *)
(* do, those that stand alone counting.                                     *)
Entries(kind, S)      == {<<kind, x>> : x \in S}
ComeTo(F, kind, S, f) == \A x \in S : f[x] \in Int /\ F[<<kind, x>>] = f[x]
LEMMA EntriesAre ==
  ASSUME NEW S, IsFiniteSet(S), NEW kind, NEW F, NEW f, ComeTo(F, kind, S, f)
  PROVE  /\ IsFiniteSet(Entries(kind, S)) /\ SumOver(Entries(kind, S), F) = SumOver(S, f)
         /\ \A e \in Entries(kind, S) : F[e] \in Int
<1>1. PICK b, E : b = [x \in S |-> <<kind, x>>] /\ E = Entries(kind, S)
  OBVIOUS
<1>2. E = {b[x] : x \in S}
  BY <1>1 DEF Entries
<1>3. \A x \in S : f[x] \in Int /\ F[b[x]] = f[x]
  BY <1>1 DEF ComeTo
<1>4. \A x, y \in S : b[x] = b[y] => x = y
  BY <1>1
<1>5. SumOver({b[x] : x \in S}, F) = SumOver(S, f)
  BY ONLY <1>3, <1>4, IsFiniteSet(S), SumRenamed
<1>6. IsFiniteSet({b[x] : x \in S})
  BY ONLY IsFiniteSet(S), ImageIsFinite
<1>7. \A e \in E : F[e] \in Int
  BY <1>2, <1>3
<1> QED BY <1>1, <1>2, <1>5, <1>6, <1>7

ListedReturns  == {k \in ReturnIds : returns[k].state # "none" /\ returns[k].order \in Live}
ListedPayments == {p \in PaymentIds : payments[p].state # "none" /\ payments[p].order \in Live}
ListedRefunds  == {r \in ReturnIds : refunds[r].state # "none" /\ returns[r].order \in Live}
CreditedThen == [r \in ReturnIds |-> IF returns[r].state = "standing" THEN -returns[r].refundDue ELSE 0]
PaidThen     == [p \in PaymentIds |-> -LedgerAmount(payments[p])]
CashThen     == [r \in ReturnIds |-> LedgerAmount(refunds[r])]

LEMMA CreditsListed ==
  ASSUME ReadInv
  PROVE  /\ IsFiniteSet(ListedReturns) /\ \A r \in ListedReturns : CreditedThen[r] \in Int
         /\ SumOver(ListedReturns, CreditedThen) = -SumOver(StandingReturns, DueOf)
<1>1. PICK S, f : S = ListedReturns /\ f = CreditedThen
  OBVIOUS
<1>2. IsFiniteSet(S) /\ StandingReturns \in SUBSET S
  <2>1. S \in SUBSET ReturnIds
    BY <1>1 DEF ListedReturns
  <2>2. \A r \in StandingReturns : returns[r].order \in Live
    BY ReadFacts DEF LedgerInv, StandingOnLive
  <2> QED BY <1>1, <2>1, <2>2, RowsAreFinite, FS_Subset DEF ListedReturns, StandingReturns
<1>3. \A r \in S \ StandingReturns : f[r] = 0
  BY <1>1 DEF ListedReturns, CreditedThen, StandingReturns
<1>4. ASSUME NEW r \in StandingReturns
      PROVE  DueOf[r] \in Int /\ f[r] \in Int /\ f[r] = DueOf[r] * (-1)
  <2>1. PICK n \in Nat : n = DueOf[r]
    BY ReturnWorth
  <2>2. f[r] = -n
    BY <1>1, <2>1 DEF CreditedThen, DueOf, StandingReturns
  <2> QED BY ONLY <2>1, <2>2, n \in Nat
<1>5. \A r \in StandingReturns : f[r] \in Int
  BY ONLY <1>4
<1>6. SumOver(S, f) = SumOver(StandingReturns, f)
  BY ONLY <1>2, <1>3, <1>5, SumOfPart
<1>7. SumOver(StandingReturns, f) = SumOver(StandingReturns, DueOf) * (-1)
  <2>1. -1 \in Int /\ \A r \in StandingReturns : DueOf[r] \in Int /\ f[r] = DueOf[r] * (-1)
    BY <1>4
  <2> QED BY ONLY <2>1, StandingAreFinite, SumTimes
<1>8. SumOver(StandingReturns, DueOf) \in Nat
  BY BooksSum
<1>9. SumOver(S, f) = -SumOver(StandingReturns, DueOf)
  BY ONLY <1>6, <1>7, <1>8
<1>10. \A r \in S : f[r] \in Int
  BY <1>3, <1>5
<1> QED BY <1>1, <1>2, <1>9, <1>10

LEMMA PaymentsAreListed ==
  ASSUME ReadInv
  PROVE  /\ IsFiniteSet(ListedPayments) /\ \A p \in ListedPayments : PaidThen[p] \in Int
         /\ SumOver(ListedPayments, PaidThen) = -SumOver(Live, PaidOf)
<1>0. TypeOK /\ LedgerInv
  BY ReadFacts
<1>1. PICK S, f, T, g : /\ S = ListedPayments /\ f = PaidThen
                        /\ T = StandingPayments /\ g = [p \in T |-> payments[p].amount]
  OBVIOUS
<1>2. IsFiniteSet(S) /\ T \in SUBSET S /\ IsFiniteSet(T)
  <2>1. S \in SUBSET PaymentIds
    BY <1>1 DEF ListedPayments
  <2>2. \A p \in T : p \in PaymentIds /\ payments[p].state = "standing" /\ payments[p].order \in Live
    BY <1>0, <1>1 DEF StandingPayments, LedgerInv, StandingOnLive
  <2>3. T \in SUBSET S
    BY <1>1, <2>2 DEF ListedPayments
  <2> QED BY <2>1, <2>3, RowsAreFinite, FS_Subset
<1>3. \A p \in S : /\ p \in PaymentIds /\ payments[p].state \in {"standing", "reversed"}
                   /\ payments[p].amount \in Nat
  BY <1>0, <1>1, RowTypes DEF ListedPayments, TypeOK, PaymentRows
<1>4. \A p \in S \ T : f[p] = 0
  <2> SUFFICES ASSUME NEW p \in S \ T PROVE f[p] = 0
    OBVIOUS
  <2>1. p \in PaymentIds /\ payments[p].state = "reversed"
    BY <1>1, <1>3 DEF StandingPayments
  <2>2. LedgerAmount(payments[p]) = 0
    BY <2>1 DEF LedgerAmount
  <2> QED BY <1>1, <2>1, <2>2 DEF PaidThen
<1>5. ASSUME NEW p \in T PROVE g[p] \in Int /\ f[p] \in Int /\ f[p] = g[p] * (-1)
  <2>1. PICK n \in Nat : n = payments[p].amount
    BY <1>2, <1>3
  <2>2. p \in PaymentIds /\ payments[p].state = "standing"
    BY <1>1 DEF StandingPayments
  <2>3. LedgerAmount(payments[p]) = n
    BY <2>1, <2>2 DEF LedgerAmount
  <2>4. f[p] = -n /\ g[p] = n
    BY <1>1, <2>1, <2>2, <2>3 DEF PaidThen
  <2> QED BY ONLY <2>4, n \in Nat
<1>6. \A p \in T : f[p] \in Int
  BY ONLY <1>5
<1>7. SumOver(S, f) = SumOver(T, f)
  BY ONLY <1>2, <1>4, <1>6, SumOfPart
<1>8. SumOver(T, f) = SumOver(T, g) * (-1)
  <2>1. -1 \in Int /\ \A p \in T : g[p] \in Int /\ f[p] = g[p] * (-1)
    BY <1>5
  <2> QED BY ONLY <1>2, <2>1, SumTimes
<1>9. SumOver(T, g) = SumOver(Live, PaidOf) /\ SumOver(Live, PaidOf) \in Nat
  BY <1>1, ByOrderPaid, BooksSum DEF Amounts
<1>10. SumOver(S, f) = -SumOver(Live, PaidOf)
  BY ONLY <1>7, <1>8, <1>9
<1>11. \A p \in S : f[p] \in Int
  BY <1>4, <1>6
<1> QED BY <1>1, <1>2, <1>10, <1>11

LEMMA RefundsAreListed ==
  ASSUME ReadInv
  PROVE  /\ IsFiniteSet(ListedRefunds) /\ \A r \in ListedRefunds : CashThen[r] \in Int
         /\ SumOver(ListedRefunds, CashThen) = SumOver(StandingReturns, CashOf)
<1>0. TypeOK /\ LedgerInv /\ RefundStandsWithItsReturn
  BY ReadFacts
<1>1. PICK S, f, T, g : /\ S = ListedRefunds /\ f = CashThen
                        /\ T = {q \in StandingReturns : refunds[q].state = "standing"}
                        /\ g = [q \in T |-> refunds[q].amount]
  OBVIOUS
<1>2. IsFiniteSet(S) /\ T \in SUBSET S /\ IsFiniteSet(T)
  <2>1. S \in SUBSET ReturnIds
    BY <1>1 DEF ListedRefunds
  <2>2. \A q \in T : q \in ReturnIds /\ refunds[q].state = "standing" /\ returns[q].order \in Live
    BY <1>0, <1>1, StandingAreFinite DEF LedgerInv, StandingOnLive
  <2>3. T \in SUBSET S
    BY <1>1, <2>2 DEF ListedRefunds
  <2> QED BY <2>1, <2>3, RowsAreFinite, FS_Subset
<1>3. \A r \in S : /\ r \in ReturnIds /\ refunds[r].state \in {"standing", "reversed"}
                   /\ refunds[r].amount \in Nat
  BY <1>0, <1>1, BoundsAssumption DEF ListedRefunds, TypeOK, RefundRows, Counts
<1>4. \A r \in S \ T : f[r] = 0
  <2> SUFFICES ASSUME NEW r \in S \ T PROVE f[r] = 0
    OBVIOUS
  <2>1. r \in ReturnIds /\ refunds[r].state = "reversed"
    BY <1>0, <1>1, <1>3 DEF RefundStandsWithItsReturn, StandingReturns
  <2>2. LedgerAmount(refunds[r]) = 0
    BY <2>1 DEF LedgerAmount
  <2> QED BY <1>1, <2>1, <2>2 DEF CashThen
<1>5. ASSUME NEW q \in T PROVE f[q] \in Int /\ f[q] = g[q]
  <2>1. PICK n \in Nat : n = refunds[q].amount
    BY <1>2, <1>3
  <2>2. q \in ReturnIds /\ refunds[q].state = "standing"
    BY <1>1, StandingAreFinite
  <2>3. LedgerAmount(refunds[q]) = n
    BY <2>1, <2>2 DEF LedgerAmount
  <2> QED BY <1>1, <2>1, <2>2, <2>3 DEF CashThen
<1>6. SumOver(S, f) = SumOver(T, f)
  BY ONLY <1>2, <1>4, <1>5, SumOfPart
<1>7. SumOver(T, f) = SumOver(T, g)
  BY ONLY <1>2, <1>5, SumAgrees
<1>8. SumOver(T, g) = SumOver(StandingReturns, CashOf)
  <2>1. StandingReturns \in SUBSET StandingReturns
    OBVIOUS
  <2> QED BY <1>1, <2>1, CashOfParts DEF Amounts, CashOf
<1>9. \A r \in S : f[r] \in Int
  BY <1>4, <1>5
<1> QED BY <1>1, <1>2, <1>6, <1>7, <1>8, <1>9

LEMMA TimelineParts ==
  Timeline = ((Entries("HANDOVER", Live) \cup Entries("RETURN", ListedReturns))
                \cup Entries("PAYMENT", ListedPayments)) \cup Entries("REFUND", ListedRefunds)
<1>1. PICK B, C, D :
         /\ B = {<<"RETURN", r>> : r \in {k \in ReturnIds : returns[k].state # "none" /\ returns[k].order \in Live}}
         /\ C = UNION {{<<"PAYMENT", p>> : p \in PaymentsListed(o)} : o \in Live}
         /\ D = UNION {{<<"REFUND", r>> : r \in RefundsListed(o)} : o \in Live}
  OBVIOUS
<1>2. C = Entries("PAYMENT", ListedPayments)
  BY <1>1 DEF PaymentsListed, ListedPayments, Entries
<1>3. D = Entries("REFUND", ListedRefunds)
  BY <1>1 DEF RefundsListed, ListedRefunds, Entries
<1>4. B = Entries("RETURN", ListedReturns)
  BY <1>1 DEF ListedReturns, Entries
<1>5. Timeline = Entries("HANDOVER", Live) \cup B \cup C \cup D
  BY <1>1 DEF Timeline, Entries
<1>6. Timeline = ((Entries("HANDOVER", Live) \cup B) \cup C) \cup D
  BY ONLY <1>5
<1> QED BY <1>2, <1>3, <1>4, <1>6

LEMMA TimelineOwes ==
  ASSUME ReadInv
  PROVE  SumOver(Timeline, [entry \in Timeline |-> OwedBy(entry)]) = StandingTotals.owed
<1>1. PICK F, A, B, C, D :
         /\ F = [entry \in Timeline |-> OwedBy(entry)]
         /\ A = Entries("HANDOVER", Live) /\ B = Entries("RETURN", ListedReturns)
         /\ C = Entries("PAYMENT", ListedPayments) /\ D = Entries("REFUND", ListedRefunds)
  OBVIOUS
<1>2. Timeline = ((A \cup B) \cup C) \cup D
  BY <1>1, TimelineParts
<1>3. IsFiniteSet(A) /\ SumOver(A, F) = SumOver(Live, DepositsOf) /\ \A e \in A : F[e] \in Int
  <2>1. ASSUME NEW o \in Live PROVE DepositsOf[o] \in Int /\ F[<<"HANDOVER", o>>] = DepositsOf[o]
    <3>1. <<"HANDOVER", o>> \in Timeline /\ o \in OrderIds /\ DepositsOf[o] \in Nat
      BY <1>1, <1>2, StandingAreFinite, ValueOfOrder DEF Entries
    <3>2. OwedBy(<<"HANDOVER", o>>) = DepositTotal(orders[o])
      BY DEF OwedBy
    <3> QED BY <1>1, <3>1, <3>2 DEF DepositsOf
  <2>3. ComeTo(F, "HANDOVER", Live, DepositsOf)
    BY <2>1 DEF ComeTo
  <2> QED BY ONLY <1>1, <2>3, StandingAreFinite, EntriesAre
<1>4. IsFiniteSet(B) /\ SumOver(B, F) = SumOver(ListedReturns, CreditedThen) /\ \A e \in B : F[e] \in Int
  <2>1. ASSUME NEW r \in ListedReturns
        PROVE  CreditedThen[r] \in Int /\ F[<<"RETURN", r>>] = CreditedThen[r]
    <3>1. <<"RETURN", r>> \in Timeline /\ r \in ReturnIds
      BY <1>1, <1>2 DEF ListedReturns, Entries
    <3>2. OwedBy(<<"RETURN", r>>) = IF returns[r].state = "standing" THEN -returns[r].refundDue ELSE 0
      BY DEF OwedBy
    <3> QED BY <1>1, <3>1, <3>2, CreditsListed DEF CreditedThen
  <2>2. IsFiniteSet(ListedReturns)
    BY CreditsListed
  <2>3. ComeTo(F, "RETURN", ListedReturns, CreditedThen)
    BY <2>1 DEF ComeTo
  <2> QED BY ONLY <1>1, <2>2, <2>3, EntriesAre
<1>5. IsFiniteSet(C) /\ SumOver(C, F) = SumOver(ListedPayments, PaidThen) /\ \A e \in C : F[e] \in Int
  <2>1. ASSUME NEW p \in ListedPayments
        PROVE  PaidThen[p] \in Int /\ F[<<"PAYMENT", p>>] = PaidThen[p]
    <3>1. <<"PAYMENT", p>> \in Timeline /\ p \in PaymentIds
      BY <1>1, <1>2 DEF ListedPayments, Entries
    <3>2. OwedBy(<<"PAYMENT", p>>) = -LedgerAmount(payments[p])
      BY DEF OwedBy
    <3> QED BY <1>1, <3>1, <3>2, PaymentsAreListed DEF PaidThen
  <2>2. IsFiniteSet(ListedPayments)
    BY PaymentsAreListed
  <2>3. ComeTo(F, "PAYMENT", ListedPayments, PaidThen)
    BY <2>1 DEF ComeTo
  <2> QED BY ONLY <1>1, <2>2, <2>3, EntriesAre
<1>6. IsFiniteSet(D) /\ SumOver(D, F) = SumOver(ListedRefunds, CashThen) /\ \A e \in D : F[e] \in Int
  <2>1. ASSUME NEW r \in ListedRefunds
        PROVE  CashThen[r] \in Int /\ F[<<"REFUND", r>>] = CashThen[r]
    <3>1. <<"REFUND", r>> \in Timeline /\ r \in ReturnIds
      BY <1>1, <1>2 DEF ListedRefunds, Entries
    <3>2. OwedBy(<<"REFUND", r>>) = LedgerAmount(refunds[r])
      BY DEF OwedBy
    <3> QED BY <1>1, <3>1, <3>2, RefundsAreListed DEF CashThen
  <2>2. IsFiniteSet(ListedRefunds)
    BY RefundsAreListed
  <2>3. ComeTo(F, "REFUND", ListedRefunds, CashThen)
    BY <2>1 DEF ComeTo
  <2> QED BY ONLY <1>1, <2>2, <2>3, EntriesAre
<1>7. A \cap B = {} /\ (A \cup B) \cap C = {} /\ ((A \cup B) \cup C) \cap D = {}
  BY <1>1 DEF Entries
<1>8. SumOver(A \cup B, F) = SumOver(A, F) + SumOver(B, F)
  BY ONLY <1>3, <1>4, <1>7, SumOfBoth
<1>9. IsFiniteSet(A \cup B) /\ \A e \in (A \cup B) : F[e] \in Int
  BY <1>3, <1>4, FS_Union
<1>10. SumOver((A \cup B) \cup C, F) = SumOver(A \cup B, F) + SumOver(C, F)
  BY ONLY <1>5, <1>7, <1>9, SumOfBoth
<1>11. IsFiniteSet((A \cup B) \cup C) /\ \A e \in ((A \cup B) \cup C) : F[e] \in Int
  BY <1>5, <1>9, FS_Union
<1>12. SumOver(((A \cup B) \cup C) \cup D, F) = SumOver((A \cup B) \cup C, F) + SumOver(D, F)
  BY ONLY <1>6, <1>7, <1>11, SumOfBoth
<1>13. PICK deposits, due, paid, cash, all, owed :
          /\ deposits = SumOver(Live, DepositsOf) /\ due = SumOver(StandingReturns, DueOf)
          /\ paid = SumOver(Live, PaidOf) /\ cash = SumOver(StandingReturns, CashOf)
          /\ all = SumOver(Timeline, F) /\ owed = SumOver(Live, OwedOf)
  OBVIOUS
<1>14. deposits \in Nat /\ due \in Nat /\ paid \in Nat /\ cash \in Nat
  BY <1>13, BooksSum
<1>15. owed = deposits - due - paid + cash
  BY <1>13, OwedInAll
<1>16. all = ((deposits + (-due)) + (-paid)) + cash
  BY <1>2, <1>3, <1>4, <1>5, <1>6, <1>8, <1>10, <1>12, <1>13,
     CreditsListed, PaymentsAreListed, RefundsAreListed
<1>17. all = owed
  BY ONLY <1>14, <1>15, <1>16
<1>18. StandingTotals.owed = SumOver(Live, OwedOf)
  BY StandingIsAll, TotalsAreSums DEF StandingTotals
<1> QED BY <1>1, <1>13, <1>17, <1>18
-----------------------------------------------------------------------------
LEMMA ReadingsHold == ReadInv => ReadingsAgree
<1> SUFFICES ASSUME ReadInv PROVE ReadingsAgree
  OBVIOUS
<1>1. ASSUME NEW o \in OrderIds, orders[o].state # "none"
      PROVE  LET paper == TransactionsPaper(o)
             IN  paper.received - paper.refunded + paper.owed
                   + SumOver(ReturnsOf(o), [r \in ReturnIds |-> returns[r].refundDue])
                 = IF o \in Live THEN DepositTotal(orders[o]) ELSE 0
  <2>1. o \in Made
    BY <1>1 DEF Made
  <2> QED BY <2>1, PaperAddsUp
<1>2. ASSUME NEW S \in {{r} : r \in StandingReturns} \cup {PartsOfVisit(v) : v \in Visits}
      PROVE  /\ PaperWorth(S) = ReturnPaper(S).credit
             /\ LET rows == ReturnPaper(S).rows
                IN  SumOver(rows, [x \in rows |->
                                      x[2].accepted + IF ShowsDamaged(S) THEN x[2].damaged ELSE 0])
                      = SumOver(S, [r \in ReturnIds |-> SumOver(Items, [i \in Items |-> CameBack(r, i)])])
  <2>1. S \in SUBSET StandingReturns
    BY <1>2 DEF PartsOfVisit
  <2> QED BY <2>1, PaperIsWorth, PaperCounts
<1> QED BY <1>1, <1>2, NothingDiscrepant, RowsPass, ReportsHold, CustomerHolds, TimelineOwes
        DEF ReadingsAgree

(* Every reading of the money agrees after any steps: the operators' check  *)
(* of the books finds no discrepancy, no row breaks a condition of its      *)
(* table, and the two reports, the customer's figures, the papers and the   *)
(* timeline, each a query of its own, come to the same. Only the guards of  *)
(* the handlers that write the rows keep it so (reconciliation.ts,          *)
(* positions-report.ts, activity-report.ts, customers.queries.ts,           *)
(* ledger.service.ts, customer-history.ts).                                 *)
THEOREM ReadingsAreOne == Spec => []ReadingsAgree
<1>1. ReadInv => ReadingsAgree
  BY ReadingsHold
<1> QED BY <1>1, ReadAlways, PTL
=============================================================================
