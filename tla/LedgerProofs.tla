---------------------------- MODULE LedgerProofs ----------------------------
(***************************************************************************)
(* The rows, for any number of orders, returns, payments and items, any    *)
(* quantities, deposits, dates and amounts: every row keeps its columns'   *)
(* ranges, nothing stands on a cancelled order, nothing that stands is     *)
(* dated before its order, and a refund stands with its return. The stored *)
(* figures of every order are what its rows add up to, whichever handler   *)
(* changed the rows; pallets owed go out before any are lent; and a live   *)
(* cash order carries exactly its automatic payment, of its deposit,       *)
(* through every edit and reversal. What an order's rows add up to: never  *)
(* more paid and credited than its deposit, never more pallets back than   *)
(* went out; so its figures never throw, a customer is archived settled,   *)
(* and the rows keep the account of OrderAccount.                          *)
(***************************************************************************)
EXTENDS Lending, SumProofs, FiniteSetTheorems, WellFoundedInduction, TLAPS

-----------------------------------------------------------------------------
(* Typing. A figure's column is part of its handler's guard, so each shared *)
(* step keeps its variable's type whatever its argument.                    *)

LEMMA RecomputeTyped ==
  ASSUME cache \in [OrderIds -> CacheRows], NEW S, RecomputeOrders(S)
  PROVE  cache' \in [OrderIds -> CacheRows]
BY DEF RecomputeOrders

LEMMA StockTyped ==
  ASSUME NEW change, ApplyStock(change)
  PROVE  stock' \in [Items -> Counts]
BY DEF ApplyStock

LEMMA OwingTyped ==
  ASSUME NEW change, WriteCredits(change)
  PROVE  owing' \in [Items -> Figures]
BY DEF WriteCredits

(* Whatever is available, what is taken of it is part of what was asked.    *)
LEMMA TakenIsPart ==
  ASSUME NEW available \in [Items -> Int], NEW requested \in Requests
  PROVE  /\ TakenFromOwed(available, requested) \in [Items -> 0 .. MaxQuantity]
         /\ Minus(requested, TakenFromOwed(available, requested))
              \in [Items -> 0 .. MaxQuantity]
BY BoundsAssumption DEF TakenFromOwed, Minus, LesserOf, ZeroOrMore, Requests

LEMMA InitTyped == Init => TypeOK
<1> SUFFICES ASSUME Init PROVE TypeOK
  OBVIOUS
<1> USE BoundsAssumption DEF Figures, Counts
<1>1. orders \in [OrderIds -> OrderRows]
  <2>1. NoOrder \in OrderRows
    BY DEF NoOrder, OrderRows
  <2> QED BY <2>1 DEF Init
<1>2. returns \in [ReturnIds -> ReturnRows]
  <2>1. NoBody \in Bodies
    BY DEF NoBody, Bodies
  <2>2. NoReturn \in ReturnRows
    BY <2>1 DEF NoReturn, ReturnRows
  <2> QED BY <2>2 DEF Init
<1>3. refunds \in [ReturnIds -> RefundRows]
  BY DEF Init, NoRefund, RefundRows
<1>4. payments \in [PaymentIds -> PaymentRows]
  BY DEF Init, NoPayment, PaymentRows
<1>5. cache \in [OrderIds -> CacheRows]
  BY DEF Init, NoTotals, CacheRows
<1>6. handBacks \in [HandBackIds -> HandBackRows]
  BY DEF Init, NoHandBack, HandBackRows
<1>7. stock \in [Items -> Counts] /\ owing \in [Items -> Figures]
  <2>1. InitialStock \in Counts /\ 0 \in Figures
    OBVIOUS
  <2> QED BY <2>1 DEF Init
<1>8. /\ surplus \in [ReturnIds -> [Items -> Counts]]
      /\ credited \in [ReturnIds -> SUBSET Items]
      /\ archived \in BOOLEAN
  <2>1. 0 \in Counts
    OBVIOUS
  <2> QED BY <2>1 DEF Init
<1> QED BY <1>1, <1>2, <1>3, <1>4, <1>5, <1>6, <1>7, <1>8 DEF TypeOK

(* The automatic payment of an order is a payment row, its date that of no  *)
(* manual payment.                                                          *)
LEMMA IssueTyped ==
  ASSUME payments \in [PaymentIds -> PaymentRows],
         NEW o \in OrderIds, NEW reversed, NEW amount \in Counts,
         IssuePayment(o, reversed, amount)
  PROVE  payments' \in [PaymentIds -> PaymentRows]
<1> DEFINE kept(p) == IF p \in reversed THEN [payments[p] EXCEPT !.state = "reversed"]
                                        ELSE payments[p]
<1>1. \A p \in PaymentIds : kept(p) \in PaymentRows
  BY DEF PaymentRows
<1>2. CASE amount = 0
  BY <1>1, <1>2 DEF IssuePayment
<1>3. ASSUME NEW n \in PaymentIds
      PROVE  [state |-> "standing", order |-> o, automatic |-> TRUE,
              amount |-> amount, date |-> 0] \in PaymentRows
  BY BoundsAssumption DEF PaymentRows, OrderIds
<1>4. CASE amount # 0
  BY <1>1, <1>3, <1>4 DEF IssuePayment
<1> QED BY <1>2, <1>4
-----------------------------------------------------------------------------
(* One lemma per handler: it leaves every row of its kind.                  *)
LEMMA CreateOrderTyped ==
  ASSUME TypeOK, NEW o \in OrderIds, NEW payment \in PaymentTypes, NEW date \in Days,
         NEW requested \in Requests, NEW deposit \in [Items -> Deposits], NEW override,
         CreateOrder(o, payment, date, requested, deposit, override)
  PROVE  TypeOK'
<1> DEFINE used == TakenFromOwed(owing, requested)
           lent == Minus(requested, used)
           row  == [state |-> "live", payment |-> payment, date |-> date,
                    quantity |-> lent, deposit |-> Priced(lent, deposit), used |-> used]
<1>1. orders' \in [OrderIds -> OrderRows]
  <2>1. used \in [Items -> 0 .. MaxQuantity] /\ lent \in [Items -> 0 .. MaxQuantity]
    BY TakenIsPart DEF TypeOK, Figures
  <2>2. Priced(lent, deposit) \in [Items -> Nat]
    BY DataAssumption DEF Priced
  <2>3. row \in OrderRows
    BY <2>1, <2>2, DataAssumption DEF OrderRows
  <2>4. orders' = [orders EXCEPT ![o] = row]
    BY DEF CreateOrder
  <2> HIDE DEF row
  <2> QED BY <2>3, <2>4 DEF TypeOK
<1>2. payments' \in [PaymentIds -> PaymentRows]
  <2>1. DepositTotal(row) \in Counts
    BY DEF CreateOrder
  <2>2. IssuePayment(o, {}, IF payment = "CASH" THEN DepositTotal(row) ELSE 0)
    BY DEF CreateOrder
  <2>3. (IF payment = "CASH" THEN DepositTotal(row) ELSE 0) \in Counts
    BY <2>1, BoundsAssumption DEF Counts
  <2> HIDE DEF row
  <2> QED BY <2>2, <2>3, IssueTyped DEF TypeOK
<1>3. cache' \in [OrderIds -> CacheRows]
  BY RecomputeTyped DEF TypeOK, CreateOrder
<1>4. stock' \in [Items -> Counts] /\ owing' \in [Items -> Figures]
  BY StockTyped, OwingTyped DEF CreateOrder
<1> QED BY <1>1, <1>2, <1>3, <1>4 DEF TypeOK, CreateOrder

LEMMA EditHeaderTyped ==
  ASSUME TypeOK, NEW o \in OrderIds, NEW date \in Days, EditHeader(o, date)
  PROVE  TypeOK'
<1>1. orders' \in [OrderIds -> OrderRows]
  <2>0. orders[o] \in OrderRows
    BY DEF TypeOK
  <2>1. [orders[o] EXCEPT !.date = date] \in OrderRows
    BY <2>0, DataAssumption DEF OrderRows
  <2>2. orders' = [orders EXCEPT ![o] = [orders[o] EXCEPT !.date = date]]
    BY DEF EditHeader
  <2> QED BY <2>1, <2>2 DEF TypeOK
<1>2. cache' \in [OrderIds -> CacheRows]
  BY RecomputeTyped DEF TypeOK, EditHeader
<1> QED BY <1>1, <1>2 DEF TypeOK, EditHeader

LEMMA EditLinesTyped ==
  ASSUME TypeOK, NEW o \in OrderIds, NEW date \in Days,
         NEW requested \in Requests, NEW deposit \in [Items -> Deposits], NEW override,
         EditLines(o, date, requested, deposit, override)
  PROVE  TypeOK'
<1> DEFINE before == orders[o]
           available == Plus([i \in Items |-> Owed(i)], before.used)
           used == TakenFromOwed(available, requested)
           lent == Minus(requested, used)
           row  == [before EXCEPT !.date = date, !.quantity = lent,
                                  !.deposit = Priced(lent, deposit), !.used = used]
<1>0. before \in OrderRows
  BY DEF TypeOK
<1>1. orders' \in [OrderIds -> OrderRows]
  <2>1. available \in [Items -> Int]
    BY <1>0, BoundsAssumption DEF TypeOK, Plus, Owed, ZeroOrMore, Figures, OrderRows
  <2>2. used \in [Items -> 0 .. MaxQuantity] /\ lent \in [Items -> 0 .. MaxQuantity]
    BY <2>1, TakenIsPart
  <2>3. Priced(lent, deposit) \in [Items -> Nat]
    BY DataAssumption DEF Priced
  <2>4. row \in OrderRows
    BY <1>0, <2>2, <2>3, DataAssumption DEF OrderRows
  <2>5. orders' = [orders EXCEPT ![o] = row]
    BY DEF EditLines
  <2> HIDE DEF row
  <2> QED BY <2>4, <2>5 DEF TypeOK
<1>2. payments' \in [PaymentIds -> PaymentRows]
  <2>1. DepositTotal(row) \in Counts
    BY DEF EditLines
  <2>2. \/ IssuePayment(o, StandingAutomatic(o), DepositTotal(row))
        \/ UNCHANGED payments
    BY DEF EditLines
  <2> HIDE DEF row
  <2> QED BY <2>1, <2>2, IssueTyped DEF TypeOK
<1>3. cache' \in [OrderIds -> CacheRows]
  BY RecomputeTyped DEF TypeOK, EditLines
<1>4. stock' \in [Items -> Counts] /\ owing' \in [Items -> Figures]
  BY StockTyped, OwingTyped DEF EditLines
<1> QED BY <1>1, <1>2, <1>3, <1>4 DEF TypeOK, EditLines

LEMMA CancelOrderTyped ==
  ASSUME TypeOK, NEW o \in OrderIds, CancelOrder(o)
  PROVE  TypeOK'
<1> DEFINE row == [orders[o] EXCEPT !.state = "cancelled", !.used = [i \in Items |-> 0]]
<1>1. orders' \in [OrderIds -> OrderRows]
  <2>0. orders[o] \in OrderRows
    BY DEF TypeOK
  <2>1. [i \in Items |-> 0] \in [Items -> 0 .. MaxQuantity]
    BY BoundsAssumption
  <2>2. row \in OrderRows
    BY <2>0, <2>1 DEF OrderRows
  <2>3. orders' = [orders EXCEPT ![o] = row]
    BY DEF CancelOrder
  <2> QED BY <2>2, <2>3 DEF TypeOK
<1>2. payments' \in [PaymentIds -> PaymentRows]
  <2>1. 0 \in Counts
    BY BoundsAssumption DEF Counts
  <2> QED BY <2>1, IssueTyped DEF TypeOK, CancelOrder
<1>3. cache' \in [OrderIds -> CacheRows]
  BY RecomputeTyped DEF TypeOK, CancelOrder
<1>4. stock' \in [Items -> Counts] /\ owing' \in [Items -> Figures]
  BY StockTyped, OwingTyped DEF CancelOrder
<1> QED BY <1>1, <1>2, <1>3, <1>4 DEF TypeOK, CancelOrder

(* A new return takes its row's type from the guard; one taken back keeps   *)
(* its own, and points at nothing but a return just written.                *)
LEMMA WriteReturnsTyped ==
  ASSUME TypeOK, NEW plan, NEW date, NEW withOrder, NEW visit,
         WriteReturns(plan, date, withOrder, visit)
  PROVE  /\ returns' \in [ReturnIds -> ReturnRows]
         /\ refunds' \in [ReturnIds -> RefundRows]
         /\ cache' \in [OrderIds -> CacheRows]
         /\ UNCHANGED <<orders, payments, handBacks, archived>>
<1> DEFINE old == TakenBack(plan)
           new == NewIds(plan)
           row == [r \in new |-> LET o == OrderOfNew(plan, r)
                                 IN  NewReturn(o, old, plan[o].body, date, withOrder, visit)]
           replacement(r) == LET o == OrderOfOld(plan, r)
                             IN  IF o \in Written(plan) THEN NewId(plan, o) ELSE 0
<1>1. new \subseteq ReturnIds /\ \A r \in new : row[r] \in ReturnRows
  BY DEF WriteReturns
<1>2. returns' = [r \in ReturnIds |->
          IF r \in new THEN row[r]
          ELSE IF r \in old THEN Reversed(r, replacement(r)) ELSE returns[r]]
  BY DEF WriteReturns
<1>3. refunds' = [r \in ReturnIds |->
          IF r \in new THEN RefundOf(row[r])
          ELSE IF r \in old THEN RefundReversed(r) ELSE refunds[r]]
  BY DEF WriteReturns
<1>4. \A r \in ReturnIds : Reversed(r, replacement(r)) \in ReturnRows
  <2>1. \A r : replacement(r) \in 0 .. MaxReturns
    BY <1>1, BoundsAssumption DEF NewIds, ReturnIds
  <2>2. ASSUME NEW r \in ReturnIds, NEW q \in 0 .. MaxReturns
        PROVE  Reversed(r, q) \in ReturnRows
    <3>1. returns[r] \in ReturnRows
      BY DEF TypeOK
    <3> QED BY <3>1 DEF Reversed, ReturnRows
  <2> HIDE DEF replacement
  <2> QED BY <2>1, <2>2
<1>5. \A r \in ReturnIds : RefundReversed(r) \in RefundRows
  BY DEF TypeOK, RefundReversed, RefundRows
<1>6. \A r \in new : RefundOf(row[r]) \in RefundRows
  <2>1. \A r \in new : row[r].cashRefund \in Counts
    BY <1>1 DEF ReturnRows
  <2> HIDE DEF row
  <2> QED BY <2>1, BoundsAssumption DEF RefundOf, NoRefund, RefundRows, Counts
<1>7. cache' \in [OrderIds -> CacheRows]
  BY RecomputeTyped DEF TypeOK, WriteReturns
<1>8. UNCHANGED <<orders, payments, handBacks, archived>>
  BY DEF WriteReturns
<1> HIDE DEF old, new, row, replacement
<1>9. returns' \in [ReturnIds -> ReturnRows]
  BY <1>1, <1>2, <1>4 DEF TypeOK
<1>10. refunds' \in [ReturnIds -> RefundRows]
  BY <1>3, <1>5, <1>6 DEF TypeOK
<1> QED BY <1>7, <1>8, <1>9, <1>10

LEMMA WriteSurplusTyped ==
  ASSUME credited \in [ReturnIds -> SUBSET Items],
         NEW plan, NEW extra, NEW rows, NEW taken, WriteSurplus(plan, extra, rows, taken)
  PROVE  /\ surplus' \in [ReturnIds -> [Items -> Counts]]
         /\ credited' \in [ReturnIds -> SUBSET Items]
BY DEF WriteSurplus

LEMMA CreateReturnTyped ==
  ASSUME TypeOK, NEW o, NEW body, NEW date, CreateReturn(o, body, date)
  PROVE  TypeOK'
BY WriteReturnsTyped, StockTyped DEF CreateReturn, TypeOK

LEMMA CreateForCustomerTyped ==
  ASSUME TypeOK, NEW bodies, NEW date, NEW withOrder, NEW extra,
         CreateForCustomer(bodies, date, withOrder, extra)
  PROVE  TypeOK'
<1> DEFINE plan  == [o \in DOMAIN bodies |-> [old |-> 0, body |-> bodies[o]]]
           visit == IF Cardinality(DOMAIN bodies) > 1 THEN FirstNew ELSE 0
<1>1. WriteReturns(plan, date, withOrder, visit)
  BY DEF CreateForCustomer
<1>2. WriteSurplus(plan, extra, {}, <<>>)
  BY DEF CreateForCustomer
<1>3. stock' \in [Items -> Counts] /\ owing' \in [Items -> Figures]
  BY StockTyped, OwingTyped DEF CreateForCustomer
<1> HIDE DEF plan, visit
<1> QED BY <1>1, <1>2, <1>3, WriteReturnsTyped, WriteSurplusTyped DEF TypeOK

LEMMA DeleteReturnTyped ==
  ASSUME TypeOK, NEW r \in ReturnIds, DeleteReturn(r)
  PROVE  TypeOK'
<1> DEFINE rows  == SurplusOf(r, BodyItems(returns[r].body))
           plan  == [k \in {returns[r].order} |-> [old |-> r, body |-> NoBody]]
           taken == [row \in rows |-> surplus[row[1]][row[2]]]
<1>1. WriteReturns(plan, 0, 0, 0)
  BY DEF DeleteReturn
<1>2. WriteSurplus(plan, [i \in Items |-> 0], rows, taken)
  BY DEF DeleteReturn
<1>3. stock' \in [Items -> Counts] /\ owing' \in [Items -> Figures]
  BY StockTyped, OwingTyped DEF DeleteReturn
<1> HIDE DEF plan, rows, taken
<1> QED BY <1>1, <1>2, <1>3, WriteReturnsTyped, WriteSurplusTyped DEF TypeOK

LEMMA ReplaceReturnTyped ==
  ASSUME TypeOK, NEW r \in ReturnIds, NEW body, NEW date, ReplaceReturn(r, body, date)
  PROVE  TypeOK'
<1> DEFINE plan == [k \in {returns[r].order} |-> [old |-> r, body |-> body]]
<1>1. WriteReturns(plan, date, returns[r].withOrder, 0)
  BY DEF ReplaceReturn
<1>2. stock' \in [Items -> Counts] /\ UNCHANGED owing
  BY StockTyped DEF ReplaceReturn
<1>3. /\ surplus' = [surplus EXCEPT ![r] = [i \in Items |-> 0],
                                    ![FirstNew] = surplus[r]]
      /\ credited' = [credited EXCEPT ![FirstNew] = {i \in Items : surplus[r][i] > 0}]
  BY DEF ReplaceReturn, CarryOver
<1> HIDE DEF plan
<1>4. surplus' \in [ReturnIds -> [Items -> Counts]]
  <2>1. [i \in Items |-> 0] \in [Items -> Counts]
    BY BoundsAssumption DEF Counts
  <2>2. surplus[r] \in [Items -> Counts]
    BY DEF TypeOK
  <2> QED BY <1>3, <2>1, <2>2 DEF TypeOK
<1>5. credited' \in [ReturnIds -> SUBSET Items]
  BY <1>3 DEF TypeOK
<1> QED BY <1>1, <1>2, <1>4, <1>5, WriteReturnsTyped DEF TypeOK

LEMMA ReplaceForCustomerTyped ==
  ASSUME TypeOK, NEW r \in ReturnIds, NEW bodies, NEW date, NEW extra,
         ReplaceForCustomer(r, bodies, date, extra)
  PROVE  TypeOK'
<1>1. PICK plan, withOrder, visit : WriteReturns(plan, date, withOrder, visit)
  BY DEF ReplaceForCustomer, WriteEdit
<1>2. PICK written, rows, taken : WriteSurplus(written, extra, rows, taken)
  BY DEF ReplaceForCustomer, WriteEdit
<1>3. stock' \in [Items -> Counts] /\ owing' \in [Items -> Figures]
  BY StockTyped, OwingTyped DEF ReplaceForCustomer, WriteEdit
<1> QED BY <1>1, <1>2, <1>3, WriteReturnsTyped, WriteSurplusTyped DEF TypeOK

LEMMA CreatePaymentTyped ==
  ASSUME TypeOK, NEW p \in PaymentIds, NEW o \in OrderIds, NEW date \in Days,
         NEW amount \in PaymentAmounts, CreatePayment(p, o, amount, date)
  PROVE  TypeOK'
<1> DEFINE row == [state |-> "standing", order |-> o, automatic |-> FALSE,
                   amount |-> amount, date |-> date]
<1>1. payments' \in [PaymentIds -> PaymentRows]
  <2>1. row \in PaymentRows
    BY BoundsAssumption, DataAssumption DEF PaymentRows, OrderIds, Counts
  <2>2. payments' = [payments EXCEPT ![p] = row]
    BY DEF CreatePayment
  <2> HIDE DEF row
  <2> QED BY <2>1, <2>2 DEF TypeOK
<1>2. cache' \in [OrderIds -> CacheRows]
  BY RecomputeTyped DEF TypeOK, CreatePayment
<1> QED BY <1>1, <1>2 DEF TypeOK, CreatePayment

LEMMA ReversePaymentTyped ==
  ASSUME TypeOK, NEW p \in PaymentIds, ReversePayment(p)
  PROVE  TypeOK'
<1>1. payments' \in [PaymentIds -> PaymentRows]
  <2>1. payments[p] \in PaymentRows
    BY DEF TypeOK
  <2>2. [payments[p] EXCEPT !.state = "reversed"] \in PaymentRows
    BY <2>1 DEF PaymentRows
  <2>3. payments' = [payments EXCEPT ![p] = [payments[p] EXCEPT !.state = "reversed"]]
    BY DEF ReversePayment
  <2> QED BY <2>2, <2>3 DEF TypeOK
<1>2. cache' \in [OrderIds -> CacheRows]
  BY RecomputeTyped DEF TypeOK, ReversePayment
<1> QED BY <1>1, <1>2 DEF TypeOK, ReversePayment

(* What is handed back is part of what is owed, so it is a count.           *)
LEMMA HandBackTyped ==
  ASSUME TypeOK, NEW h \in HandBackIds, NEW i \in Items, NEW quantity \in Nat,
         HandBack(h, i, quantity)
  PROVE  TypeOK'
<1> DEFINE row == [state |-> "standing",
                   quantity |-> [k \in Items |-> IF k = i THEN quantity ELSE 0]]
<1>1. quantity \in Counts
  BY BoundsAssumption DEF TypeOK, HandBack, MayHandBack, Owed, ZeroOrMore, Figures, Counts
<1>2. row \in HandBackRows
  BY <1>1, BoundsAssumption DEF HandBackRows, Counts
<1>3. handBacks' = [handBacks EXCEPT ![h] = row]
  BY DEF HandBack
<1>4. stock' \in [Items -> Counts] /\ owing' \in [Items -> Figures]
  BY StockTyped, OwingTyped DEF HandBack
<1>5. UNCHANGED <<orders, returns, refunds, payments, cache, surplus, credited, archived>>
  BY DEF HandBack
<1> HIDE DEF row
<1> QED BY <1>2, <1>3, <1>4, <1>5 DEF TypeOK

LEMMA UndoHandBackTyped ==
  ASSUME TypeOK, NEW h \in HandBackIds, UndoHandBack(h)
  PROVE  TypeOK'
<1>1. handBacks' \in [HandBackIds -> HandBackRows]
  <2>1. handBacks[h] \in HandBackRows
    BY DEF TypeOK
  <2>2. [handBacks[h] EXCEPT !.state = "undone"] \in HandBackRows
    BY <2>1 DEF HandBackRows
  <2>3. handBacks' = [handBacks EXCEPT ![h] = [handBacks[h] EXCEPT !.state = "undone"]]
    BY DEF UndoHandBack
  <2> QED BY <2>2, <2>3 DEF TypeOK
<1>2. stock' \in [Items -> Counts] /\ owing' \in [Items -> Figures]
  BY StockTyped, OwingTyped DEF UndoHandBack
<1> QED BY <1>1, <1>2 DEF TypeOK, UndoHandBack

LEMMA ArchiveTyped == ASSUME TypeOK, ArchiveCustomer PROVE TypeOK'
BY DEF TypeOK, ArchiveCustomer
-----------------------------------------------------------------------------
(* Every handler keeps the types, and so does a stutter.                    *)
LEMMA StepTyped == TypeOK /\ [Next]_vars => TypeOK'
<1> SUFFICES ASSUME TypeOK, [Next]_vars PROVE TypeOK'
  OBVIOUS
<1>1. CASE OrderStep
  BY <1>1, CreateOrderTyped, EditHeaderTyped, EditLinesTyped DEF OrderStep
<1>2. CASE CancelStep
  BY <1>2, CancelOrderTyped DEF CancelStep
<1>3. CASE ReturnStep
  BY <1>3, CreateReturnTyped, CreateForCustomerTyped, ReplaceReturnTyped,
     ReplaceForCustomerTyped DEF ReturnStep, StandingReturns
<1>4. CASE DeleteStep
  BY <1>4, DeleteReturnTyped DEF DeleteStep
<1>5. CASE PaymentStep
  BY <1>5, CreatePaymentTyped, ReversePaymentTyped DEF PaymentStep
<1>6. CASE HandBackStep
  <2>1. \A quantity \in 1 .. (MaxQuantity + MaxExtra) : quantity \in Nat
    BY BoundsAssumption
  <2> QED BY <1>6, <2>1, HandBackTyped, UndoHandBackTyped DEF HandBackStep
<1>7. CASE ArchiveCustomer
  BY <1>7, ArchiveTyped
<1>8. CASE UNCHANGED vars
  BY <1>8 DEF vars, TypeOK
<1> QED BY <1>1, <1>2, <1>3, <1>4, <1>5, <1>6, <1>7, <1>8 DEF Next

(* Whatever the handlers do, every row keeps its columns' ranges: no stock  *)
(* below nothing, no figure its column cannot hold, no order that took more *)
(* of the pallets owed than it handed over.                                 *)
THEOREM LendingTyped == Spec => []TypeOK
BY InitTyped, StepTyped, PTL DEF Spec

-----------------------------------------------------------------------------
(* What stands belongs to a live order: only a live order takes returns and *)
(* payments, and only one on which none stands is cancelled. The reason why *)
(* a cancelled order holds nothing, and why a new order's rows are its own. *)
StandingOnLive ==
    /\ \A r \in StandingReturns :
          /\ returns[r].order \in Live
          /\ returns[r].withOrder # 0 => returns[r].withOrder \in Live
    /\ \A p \in PaymentIds :
          payments[p].state = "standing" => payments[p].order \in Live
    /\ \A o \in OrderIds : orders[o].state = "cancelled" =>
          \A i \in Items : orders[o].used[i] = 0

LedgerInv == /\ TypeOK
             /\ StandingOnLive
             /\ ActivityNotBeforeOrder
             /\ RefundStandsWithItsReturn
-----------------------------------------------------------------------------
(* A set of counts that is not empty has a largest member.                  *)
LEMMA LargestCount ==
  ASSUME NEW M \in Nat, NEW S \in SUBSET (0 .. M), S # {}
  PROVE  Max(S) \in S /\ \A n \in S : n <= Max(S)
<1> DEFINE Above(n) == {k \in S : k > n}
           T == {Above(n) : n \in S}
<1>1. IsFiniteSet(S)
  <2>1. IsFiniteSet(0 .. M)
    BY FS_Interval
  <2> QED BY <2>1, FS_Subset
<1>2. IsWellFoundedOn(StrictSubsetOrdering(S), SUBSET S)
  BY <1>1, FS_FiniteSubsetsOfFinite, FS_StrictSubsetOrderingWellFounded
<1>3. T \subseteq SUBSET S /\ T # {}
  OBVIOUS
<1>4. PICK t \in T : \A u \in T : ~ (<<u, t>> \in StrictSubsetOrdering(S))
  <2> HIDE DEF T
  <2> QED BY <1>2, <1>3, WFMin
<1>5. PICK m \in S : t = Above(m)
  OBVIOUS
<1>6. ASSUME NEW n \in S, n > m PROVE FALSE
  <2>0. (\A k \in S : k > n => k > m) /\ ~(n > n)
    <3>1. S \subseteq Int
      OBVIOUS
    <3> QED BY <1>6, <3>1
  <2>1. Above(n) \subseteq Above(m) /\ n \in Above(m) /\ n \notin Above(n)
    BY <1>6, <2>0
  <2>2. Above(n) \in T /\ Above(n) \in SUBSET S /\ Above(m) \in SUBSET S
    OBVIOUS
  <2> HIDE DEF Above, T
  <2> QED BY <1>4, <1>5, <2>1, <2>2 DEF StrictSubsetOrdering
<1>7. \A n \in S : m >= n
  BY <1>6
<1> QED BY <1>7 DEF Max

(* The ids of the returns a plan writes were not used before.               *)
LEMMA NewIsUnused ==
  ASSUME TypeOK, NEW plan, DOMAIN plan \subseteq OrderIds,
         NEW r \in NewIds(plan), r \in ReturnIds
  PROVE  returns[r].state = "none"
<1> DEFINE used == {q \in ReturnIds : returns[q].state # "none"}
<1>1. PICK o \in Written(plan) : r = FirstNew + Cardinality({p \in Written(plan) : p < o})
  BY DEF NewIds, NewId
<1>2. Cardinality({p \in Written(plan) : p < o}) \in Nat
  <2>1. {p \in Written(plan) : p < o} \subseteq 1 .. MaxOrders
    BY DEF Written, OrderIds
  <2>2. IsFiniteSet(1 .. MaxOrders)
    BY FS_Interval, BoundsAssumption
  <2> QED BY <2>1, <2>2, FS_Subset, FS_CardinalityType
<1> HIDE DEF used
<1>3. {0} \cup used \in SUBSET (0 .. MaxReturns) /\ {0} \cup used # {}
  BY BoundsAssumption DEF ReturnIds, used
<1>4. /\ Max({0} \cup used) \in 0 .. MaxReturns
      /\ \A n \in {0} \cup used : n <= Max({0} \cup used)
  BY <1>3, LargestCount, BoundsAssumption
<1>5. r > Max({0} \cup used)
  BY <1>1, <1>2, <1>4 DEF FirstNew, used
<1>6. r \notin used
  BY <1>4, <1>5 DEF ReturnIds
<1> QED BY <1>6 DEF used

(* What a plan does to a return: it is one of those written, or one of      *)
(* those taken back, or left alone.                                         *)
WrittenNow(plan, date, withOrder, r) ==
    /\ returns[r].state = "none"
    /\ returns'[r].state = "standing"
    /\ returns'[r].order \in Written(plan)
    /\ returns'[r].withOrder = withOrder
    /\ returns'[r].date = date
    /\ refunds'[r] = RefundOf(returns'[r])
TakenBackNow(plan, r) ==
    /\ r \in TakenBack(plan)
    /\ returns'[r].state \in {"EDIT", "DELETE"}
    /\ returns'[r].order = returns[r].order
    /\ returns'[r].cashRefund = returns[r].cashRefund
    /\ refunds'[r] = RefundReversed(r)
LeftAlone(r) == returns'[r] = returns[r] /\ refunds'[r] = refunds[r]

LEMMA WriteReturnsEffect ==
  ASSUME TypeOK, NEW plan, DOMAIN plan \subseteq OrderIds,
         NEW date, NEW withOrder, NEW visit,
         WriteReturns(plan, date, withOrder, visit),
         NEW r \in ReturnIds
  PROVE  \/ WrittenNow(plan, date, withOrder, r)
         \/ TakenBackNow(plan, r)
         \/ LeftAlone(r)
<1> DEFINE old == TakenBack(plan)
           new == NewIds(plan)
           row == [q \in new |-> LET o == OrderOfNew(plan, q)
                                 IN  NewReturn(o, old, plan[o].body, date, withOrder, visit)]
           replacement(q) == LET o == OrderOfOld(plan, q)
                             IN  IF o \in Written(plan) THEN NewId(plan, o) ELSE 0
<1>1. returns' = [q \in ReturnIds |->
          IF q \in new THEN row[q]
          ELSE IF q \in old THEN Reversed(q, replacement(q)) ELSE returns[q]]
  BY DEF WriteReturns
<1>2. refunds' = [q \in ReturnIds |->
          IF q \in new THEN RefundOf(row[q])
          ELSE IF q \in old THEN RefundReversed(q) ELSE refunds[q]]
  BY DEF WriteReturns
<1>3. CASE r \in new
  <2>1. returns'[r] = row[r] /\ refunds'[r] = RefundOf(row[r])
    BY <1>1, <1>2, <1>3
  <2>2. OrderOfNew(plan, r) \in Written(plan)
    BY <1>3 DEF OrderOfNew, NewIds
  <2>3. /\ row[r].state = "standing" /\ row[r].order = OrderOfNew(plan, r)
        /\ row[r].withOrder = withOrder /\ row[r].date = date
    BY <1>3 DEF NewReturn
  <2>4. returns[r].state = "none"
    BY <1>3, NewIsUnused
  <2> HIDE DEF row
  <2> QED BY <2>1, <2>2, <2>3, <2>4 DEF WrittenNow
<1>4. CASE r \notin new /\ r \in old
  <2>1. returns'[r] = Reversed(r, replacement(r)) /\ refunds'[r] = RefundReversed(r)
    BY <1>1, <1>2, <1>4
  <2>2. returns[r] \in ReturnRows
    BY DEF TypeOK
  <2> HIDE DEF replacement
  <2>3. /\ Reversed(r, replacement(r)).state \in {"EDIT", "DELETE"}
        /\ Reversed(r, replacement(r)).order = returns[r].order
        /\ Reversed(r, replacement(r)).cashRefund = returns[r].cashRefund
    BY <2>2 DEF Reversed, ReturnRows
  <2> QED BY <1>4, <2>1, <2>3 DEF TakenBackNow
<1>5. CASE r \notin new /\ r \notin old
  BY <1>1, <1>2, <1>5 DEF LeftAlone
<1> QED BY <1>3, <1>4, <1>5

(* What issuing an order's payment does to a payment.                       *)
Issued(o, amount, p) ==
    /\ amount # 0
    /\ payments[p].state = "none"
    /\ payments'[p] = [state |-> "standing", order |-> o, automatic |-> TRUE,
                       amount |-> amount, date |-> 0]
LEMMA IssueEffect ==
  ASSUME TypeOK, NEW o, NEW reversed, NEW amount, IssuePayment(o, reversed, amount),
         NEW p \in PaymentIds
  PROVE  \/ Issued(o, amount, p)
         \/ p \in reversed /\ payments'[p] = [payments[p] EXCEPT !.state = "reversed"]
         \/ p \notin reversed /\ payments'[p] = payments[p]
<1> DEFINE kept(q) == IF q \in reversed THEN [payments[q] EXCEPT !.state = "reversed"]
                                        ELSE payments[q]
<1>1. CASE amount = 0
  <2>1. payments' = [q \in PaymentIds |-> kept(q)]
    BY <1>1 DEF IssuePayment
  <2> QED BY <2>1
<1>2. CASE amount # 0
  <2>1. PICK n \in PaymentIds :
          /\ NextFree(n, PaymentIds, payments)
          /\ payments' = [q \in PaymentIds |->
                IF q = n THEN [state |-> "standing", order |-> o, automatic |-> TRUE,
                               amount |-> amount, date |-> 0]
                         ELSE kept(q)]
    BY <1>2 DEF IssuePayment
  <2>2. CASE p = n
    BY <1>2, <2>1, <2>2 DEF Issued, NextFree
  <2>3. CASE p # n
    BY <2>1, <2>3
  <2> QED BY <2>2, <2>3
<1> QED BY <1>1, <1>2

(* Payments stand on live orders, and manual ones not before them, whatever *)
(* payment of a live order is issued and whichever are reversed.            *)
LEMMA IssueKeepsPayments ==
  ASSUME TypeOK, NEW o \in OrderIds, NEW reversed, NEW amount,
         IssuePayment(o, reversed, amount),
         NEW p \in PaymentIds, payments'[p].state = "standing"
  PROVE  \/ payments'[p].order = o /\ payments'[p].automatic
         \/ p \notin reversed /\ payments'[p] = payments[p]
<1>1. payments[p] \in PaymentRows
  BY DEF TypeOK
<1>2. [payments[p] EXCEPT !.state = "reversed"].state = "reversed"
  BY <1>1 DEF PaymentRows
<1>3. CASE Issued(o, amount, p)
  <2>1. payments'[p].order = o
    BY <1>3 DEF Issued
  <2>2. payments'[p].automatic
    BY <1>3 DEF Issued
  <2> QED BY <2>1, <2>2
<1> QED BY <1>2, <1>3, IssueEffect, ZenonT(60)
-----------------------------------------------------------------------------
LEMMA LedgerInitially == Init => LedgerInv
<1> SUFFICES ASSUME Init PROVE LedgerInv
  OBVIOUS
<1>1. TypeOK
  BY InitTyped
<1>2. StandingReturns = {} /\ \A r \in ReturnIds : refunds[r].state = "none"
  BY DEF Init, StandingReturns, NoReturn, NoRefund
<1>3. \A r \in ReturnIds : returns[r].state = "none"
  BY DEF Init, NoReturn
<1>4. \A p \in PaymentIds : payments[p].state = "none"
  BY DEF Init, NoPayment
<1>5. \A o \in OrderIds : orders[o].state = "none"
  BY DEF Init, NoOrder
<1>6. StandingOnLive /\ ActivityNotBeforeOrder
  BY <1>2, <1>4, <1>5 DEF StandingOnLive, ActivityNotBeforeOrder
<1>7. RefundStandsWithItsReturn
  BY <1>2, <1>3 DEF RefundStandsWithItsReturn
<1> QED BY <1>1, <1>6, <1>7 DEF LedgerInv

(* Recording, correcting and deleting returns, by whatever plan, on live    *)
(* orders and not before them.                                              *)
LEMMA WriteReturnsLedger ==
  ASSUME LedgerInv, TypeOK', NEW plan, DOMAIN plan \subseteq Live,
         NEW date, NEW withOrder, NEW visit,
         \A o \in Written(plan) : date >= orders[o].date,
         WithOrderAllows(withOrder, date),
         WriteReturns(plan, date, withOrder, visit)
  PROVE  LedgerInv'
<1>1. UNCHANGED <<orders, payments>> /\ TypeOK
  BY DEF WriteReturns, LedgerInv
<1>2. Live \subseteq OrderIds /\ Live' = Live /\ Written(plan) \subseteq DOMAIN plan
  BY <1>1 DEF Live, Written
<1>3. ASSUME NEW r \in ReturnIds
      PROVE  \/ WrittenNow(plan, date, withOrder, r)
             \/ TakenBackNow(plan, r)
             \/ LeftAlone(r)
  BY <1>1, <1>2, WriteReturnsEffect
<1>4. ASSUME NEW r \in ReturnIds, returns'[r].state = "standing"
      PROVE  WrittenNow(plan, date, withOrder, r) \/ LeftAlone(r)
  BY <1>3, <1>4 DEF TakenBackNow
<1>5. StandingOnLive'
  <2>1. ASSUME NEW r \in ReturnIds, returns'[r].state = "standing"
        PROVE  /\ returns'[r].order \in Live
               /\ returns'[r].withOrder # 0 => returns'[r].withOrder \in Live
    <3>1. CASE WrittenNow(plan, date, withOrder, r)
      BY <1>2, <3>1 DEF WrittenNow, WithOrderAllows
    <3>2. CASE LeftAlone(r)
      BY <2>1, <3>2 DEF LeftAlone, LedgerInv, StandingOnLive, StandingReturns
    <3> QED BY <1>4, <2>1, <3>1, <3>2
  <2> QED BY <1>1, <1>2, <2>1 DEF LedgerInv, StandingOnLive, StandingReturns
<1>6. ActivityNotBeforeOrder'
  <2>1. ASSUME NEW r \in ReturnIds, returns'[r].state = "standing"
        PROVE  /\ returns'[r].date >= orders[returns'[r].order].date
               /\ returns'[r].withOrder # 0 =>
                     returns'[r].date >= orders[returns'[r].withOrder].date
    <3>1. CASE WrittenNow(plan, date, withOrder, r)
      BY <3>1 DEF WrittenNow, WithOrderAllows
    <3>2. CASE LeftAlone(r)
      BY <2>1, <3>2 DEF LeftAlone, LedgerInv, ActivityNotBeforeOrder, StandingReturns
    <3> QED BY <1>4, <2>1, <3>1, <3>2
  <2> QED BY <1>1, <2>1 DEF LedgerInv, ActivityNotBeforeOrder, StandingReturns
<1>7. RefundStandsWithItsReturn'
  <2>1. ASSUME NEW r \in ReturnIds
        PROVE  /\ refunds'[r].state = "standing" <=>
                     returns'[r].state = "standing" /\ returns'[r].cashRefund > 0
               /\ refunds'[r].state # "none" => refunds'[r].amount = returns'[r].cashRefund
    <3>0. /\ returns'[r].cashRefund \in Nat
          /\ refunds[r] \in RefundRows
          /\ refunds[r].state = "standing" <=>
                returns[r].state = "standing" /\ returns[r].cashRefund > 0
          /\ refunds[r].state # "none" => refunds[r].amount = returns[r].cashRefund
      BY BoundsAssumption
      DEF TypeOK, ReturnRows, Counts, LedgerInv, RefundStandsWithItsReturn
    <3>1. CASE WrittenNow(plan, date, withOrder, r)
      BY <3>0, <3>1 DEF WrittenNow, RefundOf, NoRefund
    <3>2. CASE TakenBackNow(plan, r)
      BY <3>0, <3>2 DEF TakenBackNow, RefundReversed, RefundRows
    <3>3. CASE LeftAlone(r)
      BY <3>0, <3>3 DEF LeftAlone
    <3> QED BY <1>3, <3>1, <3>2, <3>3
  <2> QED BY <2>1 DEF RefundStandsWithItsReturn
<1> QED BY <1>5, <1>6, <1>7 DEF LedgerInv

(* A new order has no rows yet: what stands, stands on other orders.        *)
LEMMA CreateOrderLedger ==
  ASSUME LedgerInv, TypeOK', NEW o \in OrderIds, NEW payment, NEW date, NEW requested,
         NEW deposit, NEW override,
         CreateOrder(o, payment, date, requested, deposit, override)
  PROVE  LedgerInv'
<1> DEFINE lent == Minus(requested, TakenFromOwed(owing, requested))
           row  == [state |-> "live", payment |-> payment, date |-> date,
                    quantity |-> lent, deposit |-> Priced(lent, deposit),
                    used |-> TakenFromOwed(owing, requested)]
<1>0. TypeOK
  BY DEF LedgerInv
<1>1. orders' = [orders EXCEPT ![o] = row] /\ orders[o].state = "none"
  BY DEF CreateOrder, NextFree
<1>2. row.state = "live"
  OBVIOUS
<1>3. UNCHANGED <<returns, refunds>>
  BY DEF CreateOrder
<1>4. PICK amount : IssuePayment(o, {}, amount)
  BY DEF CreateOrder
<1> HIDE DEF row
<1>5. /\ orders'[o].state = "live"
      /\ \A k \in OrderIds \ {o} : orders'[k] = orders[k]
  BY <1>0, <1>1, <1>2 DEF TypeOK
<1>6. Live' = Live \cup {o} /\ o \notin Live
  BY <1>1, <1>5 DEF Live
<1>7. ASSUME NEW p \in PaymentIds, payments'[p].state = "standing"
      PROVE  \/ payments'[p].order = o /\ payments'[p].automatic
             \/ payments'[p] = payments[p]
  BY <1>0, <1>4, <1>7, IssueKeepsPayments
<1>8. StandingOnLive'
  <2>1. \A k \in OrderIds : orders'[k].state = "cancelled" => orders'[k] = orders[k]
    BY <1>5
  <2> QED BY <1>3, <1>6, <1>7, <2>1 DEF LedgerInv, StandingOnLive, StandingReturns
<1>9. ActivityNotBeforeOrder'
  <2>1. \A k \in Live : orders'[k] = orders[k]
    BY <1>5, <1>6 DEF Live
  <2> QED BY <1>3, <1>7, <2>1
          DEF LedgerInv, StandingOnLive, ActivityNotBeforeOrder, StandingReturns
<1>10. RefundStandsWithItsReturn'
  BY <1>3 DEF LedgerInv, RefundStandsWithItsReturn
<1> QED BY <1>8, <1>9, <1>10 DEF LedgerInv

(* An order is dated on only past what happened on it.                      *)
LEMMA EditHeaderLedger ==
  ASSUME LedgerInv, TypeOK', NEW o \in OrderIds, NEW date \in Days, EditHeader(o, date)
  PROVE  LedgerInv'
<1> DEFINE row == [orders[o] EXCEPT !.date = date]
<1>0. TypeOK /\ orders[o] \in OrderRows
  BY DEF LedgerInv, TypeOK
<1>1. UNCHANGED <<returns, refunds, payments>>
  BY DEF EditHeader
<1>2. orders' = [orders EXCEPT ![o] = row]
  BY DEF EditHeader
<1>3. row.state = orders[o].state /\ row.date = date /\ row.used = orders[o].used
  BY <1>0 DEF OrderRows
<1> HIDE DEF row
<1>4. \A k \in OrderIds : /\ orders'[k].state = orders[k].state
                          /\ orders'[k].used = orders[k].used
                          /\ k # o => orders'[k].date = orders[k].date
  BY <1>0, <1>2, <1>3 DEF TypeOK
<1>5. Live' = Live
  BY <1>4 DEF Live
<1>6. StandingOnLive'
  BY <1>1, <1>4, <1>5 DEF LedgerInv, StandingOnLive, StandingReturns
<1>7. orders'[o].date = date
  BY <1>0, <1>2, <1>3 DEF TypeOK
<1>8. \/ date <= orders[o].date
      \/ DateAllowed(o, date)
  BY <1>0, DataAssumption DEF EditHeader, OrderRows
<1>9. ActivityNotBeforeOrder'
  <2>1. ASSUME NEW r \in ReturnIds, returns[r].state = "standing",
               NEW k \in OrderIds, k = returns[r].order \/ k = returns[r].withOrder
        PROVE  returns[r].date >= orders'[k].date
    <3>1. returns[r].date >= orders[k].date
      BY <2>1, BoundsAssumption
      DEF LedgerInv, ActivityNotBeforeOrder, StandingReturns, OrderIds
    <3>2. returns[r].date \in Int /\ orders[k].date \in Int /\ date \in Int
      BY <1>0, DataAssumption DEF TypeOK, ReturnRows, OrderRows
    <3>3. CASE k # o
      BY <1>4, <3>1, <3>3
    <3>4. CASE k = o /\ date <= orders[o].date
      BY <1>7, <3>1, <3>2, <3>4
    <3>5. CASE k = o /\ DateAllowed(o, date)
      BY <1>7, <2>1, <3>2, <3>5 DEF DateAllowed, ActivityReturns, StandingReturns
    <3> QED BY <1>8, <3>3, <3>4, <3>5
  <2>2. ASSUME NEW p \in PaymentIds, payments[p].state = "standing",
               ~payments[p].automatic
        PROVE  payments[p].date >= orders'[payments[p].order].date
    <3>1. /\ payments[p].date >= orders[payments[p].order].date
          /\ payments[p].order \in OrderIds
      BY <2>2 DEF LedgerInv, ActivityNotBeforeOrder, StandingOnLive, Live
    <3>2. /\ payments[p].date \in Int /\ date \in Int
          /\ orders[payments[p].order].date \in Int
      BY <1>0, <3>1, DataAssumption DEF TypeOK, PaymentRows, OrderRows
    <3>3. CASE payments[p].order # o
      BY <1>4, <3>1, <3>3
    <3>4. CASE payments[p].order = o /\ date <= orders[o].date
      BY <1>7, <3>1, <3>2, <3>4
    <3>5. CASE payments[p].order = o /\ DateAllowed(o, date)
      BY <1>7, <2>2, <3>2, <3>5 DEF DateAllowed, ManualPayments, PaymentsOf
    <3> QED BY <1>8, <3>3, <3>4, <3>5
  <2>3. ASSUME NEW r \in ReturnIds, returns[r].state = "standing"
        PROVE  /\ returns[r].order \in OrderIds
               /\ returns[r].withOrder # 0 => returns[r].withOrder \in OrderIds
    BY <2>3 DEF LedgerInv, StandingOnLive, StandingReturns, Live
  <2> QED BY <1>1, <2>1, <2>2, <2>3 DEF ActivityNotBeforeOrder, StandingReturns
<1>10. RefundStandsWithItsReturn'
  BY <1>1 DEF LedgerInv, RefundStandsWithItsReturn
<1> QED BY <1>6, <1>9, <1>10 DEF LedgerInv

(* An order nothing happened on carries at most its automatic payment.      *)
LEMMA NothingStands ==
  ASSUME NEW o, NoActivity(o)
  PROVE  /\ \A r \in StandingReturns : returns[r].order # o /\ returns[r].withOrder # o
         /\ \A p \in PaymentsOf(o) : payments[p].automatic /\ p \in StandingAutomatic(o)
<1>1. \A r \in StandingReturns : returns[r].order # o /\ returns[r].withOrder # o
  BY DEF NoActivity, ActivityReturns
<1>2. ASSUME NEW p \in PaymentsOf(o) PROVE payments[p].automatic
  BY DEF NoActivity, ManualPayments
<1> QED BY <1>1, <1>2 DEF StandingAutomatic

LEMMA EditLinesLedger ==
  ASSUME LedgerInv, TypeOK', NEW o \in OrderIds, NEW date, NEW requested, NEW deposit,
         NEW override, EditLines(o, date, requested, deposit, override)
  PROVE  LedgerInv'
<1> DEFINE used == TakenFromOwed(Plus([i \in Items |-> Owed(i)], orders[o].used), requested)
           lent == Minus(requested, used)
           row  == [orders[o] EXCEPT !.date = date, !.quantity = lent,
                                     !.deposit = Priced(lent, deposit), !.used = used]
<1>0. TypeOK /\ orders[o] \in OrderRows
  BY DEF LedgerInv, TypeOK
<1>1. /\ orders' = [orders EXCEPT ![o] = row] /\ orders[o].state = "live"
      /\ NoActivity(o)
      /\ UNCHANGED <<returns, refunds>>
  BY DEF EditLines, Live
<1>2. (\E amount : IssuePayment(o, StandingAutomatic(o), amount)) \/ UNCHANGED payments
  BY DEF EditLines
<1>3. row.state = "live"
  BY <1>0, <1>1 DEF OrderRows
<1> HIDE DEF row
<1>4. /\ orders'[o].state = "live"
      /\ \A k \in OrderIds \ {o} : orders'[k] = orders[k]
  BY <1>0, <1>1, <1>3 DEF TypeOK
<1>5. Live' = Live /\ o \in Live
  BY <1>1, <1>4 DEF Live
<1>6. ASSUME NEW p \in PaymentIds, payments'[p].state = "standing"
      PROVE  \/ payments'[p].order = o /\ payments'[p].automatic
             \/ payments'[p] = payments[p]
  BY <1>0, <1>2, <1>6, IssueKeepsPayments
<1>7. StandingOnLive'
  <2>1. \A k \in OrderIds : orders'[k].state = "cancelled" => orders'[k] = orders[k]
    BY <1>4
  <2> QED BY <1>1, <1>5, <1>6, <2>1 DEF LedgerInv, StandingOnLive, StandingReturns
<1>8. ActivityNotBeforeOrder'
  <2>1. ASSUME NEW r \in StandingReturns
        PROVE  /\ orders'[returns[r].order] = orders[returns[r].order]
               /\ returns[r].withOrder # 0 =>
                     orders'[returns[r].withOrder] = orders[returns[r].withOrder]
    BY <1>1, <1>4, NothingStands DEF LedgerInv, StandingOnLive, Live
  <2>2. ASSUME NEW p \in PaymentIds, payments'[p].state = "standing",
               ~payments'[p].automatic
        PROVE  payments'[p].date >= orders'[payments'[p].order].date
    <3>1. payments'[p] = payments[p]
      BY <1>6, <2>2
    <3>2. payments[p].order \in OrderIds /\ payments[p].order # o
      BY <1>1, <2>2, <3>1, NothingStands
      DEF LedgerInv, StandingOnLive, Live, PaymentsOf
    <3> QED BY <1>4, <2>2, <3>1, <3>2 DEF LedgerInv, ActivityNotBeforeOrder
  <2> QED BY <1>1, <2>1, <2>2 DEF LedgerInv, ActivityNotBeforeOrder, StandingReturns
<1>9. RefundStandsWithItsReturn'
  BY <1>1 DEF LedgerInv, RefundStandsWithItsReturn
<1> QED BY <1>7, <1>8, <1>9 DEF LedgerInv

(* Cancelling takes the automatic payment with it, and nothing else stood.  *)
LEMMA CancelOrderLedger ==
  ASSUME LedgerInv, TypeOK', NEW o \in OrderIds, CancelOrder(o)
  PROVE  LedgerInv'
<1> DEFINE row == [orders[o] EXCEPT !.state = "cancelled", !.used = [i \in Items |-> 0]]
<1>0. TypeOK /\ orders[o] \in OrderRows
  BY DEF LedgerInv, TypeOK
<1>1. /\ orders' = [orders EXCEPT ![o] = row]
      /\ NoActivity(o)
      /\ UNCHANGED <<returns, refunds>>
      /\ IssuePayment(o, StandingAutomatic(o), 0)
  BY DEF CancelOrder
<1>2. row.state = "cancelled" /\ row.used = [i \in Items |-> 0]
  BY <1>0 DEF OrderRows
<1> HIDE DEF row
<1>3. /\ orders'[o] = row
      /\ \A k \in OrderIds \ {o} : orders'[k] = orders[k]
  BY <1>0, <1>1 DEF TypeOK
<1>4. Live \ {o} \subseteq Live'
  BY <1>3 DEF Live
<1>5. ASSUME NEW p \in PaymentIds, payments'[p].state = "standing"
      PROVE  payments'[p] = payments[p] /\ payments[p].order # o
  <2>1. payments[p] \in PaymentRows
    BY <1>0 DEF TypeOK
  <2>2. [payments[p] EXCEPT !.state = "reversed"].state = "reversed"
    BY <2>1 DEF PaymentRows
  <2>3. p \notin StandingAutomatic(o) /\ payments'[p] = payments[p]
    <3>1. ~ Issued(o, 0, p)
      BY DEF Issued
    <3> QED BY <1>0, <1>1, <1>5, <2>2, <3>1, IssueEffect, ZenonT(60)
  <2> QED BY <1>1, <1>5, <2>3, NothingStands DEF PaymentsOf
<1>6. ASSUME NEW r \in StandingReturns
      PROVE  /\ returns[r].order \in Live \ {o}
             /\ returns[r].withOrder # 0 => returns[r].withOrder \in Live \ {o}
  BY <1>1, NothingStands DEF LedgerInv, StandingOnLive
<1>7. StandingOnLive'
  <2>1. ASSUME NEW k \in OrderIds, orders'[k].state = "cancelled", NEW i \in Items
        PROVE  orders'[k].used[i] = 0
    BY <1>2, <1>3, <2>1 DEF LedgerInv, StandingOnLive
  <2>2. ASSUME NEW p \in PaymentIds, payments'[p].state = "standing"
        PROVE  payments'[p].order \in Live'
    BY <1>4, <1>5, <2>2 DEF LedgerInv, StandingOnLive
  <2>3. StandingReturns' = StandingReturns
    BY <1>1 DEF StandingReturns
  <2> QED BY <1>1, <1>4, <1>6, <2>1, <2>2, <2>3 DEF StandingOnLive
<1>8. ActivityNotBeforeOrder'
  <2>1. \A k \in Live \ {o} : orders'[k] = orders[k]
    BY <1>3 DEF Live
  <2>2. ASSUME NEW p \in PaymentIds, payments'[p].state = "standing",
               ~payments'[p].automatic
        PROVE  payments'[p].date >= orders'[payments'[p].order].date
    <3>1. payments'[p] = payments[p] /\ payments[p].order \in Live \ {o}
      BY <1>5, <2>2 DEF LedgerInv, StandingOnLive
    <3> QED BY <2>1, <2>2, <3>1 DEF LedgerInv, ActivityNotBeforeOrder
  <2> QED BY <1>1, <1>6, <2>1, <2>2
          DEF LedgerInv, ActivityNotBeforeOrder, StandingReturns
<1>9. RefundStandsWithItsReturn'
  BY <1>1 DEF LedgerInv, RefundStandsWithItsReturn
<1> QED BY <1>7, <1>8, <1>9 DEF LedgerInv

LEMMA CreatePaymentLedger ==
  ASSUME LedgerInv, TypeOK', NEW p \in PaymentIds, NEW o \in OrderIds, NEW amount,
         NEW date, CreatePayment(p, o, amount, date)
  PROVE  LedgerInv'
<1>1. /\ UNCHANGED <<orders, returns, refunds>> /\ o \in Live /\ date >= orders[o].date
      /\ TypeOK
  BY DEF CreatePayment, LedgerInv
<1>2. /\ payments'[p].order = o /\ payments'[p].date = date
      /\ \A q \in PaymentIds \ {p} : payments'[q] = payments[q]
  BY <1>1 DEF CreatePayment, TypeOK
<1>3. Live' = Live
  BY <1>1 DEF Live
<1>4. StandingOnLive'
  BY <1>1, <1>2, <1>3 DEF LedgerInv, StandingOnLive, StandingReturns
<1>5. ActivityNotBeforeOrder'
  BY <1>1, <1>2 DEF LedgerInv, ActivityNotBeforeOrder, StandingReturns
<1>6. RefundStandsWithItsReturn'
  BY <1>1 DEF LedgerInv, RefundStandsWithItsReturn
<1> QED BY <1>4, <1>5, <1>6 DEF LedgerInv

LEMMA ReversePaymentLedger ==
  ASSUME LedgerInv, TypeOK', NEW p \in PaymentIds, ReversePayment(p)
  PROVE  LedgerInv'
<1>1. UNCHANGED <<orders, returns, refunds>> /\ TypeOK /\ payments[p] \in PaymentRows
  BY DEF ReversePayment, LedgerInv, TypeOK
<1>2. /\ payments'[p].state = "reversed"
      /\ \A q \in PaymentIds \ {p} : payments'[q] = payments[q]
  <2>1. payments' = [payments EXCEPT ![p] = [payments[p] EXCEPT !.state = "reversed"]]
    BY DEF ReversePayment
  <2> QED BY <1>1, <2>1 DEF TypeOK, PaymentRows
<1>3. Live' = Live
  BY <1>1 DEF Live
<1>4. StandingOnLive'
  BY <1>1, <1>2, <1>3 DEF LedgerInv, StandingOnLive, StandingReturns
<1>5. ActivityNotBeforeOrder'
  BY <1>1, <1>2 DEF LedgerInv, ActivityNotBeforeOrder, StandingReturns
<1>6. RefundStandsWithItsReturn'
  BY <1>1 DEF LedgerInv, RefundStandsWithItsReturn
<1> QED BY <1>4, <1>5, <1>6 DEF LedgerInv

LEMMA CreateReturnLedger ==
  ASSUME LedgerInv, TypeOK', NEW o, NEW body, NEW date, CreateReturn(o, body, date)
  PROVE  LedgerInv'
<1> DEFINE plan == [k \in {o} |-> [old |-> 0, body |-> body]]
<1>1. /\ WriteReturns(plan, date, 0, 0)
      /\ o \in Live /\ date >= orders[o].date
  BY DEF CreateReturn, Returnable, NotBeforeOrder
<1>2. DOMAIN plan = {o} /\ Written(plan) \subseteq {o}
  BY DEF Written
<1> HIDE DEF plan
<1> QED BY <1>1, <1>2, WriteReturnsLedger DEF WithOrderAllows

LEMMA CreateForCustomerLedger ==
  ASSUME LedgerInv, TypeOK', NEW bodies, NEW date, NEW withOrder, NEW extra,
         CreateForCustomer(bodies, date, withOrder, extra)
  PROVE  LedgerInv'
<1> DEFINE plan == [o \in DOMAIN bodies |-> [old |-> 0, body |-> bodies[o]]]
           visit == IF Cardinality(DOMAIN bodies) > 1 THEN FirstNew ELSE 0
<1>1. /\ WriteReturns(plan, date, withOrder, visit)
      /\ \A o \in DOMAIN bodies : o \in Live /\ date >= orders[o].date
      /\ WithOrderAllows(withOrder, date)
  BY DEF CreateForCustomer, Returnable, NotBeforeOrder
<1>2. DOMAIN plan = DOMAIN bodies /\ Written(plan) \subseteq DOMAIN bodies
  BY DEF Written
<1> HIDE DEF plan, visit
<1> QED BY <1>1, <1>2, WriteReturnsLedger

LEMMA DeleteReturnLedger ==
  ASSUME LedgerInv, TypeOK', NEW r \in ReturnIds, DeleteReturn(r)
  PROVE  LedgerInv'
<1> DEFINE plan == [k \in {returns[r].order} |-> [old |-> r, body |-> NoBody]]
<1>1. WriteReturns(plan, 0, 0, 0) /\ returns[r].order \in Live
  BY DEF DeleteReturn
<1>2. DOMAIN plan = {returns[r].order} /\ Written(plan) = {}
  BY DEF Written
<1> HIDE DEF plan
<1> QED BY <1>1, <1>2, WriteReturnsLedger DEF WithOrderAllows

LEMMA ReplaceReturnLedger ==
  ASSUME LedgerInv, TypeOK', NEW r \in ReturnIds, NEW body, NEW date,
         ReplaceReturn(r, body, date)
  PROVE  LedgerInv'
<1> DEFINE o == returns[r].order
           plan == [k \in {o} |-> [old |-> r, body |-> body]]
<1>1. /\ WriteReturns(plan, date, returns[r].withOrder, 0)
      /\ o \in Live /\ date >= orders[o].date
      /\ WithOrderAllows(returns[r].withOrder, date)
  BY DEF ReplaceReturn, Returnable, NotBeforeOrder
<1>2. DOMAIN plan = {o} /\ Written(plan) \subseteq {o}
  BY DEF Written
<1> HIDE DEF plan, o
<1> QED BY <1>1, <1>2, WriteReturnsLedger

(* An edit from the returns list covers the orders of the parts it takes    *)
(* back and those it names; what it writes, it writes on those it names.    *)
LEMMA ReplaceForCustomerLedger ==
  ASSUME LedgerInv, TypeOK', NEW r \in ReturnIds, NEW bodies, NEW date, NEW extra,
         ReplaceForCustomer(r, bodies, date, extra)
  PROVE  LedgerInv'
<1> DEFINE parts     == PartsOf(r)
           oldOrders == {returns[q].order : q \in parts}
           partOn(o) == CHOOSE q \in parts : returns[q].order = o
           plan      == [o \in oldOrders \cup DOMAIN bodies |->
                          [old  |-> IF o \in oldOrders THEN partOn(o) ELSE 0,
                           body |-> IF o \in DOMAIN bodies THEN bodies[o] ELSE NoBody]]
           withOrder == Max({0} \cup {returns[q].withOrder : q \in parts})
           visit     == IF Cardinality(Written(plan)) > 1 THEN FirstNew ELSE 0
<1>1. /\ WriteReturns(plan, date, withOrder, visit)
      /\ oldOrders \subseteq Live
      /\ WithOrderAllows(withOrder, date)
      /\ \A o \in DOMAIN bodies : o \in Live /\ date >= orders[o].date
  BY DEF ReplaceForCustomer, WriteEdit, Returnable, NotBeforeOrder
<1>2. DOMAIN plan = oldOrders \cup DOMAIN bodies /\ Written(plan) \subseteq DOMAIN bodies
  BY DEF Written
<1> HIDE DEF plan, withOrder, visit, oldOrders, partOn, parts
<1> QED BY <1>1, <1>2, WriteReturnsLedger

(* Handing pallets back, and archiving the customer, touch no ledger row.   *)
LEMMA NoLedgerRow ==
  ASSUME LedgerInv, TypeOK', UNCHANGED <<orders, returns, refunds, payments>>
  PROVE  LedgerInv'
BY DEF LedgerInv, StandingOnLive, ActivityNotBeforeOrder, RefundStandsWithItsReturn,
       StandingReturns, Live
-----------------------------------------------------------------------------
LEMMA LedgerStep == LedgerInv /\ [Next]_vars => LedgerInv'
<1> SUFFICES ASSUME LedgerInv, [Next]_vars PROVE LedgerInv'
  OBVIOUS
<1>0. TypeOK'
  BY StepTyped DEF LedgerInv
<1>1. CASE OrderStep
  BY <1>0, <1>1, CreateOrderLedger, EditHeaderLedger, EditLinesLedger DEF OrderStep
<1>2. CASE CancelStep
  BY <1>0, <1>2, CancelOrderLedger DEF CancelStep
<1>3. CASE ReturnStep
  BY <1>0, <1>3, CreateReturnLedger, CreateForCustomerLedger, ReplaceReturnLedger,
     ReplaceForCustomerLedger DEF ReturnStep, StandingReturns
<1>4. CASE DeleteStep
  BY <1>0, <1>4, DeleteReturnLedger DEF DeleteStep
<1>5. CASE PaymentStep
  BY <1>0, <1>5, CreatePaymentLedger, ReversePaymentLedger DEF PaymentStep
<1>6. CASE HandBackStep
  BY <1>0, <1>6, NoLedgerRow DEF HandBackStep, HandBack, UndoHandBack
<1>7. CASE ArchiveCustomer
  BY <1>0, <1>7, NoLedgerRow DEF ArchiveCustomer
<1>8. CASE UNCHANGED vars
  BY <1>0, <1>8, NoLedgerRow DEF vars
<1> QED BY <1>1, <1>2, <1>3, <1>4, <1>5, <1>6, <1>7, <1>8 DEF Next

LEMMA LedgerAlways == Spec => []LedgerInv
BY LedgerInitially, LedgerStep, PTL DEF Spec

(* Nothing stands on a cancelled order, whatever was recorded on it, or with*)
(* it, before: cancelOrder's activity check and its reversal of the         *)
(* automatic payment leave no other way.                                    *)
THEOREM CancelledOrdersHoldNothing == Spec => []CancelledHoldsNothing
<1>1. LedgerInv => CancelledHoldsNothing
  <2> SUFFICES ASSUME LedgerInv, NEW o \in OrderIds, orders[o].state = "cancelled"
               PROVE  /\ PaymentsOf(o) = {}
                      /\ \A r \in StandingReturns :
                            returns[r].order # o /\ returns[r].withOrder # o
                      /\ \A i \in Items : orders[o].used[i] = 0
    BY DEF CancelledHoldsNothing
  <2>1. o # 0 /\ o \notin Live
    BY BoundsAssumption DEF OrderIds, Live
  <2> QED BY <2>1 DEF LedgerInv, StandingOnLive, PaymentsOf
<1> QED BY <1>1, LedgerAlways, PTL

(* No re-dating of an order, no recording, no correction leaves anything    *)
(* that stands dated before its order, or before the order it came with.    *)
THEOREM NothingBeforeItsOrder == Spec => []ActivityNotBeforeOrder
<1>1. LedgerInv => ActivityNotBeforeOrder
  BY DEF LedgerInv
<1> QED BY <1>1, LedgerAlways, PTL

(* So an order's activity finds it live and dated no later, whatever is     *)
(* edited, re-dated, corrected or cancelled.                                *)
THEOREM ActivityKeepsToOrders == Spec => []ActivityKeepsToItsOrder
BY CancelledOrdersHoldNothing, NothingBeforeItsOrder, PTL DEF ActivityKeepsToItsOrder

(* The cash a return paid out stands in the ledger exactly as long as the   *)
(* return: a correction or deletion always takes its REFUND row with it.    *)
THEOREM RefundsStandWithReturns == Spec => []RefundStandsWithItsReturn
<1>1. LedgerInv => RefundStandsWithItsReturn
  BY DEF LedgerInv
<1> QED BY <1>1, LedgerAlways, PTL
-----------------------------------------------------------------------------
(* The figures of an order depend on its own row, its standing returns'     *)
(* bodies, and the amounts of its standing payments and refunds.            *)
LEMMA TotalsFrame ==
  ASSUME NEW o,
         orders'[o] = orders[o],
         ReturnsOf(o)' = ReturnsOf(o),
         \A r \in ReturnsOf(o) : returns'[r] = returns[r],
         PaymentsOf(o)' = PaymentsOf(o),
         \A p \in PaymentsOf(o) : payments'[p] = payments[p],
         RefundsOf(o)' = RefundsOf(o),
         \A r \in RefundsOf(o) : refunds'[r] = refunds[r]
  PROVE  TotalsOf(o)' = TotalsOf(o)
<1>1. (ReturnsOf(o) \ {})' = ReturnsOf(o) \ {}
  OBVIOUS
<1>2. [r \in ReturnsOf(o) \ {} |-> returns'[r].body]
        = [r \in ReturnsOf(o) \ {} |-> returns[r].body]
  OBVIOUS
<1>3. PaidOn(o)' = PaidOn(o)
  <2>1. [p \in PaymentsOf(o) |-> payments'[p].amount]
          = [p \in PaymentsOf(o) |-> payments[p].amount]
    OBVIOUS
  <2> QED BY <2>1 DEF PaidOn
<1>4. RefundedOn(o, {})' = RefundedOn(o, {})
  <2>1. [r \in RefundsOf(o) \ {} |-> refunds'[r].amount]
          = [r \in RefundsOf(o) \ {} |-> refunds[r].amount]
    OBVIOUS
  <2> QED BY <2>1 DEF RefundedOn
<1> QED BY <1>1, <1>2, <1>3, <1>4 DEF TotalsOf, TotalsWithout

(* A handler that recomputes the orders S leaves the figures right when it  *)
(* left the rows of all other orders alone.                                 *)
LEMMA RecomputedFigures ==
  ASSUME CacheIsRecomputation, NEW S, RecomputeOrders(S),
         \A o \in OrderIds \ S : /\ orders'[o] = orders[o]
                                 /\ orders[o].state # "none" => TotalsOf(o)' = TotalsOf(o)
  PROVE  CacheIsRecomputation'
<1> SUFFICES ASSUME NEW o \in OrderIds, orders'[o].state # "none"
             PROVE  cache'[o] = TotalsOf(o)'
  BY DEF CacheIsRecomputation
<1>1. CASE o \in S
  BY <1>1 DEF RecomputeOrders
<1>2. CASE o \notin S
  BY <1>2 DEF RecomputeOrders, CacheIsRecomputation
<1> QED BY <1>1, <1>2

LEMMA ReturnsUntouched ==
  ASSUME UNCHANGED <<returns, refunds>>, NEW o
  PROVE  /\ ReturnsOf(o)' = ReturnsOf(o) /\ RefundsOf(o)' = RefundsOf(o)
         /\ \A r \in ReturnsOf(o) : returns'[r] = returns[r]
         /\ \A r \in RefundsOf(o) : refunds'[r] = refunds[r]
BY DEF ReturnsOf, RefundsOf, StandingReturns

(* Issuing and reversing an order's own payments touches no other order's.  *)
LEMMA IssueTouchesOwn ==
  ASSUME TypeOK, NEW o \in OrderIds, NEW reversed, NEW amount,
         reversed \subseteq PaymentsOf(o), IssuePayment(o, reversed, amount),
         NEW k \in OrderIds \ {o}
  PROVE  /\ PaymentsOf(k)' = PaymentsOf(k)
         /\ \A p \in PaymentsOf(k) : payments'[p] = payments[p]
<1>1. ASSUME NEW p \in PaymentsOf(k) PROVE p \in PaymentIds /\ payments'[p] = payments[p]
  BY IssueEffect DEF PaymentsOf, Issued
<1>2. ASSUME NEW p \in PaymentIds, payments'[p].state = "standing", payments'[p].order = k
      PROVE  p \in PaymentsOf(k)
  BY <1>2, IssueKeepsPayments DEF PaymentsOf
<1> QED BY <1>1, <1>2 DEF PaymentsOf
-----------------------------------------------------------------------------
LEMMA CreateOrderFigures ==
  ASSUME TypeOK, CacheIsRecomputation, NEW o \in OrderIds, NEW payment, NEW date,
         NEW requested, NEW deposit, NEW override,
         CreateOrder(o, payment, date, requested, deposit, override)
  PROVE  CacheIsRecomputation'
<1>1. RecomputeOrders({o}) /\ UNCHANGED <<returns, refunds>>
  BY DEF CreateOrder
<1>2. PICK amount : IssuePayment(o, {}, amount)
  BY DEF CreateOrder
<1>3. PICK row : orders' = [orders EXCEPT ![o] = row]
  BY DEF CreateOrder
<1>4. ASSUME NEW k \in OrderIds \ {o}
      PROVE  orders'[k] = orders[k] /\ TotalsOf(k)' = TotalsOf(k)
  <2>1. orders'[k] = orders[k]
    BY <1>3 DEF TypeOK
  <2>2. /\ PaymentsOf(k)' = PaymentsOf(k)
        /\ \A p \in PaymentsOf(k) : payments'[p] = payments[p]
    BY <1>2, IssueTouchesOwn
  <2> QED BY <1>1, <2>1, <2>2, ReturnsUntouched, TotalsFrame
<1> QED BY <1>1, <1>4, RecomputedFigures

LEMMA EditHeaderFigures ==
  ASSUME TypeOK, CacheIsRecomputation, NEW o \in OrderIds, NEW date, EditHeader(o, date)
  PROVE  CacheIsRecomputation'
<1>1. RecomputeOrders({o}) /\ UNCHANGED <<returns, refunds, payments>>
  BY DEF EditHeader
<1>2. ASSUME NEW k \in OrderIds \ {o}
      PROVE  orders'[k] = orders[k] /\ TotalsOf(k)' = TotalsOf(k)
  <2>1. orders'[k] = orders[k]
    BY DEF TypeOK, EditHeader
  <2>2. /\ PaymentsOf(k)' = PaymentsOf(k)
        /\ \A p \in PaymentsOf(k) : payments'[p] = payments[p]
    BY <1>1 DEF PaymentsOf
  <2> QED BY <1>1, <2>1, <2>2, ReturnsUntouched, TotalsFrame
<1> QED BY <1>1, <1>2, RecomputedFigures

LEMMA EditLinesFigures ==
  ASSUME TypeOK, CacheIsRecomputation, NEW o \in OrderIds, NEW date, NEW requested,
         NEW deposit, NEW override, EditLines(o, date, requested, deposit, override)
  PROVE  CacheIsRecomputation'
<1>1. RecomputeOrders({o}) /\ UNCHANGED <<returns, refunds>>
  BY DEF EditLines
<1>2. (\E amount : IssuePayment(o, StandingAutomatic(o), amount)) \/ UNCHANGED payments
  BY DEF EditLines
<1>3. PICK row : orders' = [orders EXCEPT ![o] = row]
  BY DEF EditLines
<1>4. ASSUME NEW k \in OrderIds \ {o}
      PROVE  orders'[k] = orders[k] /\ TotalsOf(k)' = TotalsOf(k)
  <2>1. orders'[k] = orders[k]
    BY <1>3 DEF TypeOK
  <2>2. StandingAutomatic(o) \subseteq PaymentsOf(o)
    BY DEF StandingAutomatic
  <2>3. /\ PaymentsOf(k)' = PaymentsOf(k)
        /\ \A p \in PaymentsOf(k) : payments'[p] = payments[p]
    <3>1. CASE UNCHANGED payments
      BY <3>1 DEF PaymentsOf
    <3> QED BY <1>2, <2>2, <3>1, IssueTouchesOwn
  <2> QED BY <1>1, <2>1, <2>3, ReturnsUntouched, TotalsFrame
<1> QED BY <1>1, <1>4, RecomputedFigures

LEMMA CancelOrderFigures ==
  ASSUME TypeOK, CacheIsRecomputation, NEW o \in OrderIds, CancelOrder(o)
  PROVE  CacheIsRecomputation'
<1>1. /\ RecomputeOrders({o}) /\ UNCHANGED <<returns, refunds>>
      /\ IssuePayment(o, StandingAutomatic(o), 0)
  BY DEF CancelOrder
<1>2. ASSUME NEW k \in OrderIds \ {o}
      PROVE  orders'[k] = orders[k] /\ TotalsOf(k)' = TotalsOf(k)
  <2>1. orders'[k] = orders[k]
    BY DEF TypeOK, CancelOrder
  <2>2. StandingAutomatic(o) \subseteq PaymentsOf(o)
    BY DEF StandingAutomatic
  <2>3. /\ PaymentsOf(k)' = PaymentsOf(k)
        /\ \A p \in PaymentsOf(k) : payments'[p] = payments[p]
    BY <1>1, <2>2, IssueTouchesOwn
  <2> QED BY <1>1, <2>1, <2>3, ReturnsUntouched, TotalsFrame
<1> QED BY <1>1, <1>2, RecomputedFigures

LEMMA PaymentFigures ==
  ASSUME TypeOK, CacheIsRecomputation, NEW o, NEW p \in PaymentIds,
         RecomputeOrders({o}), UNCHANGED <<orders, returns, refunds>>,
         payments[p].state = "none" \/ payments[p].order = o,
         payments'[p].order = o,
         \A q \in PaymentIds \ {p} : payments'[q] = payments[q]
  PROVE  CacheIsRecomputation'
<1>1. ASSUME NEW k \in OrderIds \ {o}
      PROVE  TotalsOf(k)' = TotalsOf(k)
  <2>1. /\ PaymentsOf(k)' = PaymentsOf(k)
        /\ \A q \in PaymentsOf(k) : payments'[q] = payments[q]
    BY DEF PaymentsOf
  <2> QED BY <2>1, ReturnsUntouched, TotalsFrame
<1> QED BY <1>1, RecomputedFigures

LEMMA CreatePaymentFigures ==
  ASSUME TypeOK, CacheIsRecomputation, NEW p \in PaymentIds, NEW o \in OrderIds,
         NEW amount, NEW date, CreatePayment(p, o, amount, date)
  PROVE  CacheIsRecomputation'
<1>1. /\ payments'[p].order = o
      /\ \A q \in PaymentIds \ {p} : payments'[q] = payments[q]
  BY DEF CreatePayment, TypeOK
<1> QED BY <1>1, PaymentFigures DEF CreatePayment, NextFree

LEMMA ReversePaymentFigures ==
  ASSUME TypeOK, CacheIsRecomputation, NEW p \in PaymentIds, ReversePayment(p)
  PROVE  CacheIsRecomputation'
<1>1. payments' = [payments EXCEPT ![p] = [payments[p] EXCEPT !.state = "reversed"]]
  BY DEF ReversePayment
<1>2. payments[p] \in PaymentRows
  BY DEF TypeOK
<1>3. /\ payments'[p].order = payments[p].order
      /\ \A q \in PaymentIds \ {p} : payments'[q] = payments[q]
  BY <1>1, <1>2 DEF TypeOK, PaymentRows
<1> QED BY <1>3, PaymentFigures DEF ReversePayment, Recomputed
(* A plan touches the returns and refunds of no order it does not cover.    *)
LEMMA WriteReturnsFigures ==
  ASSUME LedgerInv, CacheIsRecomputation, NEW plan, DOMAIN plan \subseteq OrderIds,
         \A q \in TakenBack(plan) \cap ReturnIds : returns[q].order \in DOMAIN plan,
         NEW date, NEW withOrder, NEW visit,
         WriteReturns(plan, date, withOrder, visit)
  PROVE  CacheIsRecomputation'
<1>1. RecomputeOrders(DOMAIN plan) /\ UNCHANGED <<orders, payments>>
  BY DEF WriteReturns
<1>2. ASSUME NEW r \in ReturnIds
      PROVE  \/ WrittenNow(plan, date, withOrder, r)
             \/ TakenBackNow(plan, r)
             \/ LeftAlone(r)
  BY WriteReturnsEffect DEF LedgerInv
<1>3. Written(plan) \subseteq DOMAIN plan
  BY DEF Written
<1>4. ASSUME NEW k \in OrderIds \ DOMAIN plan
      PROVE  TotalsOf(k)' = TotalsOf(k)
  <2>1. ASSUME NEW r \in ReturnIds, returns[r].order = k, returns[r].state = "standing"
        PROVE  LeftAlone(r)
    BY <1>2, <2>1 DEF WrittenNow, TakenBackNow
  <2>2. ASSUME NEW r \in ReturnIds, returns'[r].order = k
        PROVE  LeftAlone(r)
    BY <1>2, <1>3, <2>2 DEF WrittenNow, TakenBackNow
  <2>3. \A r \in RefundsOf(k) : returns[r].state = "standing"
    BY DEF RefundsOf, LedgerInv, RefundStandsWithItsReturn
  <2>4. /\ ReturnsOf(k)' = ReturnsOf(k)
        /\ \A r \in ReturnsOf(k) : returns'[r] = returns[r]
    BY <2>1, <2>2 DEF ReturnsOf, StandingReturns, LeftAlone
  <2>5. /\ RefundsOf(k)' = RefundsOf(k)
        /\ \A r \in RefundsOf(k) : refunds'[r] = refunds[r]
    BY <2>1, <2>2, <2>3 DEF RefundsOf, LeftAlone
  <2>6. /\ PaymentsOf(k)' = PaymentsOf(k)
        /\ \A p \in PaymentsOf(k) : payments'[p] = payments[p]
    BY <1>1 DEF PaymentsOf
  <2> QED BY <1>1, <2>4, <2>5, <2>6, TotalsFrame
<1> QED BY <1>1, <1>4, RecomputedFigures

LEMMA CreateReturnFigures ==
  ASSUME LedgerInv, CacheIsRecomputation, NEW o \in OrderIds, NEW body, NEW date,
         CreateReturn(o, body, date)
  PROVE  CacheIsRecomputation'
<1> DEFINE plan == [k \in {o} |-> [old |-> 0, body |-> body]]
<1>1. WriteReturns(plan, date, 0, 0)
  BY DEF CreateReturn
<1>2. DOMAIN plan = {o} /\ TakenBack(plan) = {}
  BY DEF TakenBack
<1> HIDE DEF plan
<1> QED BY <1>1, <1>2, WriteReturnsFigures

LEMMA CreateForCustomerFigures ==
  ASSUME LedgerInv, CacheIsRecomputation, NEW bodies, NEW date, NEW withOrder, NEW extra,
         CreateForCustomer(bodies, date, withOrder, extra)
  PROVE  CacheIsRecomputation'
<1> DEFINE plan == [o \in DOMAIN bodies |-> [old |-> 0, body |-> bodies[o]]]
           visit == IF Cardinality(DOMAIN bodies) > 1 THEN FirstNew ELSE 0
<1>1. /\ WriteReturns(plan, date, withOrder, visit)
      /\ DOMAIN bodies \subseteq OrderIds
  BY DEF CreateForCustomer, Returnable, Live
<1>2. DOMAIN plan = DOMAIN bodies /\ TakenBack(plan) = {}
  BY DEF TakenBack
<1> HIDE DEF plan, visit
<1> QED BY <1>1, <1>2, WriteReturnsFigures

LEMMA DeleteReturnFigures ==
  ASSUME LedgerInv, CacheIsRecomputation, NEW r \in ReturnIds, DeleteReturn(r)
  PROVE  CacheIsRecomputation'
<1> DEFINE plan == [k \in {returns[r].order} |-> [old |-> r, body |-> NoBody]]
<1>1. WriteReturns(plan, 0, 0, 0) /\ returns[r].order \in OrderIds
  BY DEF DeleteReturn, Live
<1>2. DOMAIN plan = {returns[r].order} /\ TakenBack(plan) \subseteq {r}
  BY DEF TakenBack
<1> HIDE DEF plan
<1> QED BY <1>1, <1>2, WriteReturnsFigures

LEMMA ReplaceReturnFigures ==
  ASSUME LedgerInv, CacheIsRecomputation, NEW r \in ReturnIds, NEW body, NEW date,
         ReplaceReturn(r, body, date)
  PROVE  CacheIsRecomputation'
<1> DEFINE plan == [k \in {returns[r].order} |-> [old |-> r, body |-> body]]
<1>1. /\ WriteReturns(plan, date, returns[r].withOrder, 0)
      /\ returns[r].order \in OrderIds
  BY DEF ReplaceReturn, Returnable, Live
<1>2. DOMAIN plan = {returns[r].order} /\ TakenBack(plan) \subseteq {r}
  BY DEF TakenBack
<1> HIDE DEF plan
<1> QED BY <1>1, <1>2, WriteReturnsFigures

LEMMA ReplaceForCustomerFigures ==
  ASSUME LedgerInv, CacheIsRecomputation, NEW r \in ReturnIds, NEW bodies, NEW date,
         NEW extra, ReplaceForCustomer(r, bodies, date, extra)
  PROVE  CacheIsRecomputation'
<1> DEFINE parts     == PartsOf(r)
           oldOrders == {returns[q].order : q \in parts}
           partOn(o) == CHOOSE q \in parts : returns[q].order = o
           plan      == [o \in oldOrders \cup DOMAIN bodies |->
                          [old  |-> IF o \in oldOrders THEN partOn(o) ELSE 0,
                           body |-> IF o \in DOMAIN bodies THEN bodies[o] ELSE NoBody]]
           withOrder == Max({0} \cup {returns[q].withOrder : q \in parts})
           visit     == IF Cardinality(Written(plan)) > 1 THEN FirstNew ELSE 0
<1>1. /\ WriteReturns(plan, date, withOrder, visit)
      /\ oldOrders \subseteq OrderIds /\ DOMAIN bodies \subseteq OrderIds
  BY DEF ReplaceForCustomer, WriteEdit, Returnable, Live
<1>2. \A o \in oldOrders : partOn(o) \in parts
  OBVIOUS
<1>3. DOMAIN plan = oldOrders \cup DOMAIN bodies
  OBVIOUS
<1>4. \A q \in TakenBack(plan) : q \in parts
  <2> HIDE DEF partOn, oldOrders, parts
  <2> QED BY <1>2 DEF TakenBack
<1>5. \A q \in TakenBack(plan) \cap ReturnIds : returns[q].order \in DOMAIN plan
  BY <1>3, <1>4
<1> HIDE DEF plan, withOrder, visit, oldOrders, partOn, parts
<1> QED BY <1>1, <1>3, <1>5, WriteReturnsFigures

LEMMA NoFigures ==
  ASSUME CacheIsRecomputation, UNCHANGED <<orders, returns, refunds, payments, cache>>
  PROVE  CacheIsRecomputation'
<1>1. ASSUME NEW o \in OrderIds PROVE TotalsOf(o)' = TotalsOf(o)
  <2>1. /\ PaymentsOf(o)' = PaymentsOf(o)
        /\ \A p \in PaymentsOf(o) : payments'[p] = payments[p]
    BY DEF PaymentsOf
  <2> QED BY <2>1, ReturnsUntouched, TotalsFrame
<1> QED BY <1>1 DEF CacheIsRecomputation
-----------------------------------------------------------------------------
LEMMA FiguresInitially == Init => CacheIsRecomputation
BY DEF Init, CacheIsRecomputation, NoOrder

LEMMA FiguresStep == LedgerInv /\ CacheIsRecomputation /\ [Next]_vars => CacheIsRecomputation'
<1> SUFFICES ASSUME LedgerInv, CacheIsRecomputation, [Next]_vars
             PROVE  CacheIsRecomputation'
  OBVIOUS
<1>0. TypeOK
  BY DEF LedgerInv
<1>1. CASE OrderStep
  BY <1>0, <1>1, CreateOrderFigures, EditHeaderFigures, EditLinesFigures DEF OrderStep
<1>2. CASE CancelStep
  BY <1>0, <1>2, CancelOrderFigures DEF CancelStep
<1>3. CASE ReturnStep
  BY <1>3, CreateReturnFigures, CreateForCustomerFigures, ReplaceReturnFigures,
     ReplaceForCustomerFigures DEF ReturnStep, StandingReturns, Live
<1>4. CASE DeleteStep
  BY <1>4, DeleteReturnFigures DEF DeleteStep
<1>5. CASE PaymentStep
  BY <1>0, <1>5, CreatePaymentFigures, ReversePaymentFigures DEF PaymentStep
<1>6. CASE HandBackStep
  BY <1>6, NoFigures DEF HandBackStep, HandBack, UndoHandBack
<1>7. CASE ArchiveCustomer
  BY <1>7, NoFigures DEF ArchiveCustomer
<1>8. CASE UNCHANGED vars
  BY <1>8, NoFigures DEF vars
<1> QED BY <1>1, <1>2, <1>3, <1>4, <1>5, <1>6, <1>7, <1>8 DEF Next

(* No handler leaves an order whose rows it changed without its figures     *)
(* recomputed, nor recomputes them from rows it has yet to change.          *)
THEOREM FiguresFollowRows == Spec => []CacheIsRecomputation
BY FiguresInitially, FiguresStep, LedgerAlways, PTL DEF Spec

-----------------------------------------------------------------------------
(* An order that lends any of an item it was asked for took all there was.  *)
LEMMA LentOnlyAfterTaken ==
  ASSUME NEW available \in [Items -> Int], NEW requested \in Requests, NEW i \in Items,
         Minus(requested, TakenFromOwed(available, requested))[i] > 0
  PROVE  TakenFromOwed(available, requested)[i] = ZeroOrMore(available[i])
BY BoundsAssumption DEF TakenFromOwed, Minus, LesserOf, ZeroOrMore, Requests

LEMMA CreateOrderTakesFirst ==
  ASSUME TypeOK, NEW o \in OrderIds, NEW payment, NEW date, NEW requested \in Requests,
         NEW deposit, NEW override,
         CreateOrder(o, payment, date, requested, deposit, override),
         NEW k \in OrderIds, NEW i \in Items,
         orders'[k].quantity[i] > orders[k].quantity[i]
  PROVE  Owed(i)' = 0
<1> DEFINE used == TakenFromOwed(owing, requested)
           lent == Minus(requested, used)
           row  == [state |-> "live", payment |-> payment, date |-> date,
                    quantity |-> lent, deposit |-> Priced(lent, deposit), used |-> used]
<1>1. /\ orders' = [orders EXCEPT ![o] = row]
      /\ owing' = [j \in Items |-> owing[j] + -used[j]]
  BY DEF CreateOrder, WriteCredits
<1>2. row.quantity = lent
  OBVIOUS
<1> HIDE DEF row, lent
<1>3. \A q \in OrderIds : orders[q].quantity \in [Items -> 0 .. MaxQuantity]
  BY DEF TypeOK, OrderRows
<1>4. k = o /\ orders'[o].quantity = lent
  <2>1. orders[k].quantity[i] \in Int
    BY <1>3
  <2> QED BY <1>1, <1>2, <2>1 DEF TypeOK
<1>5. orders[o].quantity[i] >= 0 /\ lent[i] \in Int
  BY <1>3, TakenIsPart DEF TypeOK, Figures, lent
<1>6. lent[i] > 0
  <2>1. orders[o].quantity[i] \in Int
    BY <1>3
  <2> QED BY <1>4, <1>5, <2>1
<1>7. used[i] = ZeroOrMore(owing[i])
  BY <1>6, LentOnlyAfterTaken DEF TypeOK, Figures, lent
<1>8. owing[i] \in Int
  BY DEF TypeOK, Figures
<1> HIDE DEF used
<1> QED BY <1>1, <1>7, <1>8 DEF Owed, ZeroOrMore

LEMMA EditLinesTakesFirst ==
  ASSUME TypeOK, NEW o \in OrderIds, NEW date, NEW requested \in Requests,
         NEW deposit, NEW override, EditLines(o, date, requested, deposit, override),
         NEW k \in OrderIds, NEW i \in Items,
         orders'[k].quantity[i] > orders[k].quantity[i]
  PROVE  Owed(i)' = 0
<1> DEFINE before == orders[o]
           available == Plus([j \in Items |-> Owed(j)], before.used)
           used == TakenFromOwed(available, requested)
           lent == Minus(requested, used)
           row  == [before EXCEPT !.date = date, !.quantity = lent,
                                  !.deposit = Priced(lent, deposit), !.used = used]
<1>0. before \in OrderRows /\ owing[i] \in Int
  BY DEF TypeOK, Figures
<1>1. /\ orders' = [orders EXCEPT ![o] = row]
      /\ owing' = [j \in Items |-> owing[j] + Minus(before.used, used)[j]]
  BY DEF EditLines, WriteCredits
<1>2. row.quantity = lent
  BY <1>0 DEF OrderRows
<1>3. available \in [Items -> Int]
  BY <1>0, BoundsAssumption DEF TypeOK, Plus, Owed, ZeroOrMore, Figures, OrderRows
<1> HIDE DEF row
<1>4. \A q \in OrderIds : orders[q].quantity \in [Items -> 0 .. MaxQuantity]
  BY DEF TypeOK, OrderRows
<1>5. orders[k].quantity[i] \in Int /\ orders[k].quantity[i] >= 0
  BY <1>4
<1>6. k = o /\ orders'[o].quantity = lent
  <2> HIDE DEF lent
  <2> QED BY <1>1, <1>2, <1>5 DEF TypeOK
<1>7. lent[i] \in Int
  BY <1>3, TakenIsPart
<1>8. lent[i] > 0
  <2> HIDE DEF lent
  <2> QED BY <1>5, <1>6, <1>7
<1>9. used[i] = ZeroOrMore(available[i])
  BY <1>3, <1>8, LentOnlyAfterTaken
<1>10. available[i] = Owed(i) + before.used[i] /\ before.used[i] \in Nat
  BY <1>0, BoundsAssumption DEF Plus, OrderRows
<1>11. used[i] = Owed(i) + before.used[i]
  <2> HIDE DEF available, used, before
  <2> QED BY <1>0, <1>9, <1>10 DEF Owed, ZeroOrMore
<1>12. owing'[i] = owing[i] - Owed(i)
  <2>1. owing'[i] = owing[i] + (before.used[i] - used[i])
    BY <1>1 DEF Minus
  <2> HIDE DEF used, before, available
  <2> QED BY <1>0, <1>10, <1>11, <2>1 DEF Owed, ZeroOrMore
<1> QED BY <1>0, <1>12 DEF Owed, ZeroOrMore

(* Of the pallets an order hands over, those owed go out first: whenever a  *)
(* step lends more of an item, none of it is owed any more.                 *)
THEOREM OwedFirst == Spec => OwedGoesOutFirst
<1> DEFINE Lends(o, i) == orders'[o].quantity[i] > orders[o].quantity[i]
<1>1. TypeOK /\ [Next]_vars => [\A o \in OrderIds, i \in Items : Lends(o, i) => Owed(i)' = 0]_vars
  <2> SUFFICES ASSUME TypeOK, Next, NEW k \in OrderIds, NEW i \in Items, Lends(k, i)
               PROVE  Owed(i)' = 0
    OBVIOUS
  <2>1. \A q \in OrderIds : orders[q].quantity[i] \in Int
    BY DEF TypeOK, OrderRows
  <2>2. ~ UNCHANGED orders
    BY <2>1
  <2>3. ASSUME NEW o \in OrderIds, NEW row, orders' = [orders EXCEPT ![o] = row],
               row.quantity = orders[o].quantity
        PROVE  FALSE
    BY <2>1, <2>3 DEF TypeOK
  <2>4. CASE OrderStep
    <3>1. ASSUME NEW o \in OrderIds, NEW date \in Days, EditHeader(o, date) PROVE FALSE
      <4>1. [orders[o] EXCEPT !.date = date].quantity = orders[o].quantity
        BY DEF TypeOK, OrderRows
      <4>2. orders' = [orders EXCEPT ![o] = [orders[o] EXCEPT !.date = date]]
        BY <3>1 DEF EditHeader
      <4> QED BY <2>3, <4>1, <4>2
    <3> QED BY <2>4, <3>1, CreateOrderTakesFirst, EditLinesTakesFirst DEF OrderStep
  <2>5. CASE CancelStep
    <3>1. PICK o \in OrderIds : CancelOrder(o)
      BY <2>5 DEF CancelStep
    <3> DEFINE row == [orders[o] EXCEPT !.state = "cancelled", !.used = [j \in Items |-> 0]]
    <3>2. orders[o] \in OrderRows
      BY DEF TypeOK
    <3>3. row.quantity = orders[o].quantity
      BY <3>2 DEF OrderRows
    <3>4. orders' = [orders EXCEPT ![o] = row]
      BY <3>1 DEF CancelOrder
    <3> QED BY <2>3, <3>3, <3>4
  <2>6. CASE ReturnStep \/ DeleteStep
    <3>1. ASSUME NEW o, NEW body, NEW date, CreateReturn(o, body, date)
          PROVE  UNCHANGED orders
      BY <3>1 DEF CreateReturn, WriteReturns
    <3>2. ASSUME NEW bodies, NEW date, NEW withOrder, NEW extra,
                 CreateForCustomer(bodies, date, withOrder, extra)
          PROVE  UNCHANGED orders
      BY <3>2 DEF CreateForCustomer, WriteReturns
    <3>3. ASSUME NEW r, NEW body, NEW date, ReplaceReturn(r, body, date)
          PROVE  UNCHANGED orders
      BY <3>3 DEF ReplaceReturn, WriteReturns
    <3>4. ASSUME NEW r, NEW bodies, NEW date, NEW extra,
                 ReplaceForCustomer(r, bodies, date, extra)
          PROVE  UNCHANGED orders
      BY <3>4 DEF ReplaceForCustomer, WriteEdit, WriteReturns
    <3>5. ASSUME NEW r, DeleteReturn(r) PROVE UNCHANGED orders
      BY <3>5 DEF DeleteReturn, WriteReturns
    <3> QED BY <2>2, <2>6, <3>1, <3>2, <3>3, <3>4, <3>5 DEF ReturnStep, DeleteStep
  <2>7. CASE PaymentStep \/ HandBackStep \/ ArchiveCustomer
    BY <2>2, <2>7 DEF PaymentStep, HandBackStep, ArchiveCustomer, CreatePayment,
       ReversePayment, HandBack, UndoHandBack
  <2> QED BY <2>4, <2>5, <2>6, <2>7 DEF Next
<1> QED BY <1>1, LendingTyped, PTL DEF Spec, OwedGoesOutFirst
-----------------------------------------------------------------------------
(* The payments of an order are one automatic payment of `total`, or none   *)
(* when there is nothing to pay.                                            *)
PaidInFull(o, total) ==
    \/ total = 0 /\ PaymentsOf(o) = {}
    \/ /\ total > 0
       /\ \E p \in PaymentIds : /\ PaymentsOf(o) = {p}
                                /\ payments[p].automatic
                                /\ payments[p].amount = total

CashInv == \A o \in Live : orders[o].payment = "CASH" =>
                PaidInFull(o, DepositTotal(orders[o]))

LEMMA CashInvSuffices == CashInv => CashPaidAutomatically
<1> SUFFICES ASSUME CashInv, NEW o \in Live, orders[o].payment = "CASH"
             PROVE  /\ \A p \in PaymentsOf(o) :
                          /\ payments[p].automatic
                          /\ payments[p].amount = DepositTotal(orders[o])
                    /\ Cardinality(PaymentsOf(o)) =
                          IF DepositTotal(orders[o]) > 0 THEN 1 ELSE 0
  BY DEF CashPaidAutomatically
<1>1. PaidInFull(o, DepositTotal(orders[o]))
  BY DEF CashInv
<1>2. CASE DepositTotal(orders[o]) = 0 /\ PaymentsOf(o) = {}
  <2>1. Cardinality(PaymentsOf(o)) = 0
    BY <1>2, FS_EmptySet
  <2> QED BY <1>2, <2>1
<1>3. ASSUME NEW p \in PaymentIds, PaymentsOf(o) = {p}, payments[p].automatic,
             payments[p].amount = DepositTotal(orders[o]), DepositTotal(orders[o]) > 0
      PROVE  /\ \A q \in PaymentsOf(o) :
                   payments[q].automatic /\ payments[q].amount = DepositTotal(orders[o])
             /\ Cardinality(PaymentsOf(o)) = 1
  BY <1>3, FS_Singleton
<1> QED BY <1>1, <1>2, <1>3 DEF PaidInFull

(* Deposits depend on an order's lines alone.                               *)
LEMMA DepositOfLines ==
  ASSUME NEW a, NEW b, a.quantity = b.quantity, a.deposit = b.deposit
  PROVE  DepositTotal(a) = DepositTotal(b)
BY DEF DepositTotal

(* Reversing all that stood and issuing the total leaves it paid in full.   *)
LEMMA IssuedInFull ==
  ASSUME TypeOK, NEW o \in OrderIds, NEW reversed, NEW total \in Counts,
         PaymentsOf(o) \subseteq reversed, IssuePayment(o, reversed, total)
  PROVE  PaidInFull(o, total)'
<1> DEFINE kept(q) == IF q \in reversed THEN [payments[q] EXCEPT !.state = "reversed"]
                                        ELSE payments[q]
           issued  == [state |-> "standing", order |-> o, automatic |-> TRUE,
                       amount |-> total, date |-> 0]
<1>1. ASSUME NEW q \in PaymentIds PROVE ~ (kept(q).state = "standing" /\ kept(q).order = o)
  <2>1. payments[q] \in PaymentRows
    BY DEF TypeOK
  <2>2. CASE q \in reversed
    BY <2>1, <2>2 DEF PaymentRows
  <2>3. CASE q \notin reversed
    BY <2>3 DEF PaymentsOf
  <2> QED BY <2>2, <2>3
<1>2. CASE total = 0
  <2>1. payments' = [q \in PaymentIds |-> kept(q)]
    BY <1>2 DEF IssuePayment
  <2> HIDE DEF kept
  <2>2. PaymentsOf(o)' = {}
    BY <1>1, <2>1 DEF PaymentsOf
  <2> QED BY <1>2, <2>2 DEF PaidInFull
<1>3. CASE total # 0
  <2>1. PICK n \in PaymentIds :
          payments' = [q \in PaymentIds |-> IF q = n THEN issued ELSE kept(q)]
    BY <1>3 DEF IssuePayment
  <2>2. /\ issued.state = "standing" /\ issued.order = o /\ issued.amount = total
        /\ issued.automatic = TRUE
    OBVIOUS
  <2> HIDE DEF kept, issued
  <2>3. payments'[n] = issued /\ \A q \in PaymentIds \ {n} : payments'[q] = kept(q)
    BY <2>1
  <2>4. PaymentsOf(o)' = {n}
    BY <1>1, <2>2, <2>3 DEF PaymentsOf
  <2>5. payments'[n].automatic
    BY <2>2, <2>3
  <2>6. payments'[n].amount = total /\ total > 0
    BY <1>3, <2>2, <2>3, BoundsAssumption DEF Counts
  <2> QED BY <2>4, <2>5, <2>6 DEF PaidInFull
<1> QED BY <1>2, <1>3

(* An order whose payments are left alone stays as it was paid.             *)
LEMMA PaidAsBefore ==
  ASSUME NEW o, NEW total, PaidInFull(o, total),
         PaymentsOf(o)' = PaymentsOf(o),
         \A p \in PaymentsOf(o) : payments'[p] = payments[p]
  PROVE  PaidInFull(o, total)'
<1>1. CASE total = 0 /\ PaymentsOf(o) = {}
  BY <1>1 DEF PaidInFull
<1>2. CASE total > 0 /\ \E p \in PaymentIds : /\ PaymentsOf(o) = {p}
                                              /\ payments[p].automatic
                                              /\ payments[p].amount = total
  <2>1. PICK p \in PaymentIds : /\ PaymentsOf(o) = {p} /\ payments[p].automatic
                                /\ payments[p].amount = total
    BY <1>2
  <2>2. payments'[p] = payments[p] /\ PaymentsOf(o)' = {p}
    BY <2>1
  <2>3. payments'[p].automatic
    BY <2>1, <2>2
  <2>4. payments'[p].amount = total
    BY <2>1, <2>2
  <2> QED BY <1>2, <2>2, <2>3, <2>4 DEF PaidInFull
<1> QED BY <1>1, <1>2 DEF PaidInFull
-----------------------------------------------------------------------------
(* A step that changes one order's row leaves the others paid as they were. *)
LEMMA OneOrderPaid ==
  ASSUME TypeOK, CashInv, NEW o \in OrderIds,
         \A k \in OrderIds \ {o} :
            /\ orders'[k] = orders[k]
            /\ PaymentsOf(k)' = PaymentsOf(k)
            /\ \A p \in PaymentsOf(k) : payments'[p] = payments[p],
         NEW total,
         orders'[o].state = "live" /\ orders'[o].payment = "CASH"
            => total = DepositTotal(orders'[o]) /\ PaidInFull(o, total)'
  PROVE  CashInv'
<1> SUFFICES ASSUME NEW k \in OrderIds, orders'[k].state = "live",
                    orders'[k].payment = "CASH"
             PROVE  PaidInFull(k, DepositTotal(orders[k]))'
  BY DEF CashInv, Live
<1>1. CASE k = o
  BY <1>1 DEF PaidInFull
<1>2. CASE k # o
  <2>1. PICK due : due = DepositTotal(orders[k])
    OBVIOUS
  <2>2. orders'[k] = orders[k] /\ PaidInFull(k, due)
    BY <1>2, <2>1 DEF CashInv, Live
  <2>3. PaidInFull(k, due)' /\ due = DepositTotal(orders'[k])
    BY <1>2, <2>1, <2>2, PaidAsBefore
  <2> QED BY <2>3 DEF PaidInFull
<1> QED BY <1>1, <1>2

LEMMA CreateOrderPaid ==
  ASSUME LedgerInv, CashInv, NEW o \in OrderIds, NEW payment, NEW date, NEW requested,
         NEW deposit, NEW override,
         CreateOrder(o, payment, date, requested, deposit, override)
  PROVE  CashInv'
<1> DEFINE lent == Minus(requested, TakenFromOwed(owing, requested))
           row  == [state |-> "live", payment |-> payment, date |-> date,
                    quantity |-> lent, deposit |-> Priced(lent, deposit),
                    used |-> TakenFromOwed(owing, requested)]
<1>0. TypeOK
  BY DEF LedgerInv
<1>1. /\ orders' = [orders EXCEPT ![o] = row] /\ orders[o].state = "none"
      /\ DepositTotal(row) \in Counts
      /\ IssuePayment(o, {}, IF payment = "CASH" THEN DepositTotal(row) ELSE 0)
  BY DEF CreateOrder, NextFree
<1>2. row.payment = payment
  OBVIOUS
<1> HIDE DEF row
<1>3. orders'[o] = row /\ \A k \in OrderIds \ {o} : orders'[k] = orders[k]
  BY <1>0, <1>1 DEF TypeOK
<1>4. PaymentsOf(o) = {}
  BY <1>1 DEF LedgerInv, StandingOnLive, PaymentsOf, Live
<1>5. PICK total : total = DepositTotal(row)
  OBVIOUS
<1>6. payment = "CASH" => PaidInFull(o, total)'
  BY <1>0, <1>1, <1>4, <1>5, IssuedInFull
<1>7. ASSUME NEW k \in OrderIds \ {o}
      PROVE  /\ PaymentsOf(k)' = PaymentsOf(k)
             /\ \A p \in PaymentsOf(k) : payments'[p] = payments[p]
  BY <1>0, <1>1, IssueTouchesOwn
<1> QED BY <1>0, <1>2, <1>3, <1>5, <1>6, <1>7, OneOrderPaid

(* An edit of the lines issues the payment anew; an edit of anything else   *)
(* changes neither what is due nor what was paid.                           *)
LEMMA EditLinesPaid ==
  ASSUME LedgerInv, CashInv, NEW o \in OrderIds, NEW date, NEW requested, NEW deposit,
         NEW override, EditLines(o, date, requested, deposit, override)
  PROVE  CashInv'
<1> DEFINE used == TakenFromOwed(Plus([i \in Items |-> Owed(i)], orders[o].used), requested)
           lent == Minus(requested, used)
           row  == [orders[o] EXCEPT !.date = date, !.quantity = lent,
                                     !.deposit = Priced(lent, deposit), !.used = used]
           linesChanged == \/ row.quantity # orders[o].quantity
                           \/ row.deposit # orders[o].deposit
<1>0. TypeOK /\ orders[o] \in OrderRows
  BY DEF LedgerInv, TypeOK
<1>1. /\ orders' = [orders EXCEPT ![o] = row] /\ o \in Live /\ NoActivity(o)
      /\ DepositTotal(row) \in Counts
  BY DEF EditLines
<1>2. IF linesChanged /\ orders[o].payment = "CASH"
      THEN IssuePayment(o, StandingAutomatic(o), DepositTotal(row))
      ELSE UNCHANGED payments
  BY DEF EditLines
<1>3. row.payment = orders[o].payment
  BY <1>0 DEF OrderRows
<1> HIDE DEF row
<1>4. orders'[o] = row /\ \A k \in OrderIds \ {o} : orders'[k] = orders[k]
  BY <1>0, <1>1 DEF TypeOK
<1>5. PaymentsOf(o) \subseteq StandingAutomatic(o) /\ StandingAutomatic(o) \subseteq PaymentsOf(o)
  BY <1>1, NothingStands DEF StandingAutomatic
<1>6. PICK total : total = DepositTotal(row)
  OBVIOUS
<1>7. ASSUME orders[o].payment = "CASH" PROVE PaidInFull(o, total)'
  <2>1. CASE linesChanged
    BY <1>0, <1>1, <1>2, <1>5, <1>6, <1>7, <2>1, IssuedInFull
  <2>2. CASE ~ linesChanged
    <3>1. total = DepositTotal(orders[o])
      BY <1>6, <2>2, DepositOfLines
    <3>2. PaidInFull(o, total)
      BY <1>1, <1>7, <3>1 DEF CashInv
    <3>3. UNCHANGED payments
      BY <1>2, <2>2
    <3> QED BY <3>2, <3>3, PaidAsBefore DEF PaymentsOf
  <2> QED BY <2>1, <2>2
<1>8. ASSUME NEW k \in OrderIds \ {o}
      PROVE  /\ PaymentsOf(k)' = PaymentsOf(k)
             /\ \A p \in PaymentsOf(k) : payments'[p] = payments[p]
  <2>1. CASE UNCHANGED payments
    BY <2>1 DEF PaymentsOf
  <2> HIDE DEF linesChanged
  <2> QED BY <1>0, <1>2, <1>5, <2>1, IssueTouchesOwn
<1> QED BY <1>0, <1>3, <1>4, <1>6, <1>7, <1>8, OneOrderPaid

LEMMA EditHeaderPaid ==
  ASSUME LedgerInv, CashInv, NEW o \in OrderIds, NEW date, EditHeader(o, date)
  PROVE  CashInv'
<1> DEFINE row == [orders[o] EXCEPT !.date = date]
<1>0. TypeOK /\ orders[o] \in OrderRows
  BY DEF LedgerInv, TypeOK
<1>1. orders' = [orders EXCEPT ![o] = row] /\ UNCHANGED payments /\ o \in Live
  BY DEF EditHeader
<1>2. /\ row.payment = orders[o].payment /\ row.quantity = orders[o].quantity
      /\ row.deposit = orders[o].deposit
  BY <1>0 DEF OrderRows
<1> HIDE DEF row
<1>3. orders'[o] = row /\ \A k \in OrderIds \ {o} : orders'[k] = orders[k]
  BY <1>0, <1>1 DEF TypeOK
<1>4. PICK total : total = DepositTotal(row)
  OBVIOUS
<1>5. total = DepositTotal(orders[o])
  BY <1>2, <1>4, DepositOfLines
<1>6. orders[o].payment = "CASH" => PaidInFull(o, total)'
  BY <1>1, <1>5, PaidAsBefore DEF CashInv, PaymentsOf
<1> QED BY <1>0, <1>1, <1>2, <1>3, <1>4, <1>6, OneOrderPaid DEF PaymentsOf

LEMMA CancelOrderPaid ==
  ASSUME LedgerInv, CashInv, NEW o \in OrderIds, CancelOrder(o)
  PROVE  CashInv'
<1> DEFINE row == [orders[o] EXCEPT !.state = "cancelled", !.used = [i \in Items |-> 0]]
<1>0. TypeOK /\ orders[o] \in OrderRows
  BY DEF LedgerInv, TypeOK
<1>1. /\ orders' = [orders EXCEPT ![o] = row]
      /\ IssuePayment(o, StandingAutomatic(o), 0)
  BY DEF CancelOrder
<1>2. row.state = "cancelled"
  BY <1>0 DEF OrderRows
<1> HIDE DEF row
<1>3. orders'[o] = row /\ \A k \in OrderIds \ {o} : orders'[k] = orders[k]
  BY <1>0, <1>1 DEF TypeOK
<1>4. StandingAutomatic(o) \subseteq PaymentsOf(o)
  BY DEF StandingAutomatic
<1>5. ASSUME NEW k \in OrderIds \ {o}
      PROVE  /\ PaymentsOf(k)' = PaymentsOf(k)
             /\ \A p \in PaymentsOf(k) : payments'[p] = payments[p]
  BY <1>0, <1>1, <1>4, IssueTouchesOwn
<1> QED BY <1>0, <1>2, <1>3, <1>5, OneOrderPaid

(* A manual payment is recorded, and reversed, on a lent order only.        *)
LEMMA CreatePaymentPaid ==
  ASSUME LedgerInv, CashInv, NEW p \in PaymentIds, NEW o \in OrderIds, NEW amount,
         NEW date, CreatePayment(p, o, amount, date)
  PROVE  CashInv'
<1>0. TypeOK
  BY DEF LedgerInv
<1>1. /\ UNCHANGED orders /\ orders[o].payment = "LENT" /\ payments[p].state = "none"
      /\ payments'[p].order = o
      /\ \A q \in PaymentIds \ {p} : payments'[q] = payments[q]
  BY <1>0 DEF CreatePayment, NextFree, TypeOK
<1>2. ASSUME NEW k \in OrderIds \ {o}
      PROVE  /\ PaymentsOf(k)' = PaymentsOf(k)
             /\ \A q \in PaymentsOf(k) : payments'[q] = payments[q]
  BY <1>1 DEF PaymentsOf
<1> QED BY <1>0, <1>1, <1>2, OneOrderPaid

LEMMA ReversePaymentPaid ==
  ASSUME LedgerInv, CashInv, NEW p \in PaymentIds, ReversePayment(p)
  PROVE  CashInv'
<1> DEFINE o == payments[p].order
<1>0. TypeOK /\ payments[p] \in PaymentRows
  BY DEF LedgerInv, TypeOK
<1>1. /\ UNCHANGED orders /\ payments[p].state = "standing" /\ ~ payments[p].automatic
      /\ payments' = [payments EXCEPT ![p] = [payments[p] EXCEPT !.state = "reversed"]]
  BY DEF ReversePayment
<1>2. o \in Live /\ o \in OrderIds
  BY <1>1 DEF LedgerInv, StandingOnLive, Live
<1>3. orders[o].payment # "CASH"
  <2> SUFFICES ASSUME orders[o].payment = "CASH" PROVE FALSE
    OBVIOUS
  <2>1. PaidInFull(o, DepositTotal(orders[o])) /\ p \in PaymentsOf(o)
    BY <1>1, <1>2 DEF CashInv, PaymentsOf
  <2>2. payments[p].automatic
    BY <2>1 DEF PaidInFull
  <2> QED BY <1>1, <2>2
<1>4. /\ payments'[p].order = o
      /\ \A q \in PaymentIds \ {p} : payments'[q] = payments[q]
  BY <1>0, <1>1 DEF TypeOK, PaymentRows
<1>5. ASSUME NEW k \in OrderIds \ {o}
      PROVE  /\ PaymentsOf(k)' = PaymentsOf(k)
             /\ \A q \in PaymentsOf(k) : payments'[q] = payments[q]
  BY <1>4 DEF PaymentsOf
<1>6. PICK k \in OrderIds : k = o
  BY <1>2
<1> HIDE DEF o
<1> QED BY <1>0, <1>1, <1>3, <1>5, <1>6, OneOrderPaid

LEMMA NothingPaid ==
  ASSUME CashInv, UNCHANGED <<orders, payments>>
  PROVE  CashInv'
BY DEF CashInv, Live, PaidInFull, PaymentsOf
-----------------------------------------------------------------------------
LEMMA CashInitially == Init => CashInv
BY DEF Init, CashInv, Live, NoOrder

LEMMA CashStep == LedgerInv /\ CashInv /\ [Next]_vars => CashInv'
<1> SUFFICES ASSUME LedgerInv, CashInv, [Next]_vars PROVE CashInv'
  OBVIOUS
<1>1. CASE OrderStep
  BY <1>1, CreateOrderPaid, EditHeaderPaid, EditLinesPaid DEF OrderStep
<1>2. CASE CancelStep
  BY <1>2, CancelOrderPaid DEF CancelStep
<1>3. CASE ReturnStep
  <2>1. ASSUME NEW o, NEW body, NEW date, CreateReturn(o, body, date) PROVE CashInv'
    BY <2>1, NothingPaid DEF CreateReturn, WriteReturns
  <2>2. ASSUME NEW bodies, NEW date, NEW withOrder, NEW extra,
               CreateForCustomer(bodies, date, withOrder, extra)
        PROVE  CashInv'
    BY <2>2, NothingPaid DEF CreateForCustomer, WriteReturns
  <2>3. ASSUME NEW r, NEW body, NEW date, ReplaceReturn(r, body, date) PROVE CashInv'
    BY <2>3, NothingPaid DEF ReplaceReturn, WriteReturns
  <2>4. ASSUME NEW r, NEW bodies, NEW date, NEW extra,
               ReplaceForCustomer(r, bodies, date, extra)
        PROVE  CashInv'
    BY <2>4, NothingPaid DEF ReplaceForCustomer, WriteEdit, WriteReturns
  <2> QED BY <1>3, <2>1, <2>2, <2>3, <2>4 DEF ReturnStep
<1>4. CASE DeleteStep
  BY <1>4, NothingPaid DEF DeleteStep, DeleteReturn, WriteReturns
<1>5. CASE PaymentStep
  BY <1>5, CreatePaymentPaid, ReversePaymentPaid DEF PaymentStep
<1>6. CASE HandBackStep
  BY <1>6, NothingPaid DEF HandBackStep, HandBack, UndoHandBack
<1>7. CASE ArchiveCustomer
  BY <1>7, NothingPaid DEF ArchiveCustomer
<1>8. CASE UNCHANGED vars
  BY <1>8, NothingPaid DEF vars
<1> QED BY <1>1, <1>2, <1>3, <1>4, <1>5, <1>6, <1>7, <1>8 DEF Next

(* A live cash order carries exactly one standing payment, automatic and of *)
(* its whole deposit, or none when the deposit is nothing: an edit issues   *)
(* it anew with the lines, and no manual payment ever joins or replaces it. *)
THEOREM CashOrdersPaid == Spec => []CashPaidAutomatically
<1>1. Spec => []CashInv
  BY CashInitially, CashStep, LedgerAlways, PTL DEF Spec
<1> QED BY <1>1, CashInvSuffices, PTL
-----------------------------------------------------------------------------
(* What an order's rows add up to.                                         *)
LEMMA RowsAreFinite ==
  /\ IsFiniteSet(OrderIds) /\ IsFiniteSet(ReturnIds)
  /\ IsFiniteSet(PaymentIds) /\ IsFiniteSet(HandBackIds)
BY FS_Interval, BoundsAssumption DEF OrderIds, ReturnIds, PaymentIds, HandBackIds

(* What a return credits beside what it paid out, what the returns of an    *)
(* order credit but for those gone, and the pallets they took back.         *)
CreditOf(r) == returns[r].refundDue - returns[r].cashRefund
BackOf(r, i) == returns[r].body.accepted[i] + returns[r].body.damaged[i]
CreditsLeft(o, gone) ==
    SumOver(ReturnsOf(o) \ gone, [r \in ReturnsOf(o) \ gone |-> CreditOf(r)])
BackLeft(o, gone, i) ==
    SumOver(ReturnsOf(o) \ gone, [r \in ReturnsOf(o) \ gone |-> BackOf(r, i)])

(* A standing return is priced at its order's deposits, and paid out no more*)
(* than it was worth.                                                       *)
ReturnsPriced ==
    \A r \in StandingReturns :
        /\ returns[r].refundDue = RefundDue(orders[returns[r].order].deposit, returns[r].body)
        /\ returns[r].cashRefund <= returns[r].refundDue

(* Only a cash order is paid automatically. *)
AutomaticIsCash ==
    \A p \in PaymentIds : payments[p].state = "standing" /\ payments[p].automatic
        => orders[payments[p].order].payment = "CASH"

(* An order's deposit is an amount its column holds, it is not exceeded by  *)
(* what was paid and credited, and no line took back more than went out.    *)
WithinOrder(o) ==
    /\ DepositTotal(orders[o]) \in Counts
    /\ PaidOn(o) + CreditsOf(o) <= DepositTotal(orders[o])
    /\ \A i \in Items : BackLeft(o, {}, i) <= orders[o].quantity[i]

AmountInv ==
    /\ LedgerInv
    /\ CashInv
    /\ ReturnsPriced
    /\ AutomaticIsCash
    /\ \A o \in OrderIds : WithinOrder(o)
-----------------------------------------------------------------------------
(* The sums of an order's rows are of integers. *)
LEMMA RowTypes ==
  TypeOK =>
    /\ \A r \in ReturnIds : /\ CreditOf(r) \in Int
                            /\ returns[r].refundDue \in Int /\ returns[r].cashRefund \in Nat
                            /\ \A i \in Items : BackOf(r, i) \in Nat
    /\ \A p \in PaymentIds : payments[p].amount \in Nat
    /\ \A o \in OrderIds, i \in Items : /\ orders[o].quantity[i] \in Nat
                                        /\ orders[o].deposit[i] \in Nat
<1> SUFFICES ASSUME TypeOK
             PROVE  /\ \A r \in ReturnIds :
                          /\ CreditOf(r) \in Int
                          /\ returns[r].refundDue \in Int /\ returns[r].cashRefund \in Nat
                          /\ \A i \in Items : BackOf(r, i) \in Nat
                    /\ \A p \in PaymentIds : payments[p].amount \in Nat
                    /\ \A o \in OrderIds, i \in Items : /\ orders[o].quantity[i] \in Nat
                                                        /\ orders[o].deposit[i] \in Nat
  OBVIOUS
<1>1. ASSUME NEW r \in ReturnIds
      PROVE  /\ CreditOf(r) \in Int
             /\ returns[r].refundDue \in Int /\ returns[r].cashRefund \in Nat
             /\ \A i \in Items : BackOf(r, i) \in Nat
  <2>1. returns[r] \in ReturnRows
    BY DEF TypeOK
  <2>2. returns[r].refundDue \in Int /\ returns[r].cashRefund \in Nat
    BY <2>1, BoundsAssumption DEF ReturnRows, Figures, Counts
  <2>3. \A i \in Items : /\ returns[r].body.accepted[i] \in Nat
                         /\ returns[r].body.damaged[i] \in Nat
    BY <2>1, BoundsAssumption DEF ReturnRows, Bodies
  <2> QED BY <2>2, <2>3 DEF CreditOf, BackOf
<1>2. \A p \in PaymentIds : payments[p].amount \in Nat
  BY BoundsAssumption DEF TypeOK, PaymentRows, Counts
<1>3. ASSUME NEW o \in OrderIds, NEW i \in Items
      PROVE  orders[o].quantity[i] \in Nat /\ orders[o].deposit[i] \in Nat
  BY BoundsAssumption DEF TypeOK, OrderRows
<1> QED BY <1>1, <1>2, <1>3

LEMMA ReturnsAreFinite ==
  \A o, gone : IsFiniteSet(ReturnsOf(o) \ gone) /\ IsFiniteSet(RefundsOf(o) \ gone)
<1> SUFFICES ASSUME NEW o, NEW gone
             PROVE  IsFiniteSet(ReturnsOf(o) \ gone) /\ IsFiniteSet(RefundsOf(o) \ gone)
  OBVIOUS
<1>1. ReturnsOf(o) \ gone \subseteq ReturnIds /\ RefundsOf(o) \ gone \subseteq ReturnIds
  BY DEF ReturnsOf, StandingReturns, RefundsOf
<1> QED BY <1>1, RowsAreFinite, FS_Subset

LEMMA PaymentsAreFinite == \A o : IsFiniteSet(PaymentsOf(o))
<1> SUFFICES ASSUME NEW o PROVE IsFiniteSet(PaymentsOf(o))
  OBVIOUS
<1>1. PaymentsOf(o) \subseteq PaymentIds
  BY DEF PaymentsOf
<1> QED BY <1>1, RowsAreFinite, FS_Subset

LEMMA AmountTypes ==
  TypeOK => \A o \in OrderIds :
    /\ DepositTotal(orders[o]) \in Nat /\ PaidOn(o) \in Nat /\ CreditsOf(o) \in Int
    /\ \A gone : CreditsLeft(o, gone) \in Int
                 /\ \A i \in Items : BackLeft(o, gone, i) \in Nat
<1> SUFFICES ASSUME TypeOK, NEW o \in OrderIds
             PROVE  /\ DepositTotal(orders[o]) \in Nat /\ PaidOn(o) \in Nat
                    /\ CreditsOf(o) \in Int
                    /\ \A gone : CreditsLeft(o, gone) \in Int
                                 /\ \A i \in Items : BackLeft(o, gone, i) \in Nat
  OBVIOUS
<1>1. DepositTotal(orders[o]) \in Nat
  <2> DEFINE f == [i \in Items |-> orders[o].quantity[i] * orders[o].deposit[i]]
  <2>1. \A i \in Items : f[i] \in Nat
    BY RowTypes
  <2> HIDE DEF f
  <2>2. SumOver(Items, f) \in Nat
    BY <2>1, SumIsNat, DataAssumption
  <2> QED BY <2>2 DEF DepositTotal, f
<1>2. PaidOn(o) \in Nat
  <2> DEFINE f == [p \in PaymentsOf(o) |-> payments[p].amount]
  <2>1. \A p \in PaymentsOf(o) : f[p] \in Nat
    BY RowTypes DEF PaymentsOf
  <2> HIDE DEF f
  <2>2. SumOver(PaymentsOf(o), f) \in Nat
    BY <2>1, SumIsNat, PaymentsAreFinite
  <2> QED BY <2>2 DEF PaidOn, f
<1>3. ASSUME NEW gone
      PROVE  CreditsLeft(o, gone) \in Int /\ \A i \in Items : BackLeft(o, gone, i) \in Nat
  <2>0. ReturnsOf(o) \ gone \subseteq ReturnIds
    BY DEF ReturnsOf, StandingReturns
  <2>1. CreditsLeft(o, gone) \in Int
    <3> DEFINE f == [r \in ReturnsOf(o) \ gone |-> CreditOf(r)]
    <3>1. \A r \in ReturnsOf(o) \ gone : f[r] \in Int
      BY <2>0, RowTypes
    <3> HIDE DEF f
    <3>2. SumOver(ReturnsOf(o) \ gone, f) \in Int
      BY <3>1, SumIsInt, ReturnsAreFinite
    <3> QED BY <3>2 DEF CreditsLeft, f
  <2>2. ASSUME NEW i \in Items PROVE BackLeft(o, gone, i) \in Nat
    <3> DEFINE f == [r \in ReturnsOf(o) \ gone |-> BackOf(r, i)]
    <3>1. \A r \in ReturnsOf(o) \ gone : f[r] \in Nat
      BY <2>0, RowTypes
    <3> HIDE DEF f
    <3>2. SumOver(ReturnsOf(o) \ gone, f) \in Nat
      BY <3>1, SumIsNat, ReturnsAreFinite
    <3> QED BY <3>2 DEF BackLeft, f
  <2> QED BY <2>1, <2>2
<1>4. CreditsOf(o) = CreditsLeft(o, {})
  <2>1. ReturnsOf(o) \ {} = ReturnsOf(o)
    OBVIOUS
  <2> QED BY <2>1 DEF CreditsOf, CreditsLeft, CreditOf
<1> QED BY <1>1, <1>2, <1>3, <1>4

LEMMA CreditsAreLeft == \A o : CreditsOf(o) = CreditsLeft(o, {})
<1> SUFFICES ASSUME NEW o PROVE CreditsOf(o) = CreditsLeft(o, {})
  OBVIOUS
<1>1. ReturnsOf(o) \ {} = ReturnsOf(o)
  OBVIOUS
<1> QED BY <1>1 DEF CreditsOf, CreditsLeft, CreditOf

(* The totals the program computes, of a live order as it would stand with  *)
(* some returns gone: its refunds net out of what its returns credit.       *)
LEMMA TotalsAre ==
  LedgerInv /\ ReturnsPriced => \A o \in Live : \A gone :
    /\ TotalsWithout(o, gone).owed
         = DepositTotal(orders[o]) - PaidOn(o) - CreditsLeft(o, gone)
    /\ \A i \in Items : TotalsWithout(o, gone).out[i]
                          = orders[o].quantity[i] - BackLeft(o, gone, i)
<1> SUFFICES ASSUME LedgerInv, ReturnsPriced, NEW o \in Live, NEW gone
             PROVE  /\ TotalsWithout(o, gone).owed
                         = DepositTotal(orders[o]) - PaidOn(o) - CreditsLeft(o, gone)
                    /\ \A i \in Items : TotalsWithout(o, gone).out[i]
                                          = orders[o].quantity[i] - BackLeft(o, gone, i)
  OBVIOUS
<1> DEFINE active == ReturnsOf(o) \ gone
           kept   == RefundsOf(o) \ gone
           body   == [r \in active |-> returns[r].body]
           dues   == [r \in active |-> RefundDue(orders[o].deposit, body[r])]
           cash   == [r \in active |-> returns[r].cashRefund]
           amount == [r \in kept |-> refunds[r].amount]
           credit == [r \in active |-> CreditOf(r)]
<1>0. TypeOK /\ o \in OrderIds /\ orders[o].state = "live"
  BY DEF LedgerInv, Live
<1>1. /\ IsFiniteSet(active) /\ IsFiniteSet(kept)
      /\ active \subseteq ReturnIds /\ active \subseteq ReturnsOf(o)
  BY ReturnsAreFinite DEF ReturnsOf, StandingReturns
<1>2. kept = {r \in active : returns[r].cashRefund > 0}
  BY DEF LedgerInv, RefundStandsWithItsReturn, RefundsOf, ReturnsOf, StandingReturns
<1>3. \A r \in active : /\ dues[r] = returns[r].refundDue
                        /\ returns[r].refundDue \in Int /\ returns[r].cashRefund \in Nat
  BY <1>0, <1>1, RowTypes DEF ReturnsPriced, ReturnsOf
<1>4. \A r \in kept : amount[r] = cash[r]
  BY <1>1, <1>2 DEF LedgerInv, RefundStandsWithItsReturn, RefundsOf
<1>5. TotalsWithout(o, gone) = OrderTotals(orders[o], active, body, PaidOn(o),
                                           SumOver(kept, amount))
  BY DEF TotalsWithout, RefundedOn
<1>6. /\ TotalsWithout(o, gone).owed = DepositTotal(orders[o]) - PaidOn(o)
            - SumOver(active, dues) + SumOver(kept, amount)
      /\ TotalsWithout(o, gone).out = LeftOut(orders[o], active, body)
  <2> HIDE DEF active, kept, body, amount
  <2> QED BY <1>0, <1>5 DEF OrderTotals
<1>7. SumOver(kept, amount) = SumOver(active, cash)
  <2>1. \A r \in active : cash[r] \in Int /\ (r \notin kept => cash[r] = 0)
    BY <1>2, <1>3
  <2>2. kept \in SUBSET active
    BY <1>2
  <2> HIDE DEF active, kept, amount, cash
  <2>3. SumOver(active, cash) = SumOver(kept, cash)
    BY <1>1, <2>1, <2>2, SumOfPart
  <2>4. SumOver(kept, amount) = SumOver(kept, cash)
    BY <1>1, <1>4, SumAgrees
  <2> QED BY <2>3, <2>4
<1>8. /\ SumOver(active, dues) = SumOver(active, credit) + SumOver(active, cash)
      /\ SumOver(active, credit) \in Int /\ SumOver(active, cash) \in Int
  <2>1. \A r \in active : /\ credit[r] \in Int /\ cash[r] \in Int
                          /\ dues[r] = credit[r] + cash[r]
    BY <1>3 DEF CreditOf
  <2> HIDE DEF active, credit, cash, dues
  <2> QED BY <1>1, <2>1, SumOfSums, SumIsInt
<1>9. SumOver(active, credit) = CreditsLeft(o, gone)
  BY DEF CreditsLeft
<1>10. TotalsWithout(o, gone).owed
         = DepositTotal(orders[o]) - PaidOn(o) - CreditsLeft(o, gone)
  <2>1. DepositTotal(orders[o]) \in Nat /\ PaidOn(o) \in Nat
    BY <1>0, AmountTypes
  <2> HIDE DEF active, kept, body, amount, dues, cash, credit
  <2> QED BY <1>6, <1>7, <1>8, <1>9, <2>1
<1>11. ASSUME NEW i \in Items
       PROVE  TotalsWithout(o, gone).out[i] = orders[o].quantity[i] - BackLeft(o, gone, i)
  <2>1. [r \in active |-> body[r].accepted[i] + body[r].damaged[i]]
          = [r \in active |-> BackOf(r, i)]
    BY DEF BackOf
  <2>2. LeftOut(orders[o], active, body)[i] = orders[o].quantity[i]
          - SumOver(active, [r \in active |-> body[r].accepted[i] + body[r].damaged[i]])
    BY DEF LeftOut
  <2>3. BackLeft(o, gone, i) = SumOver(active, [r \in active |-> BackOf(r, i)])
    BY DEF BackLeft
  <2> QED BY <1>6, <2>1, <2>2, <2>3
<1> QED BY <1>10, <1>11

(* So within its deposit and its lines, an order's totals never throw.      *)
LEMMA WithinSuffices == AmountInv => TotalsNeverThrow
<1> SUFFICES ASSUME AmountInv, NEW o \in Live
             PROVE  TotalsOf(o).owed >= 0 /\ \A i \in Items : TotalsOf(o).out[i] >= 0
  BY DEF TotalsNeverThrow
<1>1. /\ LedgerInv /\ ReturnsPriced /\ TypeOK /\ o \in OrderIds /\ WithinOrder(o)
  BY DEF AmountInv, LedgerInv, Live
<1>2. /\ TotalsOf(o).owed = DepositTotal(orders[o]) - PaidOn(o) - CreditsOf(o)
      /\ \A i \in Items : TotalsOf(o).out[i] = orders[o].quantity[i] - BackLeft(o, {}, i)
  BY <1>1, TotalsAre, CreditsAreLeft DEF TotalsOf
<1>3. /\ DepositTotal(orders[o]) \in Nat /\ PaidOn(o) \in Nat /\ CreditsOf(o) \in Int
      /\ \A i \in Items : BackLeft(o, {}, i) \in Nat /\ orders[o].quantity[i] \in Nat
  BY <1>1, AmountTypes, RowTypes
<1> QED BY <1>1, <1>2, <1>3 DEF WithinOrder
-----------------------------------------------------------------------------
(* A step that leaves an order's lines, its standing returns and payments   *)
(* alone leaves all it adds up to alone.                                    *)
SameAmounts(o) ==
    /\ DepositTotal(orders'[o]) = DepositTotal(orders[o])
    /\ PaidOn(o)' = PaidOn(o)
    /\ CreditsOf(o)' = CreditsOf(o)
    /\ orders'[o].quantity = orders[o].quantity
    /\ \A i \in Items : BackLeft(o, {}, i)' = BackLeft(o, {}, i)

LEMMA SamePaid ==
  ASSUME NEW o, PaymentsOf(o)' = PaymentsOf(o),
         \A p \in PaymentsOf(o) : payments'[p] = payments[p]
  PROVE  PaidOn(o)' = PaidOn(o)
<1>1. [p \in PaymentsOf(o) |-> payments'[p].amount]
        = [p \in PaymentsOf(o) |-> payments[p].amount]
  OBVIOUS
<1> QED BY <1>1 DEF PaidOn

LEMMA SameReturned ==
  ASSUME NEW o, ReturnsOf(o)' = ReturnsOf(o),
         \A r \in ReturnsOf(o) : returns'[r] = returns[r]
  PROVE  /\ CreditsOf(o)' = CreditsOf(o)
         /\ \A i \in Items : BackLeft(o, {}, i)' = BackLeft(o, {}, i)
<1>1. CreditsOf(o)' = CreditsOf(o)
  <2>1. [r \in ReturnsOf(o) |-> returns'[r].refundDue - returns'[r].cashRefund]
          = [r \in ReturnsOf(o) |-> returns[r].refundDue - returns[r].cashRefund]
    OBVIOUS
  <2> QED BY <2>1 DEF CreditsOf
<1>2. ASSUME NEW i \in Items PROVE BackLeft(o, {}, i)' = BackLeft(o, {}, i)
  <2>1. [r \in ReturnsOf(o) \ {} |-> returns'[r].body.accepted[i] + returns'[r].body.damaged[i]]
          = [r \in ReturnsOf(o) \ {} |-> returns[r].body.accepted[i] + returns[r].body.damaged[i]]
    OBVIOUS
  <2> QED BY <2>1 DEF BackLeft, BackOf
<1> QED BY <1>1, <1>2

LEMMA SameRows ==
  ASSUME NEW o, orders'[o].quantity = orders[o].quantity,
         orders'[o].deposit = orders[o].deposit,
         ReturnsOf(o)' = ReturnsOf(o),
         \A r \in ReturnsOf(o) : returns'[r] = returns[r],
         PaymentsOf(o)' = PaymentsOf(o),
         \A p \in PaymentsOf(o) : payments'[p] = payments[p]
  PROVE  SameAmounts(o)
<1>1. PICK b : b = orders'[o]
  OBVIOUS
<1>2. DepositTotal(b) = DepositTotal(orders[o])
  BY <1>1, DepositOfLines
<1> QED BY <1>1, <1>2, SamePaid, SameReturned DEF SameAmounts

LEMMA SameWithin ==
  ASSUME NEW o, WithinOrder(o), SameAmounts(o) PROVE WithinOrder(o)'
BY DEF WithinOrder, SameAmounts

(* Where no return stands nothing is credited nor back; where no payment    *)
(* does, nothing is paid; and one payment pays its amount.                  *)
LEMMA NothingReturned ==
  \A o : ReturnsOf(o) = {} =>
    CreditsOf(o) = 0 /\ \A i \in Items : BackLeft(o, {}, i) = 0
<1> SUFFICES ASSUME NEW o, ReturnsOf(o) = {}
             PROVE  CreditsOf(o) = 0 /\ \A i \in Items : BackLeft(o, {}, i) = 0
  OBVIOUS
<1>1. ReturnsOf(o) \ {} = {}
  OBVIOUS
<1>2. \A f : SumOver({}, f) = 0
  BY SumOfNone
<1> QED BY <1>1, <1>2 DEF CreditsOf, BackLeft

LEMMA PaidWhenInFull ==
  TypeOK => \A k, due : PaidInFull(k, due) => PaidOn(k) = due
<1> SUFFICES ASSUME TypeOK, NEW o, NEW total, PaidInFull(o, total) PROVE PaidOn(o) = total
  OBVIOUS
<1>1. CASE total = 0 /\ PaymentsOf(o) = {}
  BY <1>1, SumOfNone DEF PaidOn
<1>2. ASSUME NEW p \in PaymentIds, PaymentsOf(o) = {p}, payments[p].amount = total
      PROVE  PaidOn(o) = total
  <2> DEFINE f == [q \in {p} |-> payments[q].amount]
  <2>1. f[p] = total /\ f[p] \in Int
    BY <1>2, RowTypes
  <2>2. PaidOn(o) = SumOver({p}, f)
    BY <1>2 DEF PaidOn
  <2> HIDE DEF f
  <2> QED BY <2>1, <2>2, SumOfOne
<1> QED BY <1>1, <1>2 DEF PaidInFull

LEMMA PaidWhenInFullAfter ==
  (TypeOK => \A k, due : PaidInFull(k, due) => PaidOn(k) = due)'
BY PaidWhenInFull, PTL

LEMMA NothingPaidYet == \A o : PaymentsOf(o) = {} => PaidOn(o) = 0
BY SumOfNone DEF PaidOn

(* An order nothing happened on is untouched: paid in full, or not at all.  *)
LEMMA UntouchedOrder ==
  ASSUME AmountInv, NEW o \in Live, NoActivity(o)
  PROVE  /\ ReturnsOf(o) = {} /\ CreditsOf(o) = 0
         /\ \A i \in Items : BackLeft(o, {}, i) = 0
         /\ PaidOn(o) = IF orders[o].payment = "CASH" THEN DepositTotal(orders[o]) ELSE 0
         /\ orders[o].payment # "CASH" => PaymentsOf(o) = {}
<1>1. ReturnsOf(o) = {}
  BY NothingStands DEF ReturnsOf
<1>2. CASE orders[o].payment = "CASH"
  <2>1. TypeOK /\ PaidInFull(o, DepositTotal(orders[o]))
    BY <1>2 DEF AmountInv, LedgerInv, CashInv
  <2> QED BY <1>1, <1>2, <2>1, NothingReturned, PaidWhenInFull
<1>3. CASE orders[o].payment # "CASH"
  <2>1. ASSUME NEW p \in PaymentsOf(o) PROVE FALSE
    <3>1. payments[p].automatic
      BY <2>1, NothingStands
    <3>2. p \in PaymentIds /\ payments[p].state = "standing" /\ payments[p].order = o
      BY <2>1 DEF PaymentsOf
    <3> QED BY <1>3, <3>1, <3>2 DEF AmountInv, AutomaticIsCash
  <2>2. PaymentsOf(o) = {}
    BY <2>1
  <2> QED BY <1>1, <1>3, <2>2, NothingReturned, NothingPaidYet
<1> QED BY <1>2, <1>3

(* An order that is not live carries nothing.                               *)
LEMMA NothingOnOthers ==
  LedgerInv => \A o \in OrderIds : o \notin Live =>
     /\ ReturnsOf(o) = {} /\ PaymentsOf(o) = {}
     /\ PaidOn(o) = 0 /\ CreditsOf(o) = 0 /\ \A i \in Items : BackLeft(o, {}, i) = 0
<1> SUFFICES ASSUME LedgerInv, NEW o \in OrderIds, o \notin Live
             PROVE  /\ ReturnsOf(o) = {} /\ PaymentsOf(o) = {}
                    /\ PaidOn(o) = 0 /\ CreditsOf(o) = 0
                    /\ \A i \in Items : BackLeft(o, {}, i) = 0
  OBVIOUS
<1>1. ReturnsOf(o) = {} /\ PaymentsOf(o) = {}
  BY DEF LedgerInv, StandingOnLive, ReturnsOf, PaymentsOf
<1> QED BY <1>1, NothingReturned, NothingPaidYet
LEMMA NothingOnOthersAfter ==
  (LedgerInv => \A o \in OrderIds : o \notin Live =>
     /\ ReturnsOf(o) = {} /\ PaymentsOf(o) = {}
     /\ PaidOn(o) = 0 /\ CreditsOf(o) = 0 /\ \A i \in Items : BackLeft(o, {}, i) = 0)'
BY NothingOnOthers, PTL

-----------------------------------------------------------------------------
(* What each handler does to the amounts of an order. Others are left alone.*)
OthersSame(S) ==
    \A k \in OrderIds \ S : SameAmounts(k) /\ orders'[k].state = orders[k].state
NothingCredited(o) ==
    /\ CreditsOf(o) = 0 /\ CreditsOf(o)' = 0
    /\ \A i \in Items : BackLeft(o, {}, i)' = 0
OpensOrder(o) ==
    /\ orders[o].state = "none" /\ orders'[o].state = "live"
    /\ DepositTotal(orders'[o]) \in Counts
    /\ PaidOn(o)' \in {0, DepositTotal(orders'[o])}
    /\ NothingCredited(o) /\ OthersSame({o})
RepricesOrder(o) ==
    /\ orders[o].state = "live" /\ orders'[o].state = "live"
    /\ PaidOn(o) \in {0, DepositTotal(orders[o])}
    /\ DepositTotal(orders'[o]) \in Counts
    /\ PaidOn(o)' \in {0, DepositTotal(orders'[o])}
    /\ NothingCredited(o) /\ OthersSame({o})
CancelsOrder(o) ==
    /\ orders[o].state = "live" /\ orders'[o].state = "cancelled"
    /\ PaidOn(o) \in {0, DepositTotal(orders[o])}
    /\ DepositTotal(orders'[o]) = DepositTotal(orders[o])
    /\ PaidOn(o)' = 0
    /\ NothingCredited(o) /\ OthersSame({o})
PaysOrder(o) ==
    /\ orders[o].state = "live" /\ orders' = orders
    /\ PaidOn(o)' >= PaidOn(o)
    /\ PaidOn(o)' + CreditsOf(o) <= DepositTotal(orders[o])
    /\ CreditsOf(o)' = CreditsOf(o)
    /\ \A i \in Items : BackLeft(o, {}, i)' = BackLeft(o, {}, i)
    /\ OthersSame({o})
UnpaysOrder(o) ==
    /\ orders[o].state = "live" /\ orders' = orders
    /\ PaidOn(o)' <= PaidOn(o)
    /\ CreditsOf(o)' = CreditsOf(o)
    /\ \A i \in Items : BackLeft(o, {}, i)' = BackLeft(o, {}, i)
    /\ OthersSame({o})
CreditsOrders(S) ==
    /\ \A o \in S : /\ orders[o].state = "live"
                    /\ CreditsOf(o)' \in Nat
                    /\ PaidOn(o) + CreditsOf(o)' <= DepositTotal(orders[o])
                    /\ \A i \in Items : BackLeft(o, {}, i)' <= orders[o].quantity[i]
    /\ orders' = orders
    /\ \A o \in OrderIds : PaidOn(o)' = PaidOn(o)
    /\ OthersSame(S)

(* A standing return stays priced while it and its order's deposits do.     *)
LEMMA PricedFrame ==
  ASSUME ReturnsPriced, UNCHANGED returns,
         \A r \in StandingReturns : orders'[returns[r].order].deposit
                                      = orders[returns[r].order].deposit
  PROVE  ReturnsPriced'
<1> SUFFICES ASSUME NEW r \in StandingReturns
             PROVE  /\ returns[r].refundDue
                         = RefundDue(orders[returns[r].order].deposit, returns[r].body)'
                    /\ returns[r].cashRefund <= returns[r].refundDue
  BY DEF ReturnsPriced, StandingReturns
<1>1. PICK d : d = orders'[returns[r].order].deposit
  OBVIOUS
<1>2. returns[r].refundDue = RefundDue(d, returns[r].body)
  BY <1>1 DEF ReturnsPriced
<1> QED BY <1>1, <1>2 DEF ReturnsPriced, RefundDue

LEMMA CreateOrderAmounts ==
  ASSUME AmountInv, LedgerInv', CashInv', NEW o \in OrderIds, NEW payment, NEW date,
         NEW requested, NEW deposit, NEW override,
         CreateOrder(o, payment, date, requested, deposit, override)
  PROVE  OpensOrder(o) /\ ReturnsPriced' /\ AutomaticIsCash'
<1> DEFINE used == TakenFromOwed(owing, requested)
           lent == Minus(requested, used)
           row  == [state |-> "live", payment |-> payment, date |-> date,
                    quantity |-> lent, deposit |-> Priced(lent, deposit), used |-> used]
           amount == IF payment = "CASH" THEN DepositTotal(row) ELSE 0
<1>0. LedgerInv /\ TypeOK /\ TypeOK'
  BY DEF AmountInv, LedgerInv
<1>1. /\ orders' = [orders EXCEPT ![o] = row] /\ orders[o].state = "none"
      /\ DepositTotal(row) \in Counts
      /\ IssuePayment(o, {}, amount)
      /\ UNCHANGED <<returns, refunds>>
  BY DEF CreateOrder, NextFree
<1>2. row.payment = payment /\ row.state = "live"
  OBVIOUS
<1> HIDE DEF row
<1>3. orders'[o] = row /\ \A k \in OrderIds \ {o} : orders'[k] = orders[k]
  BY <1>0, <1>1 DEF TypeOK
<1>4. /\ o \notin Live /\ ReturnsOf(o) = {} /\ PaymentsOf(o) = {}
      /\ CreditsOf(o) = 0 /\ \A i \in Items : BackLeft(o, {}, i) = 0
  BY <1>0, <1>1, NothingOnOthers DEF Live
<1>5. NothingCredited(o)
  <2>1. ReturnsOf(o)' = ReturnsOf(o) /\ \A r \in ReturnsOf(o) : returns'[r] = returns[r]
    BY <1>1 DEF ReturnsOf, StandingReturns
  <2> QED BY <1>4, <2>1, SameReturned DEF NothingCredited
<1>6. PICK total : total = DepositTotal(row)
  OBVIOUS
<1>7. PaidOn(o)' \in {0, total}
  <2>1. CASE payment = "CASH"
    <3>1. IssuePayment(o, {}, total) /\ total \in Counts /\ PaymentsOf(o) \subseteq {}
      BY <1>1, <1>4, <1>6, <2>1
    <3>2. PaidInFull(o, total)'
      BY <1>0, <3>1, IssuedInFull
    <3> QED BY <1>0, <3>2, PaidWhenInFullAfter
  <2>2. CASE payment # "CASH"
    <3>1. payments' = [p \in PaymentIds |-> payments[p]]
      BY <1>1, <2>2 DEF IssuePayment
    <3>2. PaymentsOf(o)' = PaymentsOf(o) /\ \A p \in PaymentsOf(o) : payments'[p] = payments[p]
      BY <3>1 DEF PaymentsOf
    <3>3. PaidOn(o)' = PaidOn(o) /\ PaidOn(o) = 0
      BY <1>4, <3>2, SamePaid, NothingPaidYet
    <3> QED BY <3>3
  <2> QED BY <2>1, <2>2
<1>8. OthersSame({o})
  <2>1. ASSUME NEW k \in OrderIds \ {o}
        PROVE  SameAmounts(k) /\ orders'[k].state = orders[k].state
    <3>1. /\ PaymentsOf(k)' = PaymentsOf(k)
          /\ \A p \in PaymentsOf(k) : payments'[p] = payments[p]
      BY <1>0, <1>1, IssueTouchesOwn
    <3> QED BY <1>1, <1>3, <3>1, ReturnsUntouched, SameRows
  <2> QED BY <2>1 DEF OthersSame
<1>9. ReturnsPriced'
  <2>1. \A r \in StandingReturns : orders'[returns[r].order].deposit
                                     = orders[returns[r].order].deposit
    BY <1>0, <1>3, <1>4 DEF LedgerInv, StandingOnLive, Live
  <2> QED BY <1>1, <2>1, PricedFrame DEF AmountInv
<1>10. AutomaticIsCash'
  <2>1. ASSUME NEW p \in PaymentIds, payments'[p].state = "standing",
               payments'[p].automatic
        PROVE  orders'[payments'[p].order].payment = "CASH"
    <3>0. PICK due : due = amount /\ IssuePayment(o, {}, due)
      BY <1>1
    <3>1. CASE Issued(o, due, p)
      <4>1. payments'[p].order = o /\ payment = "CASH"
        BY <3>0, <3>1 DEF Issued
      <4> QED BY <1>2, <1>3, <4>1
    <3>2. CASE payments'[p] = payments[p]
      <4>1. payments[p].order \in Live
        BY <1>0, <2>1, <3>2 DEF LedgerInv, StandingOnLive
      <4>2. payments[p].order \in OrderIds \ {o}
        BY <1>4, <4>1 DEF Live
      <4> QED BY <1>3, <2>1, <3>2, <4>2 DEF AmountInv, AutomaticIsCash
    <3>3. Issued(o, due, p) \/ payments'[p] = payments[p]
      <4>1. TypeOK /\ p \in PaymentIds
        BY <1>0, <2>1
      <4>2. PICK none : none = {}
        OBVIOUS
      <4>3. IssuePayment(o, none, due)
        BY <3>0, <4>2
      <4>4. \/ Issued(o, due, p)
            \/ p \in none /\ payments'[p] = [payments[p] EXCEPT !.state = "reversed"]
            \/ p \notin none /\ payments'[p] = payments[p]
        BY <4>1, <4>3, IssueEffect
      <4> QED BY <4>2, <4>4
    <3> QED BY <3>1, <3>2, <3>3
  <2> QED BY <2>1 DEF AutomaticIsCash
<1> QED BY <1>1, <1>2, <1>3, <1>5, <1>6, <1>7, <1>8, <1>9, <1>10 DEF OpensOrder

LEMMA EditHeaderAmounts ==
  ASSUME AmountInv, LedgerInv', CashInv', NEW o \in OrderIds, NEW date, EditHeader(o, date)
  PROVE  OthersSame({}) /\ ReturnsPriced' /\ AutomaticIsCash'
<1> DEFINE row == [orders[o] EXCEPT !.date = date]
<1>0. LedgerInv /\ TypeOK /\ orders[o] \in OrderRows
  BY DEF AmountInv, LedgerInv, TypeOK
<1>1. orders' = [orders EXCEPT ![o] = row] /\ UNCHANGED <<returns, refunds, payments>>
  BY DEF EditHeader
<1>2. /\ row.payment = orders[o].payment /\ row.quantity = orders[o].quantity
      /\ row.deposit = orders[o].deposit /\ row.state = orders[o].state
  BY <1>0 DEF OrderRows
<1> HIDE DEF row
<1>3. \A k \in OrderIds : /\ orders'[k].payment = orders[k].payment
                          /\ orders'[k].quantity = orders[k].quantity
                          /\ orders'[k].deposit = orders[k].deposit
                          /\ orders'[k].state = orders[k].state
  BY <1>0, <1>1, <1>2 DEF TypeOK
<1>4. OthersSame({})
  <2>1. ASSUME NEW k \in OrderIds PROVE SameAmounts(k) /\ orders'[k].state = orders[k].state
    <3>1. /\ PaymentsOf(k)' = PaymentsOf(k)
          /\ \A p \in PaymentsOf(k) : payments'[p] = payments[p]
      BY <1>1 DEF PaymentsOf
    <3> QED BY <1>1, <1>3, <2>1, <3>1, ReturnsUntouched, SameRows
  <2> QED BY <2>1 DEF OthersSame
<1>5. ReturnsPriced'
  <2>1. \A r \in StandingReturns : returns[r].order \in OrderIds
    BY <1>0 DEF LedgerInv, StandingOnLive, Live
  <2> QED BY <1>1, <1>3, <2>1, PricedFrame DEF AmountInv
<1>6. AutomaticIsCash'
  <2>1. \A p \in PaymentIds : payments[p].state = "standing" => payments[p].order \in OrderIds
    BY <1>0 DEF LedgerInv, StandingOnLive, Live
  <2> QED BY <1>1, <1>3, <2>1 DEF AmountInv, AutomaticIsCash
<1> QED BY <1>4, <1>5, <1>6

LEMMA EditLinesAmounts ==
  ASSUME AmountInv, LedgerInv', CashInv', NEW o \in OrderIds, NEW date, NEW requested,
         NEW deposit, NEW override, EditLines(o, date, requested, deposit, override)
  PROVE  RepricesOrder(o) /\ ReturnsPriced' /\ AutomaticIsCash'
<1> DEFINE used == TakenFromOwed(Plus([i \in Items |-> Owed(i)], orders[o].used), requested)
           lent == Minus(requested, used)
           row  == [orders[o] EXCEPT !.date = date, !.quantity = lent,
                                     !.deposit = Priced(lent, deposit), !.used = used]
           linesChanged == \/ row.quantity # orders[o].quantity
                           \/ row.deposit # orders[o].deposit
<1>0. LedgerInv /\ TypeOK /\ TypeOK' /\ orders[o] \in OrderRows
  BY DEF AmountInv, LedgerInv, TypeOK
<1>1. /\ orders' = [orders EXCEPT ![o] = row] /\ o \in Live /\ NoActivity(o)
      /\ DepositTotal(row) \in Counts
      /\ UNCHANGED <<returns, refunds>>
  BY DEF EditLines
<1>2. IF linesChanged /\ orders[o].payment = "CASH"
      THEN IssuePayment(o, StandingAutomatic(o), DepositTotal(row))
      ELSE UNCHANGED payments
  BY DEF EditLines
<1>3. row.payment = orders[o].payment /\ row.state = orders[o].state
  BY <1>0 DEF OrderRows
<1> HIDE DEF row, linesChanged
<1>4. orders'[o] = row /\ \A k \in OrderIds \ {o} : orders'[k] = orders[k]
  BY <1>0, <1>1 DEF TypeOK
<1>5. /\ ReturnsOf(o) = {} /\ CreditsOf(o) = 0
      /\ \A i \in Items : BackLeft(o, {}, i) = 0
      /\ PaidOn(o) \in {0, DepositTotal(orders[o])}
      /\ orders[o].payment # "CASH" => PaymentsOf(o) = {}
  BY <1>1, UntouchedOrder
<1>6. NothingCredited(o)
  <2>1. ReturnsOf(o)' = ReturnsOf(o) /\ \A r \in ReturnsOf(o) : returns'[r] = returns[r]
    BY <1>1 DEF ReturnsOf, StandingReturns
  <2> QED BY <1>5, <2>1, SameReturned DEF NothingCredited
<1>7. PICK total : total = DepositTotal(row)
  OBVIOUS
<1>8. PaidOn(o)' \in {0, total}
  <2>1. CASE orders[o].payment = "CASH"
    <3>1. PaidInFull(o, total)'
      <4>1. o \in Live' /\ orders'[o].payment = "CASH"
        BY <1>1, <1>3, <1>4, <2>1 DEF Live
      <4>2. (PaidInFull(o, DepositTotal(orders[o])))'
        BY <4>1 DEF CashInv
      <4>3. DepositTotal(orders[o])' = total
        BY <1>4, <1>7
      <4> QED BY <4>2, <4>3 DEF PaidInFull
    <3> QED BY <1>0, <3>1, PaidWhenInFullAfter
  <2>2. CASE orders[o].payment # "CASH"
    <3>1. UNCHANGED payments /\ PaymentsOf(o) = {}
      BY <1>2, <1>5, <2>2
    <3>2. PaymentsOf(o)' = PaymentsOf(o) /\ \A p \in PaymentsOf(o) : payments'[p] = payments[p]
      BY <3>1 DEF PaymentsOf
    <3>3. PaidOn(o)' = PaidOn(o) /\ PaidOn(o) = 0
      BY <3>1, <3>2, SamePaid, NothingPaidYet
    <3> QED BY <3>3
  <2> QED BY <2>1, <2>2
<1>9. PICK due : due = DepositTotal(row)
  OBVIOUS
<1>10. (orders[o].payment = "CASH" /\ IssuePayment(o, StandingAutomatic(o), due))
         \/ UNCHANGED payments
  BY <1>2, <1>9
<1>11. OthersSame({o})
  <2>1. ASSUME NEW k \in OrderIds \ {o}
        PROVE  SameAmounts(k) /\ orders'[k].state = orders[k].state
    <3>1. /\ PaymentsOf(k)' = PaymentsOf(k)
          /\ \A p \in PaymentsOf(k) : payments'[p] = payments[p]
      <4>1. CASE UNCHANGED payments
        BY <4>1 DEF PaymentsOf
      <4>2. PICK gone : gone = StandingAutomatic(o) /\ gone \subseteq PaymentsOf(o)
        BY DEF StandingAutomatic
      <4> QED BY <1>0, <1>10, <2>1, <4>1, <4>2, IssueTouchesOwn
    <3> QED BY <1>1, <1>4, <2>1, <3>1, ReturnsUntouched, SameRows
  <2> QED BY <2>1 DEF OthersSame
<1>12. ReturnsPriced'
  <2>1. \A r \in StandingReturns : orders'[returns[r].order] = orders[returns[r].order]
    BY <1>0, <1>1, <1>4, NothingStands DEF LedgerInv, StandingOnLive, Live
  <2> QED BY <1>1, <2>1, PricedFrame DEF AmountInv
<1>13. AutomaticIsCash'
  <2>1. ASSUME NEW p \in PaymentIds, payments'[p].state = "standing",
               payments'[p].automatic
        PROVE  orders'[payments'[p].order].payment = "CASH"
    <3>1. \A k \in OrderIds : orders'[k].payment = orders[k].payment
      BY <1>3, <1>4
    <3>2. CASE payments'[p] = payments[p]
      <4>1. payments[p].order \in OrderIds
        BY <1>0, <2>1, <3>2 DEF LedgerInv, StandingOnLive, Live
      <4> QED BY <2>1, <3>1, <3>2, <4>1 DEF AmountInv, AutomaticIsCash
    <3>3. CASE orders[o].payment = "CASH" /\ payments'[p].order = o
      BY <3>1, <3>3
    <3>4. PICK gone : gone = StandingAutomatic(o)
      OBVIOUS
    <3> QED BY <1>0, <1>10, <2>1, <3>2, <3>3, <3>4, IssueKeepsPayments
  <2> QED BY <2>1 DEF AutomaticIsCash
<1> QED BY <1>1, <1>3, <1>4, <1>5, <1>6, <1>7, <1>8, <1>11, <1>12, <1>13
        DEF RepricesOrder, Live

LEMMA CancelOrderAmounts ==
  ASSUME AmountInv, LedgerInv', CashInv', NEW o \in OrderIds, CancelOrder(o)
  PROVE  CancelsOrder(o) /\ ReturnsPriced' /\ AutomaticIsCash'
<1> DEFINE row == [orders[o] EXCEPT !.state = "cancelled", !.used = [i \in Items |-> 0]]
<1>0. LedgerInv /\ TypeOK /\ TypeOK' /\ orders[o] \in OrderRows
  BY DEF AmountInv, LedgerInv, TypeOK
<1>1. /\ orders' = [orders EXCEPT ![o] = row] /\ o \in Live /\ NoActivity(o)
      /\ IssuePayment(o, StandingAutomatic(o), 0)
      /\ UNCHANGED <<returns, refunds>>
  BY DEF CancelOrder
<1>2. /\ row.state = "cancelled" /\ row.payment = orders[o].payment
      /\ row.quantity = orders[o].quantity /\ row.deposit = orders[o].deposit
  BY <1>0 DEF OrderRows
<1> HIDE DEF row
<1>3. orders'[o] = row /\ \A k \in OrderIds \ {o} : orders'[k] = orders[k]
  BY <1>0, <1>1 DEF TypeOK
<1>4. /\ ReturnsOf(o) = {} /\ CreditsOf(o) = 0
      /\ \A i \in Items : BackLeft(o, {}, i) = 0
      /\ PaidOn(o) \in {0, DepositTotal(orders[o])}
  BY <1>1, UntouchedOrder
<1>5. NothingCredited(o)
  <2>1. ReturnsOf(o)' = ReturnsOf(o) /\ \A r \in ReturnsOf(o) : returns'[r] = returns[r]
    BY <1>1 DEF ReturnsOf, StandingReturns
  <2> QED BY <1>4, <2>1, SameReturned DEF NothingCredited
<1>6. PaidOn(o)' = 0
  <2>1. o \notin Live'
    BY <1>2, <1>3 DEF Live
  <2> QED BY <2>1, NothingOnOthersAfter
<1>7. DepositTotal(orders'[o]) = DepositTotal(orders[o])
  BY <1>2, <1>3, DepositOfLines
<1>8. OthersSame({o})
  <2>1. ASSUME NEW k \in OrderIds \ {o}
        PROVE  SameAmounts(k) /\ orders'[k].state = orders[k].state
    <3>1. /\ PaymentsOf(k)' = PaymentsOf(k)
          /\ \A p \in PaymentsOf(k) : payments'[p] = payments[p]
      <4>1. PICK gone : gone = StandingAutomatic(o) /\ gone \subseteq PaymentsOf(o)
        BY DEF StandingAutomatic
      <4> QED BY <1>0, <1>1, <2>1, <4>1, IssueTouchesOwn
    <3> QED BY <1>1, <1>3, <2>1, <3>1, ReturnsUntouched, SameRows
  <2> QED BY <2>1 DEF OthersSame
<1>9. ReturnsPriced'
  <2>1. \A r \in StandingReturns : orders'[returns[r].order] = orders[returns[r].order]
    BY <1>0, <1>1, <1>3, NothingStands DEF LedgerInv, StandingOnLive, Live
  <2> QED BY <1>1, <2>1, PricedFrame DEF AmountInv
<1>10. AutomaticIsCash'
  <2>1. ASSUME NEW p \in PaymentIds, payments'[p].state = "standing",
               payments'[p].automatic
        PROVE  orders'[payments'[p].order].payment = "CASH"
    <3>1. \A k \in OrderIds : orders'[k].payment = orders[k].payment
      BY <1>2, <1>3
    <3>2. PICK gone : gone = StandingAutomatic(o) /\ IssuePayment(o, gone, 0)
      BY <1>1
    <3>3. payments'[p] = payments[p]
      <4>1. ~ Issued(o, 0, p)
        BY DEF Issued
      <4>2. payments[p] \in PaymentRows
        BY <1>0, <2>1 DEF TypeOK
      <4>3. [payments[p] EXCEPT !.state = "reversed"].state # "standing"
        BY <4>2 DEF PaymentRows
      <4> QED BY <1>0, <2>1, <3>2, <4>1, <4>3, IssueEffect
    <3>4. payments[p].order \in OrderIds
      BY <1>0, <2>1, <3>3 DEF LedgerInv, StandingOnLive, Live
    <3> QED BY <2>1, <3>1, <3>3, <3>4 DEF AmountInv, AutomaticIsCash
  <2> QED BY <2>1 DEF AutomaticIsCash
<1> QED BY <1>1, <1>2, <1>3, <1>4, <1>5, <1>6, <1>7, <1>8, <1>9, <1>10
        DEF CancelsOrder, Live

(* A payment is capped by what the rows say is owed, and its reversal takes *)
(* back just what it paid.                                                  *)
LEMMA CreatePaymentAmounts ==
  ASSUME AmountInv, LedgerInv', CashInv', NEW p \in PaymentIds, NEW o \in OrderIds,
         NEW amount \in PaymentAmounts, NEW date, CreatePayment(p, o, amount, date)
  PROVE  PaysOrder(o) /\ ReturnsPriced' /\ AutomaticIsCash'
<1> DEFINE row == [state |-> "standing", order |-> o, automatic |-> FALSE,
                   amount |-> amount, date |-> date]
<1>0. LedgerInv /\ TypeOK /\ TypeOK' /\ ReturnsPriced
  BY DEF AmountInv, LedgerInv
<1>1. /\ payments[p].state = "none" /\ o \in Live
      /\ amount <= TotalsOf(o).owed
      /\ payments' = [payments EXCEPT ![p] = row]
      /\ UNCHANGED <<orders, returns, refunds>>
  BY DEF CreatePayment, NextFree, WithinOwed
<1>2. /\ row.state = "standing" /\ row.order = o /\ row.automatic = FALSE
      /\ row.amount = amount
  OBVIOUS
<1> HIDE DEF row
<1>3. payments'[p] = row /\ \A q \in PaymentIds \ {p} : payments'[q] = payments[q]
  BY <1>0, <1>1 DEF TypeOK
<1>4. amount \in Nat
  BY DataAssumption, BoundsAssumption
<1>5. PaidOn(o)' = PaidOn(o) + amount
  <2> DEFINE S == PaymentsOf(o)
             f == [q \in S |-> payments[q].amount]
             g == [q \in S \cup {p} |-> payments'[q].amount]
  <2>1. PaymentsOf(o)' = S \cup {p} /\ p \notin S /\ S \subseteq PaymentIds
    BY <1>1, <1>2, <1>3 DEF PaymentsOf
  <2>2. PaidOn(o)' = SumOver(S \cup {p}, g)
    BY <2>1 DEF PaidOn
  <2>3. PaidOn(o) = SumOver(S, f)
    BY DEF PaidOn
  <2>4. /\ g[p] = amount /\ g[p] \in Int
        /\ \A q \in S : g[q] = f[q] /\ g[q] \in Int
    BY <1>0, <1>2, <1>3, <1>4, <2>1, RowTypes
  <2>5. IsFiniteSet(S)
    BY PaymentsAreFinite
  <2> HIDE DEF S, f, g
  <2>6. SumOver(S \cup {p}, g) = SumOver(S, g) + g[p]
    <3>1. \A q \in S \cup {p} : g[q] \in Int
      BY <2>4
    <3> QED BY <2>1, <2>5, <3>1, SumOneAdded
  <2>7. SumOver(S, g) = SumOver(S, f)
    BY <2>4, <2>5, SumAgrees
  <2> QED BY <2>2, <2>3, <2>4, <2>6, <2>7
<1>6. /\ \A k \in OrderIds : ReturnsOf(k)' = ReturnsOf(k)
                             /\ \A r \in ReturnsOf(k) : returns'[r] = returns[r]
  BY <1>1 DEF ReturnsOf, StandingReturns
<1>7. CreditsOf(o)' = CreditsOf(o) /\ \A i \in Items : BackLeft(o, {}, i)' = BackLeft(o, {}, i)
  BY <1>6, SameReturned
<1>8. PaidOn(o)' + CreditsOf(o) <= DepositTotal(orders[o])
  <2>1. TotalsOf(o).owed = DepositTotal(orders[o]) - PaidOn(o) - CreditsOf(o)
    BY <1>0, <1>1, TotalsAre, CreditsAreLeft DEF TotalsOf
  <2>2. DepositTotal(orders[o]) \in Nat /\ PaidOn(o) \in Nat /\ CreditsOf(o) \in Int
    BY <1>0, AmountTypes
  <2> QED BY <1>1, <1>4, <1>5, <2>1, <2>2
<1>9. PaidOn(o)' >= PaidOn(o)
  BY <1>0, <1>4, <1>5, AmountTypes
<1>10. OthersSame({o})
  <2>1. ASSUME NEW k \in OrderIds \ {o}
        PROVE  SameAmounts(k) /\ orders'[k].state = orders[k].state
    <3>1. /\ PaymentsOf(k)' = PaymentsOf(k)
          /\ \A q \in PaymentsOf(k) : payments'[q] = payments[q]
      BY <1>1, <1>2, <1>3, <2>1 DEF PaymentsOf
    <3> QED BY <1>1, <1>6, <2>1, <3>1, SameRows
  <2> QED BY <2>1 DEF OthersSame
<1>11. ReturnsPriced'
  BY <1>0, <1>1, PricedFrame
<1>12. AutomaticIsCash'
  BY <1>1, <1>2, <1>3 DEF AmountInv, AutomaticIsCash
<1> QED BY <1>1, <1>7, <1>8, <1>9, <1>10, <1>11, <1>12 DEF PaysOrder, Live

LEMMA ReversePaymentAmounts ==
  ASSUME AmountInv, LedgerInv', CashInv', NEW p \in PaymentIds, ReversePayment(p)
  PROVE  /\ \E o \in OrderIds : UnpaysOrder(o)
         /\ ReturnsPriced' /\ AutomaticIsCash'
<1> DEFINE row == [payments[p] EXCEPT !.state = "reversed"]
<1>0. LedgerInv /\ TypeOK /\ TypeOK' /\ ReturnsPriced /\ payments[p] \in PaymentRows
  BY DEF AmountInv, LedgerInv, TypeOK
<1>1. /\ payments[p].state = "standing"
      /\ payments' = [payments EXCEPT ![p] = row]
      /\ UNCHANGED <<orders, returns, refunds>>
  BY DEF ReversePayment
<1>2. row.state = "reversed" /\ row.order = payments[p].order
  BY <1>0 DEF PaymentRows
<1> HIDE DEF row
<1>3. payments'[p] = row /\ \A q \in PaymentIds \ {p} : payments'[q] = payments[q]
  BY <1>0, <1>1 DEF TypeOK
<1>4. PICK o \in OrderIds : o = payments[p].order /\ o \in Live
  BY <1>0, <1>1 DEF LedgerInv, StandingOnLive, Live
<1>5. PaidOn(o)' <= PaidOn(o)
  <2> DEFINE S == PaymentsOf(o)
             f == [q \in S |-> payments[q].amount]
             g == [q \in S \ {p} |-> payments'[q].amount]
  <2>1. PaymentsOf(o)' = S \ {p} /\ p \in S /\ S \subseteq PaymentIds
    BY <1>1, <1>2, <1>3, <1>4 DEF PaymentsOf
  <2>2. PaidOn(o)' = SumOver(S \ {p}, g)
    BY <2>1 DEF PaidOn
  <2>3. PaidOn(o) = SumOver(S, f)
    BY DEF PaidOn
  <2>4. \A q \in S : f[q] \in Nat /\ (q # p => g[q] = f[q])
    BY <1>0, <1>3, <2>1, RowTypes
  <2>5. IsFiniteSet(S) /\ IsFiniteSet(S \ {p})
    BY PaymentsAreFinite, FS_Subset
  <2> HIDE DEF S, f, g
  <2>6. SumOver(S, f) = f[p] + SumOver(S \ {p}, f)
    BY <2>1, <2>4, <2>5, SumTakesOut
  <2>7. SumOver(S \ {p}, g) = SumOver(S \ {p}, f)
    BY <2>4, <2>5, SumAgrees
  <2>8. f[p] \in Nat /\ SumOver(S \ {p}, f) \in Nat
    BY <2>1, <2>4, <2>5, SumIsNat
  <2> QED BY <2>2, <2>3, <2>6, <2>7, <2>8
<1>6. /\ \A k \in OrderIds : ReturnsOf(k)' = ReturnsOf(k)
                             /\ \A r \in ReturnsOf(k) : returns'[r] = returns[r]
  BY <1>1 DEF ReturnsOf, StandingReturns
<1>7. CreditsOf(o)' = CreditsOf(o) /\ \A i \in Items : BackLeft(o, {}, i)' = BackLeft(o, {}, i)
  BY <1>6, SameReturned
<1>8. OthersSame({o})
  <2>1. ASSUME NEW k \in OrderIds \ {o}
        PROVE  SameAmounts(k) /\ orders'[k].state = orders[k].state
    <3>1. /\ PaymentsOf(k)' = PaymentsOf(k)
          /\ \A q \in PaymentsOf(k) : payments'[q] = payments[q]
      BY <1>2, <1>3, <1>4, <2>1 DEF PaymentsOf
    <3> QED BY <1>1, <1>6, <2>1, <3>1, SameRows
  <2> QED BY <2>1 DEF OthersSame
<1>9. ReturnsPriced'
  BY <1>0, <1>1, PricedFrame
<1>10. AutomaticIsCash'
  BY <1>1, <1>2, <1>3 DEF AmountInv, AutomaticIsCash
<1>11. UnpaysOrder(o)
  BY <1>1, <1>4, <1>5, <1>7, <1>8 DEF UnpaysOrder, Live
<1> QED BY <1>9, <1>10, <1>11
-----------------------------------------------------------------------------
(* What a plan writes has an id of its own for each order, not used before. *)
LEMMA NewIdsDiffer ==
  ASSUME NEW plan, DOMAIN plan \subseteq OrderIds
  PROVE  /\ FirstNew \in Nat \ {0}
         /\ \A o \in Written(plan) : NewId(plan, o) \in Nat \ {0}
         /\ \A o, k \in Written(plan) : NewId(plan, o) = NewId(plan, k) => o = k
<1> DEFINE before(o) == {p \in Written(plan) : p < o}
<1>1. /\ Written(plan) \subseteq OrderIds
      /\ \A o : IsFiniteSet(before(o)) /\ Cardinality(before(o)) \in Nat
  <2>1. Written(plan) \subseteq OrderIds
    BY DEF Written
  <2>2. ASSUME NEW o PROVE IsFiniteSet(before(o)) /\ Cardinality(before(o)) \in Nat
    <3>1. before(o) \subseteq OrderIds
      BY <2>1
    <3> HIDE DEF before
    <3>2. IsFiniteSet(before(o))
      BY <3>1, RowsAreFinite, FS_Subset
    <3> QED BY <3>2, FS_CardinalityType
  <2> QED BY <2>1, <2>2
<1>2. FirstNew \in Nat \ {0}
  <2> DEFINE used == {r \in ReturnIds : returns[r].state # "none"}
  <2>1. {0} \cup used \in SUBSET (0 .. MaxReturns) /\ {0} \cup used # {}
    BY BoundsAssumption DEF ReturnIds
  <2> HIDE DEF used
  <2>2. Max({0} \cup used) \in 0 .. MaxReturns
    BY <2>1, LargestCount, BoundsAssumption
  <2> QED BY <2>2 DEF FirstNew, used
<1>3. \A o : NewId(plan, o) = FirstNew + Cardinality(before(o))
  BY DEF NewId
<1>4. ASSUME NEW o \in Written(plan), NEW k \in Written(plan), o < k
      PROVE  Cardinality(before(o)) < Cardinality(before(k))
  <2>1. o \in OrderIds /\ k \in OrderIds
    BY <1>1
  <2>2. before(o) \cup {o} \subseteq before(k)
    BY <1>1, <1>4, <2>1 DEF OrderIds
  <2>3. o \notin before(o)
    BY <2>1 DEF OrderIds
  <2> HIDE DEF before
  <2>4. /\ IsFiniteSet(before(o) \cup {o})
        /\ Cardinality(before(o) \cup {o}) = Cardinality(before(o)) + 1
    BY <1>1, <2>3, FS_AddElement
  <2>5. Cardinality(before(o) \cup {o}) <= Cardinality(before(k))
    BY <1>1, <2>2, FS_Subset
  <2> QED BY <1>1, <2>4, <2>5
<1> HIDE DEF before
<1>5. \A o \in Written(plan) : NewId(plan, o) \in Nat \ {0}
  BY <1>1, <1>2, <1>3
<1>6. ASSUME NEW o \in Written(plan), NEW k \in Written(plan),
             NewId(plan, o) = NewId(plan, k)
      PROVE  o = k
  <2>1. Cardinality(before(o)) = Cardinality(before(k))
    BY <1>1, <1>2, <1>3, <1>6
  <2>2. o \in Int /\ k \in Int
    BY <1>1 DEF OrderIds
  <2>3. ~ (o < k) /\ ~ (k < o)
    BY <1>1, <1>4, <2>1
  <2> QED BY <2>2, <2>3
<1> QED BY <1>2, <1>5, <1>6

(* A plan takes back, on each order it covers, one of that order's standing *)
(* returns or none, and writes what is within the pallets then out.         *)
Back(plan, o) == {plan[o].old} \ {0}
PlanFits(plan) ==
    /\ DOMAIN plan \subseteq Live
    /\ \A o \in DOMAIN plan : plan[o].old # 0 => plan[o].old \in ReturnsOf(o)
    /\ \A o \in Written(plan) : WithinOut(TotalsWithout(o, Back(plan, o)).out, plan[o].body)

LEMMA TakenBackOfOrder ==
  ASSUME NEW plan, PlanFits(plan)
  PROVE  /\ TakenBack(plan) \subseteq StandingReturns
         /\ \A o \in DOMAIN plan : ReturnsOf(o) \ TakenBack(plan) = ReturnsOf(o) \ Back(plan, o)
<1>1. 0 \notin ReturnIds
  BY BoundsAssumption DEF ReturnIds
<1>2. ASSUME NEW r \in TakenBack(plan)
      PROVE  \E k \in DOMAIN plan : r = plan[k].old /\ r \in ReturnsOf(k)
  BY DEF TakenBack, PlanFits
<1>3. TakenBack(plan) \subseteq StandingReturns
  BY <1>2 DEF ReturnsOf
<1>4. ASSUME NEW o \in DOMAIN plan
      PROVE  ReturnsOf(o) \ TakenBack(plan) = ReturnsOf(o) \ Back(plan, o)
  <2>1. Back(plan, o) \subseteq TakenBack(plan)
    BY DEF Back, TakenBack
  <2>2. ASSUME NEW r \in ReturnsOf(o), r \in TakenBack(plan) PROVE r \in Back(plan, o)
    <3>1. PICK k \in DOMAIN plan : r = plan[k].old /\ r \in ReturnsOf(k)
      BY <1>2, <2>2
    <3>2. k = o
      BY <2>2, <3>1 DEF ReturnsOf
    <3> QED BY <1>1, <3>1, <3>2 DEF Back, ReturnsOf, StandingReturns
  <2> QED BY <2>1, <2>2
<1> QED BY <1>3, <1>4

(* What a plan leaves of the standing returns: those it does not take back, *)
(* as they were, and those it writes.                                       *)
LEMMA PlanRows ==
  ASSUME LedgerInv, NEW plan, PlanFits(plan), NEW date, NEW withOrder, NEW visit,
         WriteReturns(plan, date, withOrder, visit)
  PROVE  /\ NewIds(plan) \subseteq ReturnIds
         /\ \A r \in NewIds(plan) : returns[r].state = "none"
         /\ \A r \in StandingReturns \ TakenBack(plan) : returns'[r] = returns[r]
         /\ \A o \in Written(plan) :
              /\ NewId(plan, o) \in NewIds(plan)
              /\ returns'[NewId(plan, o)] = NewReturn(o, TakenBack(plan), plan[o].body,
                                                      date, withOrder, visit)
              /\ returns'[NewId(plan, o)] \in ReturnRows
         /\ StandingReturns' = (StandingReturns \ TakenBack(plan)) \cup NewIds(plan)
<1> DEFINE old == TakenBack(plan)
           new == NewIds(plan)
           row == [r \in new |-> LET k == OrderOfNew(plan, r)
                                 IN  NewReturn(k, old, plan[k].body, date, withOrder, visit)]
           replacement(r) == LET k == OrderOfOld(plan, r)
                             IN  IF k \in Written(plan) THEN NewId(plan, k) ELSE 0
<1>1. /\ new \subseteq ReturnIds
      /\ returns' = [r \in ReturnIds |->
            IF r \in new THEN row[r]
            ELSE IF r \in old THEN Reversed(r, replacement(r)) ELSE returns[r]]
      /\ \A r \in new : row[r] \in ReturnRows
  BY DEF WriteReturns
<1>2. DOMAIN plan \subseteq OrderIds /\ TypeOK
  BY DEF PlanFits, Live, LedgerInv
<1>3. \A r \in new : returns[r].state = "none"
  BY <1>1, <1>2, NewIsUnused
<1>4. \A k \in Written(plan) :
        /\ NewId(plan, k) \in new
        /\ row[NewId(plan, k)] = NewReturn(k, old, plan[k].body, date, withOrder, visit)
  <2>1. ASSUME NEW k \in Written(plan) PROVE OrderOfNew(plan, NewId(plan, k)) = k
    <3> DEFINE q == OrderOfNew(plan, NewId(plan, k))
    <3>1. q \in Written(plan) /\ NewId(plan, q) = NewId(plan, k)
      BY <2>1 DEF OrderOfNew
    <3> HIDE DEF q
    <3>2. q = k
      BY <1>2, <2>1, <3>1, NewIdsDiffer
    <3> QED BY <3>2 DEF q
  <2> QED BY <2>1 DEF NewIds
<1>5. \A r \in new : row[r].state = "standing"
  BY DEF NewReturn
<1>6. \A r \in old \ new : r \in ReturnIds => returns'[r].state # "standing"
  <2>1. ASSUME NEW r \in old \ new, r \in ReturnIds PROVE returns'[r].state # "standing"
    <3>1. returns'[r] = Reversed(r, replacement(r))
      BY <1>1, <2>1
    <3>2. returns[r] \in ReturnRows
      BY <1>2, <2>1 DEF TypeOK
    <3> HIDE DEF replacement
    <3>3. Reversed(r, replacement(r)).state # "standing"
      BY <3>2 DEF Reversed, ReturnRows
    <3> QED BY <3>1, <3>3
  <2> QED BY <2>1
<1> HIDE DEF row, replacement
<1>7. \A r \in StandingReturns \ old : returns'[r] = returns[r] /\ r \in StandingReturns'
  BY <1>1, <1>3 DEF StandingReturns
<1>8. \A r \in new : returns'[r] = row[r] /\ r \in StandingReturns'
  BY <1>1, <1>5 DEF StandingReturns
<1>9. ASSUME NEW r \in StandingReturns', r \notin new PROVE r \in StandingReturns \ old
  <2>1. r \in ReturnIds /\ returns'[r].state = "standing"
    BY <1>9 DEF StandingReturns
  <2>2. r \notin old
    BY <1>6, <1>9, <2>1
  <2> QED BY <1>1, <1>9, <2>1, <2>2 DEF StandingReturns
<1>10. StandingReturns' = (StandingReturns \ old) \cup new
  BY <1>7, <1>8, <1>9
<1> QED BY <1>1, <1>3, <1>4, <1>7, <1>8, <1>10

(* So an order it covers is left with its other returns, as they were, and  *)
(* with the one written on it, if one is.                                   *)
LEMMA PlanOnOrder ==
  ASSUME LedgerInv, NEW plan, PlanFits(plan), NEW date, NEW withOrder, NEW visit,
         WriteReturns(plan, date, withOrder, visit), NEW o \in DOMAIN plan
  PROVE  /\ \A r \in ReturnsOf(o) \ Back(plan, o) : returns'[r] = returns[r]
         /\ o \notin Written(plan) => ReturnsOf(o)' = ReturnsOf(o) \ Back(plan, o)
         /\ o \in Written(plan) =>
              /\ NewId(plan, o) \in ReturnIds \ ReturnsOf(o)
              /\ ReturnsOf(o)' = (ReturnsOf(o) \ Back(plan, o)) \cup {NewId(plan, o)}
              /\ returns'[NewId(plan, o)] = NewReturn(o, TakenBack(plan), plan[o].body,
                                                      date, withOrder, visit)
              /\ returns'[NewId(plan, o)] \in ReturnRows
<1> DEFINE old == TakenBack(plan)
           new == NewIds(plan)
<1>1. /\ new \subseteq ReturnIds
      /\ \A r \in new : returns[r].state = "none"
      /\ \A r \in StandingReturns \ old : returns'[r] = returns[r]
      /\ \A k \in Written(plan) :
            /\ NewId(plan, k) \in new
            /\ returns'[NewId(plan, k)] = NewReturn(k, old, plan[k].body,
                                                    date, withOrder, visit)
            /\ returns'[NewId(plan, k)] \in ReturnRows
      /\ StandingReturns' = (StandingReturns \ old) \cup new
  BY PlanRows
<1>2. ReturnsOf(o) \ old = ReturnsOf(o) \ Back(plan, o)
  BY TakenBackOfOrder
<1>3. \A k \in Written(plan) : returns'[NewId(plan, k)].order = k
  <2>1. \A k, body : NewReturn(k, old, body, date, withOrder, visit).order = k
    BY DEF NewReturn
  <2> HIDE DEF old, new
  <2> QED BY <1>1, <2>1
<1>4. \A r \in new : \E k \in Written(plan) : r = NewId(plan, k)
  BY DEF NewIds
<1> HIDE DEF old, new
<1>5. ASSUME NEW r \in ReturnsOf(o) \ old
      PROVE  returns'[r] = returns[r] /\ r \in ReturnsOf(o)'
  BY <1>1, <1>5 DEF ReturnsOf
<1>6. ASSUME NEW r \in ReturnsOf(o)'
      PROVE  r \in ReturnsOf(o) \ old \/ (o \in Written(plan) /\ r = NewId(plan, o))
  <2>1. r \in StandingReturns' /\ returns'[r].order = o
    BY <1>6 DEF ReturnsOf
  <2>2. CASE r \in new
    BY <1>3, <1>4, <2>1, <2>2
  <2>3. CASE r \in StandingReturns \ old
    BY <1>1, <2>1, <2>3 DEF ReturnsOf
  <2> QED BY <1>1, <2>1, <2>2, <2>3
<1>7. CASE o \in Written(plan)
  <2>1. NewId(plan, o) \in ReturnsOf(o)'
    BY <1>1, <1>3, <1>7 DEF ReturnsOf
  <2>2. NewId(plan, o) \notin ReturnsOf(o)
    BY <1>1, <1>7 DEF ReturnsOf, StandingReturns
  <2>3. ReturnsOf(o)' = (ReturnsOf(o) \ old) \cup {NewId(plan, o)}
    BY <1>5, <1>6, <2>1
  <2> QED BY <1>1, <1>2, <1>5, <1>7, <2>2, <2>3 DEF old
<1>8. CASE o \notin Written(plan)
  <2>1. ReturnsOf(o)' = ReturnsOf(o) \ old
    BY <1>5, <1>6, <1>8
  <2> QED BY <1>2, <1>5, <1>8, <2>1
<1> QED BY <1>7, <1>8

(* What returns credit is never negative, so the fewer the less.            *)
LEMMA CreditsLeftBounded ==
  ASSUME TypeOK, ReturnsPriced, NEW o \in OrderIds, NEW gone
  PROVE  CreditsLeft(o, gone) \in Nat /\ CreditsLeft(o, gone) <= CreditsOf(o)
<1> DEFINE S == ReturnsOf(o)
           P == ReturnsOf(o) \ gone
           f == [r \in S |-> CreditOf(r)]
           g == [r \in P |-> CreditOf(r)]
<1>1. \A r \in S : f[r] \in Nat
  <2>1. S \subseteq StandingReturns /\ StandingReturns \subseteq ReturnIds
    BY DEF ReturnsOf, StandingReturns
  <2> QED BY <2>1, RowTypes DEF ReturnsPriced, CreditOf
<1>2. \A r \in P : f[r] = g[r]
  OBVIOUS
<1>3. CreditsOf(o) = SumOver(S, f) /\ CreditsLeft(o, gone) = SumOver(P, g)
  BY DEF CreditsOf, CreditsLeft, CreditOf
<1>4. IsFiniteSet(S) /\ IsFiniteSet(P) /\ P \in SUBSET S
  <2>1. S \subseteq ReturnIds
    BY DEF ReturnsOf, StandingReturns
  <2> QED BY <2>1, RowsAreFinite, FS_Subset, ReturnsAreFinite
<1> HIDE DEF S, P, f, g
<1>5. SumOver(P, f) = SumOver(P, g)
  BY <1>2, <1>4, SumAgrees
<1>6. SumOver(P, f) <= SumOver(S, f)
  BY <1>1, <1>4, SumOfPartAtMost
<1>7. \A r \in P : f[r] \in Nat
  BY <1>1, <1>4
<1>8. SumOver(P, f) \in Nat
  BY <1>4, <1>7, SumIsNat
<1> QED BY <1>3, <1>5, <1>6, <1>8

LEMMA DueIsNat ==
  ASSUME NEW deposit, \A i \in Items : deposit[i] \in Nat, NEW body \in Bodies
  PROVE  RefundDue(deposit, body) \in Nat
<1> DEFINE f == [i \in Items |-> body.accepted[i] * deposit[i] + body.damagedRefund[i]]
<1>1. \A i \in Items : f[i] \in Nat
  <2> SUFFICES ASSUME NEW i \in Items PROVE f[i] \in Nat
    OBVIOUS
  <2>1. body.accepted[i] \in Nat /\ body.damagedRefund[i] \in Nat
    BY BoundsAssumption DEF Bodies
  <2>2. body.accepted[i] * deposit[i] \in Nat
    BY <2>1
  <2> QED BY <2>1, <2>2
<1> HIDE DEF f
<1>2. SumOver(Items, f) \in Nat
  BY <1>1, SumIsNat, DataAssumption
<1> QED BY <1>2 DEF RefundDue, f

(* What a return written now credits fits what its order owed without the   *)
(* ones it replaces: the rest of its worth is paid out.                     *)
LEMMA NewCreditFits ==
  ASSUME AmountInv, NEW plan, PlanFits(plan), NEW o \in Written(plan),
         NEW date, NEW withOrder, NEW visit, NEW row,
         row = NewReturn(o, TakenBack(plan), plan[o].body, date, withOrder, visit),
         row \in ReturnRows
  PROVE  /\ row.refundDue = RefundDue(orders[o].deposit, row.body)
         /\ row.refundDue \in Nat /\ row.cashRefund \in Nat
         /\ row.cashRefund <= row.refundDue
         /\ PaidOn(o) + CreditsLeft(o, Back(plan, o)) + (row.refundDue - row.cashRefund)
              <= DepositTotal(orders[o])
         /\ \A i \in Items : row.body.accepted[i] + row.body.damaged[i]
              <= orders[o].quantity[i] - BackLeft(o, Back(plan, o), i)
<1> DEFINE gone == TakenBack(plan)
           D == DepositTotal(orders[o])
<1>0. /\ LedgerInv /\ ReturnsPriced /\ TypeOK /\ WithinOrder(o)
      /\ o \in DOMAIN plan /\ o \in Live /\ o \in OrderIds
  BY DEF AmountInv, LedgerInv, PlanFits, Live, Written
<1>1. /\ row.body = plan[o].body
      /\ row.refundDue = RefundDue(orders[o].deposit, plan[o].body)
      /\ row.cashRefund = ZeroOrMore(row.refundDue - TotalsWithout(o, gone).owed)
  BY DEF NewReturn, CashRefund
<1>2. row.refundDue \in Nat
  <2>1. row.body \in Bodies
    BY DEF ReturnRows
  <2>2. \A i \in Items : orders[o].deposit[i] \in Nat
    BY <1>0, RowTypes
  <2> QED BY <1>1, <2>1, <2>2, DueIsNat
<1>3. TotalsWithout(o, gone).owed = D - PaidOn(o) - CreditsLeft(o, gone)
  BY <1>0, TotalsAre
<1>4. ReturnsOf(o) \ gone = ReturnsOf(o) \ Back(plan, o)
  BY <1>0, TakenBackOfOrder
<1>5. CreditsLeft(o, gone) = CreditsLeft(o, Back(plan, o))
  BY <1>4 DEF CreditsLeft
<1>6. /\ D \in Nat /\ PaidOn(o) \in Nat /\ CreditsOf(o) \in Int
      /\ CreditsLeft(o, gone) \in Nat /\ CreditsLeft(o, gone) <= CreditsOf(o)
  BY <1>0, AmountTypes, CreditsLeftBounded
<1>7. PaidOn(o) + CreditsOf(o) <= D
  BY <1>0 DEF WithinOrder
<1>8. \A i \in Items : row.body.accepted[i] + row.body.damaged[i]
                         <= orders[o].quantity[i] - BackLeft(o, Back(plan, o), i)
  BY <1>0, <1>1, TotalsAre DEF PlanFits, WithinOut
<1> HIDE DEF gone, D
<1>9. D - PaidOn(o) - CreditsLeft(o, gone) \in Nat
  BY <1>6, <1>7
<1>10. /\ row.cashRefund \in Nat /\ row.cashRefund <= row.refundDue
       /\ row.refundDue - row.cashRefund <= D - PaidOn(o) - CreditsLeft(o, gone)
  <2>1. PICK left \in Nat : left = D - PaidOn(o) - CreditsLeft(o, gone)
    BY <1>9
  <2>2. row.cashRefund = ZeroOrMore(row.refundDue - left)
    BY <1>1, <1>3, <2>1
  <2> QED BY <1>2, <2>1, <2>2 DEF ZeroOrMore
<1>11. PaidOn(o) + CreditsLeft(o, gone) + (row.refundDue - row.cashRefund) <= D
  BY <1>2, <1>6, <1>10
<1> QED BY <1>1, <1>2, <1>5, <1>8, <1>10, <1>11 DEF D

(* So on each order it covers a plan credits no more than is owed and takes *)
(* back no more than is out; others it leaves alone.                        *)
LEMMA PlanCredits ==
  ASSUME AmountInv, TypeOK', NEW plan, PlanFits(plan), NEW date, NEW withOrder, NEW visit,
         WriteReturns(plan, date, withOrder, visit), NEW o \in DOMAIN plan
  PROVE  /\ CreditsOf(o)' \in Nat
         /\ PaidOn(o) + CreditsOf(o)' <= DepositTotal(orders[o])
         /\ \A i \in Items : BackLeft(o, {}, i)' <= orders[o].quantity[i]
<1>a. PICK id : id = NewId(plan, o)
  OBVIOUS
<1> DEFINE row == returns'[id]
           S == ReturnsOf(o) \ Back(plan, o)
           f == [r \in S |-> CreditOf(r)]
           g == [r \in ReturnsOf(o)' |-> CreditOf(r)']
<1>0. /\ LedgerInv /\ ReturnsPriced /\ TypeOK /\ WithinOrder(o)
      /\ o \in Live /\ o \in OrderIds
  BY DEF AmountInv, LedgerInv, PlanFits, Live
<1>1. /\ \A r \in S : returns'[r] = returns[r]
      /\ o \notin Written(plan) => ReturnsOf(o)' = S
      /\ o \in Written(plan) =>
              /\ id \in ReturnIds \ ReturnsOf(o)
              /\ ReturnsOf(o)' = S \cup {id}
              /\ row = NewReturn(o, TakenBack(plan), plan[o].body, date, withOrder, visit)
              /\ row \in ReturnRows
  BY <1>a, <1>0, PlanOnOrder
<1>2. CreditsOf(o)' = SumOver(ReturnsOf(o)', g)
  BY DEF CreditsOf, CreditOf
<1>3. CreditsLeft(o, Back(plan, o)) = SumOver(S, f)
  BY DEF CreditsLeft
<1>4. \A i \in Items : BackLeft(o, {}, i)'
        = SumOver(ReturnsOf(o)' \ {}, [r \in ReturnsOf(o)' \ {} |-> BackOf(r, i)'])
  BY DEF BackLeft
<1>5. \A i \in Items : BackLeft(o, Back(plan, o), i) = SumOver(S, [r \in S |-> BackOf(r, i)])
  BY DEF BackLeft
<1>6. IsFiniteSet(S) /\ S \subseteq ReturnIds
  BY ReturnsAreFinite DEF ReturnsOf, StandingReturns
<1>7. /\ CreditsLeft(o, Back(plan, o)) \in Nat
      /\ CreditsLeft(o, Back(plan, o)) <= CreditsOf(o)
      /\ CreditsOf(o) \in Int /\ PaidOn(o) \in Nat /\ DepositTotal(orders[o]) \in Nat
      /\ \A i \in Items : BackLeft(o, Back(plan, o), i) \in Nat
                          /\ orders[o].quantity[i] \in Nat
  BY <1>0, AmountTypes, CreditsLeftBounded, RowTypes
<1>8. /\ \A r \in S : /\ f[r] \in Int
                      /\ r \in ReturnsOf(o)' => g[r] = f[r]
                      /\ \A i \in Items : BackOf(r, i)' = BackOf(r, i) /\ BackOf(r, i) \in Nat
  <2>1. ASSUME NEW r \in S
        PROVE  /\ f[r] \in Int
               /\ r \in ReturnsOf(o)' => g[r] = f[r]
               /\ \A i \in Items : BackOf(r, i)' = BackOf(r, i) /\ BackOf(r, i) \in Nat
    <3>1. returns'[r] = returns[r] /\ r \in ReturnIds
      BY <1>1, <1>6
    <3> QED BY <1>0, <3>1, RowTypes DEF CreditOf, BackOf
  <2> QED BY <2>1
<1>9. CASE o \notin Written(plan)
  <2>1. ReturnsOf(o)' = S /\ ReturnsOf(o)' \ {} = S
    BY <1>1, <1>9
  <2>2. CreditsOf(o)' = CreditsLeft(o, Back(plan, o))
    <3> HIDE DEF S, f, g
    <3> QED BY <1>2, <1>3, <1>6, <1>8, <2>1, SumAgrees
  <2>3. ASSUME NEW i \in Items
        PROVE  BackLeft(o, {}, i)' = BackLeft(o, Back(plan, o), i)
    <3>1. [r \in S |-> BackOf(r, i)'] = [r \in S |-> BackOf(r, i)]
      BY <1>8
    <3> QED BY <1>4, <1>5, <2>1, <3>1
  <2>5. \A i \in Items : BackLeft(o, Back(plan, o), i) <= BackLeft(o, {}, i)
    <3> SUFFICES ASSUME NEW i \in Items
                 PROVE  BackLeft(o, Back(plan, o), i) <= BackLeft(o, {}, i)
      OBVIOUS
    <3> DEFINE all == [r \in ReturnsOf(o) \ {} |-> BackOf(r, i)]
               some == [r \in S |-> BackOf(r, i)]
    <3>1. \A r \in ReturnsOf(o) \ {} : all[r] \in Nat
      BY <1>0, RowTypes DEF ReturnsOf, StandingReturns
    <3>2. \A r \in S : some[r] = all[r]
      OBVIOUS
    <3>3. IsFiniteSet(ReturnsOf(o) \ {}) /\ S \in SUBSET (ReturnsOf(o) \ {})
      BY ReturnsAreFinite
    <3>4. BackLeft(o, {}, i) = SumOver(ReturnsOf(o) \ {}, all)
      BY DEF BackLeft
    <3>5. BackLeft(o, Back(plan, o), i) = SumOver(S, some)
      BY <1>5
    <3> HIDE DEF S, all, some
    <3>6. SumOver(S, all) <= SumOver(ReturnsOf(o) \ {}, all)
      BY <3>1, <3>3, SumOfPartAtMost
    <3>7. SumOver(S, some) = SumOver(S, all)
      BY <1>6, <3>2, SumAgrees
    <3> QED BY <3>4, <3>5, <3>6, <3>7
  <2>6. \A i \in Items : BackLeft(o, {}, i) \in Nat /\ BackLeft(o, {}, i) <= orders[o].quantity[i]
    BY <1>0, AmountTypes DEF WithinOrder
  <2>7. \A i \in Items : BackLeft(o, {}, i)' <= orders[o].quantity[i]
    <3> SUFFICES ASSUME NEW i \in Items PROVE BackLeft(o, {}, i)' <= orders[o].quantity[i]
      OBVIOUS
    <3>1. /\ BackLeft(o, Back(plan, o), i) \in Nat /\ BackLeft(o, {}, i) \in Nat
          /\ orders[o].quantity[i] \in Nat
      BY <1>7, <2>6
    <3> QED BY <2>3, <2>5, <2>6, <3>1
  <2>8. PaidOn(o) + CreditsOf(o) <= DepositTotal(orders[o])
    BY <1>0 DEF WithinOrder
  <2> QED BY <1>7, <2>2, <2>7, <2>8
<1>10. CASE o \in Written(plan)
  <2>1. /\ id \in ReturnIds /\ id \notin S /\ ReturnsOf(o)' = S \cup {id}
        /\ ReturnsOf(o)' \ {} = S \cup {id}
        /\ row = NewReturn(o, TakenBack(plan), plan[o].body, date, withOrder, visit)
        /\ row \in ReturnRows
    BY <1>1, <1>10
  <2>2. PICK new : new = row
    OBVIOUS
  <2>3. /\ new.refundDue \in Nat /\ new.cashRefund \in Nat /\ new.cashRefund <= new.refundDue
        /\ PaidOn(o) + CreditsLeft(o, Back(plan, o)) + (new.refundDue - new.cashRefund)
             <= DepositTotal(orders[o])
        /\ \A i \in Items : new.body.accepted[i] + new.body.damaged[i]
              <= orders[o].quantity[i] - BackLeft(o, Back(plan, o), i)
    <3>1. new = NewReturn(o, TakenBack(plan), plan[o].body, date, withOrder, visit)
          /\ new \in ReturnRows
      BY <2>1, <2>2
    <3> HIDE DEF row, S, f, g
    <3> QED BY <1>10, <3>1, NewCreditFits
  <2>4. CreditOf(id)' = new.refundDue - new.cashRefund
    BY <2>2 DEF CreditOf
  <2>5. CreditsOf(o)' = CreditsLeft(o, Back(plan, o)) + (new.refundDue - new.cashRefund)
    <3>2. g[id] = new.refundDue - new.cashRefund
      BY <2>1, <2>4
    <3>a. \A r \in S : g[r] = f[r] /\ f[r] \in Int
      <4> HIDE DEF f, g
      <4> QED BY <1>8, <2>1
    <3>b. g[id] \in Int
      <4> HIDE DEF g
      <4> QED BY <2>3, <3>2
    <3>1. \A r \in S \cup {id} : g[r] \in Int /\ (r \in S => g[r] = f[r])
      <4> HIDE DEF f, g
      <4> QED BY <3>a, <3>b
    <3> HIDE DEF S, f, g, row
    <3>3. SumOver(S \cup {id}, g) = SumOver(S, g) + g[id]
      BY <1>6, <2>1, <3>1, SumOneAdded
    <3>4. SumOver(S, g) = SumOver(S, f)
      BY <1>6, <3>1, SumAgrees
    <3> QED BY <1>2, <1>3, <2>1, <3>2, <3>3, <3>4
  <2>6. ASSUME NEW i \in Items
        PROVE  BackLeft(o, {}, i)' <= orders[o].quantity[i]
    <3> DEFINE before == [r \in S |-> BackOf(r, i)]
               after == [r \in S \cup {id} |-> BackOf(r, i)']
    <3>1. BackOf(id, i)' = new.body.accepted[i] + new.body.damaged[i]
      BY <2>2 DEF BackOf
    <3>2. BackOf(id, i)' \in Nat
      <4>1. new.body.accepted[i] \in Nat /\ new.body.damaged[i] \in Nat
        BY <2>1, <2>2, BoundsAssumption DEF ReturnRows, Bodies
      <4> QED BY <3>1, <4>1
    <3>a. after[id] = BackOf(id, i)'
      OBVIOUS
    <3>b. ASSUME NEW r \in S PROVE after[r] = before[r] /\ before[r] \in Nat
      BY <1>8
    <3>3. \A r \in S \cup {id} : after[r] \in Int /\ (r \in S => after[r] = before[r])
      <4> HIDE DEF after, before
      <4> QED BY <3>2, <3>a, <3>b
    <3>4. BackLeft(o, {}, i)' = SumOver(S \cup {id}, after)
      BY <1>4, <2>1
    <3>5. BackLeft(o, Back(plan, o), i) = SumOver(S, before)
      BY <1>5
    <3>6. /\ BackLeft(o, Back(plan, o), i) \in Nat /\ orders[o].quantity[i] \in Nat
          /\ BackOf(id, i)' <= orders[o].quantity[i] - BackLeft(o, Back(plan, o), i)
      BY <1>7, <2>3, <3>1
    <3> HIDE DEF S, before, after, row
    <3>7. SumOver(S \cup {id}, after) = SumOver(S, after) + after[id]
      BY <1>6, <2>1, <3>3, SumOneAdded
    <3>8. SumOver(S, after) = SumOver(S, before)
      BY <1>6, <3>3, SumAgrees
    <3>9. PICK b : b = BackOf(id, i)'
      OBVIOUS
    <3> QED BY <3>a, <3>2, <3>3, <3>4, <3>5, <3>6, <3>7, <3>8, <3>9
  <2> QED BY <1>7, <2>3, <2>5, <2>6
<1> QED BY <1>9, <1>10

LEMMA PlanLeavesOthers ==
  ASSUME LedgerInv, NEW plan, PlanFits(plan), NEW date, NEW withOrder, NEW visit,
         WriteReturns(plan, date, withOrder, visit), NEW k \in OrderIds \ DOMAIN plan
  PROVE  ReturnsOf(k)' = ReturnsOf(k) /\ \A r \in ReturnsOf(k) : returns'[r] = returns[r]
<1>0. DOMAIN plan \subseteq OrderIds /\ TypeOK
  BY DEF PlanFits, Live, LedgerInv
<1>1. ASSUME NEW r \in ReturnIds
      PROVE  \/ WrittenNow(plan, date, withOrder, r)
             \/ TakenBackNow(plan, r)
             \/ LeftAlone(r)
  BY <1>0, WriteReturnsEffect
<1>2. Written(plan) \subseteq DOMAIN plan
  BY DEF Written
<1>3. \A r \in TakenBack(plan) : returns[r].order \in DOMAIN plan
  BY DEF TakenBack, PlanFits, ReturnsOf
<1>4. ASSUME NEW r \in ReturnIds, returns[r].order = k, returns[r].state = "standing"
      PROVE  LeftAlone(r)
  BY <1>1, <1>3, <1>4 DEF WrittenNow, TakenBackNow
<1>5. ASSUME NEW r \in ReturnIds, returns'[r].order = k
      PROVE  LeftAlone(r)
  BY <1>1, <1>2, <1>3, <1>5 DEF WrittenNow, TakenBackNow
<1> QED BY <1>4, <1>5 DEF ReturnsOf, StandingReturns, LeftAlone

LEMMA PlanAmounts ==
  ASSUME AmountInv, LedgerInv', NEW plan, PlanFits(plan), NEW date, NEW withOrder, NEW visit,
         WriteReturns(plan, date, withOrder, visit)
  PROVE  CreditsOrders(DOMAIN plan) /\ ReturnsPriced' /\ AutomaticIsCash'
<1>0. /\ LedgerInv /\ ReturnsPriced /\ TypeOK /\ TypeOK'
      /\ DOMAIN plan \subseteq Live /\ Live \subseteq OrderIds
  BY DEF AmountInv, LedgerInv, PlanFits, Live
<1>1. UNCHANGED <<orders, payments>>
  BY DEF WriteReturns
<1>2. \A o \in OrderIds : /\ PaymentsOf(o)' = PaymentsOf(o)
                          /\ \A p \in PaymentsOf(o) : payments'[p] = payments[p]
  BY <1>1 DEF PaymentsOf
<1>3. CreditsOrders(DOMAIN plan)
  <2>1. \A o \in DOMAIN plan : /\ orders[o].state = "live"
                               /\ CreditsOf(o)' \in Nat
                               /\ PaidOn(o) + CreditsOf(o)' <= DepositTotal(orders[o])
                               /\ \A i \in Items : BackLeft(o, {}, i)' <= orders[o].quantity[i]
    BY <1>0, PlanCredits DEF Live
  <2>2. \A o \in OrderIds : PaidOn(o)' = PaidOn(o)
    BY <1>2, SamePaid
  <2>3. ASSUME NEW k \in OrderIds \ DOMAIN plan
        PROVE  SameAmounts(k) /\ orders'[k].state = orders[k].state
    <3>1. ReturnsOf(k)' = ReturnsOf(k) /\ \A r \in ReturnsOf(k) : returns'[r] = returns[r]
      BY <1>0, PlanLeavesOthers
    <3>2. k \in OrderIds
      OBVIOUS
    <3> QED BY <1>1, <1>2, <3>1, <3>2, SameRows
  <2> QED BY <1>1, <2>1, <2>2, <2>3 DEF CreditsOrders, OthersSame
<1>4. ReturnsPriced'
  <2>1. ASSUME NEW r \in StandingReturns'
        PROVE  /\ returns'[r].refundDue
                    = RefundDue(orders[returns'[r].order].deposit, returns'[r].body)
               /\ returns'[r].cashRefund <= returns'[r].refundDue
    <3>1. PICK k \in OrderIds : k = returns'[r].order
      BY <1>0, <1>1, <2>1 DEF LedgerInv, StandingOnLive, Live
    <3>2. r \in ReturnsOf(k)'
      BY <2>1, <3>1 DEF ReturnsOf
    <3>3. CASE r \in ReturnsOf(k) /\ returns'[r] = returns[r]
      BY <1>0, <3>1, <3>3 DEF ReturnsPriced, ReturnsOf
    <3>4. CASE k \notin DOMAIN plan
      BY <1>0, <3>2, <3>3, <3>4, PlanLeavesOthers
    <3>5. CASE k \in DOMAIN plan /\ k \notin Written(plan)
      BY <1>0, <3>2, <3>3, <3>5, PlanOnOrder
    <3>6. CASE k \in Written(plan)
      <4>0. k \in DOMAIN plan
        BY <3>6 DEF Written
      <4>1. CASE r = NewId(plan, k)
        <5>1. PICK row : row = returns'[r]
          OBVIOUS
        <5>2. /\ row = NewReturn(k, TakenBack(plan), plan[k].body, date, withOrder, visit)
              /\ row \in ReturnRows
          BY <1>0, <3>6, <4>0, <4>1, <5>1, PlanOnOrder
        <5>3. /\ row.refundDue = RefundDue(orders[k].deposit, row.body)
              /\ row.cashRefund <= row.refundDue
          BY ONLY AmountInv, PlanFits(plan), <3>6, <5>2, NewCreditFits, ZenonT(90)
        <5> QED BY <3>1, <5>1, <5>3
      <4>2. CASE r # NewId(plan, k)
        BY <1>0, <3>2, <3>3, <3>6, <4>0, <4>2, PlanOnOrder
      <4> QED BY <4>1, <4>2
    <3> QED BY <3>4, <3>5, <3>6
  <2> QED BY <1>1, <2>1 DEF ReturnsPriced, RefundDue
<1>5. AutomaticIsCash'
  BY <1>1 DEF AmountInv, AutomaticIsCash
<1> QED BY <1>3, <1>4, <1>5
-----------------------------------------------------------------------------
(* Every handler's plan fits: a recording takes nothing back, a deletion or *)
(* correction the return it names, an edit from the list its visit's parts, *)
(* and what is written passed validateReturnAgainstOrder.                   *)
LEMMA NothingBackSame ==
  ASSUME NEW plan, NEW o, plan[o].old = 0
  PROVE  Back(plan, o) = {}
BY DEF Back

LEMMA RecordingFits ==
  ASSUME NEW bodies, NEW date,
         \A o \in DOMAIN bodies : Returnable(o, {}, bodies[o], date)
  PROVE  PlanFits([o \in DOMAIN bodies |-> [old |-> 0, body |-> bodies[o]]])
<1> DEFINE plan == [o \in DOMAIN bodies |-> [old |-> 0, body |-> bodies[o]]]
<1>1. DOMAIN plan = DOMAIN bodies
  OBVIOUS
<1>2. \A o \in DOMAIN plan : plan[o].old = 0 /\ plan[o].body = bodies[o]
  OBVIOUS
<1> HIDE DEF plan
<1>3. DOMAIN plan \subseteq Live
  BY <1>1 DEF Returnable
<1>4. ASSUME NEW o \in Written(plan)
      PROVE  WithinOut(TotalsWithout(o, Back(plan, o)).out, plan[o].body)
  <2>1. o \in DOMAIN plan
    BY DEF Written
  <2>2. Back(plan, o) = {}
    BY <1>2, <2>1, NothingBackSame
  <2> QED BY <1>1, <1>2, <2>1, <2>2 DEF Returnable
<1> QED BY <1>2, <1>3, <1>4 DEF PlanFits, plan

LEMMA CreateReturnFits ==
  ASSUME NEW o, NEW body, NEW date, CreateReturn(o, body, date)
  PROVE  PlanFits([k \in {o} |-> [old |-> 0, body |-> body]])
<1> DEFINE bodies == [k \in {o} |-> body]
<1>1. DOMAIN bodies = {o} /\ bodies[o] = body
  OBVIOUS
<1>2. \A k \in DOMAIN bodies : Returnable(k, {}, bodies[k], date)
  BY <1>1 DEF CreateReturn
<1>3. [k \in {o} |-> [old |-> 0, body |-> body]]
        = [k \in DOMAIN bodies |-> [old |-> 0, body |-> bodies[k]]]
  BY <1>1
<1> HIDE DEF bodies
<1> QED BY <1>2, <1>3, RecordingFits

(* A return that stands is one of its order's. *)
LEMMA CorrectionFits ==
  ASSUME NEW r \in ReturnIds, returns[r].state = "standing", NEW body,
         returns[r].order \in Live,
         body = NoBody \/ WithinOut(TotalsWithout(returns[r].order, {r}).out, body)
  PROVE  PlanFits([k \in {returns[r].order} |-> [old |-> r, body |-> body]])
<1> DEFINE o == returns[r].order
           plan == [k \in {o} |-> [old |-> r, body |-> body]]
<1>1. DOMAIN plan = {o} /\ plan[o].old = r /\ plan[o].body = body
  OBVIOUS
<1>2. r \in ReturnsOf(o) /\ r # 0
  BY BoundsAssumption DEF ReturnsOf, StandingReturns, ReturnIds
<1> HIDE DEF plan
<1>3. Back(plan, o) = {r}
  BY <1>1, <1>2 DEF Back
<1>4. Written(plan) \subseteq {o} /\ (o \in Written(plan) => body # NoBody)
  BY <1>1 DEF Written
<1>5. PlanFits(plan)
  <2>1. \A k \in DOMAIN plan : plan[k].old # 0 => plan[k].old \in ReturnsOf(k)
    BY <1>1, <1>2
  <2>2. DOMAIN plan \subseteq Live
    BY <1>1
  <2>3. \A k \in Written(plan) : WithinOut(TotalsWithout(k, Back(plan, k)).out, plan[k].body)
    <3> HIDE DEF o
    <3> QED BY <1>1, <1>3, <1>4 DEF o
  <2> QED BY <2>1, <2>2, <2>3 DEF PlanFits
<1> QED BY <1>5 DEF plan

LEMMA DeleteReturnFits ==
  ASSUME NEW r \in ReturnIds, DeleteReturn(r)
  PROVE  PlanFits([k \in {returns[r].order} |-> [old |-> r, body |-> NoBody]])
<1>1. returns[r].state = "standing" /\ returns[r].order \in Live
  BY DEF DeleteReturn
<1>2. PICK body : body = NoBody
  OBVIOUS
<1> QED BY <1>1, <1>2, CorrectionFits

LEMMA ReplaceReturnFits ==
  ASSUME NEW r \in ReturnIds, NEW body, NEW date, ReplaceReturn(r, body, date)
  PROVE  PlanFits([k \in {returns[r].order} |-> [old |-> r, body |-> body]])
<1>1. /\ returns[r].state = "standing"
      /\ Returnable(returns[r].order, {r}, body, date)
  BY DEF ReplaceReturn
<1> QED BY <1>1, CorrectionFits DEF Returnable

EditPlan(r, bodies) ==
    LET parts     == PartsOf(r)
        oldOrders == {returns[q].order : q \in parts}
        partOn(o) == CHOOSE q \in parts : returns[q].order = o
    IN  [o \in oldOrders \cup DOMAIN bodies |->
            [old  |-> IF o \in oldOrders THEN partOn(o) ELSE 0,
             body |-> IF o \in DOMAIN bodies THEN bodies[o] ELSE NoBody]]

LEMMA EditFits ==
  ASSUME NEW r \in ReturnIds, NEW bodies, NEW date, NEW extra,
         ReplaceForCustomer(r, bodies, date, extra)
  PROVE  PlanFits(EditPlan(r, bodies))
<1> DEFINE parts     == PartsOf(r)
           oldOrders == {returns[q].order : q \in parts}
           partOn(o) == CHOOSE q \in parts : returns[q].order = o
           plan == EditPlan(r, bodies)
<1>1. /\ returns[r].state = "standing"
      /\ oldOrders \subseteq Live
      /\ \A o \in DOMAIN bodies : Returnable(o, {plan[o].old} \ {0}, bodies[o], date)
  BY DEF ReplaceForCustomer, EditPlan
<1>2. parts \subseteq StandingReturns
  BY <1>1 DEF PartsOf, StandingReturns
<1>3. \A o \in oldOrders : partOn(o) \in parts /\ returns[partOn(o)].order = o
  OBVIOUS
<1>4. /\ DOMAIN plan = oldOrders \cup DOMAIN bodies
      /\ \A o \in DOMAIN plan :
            /\ plan[o].old = IF o \in oldOrders THEN partOn(o) ELSE 0
            /\ plan[o].body = IF o \in DOMAIN bodies THEN bodies[o] ELSE NoBody
  BY DEF EditPlan
<1> HIDE DEF parts, oldOrders, partOn, plan
<1>5. DOMAIN plan \subseteq Live
  BY <1>1, <1>4 DEF Returnable
<1>6. \A o \in DOMAIN plan : plan[o].old # 0 => plan[o].old \in ReturnsOf(o)
  BY <1>2, <1>3, <1>4 DEF ReturnsOf
<1>7. \A o \in Written(plan) : WithinOut(TotalsWithout(o, Back(plan, o)).out, plan[o].body)
  <2> SUFFICES ASSUME NEW o \in Written(plan)
               PROVE  WithinOut(TotalsWithout(o, Back(plan, o)).out, plan[o].body)
    OBVIOUS
  <2>1. o \in DOMAIN plan /\ plan[o].body # NoBody
    BY DEF Written
  <2>2. o \in DOMAIN bodies /\ plan[o].body = bodies[o]
    BY <1>4, <2>1
  <2> QED BY <1>1, <2>2 DEF Returnable, Back
<1> QED BY <1>5, <1>6, <1>7 DEF PlanFits, plan
-----------------------------------------------------------------------------
(* Whatever a handler does, it does one of these to the amounts.            *)
AmountsMove ==
    \/ \E o \in OrderIds : OpensOrder(o) \/ RepricesOrder(o) \/ CancelsOrder(o)
                           \/ PaysOrder(o) \/ UnpaysOrder(o)
    \/ \E S \in SUBSET OrderIds : CreditsOrders(S)
    \/ OthersSame({})

LEMMA NoAmounts ==
  ASSUME AmountInv, UNCHANGED <<orders, returns, refunds, payments>>
  PROVE  OthersSame({}) /\ ReturnsPriced' /\ AutomaticIsCash'
<1>1. OthersSame({})
  <2>1. ASSUME NEW k \in OrderIds PROVE SameAmounts(k) /\ orders'[k].state = orders[k].state
    <3>1. /\ PaymentsOf(k)' = PaymentsOf(k)
          /\ \A p \in PaymentsOf(k) : payments'[p] = payments[p]
      BY DEF PaymentsOf
    <3> QED BY <2>1, <3>1, ReturnsUntouched, SameRows
  <2> QED BY <2>1 DEF OthersSame
<1>2. ReturnsPriced'
  BY PricedFrame DEF AmountInv
<1>3. AutomaticIsCash'
  BY DEF AmountInv, AutomaticIsCash
<1> QED BY <1>1, <1>2, <1>3

LEMMA PlanMoves ==
  ASSUME NEW plan, PlanFits(plan), CreditsOrders(DOMAIN plan)
  PROVE  AmountsMove
<1>1. PICK S : S = DOMAIN plan /\ S \in SUBSET OrderIds
  BY DEF PlanFits, Live
<1> QED BY <1>1 DEF AmountsMove

(* Whichever handler records or corrects a return, it writes a plan that    *)
(* fits the orders.                                                         *)
LEMMA ReturnsByPlan ==
  ASSUME ReturnStep
  PROVE  \E plan : PlanFits(plan) /\ \E date, withOrder, visit :
                                      WriteReturns(plan, date, withOrder, visit)
<1>1. ASSUME NEW o, NEW body, NEW date, CreateReturn(o, body, date)
      PROVE  \E plan : PlanFits(plan) /\ \E d, withOrder, visit :
                                            WriteReturns(plan, d, withOrder, visit)
  <2>1. PICK plan : plan = [k \in {o} |-> [old |-> 0, body |-> body]]
    OBVIOUS
  <2>2. WriteReturns(plan, date, 0, 0)
    BY <1>1, <2>1 DEF CreateReturn
  <2>3. PlanFits(plan)
    BY <1>1, <2>1, CreateReturnFits
  <2> QED BY <2>2, <2>3
<1>2. ASSUME NEW r \in ReturnIds, NEW body, NEW date, ReplaceReturn(r, body, date)
      PROVE  \E plan : PlanFits(plan) /\ \E d, withOrder, visit :
                                            WriteReturns(plan, d, withOrder, visit)
  <2>1. PICK plan : plan = [k \in {returns[r].order} |-> [old |-> r, body |-> body]]
    OBVIOUS
  <2>2. WriteReturns(plan, date, returns[r].withOrder, 0)
    BY <1>2, <2>1 DEF ReplaceReturn
  <2>3. PlanFits(plan)
    BY <1>2, <2>1, ReplaceReturnFits
  <2> QED BY <2>2, <2>3
<1>3. ASSUME NEW bodies, NEW date, NEW withOrder, NEW extra,
             CreateForCustomer(bodies, date, withOrder, extra)
      PROVE  \E plan : PlanFits(plan) /\ \E d, w, visit : WriteReturns(plan, d, w, visit)
  <2>1. PICK plan : plan = [o \in DOMAIN bodies |-> [old |-> 0, body |-> bodies[o]]]
    OBVIOUS
  <2>2. \E visit : WriteReturns(plan, date, withOrder, visit)
    BY <1>3, <2>1 DEF CreateForCustomer
  <2>3. \A o \in DOMAIN bodies : Returnable(o, {}, bodies[o], date)
    BY <1>3 DEF CreateForCustomer
  <2>4. PlanFits(plan)
    BY <2>1, <2>3, RecordingFits
  <2> QED BY <2>2, <2>4
<1>4. ASSUME NEW r \in ReturnIds, NEW bodies, NEW date, NEW extra,
             ReplaceForCustomer(r, bodies, date, extra)
      PROVE  \E plan : PlanFits(plan) /\ \E d, w, visit : WriteReturns(plan, d, w, visit)
  <2>1. PICK plan : plan = EditPlan(r, bodies)
    OBVIOUS
  <2>2. \E w, visit : WriteReturns(plan, date, w, visit)
    BY <1>4, <2>1 DEF ReplaceForCustomer, WriteEdit, EditPlan
  <2>3. PlanFits(plan)
    BY <1>4, <2>1, EditFits
  <2> QED BY <2>2, <2>3
<1> QED BY <1>1, <1>2, <1>3, <1>4 DEF ReturnStep, StandingReturns

LEMMA ReturnMoves ==
  ASSUME AmountInv, LedgerInv', ReturnStep
  PROVE  AmountsMove /\ ReturnsPriced' /\ AutomaticIsCash'
<1>1. PICK plan, date, withOrder, visit :
        PlanFits(plan) /\ WriteReturns(plan, date, withOrder, visit)
  BY ReturnsByPlan
<1> QED BY <1>1, PlanAmounts, PlanMoves

LEMMA DeleteMoves ==
  ASSUME AmountInv, LedgerInv', DeleteStep
  PROVE  AmountsMove /\ ReturnsPriced' /\ AutomaticIsCash'
<1>1. PICK r \in ReturnIds : DeleteReturn(r)
  BY DEF DeleteStep
<1>2. PICK plan : plan = [k \in {returns[r].order} |-> [old |-> r, body |-> NoBody]]
  OBVIOUS
<1>3. WriteReturns(plan, 0, 0, 0) /\ PlanFits(plan)
  BY <1>1, <1>2, DeleteReturnFits DEF DeleteReturn
<1> QED BY <1>3, PlanAmounts, PlanMoves

LEMMA AmountsOfStep ==
  ASSUME AmountInv, [Next]_vars
  PROVE  /\ LedgerInv' /\ CashInv'
         /\ AmountsMove /\ ReturnsPriced' /\ AutomaticIsCash'
<1>0. LedgerInv' /\ CashInv'
  BY LedgerStep, CashStep DEF AmountInv
<1>1. CASE OrderStep
  BY <1>0, <1>1, CreateOrderAmounts, EditHeaderAmounts, EditLinesAmounts
     DEF OrderStep, AmountsMove
<1>2. CASE CancelStep
  BY <1>0, <1>2, CancelOrderAmounts DEF CancelStep, AmountsMove
<1>3. CASE ReturnStep
  BY <1>0, <1>3, ReturnMoves
<1>4. CASE DeleteStep
  BY <1>0, <1>4, DeleteMoves
<1>5. CASE PaymentStep
  BY <1>0, <1>5, CreatePaymentAmounts, ReversePaymentAmounts DEF PaymentStep, AmountsMove
<1>6. CASE HandBackStep
  BY <1>0, <1>6, NoAmounts DEF HandBackStep, HandBack, UndoHandBack, AmountsMove
<1>7. CASE ArchiveCustomer
  BY <1>0, <1>7, NoAmounts DEF ArchiveCustomer, AmountsMove
<1>8. CASE UNCHANGED vars
  BY <1>0, <1>8, NoAmounts DEF vars, AmountsMove
<1> QED BY <1>0, <1>1, <1>2, <1>3, <1>4, <1>5, <1>6, <1>7, <1>8 DEF Next
-----------------------------------------------------------------------------
LEMMA PaidIsNat == TypeOK => \A k \in OrderIds : PaidOn(k) \in Nat
BY AmountTypes
LEMMA PaidIsNatAfter == (TypeOK => \A k \in OrderIds : PaidOn(k) \in Nat)'
BY PaidIsNat, PTL

(* Each of them keeps every order within its deposit and its lines.         *)
LEMMA MovesKeepWithin ==
  ASSUME TypeOK, TypeOK', \A o \in OrderIds : WithinOrder(o), AmountsMove
  PROVE  \A o \in OrderIds : WithinOrder(o)'
<1>1. \A S : OthersSame(S) => \A k \in OrderIds \ S : WithinOrder(k)'
  BY SameWithin DEF OthersSame
<1>2. ASSUME NEW o \in OrderIds,
             OpensOrder(o) \/ RepricesOrder(o) \/ CancelsOrder(o)
      PROVE  WithinOrder(o)'
  <2>1. /\ DepositTotal(orders'[o]) \in Counts
        /\ PaidOn(o)' \in {0, DepositTotal(orders'[o])}
        /\ CreditsOf(o)' = 0
        /\ \A i \in Items : BackLeft(o, {}, i)' = 0
    BY <1>2 DEF OpensOrder, RepricesOrder, CancelsOrder, NothingCredited, WithinOrder
  <2>2. PICK total : total = DepositTotal(orders'[o])
    OBVIOUS
  <2>3. total \in Nat
    BY <2>1, <2>2, BoundsAssumption DEF Counts
  <2>4. PaidOn(o)' + CreditsOf(o)' <= total
    BY <2>1, <2>2, <2>3
  <2>5. \A i \in Items : BackLeft(o, {}, i)' <= orders'[o].quantity[i]
    <3>1. orders'[o] \in OrderRows
      BY DEF TypeOK
    <3>2. \A i \in Items : orders'[o].quantity[i] \in Nat
      BY <3>1, BoundsAssumption DEF OrderRows
    <3> QED BY <2>1, <3>2
  <2> QED BY <2>1, <2>2, <2>4, <2>5 DEF WithinOrder
<1>3. ASSUME NEW o \in OrderIds, PaysOrder(o) \/ UnpaysOrder(o)
      PROVE  WithinOrder(o)'
  <2>1. /\ orders'[o] = orders[o]
        /\ CreditsOf(o)' = CreditsOf(o)
        /\ \A i \in Items : BackLeft(o, {}, i)' = BackLeft(o, {}, i)
        /\ \/ PaidOn(o)' + CreditsOf(o) <= DepositTotal(orders[o])
           \/ PaidOn(o)' <= PaidOn(o)
    BY <1>3 DEF PaysOrder, UnpaysOrder
  <2>2. WithinOrder(o) /\ DepositTotal(orders[o]) \in Nat /\ PaidOn(o) \in Nat
        /\ CreditsOf(o) \in Int
    BY AmountTypes
  <2>3. PICK paid \in Nat : paid = PaidOn(o)'
    <3>1. \A k \in OrderIds : PaidOn(k)' \in Nat
      BY PaidIsNatAfter
    <3> QED BY <3>1
  <2>4. paid + CreditsOf(o) <= DepositTotal(orders[o])
    BY <2>1, <2>2, <2>3 DEF WithinOrder
  <2> QED BY <2>1, <2>2, <2>3, <2>4 DEF WithinOrder
<1>4. ASSUME NEW S \in SUBSET OrderIds, CreditsOrders(S), NEW o \in S
      PROVE  WithinOrder(o)'
  <2>1. o \in OrderIds
    BY <1>4
  <2>2. /\ orders'[o] = orders[o] /\ PaidOn(o)' = PaidOn(o)
        /\ PaidOn(o) + CreditsOf(o)' <= DepositTotal(orders[o])
        /\ \A i \in Items : BackLeft(o, {}, i)' <= orders[o].quantity[i]
    BY <1>4, <2>1 DEF CreditsOrders
  <2> QED BY <2>1, <2>2 DEF WithinOrder
<1>5. ASSUME NEW o \in OrderIds, NEW k \in OrderIds,
             OpensOrder(k) \/ RepricesOrder(k) \/ CancelsOrder(k) \/ PaysOrder(k)
               \/ UnpaysOrder(k)
      PROVE  WithinOrder(o)'
  <2>1. CASE o = k
    BY <1>2, <1>3, <1>5, <2>1
  <2>2. CASE o # k
    <3>1. OthersSame({k})
      BY <1>5 DEF OpensOrder, RepricesOrder, CancelsOrder, PaysOrder, UnpaysOrder
    <3> QED BY <1>1, <2>2, <3>1
  <2> QED BY <2>1, <2>2
<1>6. ASSUME NEW o \in OrderIds, NEW S \in SUBSET OrderIds, CreditsOrders(S)
      PROVE  WithinOrder(o)'
  BY <1>1, <1>4, <1>6 DEF CreditsOrders
<1>7. ASSUME NEW o \in OrderIds, OthersSame({}) PROVE WithinOrder(o)'
  BY <1>1, <1>7
<1> QED BY <1>5, <1>6, <1>7 DEF AmountsMove

LEMMA AmountStep == AmountInv /\ [Next]_vars => AmountInv'
<1> SUFFICES ASSUME AmountInv, [Next]_vars PROVE AmountInv'
  OBVIOUS
<1>1. /\ LedgerInv' /\ CashInv'
      /\ AmountsMove /\ ReturnsPriced' /\ AutomaticIsCash'
  BY AmountsOfStep
<1>2. \A o \in OrderIds : WithinOrder(o)'
  <2>1. TypeOK /\ TypeOK' /\ \A o \in OrderIds : WithinOrder(o)
    BY <1>1 DEF AmountInv, LedgerInv
  <2> QED BY <1>1, <2>1, MovesKeepWithin
<1> QED BY <1>1, <1>2 DEF AmountInv, OrderIds

LEMMA AmountInitially == Init => AmountInv
<1> SUFFICES ASSUME Init PROVE AmountInv
  OBVIOUS
<1>1. LedgerInv /\ CashInv /\ TypeOK
  BY LedgerInitially, CashInitially DEF LedgerInv
<1>2. StandingReturns = {} /\ \A p \in PaymentIds : payments[p].state = "none"
  BY DEF Init, NoReturn, NoPayment, StandingReturns
<1>3. ReturnsPriced /\ AutomaticIsCash
  BY <1>2 DEF ReturnsPriced, AutomaticIsCash
<1>4. ASSUME NEW o \in OrderIds PROVE WithinOrder(o)
  <2>1. /\ PaidOn(o) = 0 /\ CreditsOf(o) = 0
        /\ \A i \in Items : BackLeft(o, {}, i) = 0
    <3>1. ReturnsOf(o) = {} /\ PaymentsOf(o) = {}
      BY <1>2 DEF ReturnsOf, PaymentsOf
    <3> QED BY <3>1, NothingReturned, NothingPaidYet
  <2>2. DepositTotal(orders[o]) = 0
    <3> DEFINE f == [i \in Items |-> orders[o].quantity[i] * orders[o].deposit[i]]
    <3>1. \A i \in Items : f[i] = 0
      BY DEF Init, NoOrder
    <3> HIDE DEF f
    <3>2. SumOver(Items, f) = 0
      BY <3>1, SumOfZeros, DataAssumption
    <3> QED BY <3>2 DEF DepositTotal, f
  <2>3. \A i \in Items : orders[o].quantity[i] \in Nat
    BY <1>1, RowTypes
  <2> QED BY <2>1, <2>2, <2>3, BoundsAssumption DEF WithinOrder, Counts
<1> QED BY <1>1, <1>3, <1>4 DEF AmountInv

LEMMA AmountAlways == Spec => []AmountInv
BY AmountInitially, AmountStep, PTL DEF Spec

(* computeOrderTotals never throws on a live order, in any history of any   *)
(* length: whatever a correction gives back, its new return is priced and   *)
(* limited against the order without the one it replaces, and pays out in   *)
(* cash what it is worth beyond what is then owed.                          *)
THEOREM TotalsAlwaysStand == Spec => []TotalsNeverThrow
BY AmountAlways, WithinSuffices, PTL

(* A live order with no stored open column owes nothing and has none out.   *)
LEMMA SettledWhenClosed ==
  ASSUME AmountInv, CacheIsRecomputation, NEW o \in Live, cache[o].status # "OPEN"
  PROVE  TotalsOf(o).owed = 0 /\ \A i \in Items : TotalsOf(o).out[i] = 0
<1> DEFINE t == TotalsOf(o)
<1>1. /\ o \in OrderIds /\ orders[o].state = "live" /\ TypeOK
  BY DEF AmountInv, LedgerInv, Live
<1>2. cache[o] = t
  BY <1>1 DEF CacheIsRecomputation
<1>3. t.owed \in Int /\ \A i \in Items : t.out[i] \in Int
  BY <1>1, <1>2, BoundsAssumption DEF TypeOK, CacheRows, Figures
<1>4. t.owed >= 0 /\ \A i \in Items : t.out[i] >= 0
  BY WithinSuffices DEF TotalsNeverThrow
<1>5. t.status = IF t.owed > 0 \/ (\E i \in Items : t.out[i] > 0) THEN "OPEN" ELSE "SETTLED"
  BY <1>1 DEF TotalsOf, TotalsWithout, OrderTotals
<1> HIDE DEF t
<1>6. ~ (t.owed > 0) /\ \A i \in Items : ~ (t.out[i] > 0)
  BY <1>2, <1>5
<1>7. t.owed = 0 /\ \A i \in Items : t.out[i] = 0
  BY <1>3, <1>4, <1>6
<1> QED BY <1>7 DEF t

(* Only archiving archives. *)
LEMMA OnlyArchiving ==
  ASSUME Next, ~archived, archived' PROVE ArchiveCustomer
<1>1. CASE OrderStep
  <2>1. ASSUME NEW o, NEW payment, NEW date, NEW requested, NEW deposit, NEW override,
               CreateOrder(o, payment, date, requested, deposit, override)
        PROVE  archived' = archived
    BY <2>1 DEF CreateOrder
  <2>2. ASSUME NEW o, NEW date, EditHeader(o, date) PROVE archived' = archived
    BY <2>2 DEF EditHeader
  <2>3. ASSUME NEW o, NEW date, NEW requested, NEW deposit, NEW override,
               EditLines(o, date, requested, deposit, override)
        PROVE  archived' = archived
    BY <2>3 DEF EditLines
  <2> QED BY <1>1, <2>1, <2>2, <2>3 DEF OrderStep
<1>2. CASE CancelStep
  BY <1>2 DEF CancelStep, CancelOrder
<1>3. CASE ReturnStep \/ DeleteStep
  <2>1. \A plan, date, withOrder, visit :
           WriteReturns(plan, date, withOrder, visit) => archived' = archived
    BY DEF WriteReturns
  <2>2. ASSUME NEW o, NEW body, NEW date, CreateReturn(o, body, date)
        PROVE  archived' = archived
    BY <2>1, <2>2 DEF CreateReturn
  <2>3. ASSUME NEW bodies, NEW date, NEW withOrder, NEW extra,
               CreateForCustomer(bodies, date, withOrder, extra)
        PROVE  archived' = archived
    BY <2>1, <2>3 DEF CreateForCustomer
  <2>4. ASSUME NEW r, NEW body, NEW date, ReplaceReturn(r, body, date)
        PROVE  archived' = archived
    BY <2>1, <2>4 DEF ReplaceReturn
  <2>5. ASSUME NEW r, NEW bodies, NEW date, NEW extra,
               ReplaceForCustomer(r, bodies, date, extra)
        PROVE  archived' = archived
    BY <2>1, <2>5 DEF ReplaceForCustomer, WriteEdit
  <2>6. ASSUME NEW r, DeleteReturn(r) PROVE archived' = archived
    BY <2>1, <2>6 DEF DeleteReturn
  <2> QED BY <1>3, <2>2, <2>3, <2>4, <2>5, <2>6 DEF ReturnStep, DeleteStep
<1>4. CASE PaymentStep
  BY <1>4 DEF PaymentStep, CreatePayment, ReversePayment
<1>5. CASE HandBackStep
  BY <1>5 DEF HandBackStep, HandBack, UndoHandBack
<1> QED BY <1>1, <1>2, <1>3, <1>4, <1>5 DEF Next

(* The archive guard reads the stored columns of the open orders alone; that*)
(* it leaves nothing owed and nothing out rests on those columns being what *)
(* the rows add up to, and on the rows never adding up to less than nothing.*)
THEOREM OnlySettledAreArchived == Spec => ArchivedWhenSettled
<1>1. AmountInv /\ CacheIsRecomputation /\ [Next]_vars
        => [~archived /\ archived' =>
              \A o \in Live : TotalsOf(o).owed = 0 /\ \A i \in Items : TotalsOf(o).out[i] = 0]_vars
  <2> SUFFICES ASSUME AmountInv, CacheIsRecomputation, Next, ~archived, archived',
                      NEW o \in Live
               PROVE  TotalsOf(o).owed = 0 /\ \A i \in Items : TotalsOf(o).out[i] = 0
    OBVIOUS
  <2>1. cache[o].status # "OPEN"
    BY OnlyArchiving DEF ArchiveCustomer, OpenOrders, Live
  <2> QED BY <2>1, SettledWhenClosed
<1> QED BY <1>1, AmountAlways, FiguresFollowRows, PTL DEF Spec, ArchivedWhenSettled
-----------------------------------------------------------------------------
(* The account the rows keep, order by order. Every amount of it is one its *)
(* column holds.                                                            *)
StateOf   == [o \in OrderIds |-> orders[o].state]
DepositsOf == [o \in OrderIds |-> DepositTotal(orders[o])]
PaidOf    == [o \in OrderIds |-> PaidOn(o)]
CreditedOf == [o \in OrderIds |-> CreditsOf(o)]
AmountsHeld ==
    \A o \in OrderIds : /\ DepositTotal(orders[o]) \in Counts
                        /\ PaidOn(o) \in Counts /\ CreditsOf(o) \in Counts

LEMMA AmountsAreHeld == AmountInv => AmountsHeld
<1> SUFFICES ASSUME AmountInv, NEW o \in OrderIds
             PROVE  /\ DepositTotal(orders[o]) \in Counts
                    /\ PaidOn(o) \in Counts /\ CreditsOf(o) \in Counts
  BY DEF AmountsHeld
<1>1. /\ TypeOK /\ ReturnsPriced /\ WithinOrder(o)
  BY DEF AmountInv, LedgerInv
<1>2. /\ DepositTotal(orders[o]) \in Nat /\ PaidOn(o) \in Nat
      /\ CreditsOf(o) \in Nat
  BY <1>1, AmountTypes, CreditsLeftBounded, CreditsAreLeft
<1>3. PaidOn(o) + CreditsOf(o) <= DepositTotal(orders[o])
      /\ DepositTotal(orders[o]) \in Counts
  BY <1>1 DEF WithinOrder
<1> QED BY <1>2, <1>3, BoundsAssumption DEF Counts
LEMMA AmountsAreHeldAfter == (AmountInv => AmountsHeld)'
BY AmountsAreHeld, PTL

(* What leaves the other orders alone changes their account nowhere.        *)
LEMMA AccountElsewhere ==
  ASSUME NEW o \in OrderIds, OthersSame({o})
  PROVE  \A k \in OrderIds \ {o} : /\ StateOf'[k] = StateOf[k]
                                   /\ DepositsOf'[k] = DepositsOf[k]
                                   /\ PaidOf'[k] = PaidOf[k]
                                   /\ CreditedOf'[k] = CreditedOf[k]
BY DEF OthersSame, SameAmounts, StateOf, DepositsOf, PaidOf, CreditedOf

LEMMA AccountFunctions ==
  /\ DOMAIN StateOf = OrderIds /\ DOMAIN DepositsOf = OrderIds
  /\ DOMAIN PaidOf = OrderIds /\ DOMAIN CreditedOf = OrderIds
  /\ StateOf = [o \in OrderIds |-> StateOf[o]] /\ DepositsOf = [o \in OrderIds |-> DepositsOf[o]]
  /\ PaidOf = [o \in OrderIds |-> PaidOf[o]] /\ CreditedOf = [o \in OrderIds |-> CreditedOf[o]]
BY DEF StateOf, DepositsOf, PaidOf, CreditedOf
LEMMA AccountFunctionsAfter ==
  (/\ DOMAIN StateOf = OrderIds /\ DOMAIN DepositsOf = OrderIds
   /\ DOMAIN PaidOf = OrderIds /\ DOMAIN CreditedOf = OrderIds
   /\ StateOf = [o \in OrderIds |-> StateOf[o]] /\ DepositsOf = [o \in OrderIds |-> DepositsOf[o]]
   /\ PaidOf = [o \in OrderIds |-> PaidOf[o]] /\ CreditedOf = [o \in OrderIds |-> CreditedOf[o]])'
BY AccountFunctions, PTL

LEMMA OneChanges ==
  ASSUME NEW D, NEW f, NEW g, f = [x \in D |-> f[x]], g = [x \in D |-> g[x]],
         NEW o \in D, \A k \in D \ {o} : g[k] = f[k]
  PROVE  g = [f EXCEPT ![o] = g[o]]
OBVIOUS

LEMMA AccountChanges ==
  ASSUME NEW o \in OrderIds, OthersSame({o})
  PROVE  /\ StateOf' = [StateOf EXCEPT ![o] = orders'[o].state]
         /\ DepositsOf' = [DepositsOf EXCEPT ![o] = DepositTotal(orders'[o])]
         /\ PaidOf' = [PaidOf EXCEPT ![o] = PaidOn(o)']
         /\ CreditedOf' = [CreditedOf EXCEPT ![o] = CreditsOf(o)']
<1>1. /\ StateOf'[o] = orders'[o].state /\ DepositsOf'[o] = DepositTotal(orders'[o])
      /\ PaidOf'[o] = PaidOn(o)' /\ CreditedOf'[o] = CreditsOf(o)'
  BY DEF StateOf, DepositsOf, PaidOf, CreditedOf
<1>4. StateOf' = [StateOf EXCEPT ![o] = StateOf'[o]]
  BY AccountElsewhere, AccountFunctions, AccountFunctionsAfter, OneChanges
<1>5. DepositsOf' = [DepositsOf EXCEPT ![o] = DepositsOf'[o]]
  BY AccountElsewhere, AccountFunctions, AccountFunctionsAfter, OneChanges
<1>6. PaidOf' = [PaidOf EXCEPT ![o] = PaidOf'[o]]
  BY AccountElsewhere, AccountFunctions, AccountFunctionsAfter, OneChanges
<1>7. CreditedOf' = [CreditedOf EXCEPT ![o] = CreditedOf'[o]]
  BY AccountElsewhere, AccountFunctions, AccountFunctionsAfter, OneChanges
<1> QED BY <1>1, <1>4, <1>5, <1>6, <1>7

LEMMA OrderMovesAccount ==
  ASSUME AmountsHeld, AmountsHeld', NEW o \in OrderIds,
         OpensOrder(o) \/ RepricesOrder(o) \/ CancelsOrder(o)
  PROVE  Account!AccountNext
<1>0. /\ OthersSame({o}) /\ CreditsOf(o) = 0 /\ CreditsOf(o)' = 0
  BY DEF OpensOrder, RepricesOrder, CancelsOrder, NothingCredited
<1>1. /\ StateOf' = [StateOf EXCEPT ![o] = orders'[o].state]
      /\ DepositsOf' = [DepositsOf EXCEPT ![o] = DepositTotal(orders'[o])]
      /\ PaidOf' = [PaidOf EXCEPT ![o] = PaidOn(o)']
      /\ CreditedOf' = [CreditedOf EXCEPT ![o] = CreditsOf(o)']
  BY <1>0, AccountChanges
<1>2. /\ StateOf[o] = orders[o].state /\ DepositsOf[o] = DepositTotal(orders[o])
      /\ PaidOf[o] = PaidOn(o) /\ CreditedOf[o] = CreditsOf(o)
      /\ DepositsOf'[o] = DepositTotal(orders'[o])
  BY DEF StateOf, DepositsOf, PaidOf, CreditedOf
<1>3. CreditedOf' = CreditedOf
  BY <1>0, <1>1, <1>2, AccountFunctions
<1>4. DepositTotal(orders'[o]) \in Counts /\ PaidOn(o)' \in Counts
  BY DEF AmountsHeld
<1>5. CASE OpensOrder(o)
  <2>1. /\ StateOf[o] = "none" /\ StateOf' = [StateOf EXCEPT ![o] = "live"]
        /\ \E d \in Counts : DepositsOf' = [DepositsOf EXCEPT ![o] = d]
        /\ \E p \in {0, DepositsOf'[o]} : PaidOf' = [PaidOf EXCEPT ![o] = p]
        /\ CreditedOf' = CreditedOf
    BY <1>1, <1>2, <1>3, <1>4, <1>5 DEF OpensOrder
  <2>2. Account!Open(o)
    BY ONLY <2>1 DEF Account!Open, StateOf, DepositsOf, PaidOf, CreditedOf
  <2> QED BY <2>2 DEF Account!AccountNext
<1>6. CASE RepricesOrder(o)
  <2>0. StateOf' = StateOf
    BY <1>1, <1>2, <1>6, AccountFunctions DEF RepricesOrder
  <2>1. /\ StateOf[o] = "live" /\ CreditedOf[o] = 0 /\ PaidOf[o] \in {0, DepositsOf[o]}
        /\ \E d \in Counts : DepositsOf' = [DepositsOf EXCEPT ![o] = d]
        /\ \E p \in {0, DepositsOf'[o]} : PaidOf' = [PaidOf EXCEPT ![o] = p]
        /\ StateOf' = StateOf /\ CreditedOf' = CreditedOf
    BY <1>0, <1>1, <1>2, <1>3, <1>4, <1>6, <2>0 DEF RepricesOrder
  <2>2. Account!Reprice(o)
    BY ONLY <2>1 DEF Account!Reprice, Account!Untouched, StateOf, DepositsOf, PaidOf, CreditedOf
  <2> QED BY <2>2 DEF Account!AccountNext
<1>7. CASE CancelsOrder(o)
  <2>0. DepositsOf' = DepositsOf
    BY <1>1, <1>2, <1>7, AccountFunctions DEF CancelsOrder
  <2>1. /\ StateOf[o] = "live" /\ CreditedOf[o] = 0 /\ PaidOf[o] \in {0, DepositsOf[o]}
        /\ StateOf' = [StateOf EXCEPT ![o] = "cancelled"]
        /\ PaidOf' = [PaidOf EXCEPT ![o] = 0]
        /\ DepositsOf' = DepositsOf /\ CreditedOf' = CreditedOf
    BY <1>0, <1>1, <1>2, <1>3, <1>7, <2>0 DEF CancelsOrder
  <2>2. Account!Cancel(o)
    BY ONLY <2>1 DEF Account!Cancel, Account!Untouched, StateOf, DepositsOf, PaidOf, CreditedOf
  <2> QED BY <2>2 DEF Account!AccountNext
<1> QED BY <1>5, <1>6, <1>7

LEMMA PaymentMovesAccount ==
  ASSUME AmountsHeld, AmountsHeld', NEW o \in OrderIds, PaysOrder(o) \/ UnpaysOrder(o)
  PROVE  Account!AccountNext \/ UNCHANGED <<StateOf, DepositsOf, PaidOf, CreditedOf>>
<1>0. OthersSame({o}) /\ CreditsOf(o)' = CreditsOf(o) /\ orders' = orders
      /\ orders[o].state = "live"
  BY DEF PaysOrder, UnpaysOrder
<1>1. PaidOf' = [PaidOf EXCEPT ![o] = PaidOn(o)']
      /\ CreditedOf' = [CreditedOf EXCEPT ![o] = CreditsOf(o)']
  BY <1>0, AccountChanges
<1>2. /\ StateOf[o] = orders[o].state /\ DepositsOf[o] = DepositTotal(orders[o])
      /\ PaidOf[o] = PaidOn(o) /\ CreditedOf[o] = CreditsOf(o)
  BY DEF StateOf, DepositsOf, PaidOf, CreditedOf
<1>3. StateOf' = StateOf /\ DepositsOf' = DepositsOf /\ CreditedOf' = CreditedOf
  <2>1. StateOf' = StateOf /\ DepositsOf' = DepositsOf
    BY <1>0 DEF StateOf, DepositsOf
  <2> QED BY <1>0, <1>1, <1>2, <2>1, AccountFunctions
<1>4. PICK paid \in Counts : paid = PaidOn(o)'
  BY DEF AmountsHeld
<1>5. /\ PaidOn(o) \in Counts /\ CreditsOf(o) \in Counts /\ DepositTotal(orders[o]) \in Counts
      /\ Counts \subseteq Int
  BY BoundsAssumption DEF AmountsHeld, Counts
<1>6. CASE PaysOrder(o)
  <2>1. /\ PaidOf[o] <= paid
        /\ paid - PaidOf[o] <= DepositsOf[o] - PaidOf[o] - CreditedOf[o]
    <3>1. PaidOn(o) <= paid /\ paid + CreditsOf(o) <= DepositTotal(orders[o])
      BY <1>4, <1>6 DEF PaysOrder
    <3>2. \A p, q, c, d \in Int : p <= q /\ q + c <= d => q - p <= d - p - c
      OBVIOUS
    <3> QED BY <1>2, <1>4, <1>5, <3>1, <3>2
  <2>2. /\ StateOf[o] = "live"
        /\ \E amount \in Counts :
             /\ PaidOf[o] <= amount
             /\ amount - PaidOf[o] <= DepositsOf[o] - PaidOf[o] - CreditedOf[o]
             /\ PaidOf' = [PaidOf EXCEPT ![o] = amount]
        /\ StateOf' = StateOf /\ DepositsOf' = DepositsOf /\ CreditedOf' = CreditedOf
    BY <1>0, <1>1, <1>2, <1>3, <1>4, <2>1
  <2>3. Account!Pay(o)
    BY ONLY <2>2 DEF Account!Pay, Account!StillOwed, StateOf, DepositsOf, PaidOf, CreditedOf
  <2> QED BY <2>3 DEF Account!AccountNext
<1>7. CASE UnpaysOrder(o)
  <2>1. CASE paid = PaidOn(o)
    <3>1. PaidOf' = PaidOf
      BY <1>1, <1>2, <1>4, <2>1, AccountFunctions
    <3> QED BY <1>3, <3>1
  <2>2. CASE paid # PaidOn(o)
    <3>1. paid < PaidOf[o]
      <4>1. paid <= PaidOn(o)
        BY <1>4, <1>7 DEF UnpaysOrder
      <4> QED BY <1>2, <1>4, <1>5, <2>2, <4>1
    <3>2. /\ StateOf[o] = "live"
          /\ \E amount \in Counts : /\ amount < PaidOf[o]
                                    /\ PaidOf' = [PaidOf EXCEPT ![o] = amount]
          /\ StateOf' = StateOf /\ DepositsOf' = DepositsOf /\ CreditedOf' = CreditedOf
      BY <1>0, <1>1, <1>2, <1>3, <1>4, <3>1
    <3>3. Account!Unpay(o)
      BY ONLY <3>2 DEF Account!Unpay, StateOf, DepositsOf, PaidOf, CreditedOf
    <3> QED BY <3>3 DEF Account!AccountNext
  <2> QED BY <2>1, <2>2
<1> QED BY <1>6, <1>7

LEMMA CreditsMoveAccount ==
  ASSUME AmountsHeld, AmountsHeld', NEW S \in SUBSET OrderIds, CreditsOrders(S)
  PROVE  Account!AccountNext
<1>1. StateOf' = StateOf /\ DepositsOf' = DepositsOf /\ PaidOf' = PaidOf
  BY DEF CreditsOrders, StateOf, DepositsOf, PaidOf
<1>2. \A o \in S : StateOf[o] = "live"
  BY DEF CreditsOrders, StateOf
<1>3. CreditedOf' \in [OrderIds -> Counts]
  BY DEF AmountsHeld, CreditedOf
<1>4. \A o \in OrderIds \ S : CreditedOf'[o] = CreditedOf[o]
  BY DEF CreditsOrders, OthersSame, SameAmounts, CreditedOf
<1>5. ASSUME NEW o \in S
      PROVE  CreditedOf'[o] - CreditedOf[o] <= DepositsOf[o] - PaidOf[o] - CreditedOf[o]
  <2>0. o \in OrderIds
    OBVIOUS
  <2>1. PICK credits \in Counts : credits = CreditsOf(o)'
    BY <2>0 DEF AmountsHeld
  <2>2. PaidOn(o) + credits <= DepositTotal(orders[o])
    BY <2>1 DEF CreditsOrders
  <2>3. /\ PaidOn(o) \in Counts /\ CreditsOf(o) \in Counts /\ DepositTotal(orders[o]) \in Counts
        /\ Counts \subseteq Int
    BY <2>0, BoundsAssumption DEF AmountsHeld, Counts
  <2>4. CreditedOf'[o] = credits /\ CreditedOf[o] = CreditsOf(o) /\ PaidOf[o] = PaidOn(o)
        /\ DepositsOf[o] = DepositTotal(orders[o])
    BY <2>0, <2>1 DEF CreditedOf, PaidOf, DepositsOf
  <2>5. \A p, q, c, d \in Int : p + q <= d => q - c <= d - p - c
    OBVIOUS
  <2> QED BY <2>1, <2>2, <2>3, <2>4, <2>5
<1>6. Account!Credit(S)
  BY ONLY <1>1, <1>2, <1>3, <1>4, <1>5
     DEF Account!Credit, Account!StillOwed, StateOf, DepositsOf, PaidOf, CreditedOf
<1> QED BY <1>6 DEF Account!AccountNext

LEMMA AccountStep == AmountInv /\ [Next]_vars => [Account!AccountNext]_(Account!account)
<1> SUFFICES ASSUME AmountInv, [Next]_vars
             PROVE  Account!AccountNext \/ UNCHANGED <<StateOf, DepositsOf, PaidOf, CreditedOf>>
  BY DEF Account!account, StateOf, DepositsOf, PaidOf, CreditedOf
<1>1. AmountsMove /\ AmountsHeld /\ AmountsHeld'
  BY AmountsOfStep, AmountStep, AmountsAreHeld, AmountsAreHeldAfter
<1>2. CASE OthersSame({})
  BY <1>2 DEF OthersSame, SameAmounts, StateOf, DepositsOf, PaidOf, CreditedOf
<1> QED BY <1>1, <1>2, OrderMovesAccount, PaymentMovesAccount, CreditsMoveAccount
        DEF AmountsMove

LEMMA AccountInitially == Init => Account!AccountInit
<1> SUFFICES ASSUME Init PROVE Account!AccountInit
  OBVIOUS
<1>1. AmountInv /\ \A o \in OrderIds : orders[o] = NoOrder
  BY AmountInitially DEF Init
<1>2. ASSUME NEW o \in OrderIds
      PROVE  /\ orders[o].state = "none" /\ DepositTotal(orders[o]) = 0
             /\ PaidOn(o) = 0 /\ CreditsOf(o) = 0
  <2>1. orders[o].state = "none" /\ \A i \in Items : orders[o].quantity[i] = 0
    BY <1>1 DEF NoOrder
  <2>2. DepositTotal(orders[o]) = 0
    <3> DEFINE f == [i \in Items |-> orders[o].quantity[i] * orders[o].deposit[i]]
    <3>1. \A i \in Items : f[i] = 0
      BY <1>1 DEF NoOrder
    <3> HIDE DEF f
    <3>2. SumOver(Items, f) = 0
      BY <3>1, SumOfZeros, DataAssumption
    <3> QED BY <3>2 DEF DepositTotal, f
  <2>3. PaidOn(o) = 0 /\ CreditsOf(o) = 0
    BY <1>1, <2>1, NothingOnOthers DEF AmountInv, Live
  <2> QED BY <2>1, <2>2, <2>3
<1> QED BY <1>2 DEF Account!AccountInit

(* The rows keep the account: every handler, in any history and with any    *)
(* number of orders in one step, moves what is paid and credited only as    *)
(* the account allows - within what is still owed.                          *)
THEOREM RowsKeepAccount == Spec => KeepsAccount
<1>1. Init => Account!AccountInit
  BY AccountInitially
<1>2. AmountInv /\ [Next]_vars => [Account!AccountNext]_(Account!account)
  BY AccountStep
<1> QED BY <1>1, <1>2, AmountAlways, PTL DEF Spec, KeepsAccount, Account!AccountSpec
=============================================================================
