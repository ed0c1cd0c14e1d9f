---------------------------- MODULE LendingState ----------------------------
(***************************************************************************)
(* The rows every lending handler reads and writes, for one customer, and  *)
(* the two things all handlers share: the order cache of recomputeOrder    *)
(* and the stock check of StockLedger.                                     *)
(*                                                                         *)
(* A handler is one transaction under the customer's, the order's and the  *)
(* items' locks, so it is one action. Rows of a table are a function from  *)
(* ids; an id in state "none" is not used yet and the next row takes the   *)
(* smallest one, as an identity column does. A ledger row and the single   *)
(* row that reverses it (reverses_entry_id is unique, and a trigger makes  *)
(* the pair equal) are one record with a state. Per-item and per-order     *)
(* sums of the append-only pallet_credits and stock_movements tables are   *)
(* kept as running sums.                                                   *)
(***************************************************************************)
EXTENDS LedgerMath

CONSTANTS
    MaxOrders, MaxReturns, MaxPayments, MaxHandBacks,  \* bounds on the rows
    MaxQuantity,      \* bound on the pallets of one order line
    Deposits,         \* unit deposits an order line may carry
    DamageRefunds,    \* refunds agreed for the damaged pallets of a line
    MaxExtra,         \* bound on the pallets returned beyond what was out
    PaymentTypes,     \* subset of {"CASH", "LENT"}
    PaymentAmounts,   \* amounts of a manual payment
    RecordedWith,     \* orders a return may be recorded with, 0 = with none
    Days,             \* business dates, all of them past
    InitialStock,     \* pallets of each item on hand at the start
    CreditLimit,      \* the customer's credit limit
    Overrides,        \* answers an administrator may give to a limit warning
    MaxSafe           \* the largest figure money and count columns hold

ASSUME BoundsAssumption ==
    /\ MaxOrders \in Nat /\ MaxReturns \in Nat
    /\ MaxPayments \in Nat /\ MaxHandBacks \in Nat
    /\ MaxQuantity \in Nat /\ MaxExtra \in Nat
    /\ InitialStock \in Nat /\ MaxSafe \in Nat /\ InitialStock <= MaxSafe
ASSUME DataAssumption ==
    /\ IsFiniteSet(Items)
    /\ Deposits \subseteq Nat /\ DamageRefunds \subseteq Nat /\ 0 \in DamageRefunds
    /\ PaymentAmounts \subseteq 1 .. MaxSafe /\ RecordedWith \subseteq 0 .. MaxOrders
    /\ Days \subseteq Nat /\ CreditLimit \in Nat
    /\ PaymentTypes \subseteq {"CASH", "LENT"} /\ Overrides \subseteq BOOLEAN

VARIABLES
    orders,      \* order id -> order row with its lines and what it took of the pallets owed
    returns,     \* return id -> return row with its lines
    refunds,     \* return id -> its REFUND ledger row
    payments,    \* payment id -> PAYMENT ledger row
    cache,       \* order id -> the derived columns recomputeOrder writes
    stock,       \* item -> quantity_on_hand
    owing,       \* item -> sum of all pallet_credits rows: what the factory owes
    surplus,     \* return id -> item -> sum of the pallet_credits rows naming the return
    credited,    \* return id -> the items it has any pallet_credits row of
    handBacks,   \* hand-back id -> HAND_BACK row
    archived     \* the customer is archived

vars == <<orders, returns, refunds, payments, cache, stock, owing, surplus,
          credited, handBacks, archived>>

OrderIds    == 1 .. MaxOrders
ReturnIds   == 1 .. MaxReturns
PaymentIds  == 1 .. MaxPayments
HandBackIds == 1 .. MaxHandBacks
Figures     == -MaxSafe .. MaxSafe
Counts      == 0 .. MaxSafe

OrderRows ==
    [state    : {"none", "live", "cancelled"},
     payment  : {"CASH", "LENT"},
     date     : Nat,
     quantity : [Items -> 0 .. MaxQuantity],    \* pallets lent, 0 = no line
     deposit  : [Items -> Nat],
     used     : [Items -> 0 .. MaxQuantity]]    \* ORDER_USE net of ORDER_CANCEL

Bodies ==
    [accepted      : [Items -> 0 .. MaxQuantity],
     damaged       : [Items -> 0 .. MaxQuantity],
     damagedRefund : [Items -> Nat]]

ReturnRows ==
    [state      : {"none", "standing", "EDIT", "DELETE"},   \* or its reversal_kind
     order      : 0 .. MaxOrders,
     withOrder  : 0 .. MaxOrders,           \* 0 = recorded with no order
     visit      : 0 .. MaxReturns,          \* 0 = none, else the visit's first return
     replacedBy : 0 .. MaxReturns,          \* 0 = not replaced
     date       : Nat,
     body       : Bodies,
     refundDue  : Figures,
     cashRefund : Counts]

RefundRows   == [state : {"none", "standing", "reversed"}, amount : Counts]
PaymentRows  == [state : {"none", "standing", "reversed"}, order : 0 .. MaxOrders,
                 automatic : BOOLEAN, amount : Counts, date : Nat]
HandBackRows == [state : {"none", "standing", "undone"}, quantity : [Items -> Counts]]
CacheRows    == [status : {"OPEN", "SETTLED", "CANCELLED"}, depositTotal : Figures,
                 owed : Figures, outValue : Figures, out : [Items -> Figures]]

NoOrder    == [state |-> "none", payment |-> "LENT", date |-> 0,
               quantity |-> [i \in Items |-> 0], deposit |-> [i \in Items |-> 0],
               used |-> [i \in Items |-> 0]]
NoReturn   == [state |-> "none", order |-> 0, withOrder |-> 0, visit |-> 0,
               replacedBy |-> 0, date |-> 0, body |-> NoBody,
               refundDue |-> 0, cashRefund |-> 0]
NoRefund   == [state |-> "none", amount |-> 0]
NoPayment  == [state |-> "none", order |-> 0, automatic |-> FALSE, amount |-> 0, date |-> 0]
NoHandBack == [state |-> "none", quantity |-> [i \in Items |-> 0]]
NoTotals   == [status |-> "SETTLED", depositTotal |-> 0, owed |-> 0, outValue |-> 0,
               out |-> [i \in Items |-> 0]]

(* Every row, figure and running sum is of its kind. *)
TypeOK ==
    /\ orders    \in [OrderIds -> OrderRows]
    /\ returns   \in [ReturnIds -> ReturnRows]
    /\ refunds   \in [ReturnIds -> RefundRows]
    /\ payments  \in [PaymentIds -> PaymentRows]
    /\ cache     \in [OrderIds -> CacheRows]
    /\ stock     \in [Items -> Counts]
    /\ owing     \in [Items -> Figures]
    /\ surplus   \in [ReturnIds -> [Items -> Counts]]
    /\ credited  \in [ReturnIds -> SUBSET Items]
    /\ handBacks \in [HandBackIds -> HandBackRows]
    /\ archived  \in BOOLEAN

Init ==
    /\ orders    = [o \in OrderIds |-> NoOrder]
    /\ returns   = [r \in ReturnIds |-> NoReturn]
    /\ refunds   = [r \in ReturnIds |-> NoRefund]
    /\ payments  = [p \in PaymentIds |-> NoPayment]
    /\ cache     = [o \in OrderIds |-> NoTotals]
    /\ stock     = [i \in Items |-> InitialStock]
    /\ owing     = [i \in Items |-> 0]
    /\ surplus   = [r \in ReturnIds |-> [i \in Items |-> 0]]
    /\ credited  = [r \in ReturnIds |-> {}]
    /\ handBacks = [h \in HandBackIds |-> NoHandBack]
    /\ archived  = FALSE
-----------------------------------------------------------------------------
(* The rows of an order. *)
Live             == {o \in OrderIds : orders[o].state = "live"}
StandingReturns  == {r \in ReturnIds : returns[r].state = "standing"}
ReturnsOf(o)     == {r \in StandingReturns : returns[r].order = o}
PaymentsOf(o)    == {p \in PaymentIds : payments[p].state = "standing" /\ payments[p].order = o}
RefundsOf(o)     == {r \in ReturnIds : refunds[r].state = "standing" /\ returns[r].order = o}

NextFree(id, ids, row) == id \in ids /\ row[id].state = "none"
                          /\ \A k \in ids : k < id => row[k].state # "none"

PaidOn(o)           == SumOver(PaymentsOf(o), [p \in PaymentsOf(o) |-> payments[p].amount])
RefundedOn(o, gone) == LET kept == RefundsOf(o) \ gone
                       IN  SumOver(kept, [r \in kept |-> refunds[r].amount])

(* The figures of order o computed from its rows, as they would stand with  *)
(* the returns `gone` and their refunds reversed.                           *)
TotalsKeepingRefunds(o, gone) ==                                   \* mutant
    LET active == ReturnsOf(o) \ gone
    IN  OrderTotals(orders[o], active, [r \in active |-> returns[r].body],
                    PaidOn(o), RefundedOn(o, {}))
TotalsWithout(o, gone) ==
    LET active == ReturnsOf(o) \ gone
    IN  OrderTotals(orders[o], active, [r \in active |-> returns[r].body],
                    PaidOn(o), RefundedOn(o, gone))
TotalsOf(o) == TotalsWithout(o, {})

(* recomputeOrder on the orders S: their cache is rewritten from the rows.  *)
(* A figure that is no safe integer, or that its column cannot hold, throws *)
(* and the transaction is rolled back.                                      *)
RecomputeOrders(S) ==
    /\ cache' = [o \in OrderIds |-> IF o \in S THEN TotalsOf(o)' ELSE cache[o]]
    /\ \A o \in S : cache'[o] \in CacheRows

(* StockLedger.apply: the net change of each item, refused when any would   *)
(* leave less than nothing on hand.                                         *)
ApplyUnchecked(change) ==                                          \* mutant
    stock' = [i \in Items |-> stock[i] + change[i]]
ApplyStock(change) ==
    /\ stock' = [i \in Items |-> stock[i] + change[i]]
    /\ \A i \in Items : stock'[i] \in Counts
-----------------------------------------------------------------------------
(* What the customer has out of an item, and the value of it, read from the *)
(* stored columns of the orders that are OPEN.                              *)
OpenOrders       == {o \in OrderIds : cache[o].status = "OPEN"}
OpenOut(i)       == SumOver(OpenOrders, [o \in OrderIds |-> cache[o].out[i]])
CustomerOutValue == SumOver(OpenOrders, [o \in OrderIds |-> cache[o].outValue])

(* The one rule, checked on what a step leaves: an item it touched is not   *)
(* owed while some of it is out.                                            *)
Owed(i)          == ZeroOrMore(owing[i])
OwedBesideOut(i) == Owed(i) > 0 /\ OpenOut(i) > 0
OneRuleIgnored(touched)  == TRUE                                   \* mutant
OneRuleHolds(touched) == \A i \in touched : ~OwedBesideOut(i)'
=============================================================================
