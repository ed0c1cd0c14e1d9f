\* Two orders, two days: returns recorded with another order, re-dated
\* orders, payments, cancellation and archiving, every order beyond the limit of
\* 0 confirmed by an administrator.
SPECIFICATION Spec
CONSTANTS
    pallet = pallet
    Items = {pallet}
    MaxOrders = 2
    MaxReturns = 2
    MaxPayments = 1
    MaxHandBacks = 0
    MaxQuantity = 1
    Deposits = {1}
    DamageRefunds = {0}
    MaxExtra = 0
    PaymentTypes = {"LENT"}
    PaymentAmounts = {1}
    RecordedWith = {0, 1}
    Days = {1, 2}
    InitialStock = 2
    CreditLimit = 0
    Overrides = {TRUE}
    MaxSafe = 8
INVARIANTS
    ActivityKeepsToItsOrder
    HandoverPapersAddUp
PROPERTIES
    ArchivedWhenSettled
CHECK_DEADLOCK FALSE
