\* One order of one item: deposits, damage, cash refunds, payments, every
\* sequence of two returns and two payments.
SPECIFICATION Spec
CONSTANTS
    pallet = pallet
    Items = {pallet}
    MaxOrders = 1
    MaxReturns = 2
    MaxPayments = 2
    MaxHandBacks = 0
    MaxQuantity = 2
    Deposits = {0, 2}
    DamageRefunds = {0, 1}
    MaxExtra = 0
    PaymentTypes = {"CASH", "LENT"}
    PaymentAmounts = {1, 3}
    RecordedWith = {0}
    Days = {1}
    InitialStock = 2
    CreditLimit = 9
    Overrides = {FALSE}
    MaxSafe = 8
INVARIANTS
    TotalsNeverThrow
    CacheIsRecomputation
    RefundStandsWithItsReturn
    CashPaidAutomatically
    ReadingsAgree
PROPERTIES
    KeepsAccount
CHECK_DEADLOCK FALSE
