\* Two orders of up to two pallets of one item, and one order of a pallet each
\* of two items: an order takes what is owed first and lends the rest, is
\* edited, cancelled and returned with extra pallets, and what is owed is handed
\* back, under a credit limit of 2.
SPECIFICATION Spec
CONSTANTS
    pallet = pallet
    crate = crate
    Items = {pallet, crate}
    MaxOrders = 2
    MaxReturns = 2
    MaxPayments = 0
    MaxHandBacks = 1
    MaxQuantity = 2
    Deposits = {1}
    DamageRefunds = {0}
    MaxExtra = 1
    PaymentTypes = {"LENT"}
    PaymentAmounts = {}
    RecordedWith = {0}
    Days = {1}
    InitialStock = 3
    CreditLimit = 2
    Overrides = {FALSE}
    MaxSafe = 8
SYMMETRY ItemSymmetry
CONSTRAINT OneItemOrOneOrder
INVARIANTS
    TypeOK
    StockMatchesLedgers
    OrderFormsForetell
PROPERTIES
    OwedGoesOutFirst
    OnlyCancelOwesBesideOut
    CreditRespected
CHECK_DEADLOCK FALSE
