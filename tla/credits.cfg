\* Two orders of one item, pallets returned beyond what was out, given back,
\* taken by an order, corrected, deleted and cancelled.
SPECIFICATION Spec
CONSTANTS
    pallet = pallet
    Items = {pallet}
    MaxOrders = 2
    MaxReturns = 3
    MaxPayments = 0
    MaxHandBacks = 1
    MaxQuantity = 1
    Deposits = {0}
    DamageRefunds = {0}
    MaxExtra = 1
    PaymentTypes = {"LENT"}
    PaymentAmounts = {}
    RecordedWith = {0}
    Days = {1}
    InitialStock = 2
    CreditLimit = 9
    Overrides = {FALSE}
    MaxSafe = 8
INVARIANTS
    CreditsAddUp
    ReopenedSavesUnchanged
PROPERTIES
    CorrectionKeepsPlace
    VisitSurplusGoesWithItsReturns
CHECK_DEADLOCK FALSE
