\* Every part beside lending, each by itself; the bounds of a part let its
\* hazards happen.
SPECIFICATION PartsSpec
CONSTANTS
    i1 = i1
    i2 = i2
    a1 = a1
    a2 = a2
    s1 = s1
    \* the throttle
    Addresses = {a1, a2}
    Window = 1
    MaxFailures = 2
    LockBase = 1
    LockMax = 2
    AccountWindow = 2
    AccountMaxFailures = 3
    HoldBase = 1
    HoldMax = 2
    MinAddresses = 2
    Retention = 2
    LastTick = 4
    MaxWrong = 4
    \* stock
    Goods = {i1, i2}
    MaxBatches = 2
    MaxMovements = 3
    MaxPallets = 2
    PurchaseDays = {1, 2}
    PageSize = 2
    RowCap = 1
    \* receipts
    OrderDeposits = {1, 2}
    Sums = {1, 2}
    Pauses = {1, 4}
    CloseCall = 3
    Skew = 2
    MaxRows = 3
    \* the money account
    Orders = {1, 2}
    Amounts = {0, 1, 2}
    \* the return form
    OrderNumbers = {1, 2}
    FormDays = {1, 2}
    MaxOut = 1
    MaxTyped = 2
    Prices = {0, 1}
    Refunds = {0, 1}
    MaxChanges = 2
    \* the order form
    Drafts = {1, 2}
    ClientLimit = 2
    MaxOutValue = 6
    MaxSends = 3
    MaxEdits = 1
    MaxOthers = 1
    \* deploys and restores
    Versions = {1, 2}
    Keep = 2
    MaxDeploys = 3
    MaxWrites = 1
    Snapshots <- SnapshotsOfAllKinds
    MaxRestores = 2
    \* an edited record
    Screens = {s1}
    Inputs = {1, 2}
    Taken = {2}
    MaxRecords = 1
    MaxEdition = 2
    MaxSaves = 1
    \* printing: presses in place, and a receipt's own page
    Receipts = {1, 2}
    MaxPresses = 3
    MaxReissues = 1
    MaxVisits = 2
    \* an order's page
    MostOwed = 2
    MaxAsked = 2
    MaxRetyped = 1
    MaxMeanwhile = 1
    \* a list
    MaxMoves = 2
    MaxGone = 1
INVARIANTS
    LedgerAddsUp
    ReceiptsSayWhatWasOwed
    SavesWhatWasSeen
    SecondOnlyByOverride
    WayBackStays
    NothingDestroyed
    EachPressPrintsOnce
    WorkedOnceAndShown
    ListSettlesOnItsAddress
PROPERTIES
    OnlyOwnFailuresHoldADevice
    NothingLostUnseen
CHECK_DEADLOCK FALSE
