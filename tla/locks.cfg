\* What locks.ts says of the order of the locks.
SPECIFICATION Spec
CONSTANTS
    MaxUsers = 1
    Admins = {}
    Txs = {t1, t2}
    Ops = {"login", "logout", "logoutAll"}
    MaxFamilies = 1
    MaxTokens = 1
    MaxVersion = 1
    MaxEdition = 2
INVARIANTS
    NoRingOfWaiters
CHECK_DEADLOCK FALSE
