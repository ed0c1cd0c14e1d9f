\* A change of password that waits for its account while an administrator
\* deactivates it.
SPECIFICATION Spec
CONSTANTS
    MaxUsers = 2
    Admins = {2}
    Txs = {t1, t2}
    Ops = {"login", "change", "deactivate"}
    MaxFamilies = 3
    MaxTokens = 3
    MaxVersion = 2
    MaxEdition = 2
INVARIANTS
    DeactivatedIsOut
CHECK_DEADLOCK FALSE
