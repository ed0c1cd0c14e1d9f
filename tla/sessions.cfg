\* One account signing in and out on two devices, and an operation that ends
\* every session at any moment of it; or two administrators who sign in and
\* act on each other, and on themselves, at once.
SPECIFICATION QuestionsSpec
CONSTANTS
    MaxUsers = 2
    Admins = {1, 2}
    t1 = t1
    t2 = t2
    Txs = {t1, t2}
    Ops = {"login", "rotate", "logout", "logoutAll", "reset", "change",
           "deactivate", "activate", "demote", "promote", "recover", "recoverPromote"}
    MaxFamilies = 2
    MaxTokens = 4
    MaxVersion = 1
    MaxEdition = 2
SYMMETRY RequestSymmetry
CONSTRAINT Keeps
INVARIANTS
    EverySessionIsCurrent
    AdminRemains
CHECK_DEADLOCK FALSE
