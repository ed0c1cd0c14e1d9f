\* Two tabs of one session, two requests under way at once, an answer lost, and
\* a retry that may come within the grace window or beyond it.
SPECIFICATION BrowserSpec
CONSTANTS
    t1 = t1
    t2 = t2
    Tabs = {t1, t2}
    MaxCalls = 2
    MaxFamilies = 1
    MaxTokens = 3
    MaxLost = 1
    Grace = 0
    RetryDelay = 1
    MaxTick = 1
SYMMETRY TabSymmetry
INVARIANTS
    NotTakenForThief
PROPERTIES
    SignedOutStaysOut
CHECK_DEADLOCK FALSE
