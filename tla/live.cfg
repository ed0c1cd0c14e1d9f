\* Three submissions of one key, five password checks for two slots, two tabs of
\* one session.
SPECIFICATION LiveSpec
CONSTANTS
    Submissions = {s1, s2, s3}
    Keys = {k1}
    Locks = {l1, l2}
    Bodies = {b1}
    Supply = 2
    TTL = 1
    MaxTime = 2
    Attempts = {a1, a2, a3, a4, a5}
    Permits = 2
    MaxQueue = 2
    Tabs = {t1, t2}
    MaxCalls = 1
    MaxFamilies = 1
    MaxTokens = 2
    MaxLost = 1
    Grace = 1
    RetryDelay = 1
    MaxTick = 0
INVARIANTS
    OncePerLifetime
    AnswersHold
    NoSlotLost
PROPERTIES
    EverySubmissionEnds
    WaiterIsServed
    EveryTabFollows
CHECK_DEADLOCK FALSE
