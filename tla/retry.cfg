\* One tab whose refresh is rotated by the server while the answer is lost, and
\* the timer that asks again; the retry waits as long as the grace window.
SPECIFICATION BrowserSpec
CONSTANTS
    Tabs = {t1}
    MaxCalls = 2
    MaxFamilies = 1
    MaxTokens = 3
    MaxLost = 1
    Grace = 2
    RetryDelay = 2
    MaxTick = 4
PROPERTIES
    RetryKeepsSession
CHECK_DEADLOCK FALSE
