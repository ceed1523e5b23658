CONSTANTS
    Threads = {t1, t2, t3}
    MaxCalls = 3
    MaxKeys = 3
SPECIFICATION TokenFairSpec
INVARIANT SingleFlight SleepersAreWoken
PROPERTY ClearedTokenIsGone CallsReturn
CHECK_DEADLOCK FALSE
