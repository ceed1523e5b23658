CONSTANTS
    Threads = {t1, t2}
    MaxCalls = 3
    MaxKeys = 2
SPECIFICATION TokenSpec
PROPERTIES
    NextCallUsesLatestKey
CHECK_DEADLOCK FALSE
