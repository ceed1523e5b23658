SPECIFICATION Spec
CONSTANTS
    Share = {a, b}
    Fetcher = {f, g}
    Contents <- MCContents
    ServerLimits = {1}
    MaxAttempts = 2
    MaxRounds = 2
    MaxFaults = 1
INVARIANT SuppressedIsOnItsWay
PROPERTY ImplementsDelivery PendingEnds
CHECK_DEADLOCK FALSE
