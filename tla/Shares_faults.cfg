SPECIFICATION Spec
CONSTANTS
    Share = {a, b}
    Fetcher = {f, g}
    Contents <- MCContents
    ServerLimits = {0, 1}
    MaxAttempts = 2
    MaxRounds = 2
    MaxFaults = 2
SYMMETRY MCSymmetry
INVARIANT SuppressedIsOnItsWay
PROPERTY ImplementsDelivery
CHECK_DEADLOCK FALSE
