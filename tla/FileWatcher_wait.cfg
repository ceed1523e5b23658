CONSTANTS
    Paths = {p, q}
    NoPath = NoPath
    Capacity = 2
    MaxNotify = 4
SPECIFICATION WatcherFairSpec
PROPERTIES
    RenameWaitEnds
CHECK_DEADLOCK FALSE
