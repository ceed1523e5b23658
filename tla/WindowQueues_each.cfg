SPECIFICATION Spec
CONSTANTS
    Paths = {p, q}
    NoPath = NoPath
    Capacity = 2
    MaxNotify = 4
    Inputs = {"a", "b"}
    MaxTyped = 2
    Windows = {1, 2}
    Restored = {1}
    Files = {"f"}
    MaxRequests = 2
INVARIANT ReportedOnce TwiceOnlyByOverlap
PROPERTY EventsConsumed ListSettles RequestsEnd
CHECK_DEADLOCK FALSE
