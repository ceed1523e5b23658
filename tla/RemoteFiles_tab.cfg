SPECIFICATION Spec
CONSTANT
  Task = {1, 2}
  MaxRequests = 2
  MaxEdits = 1
  PoolCapacity = 1
INVARIANT SessionHasOneUser CleanReachedServer
PROPERTY OnlyNewestApplies RestoreEnds
CHECK_DEADLOCK FALSE
