SPECIFICATION Spec
CONSTANTS
    MaxWorkers = 2
    MaxOps = 2
    TransientRetryAttempts = 1
    FastAttempts = 1
INVARIANT NoOrphanWorker LiveWorkerIsWanted
PROPERTY RetiredWorkersEnd OpenStreamIsShown
CHECK_DEADLOCK FALSE
