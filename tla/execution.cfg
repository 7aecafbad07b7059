CONSTANTS
    Threads = {t1, t2}
    Actions <- MCActions
    Outputs <- MCOutputs
    Failure <- MCFailure
    batchSize = 2
    MaxRuns = 2
    MaxErrors = 1
    MaxDisturbances = 1
    actionCacheAllowUpdates = TRUE
SPECIFICATION FairSpec
INVARIANTS
    SuccessMeansStored
    CacheEntriesBacked
    PendingBounded
PROPERTIES
    ExecutionsEnd
CHECK_DEADLOCK FALSE
