CONSTANTS
    Threads = {t1, t2}
    Digests = {d1, d2}
    NoThread = nobody
    MaxRuns = 4
    MaxFailures = 1
SPECIFICATION FairSpec
INVARIANTS
    RefcountExact
    OwnSubdirectory
    TempFilesStay
PROPERTIES
    ExecutionsEnd
CHECK_DEADLOCK FALSE
