CONSTANTS
    Threads = {t1, t2}
    Digests <- MCDigests
    SizeBytes <- MCSizeBytes
    Directories = {m1, m2}
    maxFiles = 2
    maxSize = 2
    maxDirectories = 1
    NoThread = nobody
    Nothing = nothing
    Partial = partial
SPECIFICATION FairSpec
INVARIANTS
    BooksExact
    FailuresHaveCauses
    SuccessIsRight
    CachesBounded
PROPERTIES
    CallsEnd
