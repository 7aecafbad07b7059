CONSTANTS
    Width = 64
    dataSize = 6
    chunkSize = 1
    Digests <- MCDigests
    Slots <- MCSlots
    Hash <- MCHash
    maximumIterations = 3
    NoDigest = "zero"
    CacheSlot <- MCCacheSlot
    SizeBytes <- MCSizeBytes
    MaxWrite = 6
    MaxFailures = 1
SPECIFICATION OffsetStoreSpec
INVARIANTS
    FoundIsTrue
    NewestFirst
    HiddenExplained
    LastBlobFound
CHECK_DEADLOCK FALSE
