CONSTANTS
    Width = 64
    dataSize = 3
    chunkSize = 1
    Digests <- MCDigests
    Slots <- MCSlots
    Hash <- MCHash
    maximumIterations = 3
    NoDigest = "zero"
    CacheSlot <- MCCacheSlot
    SizeBytes <- MixedSizes
    Putters = {p1}
    Getters = {g1}
    BufferSize = 2
    MaxWrite = 4
    MaxRestarts = 0
SPECIFICATION Spec
CHECK_DEADLOCK FALSE
INVARIANT ValidData
