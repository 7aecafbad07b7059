CONSTANTS
    c1 = c1
    c2 = c2
    Digests = {"e", "h", "l"}
    SizeBytes <- MCSizeBytes
    cutoffSizeBytes = 0
    Backends = {"A", "B", "H"}
    Drained = "drained"
    Shards <- MCShards
    RandomSequence <- MCRandomSequence
    Kind <- MCKind
    Calls = {c1, c2}
    Uses <- MCUses
    readChunkSize = 1
    Window = 1
    Queries = {{"e", "l"}, {"h"}}
    BazelRequests <- MCBazelRequests
    Spoilt <- MCSpoilt
    Lossy = {"H"}
    OwnContext = {c2}
SPECIFICATION FairSpec
INVARIANTS
    ClientSpeaksProtocol
PROPERTY
    Implements
    StreamsEnd
CHECK_DEADLOCK FALSE
