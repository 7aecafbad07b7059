\* Sizes: empty, within a chunk, across chunks, larger than the data file.
\* Width is small enough for the counters to wrap around.
CONSTANTS
    Width = 20
    dataSize = 5
    chunkSize = 2
    Sizes = {0, 2, 3, 6}
    MaxAllocations = 5
    MaxFaults = 2
SPECIFICATION Spec
INVARIANTS
    WindowFits
    ValidDataDisjoint
PROPERTIES
    DeadDataStaysDead
CHECK_DEADLOCK FALSE
