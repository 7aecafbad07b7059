CONSTANTS
    Calls = {c1, c2}
    Backends <- MCBackends
    InstanceNames <- MCInstanceNames
    Jobs <- MCJobs
    MaxRestarts = 1
SPECIFICATION FairSpec
INVARIANTS
    NamesLeadBack
    OKMeansDone
PROPERTIES
    RelayedCallsReturn
CHECK_DEADLOCK FALSE
