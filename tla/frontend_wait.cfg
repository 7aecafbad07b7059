CONSTANTS
    Calls = {c1, c2}
    Backends <- MCBackends
    InstanceNames <- MCInstanceNames
    Jobs <- MCJobs
    MaxRestarts = 0
SPECIFICATION Spec
INVARIANTS
    WaitExecutionFindsJob
CHECK_DEADLOCK FALSE
