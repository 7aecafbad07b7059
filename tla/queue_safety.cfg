CONSTANTS
    Keys = {k1, k2, k3}
    Priorities = {0, 1}
    Clients = {c1, c2}
    Workers = {w1, w2}
    Responses = {done}
    ErrorResponse = error
    NoResponse = nil
    NoOne = noone
    jobsPendingMax = 2
    MaxJobs = 2
    MaxStreamFaults = 2
SPECIFICATION Spec
SYMMETRY Symmetry
INVARIANTS
    DeduplicationExact
    JobsConserved
    NoLostWakeup
    NoLostBroadcast
    OperationsAreNews
    NoOvertaking
PROPERTIES
    ImplementsService
