CONSTANTS
    Keys = {k1}
    Priorities = {0}
    Clients = {c1, c2}
    Workers = {w1, w2}
    Responses = {done}
    ErrorResponse = error
    NoResponse = nil
    NoOne = noone
    jobsPendingMax = 1
    MaxJobs = 1
    MaxStreamFaults = 2
SPECIFICATION FairSpec
PROPERTIES
    CallsReturn
    JobsComplete
