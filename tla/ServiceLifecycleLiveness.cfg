SPECIFICATION FairSpec
CONSTANTS
    Conns = {c1, c2}
    Jobs = {j1}
    Requests = {"query", "add", "retry", "stop", "invalid"}
    ConnectionCap = 2
    LookupCap = 1
    LookupQueue = 1
    HeavyCap = 2
    MaxConcurrency = 1
    HeavyQueue = 1
    ControlQueue = 1
    ControlWorkers = 2
    NoJob = NoJob
CHECK_DEADLOCK FALSE
PROPERTIES
    RequestsEnd
    JobsStart
    StopDrains
