SPECIFICATION Spec
CONSTANTS
    Conns = {c1, c2, c3, c4}
    Jobs = {j1}
    Requests = {"query", "add", "deep", "retry", "stop", "invalid"}
    ConnectionCap = 3
    LookupCap = 1
    LookupQueue = 1
    HeavyCap = 2
    MaxConcurrency = 1
    HeavyQueue = 1
    ControlQueue = 1
    ControlWorkers = 2
    NoJob = NoJob
SYMMETRY Symmetry
CHECK_DEADLOCK FALSE
INVARIANTS
    GaugesExact
    ExecutionFits
    NothingStranded
    WriterOutlivesUsers
