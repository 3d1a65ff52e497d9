CONSTANTS
    p1 = p1
    v1 = v1
    p2 = p2
    Keys <- MCKeys
    Refinements <- MCRefinements
    Ids = {i1, i2, i3}
    NoKey = NoKey
    NoId = NoId
    ReadyCap = 2
    JobCap = 2
    WriterCap = 2
    WorkerTimesOut = TRUE
SPECIFICATION Spec
SYMMETRY Symmetry
INVARIANTS
    TypeOK
    ReadyQueueExact
    DemandCountExact
    CrashLeavesFailed
    JobFoundById
PROPERTY LedgerKept
