CONSTANTS
    p1 = p1
    v1 = v1
    p2 = p2
    Keys <- MCKeys
    Refinements <- MCRefinements
    Ids = {i1, i2}
    NoKey = NoKey
    NoId = NoId
    ReadyCap = 1
    JobCap = 1
    WriterCap = 2
    WorkerTimesOut = FALSE
SPECIFICATION FairSpec
PROPERTIES
    QueuedJobsStart
    RunningJobsEnd
    MutexReleased
    NoImplicitReplay
