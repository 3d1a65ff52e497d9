CONSTANTS
    a = a
    b = b
    t = t
    Heads = {1, 2}
    Commits = {a, b}
    Walk <- MCWalk
    Parents <- MCParents
    Recent = {}
    Trails = {t}
    TrailCommits <- MCTrailCommits
    Limit = 2
    Targets = {0, 2}
    BatchSize = 1
    Quota = 1
    QueueCap = 2
    PinCap = 1
    RecordCap = 1
    TryCap = 2
SPECIFICATION FairSpec
INVARIANTS
    QueueExact
    ActiveBounded
    RetainedKept
PROPERTIES
    OnlyEvictionOverfills
    TurnsCome
    StopEnds
CHECK_DEADLOCK FALSE
