SPECIFICATION Spec
CONSTANTS
    Syncs = {s1, s2}
    Branches = {main}
    Trails <- MCTrails
    Commits <- MCCommits
    Selected <- MCSelected
    CommitTime <- MCCommitTime
    Entries <- MCEntries
    Linked <- MCLinked
    MaxEntries = 2
    Protect = 1
    WriterCap = 2
    MaxClock = 1
    MaxRows = 1
    NoTrail = NoTrail
    NoBranch = NoBranch
    NoSync = NoSync
SYMMETRY Symmetry
INVARIANTS
    RetainedComplete
PROPERTIES
    AliasesKept
    RecentKept
    EvictionMinimal
    ReportExact
