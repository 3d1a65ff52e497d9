CONSTANTS
    t = t
    Routes = {1, 2}
    Trails = {t}
    Lookups <- MCLookups
    Window = 1
    Sample = 1
    Expiry = 2
    MaxSamples = 2
    MaxRoutes = 2
    RouteBytes <- MCRouteBytes
    SampleBytes = 1
    Reserved = 1
    MinRoom = 2
    UseBytes <- MCUseBytes
    HalfBytes = 5
    Ceiling = 3
    MaxTime = 3
SPECIFICATION FairSpec
INVARIANTS
    TargetJustified
    BytesExact
PROPERTY UsesDurable
CHECK_DEADLOCK FALSE
