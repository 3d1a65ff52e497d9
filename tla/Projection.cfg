CONSTANTS
    r = r
    a = a
    b = b
    m = m
    h = h
    x = x
    y = y
    Null = Null
    Unlimited = Unlimited
    Histories <- MCHistories
    Policies <- MCPolicies
SPECIFICATION Spec
INVARIANTS
    NoFalseResolution
    DescendantResolves
    FrontierKept
    CacheTrue
    EffectsReach
    TruncationTold
CHECK_DEADLOCK FALSE
