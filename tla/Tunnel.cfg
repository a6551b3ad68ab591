SPECIFICATION FairSpec
CONSTANTS
    k1 = k1
    k2 = k2
    c1 = c1
    c2 = c2
    None = None
    Keys = {k1, k2}
    Callers = {c1, c2}
    CacheMax = 1
    Invalidated = {k1}
    MaxInvalidations = 1
INVARIANTS
    CacheBounded
    FreshAfterInvalidate
PROPERTIES
    CounterKeepsStaleOut
    CallsAnswered
