SPECIFICATION FairSpec
CONSTANTS
    h1 = h1
    s1 = s1
    r1 = r1
    r2 = r2
    r3 = r3
    a1 = a1
    None = None
    Hosts = {h1}
    Related = {s1}
    Requests = {r1, r2}
    Admins = {a1}
INVARIANTS
    OneResolutionPerKey
    LeaderStoresItsAnswer
    ForcedLeaderResolves
    NoStaleAnswer
PROPERTIES
    OverwritesOnlyOverlapping
    EveryRequestAnswered
CHECK_DEADLOCK FALSE
