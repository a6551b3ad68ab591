SPECIFICATION ASpec
CONSTANTS
    h1 = h1
    h2 = h2
    q1 = q1
    q2 = q2
    n1 = n1
    n2 = n2
    n3 = n3
    None = None
    Hosts = {h1, h2}
    Requests = {q1, q2}
    Notes = {n1, n2, n3}
    MaxRoutes = 1
    Buckets = 2
    MaxTime = 4
    Capacity = 2
    NiceBucketDurations = {1, 2}
    BucketTarget = 1
    BucketMax = 2
    LongestBar = 2
SYMMETRY Symmetry
INVARIANTS
    RoutesBounded
    WindowIsExact
    NoRequestLost
    ErrorsAreReal
    LogAgreesWithStats
    BarsShowTheirRows
PROPERTIES
    BarsStayAligned
CHECK_DEADLOCK FALSE
