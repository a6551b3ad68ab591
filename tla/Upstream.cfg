SPECIFICATION FairSpec
CONSTANTS
    c1 = c1
    c2 = c2
    p1 = p1
    p2 = p2
    i1 = i1
    i2 = i2
    Callers = {c1, c2}
    Ports = {p1}
    DockerCallers = {c1}
    IPs = {i1, i2}
    None = None
    Others = Others
    NoIP = NoIP
    Joined = Joined
    InspectErr = InspectErr
INVARIANTS
    ConfirmedIP
    PublishedSuffices
PROPERTIES
    DiscoversOnlyStale
    ListIsRecent
    RequestsAnswered
    LoopEnds
