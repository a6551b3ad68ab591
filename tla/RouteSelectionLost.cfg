SPECIFICATION Spec
CONSTANTS
    h1 = h1
    s1 = s1
    r1 = r1
    r2 = r2
    r3 = r3
    a1 = a1
    None = None
    Hosts = {h1}
    Related = {}
    Requests = {r1}
    Admins = {a1}
INVARIANTS
    SelectionStands
CHECK_DEADLOCK FALSE
