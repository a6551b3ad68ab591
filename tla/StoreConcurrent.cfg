SPECIFICATION FairSpec
CONSTANTS
    h1 = h1
    h2 = h2
    w1 = w1
    w2 = w2
    i1 = i1
    i2 = i2
    NoFile = NoFile
    Truncated = Truncated
    Torn = Torn
    Free = Free
    Hosts = {h1, h2}
    Writers = {w1, w2}
    Instances = {i1}
    MaxOps = 3
    MaxCrashes = 1
INVARIANTS
    FileWhole
PROPERTIES
    SaveKeepsOlderSaves
    StoreSpec
    SaveReturns
CHECK_DEADLOCK FALSE
