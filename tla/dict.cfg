SPECIFICATION FairSpec
CONSTANTS
    k1 = k1
    k2 = k2
    v1 = v1
    v2 = v2
    Clients = {c1, c2}
    Keys = {k1, k2}
    Values = {v1, v2}
    Ops <- MCOps
    None = None
    MaxCalls = 2
INVARIANTS
    TypeOK
    Snapshot
PROPERTIES
    ImplementsMap
    CallsReturn
CHECK_DEADLOCK FALSE
