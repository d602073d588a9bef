SPECIFICATION FairSpec
CONSTANTS
    Conns = {c1, c2}
    Ids = {i1, i2}
    Limit = 0
    NoConn = NoConn
INVARIANTS
    TypeOK
    RegisteredEntered
    DeadOnlyIfLate
    LiveIsFound
PROPERTIES
    RefusedLeaves
