SPECIFICATION Spec
CONSTANTS
    Conns = {c1, c2}
    Ids = {i1, i2}
    Limit = 1
    NoConn = NoConn
INVARIANTS
    LimitRespected
