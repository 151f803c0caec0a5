SPECIFICATION FairSpec
CONSTANTS
    NULL = NULL
    Workers = {w1, w2}
    Requests = {r1, r2}
    Conns = {k1, k2, k3}
CHECK_DEADLOCK FALSE
INVARIANTS
    TypeOK
    ConnsAccounted
    NoCircularWait
PROPERTIES
    HandlersGetOn
    ShutdownEnds
