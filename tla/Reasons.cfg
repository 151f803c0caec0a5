SPECIFICATION Spec
CONSTANTS
    NULL = NULL
    Workers = {w1}
    Requests = {r1}
    Conns = {k1, k2, k3}
CHECK_DEADLOCK FALSE
INVARIANTS
    ReasonsSurviveShutdown
