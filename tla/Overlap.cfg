SPECIFICATION Spec
CONSTANTS
    NULL = NULL
    Emails = {e1}
    Users = {u1}
    UserOf <- MCUserOf
    Contents <- MCPlainOnly
    ClassifyWorkers = {c1, c2}
    ParseWorkers = {p1}
    MaxAttempts = 2
INVARIANTS
    HandlerHoldsTheClaim
