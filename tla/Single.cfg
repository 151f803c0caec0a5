SPECIFICATION Spec
CONSTANTS
    NULL = NULL
    Emails = {e1, e2}
    Users = {u1}
    UserOf <- MCUserOf
    Contents <- MCContents
    ClassifyWorkers = {c1}
    ParseWorkers = {p1}
    MaxAttempts = 2
INVARIANTS
    TypeOK
PROPERTIES
    LifecycleSpec
