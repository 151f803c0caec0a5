SPECIFICATION TimedSpec
CONSTANTS
    NULL = NULL
    Emails = {e1, e2}
    Users = {u1}
    UserOf <- MCUserOf
    Contents <- MCPlainOnly
    ClassifyWorkers = {c1, c2}
    ParseWorkers = {p1}
    MaxAttempts = 2
    Backoff <- MCBackoff
    Span <- MCSpan
    MaxTime = 3
SYMMETRY MCSymmetry
ACTION_CONSTRAINT MCBillingFirst
INVARIANTS
    OutlivedBackoff
    PatientBeforeGivingUp
    OvertakenOnce
PROPERTY
    Spec
CHECK_DEADLOCK FALSE
