SPECIFICATION FairSpec
CONSTANTS
    NULL = NULL
    Emails = {e1}
    Users = {u1}
    UserOf <- MCUserOf
    Contents <- MCContents
    ClassifyWorkers = {c1, c2}
    ParseWorkers = {p1, p2}
    MaxAttempts = 3
INVARIANTS
    GivenUpOnlyAfterFullBudget
    ClassifyBudget
    ExtractionFromOneRun
    ConfirmationSurfaced
    NoSilentSkip
    StageBudget
    NoErrorOnFinished
PROPERTIES
    ExtractionIsFinal
    DecidedOnce
    EventuallySettled
