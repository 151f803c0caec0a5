SPECIFICATION PromptSpec
CONSTANTS
    NULL = NULL
    None = None
    Elements <- MCElements
    MaxNodes = 4
    MaxParts = 3
INVARIANTS
    CandidatesFollowDocument
    TextFollowsDocument
    BlocksStayApart
    SameThroughEither
    SuccessIsAnAnswer
