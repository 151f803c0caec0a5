SPECIFICATION Spec
CONSTANTS
    NULL = NULL
    haiku = haiku
    sonnet = sonnet
    local = local
    remote = remote
    llama = llama
    qwen = qwen
    Posts = {q1, q2}
    Calls = {c1}
    Values <- MCValues
    Default <- MCDefault
    Forms <- MCForms
SYMMETRY MCSymmetry
INVARIANTS
    TypeOK
    NoStaleChoice
    ModelFitsClient
    SavedFormsHold
