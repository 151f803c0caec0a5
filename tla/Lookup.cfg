SPECIFICATION Spec
CONSTANTS
    NULL = NULL
    Empty = Empty
    m1 = m1
    m2 = m2
    m3 = m3
    m4 = m4
    u1 = u1
    u2 = u2
    f1 = f1
    id1 = id1
    Messages = {m1, m2}
    Users = {u1, u2}
    Froms = {f1}
    MessageIds = {id1}
    Owner <- MCOwner
    From <- MCFrom
    MessageId <- MCFirstNamed
    Unsubscribe <- MCUnsubscribe
    MaxPosts = 2
    MaxFaults = 1
CHECK_DEADLOCK FALSE
INVARIANTS
    AcceptedUnstoredIsUnroutable
