SPECIFICATION FairSpec
CONSTANTS
    NULL = NULL
    l1 = l1
    l2 = l2
    l3 = l3
    outer = outer
    inner = inner
    article = article
    other = other
    Quotes = 2
    Links = {l1, l2, l3}
    Urls = {outer, inner, article, other}
    Raw <- MCRaw
    Wrapped <- MCWrapped
    LinkWorkers = 2
    MaxRequests = 3
CHECK_DEADLOCK FALSE
INVARIANTS
    TypeOK
    StoredIsReached
    QuotesKeptByVerdict
PROPERTIES
    RunEnds
