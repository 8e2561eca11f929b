SPECIFICATION Spec
CONSTANTS
    d1 = d1
    d2 = d2
    d3 = d3
    other = other
    Domains = {d1, d2, d3, other}
    None = None
    Allowlist = {d1, d2, d3}
    CacheTTL = 2
    FetchTimeout = 1
    LockDelay = 1
    MaxEntries = 2
    Calls = {c1, c2, c3, c4}
    MaxClock = 5
SYMMETRY Symmetry
INVARIANTS
    AnswerIsRecent
    CacheIsBounded
PROPERTY
    LiveEntryKept
CHECK_DEADLOCK FALSE
