SPECIFICATION FairSpec
CONSTANTS
    NULL = NULL
    Subs = {s1, s2}
    LIMIT = 1
    MaxRows = 2
    SaveEverys = {0, 2}
    SAVE_FAILS = TRUE
    Keeps = {0, 1}
    Callers = {c1, c2}
    PER = 2
    MAX_CALLS = 2
    OlderThans = {0, 1, 5}
    LOCK_WAIT = 3
    MaxSwept = 2
    MaxClock = 8
    Jobs = {j1}
    Values = {v1, v2}
    Ttls = {0, 1, 2}
    MaxNow = 4
CHECK_DEADLOCK FALSE
INVARIANTS
    NoneSkippedNoneTwice
    ExcessWasSwept
    ReadableUntilExpiry
PROPERTIES
    RowsInOrder
    WakeIsNotLost
