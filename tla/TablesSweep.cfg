SPECIFICATION Spec
CONSTANTS
    NULL = NULL
    Subs = {s1}
    LIMIT = 1
    MaxRows = 1
    SaveEverys = {0}
    SAVE_FAILS = FALSE
    Keeps = {0}
    Callers = {c1}
    PER = 3
    MAX_CALLS = 2
    OlderThans = {1}
    LOCK_WAIT = 1
    MaxSwept = 2
    MaxClock = 5
    Jobs = {j1}
    Values = {v1}
    Ttls = {1}
    MaxNow = 2
CHECK_DEADLOCK FALSE
INVARIANT WindowCap
