SPECIFICATION LoopSpec
CONSTANTS
    NULL = NULL
    Queues = {q1}
    Name = q1
    Workers = {w1, w2}
    Me = w1
    Priorities = {0}
    RunAts = {NULL}
    Delays = {NULL, 1}
    Expiries = {NULL}
    Budgets = {2}
    Timeouts = {1}
    Extends = {}
    RetryDelays = {1}
    BatchSizes = {1}
    CLAIM_HOUSEKEEPING_LIMIT = 1
    Lags = {0}
    MaxJobs = 1
    MaxTime = 3
    IdlePolls = {TRUE, FALSE}
INVARIANTS
    NeverSleepsThrough
PROPERTIES
    OfferedIsTaken
