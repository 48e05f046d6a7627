SPECIFICATION FairSpec
CONSTANTS
    NULL = NULL
    Queues = {q1}
    Workers = {w1}
    Priorities = {0, 1}
    RunAts = {2}
    Delays = {NULL}
    Expiries = {NULL, 1}
    Budgets = {2}
    Timeouts = {0}
    Extends = {}
    RetryDelays = {}
    BatchSizes = {1, 2}
    CLAIM_HOUSEKEEPING_LIMIT = 1
    Lags = {0}
    MaxJobs = 3
    MaxTime = 4
INVARIANTS
    SleepNeverLate
PROPERTIES
    ClaimOrder
    DueIsHandled
