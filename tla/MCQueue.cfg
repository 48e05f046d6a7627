SPECIFICATION Spec
CONSTANTS
    NULL = NULL
    Queues = {q1, q2}
    Workers = {w1, w2}
    Priorities = {0}
    RunAts = {NULL}
    Delays = {NULL, 1}
    Expiries = {NULL, 1}
    Budgets = {0, 1, 2}
    Timeouts = {1}
    Extends = {1}
    RetryDelays = {0, 1}
    BatchSizes = {1}
    CLAIM_HOUSEKEEPING_LIMIT = 1
    Lags = {0, 1}
    MaxJobs = 1
    MaxTime = 5
SYMMETRY Symmetry
INVARIANTS
    WellFormed
    JobConservation
    OneClaimPerAttempt
    SettledByLastClaim
PROPERTIES
    LeaseExcludesOthers
    ImplementsLifecycle
