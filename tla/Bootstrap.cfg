SPECIFICATION FairSpec
CONSTANTS
    Procs = {p1, p2}
    NULL = NULL
    MaxFaults = 3
    Ids = {j1, j2}
CHECK_DEADLOCK FALSE
INVARIANTS
    NoJobLost
    ReadyMeansMigrated
    ErrorMeansUndone
PROPERTIES
    EveryoneGetsReady
