SPECIFICATION FairSpec
CONSTANTS
    Subscribers = {s1}
    FAILS = TRUE
    MAX_RETAINED_SHM_FDS = 2
    MaxShm = 3
INVARIANTS
    OnlyBlindCommitsMissed
    LogWatchedOrAnnounced
    RegistryKeepsLocks
PROPERTIES
    SightedCommitIsSeen
    ThreadEnds
    DeathDisconnects
CHECK_DEADLOCK FALSE
