SPECIFICATION MCSpec
CONSTANTS
    NULL = NULL
    Owners = {p1, p2}
    LOCK_TTL = 2
    Names = {n1}
    Everys = {1}
    Crons = {2}
    SCHEDULER_MAX_CATCHUP_FIRES = 2
    HEARTBEAT = 2
    RETRY = 1
    Roles = {"scheduler", "holder"}
    Lags = {0, 1}
    MaxTime = 4
    SECONDS = 2
    MINUTES = 2
    HOURS = 2
    DAYS = 3
    MONTHS = 2
    WEEK = 3
    LAST_DAY = 26
    DateOf <- Calendar
    Texts <- FieldTexts
    CAP_YEARS = 2
    SHIFT = 4
    Gaps = {11, 400}
    Folds = {26}
    Froms = {0, 9, 23, 27}
CHECK_DEADLOCK FALSE
INVARIANTS
    LockExclusion
    NoFireLostOrDoubled
    NeverOversleeps
    SearchIsRight
PROPERTIES
    DueFires
    SearchEnds
