SPECIFICATION CronSpec
CONSTANTS
    SECONDS = 2
    MINUTES = 2
    HOURS = 2
    DAYS = 3
    MONTHS = 2
    WEEK = 3
    LAST_DAY = 26
    DateOf <- Calendar
    Texts <- FieldTexts
    CAP_YEARS = 2
    SHIFT = 4
    Gaps = {11, 400}
    Folds = {26}
    Froms = {0, 9, 23, 27}
CHECK_DEADLOCK FALSE
INVARIANTS
    StrictlyAfter
