SPECIFICATION Spec
CONSTANTS
    Threads = {t1, t2}
    max = 1
INVARIANT
    CloseEndsQueries
