SPECIFICATION BindingsSpec
CONSTANTS
    Threads = {t1, t2, t3}
    max = 2
    Callers = {c1, c2}
INVARIANTS
    OneCleanConnection
    CapacityKept
    NobodyStranded
PROPERTIES
    CloseEndsAcquire
    DropReturns
    ConsumerIsTold
    CloseEndsNext
    WaitIsTold
