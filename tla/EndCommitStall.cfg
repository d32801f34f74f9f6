CONSTANTS
    t1 = t1
    t2 = t2
    t3 = t3
    Txn = {t1, t2}
    CounterModulus = 8
    AbortPoints = {}
    MayLap = TRUE
SPECIFICATION Spec
INVARIANT OnlyCheckpointerStarts
CHECK_DEADLOCK FALSE
