CONSTANTS
    t1 = t1
    t2 = t2
    t3 = t3
    Txn = {t1, t2}
    CounterModulus = 8
    AbortPoints = {"guts"}
    MayLap = FALSE
SPECIFICATION FairSpec
INVARIANTS TypeOK CountersExact CutoffDrained RedoPointQuiescent OnlyCheckpointerStarts LocksReleased
PROPERTIES SwapWhenDrained ImplementsCalc CheckpointEnds ResolveEnds
