CONSTANTS
    t1 = t1
    t2 = t2
    NoTxn = NoTxn
    Txn = {t1, t2}
    Stores <- MixedStores
    MaxCsn = 5
SPECIFICATION Spec
SYMMETRY TxnSymmetry
INVARIANTS TypeOK ReadIsSnapshot UpdateIsSnapshot NoLostUpdate HeldRowsLive
