CONSTANTS
    t1 = t1
    t2 = t2
    t3 = t3
    k1 = k1
    k2 = k2
    v1 = v1
    v2 = v2
    Txn = {t1, t2}
    Key = {k1, k2}
    Val = {v1}
    NoRow = NoRow
    Tombstone = Tombstone
    LateFailure = TRUE
    AbortCapture = FALSE
SPECIFICATION Spec
SYMMETRY ModelSymmetry
INVARIANTS ImageIsCut RecoveryExact
