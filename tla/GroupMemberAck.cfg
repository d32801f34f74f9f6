CONSTANTS
    c1 = c1
    c2 = c2
    c3 = c3
    n1 = n1
    n2 = n2
    NoGroup = NoGroup
    Call = {c1, c2}
    Node = {n1}
    GroupCommitSize = 2
    StandbyModes = {FALSE}
SPECIFICATION Spec
INVARIANTS AckedIsDurable
