SPECIFICATION Spec
CONSTANTS
    g1 = g1
    g2 = g2
    G = {g1, g2}
    Keys = {k1, k2}
    Values = {v1}
    Absent = absent
    ZeroKey = zero
    Ops = {"Load", "Store", "Delete", "Range", "Keys", "Next", "Len", "Clear", "Close"}
    May <- Roles
    Expires = TRUE
    MaxRetries = 1
    LateBound = 1
SYMMETRY Sym
INVARIANTS TypeOK ScanComplete AnswersTrueDuringCall RemovalsTakeEffect
PROPERTIES NilPanicsNeedARemoval StepsRunOut
