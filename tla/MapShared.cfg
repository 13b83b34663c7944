SPECIFICATION MapSpec
CONSTANTS
    g1 = g1
    g2 = g2
    k1 = k1
    k2 = k2
    G = {g1, g2}
    Keys = {k1, k2}
    Values = {v1, v2}
    Absent = absent
    ZeroKey = zero
    Ops = {"Load", "Store", "Delete", "Range", "Keys", "Next", "Len", "Clear", "Close"}
    Atomic = {"Load", "Store", "Range", "Keys", "Len", "Clear", "Close"}
    MapOps = {"Load", "Has", "Store", "Pop", "Delete", "Next", "Clear"}
    Owned <- Shared
SYMMETRY SymValues
INVARIANTS MapTypeOK ResultsTrueDuringCall
PROPERTIES InsertOnlyIfSeenAbsent
