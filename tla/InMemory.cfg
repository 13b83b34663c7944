\* Deadlock is not checked because a callback of Range that uses the map can
\* really block it; CallsReturn says that nothing else does.
SPECIFICATION FairSpec
CONSTANTS
    G = {g1, g2}
    Keys = {zero, k1}
    Values = {v1, v2}
    Absent = absent
    ZeroKey = zero
    Ops = {"Load", "Store", "Delete", "Range", "Keys", "Next", "Len", "Clear", "Close"}
INVARIANTS TypeOK MapAccessExclusive
PROPERTIES ImplementsContract CallsReturn SelfWaitIsForEver
CHECK_DEADLOCK FALSE
