\* Deadlock is not checked because a goroutine whose write is refused by DropAll,
\* or that uses a closed database, panics, and the program stops.
SPECIFICATION Spec
CONSTANTS
    G = {g1, g2}
    Keys = {k1, k2}
    Values = {v1, v2}
    Absent = absent
    ZeroKey = zero
    Ops = {"Load", "Store", "Delete", "Range", "Keys", "Next", "Len", "Clear", "Close"}
    LenBound = 2
SYMMETRY Sym
INVARIANTS TypeOK LenCountsKeys
PROPERTIES ImplementsContract
CHECK_DEADLOCK FALSE
