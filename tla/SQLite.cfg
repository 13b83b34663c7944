\* Sound and failing databases, and Close.  Deadlock is not checked because Len
\* and a writer can really block each other: see SQLiteThreadSafe.
SPECIFICATION FairSpec
CONSTANTS
    g1 = g1
    g2 = g2
    G = {g1, g2}
    Keys = {k1, k2}
    Values = {v1}
    Absent = absent
    ZeroKey = zero
    Ops = {"Load", "Store", "Delete", "Range", "Keys", "Next", "Len", "Clear", "Close"}
    May <- Roles
INVARIANTS TypeOK CountCacheCoherent
PROPERTIES ImplementsContract CallsReturn
CHECK_DEADLOCK FALSE
