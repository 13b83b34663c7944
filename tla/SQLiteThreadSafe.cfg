SPECIFICATION Spec
CONSTANTS
    g1 = g1
    g2 = g2
    G = {g1, g2}
    Keys = {k1}
    Values = {v1}
    Absent = absent
    ZeroKey = zero
    Ops = {"Store", "Len"}
    May <- Roles
INVARIANTS NoLenCycle
CHECK_DEADLOCK FALSE
