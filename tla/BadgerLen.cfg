SPECIFICATION Spec
CONSTANTS
    G = {g1}
    Keys = {k1}
    Values = {v1}
    Absent = absent
    ZeroKey = zero
    Ops = {"Store", "Len"}
    LenBound = 3
INVARIANTS QuietLenIsExact
