SPECIFICATION Spec
CONSTANTS
    G = {g1, g2}
    Keys = {k1}
    Values = {v1}
    Absent = absent
    ZeroKey = zero
    Ops = {"Store", "Next"}
PROPERTIES NextRemovesWhatItReturns
