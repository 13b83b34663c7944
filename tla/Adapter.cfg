SPECIFICATION AdapterSpec
CONSTANTS
    a = a
    c = c
    f = f
    m = m
    p = p
    any = any
    some = some
    untyped = untyped
    garbage = garbage
    generic = generic
    G = {g1, g2}
    Keys = {k1}
    Values <- EncodedValues
    Absent = absent
    ZeroKey = zero
    Ops = {"Load", "Store", "Range", "Next"}
    Atomic = {"Load", "Store", "Range", "Next"}
    Types <- AllTypes
    Encodable <- EncodableTypes
    Rereadable <- RereadableTypes
    Name <- NameOf
    Elem <- ElemOf
    Fits <- FitsIn
    Interfaces = {any, some}
    Implements <- ImplementsBy
    ValueTypes <- TypesOfV
    Untyped = untyped
    Garbage = garbage
    Generic = generic
    NoType = notype
    Undecodable = undecodable
    Panic = panic
SYMMETRY Sym
INVARIANTS AdapterTypeOK OwnTypesComeBack NothingDecodableIsLost TypesNotConfused
