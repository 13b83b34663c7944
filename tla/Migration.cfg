SPECIFICATION FairSpec
CONSTANTS
    x = x
    NoRest = norest
    Rests = {x, norest}
    Values = {v1, v2, bad}
    Encodable = {v1, v2}
    Absent = absent
    All = all
    SourceKeys <- ThreeKeys
INVARIANTS TypeOK CompletedMeansMigrated TargetFromSource StatsTellTheTruth
PROPERTIES RunsEnd
