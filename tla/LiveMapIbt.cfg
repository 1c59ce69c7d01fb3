SPECIFICATION Spec
CONSTANTS
    NumBuf = 2
    MaxTick = 4
    Sessions = {0, 1}
    Lap <- MCLap
    Faults = {"lose", "open", "row", "part", "finish", "crash"}
    MaxStops = 1
INVARIANTS
    TypeOK
    StatusAfterVarBuf
    FileTellsTruth
    RowsAscend
PROPERTIES
    SentWhole
    YamlFollows
CHECK_DEADLOCK FALSE
