SPECIFICATION Spec
CONSTANTS
    NumBuf = 1
    MaxTick = 3
    Sessions = {0}
    Lap <- MCLap
    Faults = {"part"}
    MaxStops = 1
INVARIANTS
    RowsInPlace
CHECK_DEADLOCK FALSE
