SPECIFICATION Spec
CONSTANTS
    NumBuf = 3
    MaxTick = 3
    Sessions = {0}
    Lap <- MCLap
    Faults = {}
    MaxStops = 0
INVARIANTS
    ActiveVarBuf
CHECK_DEADLOCK FALSE
