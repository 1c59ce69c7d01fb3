SPECIFICATION Spec
CONSTANTS
    NumBuf = 1
    MaxTick = 2
    Sessions = {0}
    Lap <- MCLap
    Faults = {}
    MaxStops = 1
INVARIANTS
    CleanDisconnect
CHECK_DEADLOCK FALSE
