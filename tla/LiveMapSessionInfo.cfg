SPECIFICATION Spec
CONSTANTS
    NumBuf = 3
    MaxTick = 3
    Sessions = {0}
    Lap <- MCLap
    Faults = {}
    MaxStops = 0
PROPERTIES
    SessionInfoNoRow
CHECK_DEADLOCK FALSE
