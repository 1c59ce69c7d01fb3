SPECIFICATION Spec
CONSTANTS
    NumBuf = 2
    MaxTick = 3
    Sessions = {0, 1}
    Lap <- MCLap
    Faults = {}
    MaxStops = 0
PROPERTIES
    YamlOfSession
CHECK_DEADLOCK FALSE
