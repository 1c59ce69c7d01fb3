SPECIFICATION Spec
CONSTANTS
    Frames <- MCFrames
    Transits = {0}
    PRINT_INTERVAL = 1
    P99 <- MCP99
    U64_MAX = 3
    MaxFrames = 2
    MaxDropped = 0
PROPERTIES
    TotalsSinceStart
CHECK_DEADLOCK FALSE
