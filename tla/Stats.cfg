SPECIFICATION Spec
CONSTANTS
    Frames <- MCFrames
    Transits = {0, 1}
    PRINT_INTERVAL = 1
    P99 <- MCP99
    U64_MAX = 4
    MaxFrames = 5
    MaxDropped = 1
INVARIANTS
    TypeOK
    LineTellsItsWindow
    LinesAddUp
    DropsCountedOnce
    AverageInRange
CHECK_DEADLOCK FALSE
