SPECIFICATION Spec
CONSTANTS
    Messages <- MCTwoSizes
    PayloadPerDatagram = 2
    MAX_PAYLOAD_PER_DATAGRAM = 2
    MAX_FRAGMENTS = 3
    U16_MAX = 6
    U32_MAX = 2
    MaxPayload = 5
    SeqMod = 3
    FailPoints = {}
    Faults = {"lose", "duplicate", "reorder"}
    MaxMessages = 3
    MaxInFlight = 4
    MaxLost = 6
    MaxDuplicates = 1
INVARIANTS
    TypeOK
    AssembledIntact
    CountsFragments
CHECK_DEADLOCK FALSE
