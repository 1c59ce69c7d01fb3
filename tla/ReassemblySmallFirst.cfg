SPECIFICATION Spec
CONSTANTS
    Messages <- MCShort
    PayloadPerDatagram = 2
    MAX_PAYLOAD_PER_DATAGRAM = 3
    MAX_FRAGMENTS = 3
    U16_MAX = 6
    U32_MAX = 2
    MaxPayload = 6
    SeqMod = 4
    FailPoints = {}
    Faults = {"reorder"}
    MaxMessages = 2
    MaxInFlight = 4
    MaxLost = 0
    MaxDuplicates = 0
INVARIANT
    AssembledIntact
CHECK_DEADLOCK FALSE
