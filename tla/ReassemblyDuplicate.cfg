SPECIFICATION Spec
CONSTANTS
    Messages <- MCShort
    PayloadPerDatagram = 2
    MAX_PAYLOAD_PER_DATAGRAM = 2
    MAX_FRAGMENTS = 3
    U16_MAX = 6
    U32_MAX = 2
    MaxPayload = 6
    SeqMod = 4
    FailPoints = {}
    Faults = {"duplicate"}
    MaxMessages = 2
    MaxInFlight = 4
    MaxLost = 0
    MaxDuplicates = 1
INVARIANT
    NoDoubleDelivery
CHECK_DEADLOCK FALSE
