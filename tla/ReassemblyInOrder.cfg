SPECIFICATION FairSpec
CONSTANTS
    Messages <- MCMessages
    PayloadPerDatagram = 2
    MAX_PAYLOAD_PER_DATAGRAM = 3
    MAX_FRAGMENTS = 3
    U16_MAX = 6
    U32_MAX = 2
    MaxPayload = 5
    SeqMod = 4
    FailPoints = {}
    Faults = {"lose"}
    MaxMessages = 5
    MaxInFlight = 5
    MaxLost = 2
    MaxDuplicates = 0
INVARIANTS
    AssembledIntact
    DroppedExplained
    LossCostsOneMessage
PROPERTIES
    EventuallyDelivered
    RefinesMessageChannel
CHECK_DEADLOCK FALSE
