SPECIFICATION FairSpec
CONSTANTS
    Bits = {1, 2}
    Sessions = {0}
    MaxWire = 3
    MaxBack = 1
    Ticks = {0, 1, 2}
    Payload <- MCPayload
    no_delta = FALSE
    keyframe_interval = 2
    CounterMod = 4
    LeadFragments = 1
    Faults = {"lose_request"}
    MaxFaults = 1
    fanalab = TRUE
    TargetFaults = {}
PROPERTIES
    DeltaNegotiated
