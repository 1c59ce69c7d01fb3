SPECIFICATION FairSpec
CONSTANTS
    Bits = {1, 2}
    Sessions = {0, 1}
    MaxWire = 2
    MaxBack = 1
    Ticks = {0, 1}
    Payload <- MCPayload
    no_delta = FALSE
    keyframe_interval = 2
    CounterMod = 4
    LeadFragments = 1
    Faults = {"lose", "sendfail", "torn", "simstop", "repeat"}
    MaxFaults = 1
    fanalab = TRUE
    TargetFaults = {"target_restart"}
PROPERTIES
    WrittenUnderOwnSession
    SessionInfoArrives
    SessionShown
    DivergenceEnds
    DeltaNegotiated
