SPECIFICATION Spec
CONSTANTS
    Bits = {1, 2}
    Sessions = {0}
    MaxWire = 3
    MaxBack = 1
    Ticks = {0, 1, 2}
    Payload <- MCPayload
    no_delta = FALSE
    keyframe_interval = 3
    CounterMod = 4
    LeadFragments = 1
    Faults = {"lose", "lose_request", "sendfail", "torn", "menus", "no_var_buf", "source_restart", "old_target"}
    MaxFaults = 1
    fanalab = TRUE
    TargetFaults = {"garble", "target_restart"}
INVARIANTS
    TypeOK
    RowNeedsSessionInfo
    ChainExact
    KeyframeInTime
