CONSTANTS
    master = master
    peer = peer
    fx1 = fx1
    Dry = Dry
    Dests = {master, peer}
    Chains = {fx1}
    MaxGestures = 1
    MaxFaults = 1
    MaxEvents = 1
SPECIFICATION Spec
INVARIANT TypeOK
PROPERTIES
    MuteHolds
    TickHarmless
    MutedFallsSilent
    AudibleAgain
CHECK_DEADLOCK FALSE
