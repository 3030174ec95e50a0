CONSTANTS
    master = master
    peer = peer
    fx1 = fx1
    Dry = Dry
    Dests = {master, peer}
    Chains = {fx1}
    MaxGestures = 1
    MaxFaults = 0
    MaxEvents = 0
SPECIFICATION Spec
INVARIANT MuteSticks
CHECK_DEADLOCK FALSE
