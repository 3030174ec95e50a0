CONSTANTS
    engine = engine
    meters = meters
    Sup = Sup
    p1 = p1
    p2 = p2
    p3 = p3
    Callers = {engine, meters}
    Planes = {p1, p2, p3}
    Fatal = 2
    MaxCalls = 2
    MaxDeaths = 0
    MaxSlow = 1
SPECIFICATION Spec
INVARIANTS
    MissesTolerated
CHECK_DEADLOCK FALSE
