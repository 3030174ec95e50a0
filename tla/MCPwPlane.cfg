CONSTANTS
    engine = engine
    Sup = Sup
    p1 = p1
    p2 = p2
    p3 = p3
    Callers = {engine}
    Planes = {p1, p2, p3}
    Fatal = 2
    MaxCalls = 1
    MaxDeaths = 2
    MaxSlow = 1
SPECIFICATION Spec
INVARIANTS
    TypeOK
PROPERTIES
    NobodyStuck
    Recovers
CHECK_DEADLOCK FALSE
