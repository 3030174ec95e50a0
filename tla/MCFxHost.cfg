CONSTANTS
    Chains = {c1, c2}
    First = c1
    MaxGestures = 2
    MaxOrders = 1
    MaxFaults = 1
SPECIFICATION Spec
INVARIANTS
    TypeOK
    RememberedNewest
    ChainConverges
    OnlyRebuildLoses
    NeverStuck
CHECK_DEADLOCK FALSE
