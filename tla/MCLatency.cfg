CONSTANTS
    a = a
    b = b
    Buses = {a, b}
    Quantum = 2
    Lats = {1, 4}
    MaxLat = 4
    Routings <- MCRoutings
    MaxOps = 5
SPECIFICATION Spec
INVARIANTS
    TypeOK
    PeersInStep
PROPERTIES
    RoutedInStep
    TickReconnects
CHECK_DEADLOCK FALSE
