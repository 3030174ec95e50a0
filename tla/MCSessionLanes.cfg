CONSTANTS
    Kinds = {"apply", "route", "ensure", "prune", "fx", "capture", "play", "pick"}
    MaxEdit = 2
SPECIFICATION FairSpec
INVARIANTS
    TypeOK
    Accounted
PROPERTIES
    EditsHeard
    LanesCatchUp
