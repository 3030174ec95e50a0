CONSTANTS
    MaxGen = 4
    MaxHarvest = 3
SPECIFICATION RackFairSpec
INVARIANTS
    RackTypeOK
    CountedIsSafe
    RefsExact
    NoLeak
PROPERTIES
    MailDrained
CHECK_DEADLOCK FALSE
