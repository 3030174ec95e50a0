CONSTANTS
    Cap = 4
    Batch = 3
    MaxPush = 11
SPECIFICATION FairSpec
INVARIANTS
    TypeOK
    NoSlotRace
    KeepLatest
PROPERTIES
    InOrder
    ImplementsMailbox
    EventuallyFresh
