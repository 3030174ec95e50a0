CONSTANTS
    MaxUi = 1
    MaxIpc = 1
    MaxSolo = 1
SPECIFICATION FairSpec
INVARIANTS
    TypeOK
    LastWriteWins
PROPERTIES
    NoSnapBack
    ViewsAgree
    EventuallyHeard
