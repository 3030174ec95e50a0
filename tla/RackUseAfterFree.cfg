CONSTANTS
    MaxGen = 2
    MaxHarvest = 1
SPECIFICATION RackSpec
INVARIANT NoUseAfterFree
CHECK_DEADLOCK FALSE
