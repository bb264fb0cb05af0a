SPECIFICATION FairSpec
CONSTANTS
    a1 = a1
    a2 = a2
    Account <- MCAccount
    Slots = 1
    MaxBatch = 2
    MaxActions = 2
PROPERTIES
    StopEnds
    DueIsServed
CHECK_DEADLOCK FALSE
