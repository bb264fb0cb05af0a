SPECIFICATION FairSpec
CONSTANTS
    i1 = i1
    i2 = i2
    a1 = a1
    a2 = a2
    b1 = b1
    NoInstance = NoInstance
    Instance <- MCInstance
    Runner <- MCRunner
    Host <- MCHost
    LeaseTerm = 2
    MaxGrants = 3
    MaxFaults = 1
INVARIANTS
    HolderIsLatestGrant
PROPERTIES
    OwnershipSpec
    CrashIsRecovered
CHECK_DEADLOCK FALSE
