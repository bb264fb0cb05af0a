SPECIFICATION Spec
CONSTANTS
    i1 = i1
    i2 = i2
    a1 = a1
    a2 = a2
    b1 = b1
    NoInstance = NoInstance
    Instance <- MCInstance
    Runner <- PairRunner
    Host <- PairHost
    LeaseTerm = 1
    MaxGrants = 2
    MaxFaults = 2
\* Each of these is violated: one at a time.
INVARIANT NoOverlap
\* PROPERTY LogoutAfterRelease
CHECK_DEADLOCK FALSE
