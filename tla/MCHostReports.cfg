SPECIFICATION FairSpec
CONSTANTS
    k1 = k1
    k2 = k2
    Keys <- MCKeys
    Builds <- MCBuilds
    NotifyMax = 1
INVARIANTS
    TypeOK
    NoStuckKeys
PROPERTIES
    KeysReach
    ThreadFree
    KeyWakesHost
