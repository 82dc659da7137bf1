SPECIFICATION FairSpec
CONSTANTS
    None = None
    r1 = r1
    r2 = r2
    r3 = r3
    k1 = k1
    k2 = k2
    Requests = {r1, r2}
    Kids = {k1, k2}
    TTL = 2
    MaxLag = 1
    MaxConns = 1
CHECK_DEADLOCK FALSE
INVARIANTS
    TypeOK
    HoldersDoNotWait
    RefusedWasUnpublished
PROPERTIES
    KeysAreRecent
    OnlySignInsWaitForApple
    EveryRequestEnds
    ShutdownEnds
