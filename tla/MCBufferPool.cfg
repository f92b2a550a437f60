CONSTANTS
    Threads = {g1, g2, d1, d2}
    Getters = {g1, g2}
    Droppers = {d1, d2}
    Nobody = Nobody
    Locks <- MCLocks
    Limits <- MCLimits
    MaxSpaces = 2
SPECIFICATION FairSpec
INVARIANTS
    TypeOK
    SpaceAccounting
    AssertionsHold
PROPERTIES
    ImplementsPool
    GetServed
