CONSTANTS
    Lockers = {p1, p2, p3}
    Cleaners = {c1}
    Inodes = {i1, i2, i3, i4, i5}
    None = None
SPECIFICATION FairSpec
INVARIANTS
    TypeOK
    FlockOwnership
    MutualExclusion
    HolderIsLinked
    RemovalIsCurrent
PROPERTIES
    ImplementsMutex
    AcquireReturns
