CONSTANTS
    Lockers = {p1, p2}
    Cleaners = {c1, c2}
    Inodes = {i1, i2, i3, i4, i5}
    None = None
SPECIFICATION Spec
INVARIANT MutualExclusion
