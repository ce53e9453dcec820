SPECIFICATION Spec
CONSTANTS
    Streams = {s1}
    Calls = {c1, c2}
    Preps = {p1, p2}
    Inodes = {i1, i2}
    Slots = 2
    Unsized = {}
    Ready = ready
    None = none
INVARIANT CacheIsWhole
