SPECIFICATION FairSpec
CONSTANTS
    Streams = {s1}
    Calls = {c1, c2}
    Preps = {p1, p2}
    Inodes = {i1}
    Slots = 1
    Unsized = {s1}
    Ready = ready
    None = none
INVARIANTS TypeOK CancelIsThere
PROPERTIES OnlyReadyDisplaces StopsReturn
