SPECIFICATION Spec
CONSTANTS
    s1 = s1  s2 = s2  random = random
    l1 = l1  l2 = l2
    c1 = c1  c2 = c2
    e1 = e1  e2 = e2  none = none
    Streams = {s1, s2}
    Random = random
    Leases = {l1, l2}
    LeasePath <- MCMixed
    Calls = {c1, c2}
    Entries = {e1, e2}
    Vod = {s1}
    Unresolvable = {s2}
    None = none
SYMMETRY Symmetry
INVARIANTS TypeOK HandleHasDemand NoStraySupervisor RegisteredIsNotDoomed
PROPERTIES KeepsContract PublisherIsKept OnlyLateAcquireRevives
