SPECIFICATION Spec
CONSTANTS
    s1 = s1  s2 = s2  random = random
    l1 = l1  l2 = l2
    c1 = c1  c2 = c2
    e1 = e1  e2 = e2  none = none
    Streams = {s1}
    Random = random
    Leases = {l1}
    LeasePath <- MCOneReader
    Calls = {c1, c2}
    Entries = {e1, e2}
    Vod = {}
    Unresolvable = {}
    None = none
INVARIANT StoppedIsDown
