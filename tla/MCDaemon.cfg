SPECIFICATION LiveSpec
CONSTANTS
    c1 = c1
    c2 = c2
    s1 = s1
    s2 = s2
    far = far
    d1 = d1
    d2 = d2
    Client = {c1, c2}
    Store = {s1, s2, far}
    Served = {s1, s2}
    Process = {d1, d2}
    Capacity = 1
    MaxConnections = 1
INVARIANTS TypeOK CacheSound
PROPERTIES CommandOnce Settles
CHECK_DEADLOCK FALSE
