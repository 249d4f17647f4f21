CONSTANTS
    s1 = s1
    s2 = s2
    v1 = v1
    v2 = v2
    w1 = w1
    w2 = w2
    None = None
    Sites = {s1, s2}
    Versions = {v1, v2}
    Workers = {w1, w2}
    Orders <- OneOrder
    LongNames = {}
    MaxFaults = 1
SPECIFICATION Spec
INVARIANT CredentialsWork
CHECK_DEADLOCK FALSE
