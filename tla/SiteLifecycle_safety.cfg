CONSTANTS
    s1 = s1
    s2 = s2
    v1 = v1
    v2 = v2
    w1 = w1
    w2 = w2
    None = None
    Sites = {s1, s2}
    Versions = {v1, v2}
    Workers = {w1, w2}
    Orders <- MixedOrders
    LongNames = {s2}
    MaxFaults = 2
SPECIFICATION Spec
INVARIANTS TypeOK ProvisionedIsServed CleanTeardownIsGone
SYMMETRY TwoWorkers
CHECK_DEADLOCK FALSE
