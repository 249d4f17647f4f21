CONSTANTS
    s1 = s1
    s2 = s2
    w1 = w1
    w2 = w2
    full1 = full1
    full2 = full2
    None = None
    Sites = {s1, s2}
    Directories = {s1, s2, full1, full2}
    Named <- UUIDs
    Ready = {s1, s2}
    Edits = {"e"}
    Workers = {w1, w2}
    Orders <- CloneOrders
    MaxFaults = 0
SPECIFICATION Spec
INVARIANTS PushReachesProduction
CHECK_DEADLOCK FALSE
