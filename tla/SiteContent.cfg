CONSTANTS
    s1 = s1
    s2 = s2
    w1 = w1
    w2 = w2
    full1 = full1
    full2 = full2
    None = None
    Sites = {s1, s2}
    Directories = {s1, s2}
    Named <- ShortIds
    Ready = {s1}
    Edits = {"e"}
    Workers = {w1, w2}
    Orders <- PushOrders
    MaxFaults = 1
SPECIFICATION FairSpec
INVARIANTS TypeOK CopyIsWhole
PROPERTIES EndsOrHangs InstallConverges
CHECK_DEADLOCK FALSE
