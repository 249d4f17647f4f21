CONSTANTS
    s1 = s1
    s2 = s2
    w1 = w1
    w2 = w2
    Sites = {s1, s2}
    GitSites = {s2}
    Ports <- LowPorts
    Workers = {w1, w2}
    Orders <- NodeOrders
    MaxFaults = 1
SPECIFICATION FairSpec
INVARIANTS TypeOK DoneIsWired TornDownIsGone OwnProgram
PROPERTIES RetriesConverge WiredIsServed
CHECK_DEADLOCK FALSE
