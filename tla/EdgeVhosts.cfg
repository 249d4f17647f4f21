CONSTANTS
    d1 = d1
    rules = rules
    nofile = nofile
    a = a
    w1 = w1
    w2 = w2
    Domains = {d1}
    Rules = rules
    NoFile = nofile
    Contents = {a}
    Workers = {w1, w2}
    Orders <- EdgeOrders
    MaxFaults = 1
SPECIFICATION FairSpec
INVARIANTS TypeOK DoneIsLoaded EdgeBlocksNobody
PROPERTIES OrdersConverge
CHECK_DEADLOCK FALSE
