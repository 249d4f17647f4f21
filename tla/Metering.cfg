CONSTANTS
    s1 = s1
    s2 = s2
    Sites = {s1}
    NoSample = NoSample
    MaxEntries = 4
    MaxUsage = 3
    MaxFaults = 2
SPECIFICATION FairSpec
INVARIANTS TypeOK CountedOncePerLife UsageNotOverstated
PROPERTIES EveryEntryRead
CHECK_DEADLOCK FALSE
