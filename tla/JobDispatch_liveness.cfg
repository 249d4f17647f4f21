SPECIFICATION FairSpec
CONSTANTS
    j1 = j1
    j2 = j2
    Jobs = {j1, j2}
    DirectJobs = {}
    Class <- HandledAndUnknown
    Goroutines = {g1, g2}
    NoJob = NoJob
    MaxConcurrentJobs = 1
    Evictable = {}
    MaxDirect = 1
    MaxVersion = 2
    MaxRestarts = 1
PROPERTIES
    EveryJobReported
    EventuallyUpdated
