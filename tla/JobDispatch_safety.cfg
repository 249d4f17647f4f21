SPECIFICATION Spec
CONSTANTS
    j1 = j1
    j2 = j2
    Jobs = {j1, j2}
    DirectJobs = {d1}
    Class <- BothHandled
    Goroutines = {g1, g2}
    NoJob = NoJob
    MaxConcurrentJobs = 1
    Evictable = {j1, j2, d1}
    MaxDirect = 1
    MaxVersion = 2
    MaxRestarts = 1
INVARIANTS
    TypeOK
    SingleExecution
    ActiveJobsExact
    SemaphoreExact
    RedispatchedAtMostOnce
    TrackerAgrees
PROPERTIES
    InstallWhenDrained
    ImplementsService
