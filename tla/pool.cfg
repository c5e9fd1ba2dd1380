\* Two workers, either of which may unwind; five jobs fill the channel of four.
CONSTANTS
    w1 = w1
    w2 = w2
    j1 = j1
    j2 = j2
    j3 = j3
    j4 = j4
    j5 = j5
    NoJob = NoJob
    Workers <- TwoWorkers
    Jobs <- FiveJobs
    requested <- FivePriorities
    MaxPanics = 2
SPECIFICATION FairSpec
INVARIANTS
    OneHolder
    WorkersInStep
    JoinDrains
PROPERTIES
    ImplementsExecutor
    SpawnedJobRuns
    OwnerReturns
