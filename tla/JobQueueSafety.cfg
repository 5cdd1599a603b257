CONSTANTS
    j1 = j1
    j2 = j2
    j3 = j3
    w1 = w1
    w2 = w2
    indexing = indexing
    other = other
    NoJob = NoJob
    Null = Null
    Jobs <- MCJobs
    Workers <- MCWorkers
    Group <- TwoGroups
    JobPriority <- SamePriority
    WorkerPriority <- AnyPriority
    Timeout <- OneTick
    MaxTimeout <- RaceTwoTicks
    SlowJobs <- OneSlowJob
    MaxReservations = 3
    MaxTransaction = 1
    MaxAborts = 1
    MaxCrashes = 1
SYMMETRY WorkerSymmetry
SPECIFICATION Spec
INVARIANTS TypeOK GroupExclusive GroupOrder OverlapNeedsExpiry OneCompletion
PROPERTY ImplementsContract
