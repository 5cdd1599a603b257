CONSTANTS
    j1 = j1
    j2 = j2
    j3 = j3
    w1 = w1
    w2 = w2
    indexing = indexing
    other = other
    NoJob = NoJob
    Null = Null
    Jobs <- MCJobs
    Workers <- MCWorkers
    Group <- GroupAndNull
    JobPriority <- UserJob
    WorkerPriority <- HighPriorityWorker
    Timeout <- TwoTicks
    MaxTimeout <- RaceTwoTicks
    SlowJobs <- NoSlowJobs
    MaxReservations = 4
    MaxTransaction = 0
    MaxAborts = 0
    MaxCrashes = 1
SPECIFICATION FairSpec
PROPERTY EveryJobFinishes
