CONSTANTS
    j1 = j1
    j2 = j2
    j3 = j3
    PublishedJobs <- ThreeJobs
    MaxFailures = 1
SPECIFICATION FairNotifySpec
INVARIANTS NotifyTypeOK RowsHaveNotifiers SleepsOnlyOverEarly PromptShutDown
PROPERTY EveryCallerIsAnswered
CHECK_DEADLOCK FALSE
