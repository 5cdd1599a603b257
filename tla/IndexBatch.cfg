CONSTANTS
    i = i
    m = m
    n = n
    Instances <- OneInstance
    Modules <- TwoModules
    Refs <- TestRefs
    InitialFiles <- TestFiles
    MaxVersion = 4
    MaxSecond = 2
    MaxFailures = 1
SPECIFICATION Spec
INVARIANTS TypeOK IndexIsCurrent MetaCountsTheIndex
CHECK_DEADLOCK FALSE
