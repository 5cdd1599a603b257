CONSTANTS
    j1 = j1
    j2 = j2
    j3 = j3
    index = index
    copy = copy
    Jobs <- MCJobs
    Types <- MCTypes
    Type <- MCType
SPECIFICATION FairSpec
INVARIANTS EachJobInOnePlace SerialUnlessDrainsPileUp
PROPERTY EveryJobSettles
CHECK_DEADLOCK FALSE
