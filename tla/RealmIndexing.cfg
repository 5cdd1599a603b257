CONSTANTS
    o1 = o1
    o2 = o2
    o3 = o3
    x = x
    y = y
    Original = Original
    Nobody = Nobody
    Ops <- ThreeOps
    Paths <- TwoPaths
    Requests <- ThreeRequests
    MaxFailures = 1
SPECIFICATION FairSpec
INVARIANTS TypeOK AcknowledgedIsIndexed
PROPERTIES PatchesCompose EveryRequestIsAnswered
CHECK_DEADLOCK FALSE
