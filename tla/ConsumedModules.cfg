CONSTANTS
    a = a
    b = b
    c = c
    Modules <- ThreeModules
    Graphs <- AllGraphs
    MaxCalls = 3
SPECIFICATION ConsumeSpec
INVARIANTS FirstAnswerIsExact NothingIsMissed
CHECK_DEADLOCK FALSE
