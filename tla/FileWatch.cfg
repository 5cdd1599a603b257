CONSTANTS
    Paths = {p}
    Clients = {c, d}
    Realm = Realm
    MaxVersion = 5
    MaxFailures = 1
SYMMETRY Symmetry
SPECIFICATION Spec
INVARIANTS EditsAreIndexed OnlyFailuresStop
CHECK_DEADLOCK FALSE
