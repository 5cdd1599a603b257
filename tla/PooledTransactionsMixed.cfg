CONSTANTS
    managed = managed
    batch = batch
    plain = plain
    Tasks <- MCTasks
    Kind <- MCKind
    Connections = {c1, c2}
    Nobody = Nobody
    MaxErrors = 2
SPECIFICATION Spec
INVARIANT TransactionsAreAtomic
CHECK_DEADLOCK FALSE
