SPECIFICATION Spec
CONSTANTS
    e1 = e1
    e2 = e2
    j1 = j1
    j2 = j2
    p1 = p1
    p2 = p2
    g1 = g1
    g2 = g2
    g3 = g3
    Exophones = {e1}
    Jobs = {j1}
    ExophoneOf <- MCOneJob
    Priorities = {0}
    Frequencies = {1, 2}
    PoolSize = 1
    Pollers = {p1, p2}
    Goroutines = {g1, g2}
    MaxOverdue = 0
    MaxLives = 1
    Requests = {"priority", "signal"}
    Faults = {"crash", "panic", "account", "db"}
SYMMETRY MCSymmetry
INVARIANT TypeOK
INVARIANT PoolAccounting
INVARIANT NoOrphanWithoutFault
PROPERTY NoAddDuringWait
PROPERTY RescheduledAfterOutcome
PROPERTY ImplementsExecutor
CHECK_DEADLOCK FALSE
