SPECIFICATION FairSpec
CONSTANTS
    e1 = e1
    e2 = e2
    j1 = j1
    j2 = j2
    p1 = p1
    p2 = p2
    g1 = g1
    g2 = g2
    g3 = g3
    Exophones = {e1}
    Jobs = {j1, j2}
    ExophoneOf <- MCSameExophone
    Priorities = {0}
    Frequencies = {1}
    PoolSize = 1
    Pollers = {p1, p2}
    Goroutines = {g1}
    MaxOverdue = 0
    MaxLives = 2
    Requests = {"toggle", "config", "signal"}
    Faults = {}
PROPERTY DueJobRuns
PROPERTY ShutdownCompletes
PROPERTY PausedQuiesces
CHECK_DEADLOCK FALSE
