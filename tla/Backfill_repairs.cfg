SPECIFICATION FairSpec
CONSTANTS
    e1 = e1
    e2 = e2
    d1 = d1
    d2 = d2
    s1 = s1
    s2 = s2
    w1 = w1
    w2 = w2
    Exophones = {e1}
    Dates = {d1}
    Bodies <- MCBodies
    MaxDates = 3
    Singles = {s1, s2}
    Workers = {w1, w2}
    MaxVersion = 2
    Faults = {"crash", "db", "api"}
INVARIANT TypeOK
INVARIANT ReportAddsUp
INVARIANT DoneIsCurrent
PROPERTY RepairsEnd
