SPECIFICATION FairSpec
CONSTANTS
    n1 = n1
    n2 = n2
    i1 = i1
    r1 = r1
    r2 = r2
    Numbers = {n1, n2}
    Forms = {n1, i1, n2}
    NormalizePhone <- MCNormalizePhone
    Priorities = {"P0", "P1"}
    Requests = {r1, r2}
    Faults = {"crash", "db"}
INVARIANT TypeOK
INVARIANT Monitored
PROPERTY TotalsCatchUp
