SPECIFICATION Spec
CONSTANTS
    e1 = e1
    e2 = e2
    f1 = f1
    f2 = f2
    r1 = r1
    r2 = r2
    Exophones = {e1}
    Refreshes = {f1, f2}
    Readers = {r1}
    TTL = 2
    Patience = 1
    Writers = {"webhook", "check"}
    Faults = {"db", "redis", "crash"}
SYMMETRY MCSymmetry
INVARIANT TypeOK
INVARIANT BoundedStaleness
INVARIANT RefreshReachesReaders
PROPERTY OnlyPushesDisagree
