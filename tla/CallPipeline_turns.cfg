SPECIFICATION FairSpec
CONSTANTS
    e1 = e1
    e2 = e2
    c1 = c1
    c2 = c2
    c3 = c3
    x1 = x1
    x2 = x2
    r1 = r1
    Exophones = {e1, e2}
    Calls = {c1, c2}
    OwnerOf <- MCOneOwner
    Runs = {x1, x2}
    Repairs = {r1}
    Kinds = {"backfill", "bulk", "reprocess"}
    TakeTurns = "all"
    Skips = {TRUE, FALSE}
    SkipAlls = {TRUE, FALSE}
    MaxCount = 1
    Requests = {}
    Faults = {"redis"}
INVARIANT NothingLostAtRest
INVARIANT DashboardAgreesAtRest
PROPERTY RegisteredIsCounted
