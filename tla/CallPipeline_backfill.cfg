SPECIFICATION Spec
CONSTANTS
    e1 = e1
    e2 = e2
    c1 = c1
    c2 = c2
    c3 = c3
    x1 = x1
    x2 = x2
    r1 = r1
    Exophones = {e1}
    Calls = {c1, c2}
    OwnerOf <- MCOneOwner
    Runs = {x1}
    Repairs = {r1}
    Kinds = {"backfill"}
    TakeTurns = "none"
    Skips = {FALSE}
    SkipAlls = {FALSE}
    MaxCount = 1
    Requests = {}
    Faults = {}
SYMMETRY MCSymmetry
INVARIANT CountedAtMostOnce
