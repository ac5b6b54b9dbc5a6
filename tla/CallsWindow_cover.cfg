SPECIFICATION Spec
CONSTANTS
    x1 = x1
    x2 = x2
    Frequencies = {1, 3}
    Day = 4
    Overlap = 1
    Lookback = 2
    Runs = {x1, x2}
    Horizon = 5
    Faults = {"db", "crash", "account"}
SYMMETRY MCSymmetry
INVARIANT TypeOK
INVARIANT NothingSkipped
