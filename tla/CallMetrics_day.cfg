SPECIFICATION Spec
CONSTANTS
    c1 = c1
    c2 = c2
    c3 = c3
    Calls = {c1, c2, c3}
    Days <- MCDays
    LastHour = 1
    Durations = {1, 2}
    LegStatuses = {"", "busy", "failed", "cancelled"}
    RateMax = 150
INVARIANT TypeOK
INVARIANT WholeDay
INVARIANT ConnectedIsReached
INVARIANT AvgWithinRounding
INVARIANT RefusedOnlyWithCustomerLegs
