SPECIFICATION Spec
CONSTANTS
    c1 = c1
    c2 = c2
    Identities = {"pro"}
    Limit <- MCLimit
    Calls = {c1, c2}
    Window = 3
    Second = 2
    Skew = 0
    MaxDelay = 0
    RandomFresh = FALSE
    MaxTime = 5
    MaxLosses = 0
INVARIANT
    BudgetKept
CHECK_DEADLOCK FALSE
