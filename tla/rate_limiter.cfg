SPECIFICATION Spec
CONSTANTS
    c1 = c1
    c2 = c2
    Identities = {"pro"}
    Limit <- MCLimit
    Calls = {c1, c2}
    Window = 4
    Second = 2
    Skew = 1
    MaxDelay = 1
    RandomFresh = TRUE
    MaxTime = 5
    MaxLosses = 1
INVARIANTS
    TypeOK
    LossCostsOneBudget
    RetryAfterSuffices
    RetryAfterTight
PROPERTIES
    ImplementsPromise
SYMMETRY Symmetry
CHECK_DEADLOCK FALSE
