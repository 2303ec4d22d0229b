SPECIFICATION Spec
CONSTANTS
    r1 = r1
    r2 = r2
    r3 = r3
    r4 = r4
    k1 = k1
    Requests = {r1, r2, r4}
    Keys = {k1}
    Anonymous = Anonymous
    KeyOf <- MCKeyOf
    Instances = {"b1", "b2"}
    MaxBumps = 2
    MaxDay = 1
    MaxHour = 1
INVARIANTS
    TypeOK
    NeverOvercounts
    NeverAheadOfLogs
    SerialExact
SYMMETRY Symmetry
CHECK_DEADLOCK FALSE
