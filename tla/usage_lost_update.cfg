SPECIFICATION Spec
CONSTANTS
    r1 = r1
    r2 = r2
    r3 = r3
    r4 = r4
    k1 = k1
    Requests = {r1, r2, r3}
    Keys = {k1}
    Anonymous = Anonymous
    KeyOf <- MCKeyOf
    Instances = {}
    MaxBumps = 2
    MaxDay = 0
    MaxHour = 0
INVARIANT
    IncrementedOnEveryLog
CHECK_DEADLOCK FALSE
