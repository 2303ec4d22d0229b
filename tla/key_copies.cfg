SPECIFICATION Spec
CONSTANTS
    k1 = k1
    k2 = k2
    v1 = v1
    v2 = v2
    v3 = v3
    v4 = v4
    v5 = v5
    sa = sa
    sb = sb
    gone = gone
    a = a
    b = b
    r1 = r1
    r2 = r2
    r3 = r3
    r4 = r4
    Rows = {k1, k2}
    Values = {v1, v2, v3, v4, v5}
    Old <- MCOld
    Secrets = {sa, sb, gone}
    Instances = {a, b}
    Secret <- MCSecret
    Fallbacks <- MCFallbacks
    Runs = {r1, r2, r3, r4}
    InstanceOf <- MCInstanceOf
    Applies = {r1, r2, r3}
    Rotates = {r1, r3, r4}
    Nothing = Nothing
    NoValue = NoValue
INVARIANTS
    TypeOK
    CopyIsKey
PROPERTIES
    OnlyLostKeysRetired
SYMMETRY Symmetry
CHECK_DEADLOCK FALSE
