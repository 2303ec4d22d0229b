SPECIFICATION Spec
CONSTANTS
    k1 = k1
    k2 = k2
    r1 = r1
    r2 = r2
    r3 = r3
    home = home
    away = away
    Keys = {k1, k2}
    Ips = {home, away}
    Requests = {r1, r2, r3}
    Admins = {"a1"}
    Tier <- MCTier
    TierLimits <- MCTierLimits
    Unlimited = Unlimited
    Allowlist <- MCAllowlist
    ExpiresAt <- MCExpiresAt
    Never = Never
    IpLimit = 2
    Window = 1
    MaxTime = 2
INVARIANTS
    TypeOK
    NoLateAdmission
    SlotsAccountedFor
    TierBudgetKept
PROPERTIES
    RevokedForever
SYMMETRY Symmetry
CHECK_DEADLOCK FALSE
