SPECIFICATION ConsoleSpec
CONSTANTS
    m1 = m1
    m2 = m2
    c1 = c1
    c2 = c2
    admin = admin
    operator = operator
    good = good
    bad = bad
    Models = {m1, m2}
    Calls = {c1, c2}
    Seeders = {c2}
    Configured = m1
    NoRow = NoRow
    Unknown = Unknown
    Browsers = {c1}
    Users = {admin, operator}
    EnvUser = admin
    Passwords = {good, bad}
    EnvPassword = good
    Edits <- MCEdits
    NoUser = NoUser
    NoCookie = NoCookie
    HasArgon2 = FALSE
INVARIANTS
    ConsoleTypeOK
    SettledHolds
    OpenedByAdmins
    NeverLockedOut
