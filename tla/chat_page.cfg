SPECIFICATION PageSpec
CONSTANTS
    x1 = x1
    x2 = x2
    x3 = x3
    t1 = t1
    t2 = t2
    v1 = v1
    v2 = v2
    Exchanges = {x1, x2, x3}
    NoRow = NoRow
    MaxTokens = 1
    MaxTurns = 3
    Tabs = {t1, t2}
    Convos = {v1, v2}
    Unused = Unused
    Deleted = Deleted
    NoConvo = NoConvo
    NoExchange = NoExchange
INVARIANTS
    PageTypeOK
    TurnsAlternate
    KeptIsLogged
PROPERTIES
    AnswerLands
SYMMETRY Symmetry
CHECK_DEADLOCK FALSE
