SPECIFICATION PageSpec
CONSTANTS
    x1 = x1
    x2 = x2
    x3 = x3
    t1 = t1
    t2 = t2
    v1 = v1
    v2 = v2
    Exchanges = {x1, x2}
    NoRow = NoRow
    MaxTokens = 1
    MaxTurns = 3
    Tabs = {t1}
    Convos = {v1, v2}
    Unused = Unused
    Deleted = Deleted
    NoConvo = NoConvo
    NoExchange = NoExchange
INVARIANT
    HistoryIsOfThisConversation
CHECK_DEADLOCK FALSE
