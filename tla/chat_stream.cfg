SPECIFICATION FairSpec
CONSTANTS
    x1 = x1
    Exchanges = {x1}
    Backends = {"openai", "ollama"}
    BodySizes = {0, 2}
    NullContent = TRUE
    MaxWire = 4
    NoRow = NoRow
    MaxTokens = 3
INVARIANTS
    TypeOK
    ShownIsLogged
    StatusMatches
PROPERTIES
    ImplementsPromise
    EveryAnswerEnds
CHECK_DEADLOCK FALSE
