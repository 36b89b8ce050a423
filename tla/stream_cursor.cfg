SPECIFICATION FairSpec
CONSTANTS
    Symbols = {btc}
    InitialSymbols = {}
    Resubscribes = FALSE
    ObserversYield = FALSE
    Cursors = {0, 1, 2, 3}
    FatalThreshold = 2
    MaxSeq = 3
    MaxLives = 2
    MaxControls = 2
    MaxFaults = 2
INVARIANTS
    TypeOK
    JoinCountExact
    MarkNeverRaises
    NoStaleTicks
PROPERTIES
    DeliversInOrder
    EveryLineProcessed
