SPECIFICATION Spec
CONSTANTS
    Symbols = {btc}
    InitialSymbols = {}
    Resubscribes = FALSE
    ObserversYield = TRUE
    Cursors = {0, 1, 2, 3}
    FatalThreshold = 2
    MaxSeq = 3
    MaxLives = 1
    MaxControls = 1
    MaxFaults = 0
INVARIANTS
    NoStaleTicks
