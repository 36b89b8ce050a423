SPECIFICATION FairSpec
CONSTANTS
    Symbols = {btc, eth}
    InitialSymbols = {btc}
    Resubscribes = TRUE
    ObserversYield = TRUE
    Cursors = {}
    FatalThreshold = 2
    MaxSeq = 3
    MaxLives = 1
    MaxControls = 2
    MaxFaults = 2
INVARIANTS
    HandledFromCursor
    PassedIsBuffered
PROPERTIES
    EveryLineProcessed
    StopIsSeen
