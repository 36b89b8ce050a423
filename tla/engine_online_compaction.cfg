SPECIFICATION Spec
CONSTANTS
    Width <- FiveRecords
    IndexInterval = 2
    PersistInterval = 1
    MetaLag = 1
    MaxTorn = 0
    MaxRewrites = 1
    Symbol = btc
    ObserversYield = FALSE
    Cursors = {3}
    FatalThreshold = 2
    LagSeq = 1
    OnlineCompaction = TRUE
    MaxLives = 2
    MaxControls = 1
    MaxFaults = 0
INVARIANTS
    NothingLost
