SPECIFICATION Spec
CONSTANTS
    Width <- FourRecords
    IndexInterval = 2
    PersistInterval = 4
    MetaLag = 1
    MaxTorn = 1
    MaxRewrites = 1
    Symbol = btc
    ObserversYield = FALSE
    Cursors = {1}
    FatalThreshold = 2
    LagSeq = 1
    OnlineCompaction = FALSE
    MaxLives = 2
    MaxControls = 1
    MaxFaults = 1
INVARIANTS
    HandledWithoutGaps
    NothingLost
