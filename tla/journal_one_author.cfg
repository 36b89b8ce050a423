SPECIFICATION FairSpec
CONSTANTS
    Instances = {collector, engine}
    Writers = {collector}
    Compactors = {collector}
    Healers = {engine}
    Reloaders = {engine}
    Symbols = {btc}
    TradeIds = {t1, t2, t3}
    NoTrade = NoTrade
    NoInstance = NoInstance
    Window = 2
    PersistInterval = 3
    IndexInterval = 2
    IndexMax = 2
    IdleFlush = TRUE
    MaxSeq = 4
    MaxLives = 1
    MaxFaults = 0
INVARIANTS
    SeqsIncreaseForOneAuthor
    DedupWithinWindow
    OwnIndexResolves
PROPERTIES
    TipEventuallyPublished
