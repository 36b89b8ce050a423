SPECIFICATION Spec
CONSTANTS
    Instances = {collector, engine}
    Writers = {collector}
    Compactors = {engine}
    Healers = {engine}
    Reloaders = {collector, engine}
    Symbols = {btc}
    TradeIds = {t1, t2}
    NoTrade = NoTrade
    NoInstance = NoInstance
    Window = 1
    PersistInterval = 2
    IndexInterval = 2
    IndexMax = 2
    IdleFlush = TRUE
    MaxSeq = 3
    MaxLives = 2
    MaxFaults = 1
SYMMETRY TradeSymmetry
INVARIANTS
    TypeOK
    TipLagBounded
    UnpublishedIsTimed
PROPERTIES
    DiskTipNeverRegresses
    MemoryTipsNeverRegress
