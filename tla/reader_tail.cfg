SPECIFICATION FairSpec
CONSTANTS
    Width <- Widths
    IndexInterval = 2
    LagSeq = 0
    PersistInterval = 2
    MetaLag = 1
    MaxTorn = 1
    MaxRewrites = 1
    MaxSeeks = 1
INVARIANTS
    TypeOK
    NothingSkipped
PROPERTIES
    TailIsReached
