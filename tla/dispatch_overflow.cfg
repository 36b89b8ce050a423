SPECIFICATION Spec
CONSTANTS
    Maxsize = 2
    LogInterval = 2
    ErrorAfter = 3
    ErrorDrops = 6
    Consumers = {c1, c2}
    None = None
    MaxTicks = 8
    MaxTime = 6
CHECK_DEADLOCK FALSE
INVARIANTS
    TypeOK
    JoinCountExact
    DropsReported
    SaturationEscalates
PROPERTIES
    KeptByPolicy
    ImplementsLossyFifo
