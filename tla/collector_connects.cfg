SPECIFICATION Spec
CONSTANTS
    Symbols = {btc, eth}
    InitialSymbols = {btc}
    MaxTicks = 2
    Limited = TRUE
    MaxRetries = 2
    MaxTip = 1
    MaxFaults = 2
    MaxControls = 1
INVARIANTS
    TypeOK
    ConnectionsAreReleased
    FlapsAreMatched
    WireMatchesRegistry
    ArmedByThisConnection
CHECK_DEADLOCK FALSE
