SPECIFICATION FairSpec
CONSTANTS
    Symbols = {btc}
    InitialSymbols = {btc}
    MaxTicks = 1
    Limited = TRUE
    MaxRetries = 2
    MaxTip = 1
    MaxFaults = 2
    MaxControls = 0
CHECK_DEADLOCK FALSE
PROPERTIES
    FullConfirmIsJudged
    MuteFlapHeals
    LostLinkIsRetried
    SilentLinkIsCut
    StopEnds
