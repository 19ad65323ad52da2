CONSTANTS
    Main = main
    Helpers = {helper}
    Records = {r1}
    Unchecking = {}
    MaxSignals = 1
    MaxInterrupts = 1
    MaxCalls = 1
SPECIFICATION FairSpec
INVARIANTS
    OneDrain
    NoMutualWait
    WarningCountsTheRest
    InTimeAllAreTried
PROPERTIES
    NotCutShort
    EndsWhenAsked
CHECK_DEADLOCK FALSE
