SPECIFICATION FairSpec
CONSTANTS
    LoopLen = 2
    DepartLen = 1
    ReturnLen = 0
    EntryIndex = 0
    Dist <- NearerExitLater
    MaxSets = 1
    MaxForeign = 0
    MaxSubmissions = 1
    MaxEvents = 1
    Poses = {"home", "away"}
    GuardInputs = {"recommends", "clear", "invalid"}
    SocInputs = {"low", "above", "invalid"}
    OperatorReplaces = FALSE
    OperatorCancels = TRUE
    ConversionFails = FALSE
INVARIANTS
    LatchReachesMission
    AdoptedRouteIsOurs
    ReturnAfterLoopStopped
    CancelIsFinal
PROPERTIES
    PhaseEndsOnOwnRoute
    BatteryReturnEnds
