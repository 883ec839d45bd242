SPECIFICATION Spec
CONSTANTS
    LoopLen = 2
    DepartLen = 1
    ReturnLen = 0
    EntryIndex = 0
    Dist <- NearerExitLater
    MaxSets = 2
    MaxForeign = 0
    MaxSubmissions = 2
    MaxEvents = 1
    Poses = {"away"}
    GuardInputs = {"recommends"}
    SocInputs = {}
    OperatorReplaces = TRUE
    OperatorCancels = TRUE
    ConversionFails = FALSE
INVARIANTS
    AdoptedRouteIsOurs
