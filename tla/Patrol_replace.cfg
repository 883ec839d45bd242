SPECIFICATION Spec
CONSTANTS
    LoopLen = 2
    DepartLen = 0
    ReturnLen = 0
    EntryIndex = 0
    Dist <- NearerExitLater
    MaxSets = 2
    MaxForeign = 1
    MaxSubmissions = 2
    MaxEvents = 1
    Poses = {"away"}
    GuardInputs = {"recommends"}
    SocInputs = {}
    OperatorReplaces = TRUE
    OperatorCancels = FALSE
    ConversionFails = TRUE
INVARIANTS
    TypeOK
    NoPatrolOnLowBattery
    ReturnKnowsItsExit
PROPERTIES
    IdentifiedRouteIsTheOnlyOne
    PhasesOnlyAdvance
