SPECIFICATION Spec
CONSTANTS
    MaxSpeed = 2
    MaxReverse = 1
    Deadband = 1
    MinEffective = 1
    SteeringLimit = 2
    OperationalLimit = 1
    ManualLimit = 2
    EstopBrake = 100
    AutoTimeout = 1
    FutureSkew = 1
    Setups <- MCSetups
    ControlPeriod = 1
    TxPeriod = 1
    FailingWrites = {"shutdown"}
    SampleAges = {0, 1}
    Malformed = TRUE
    ManualTimeout = 1
    MonitorTimeout = 1
    ScanRequired = TRUE
    ScanAges <- MCScanAges
    Twists <- MCTwists
    TeleopBrakes = {0}
    Healths = {}
    MonitorStops = {}
    HoldTicks = 1
    MaxModeChanges = 1
    MaxHolds = 1
    MaxFinal = 1
    BatterySources = {"external", "transport"}
    StaleTimeout = 1
    LowPersist = 3
    ClearPersist = 2
    NoValue = NoValue
    Operators = {"o1", "o2"}
    Processes = {"g1", "g2"}
    NoProcess = "none"
    Names = {"a", "b"}
    MaxRevision = 3
    MaxIds = 2
    MaxProcessCrashes = 1
    Gateways = {"g1", "g2"}
    MaxSaves = 2
    MaxDeaths = 1
    Cells = {1, 2}
    Workers = {"w1", "w2"}
    Domains = {1, 2}
    NoOne = "none"
    Foreign = "foreign"
    MaxInvocations = 2
    MaxWorkerDeaths = 1
    Documents <- MCDocuments
    Transforms = {1, 2}
    MaxApplies = 2
    MaxZoneCrashes = 1
    Samples = 2
    Costmaps <- MCCostmaps
    NearHorizon = 1
    MaxDistance = 2
    HighSamples = 2
    CrossConfirmations = 1
    SamePlace = 0
    CostmapTimeout = 1
    FarPersistence = 1
    Cooldown = 1
    ProgressTimeout = 1
    MaxKeepouts = 2
    MaxAge = 1
    StartupGrace = 1
    MaxSnapTime = 3
    MaxPlans = 1
    MaxCostmaps = 1
    MaxSnapGoals = 2
INVARIANTS ComponentsTypeOK StopEndsSafe AcksAreKept NavigationSafe DevicesSafe TrackingSafe RecordsSafe
PROPERTIES TakeoverIsClean KeepsPromise StepsAreOrdered
CHECK_DEADLOCK FALSE
