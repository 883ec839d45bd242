SPECIFICATION ServicesSpec
CONSTANTS
    MaxGoals = 3
    MaxTakeovers = 2
    Nav2Nodes = {n1, n2}
    ActivationTimeout = 2
    StartupModes <- MCStartupModes
    Paths = {p1, p2, p3}
    Twisted = {p1}
    NoPath = NoPath
    WaitTicks = 2
    Retries = 1
    MaxTimeouts = 1
    ViewProfiles = {"compact", "full"}
    MaxMoves = 1
    MaxAsks = 1
    LockSpeaks = TRUE
    MaxFine = 1
    Requests = {q1}
    Cameras = {k1}
    MaxFaults = 1
    MaxProcessCrashes = 1
    MaxRequests = 1
    TrialModes = {"run", "observe"}
    Timeout = 3
    Window = 2
    Threads = {t1, t2}
    Order <- MCOrder
    SeveralParams <- MCSeveral
    Profiles = {"urban", "rural"}
    StartProfile = "urban"
    MaxApplies = 2
    Outcomes = {"ok", "rejected", "unavailable", "partly", "lost", "late"}
    Switches = FALSE
INVARIANTS ServicesTypeOK GoalsSafe  RestoredUnlessDoubtful
PROPERTIES StepsAreEarned EverythingEnds
CHECK_DEADLOCK FALSE
