CONSTANTS
  Clients = {a, b, n}
  NoOne = NoOne
  NavLive = {n}
  Timeout = 1
  Capacity = 2
  StartLocked = TRUE
  MaxRequests = 2
  Ops = {"unlock", "lock", "heartbeat", "control"}
  Undiscovered = FALSE
  Telemetered = TRUE
  SlowState = FALSE
SPECIFICATION Spec
CONSTRAINT MCReader
SYMMETRY MCSymmetry
CHECK_DEADLOCK FALSE
INVARIANTS TypeOK LeaseMatchesLock GoneOwnsNothing CockpitIsTold
PROPERTIES OnlyOwnerDrives NeverStolen
