CONSTANTS
  Clients = {a, b}
  NoOne = NoOne
  NavLive = {}
  Timeout = 1
  Capacity = 2
  StartLocked = TRUE
  MaxRequests = 3
  Ops = {"unlock", "lock", "control"}
  Undiscovered = TRUE
  Telemetered = FALSE
  SlowState = FALSE
SPECIFICATION Spec
CHECK_DEADLOCK FALSE
PROPERTIES OnlyOwnerDrives
