CONSTANTS
  Threads = {t1}
  Order <- CodeOrder
  SeveralParams <- CodeSeveral
  Profiles = {"urban", "rural"}
  StartProfile = "urban"
  MaxApplies = 1
  Outcomes = {"ok", "rejected", "unavailable", "partly", "lost", "late"}
  Switches = FALSE
SPECIFICATION Spec
CHECK_DEADLOCK FALSE
INVARIANTS AppliedOrRestored
