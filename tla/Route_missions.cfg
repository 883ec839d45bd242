CONSTANTS
  Length = 3
  ChunkEnd <- Single
  HasAction = {1}
  Anchors = {0}
  MaxAttempts = 0
  MaxMissions = 2
  MaxCalls = 2
  Cuts = {0}
  Verdicts = {"ok"}
  Failures = {"blocking"}
  MaxDisturbances = 0
  QuickResults = FALSE
  SlowCancel = FALSE
  Reordered = FALSE
  ActionsOutlive = FALSE
SPECIFICATION Spec
CHECK_DEADLOCK FALSE
INVARIANTS CreditIsPhysical StopIsFinal OldGoalIsOnItsWayOut
