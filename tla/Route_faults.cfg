CONSTANTS
  Length = 2
  ChunkEnd <- WideFirst
  HasAction = {1}
  Anchors = {0}
  MaxAttempts = 1
  MaxMissions = 1
  MaxCalls = 1
  Cuts = {0, 2}
  Verdicts = {"ok", "maneuver", "maneuver_operator"}
  Failures = {"blocking"}
  MaxDisturbances = 1
  QuickResults = FALSE
  SlowCancel = FALSE
  Reordered = FALSE
  ActionsOutlive = FALSE
SPECIFICATION Spec
CHECK_DEADLOCK FALSE
INVARIANTS TypeOK RetryBudget
PROPERTIES NoSkippedCheckpoint RetrySendsPending
