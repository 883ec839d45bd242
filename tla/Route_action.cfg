CONSTANTS
  Length = 3
  ChunkEnd <- WideFirst
  HasAction = {1}
  Anchors = {0}
  MaxAttempts = 1
  MaxMissions = 2
  MaxCalls = 2
  Cuts = {0}
  Verdicts = {"ok"}
  Failures = {"blocking"}
  MaxDisturbances = 0
  QuickResults = FALSE
  SlowCancel = FALSE
  Reordered = FALSE
  ActionsOutlive = TRUE
SPECIFICATION Spec
CHECK_DEADLOCK FALSE
PROPERTIES NoSkippedCheckpoint
