SPECIFICATION ChunksSpec
CONSTANTS
    Routes <- ThreeCheckpointLoop
    Modes = {"single_checkpoint"}
    Spacing = 2
    DenseLeg = 4
    DenseHorizon = 9
    PrunesClosure = FALSE
    MaxChunks = 7
    MaxRetries = 1
INVARIANTS EveryVisitCounts
CHECK_DEADLOCK FALSE
