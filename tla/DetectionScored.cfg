SPECIFICATION ScoreSpec
CONSTANTS
    Window = 4
    Step = 2
    Lag = 1
    ChunkLen = 5
    Chunks = 2
    MaxLines = 3
    Kinds <- MCKinds
    Runs <- MCRuns
    Margin = 1
    MaxQuiet = 2
    Threshold = 2
    NoOne = NoOne
    NoEvent = NoEvent
INVARIANT ScoredAsTrained
CHECK_DEADLOCK FALSE
