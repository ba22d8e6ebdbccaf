SPECIFICATION OperationsSpec
CONSTANTS
    Graphs <- MCGraphs
    MaxEdits = 2
    MaxDeploys = 3
    Workloads <- MCWorkloads
    Listed <- MCListed
    ApiRetries = 2
    Tables <- MCTables
    MaxChunks = 6
    MaxEvals = 2
    TestChunks = 1
    BufferChunks = 1
    MinPos = 1
    MinNeg = 1
    Scopes <- MCScopes
    SaveScope = "same-user"
    None = None
INVARIANTS StableEdgesPass RemovedEdgesRefused GateMeansRegistered SplitInTime SavedModelSealed ModelIsReported
CHECK_DEADLOCK FALSE
