SPECIFICATION Spec
CONSTANTS
    MaxChunks      = 2
    Target         = 4
    ChunksPerRun   = 1
    Probes         = 2
    PosthocRetries = 2
    Plans          <- MCTears
    MaxFaults      = 2
    Torn           = Torn
INVARIANT
    RecoverCloses
