SPECIFICATION Spec
CONSTANTS
    MaxChunks      = 2
    Target         = 4
    ChunksPerRun   = 1
    Probes         = 2
    PosthocRetries = 2
    Plans          <- MCPlans
    MaxFaults      = 2
    Torn           = Torn
INVARIANTS
    NoInventedHours
    EndsAtLastProbe
PROPERTIES
    BookSpec
    
