SPECIFICATION Spec
CONSTANTS
    group     = group
    quiet     = quiet
    Notifs    <- MCNotifs
    Payload   <- MCPayload
    Slots     = {s1, s2}
    Risks     = {high}
    NoRisk    = NoRisk
    MaxScores = 1
    Plans     <- MCPlans
    MaxFaults = 2
    Torn      = Torn
INVARIANTS
    ServedIsStored
    ScoresKept
    OrphanMailsBounded
    
PROPERTIES
    ImplementsLog
    
CHECK_DEADLOCK FALSE
