SPECIFICATION Spec
CONSTANTS
    Target   = 4
    GapMax   = 3
    LowqMax  = 2
    AbortMax = 2
INVARIANTS
    HoursBacked
    GapStopIsReal
PROPERTIES
    ExportedHoursKept
    Terminates
CHECK_DEADLOCK FALSE
