SPECIFICATION Spec
CONSTANTS
    Length      = 7
    FreshWindow = 2
    MaxGap      = 3
    None        = None
INVARIANTS
    FaultsAreCaught
    GapIsReal
CHECK_DEADLOCK FALSE
