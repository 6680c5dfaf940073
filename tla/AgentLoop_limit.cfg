CONSTANTS
    MaxSteps = 1
    MaxPerStep = 1
    MaxTurns = 2
    Aborting = FALSE
SPECIFICATION Spec
INVARIANT RequestsPaired
CHECK_DEADLOCK FALSE
