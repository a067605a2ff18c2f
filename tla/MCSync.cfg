SPECIFICATION Spec
CONSTANTS
    MaxEvents = 2
    MaxClears = 1
    MaxSessions = 2
    MaxFaults = 1
INVARIANTS
    NothingForeign
PROPERTIES
    LoadingEnds CursorCatchesUp
CHECK_DEADLOCK FALSE
