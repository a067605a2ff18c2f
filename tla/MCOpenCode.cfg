SPECIFICATION Spec
CONSTANTS
    MaxSessions = 2
    MaxMessages = 2
    MaxText = 2
    MaxWrites = 3
    MaxClears = 1
    MaxFails = 1
    MaxSends = 1
    MaxAsks = 2
    Patience = 2
INVARIANTS
    NothingMissed
    
    ClearedStaysCleared
PROPERTIES
    QuestionShown
    WorkingEnds
CHECK_DEADLOCK FALSE
