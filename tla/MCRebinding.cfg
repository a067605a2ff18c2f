SPECIFICATION Spec
CONSTANTS
    Sessions = {"s1", "s2"}
    First = "s1"
    NumWatchers = 3
    MaxLines = 1
    MaxMoves = 2
    MaxAttaches = 2
INVARIANTS
    OneConversation
    NothingLost
CHECK_DEADLOCK FALSE
