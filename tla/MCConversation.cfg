SPECIFICATION Spec
CONSTANTS
    Senders = {c1, c2}
    Texts = {"t1"}
    MaxLines = 3
    MaxSessions = 2
    Worlds <- MCWorlds
INVARIANTS
    SessionIsolation
    InOrder
    Persisted
PROPERTIES
    RowsKept
    Followed
CHECK_DEADLOCK FALSE
