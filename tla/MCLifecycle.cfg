SPECIFICATION LifeSpec
CONSTANTS
    c1 = c1
    c2 = c2
    Clients = {c1, c2}
    Users <- MCUsers
    MaxProcs = 2
INVARIANTS
    Reaped
    WaitsForTheDead
PROPERTIES
    DeadProcessReleased
CHECK_DEADLOCK FALSE
