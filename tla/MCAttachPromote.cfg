SPECIFICATION Spec
CONSTANTS
    NumPids = 2
    Worlds <- LiveWorlds
    Sessions = {"s1", "s2"}
    Clients = {}
    MaxAgents = 4
    MaxEvents = 1
PROPERTY FreedSessionPromoted
CHECK_DEADLOCK FALSE
