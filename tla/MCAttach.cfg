SPECIFICATION Spec
CONSTANTS
    Worlds <- AllWorlds
    NumPids = 2
    Sessions = {"s1", "s2"}
    Clients = {c1}
    MaxAgents = 4
    MaxEvents = 1
INVARIANTS
    OneAgentPerProcess
    NoStrayWatcher
PROPERTIES
    DeadAgentsGo
    ClaudeFollowed
CHECK_DEADLOCK FALSE
