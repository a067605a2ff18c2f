SPECIFICATION Spec
CONSTANTS
    w1 = w1
    w2 = w2
    Workers = {w1, w2}
    MaxEnds = 3
    Worlds <- MCWorlds
INVARIANTS
    NoLeak
    NoDeadProxy
    SettledTruly
PROPERTIES
    Heals
CHECK_DEADLOCK FALSE
