SPECIFICATION ProxySpec
CONSTANTS
    Callers = {g1, g2}
    MaxCalls = 3
    MaxConns = 2
    MaxRetries = 3
    Reconnect = TRUE
INVARIANTS
    EveryCallTracked OneOwner DisconnectToldOnce
PROPERTIES
    ReconnectDecides
CHECK_DEADLOCK FALSE
