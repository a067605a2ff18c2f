SPECIFICATION Spec
CONSTANTS
    Clients = {c1, c2}
    Senders = {c1}
    MaxProcs = 2
    MaxLines = 2
    MaxStops = 1
    MaxInFlight = 2
INVARIANTS
    AnsweredOnce
    AskedIsListed
    RestsIdle
    ToldAtRest
CHECK_DEADLOCK FALSE
