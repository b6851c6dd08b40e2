SPECIFICATION PoliteFairSpec
CONSTANTS
    w1 = w1
    w2 = w2
    None = None
    Workers = {w1, w2}
    Ports = {0, 5201}
    MaxClients = 1
    MaxNudges = 1
    MaxQueue = 1
    ShutdownOutcomes = {FALSE}
INVARIANTS
    IsRunningTells
    OutputIsHeard
PROPERTIES
    ImplementsServerControl
    NudgedServerEnds
