SPECIFICATION FairSpec
CONSTANTS
    w1 = w1
    w2 = w2
    None = None
    Workers = {w1, w2}
    Ports = {0, 5201}
    MaxClients = 0
    MaxNudges = 1
    ShutdownOutcomes = {TRUE}
PROPERTIES
    StopAlwaysReturns
CHECK_DEADLOCK FALSE
