SPECIFICATION FairSpec
CONSTANTS
    w1 = w1
    w2 = w2
    None = None
    Workers = {w1, w2}
    Ports = {0, 5201}
    MaxClients = 1
    MaxNudges = 1
    ShutdownOutcomes = {TRUE, FALSE}
INVARIANTS
    OneServerAtATime
    InterruptTarget
    QuietAfterStop
    HandleIsJoinable
    RunningMeansServer
PROPERTIES
    ImplementsServerControl
    ShutListenerStops
    NudgedServerStops
