SPECIFICATION LiveSpec
CONSTANTS
    c1 = c1
    c2 = c2
    None = None
    Clients = {c1, c2}
    NumStreams = 1
    TestSetups <- OneWay
    MaxFaults = 1
    Faults = {"killed", "silent"}
    MaxStops = 1
    ShutdownOutcomes = {TRUE, FALSE}
PROPERTIES
    ClientEnds
    StopEndsCall
    SilentClientDetected
