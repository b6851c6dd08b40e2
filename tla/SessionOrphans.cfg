SPECIFICATION Spec
CONSTANTS
    c1 = c1
    c2 = c2
    None = None
    Clients = {c1}
    NumStreams = 1
    TestSetups <- Upload
    MaxFaults = 1
    Faults = {"killed", "silent"}
    MaxStops = 0
    ShutdownOutcomes = {TRUE, FALSE}
INVARIANTS
    AllThreadsStopped
