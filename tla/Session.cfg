SPECIFICATION Spec
CONSTANTS
    c1 = c1
    c2 = c2
    None = None
    Clients = {c1, c2}
    NumStreams = 1
    TestSetups <- AllModes
    MaxFaults = 1
    Faults = {"killed", "silent"}
    MaxStops = 1
    ShutdownOutcomes = {TRUE, FALSE}
INVARIANTS
    NobodyWaitsInVain
    FramingAgrees
    StatesAgree
    StreamsPair
    DataNeedsBothEnds
    OneClient
    FinishedOnBothEnds
PROPERTIES
    ImplementsRunServer
SYMMETRY Symmetry
