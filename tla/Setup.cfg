SPECIFICATION FairSpec
CONSTANTS
    LengthSize = 2
    MaxRepeats = 1
    EarlyReads = 1
    Requests <- FewRequests
    MaxParams = 3
    MaxTests = 3
INVARIANTS
    ServedAsAsked
    StreamsPaired
PROPERTIES
    SetupEnds
    ImplementsMessageChannel
