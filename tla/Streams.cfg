CONSTANT Tests <- AllTests
SPECIFICATION Spec
INVARIANTS
    LossIsExact
    LossWithinPackets
    IntervalsWithinTotal
    ReportsAgree
    ReportIsPlausible
CHECK_DEADLOCK FALSE
