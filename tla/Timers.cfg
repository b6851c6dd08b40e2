SPECIFICATION Spec
CONSTANTS
    Cells = {t1, t2, t3, t4}
    Nil = Nil
    Setups <- Few
    Grace = 1
    MaxTime = 5
    MaxTests = 2
INVARIANTS
    ListIsSorted
    CellsAreInOnePlace
    HandlesAreActive
    NoTimerOutlivesItsTest
    CursorIsActive
PROPERTIES
    DueTimersFire
