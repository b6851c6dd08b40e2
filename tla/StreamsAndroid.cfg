CONSTANT Tests <- AndroidTests
SPECIFICATION Spec
INVARIANT ListedOnce
CHECK_DEADLOCK FALSE
