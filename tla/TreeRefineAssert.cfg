SPECIFICATION Spec
CONSTANTS
  NC = 2
  NodeCapacity = 8
INVARIANT RefineAssertHolds
CHECK_DEADLOCK FALSE
