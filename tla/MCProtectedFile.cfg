SPECIFICATION Spec
CONSTANT Depth = 3
INVARIANTS
  ClosedExactlyOnce
  FailureIsClean
PROPERTIES
  WritesAtomically
CHECK_DEADLOCK FALSE
