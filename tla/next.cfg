SPECIFICATION MCSpec
CONSTANTS
  None = None
  p1 = p1
  p2 = p2
INVARIANT NextSkipsOpenDeps
CHECK_DEADLOCK FALSE
