SPECIFICATION SetupSpec
CONSTANTS
  None = None
  MaxEdits = 2
  MaxPreviews = 2
  MaxFaults = 2
INVARIANT PartialNotSkipped
CHECK_DEADLOCK FALSE
