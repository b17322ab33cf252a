SPECIFICATION MCSpec
CONSTANTS
  None = None
  p1 = p1
  p2 = p2
SYMMETRY Symmetry
INVARIANTS PanesSafe WindowRight SetupSafe RecentsSafe ObserverRight ViewsRight
PROPERTIES PromisesKept
CHECK_DEADLOCK FALSE
