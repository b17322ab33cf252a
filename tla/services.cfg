SPECIFICATION MCSpec
CONSTANTS
  t1 = t1
  t2 = t2
  Calls = {t1, t2}
  AutoCheck = AutoCheck
  None = None
  MaxVersion = 3
  MaxOp = 3
  MaxStart = 2
  MaxStages = 2
  a = a
  b = b
  Schemas = {1, 2, 3, 4, 5, 6, 7, 8, 9}
  MaxEdits = 2
  p1 = p1
  p2 = p2
  Places = {"home", "moved"}
  MaxFiles = 3
  MaxOps = 4
  MaxMoves = 1
  Workers = {a, b}
  Processes = {p1, p2}
  Nothing = Nothing
  MaxGen = 2
  Slot = {a, b}
  Capacity = 1
  WaitSlots = 1
  Loops = {1, 2}
  MaxLines = 2
  Commands = {1, 2}
  ReaderLimit = 3
  OutputLimit = 1
  MaxReads = 1
  MaxCommands = 10
  Shown = 1
  MaxRecords = 2
  Plans = {1, 2}
  Home0 = 1
  Nil = Nil
  TextKinds = {"decision", "summary"}
  Texts = {"x"}
  Links <- ProjectLink
  Limit = 1
  MaxRev = 2
  MaxRequest = 2
  MaxCalls = 3
SYMMETRY Symmetry
INVARIANTS UpdatesSafe FilesSafe ServiceSafe McpSafe RunnerSafe MemorySafe ReadsRight
CHECK_DEADLOCK FALSE
