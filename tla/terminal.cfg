SPECIFICATION Spec
CONSTANTS
  NoOne = NoOne
  Conn = {c1, c2}
  Closer = {"create", "request", "reclaim", "shutdown"}
  Forced = {"create"}
  MaxOut = 2
  Cap = 1
  MaxMint = 2
  Faults = {"spawn", "read", "wait"}
INVARIANTS TerminalSafe
PROPERTIES AbandonedCloses
CHECK_DEADLOCK FALSE
