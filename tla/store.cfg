SPECIFICATION MCSpec
CONSTANTS
  NoActor = NoActor  Closed = Closed  NoReason = NoReason
  Actor = {a, b}
  Callers = {a, b, NoActor}
  Reason = {wait}
  Sha = {c1}
  Movers = {a, b, NoActor}
  Arrivals <- Arriving
  PlanStatusIn = {"active", "done", "archived"}
  TaskStatusIn = {"doing", "done"}
  MaxPlan = 2  MaxTask = 1  MaxNote = 0  MaxIssue = 0
  MaxMilestone = 0  MaxEpoch = 2  MaxDeps = 0
CHECK_DEADLOCK TRUE
SYMMETRY Identities
INVARIANTS StoreSafe
PROPERTIES EpochFences ClaimGate TrailStays FinishedRefusesNewWork
