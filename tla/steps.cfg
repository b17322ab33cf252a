SPECIFICATION MCSpec
CONSTANTS
  NoActor = NoActor  Free = Free
  a = a  b = b  p1 = p1  p2 = p2
  Project = {A, B}
  Proc = {p1, p2}
  Actor = {a, b}
  Identity <- Named
  MaxPlan = 2
  MaxVersion = 2
INVARIANTS NothingLost DeleteAdmitted RuntimeSafe
PROPERTIES TransferEnds ShutdownEnds
CHECK_DEADLOCK FALSE
