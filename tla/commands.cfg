SPECIFICATION MCSpec
CONSTANTS
  c1 = c1
  c2 = c2
  d = d
  r1 = r1
  r2 = r2
  r3 = r3
  p1 = p1
  p2 = p2
  None = None
  Clis = {c1, c2}
  Desktops = {d}
  Roots = {r1, r2, r3}
  MaxDb = 2
  MaxFault = 1
  MaxUpheaval = 2
  MaxOp = 1
SYMMETRY Symmetric
INVARIANTS OneTaskPerCommand
PROPERTIES GenerationKept CloseRestsOnEvidence OpenWorkIsRecorded
CHECK_DEADLOCK FALSE
