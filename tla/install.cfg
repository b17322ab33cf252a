SPECIFICATION MCSpec
CONSTANTS
  p1 = p1  p2 = p2  works = works  broken = broken
  Proc = {p1, p2}
  Staged = {works, broken}
  Good = {works}
  Foreign = Foreign  Free = Free  NoJournal = NoJournal
  Faults = {"kill", "io", "power"}
  MaxInode = 3
  MaxFault = 2
INVARIANTS BackupKept
PROPERTIES PendingResolved
