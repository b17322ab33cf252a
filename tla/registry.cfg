SPECIFICATION FairSpec
CONSTANTS
  Terminal = {t1}
  NoCall = NoCall
  External = External
  MaxRun = 2
  MaxToken = 1
  MaxRecords = 1
  RetainLast = 2
  MaxSource = 2
  MaxRev = 2
  MaxFault = 1
INVARIANTS RegistrySafe
PROPERTIES RegistryHonest Retried
CHECK_DEADLOCK FALSE
