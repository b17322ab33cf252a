SPECIFICATION MCSpec
CONSTANTS
  opener = opener
  closer = closer
  caller = caller
  initer = initer
  poller = poller
  quitter = quitter
  Opener = {opener}
  Closer = {closer}
  Caller = {caller}
  Initer = {initer}
  Poller = {poller}
  Quitter = {quitter}
  MaxGen = 3
  MaxTerminal = 2
  Faults = {"build", "init", "late", "cleanup"}
  launcher = launcher
  linker = linker
  mover = mover
  Launcher = {launcher}
  Linker = {linker}
  Mover = {mover}
  Deleter = {mover}
  MaxSession = 1
  MaxLink = 2
  MaxEdit = 1
  MaxOther = 0
  ChallengeLimit = 1
  Failing = {"launch", "commit"}
  a = a
  b = b
  Run = {1, 2}
  Worker = {1}
  Requester = {a, b}
  NoCall = NoCall
  NoClaim = NoClaim
  InboxLimit = 1
  MaxChange = 1
  MaxId = 1
  MaxTree = 2
SYMMETRY Symmetry
INVARIANTS CoordinatorSafe WorkspaceSafe CoordinationSafe
PROPERTIES MovesOnlyShown ApprovalsRight
CHECK_DEADLOCK FALSE
