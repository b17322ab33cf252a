----------------------------- MODULE MCScreens -----------------------------
\* Small instances of what people see: the dashboard in a terminal, and the parts of
\* the desktop's window, each explored with the others at rest.
EXTENDS Integers, FiniteSets, TLC
CONSTANTS
  None, p1, p2
VARIABLES part,
  project, used, ui, changes,
  lay, saved, dirty, runtimes, linked, launches, closes, unwritten, disposed, done,
  backend, w, flows, taskcalls, rechecks, begun,
  run, opening, mem, journal, job, preview, files, wrote, open, onboarded, spent,
  live, life, assoc, trails, kept, claims, listed, reader, held, seen, changed,
  db, form, sent, stepno,
  rows, there, lease, grants, completed, host, wnd, op, due, acted,
  records, view, capture, owed,
  log, win, events, copied, typed,
  pane, shell, exits, early, popped, endedOut, ledger, windows, returns, unsettled,
  orders, refused, acts

\* Projects to report on: two plans and three tasks that depend on each other. The plan
\* at work is free, or it is held, waits or is not set; and some that are edited.
Edges == {E \in SUBSET {e \in (1..3) \X (1..3) : e[1] # e[2]} :
            Cardinality(E) <= 2 /\ \A e \in E : <<e[2], e[1]>> \notin E}
PlanOf(status, hold, deps, born) ==
  [status |-> status, held |-> hold, deps |-> deps, milestone |-> 1, born |-> born]
Issue(here, task) == [open |-> here, task |-> task]
ProjectOf(active, order, titled, first, second, place, status, holds, E, long) ==
  [active |-> active, order |-> order, titled |-> titled, plans |-> <<first, second>>,
   tasks |-> [t \in 1..3 |->
     [plan |-> IF t = 1 THEN place ELSE 2, status |-> status[t],
      held |-> t \in holds /\ status[t] # "done", deps |-> {e[2] : e \in {x \in E : x[1] = t}}]],
   issues |-> <<Issue(TRUE, 0), Issue(TRUE, 3), Issue(FALSE, 3), Issue(TRUE, 2)>>,
   notes |-> 2, long |-> long, stack |-> 1]
First == PlanOf("active", FALSE, {}, 1)
Status == {"todo", "doing", "blocked", "done"}
Free == {ProjectOf(2, o, titled, First, PlanOf("active", FALSE, {}, 2), at, s, holds, E, FALSE) :
  o \in {<<1, 2, 3>>, <<3, 1, 2>>}, titled \in {{}, {2}}, at \in {1, 2},
  s \in {x \in [1..3 -> Status] : x[1] # "doing"}, holds \in {{}, {1}, {3}}, E \in Edges}
Shut == {ProjectOf(a, <<1, 2, 3>>, {2}, f, n, 1, s, {3}, {<<3, 1>>}, TRUE) :
  a \in {0, 2}, f \in {First, [First EXCEPT !.status = "done"]},
  n \in {PlanOf("active", TRUE, {}, 2), PlanOf("active", FALSE, {1}, 2)},
  s \in {x \in [1..3 -> Status] : x[1] = "done"}}
Small == {ProjectOf(2, <<1, 2, 3>>, {2}, First, PlanOf("active", FALSE, {1}, 2), at, s, {}, E, FALSE) :
  at \in {1, 2}, s \in [1..3 -> {"todo", "blocked"}], E \in {{<<3, 1>>}, {<<3, 2>>}}}
Projects == Free \cup Shut \cup Small
Linkable == {[plan |-> 1, task |-> 1], [plan |-> 2, task |-> 3]}

Dash == INSTANCE Dashboard WITH
  MaxIds <- 3, MaxChanges <- 1, Columns <- <<"todo", "doing">>
dashboardvars ==
  <<project, used, ui, changes>>

Dock == INSTANCE DockLayout WITH
  MaxTabs <- 2, MaxPanes <- 3, MaxDepth <- 3, MaxDone <- 4
dockvars ==
  <<lay, saved, dirty, runtimes, linked, launches, closes, unwritten, disposed, done>>

Win == INSTANCE WorkspaceWindow WITH
  Overlap <- 1, MaxFlows <- 1, MaxRev <- 2, Kinds <- {"mutation", "move"}
windowvars ==
  <<backend, w, flows, taskcalls, rechecks, begun>>

Setup == INSTANCE ProjectSetup WITH
  MaxEdits <- 1, MaxPreviews <- 2, MaxFaults <- 1
setupvars ==
  <<run, opening, mem, journal, job, preview, files, wrote, open, onboarded, spent>>

Observer == INSTANCE AgentObserver WITH
  Runs <- {1, 2}, Changing <- {1}, Tasks <- {1, 2}, Retained <- 2, NotesPerRun <- 1,
  MaxChanges <- 2, events <- trails, linked <- listed
observervars ==
  <<live, life, assoc, trails, kept, claims, listed, reader, held, seen, changed>>

Steps == INSTANCE FirstSteps WITH
  Titles <- {"a", "b"}, MaxProjects <- 2, MaxEdits <- 1, MaxCalls <- 4
stepsvars ==
  <<db, form, sent, stepno>>

Recents == INSTANCE RecentProjects WITH
  Paths <- {"p", "q"}, MaxWrites <- 2, MaxOps <- 2, MaxMoves <- 1
recentsvars ==
  <<rows, there, lease, grants, completed, host, wnd, op, due, acted>>

Reports == INSTANCE ProjectReports WITH
  Starts <- Projects, Edited <- Small, Terminals <- Linkable, Listed <- 1, Recent <- 1,
  Room <- 14, PlanPage <- 1, TaskPage <- 2, project <- records, due <- owed
reportsvars ==
  <<records, view, capture, owed>>

Pad == INSTANCE ScratchpadSync WITH
  Note0 <- <<{0}>>, Windows <- {p1, p2}, MaxTyped <- 2, MaxNotes <- 3,
  Failing <- {"get", "set", "copy"}
scratchpadvars ==
  <<log, win, events, copied, typed>>

Panels == INSTANCE TerminalPanes WITH
  Panes <- {p1, p2}, MaxSessions <- 2, MaxActs <- 3, calls <- orders
panesvars ==
  <<pane, shell, exits, early, popped, endedOut, ledger, windows, returns, unsettled,
    orders, refused, acts>>

\* What the parts other than this one keep.
Others(here) ==
  /\ IF here = "dashboard" THEN TRUE ELSE UNCHANGED dashboardvars
  /\ IF here = "dock" THEN TRUE ELSE UNCHANGED dockvars
  /\ IF here = "window" THEN TRUE ELSE UNCHANGED windowvars
  /\ IF here = "setup" THEN TRUE ELSE UNCHANGED setupvars
  /\ IF here = "observer" THEN TRUE ELSE UNCHANGED observervars
  /\ IF here = "steps" THEN TRUE ELSE UNCHANGED stepsvars
  /\ IF here = "recents" THEN TRUE ELSE UNCHANGED recentsvars
  /\ IF here = "reports" THEN TRUE ELSE UNCHANGED reportsvars
  /\ IF here = "scratchpad" THEN TRUE ELSE UNCHANGED scratchpadvars
  /\ IF here = "panes" THEN TRUE ELSE UNCHANGED panesvars
everything ==
  <<part, dashboardvars, dockvars, windowvars, setupvars, observervars,
    stepsvars, recentsvars, reportsvars, scratchpadvars, panesvars>>

MCInit ==
  /\ part \in
       {"dashboard", "dock", "window", "setup", "observer", "steps", "recents",
        "reports", "scratchpad", "panes"}
  /\ IF part = "dashboard" THEN Dash!DashInit ELSE
       /\ project = None /\ used = None /\ ui = None /\ changes = None
  /\ IF part = "dock" THEN Dock!DockInit ELSE
       /\ lay = None /\ saved = None /\ dirty = None /\ runtimes = None /\ linked = None
       /\ launches = None /\ closes = None /\ unwritten = None /\ disposed = None
       /\ done = None
  /\ IF part = "window" THEN Win!WinInit ELSE
       /\ backend = None /\ w = None /\ flows = None /\ taskcalls = None
       /\ rechecks = None /\ begun = None
  /\ IF part = "setup" THEN Setup!SetupInit ELSE
       /\ run = None /\ opening = None /\ mem = None /\ journal = None /\ job = None
       /\ preview = None /\ files = None /\ wrote = None /\ open = None
       /\ onboarded = None /\ spent = None
  /\ IF part = "observer" THEN Observer!ObserverInit ELSE
       /\ live = None /\ life = None /\ assoc = None /\ trails = None /\ kept = None
       /\ claims = None /\ listed = None /\ reader = None /\ held = None /\ seen = None
       /\ changed = None
  /\ IF part = "steps" THEN Steps!FirstInit ELSE
       /\ db = None /\ form = None /\ sent = None /\ stepno = None
  /\ IF part = "recents" THEN Recents!RecentInit ELSE
       /\ rows = None /\ there = None /\ lease = None /\ grants = None
       /\ completed = None /\ host = None /\ wnd = None /\ op = None /\ due = None
       /\ acted = None
  /\ IF part = "reports" THEN Reports!ReportInit ELSE
       /\ records = None /\ view = None /\ capture = None /\ owed = None
  /\ Pad!PadInit
  /\ IF part = "panes" THEN Panels!PanesInit ELSE
       /\ pane = None /\ shell = None /\ exits = None /\ early = None /\ popped = None
       /\ endedOut = None /\ ledger = None /\ windows = None /\ returns = None
       /\ unsettled = None /\ orders = None /\ refused = None /\ acts = None
MCNext ==
  \/ part = "dashboard" /\ Dash!DashNext /\ Others(part) /\ UNCHANGED part
  \/ part = "dock" /\ Dock!DockNext /\ Others(part) /\ UNCHANGED part
  \/ part = "window" /\ Win!WinNext /\ Others(part) /\ UNCHANGED part
  \/ part = "setup" /\ Setup!SetupNext /\ Others(part) /\ UNCHANGED part
  \/ part = "observer" /\ Observer!ObserverNext /\ Others(part) /\ UNCHANGED part
  \/ part = "steps" /\ Steps!FirstNext /\ Others(part) /\ UNCHANGED part
  \/ part = "recents" /\ Recents!RecentNext /\ Others(part) /\ UNCHANGED part
  \/ part = "reports" /\ Reports!ReportNext /\ Others(part) /\ UNCHANGED part
  \/ part = "scratchpad" /\ Pad!PadNext /\ Others(part) /\ UNCHANGED part
  \/ part = "panes" /\ Panels!PanesNext /\ Others(part) /\ UNCHANGED part
MCSpec == MCInit /\ [][MCNext]_everything
Symmetry == Permutations({p1, p2})

\* The properties of each part. The dock's tabs and the panes in them.
PanesSafe ==
  /\ part = "dock" => Dock!DockSafe
  /\ part = "panes" => Panels!PanesSafe
WindowRight == part = "window" => Win!WindowRight
SetupSafe ==
  /\ part = "setup" => Setup!SetupSafe
  /\ part = "steps" => Steps!FirstStepsSafe
RecentsSafe == part = "recents" => Recents!RecentsSafe
ObserverRight == part = "observer" => Observer!ObserverRight
\* What the dashboard acts on, and what next, the digest, the rollups and the snapshot tell.
ViewsRight ==
  /\ part = "dashboard" => Dash!DashboardSafe
  /\ part = "reports" => Reports!ReportsRight
NextSkipsOpenDeps == part = "reports" => Reports!NextSkipsOpenDeps
CardsTellWaiting == part = "reports" => Reports!CardsTellWaiting
PromisesKept ==
  [][/\ part = "dashboard" => Dash!RunStays
     /\ part = "setup" => Setup!TextStays
     /\ part = "recents" => Recents!LeavesAsAgreed
     /\ part = "scratchpad" => Pad!GoesOn /\ Pad!SavedIsStored']_everything
=============================================================================
