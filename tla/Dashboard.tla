------------------------------ MODULE Dashboard ------------------------------
(***************************************************************************)
(* The terminal dashboard: a loop that reads a key, changes its model of the *)
(* screen and applies at most one effect to the project.                     *)
(*                                                                         *)
(* The lists it shows are a snapshot that is read again after a change of    *)
(* its own and on request, while other programs add and delete.  What is     *)
(* selected in them is a position, except for agent runs, which are found    *)
(* again by their identity.  Milestones behave as issues do, handoffs as     *)
(* runs do; the maintenance page only scrolls.                               *)
(***************************************************************************)
EXTENDS Integers, Sequences, SequencesExt

CONSTANTS
  None,
  Columns,     \* the statuses of the board, in its order
  MaxIds,      \* bound: plans, tasks, issues and runs that ever exist, of each kind
  MaxChanges   \* bound: changes of what is stored, by the dashboard and by others

VARIABLES
  project,   \* what is stored: plans, tasks, issues and runs, in order
  used,      \* how many ids of each kind were given out
  ui,        \* the dashboard's model
  changes    \* how often what is stored was changed

dashvars == <<project, used, ui, changes>>

Tabs == <<"overview", "board", "issues", "agents">>
Clamp(i, seq) == IF seq = <<>> THEN 0 ELSE Min({i, Len(seq) - 1})
Up(i) == Max({i - 1, 0})
Down(i, seq) == Min({i + 1, Max({Len(seq) - 1, 0})})
At(seq, i) == IF i < Len(seq) THEN seq[i + 1] ELSE None
Ids(seq) == {seq[i].id : i \in DOMAIN seq}
Without(seq, id) == SelectSeq(seq, LAMBDA r : r.id # id)

CurrentPlan(m) == At(m.snap.plans, m.plan)
CurrentTasks(m) == SelectSeq(m.snap.tasks, LAMBDA t : CurrentPlan(m) # None /\ t.plan = CurrentPlan(m).id)
CurrentTask(m) == At(CurrentTasks(m), m.task)
BoardTasks(m, col) == SelectSeq(CurrentTasks(m), LAMBDA t : t.status = Columns[col + 1])
BoardTask(m) == At(BoardTasks(m, m.col), m.row)
CurrentIssue(m) == At(m.snap.issues, m.issue)

SelectedTask(m) ==
  CASE m.tab = "board" -> BoardTask(m)
    [] m.tab = "overview" /\ m.focus = "tasks" -> CurrentTask(m)
    [] OTHER -> None
Item(kind, record) == IF record = None THEN None ELSE [kind |-> kind, id |-> record.id]
\* What Enter opens, and what is renamed.
SelectedDetail(m) ==
  CASE m.tab = "issues" -> Item("issue", CurrentIssue(m))
    [] m.tab = "board" -> Item("task", BoardTask(m))
    [] m.tab = "overview" /\ m.focus = "tasks" /\ CurrentTask(m) # None -> Item("task", CurrentTask(m))
    [] m.tab = "overview" -> Item("plan", CurrentPlan(m))
    [] OTHER -> None

\* clamp_cursors.
ClampCursors(m) ==
  LET p == [m EXCEPT !.plan = Clamp(@, m.snap.plans)]
      t == [p EXCEPT !.task = Clamp(@, CurrentTasks(p)), !.issue = Clamp(@, p.snap.issues)] IN
  [t EXCEPT !.row = Clamp(@, BoardTasks(t, t.col))]
ReplaceSnapshot(m) == ClampCursors([m EXCEPT !.snap = project'])

Position(seq, run, i) ==
  IF run # None /\ run.id \in Ids(seq) THEN (CHOOSE k \in DOMAIN seq : seq[k].id = run.id) - 1 ELSE Clamp(i, seq)
RefreshAgents(m, runs) ==
  [m EXCEPT !.runs = runs, !.run = Position(runs, At(m.runs, m.run), m.run),
            !.runDetail = IF @ \in Ids(runs) THEN @ ELSE None]
\* Model::new on the active plan, at its place in the list (0 if it is in
\* none), with the runs read once, and the program when it ended.
Opened(shown, active) ==
  [snap |-> shown, tab |-> "overview", focus |-> "plans", plan |-> active, task |-> 0, col |-> 0, row |-> 0, issue |-> 0,
   runs |-> shown.runs, run |-> 0, runDetail |-> None, input |-> None, pending |-> 0, detail |-> None, search |-> None,
   welcome |-> TRUE, menu |-> FALSE, quit |-> FALSE]
Closed == [Opened([plans |-> <<>>, tasks |-> <<>>, issues |-> <<>>, runs |-> <<>>], 0) EXCEPT !.quit = TRUE]
-----------------------------------------------------------------------------
(* Effects *)

Keep == UNCHANGED <<project, used, changes>>
Shows(m) == ui' = m

\* Effect::Reload: neither the snapshot nor the runs can always be read.
Reload(m, reopen) == \E runs \in {project.runs, <<>>} :
  /\ Keep
  /\ LET r == RefreshAgents(m, runs)
         s == ReplaceSnapshot(r) IN
     \/ Shows(r)
     \/ Shows([s EXCEPT !.detail = IF reopen THEN SelectedDetail(s) ELSE @,
                        !.runDetail = IF reopen /\ m.runDetail \in Ids(project.runs) THEN m.runDetail ELSE @])

\* Effect::Mutate and Effect::Close: what is there is changed, then the
\* project is read again, or not.
Reread(m, col) ==
  \/ Shows(m)
  \/ Shows(ReplaceSnapshot(IF col = None THEN m ELSE [m EXCEPT !.col = col]))
Changed(is) == IF is THEN changes < MaxChanges /\ changes' = changes + 1 ELSE UNCHANGED changes
Mutate(m, col, p, u) ==
  \/ Keep /\ Shows(m)                                           \* refused
  \/ /\ Changed(p # project) /\ project' = p /\ used' = u
     /\ Reread(m, col)

SetStatus(id, status) == [project EXCEPT !.tasks =
  [i \in DOMAIN @ |-> IF @[i].id = id THEN [@[i] EXCEPT !.status = status] ELSE @[i]]]
MoveTask(id, plan) == [project EXCEPT !.tasks = [i \in DOMAIN @ |-> IF @[i].id = id THEN [@[i] EXCEPT !.plan = plan] ELSE @[i]]]
AddPlan == [project EXCEPT !.plans = Append(@, [id |-> used.plan + 1])]
AddTask(plan) == [project EXCEPT !.tasks = Append(@, [id |-> used.task + 1, plan |-> plan, status |-> Columns[1]])]
AddIssue == [project EXCEPT !.issues = Append(@, [id |-> used.issue + 1])]
Room(kind) == used[kind] < MaxIds
Count(kind) == [used EXCEPT ![kind] = @ + 1]
-----------------------------------------------------------------------------
(* Text input *)

StartInput(m, purpose, item) == [m EXCEPT !.input = [purpose |-> purpose, item |-> item], !.menu = FALSE]
\* start_rename, start_move and start_convert.
StartRename(m) == IF SelectedDetail(m) = None THEN m ELSE StartInput(m, "rename", SelectedDetail(m))
StartPendingCurrent(m, purpose) ==
  IF SelectedTask(m) = None THEN m
  ELSE StartInput([m EXCEPT !.pending = CurrentTask(m).id], purpose, Item("task", SelectedTask(m)))
StartPending(m, purpose) ==
  IF SelectedTask(m) = None THEN m
  ELSE StartInput([m EXCEPT !.pending = SelectedTask(m).id], purpose, Item("task", SelectedTask(m)))

Typing == ui.input # None /\ ~ui.welcome /\ ~ui.quit
Cancelled == [ui EXCEPT !.input = None, !.pending = IF ui.input.purpose \in {"move", "convert"} THEN 0 ELSE @]
CancelInput == Typing /\ Keep /\ Shows(Cancelled)

\* The item a prompt is answered for; its answer is not empty.
Target == CASE ui.input.purpose = "rename" -> SelectedDetail(ui)
            [] ui.input.purpose \in {"move", "convert"} -> [kind |-> "task", id |-> ui.pending]
            [] OTHER -> ui.input.item
\* commit_input.
CommitInput ==
  /\ Typing
  /\ LET done == [ui EXCEPT !.input = None]
         over == [done EXCEPT !.pending = 0] IN
     CASE ui.input.purpose \in {"meta", "note", "hold"} -> Mutate(done, None, project, used)
       [] ui.input.purpose = "rename" -> Target # None /\ Mutate(done, None, project, used)
       [] ui.input.purpose = "plan" -> Room("plan") /\ Mutate(done, None, AddPlan, Count("plan"))
       [] ui.input.purpose = "issue" -> Room("issue") /\ Mutate(done, None, AddIssue, Count("issue"))
       [] ui.input.purpose = "task" -> /\ CurrentPlan(ui) # None /\ Room("task")
                                       /\ CurrentPlan(ui).id \in Ids(project.plans)
                                       /\ Mutate(done, None, AddTask(CurrentPlan(ui).id), Count("task"))
       [] ui.input.purpose = "schedule" -> \E plan \in Ids(project.plans) :
            /\ Room("task") /\ ui.input.item.id \in Ids(project.issues) /\ Mutate(done, None, AddTask(plan), Count("task"))
       [] ui.input.purpose = "move" -> \E plan \in Ids(project.plans) : Mutate(over, None, MoveTask(Target.id, plan), used)
       [] ui.input.purpose = "convert" ->
            /\ Room("plan") /\ Target.id \in Ids(project.tasks)
            /\ Mutate(over, None, [AddPlan EXCEPT !.tasks = Without(@, Target.id)], Count("plan"))
       [] ui.input.purpose = "search" ->
            \E found \in {Item("plan", r) : r \in Range(ui.snap.plans)} \cup {Item("task", r) : r \in Range(ui.snap.tasks)}
                          \cup {Item("issue", r) : r \in Range(ui.snap.issues)} \cup {None} :
              Keep /\ Shows([done EXCEPT !.search = found])
 
-----------------------------------------------------------------------------
(* Keys *)

\* Where the keys go: the first of these that is open has them.
KeysGoTo == CASE ui.welcome -> "welcome" [] ui.input # None -> "input" [] ui.menu -> "menu" [] ui.search # None -> "search"
              [] ui.runDetail # None -> "run" [] ui.detail # None -> "detail" [] OTHER -> "normal"
At0(front) == ~ui.quit /\ KeysGoTo = front
To(m) == Keep /\ Shows(m)
AnyTab(m) == \E i \in DOMAIN Tabs : To([m EXCEPT !.tab = Tabs[i]])

Welcome ==
  /\ At0("welcome")
  /\ LET m == [ui EXCEPT !.welcome = FALSE] IN AnyTab(m) \/ To([m EXCEPT !.menu = TRUE])

Quit == ui.input = None /\ ~ui.quit /\ To(Closed)

Menu ==
  /\ At0("menu")
  /\ LET m == [ui EXCEPT !.menu = FALSE]
         closed == [m EXCEPT !.detail = None] IN
     \/ To(m) \/ AnyTab(closed)
     \/ To(StartInput(m, "meta", None)) \/ To(StartRename(m))
     \/ To(StartPending(closed, "move")) \/ To(StartPending(closed, "convert"))
     \/ Reload(m, ui.detail # None)
     \/ To(StartInput(closed, "search", None))

\* A hit is opened, or the list is left.
Search ==
  /\ At0("search")
  /\ LET m == [ui EXCEPT !.search = None] IN
     To(m) \/ To([m EXCEPT !.detail = ui.search]) \/ To(StartInput(m, "search", None))

RunDetail == At0("run") /\ (To([ui EXCEPT !.runDetail = None]) \/ Reload(ui, TRUE))

Detail ==
  /\ At0("detail")
  /\ LET closed == [ui EXCEPT !.detail = None] IN
     \/ To([ui EXCEPT !.menu = TRUE]) \/ To(closed) \/ Reload(ui, TRUE) \/ To(StartRename(ui))
     \/ To(StartPending(closed, "move")) \/ To(StartPending(closed, "convert"))

Normal ==
  /\ At0("normal")
  /\ \/ To([ui EXCEPT !.menu = TRUE]) \/ AnyTab(ui)
     \/ To(StartInput(ui, "meta", None)) \/ To(StartRename(ui)) \/ To(StartInput(ui, "search", None))
     \/ ui.tab = "agents" /\ At(ui.runs, ui.run) # None /\ At(ui.runs, ui.run).id \in Ids(project.runs)
          /\ To([ui EXCEPT !.runDetail = At(ui.runs, ui.run).id])
     \/ ui.tab # "agents" /\ To([ui EXCEPT !.detail = SelectedDetail(ui)])
     \/ Reload(ui, FALSE)

\* Status changes; done is a close that is recorded.
StatusOf(m, task, status, col) ==
  /\ task # None /\ IF task.id \in Ids(project.tasks) THEN Mutate(m, col, SetStatus(task.id, status), used) ELSE To(m)
Hold(task) == To(StartInput(ui, "hold", task)) \/ Mutate(ui, None, project, used)

Overview ==
  /\ At0("normal") /\ ui.tab = "overview"
  /\ \/ To([ui EXCEPT !.focus = IF @ = "plans" THEN "tasks" ELSE "plans"])
     \/ ui.focus = "plans" /\ \E i \in {Up(ui.plan), Down(ui.plan, ui.snap.plans)} : To([ui EXCEPT !.plan = i, !.task = 0])
     \/ ui.focus = "tasks" /\ \E i \in {Up(ui.task), Down(ui.task, CurrentTasks(ui))} : To([ui EXCEPT !.task = i])
     \/ To(StartInput(ui, IF ui.focus = "plans" THEN "plan" ELSE "task", None))
     \/ To(StartInput(ui, "note", None))
     \/ CurrentPlan(ui) # None /\ Mutate(ui, None, project, used)     \* made active, or done
     \/ \E i \in DOMAIN Columns : StatusOf(ui, CurrentTask(ui), Columns[i], None)
     \/ SelectedTask(ui) # None /\ Hold(Item("task", SelectedTask(ui)))
     \/ To(StartPending(ui, "move")) \/ To(StartPending(ui, "convert"))

Board ==
  /\ At0("normal") /\ ui.tab = "board"
  /\ \/ \E c \in {Up(ui.col), Down(ui.col, Columns)} : To([ui EXCEPT !.col = c, !.row = Clamp(@, BoardTasks(ui, c))])
     \/ \E i \in {Up(ui.row), Clamp(ui.row + 1, BoardTasks(ui, ui.col))} : To([ui EXCEPT !.row = i])
     \/ \E c \in {ui.col - 1, ui.col + 1} \cap (0 .. Len(Columns) - 1) : StatusOf(ui, BoardTask(ui), Columns[c + 1], c)
     \/ CurrentPlan(ui) # None /\ To(StartInput(ui, "task", None))
     \/ BoardTask(ui) # None /\ To(StartInput(ui, "note", None))
     \/ SelectedTask(ui) # None /\ Hold(Item("task", SelectedTask(ui)))
     \/ To(StartPending(ui, "move")) \/ To(StartPending(ui, "convert"))

Issues ==
  /\ At0("normal") /\ ui.tab = "issues"
  /\ \/ \E i \in {Up(ui.issue), Down(ui.issue, ui.snap.issues)} : To([ui EXCEPT !.issue = i])
     \/ To(StartInput(ui, "issue", None))
     \/ CurrentIssue(ui) # None /\ Mutate(ui, None, project, used)    \* status, severity
     \/ CurrentIssue(ui) # None /\ To(StartInput(ui, "schedule", Item("issue", CurrentIssue(ui))))

Agents ==
  /\ At0("normal") /\ ui.tab = "agents"
  /\ \E i \in {Up(ui.run), Down(ui.run, ui.runs)} : To([ui EXCEPT !.run = i])
-----------------------------------------------------------------------------
\* Other programs add and delete; newer runs come first.
Other ==
  /\ Changed(TRUE) /\ UNCHANGED ui
  /\ \/ \E id \in Ids(project.plans) : /\ project' = [project EXCEPT !.plans = Without(@, id), !.tasks = SelectSeq(@, LAMBDA t : t.plan # id)]
                                       /\ UNCHANGED used
     \/ \E id \in Ids(project.tasks) : project' = [project EXCEPT !.tasks = Without(@, id)] /\ UNCHANGED used
     \/ \E id \in Ids(project.issues) : project' = [project EXCEPT !.issues = Without(@, id)] /\ UNCHANGED used
     \/ \E id \in Ids(project.runs) : project' = [project EXCEPT !.runs = Without(@, id)] /\ UNCHANGED used
     \/ Room("run") /\ project' = [project EXCEPT !.runs = <<[id |-> used.run + 1]>> \o @] /\ used' = Count("run")

\* A project with two plans, either of them active, and the welcome screen.
DashInit ==
  /\ project = [plans |-> <<[id |-> 1], [id |-> 2]>>, issues |-> <<[id |-> 1]>>, runs |-> <<[id |-> 1]>>,
                tasks |-> <<[id |-> 1, plan |-> 1, status |-> Columns[1]], [id |-> 2, plan |-> 1, status |-> Columns[1]]>>]
  /\ used = [plan |-> 2, task |-> 2, issue |-> 1, run |-> 1]
  /\ \E active \in 0..1 : ui = Opened(project, active)
  /\ changes = 0
DashNext == \/ Welcome \/ Quit \/ CancelInput \/ CommitInput \/ Menu \/ Search \/ RunDetail \/ Detail \/ Normal
            \/ Overview \/ Board \/ Issues \/ Agents \/ Other

-----------------------------------------------------------------------------
\* A list that shows anything has something selected, whatever other programs
\* delete.  (The board is brought in order when it is used, not when another
\* plan is chosen.)
SomethingSelected ==
  /\ ui.snap.plans # <<>> => CurrentPlan(ui) # None
  /\ CurrentTasks(ui) # <<>> => CurrentTask(ui) # None
  /\ ui.snap.issues # <<>> => CurrentIssue(ui) # None
  /\ ui.runs # <<>> => At(ui.runs, ui.run) # None

\* A prompt is answered for the item it was opened for.
AnsweredAsAsked == ui.input # None /\ ui.input.item # None => Target = ui.input.item

\* The run that is selected stays selected when the list is read again and
\* still has it.
RunStays ==
  ui.runs # ui'.runs /\ At(ui.runs, ui.run) # None /\ At(ui.runs, ui.run).id \in Ids(ui'.runs)
    => At(ui'.runs, ui'.run).id = At(ui.runs, ui.run).id
RunKept == [][RunStays]_dashvars

\* Whatever other programs delete meanwhile, there is a selection to act on, and
\* what is typed goes to the item for which the prompt was opened.
DashboardSafe == SomethingSelected /\ AnsweredAsAsked

\* What is begun where the detail of an item is shown is about that item.
ActsOnShown == ui.input # None /\ ui.input.purpose = "rename" /\ ui.detail # None => ui.input.item = ui.detail
=============================================================================
