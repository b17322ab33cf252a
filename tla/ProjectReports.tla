---------------------------- MODULE ProjectReports ----------------------------
(***************************************************************************)
(* What ptrack tells of a project: the digest an agent starts from, the    *)
(* task it is handed next, the board, the rollup of a milestone, and the   *)
(* desktop's bounded snapshot. Each is computed from what one session of   *)
(* the store reads; the desktop's takes two, and the project may change    *)
(* between them.                                                           *)
(*                                                                         *)
(* A project is a record: its plans and its tasks by id, the tasks in the  *)
(* order they are shown in, its issues, and how many notes and discovered  *)
(* stack projects it has. Titles, bodies and times are left out. A task is *)
(* older than a plan when its id is below the first one given after the    *)
(* plan was made (born). A digest is as long as the lines it prints.       *)
(***************************************************************************)
EXTENDS Integers, SequencesExt

CONSTANTS
  Starts,    \* the projects a behaviour begins with
  Edited,    \* those that are edited while they are read
  Terminals, \* the plan and the task each live terminal names
  Listed,    \* CONTEXT_LIST_SHOWN, CONTEXT_ISSUES_SHOWN
  Recent,    \* CONTEXT_RECENT_NOTES
  Room,      \* MAX_CONTEXT_DIGEST_BYTES, in lines
  PlanPage,  \* SNAPSHOT_PLAN_LIMIT
  TaskPage   \* SNAPSHOT_TASK_LIMIT

VARIABLES
  project, \* the store's records
  view,    \* the last answer a reader holds
  capture, \* what the desktop's snapshot has read so far
  due      \* whether somebody else is still to edit the project
reportVars == <<project, view, capture, due>>

Nothing == [kind |-> "nothing"]
TaskStatus == {"todo", "doing", "blocked", "done"}

\* Whether a value is longer than the digest takes: it is cut, and the digest says so.
HasLong(p) == p.long

TasksOf(p, n) == SelectSeq(p.order, LAMBDA t : p.tasks[t].plan = n)
OpenIssues(p) == {i \in DOMAIN p.issues : p.issues[i].open}

\* A dependency whose record the snapshot does not hold counts as satisfied.
OpenTaskDeps(p, t) ==
  {d \in p.tasks[t].deps \cap DOMAIN p.tasks : p.tasks[d].status # "done"}
OpenPlanDeps(p, n) ==
  {d \in p.plans[n].deps \cap DOMAIN p.plans : p.plans[d].status # "done"}

-----------------------------------------------------------------------------
(* The next task. *)

\* The unheld tasks of the active plan that are in this status and wait on nothing.
Ready(p, status) ==
  SelectSeq(TasksOf(p, p.active), LAMBDA t :
    p.tasks[t].status = status /\ ~p.tasks[t].held /\ OpenTaskDeps(p, t) = {})
Waiting(p) ==
  {t \in Range(TasksOf(p, p.active)) :
    /\ p.tasks[t].status \in {"todo", "doing"} /\ ~p.tasks[t].held
    /\ OpenTaskDeps(p, t) # {}}

\* The first task under way, else the first to do.
CoreNext(p) ==
  LET pick == Ready(p, "doing") \o Ready(p, "todo")
      none(why) == [kind |-> "next", task |-> 0, why |-> why,
                    skipped |-> {}, issues |-> {}]
  IN CASE p.active \notin DOMAIN p.plans -> none("no plan")
       [] p.plans[p.active].held -> none("on hold")
       [] OpenPlanDeps(p, p.active) # {} -> none("waits")
       [] pick = <<>> -> [none("nothing to do") EXCEPT !.skipped = Waiting(p)]
       [] OTHER -> [kind |-> "next", task |-> Head(pick), why |-> "",
                    skipped |-> Waiting(p),
                    issues |-> {i \in OpenIssues(p) : p.issues[i].task = Head(pick)}]

\* The task that plan add appended: the first of the plan's tasks made after it, as long
\* as its title is the one it was given.
IntegrationTask(p, n) ==
  LET own == {t \in Range(TasksOf(p, n)) : t >= p.plans[n].born}
  IN IF own # {} /\ Min(own) \in p.titled THEN Min(own) ELSE 0

Without(p, t) ==
  [p EXCEPT !.tasks = Restrict(@, DOMAIN @ \ {t}), !.order = Remove(@, t)]

\* Faulty variant: it waits for held work too, which may stay held.
DeferredByHeld(p) ==
  LET own == IF p.active \in DOMAIN p.plans THEN IntegrationTask(p, p.active) ELSE 0
  IN /\ own # 0 /\ p.tasks[own].status = "todo"
     /\ \E t \in Range(TasksOf(p, p.active)) \ {own} : p.tasks[t].status \in {"todo", "doing"}
\* The integration task waits until it is the only unheld work left.
Deferred(p) ==
  LET own == IF p.active \in DOMAIN p.plans THEN IntegrationTask(p, p.active) ELSE 0
  IN /\ own # 0 /\ p.tasks[own].status = "todo"
     /\ \E t \in Range(TasksOf(p, p.active)) \ {own} :
          p.tasks[t].status \in {"todo", "doing"} /\ ~p.tasks[t].held
NextTask(p) ==
  CoreNext(IF Deferred(p) THEN Without(p, IntegrationTask(p, p.active)) ELSE p)

-----------------------------------------------------------------------------
(* The digest an agent starts from. *)

\* The lists the digest may shorten, the least important first.
Lists == <<"pick", "notes", "scheduled", "unscheduled", "waiting", "held", "blocked",
           "stack">>
\* Those and the open issues, which only the JSON form of the digest has.
Kept == Range(Lists) \cup {"issues"}

PlanAt(p) == p.active \in DOMAIN p.plans
ClosedPlan(p) == p.plans[p.active].held \/ OpenPlanDeps(p, p.active) # {}

\* All that belongs in a list of the digest, in the order it is shown in.
Bucket(p, list) ==
  LET open(Keep(_)) ==
        SelectSeq(p.order, LAMBDA t : p.tasks[t].status # "done" /\ ~p.tasks[t].held /\ Keep(t))
      issues(Keep(_)) == SetToSortSeq({i \in OpenIssues(p) : Keep(i)}, <)
  IN CASE list = "pick" -> IF ~PlanAt(p) \/ ClosedPlan(p) THEN <<>>
                           ELSE open(LAMBDA t : p.tasks[t].plan = p.active)
       [] list = "notes" -> Reverse([i \in 1..p.notes |-> i])
       [] list = "issues" -> issues(LAMBDA i : TRUE)
       [] list = "scheduled" -> issues(LAMBDA i : p.issues[i].task # 0)
       [] list = "unscheduled" -> issues(LAMBDA i : p.issues[i].task = 0)
       [] list = "waiting" -> open(LAMBDA t : OpenTaskDeps(p, t) # {})
       [] list = "held" -> SelectSeq(p.order, LAMBDA t : p.tasks[t].held)
       [] list = "blocked" -> open(LAMBDA t : p.tasks[t].status = "blocked")
       [] list = "stack" -> [i \in 1..p.stack |-> i]

Least(a, b) == IF a < b THEN a ELSE b
Cap(list, n) ==
  CASE list = "notes" -> Least(n, Recent)
    [] list \in {"pick", "stack"} -> n
    [] OTHER -> Least(n, Listed)

\* The digest before it is made to fit. A value that was too long is cut and says so.
Unfitted(p) ==
  [plan |-> IF PlanAt(p) THEN p.active ELSE 0,
   closed |-> PlanAt(p) /\ ClosedPlan(p),
   lists |-> [list \in Kept |->
     LET all == Bucket(p, list) IN SubSeq(all, 1, Cap(list, Len(all)))],
   more |-> [list \in Kept |->
     LET n == Len(Bucket(p, list)) IN n - Cap(list, n)],
   truncated |-> HasLong(p)]

\* The lines of the digest. A section whose list is empty is not printed.
Section(d, list) ==
  LET n == Len(d.lists[list])
  IN IF n = 0 THEN 0 ELSE 1 + n + (IF d.more[list] > 0 THEN 1 ELSE 0)
PlanLines(d) ==
  CASE d.plan = 0 -> 1
    [] d.closed \/ d.lists["pick"] = <<>> -> 2
    [] OTHER -> Section(d, "pick")
NoteLines(d) ==
  LET n == Len(d.lists["notes"]) IN
  IF n = 0 /\ d.more["notes"] = 0 THEN 2 ELSE 1 + n + (IF d.more["notes"] > 0 THEN 1 ELSE 0)
StackLines(d) ==
  LET n == Len(d.lists["stack"]) IN
  IF n = 0 /\ d.more["stack"] = 0 THEN 0 ELSE 1 + n + (IF d.more["stack"] > 0 THEN 1 ELSE 0)
Lines(d) ==
  (IF d.truncated THEN 1 ELSE 0) + PlanLines(d) + NoteLines(d) + StackLines(d)
    + FoldLeft(LAMBDA sum, list : sum + Section(d, list), 0, SubSeq(Lists, 3, 7))

\* Entries leave from the end of the lists, one list after the other, until as many
\* lines are gone as were too many; each is counted among those held back.
Drained(d, excess) ==
  FoldLeft(LAMBDA acc, list :
    LET here == acc.d.lists[list]  gone == Least(acc.left, Len(here))
    IN [d |-> [acc.d EXCEPT !.lists[list] = SubSeq(here, 1, Len(here) - gone),
                            !.more[list] = @ + gone],
        left |-> acc.left - gone],
    [d |-> d, left |-> excess], Lists).d
RECURSIVE Fitted(_)
Fitted(d) ==
  IF Lines(d) <= Room THEN d
  ELSE LET cut == [d EXCEPT !.truncated = TRUE]
           shorter == Drained(cut, Lines(d) - Room)
       IN IF shorter = cut THEN cut ELSE Fitted(shorter)
Context(p) == Fitted(Unfitted(p))

-----------------------------------------------------------------------------
(* The board, the rollups and the counts. *)

BoardFor(p, n) ==
  [status \in TaskStatus |-> SelectSeq(TasksOf(p, n), LAMBDA t : p.tasks[t].status = status)]

Number(S) == Cardinality(S)
Done(p, S) == {t \in S : p.tasks[t].status = "done"}
Counts(p) ==
  LET all == DOMAIN p.tasks IN
  [plans |-> Number(DOMAIN p.plans),
   plansDone |-> Number({n \in DOMAIN p.plans : p.plans[n].status = "done"}),
   tasks |-> Number(all), tasksDone |-> Number(Done(p, all)),
   tasksOpen |-> Number(all \ Done(p, all)),
   blocked |-> Number({t \in all : p.tasks[t].status = "blocked"}),
   held |-> Number({t \in all : p.tasks[t].held}),
   issuesOpen |-> Number(OpenIssues(p)), notes |-> p.notes]

\* What milestone show sums up over the plans of the milestone.
ShowMilestone(p, m) ==
  LET plans == {n \in DOMAIN p.plans : p.plans[n].milestone = m}
      tasks == UNION {Range(TasksOf(p, n)) : n \in plans}
  IN [plans |-> plans, done |-> Number(Done(p, tasks)),
      open |-> Number(tasks \ Done(p, tasks))]

\* What is printed when a plan is closed.
Checkpoint(p, n) ==
  [open |-> {m \in DOMAIN p.plans : p.plans[m].status = "active"},
   issues |-> Number(OpenIssues(p)),
   milestone |->
     IF n \notin DOMAIN p.plans \/ p.plans[n].milestone = 0 THEN Nothing
     ELSE LET plans == ShowMilestone(p, p.plans[n].milestone).plans
          IN [total |-> Number(plans),
              done |-> Number({m \in plans : p.plans[m].status = "done"})]]

-----------------------------------------------------------------------------
(* The desktop's snapshot. *)

\* The first of a set of ids, and how many there are in all.
Bounded(S, limit) ==
  [items |-> SubSeq(SetToSortSeq(S, <), 1, Least(limit, Number(S))), total |-> Number(S),
   more |-> IF Number(S) > limit THEN Number(S) - limit ELSE 0]

\* The part of a project that one session reads for the plan n (0 for none): a page of
\* the plans, and n if it is not among them, and a page of the tasks of n.
PagesOf(p, n) ==
  LET plans == Bounded(DOMAIN p.plans, PlanPage)
      tasks == Bounded(Range(TasksOf(p, n)), TaskPage)
      read == Range(tasks.items)
  IN [plans |-> plans, tasks |-> tasks,
      part |-> [p EXCEPT
        !.plans = Restrict(@, (Range(plans.items) \cup {n}) \cap DOMAIN @),
        !.tasks = Restrict(@, read), !.order = SelectSeq(@, LAMBDA t : t \in read)]]

PlanProgress(p, m) ==
  [total |-> Len(TasksOf(p, m)), done |-> Number(Done(p, Range(TasksOf(p, m))))]
OpenIssuesOn(p, t) == Number({i \in OpenIssues(p) : p.issues[i].task = t})

\* The board of the part: its cards with what they wait on, and the plans. What is not in
\* the part counts as done.
BoardView(part, n) ==
  [columns |-> BoardFor(part, n),
   waits |-> [t \in DOMAIN part.tasks |-> OpenTaskDeps(part, t)],
   planWaits |-> [m \in DOMAIN part.plans |-> OpenPlanDeps(part, m)]]
\* A card of the blocked tasks of the whole project, which may be in no page.
BlockerWaits(part, p, t) ==
  {d \in p.tasks[t].deps \cap DOMAIN part.tasks : part.tasks[d].status # "done"}

\* The selected plan is listed, if need be in place of the last of the page.
Tracking(p, n) ==
  LET pages == PagesOf(p, n)
      listed == pages.plans.items
      blocked == Bounded({t \in DOMAIN p.tasks : p.tasks[t].status = "blocked"}, TaskPage)
      board == BoardView(pages.part, n)
  IN [kind |-> "tracking", plan |-> n,
      plans |-> IF n = 0 \/ n \in Range(listed) THEN listed ELSE Append(Front(listed), n),
      plansMore |-> pages.plans.more,
      progress |-> [m \in DOMAIN pages.part.plans |-> PlanProgress(p, m)],
      columns |-> board.columns, tasksMore |-> pages.tasks.more, blocked |-> blocked,
      waits |-> [t \in DOMAIN board.waits \cup Range(blocked.items) |->
        IF t \in DOMAIN board.waits THEN board.waits[t] ELSE BlockerWaits(pages.part, p, t)],
      planWaits |-> board.planWaits,
      issues |-> [t \in DOMAIN board.waits |-> OpenIssuesOn(p, t)],
      stats |-> Counts(p), of |-> p]

\* A terminal is linked to a task as long as the task is in the plan it was linked in.
Linked(p) ==
  {s \in Terminals : s.task \in DOMAIN p.tasks /\ p.tasks[s.task].plan = s.plan}
\* The terminals that a card counts.
LinkedOn(linked, t) == {s \in linked : s.task = t}

-----------------------------------------------------------------------------
(* Readers and writers. *)

Ask == view' = NextTask(project) /\ UNCHANGED <<project, capture, due>>

\* task start: refused while another task is under way and not held.
UnderWay(p, except) ==
  {t \in DOMAIN p.tasks \ {except} : p.tasks[t].status = "doing" /\ ~p.tasks[t].held}
Start ==
  /\ view.kind = "next" /\ view.task # 0
  /\ IF UnderWay(project, view.task) # {}
     THEN /\ view' = [kind |-> "refused", task |-> view.task]
          /\ UNCHANGED project
     ELSE /\ project' = [project EXCEPT !.tasks[view.task].status = "doing"]
          /\ view' = Nothing
  /\ UNCHANGED <<capture, due>>

Complete ==
  /\ view.kind = "next" /\ view.task # 0
  /\ project.tasks[view.task].status = "doing"
  /\ project' = [project EXCEPT !.tasks[view.task].status = "done"]
  /\ view' = Nothing /\ UNCHANGED <<capture, due>>

\* GetWorkspaceSnapshot: the records first, then git and the agents, then the terminals
\* in another session. It fails when the deadline passes. (Only the projects that are
\* edited are captured, a bound.)
Capture ==
  \E n \in DOMAIN project.plans \cup {0} :
    /\ project \in Edited \/ ~due
    /\ capture = Nothing /\ capture' = Tracking(project, n)
    /\ UNCHANGED <<project, view, due>>
Deliver ==
  /\ capture # Nothing
  /\ view' = [kind |-> "desktop", tracking |-> capture,
              linked |-> [t \in DOMAIN capture.issues |-> LinkedOn(Linked(project), t)]]
  /\ capture' = Nothing /\ UNCHANGED <<project, due>>
Expire ==
  /\ capture # Nothing
  /\ view' = Nothing /\ capture' = Nothing /\ UNCHANGED <<project, due>>

\* Somebody else moves a task to another plan, holds it or changes its status.
Edit ==
  /\ due /\ project \in Edited
  /\ due' = FALSE /\ view' = Nothing /\ UNCHANGED capture
  /\ \E t \in DOMAIN project.tasks :
       \/ \E n \in DOMAIN project.plans :
            /\ project.tasks[t].status = "done" \/ project.plans[n].status = "active"
            /\ project' = [project EXCEPT !.tasks[t].plan = n]
       \/ /\ project.tasks[t].status # "done"
          /\ project' = [project EXCEPT !.tasks[t].held = ~@]
       \/ \E status \in TaskStatus :
            project' = [project EXCEPT !.tasks[t].status = status,
                                       !.tasks[t].held = @ /\ status # "done"]

ReportInit ==
  /\ project \in Starts /\ view = Nothing /\ capture = Nothing /\ due = TRUE
ReportNext == Ask \/ Start \/ Complete \/ Capture \/ Deliver \/ Expire \/ Edit
ReportSpec == ReportInit /\ [][ReportNext]_reportVars

-----------------------------------------------------------------------------
(* Properties. *)

\* Why a task cannot go on: it, or something that must be done before it, is held,
\* blocked or not in the active plan.
Before(p, t) ==
  FoldLeft(LAMBDA S, x : S \cup UNION {OpenTaskDeps(p, s) : s \in S}, {t}, p.order)
Stuck(p, t) ==
  \E s \in Before(p, t) :
    \/ p.tasks[s].held \/ p.tasks[s].status = "blocked" \/ p.tasks[s].plan # p.active

\* The task that next hands out is work of the active plan that may be picked up. It waits
\* for nothing but the integration task that was set aside (next_task); no task under way
\* is passed over for one that is not; and the integration task comes when nothing else is
\* left. When nothing is handed out of an open plan, whatever is left to do has a cause
\* to wait for, except the integration task, which waits for the rest.
NextIsRight ==
  view.kind = "next" =>
    LET p == project  t == view.task
        own == IF PlanAt(p) THEN IntegrationTask(p, p.active) ELSE 0
        left == {x \in DOMAIN p.tasks : /\ p.tasks[x].plan = p.active /\ ~p.tasks[x].held
                                        /\ p.tasks[x].status \in {"todo", "doing"}}
    IN /\ t # 0 => /\ t \in left /\ ~ClosedPlan(p)
                   /\ OpenTaskDeps(p, t) \subseteq {own}
                   /\ p.tasks[t].status = "todo" =>
                        /\ \A x \in left : p.tasks[x].status = "doing" => Stuck(p, x)
                             \/ OpenTaskDeps(p, x) # {}
                        /\ t = own => left = {own}
       /\ view.why = "nothing to do" =>
            \A x \in left : Stuck(p, x) \/ (x = own /\ left # {own})
       /\ \A x \in view.skipped : x \in left /\ OpenTaskDeps(p, x) # {}

\* task start refuses a task to do that next offered only on account of work under way
\* that is in another plan or that next itself passed over, for it waits on a dependency.
RefusedForCause ==
  view.kind = "refused" /\ project.tasks[view.task].status # "doing" =>
    \E t \in UnderWay(project, view.task) :
      project.tasks[t].plan # project.active \/ OpenTaskDeps(project, t) # {}

\* The digest drops nothing in silence: every list shows the first of what belongs in it
\* and counts the rest, a digest that does not say it was cut is complete up to the caps,
\* and one that still does not fit has nothing left to drop. What it offers to pick up
\* agrees with next.
DigestAccounts ==
  LET d == Context(project)  p == project IN
  /\ \A list \in Kept :
       /\ IsPrefix(d.lists[list], Bucket(p, list))
       /\ Len(d.lists[list]) + d.more[list] = Len(Bucket(p, list))
  /\ ~d.truncated => d = Unfitted(p)
  /\ Lines(d) <= Room \/ \A list \in Range(Lists) : d.lists[list] = <<>>
  /\ Range(Bucket(p, "held")) \cap UNION {Range(Bucket(p, b)) : b \in {"pick", "waiting", "blocked"}} = {}
  /\ view.kind = "next" /\ view.task # 0 => view.task \in Range(Bucket(p, "pick"))
  /\ view.kind = "next" => (d.closed <=> view.why \in {"on hold", "waits"})

\* The board, the milestone, the checkpoint and the inventory count the same tasks.
RollupsAgree ==
  LET p == project  c == Counts(p)
      size(n, S) == Cardinality(UNION {Range(BoardFor(p, n)[s]) : s \in S})
      sum(plans, S) == FoldSet(LAMBDA n, acc : acc + size(n, S), 0, plans)
      all == DOMAIN p.plans
  IN /\ sum(all, TaskStatus) = c.tasks /\ sum(all, {"done"}) = c.tasksDone
     /\ sum(all, {"blocked"}) = c.blocked /\ c.tasksOpen = c.tasks - c.tasksDone
     /\ \A n \in all :
          LET m == ShowMilestone(p, p.plans[n].milestone)  k == Checkpoint(p, n) IN
          /\ m.done = sum(m.plans, {"done"}) /\ m.done + m.open = sum(m.plans, TaskStatus)
          /\ k.milestone # Nothing =>
               k.milestone.total - k.milestone.done = Cardinality(m.plans \cap k.open)

\* The desktop's snapshot stays within its pages and says how much they leave out; it
\* lists the selected plan; no card waits on what is done, and one whose dependencies are
\* all on the page waits on all of them; and a terminal is counted on the card of its own
\* task, which was in the terminal's plan when the terminals were read.
SnapshotIsRight ==
  view.kind = "desktop" =>
    LET k == view.tracking  p == k.of
        shown == UNION {Range(k.columns[s]) : s \in TaskStatus}
    IN /\ Len(k.plans) <= PlanPage /\ k.plan \in Range(k.plans) \cup {0}
       /\ Len(k.plans) + k.plansMore = k.stats.plans
       /\ Cardinality(shown) <= TaskPage
       /\ Cardinality(shown) + k.tasksMore =
            (IF k.plan = 0 THEN 0 ELSE k.progress[k.plan].total)
       /\ Len(k.blocked.items) + k.blocked.more = k.stats.blocked
       /\ \A m \in Range(k.plans) : k.progress[m].done <= k.progress[m].total
       /\ \A t \in DOMAIN k.waits :
            /\ k.waits[t] \subseteq OpenTaskDeps(p, t)
            /\ p.tasks[t].deps \subseteq shown => k.waits[t] = OpenTaskDeps(p, t)
       /\ \A t \in shown : \A s \in view.linked[t] :
            project.tasks[t].plan = s.plan /\ (due => s.plan = k.plan)

ReportsRight ==
  NextIsRight /\ RefusedForCause /\ DigestAccounts /\ RollupsAgree /\ SnapshotIsRight

\* README.md:165 says that next skips work with open dependencies.
NextSkipsOpenDeps ==
  view.kind = "next" /\ view.task # 0 => OpenTaskDeps(project, view.task) = {}
\* CHANGELOG.md:809 says that the desktop marks the cards that wait on open dependencies.
CardsTellWaiting ==
  view.kind = "desktop" =>
    \A t \in DOMAIN view.tracking.waits :
      OpenTaskDeps(view.tracking.of, t) # {} => view.tracking.waits[t] # {}

=============================================================================
