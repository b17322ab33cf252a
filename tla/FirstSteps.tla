----------------------------- MODULE FirstSteps -----------------------------
(***************************************************************************)
(* The steps after the setup of a project: the window asks for the first    *)
(* plan and the first task, and may start the task at once                 *)
(* (workspace/first-plan.ts, first-plan-view.ts; create_first_plan,         *)
(* create_first_task and start_first_task of the store).  An answer may be  *)
(* lost after its change was made, so every step can be asked for again,    *)
(* while commands change the same project.                                  *)
(***************************************************************************)
EXTENDS Integers, FiniteSets

CONSTANTS
  None,
  Titles,      \* the titles that users and commands choose
  MaxProjects, \* bound: projects that the window sets up, one after another
  MaxEdits,    \* bound: changes that commands make
  MaxCalls     \* bound: calls of the window

VARIABLES
  db,     \* the open project: plans, tasks, the active plan, and what commands did to it
  form,   \* the window's step
  sent,   \* the calls under way
  stepno  \* projects, edits and calls so far

firstvars == <<db, form, sent, stepno>>

Idle == [phase |-> "idle", title |-> None, plan |-> 0, startNow |-> FALSE, task |-> 0,
         at |-> 0, refused |-> FALSE]
EmptyProject == [plans |-> {}, tasks |-> {}, active |-> 0, nextPlan |-> 1, nextTask |-> 1, touched |-> FALSE]

FirstInit ==
  /\ db = EmptyProject /\ form = [Idle EXCEPT !.phase = "plan"] /\ sent = {}
  /\ stepno = [projects |-> 1, edits |-> 0, calls |-> 0]
-----------------------------------------------------------------------------
(* The store *)

Only(S, r) == S = {r}

\* next_order_write: one after every record of the collection.
NextOrder(S) == CHOOSE n \in 0 .. Cardinality(S) + MaxEdits :
  /\ \A r \in S : r.order < n
  /\ n = 0 \/ \E r \in S : r.order = n - 1

\* Whether the only plan, or task, is the one the call would have made.
SamePlan(p, title) == p.order = 0 /\ ~p.done /\ p.title = title /\ db.active = p.id
FirstPlanOf(id) == {p \in db.plans : Only(db.plans, p) /\ p.id = id /\ p.order = 0 /\ ~p.done /\ db.active = id}
SameTask(t, c) == t.plan = c.plan /\ t.order = 0 /\ t.title = c.title /\ t.status \in {"todo", "doing"}

Refused == [kind |-> "refused", id |-> 0, at |-> 0, status |-> None]
Answer(r) == [kind |-> "ok", id |-> r.id, at |-> r.updated, status |-> r.status]

NewPlan(title, order, by) ==
  [id |-> db.nextPlan, title |-> title, order |-> order, done |-> FALSE, mine |-> TRUE, by |-> by,
   updated |-> 0, status |-> None]
NewTask(plan, title, order, by) ==
  [id |-> db.nextTask, plan |-> plan, title |-> title, order |-> order, by |-> by, status |-> "todo",
   created |-> stepno.edits, updated |-> stepno.edits]

\* A call is answered, at the latest when its project is no longer open.
Replies(c, reply) == sent' = (sent \ {c}) \cup {[c EXCEPT !.reply = reply]}

Waits(c, kind) == c.reply = None /\ c.kind = kind

CreateFirstPlan(c) ==
  /\ Waits(c, "plan") /\ c.cur
  /\ \/ /\ \E p \in db.plans : Only(db.plans, p) /\ SamePlan(p, c.title) /\ Replies(c, Answer(p))
        /\ UNCHANGED db
     \/ /\ db.plans # {} \/ db.active # 0
        /\ ~\E p \in db.plans : Only(db.plans, p) /\ SamePlan(p, c.title)
        /\ Replies(c, Refused) /\ UNCHANGED db
     \/ /\ db.plans = {} /\ db.active = 0
        /\ LET p == NewPlan(c.title, 0, "window") IN
           /\ db' = [db EXCEPT !.plans = {p}, !.active = p.id, !.nextPlan = @ + 1]
           /\ Replies(c, Answer(p))
  /\ UNCHANGED <<form, stepno>>

\* require_claim_access: somebody else may hold the plan.
CreateFirstTask(c) ==
  /\ Waits(c, "task") /\ c.cur
  /\ LET admitted == \E p \in FirstPlanOf(c.plan) : p.mine
         same == {t \in db.tasks : Only(db.tasks, t) /\ SameTask(t, c)} IN
     \/ /\ ~admitted \/ (db.tasks # {} /\ same = {})
        /\ Replies(c, Refused) /\ UNCHANGED db
     \/ /\ admitted
        /\ \E t \in same : Replies(c, Answer(t))
        /\ UNCHANGED db
     \/ /\ admitted /\ db.tasks = {}
        /\ LET t == NewTask(c.plan, c.title, 0, "window") IN
           /\ db' = [db EXCEPT !.tasks = {t}, !.nextTask = @ + 1]
           /\ Replies(c, Answer(t))
  /\ UNCHANGED <<form, stepno>>

\* A task at work answers a retry only as the task that was created.
Restarted(t, c) == t.status = "doing" /\ t.created = c.at
Startable(t, c) == t.status = "todo" /\ t.updated = c.at
Startees(c) ==
  {t \in db.tasks : Only(db.tasks, t) /\ t.id = c.task /\ t.order = 0 /\ \E p \in FirstPlanOf(t.plan) : p.mine}

StartFirstTask(c) ==
  /\ Waits(c, "start") /\ c.cur
  /\ \/ /\ \E t \in Startees(c) : Restarted(t, c) /\ Replies(c, Answer(t))
        /\ UNCHANGED db
     \/ \E t \in Startees(c) :
          LET u == [t EXCEPT !.status = "doing", !.updated = stepno.edits] IN
          /\ Startable(t, c)
          /\ db' = [db EXCEPT !.tasks = {u}] /\ Replies(c, Answer(u))
     \/ /\ \A t \in Startees(c) : ~Restarted(t, c) /\ ~Startable(t, c)
        /\ Replies(c, Refused) /\ UNCHANGED db
  /\ UNCHANGED <<form, stepno>>

\* The call fails before it changes anything (a session at work in the task
\* refuses a start), or its answer is lost.
Fails(c) ==
  /\ c.reply = None \/ (c.reply # None /\ c.reply.kind = "ok")
  /\ Replies(c, [Refused EXCEPT !.kind = "lost"])
  /\ UNCHANGED <<db, form, stepno>>
-----------------------------------------------------------------------------
(* Commands *)

Edit == stepno.edits < MaxEdits /\ stepno' = [stepno EXCEPT !.edits = @ + 1]
Change(S, r, s) == (S \ {r}) \cup {s}

AddPlan == \E title \in Titles, used \in BOOLEAN :
  LET p == NewPlan(title, NextOrder(db.plans), "command") IN
  db' = [db EXCEPT !.plans = @ \cup {p}, !.nextPlan = @ + 1, !.touched = TRUE,
                   !.active = IF used THEN p.id ELSE @]
EditPlan == \E p \in db.plans :
  \E q \in {[p EXCEPT !.done = ~@], [p EXCEPT !.mine = ~@]} \cup {[p EXCEPT !.title = x] : x \in Titles} :
    db' = [db EXCEPT !.plans = Change(@, p, q), !.touched = TRUE]
DeletePlan == \E p \in db.plans :
  db' = [db EXCEPT !.plans = @ \ {p}, !.tasks = {t \in @ : t.plan # p.id}, !.touched = TRUE,
                   !.active = IF @ = p.id THEN 0 ELSE @]
AddTask == \E p \in db.plans, title \in Titles :
  LET t == NewTask(p.id, title, NextOrder(db.tasks), "command") IN
  db' = [db EXCEPT !.tasks = @ \cup {t}, !.nextTask = @ + 1, !.touched = TRUE]
MoveTask == \E t \in db.tasks, status \in {"todo", "doing", "done"} :
  /\ status # t.status
  /\ db' = [db EXCEPT !.touched = TRUE,
             !.tasks = Change(@, t, [t EXCEPT !.status = status, !.updated = stepno.edits + 1])]

CommandsNext ==
  /\ Edit
  /\ AddPlan \/ EditPlan \/ DeletePlan \/ AddTask \/ MoveTask
  /\ UNCHANGED <<form, sent>>
-----------------------------------------------------------------------------
(* The window *)

Call(kind, f) ==
  /\ stepno.calls < MaxCalls /\ stepno' = [stepno EXCEPT !.calls = @ + 1]
  /\ sent' = sent \cup {[kind |-> kind, cur |-> TRUE, n |-> stepno.calls + 1, title |-> f.title,
                         plan |-> f.plan, task |-> f.task, at |-> f.at, reply |-> None]}

SubmitPlan ==
  /\ form.phase \in {"plan", "plan-failed"}
  /\ \E title \in Titles :
       LET f == [form EXCEPT !.phase = "creating-plan", !.title = title, !.refused = FALSE] IN
       form' = f /\ Call("plan", f)
  /\ UNCHANGED db

SubmitTask ==
  /\ form.phase \in {"task", "task-create-failed"}
  /\ \E title \in Titles, startNow \in BOOLEAN :
       LET f == [form EXCEPT !.phase = "creating-task", !.title = title, !.startNow = startNow,
                             !.refused = FALSE] IN
       form' = f /\ Call("task", f)
  /\ UNCHANGED db

RetryStart ==
  /\ form.phase = "task-start-failed"
  /\ LET f == [form EXCEPT !.phase = "starting-task", !.refused = FALSE] IN form' = f /\ Call("start", f)
  /\ UNCHANGED db

\* Skip, or finish with what is there; the window reads the board afterwards.
Finish ==
  /\ form.phase \in {"plan", "plan-failed", "task", "task-create-failed", "task-start-failed"}
  /\ form' = Idle /\ UNCHANGED <<db, sent, stepno>>

\* The window loses its project; another one is set up.
LeaveProject ==
  /\ stepno.projects < MaxProjects
  /\ stepno' = [stepno EXCEPT !.projects = @ + 1]
  /\ sent' = {[c EXCEPT !.cur = FALSE] : c \in sent}
  /\ db' = EmptyProject /\ form' = [Idle EXCEPT !.phase = "plan"]

\* The exact generation of a call that comes too late is refused.
TooLate(c) ==
  /\ c.reply = None /\ ~c.cur /\ Replies(c, Refused)
  /\ UNCHANGED <<db, form, stepno>>

PhaseOf(c) == CASE c.kind = "plan" -> "creating-plan" [] c.kind = "task" -> "creating-task"
                [] OTHER -> "starting-task"

\* Faulty variant: an answer counts for the step that waits for one.
ContextIsCurrentAnywhere(c) == form.phase = PhaseOf(c)
\* onboardingContextIsCurrent
ContextIsCurrent(c) == c.cur /\ form.phase = PhaseOf(c)

FailedPhase(c) == CASE c.kind = "plan" -> "plan-failed" [] c.kind = "task" -> "task-create-failed"
                    [] OTHER -> "task-start-failed"

PlanCreated(c) ==
  form' = [form EXCEPT !.phase = "task", !.plan = c.reply.id] /\ sent' = sent \ {c} /\ UNCHANGED stepno

\* A task that is to start is started with the timestamp of this answer.
TaskCreated(c) ==
  IF form.startNow /\ c.reply.status = "todo"
  THEN LET f == [form EXCEPT !.phase = "starting-task", !.task = c.reply.id, !.at = c.reply.at] IN
       /\ form' = f /\ stepno.calls < MaxCalls /\ stepno' = [stepno EXCEPT !.calls = @ + 1]
       /\ sent' = (sent \ {c}) \cup {[c EXCEPT !.kind = "start", !.n = stepno.calls + 1, !.task = f.task,
                                               !.at = f.at, !.reply = None]}
  ELSE form' = Idle /\ sent' = sent \ {c} /\ UNCHANGED stepno

Arrives(c) ==
  /\ c.reply # None
  /\ IF ~ContextIsCurrent(c) THEN sent' = sent \ {c} /\ UNCHANGED <<form, stepno>>
     ELSE IF c.reply.kind # "ok"
     THEN /\ form' = [form EXCEPT !.phase = FailedPhase(c), !.refused = c.reply.kind = "refused"]
          /\ sent' = sent \ {c} /\ UNCHANGED stepno
     ELSE CASE c.kind = "plan" -> PlanCreated(c)
            [] c.kind = "task" -> TaskCreated(c)
            [] OTHER -> form' = Idle /\ sent' = sent \ {c} /\ UNCHANGED stepno
  /\ UNCHANGED db

FirstNext ==
  \/ CommandsNext
  \/ SubmitPlan \/ SubmitTask \/ RetryStart \/ Finish \/ LeaveProject
  \/ \E c \in sent : \/ CreateFirstPlan(c) \/ CreateFirstTask(c) \/ StartFirstTask(c)
                     \/ Fails(c) \/ TooLate(c) \/ Arrives(c)

FirstSpec == FirstInit /\ [][FirstNext]_firstvars
-----------------------------------------------------------------------------
(* Properties *)

\* However often a step is asked for again, it made one plan and one task.
MadeOnce ==
  /\ Cardinality({p \in db.plans : p.by = "window"}) <= 1
  /\ Cardinality({t \in db.tasks : t.by = "window"}) <= 1

\* The step that the window is at rests on what this project has, unless a
\* command changed the project meanwhile.
StepStands ==
  ~db.touched =>
    /\ form.phase \in {"task", "creating-task", "task-create-failed", "starting-task", "task-start-failed"} =>
         \E p \in db.plans : p.id = form.plan /\ db.active = p.id
    /\ form.phase \in {"starting-task", "task-start-failed"} =>
         \E t \in db.tasks : t.id = form.task /\ t.plan = form.plan /\ t.title = form.title

\* A step that is asked for again is reconciled with what the lost answer was
\* about; it is refused only to a new title, or after a command.
RetrySettles ==
  ~db.touched /\ form.refused =>
    \/ form.phase = "plan-failed" /\ \E p \in db.plans : p.title # form.title
    \/ form.phase = "task-create-failed" /\ \E t \in db.tasks : t.title # form.title

FirstStepsSafe == MadeOnce /\ StepStands /\ RetrySettles
=============================================================================
