------------------------------ MODULE WorkGates ------------------------------
(***************************************************************************)
(* The commands people and agents run on a project, and the gates in them: *)
(* `task start', `task add' and `plan add' (one task in progress), `task   *)
(* done' (evidence), `plan done' (no open tasks), the dashboard's closes,  *)
(* and `commit record'.                                                    *)
(*                                                                         *)
(* A command opens the store once to look, closes it, and opens it again   *)
(* for each transaction it makes; between two of its sessions any other    *)
(* process may run.  A session that makes one transaction is one step,     *)
(* since the exclusive lock keeps everybody else out: it is an action of   *)
(* ProjectStore under the identity of the process.                         *)
(***************************************************************************)
EXTENDS Integers, FiniteSets

CONSTANTS
  Proc,           \* the processes: terminals, agents, the dashboard
  Identity,       \* the identity each is configured with, or NoActor
  Commands,       \* the commands they run
  Actor, NoActor, Closed, Callers, Reason, NoReason, Sha, PlanStatusIn, TaskStatusIn,
  MaxPlan, MaxTask, MaxNote, MaxIssue, MaxMilestone, MaxEpoch, MaxDeps

VARIABLES
  plan, task, note, issue, commit, seq, active, actives, actors,  \* the store
  editor,    \* task id -> who changed it last (Task.actor)
  closeout,  \* the notes that hold a closeout summary
  override,  \* the notes that record a bypassed gate
  proc       \* process -> where its command stands

store == <<plan, task, note, issue, commit, seq, active, actives, actors>>
vars == <<store, editor, closeout, override, proc>>

\* The store in a session of the process p; none of these commands moves a plan.
As(p) == INSTANCE ProjectStore WITH
  session <- Identity[p], Movers <- {}, Arrivals <- {},
  exported <- [plan |-> 0, tasks |-> {}, notes |-> {}, issues |-> {}, commits |-> {}]

\* A command is idle or waiting for a session to write in: `id' is the record it
\* works on and `plan' the one it links to, `gap' whether what it saw calls for an
\* override note, `summary' whether it brings a closeout summary.
Idle == [pc |-> "idle", id |-> 0, plan |-> 0, force |-> FALSE, gap |-> FALSE,
         summary |-> FALSE]
Pc == {"idle", "add", "note", "plan", "plannote", "verify", "start", "done", "plandone",
       "uitask", "uiplan", "commit"}

Goto(p, r) == proc' = [proc EXCEPT ![p] = r]

-----------------------------------------------------------------------------
(* What a command sees *)

OpenTasks(q) == {t \in DOMAIN task : task[t].plan = q /\ task[t].status # "done"}
Linked(t) == \E c \in DOMAIN commit : commit[c].task = t
Summarised(t) == \E n \in closeout : note[n].target = "task" /\ note[n].id = t

\* Who a started task counts against: the owner of its plan, or the last
\* editor of a task whose plan nobody claims.
Owner(t) == IF plan[task[t].plan].owner # NoActor THEN plan[task[t].plan].owner
                                                  ELSE editor[t]

\* Faulty variant: a task of a plan nobody claims is nobody's.
WipBlockedClaimed(p, exempt) ==
  \E t \in DOMAIN task \ {exempt} :
     /\ task[t].status = "doing" /\ task[t].hold = NoReason
     /\ Identity[p] \in {NoActor, plan[task[t].plan].owner}
\* A started task that is not parked blocks new work of the same identity, and
\* everybody's when none is configured.
WipBlocked(p, exempt) ==
  \E t \in DOMAIN task \ {exempt} :
     /\ task[t].status = "doing" /\ task[t].hold = NoReason
     /\ Identity[p] = NoActor \/ Owner(t) = Identity[p]

-----------------------------------------------------------------------------
(* Looking: the first session of a command *)

\* Begins a command on id, unless its gate refuses; force bypasses the gate.
Look(p, r) ==
  /\ proc[p].pc = "idle" /\ r.pc \in Commands
  /\ r.gap => r.force
  /\ Goto(p, r)
  /\ UNCHANGED <<store, editor, closeout, override>>

Command(cmd, id, force, gap) ==
  [Idle EXCEPT !.pc = cmd, !.id = id, !.force = force, !.gap = gap]

LookAdd(p, q, force) == Look(p, Command("add", q, force, WipBlocked(p, 0)))
LookPlan(p, force) == Look(p, Command("plan", 0, force, WipBlocked(p, 0)))
LookStart(p, t, force) == Look(p, Command("start", t, force, WipBlocked(p, t)))
LookPlanDone(p, q, force) == Look(p, Command("plandone", q, force, OpenTasks(q) # {}))
LookDone(p, t, summary, force) ==
  Look(p, [Command("done", t, force, ~summary \/ ~Linked(t)) EXCEPT !.summary = summary])

\* The dashboard never refuses: it records what is missing.
LookUiTask(p, t) == Look(p, Command("uitask", t, TRUE, ~Summarised(t) \/ ~Linked(t)))
LookUiPlan(p, q) == Look(p, Command("uiplan", q, TRUE, OpenTasks(q) # {}))

\* The active plan of an identity, or the shared one.
ActivePlan(a) == IF a \in DOMAIN actives THEN actives[a] ELSE active

\* `commit record' links to the task its subject names, if that exists, and to
\* the task's plan, or else to the active plan.
LookCommit(p, t) ==
  /\ t \in DOMAIN task \cup {0}
  /\ LET q == IF t = 0 THEN ActivePlan(Identity[p]) ELSE task[t].plan IN
       Look(p, [Command("commit", t, FALSE, FALSE) EXCEPT !.plan = q])

-----------------------------------------------------------------------------
(* Acting: the session that writes *)

\* The notes a transaction writes: the closeout first, then the override.
Noted(c, o) ==
  LET first == seq["note"] + 1
      second == first + (IF c THEN 1 ELSE 0) IN
  /\ closeout' = (closeout \cup IF c THEN {first} ELSE {}) \cap DOMAIN note'
  /\ override' = (override \cup IF o THEN {second} ELSE {}) \cap DOMAIN note'
Count(c, o) == (IF c THEN 1 ELSE 0) + (IF o THEN 1 ELSE 0)

Edited(p, t) == editor' = [u \in DOMAIN task' |-> IF u = t THEN Identity[p] ELSE editor[u]]
SameEditors == editor' = [u \in DOMAIN task' |-> editor[u]]

\* `task add': the task, and in a session of its own the note that the gate
\* was bypassed.
Add(p) ==
  /\ proc[p].pc = "add" /\ proc[p].id \in DOMAIN plan
  /\ As(p)!AddTask(proc[p].id)
  /\ Edited(p, As(p)!NextId("task"))
  /\ Noted(FALSE, FALSE)
  /\ Goto(p, IF proc[p].gap THEN [proc[p] EXCEPT !.pc = "note", !.id = As(p)!NextId("task")]
                            ELSE Idle)

AddOverride(p) ==
  /\ proc[p].pc = "note" /\ proc[p].id \in DOMAIN task
  /\ As(p)!AddNote([target |-> "task", id |-> proc[p].id])
  /\ Noted(FALSE, TRUE) /\ SameEditors
  /\ Goto(p, Idle)

\* `plan add': the plan, its override note, and its integration task.
AddPlan(p) ==
  /\ proc[p].pc = "plan"
  /\ As(p)!AddPlan(0)
  /\ Noted(FALSE, FALSE) /\ SameEditors
  /\ Goto(p, [proc[p] EXCEPT !.pc = IF proc[p].gap THEN "plannote" ELSE "verify",
                             !.id = As(p)!NextId("plan")])

AddPlanOverride(p) ==
  /\ proc[p].pc = "plannote" /\ proc[p].id \in DOMAIN plan
  /\ As(p)!AddNote([target |-> "plan", id |-> proc[p].id])
  /\ Noted(FALSE, TRUE) /\ SameEditors
  /\ Goto(p, [proc[p] EXCEPT !.pc = "verify"])

AddVerify(p) ==
  /\ proc[p].pc = "verify" /\ proc[p].id \in DOMAIN plan
  /\ As(p)!AddTask(proc[p].id)
  /\ Edited(p, As(p)!NextId("task"))
  /\ Noted(FALSE, FALSE)
  /\ Goto(p, Idle)

\* A task's status with its notes, in one transaction.
SetTask(p, t, s, c, o) ==
  /\ t \in DOMAIN task
  /\ As(p)!SetTaskStatus(t, s, Count(c, o))
  /\ Edited(p, t)
  /\ Noted(c, o)

Start(p) == /\ proc[p].pc = "start"
            /\ SetTask(p, proc[p].id, "doing", FALSE, proc[p].gap)
            /\ Goto(p, Idle)

Done(p) == /\ proc[p].pc = "done"
           /\ SetTask(p, proc[p].id, "done", proc[p].summary, proc[p].gap)
           /\ Goto(p, Idle)

UiTask(p) == /\ proc[p].pc = "uitask"
             /\ SetTask(p, proc[p].id, "done", FALSE, proc[p].gap)
             /\ Goto(p, Idle)

\* `plan done': the open tasks are counted again inside the transaction.
PlanDone(p) ==
  /\ proc[p].pc = "plandone" /\ proc[p].id \in DOMAIN plan
  /\ As(p)!CompletePlan(proc[p].id, proc[p].force)
  /\ Noted(FALSE, OpenTasks(proc[p].id) # {}) /\ SameEditors
  /\ Goto(p, Idle)

\* The dashboard's plan close writes the note its first look called for.
UiPlan(p) ==
  /\ proc[p].pc = "uiplan" /\ proc[p].id \in DOMAIN plan
  /\ As(p)!SetPlanStatus(proc[p].id, "done", Count(FALSE, proc[p].gap))
  /\ Noted(FALSE, proc[p].gap) /\ SameEditors
  /\ Goto(p, Idle)

RecordCommit(p, c) ==
  /\ proc[p].pc = "commit"
  /\ As(p)!AddCommit(c, proc[p].plan, proc[p].id)
  /\ Noted(FALSE, FALSE) /\ SameEditors
  /\ Goto(p, Idle)

Act(p) ==
  \/ Add(p) \/ AddOverride(p)
  \/ AddPlan(p) \/ AddPlanOverride(p) \/ AddVerify(p)
  \/ Start(p) \/ Done(p) \/ UiTask(p)
  \/ PlanDone(p) \/ UiPlan(p)
  \/ \E c \in Sha : RecordCommit(p, c)

\* The store refuses the transaction, the lock stays taken for a second, or
\* the process is killed: the command ends where it is.
Stop(p) ==
  /\ proc[p].pc # "idle"
  /\ Goto(p, Idle)
  /\ UNCHANGED <<store, editor, closeout, override>>

-----------------------------------------------------------------------------
(* Commands of one session *)

\* Parking, resuming, moving and reopening a task, and the dashboard's start,
\* which no gate guards.
Edit(p, t) ==
  /\ proc[p].pc = "idle" /\ "edit" \in Commands
  /\ \/ \E s \in TaskStatusIn \ {"done"} : As(p)!SetTaskStatus(t, s, 0)
     \/ \E r \in Reason \cup {NoReason} : As(p)!SetTaskHold(t, r)
     \/ \E q \in DOMAIN plan : As(p)!SetTaskPlan(t, q)
  /\ Edited(p, t) /\ Noted(FALSE, FALSE)
  /\ UNCHANGED proc

\* `plan use', and the desktop's reopening of a done plan.
Claim(p, q) ==
  /\ proc[p].pc = "idle" /\ "claim" \in Commands
  /\ \/ \E steal \in BOOLEAN : As(p)!UsePlan(q, steal)
     \/ plan[q].status = "done" /\ As(p)!SetPlanStatus(q, "active", 0)
  /\ SameEditors /\ Noted(FALSE, FALSE)
  /\ UNCHANGED proc

\* `plan delete --force', `task convert'.
Delete(p) ==
  /\ proc[p].pc = "idle" /\ "delete" \in Commands
  /\ \/ \E q \in DOMAIN plan : As(p)!DeletePlan(q)
     \/ \E t \in DOMAIN task : As(p)!ConvertTaskToPlan(t)
  /\ SameEditors /\ Noted(FALSE, FALSE)
  /\ UNCHANGED proc

-----------------------------------------------------------------------------
Init ==
  /\ plan = <<>> /\ task = <<>> /\ note = <<>> /\ issue = <<>> /\ commit = <<>>
  /\ seq = [c \in {"plan", "task", "note", "issue", "milestone"} |-> 0]
  /\ active = 0 /\ actives = <<>> /\ actors = {}
  /\ editor = <<>> /\ closeout = {} /\ override = {}
  /\ proc = [p \in Proc |-> Idle]

LookStep(p) ==
  \/ \E force \in BOOLEAN : LookPlan(p, force)
  \/ \E q \in DOMAIN plan, force \in BOOLEAN : LookAdd(p, q, force) \/ LookPlanDone(p, q, force)
  \/ \E q \in DOMAIN plan : LookUiPlan(p, q)
  \/ \E t \in DOMAIN task, force \in BOOLEAN : LookStart(p, t, force)
  \/ \E t \in DOMAIN task, summary, force \in BOOLEAN : LookDone(p, t, summary, force)
  \/ \E t \in DOMAIN task : LookUiTask(p, t)
  \/ \E t \in DOMAIN task \cup {0} : LookCommit(p, t)

Next == \E p \in Proc :
  \/ LookStep(p)
  \/ Act(p)
  \/ Stop(p)
  \/ \E t \in DOMAIN task : Edit(p, t)
  \/ \E q \in DOMAIN plan : Claim(p, q)
  \/ Delete(p)

Spec == Init /\ [][Next]_vars

-----------------------------------------------------------------------------
(* Properties *)

\* The audit marks sit on notes that exist, an editor is kept for every task,
\* and every process is at a step of its command.
TypeOK ==
  /\ DOMAIN editor = DOMAIN task /\ \A t \in DOMAIN task : editor[t] \in Actor \cup {NoActor}
  /\ closeout \subseteq DOMAIN note /\ override \subseteq DOMAIN note
  /\ closeout \cap override = {}
  /\ proc \in [Proc -> [pc : Pc, id : Nat, plan : Nat, force : BOOLEAN, gap : BOOLEAN,
                        summary : BOOLEAN]]

Notes(S, target, id) == {n \in S \cap DOMAIN note : note[n].target = target /\ note[n].id = id}

\* Whoever closes a task, whatever happened since the evidence was looked at:
\* once it is done it has a summary and a linked commit, or a note of this very
\* transaction says that it was closed without.
CloseRestsOnEvidence ==
  \A t \in DOMAIN task \cap DOMAIN task' :
    task[t].status # "done" /\ task'[t].status = "done" =>
      \/ Linked(t)' /\ Notes(closeout, "task", t)' # {}
      \/ Notes(override, "task", t)' \ override # {}

\* A plan that is closed over open tasks carries a note of this transaction
\* that says so: no `plan done' leaves them behind unmentioned, not even when they
\* are added between the look and the close.  (The dashboard looks only once.)
OpenWorkIsRecorded ==
  \A q \in DOMAIN plan \cap DOMAIN plan' :
    /\ plan[q].status # "done" /\ plan'[q].status = "done" /\ OpenTasks(q) # {}
    /\ ~(\E p \in DOMAIN proc : proc[p].pc = "uiplan" /\ proc[p].id = q)
    => Notes(override, "plan", q)' \ override # {}

\* The started tasks that count against the process p: everybody's when it has
\* no identity, those of its own plans, and those of free plans it edited last.
InProgress(p) ==
  {t \in DOMAIN task :
     /\ task[t].status = "doing" /\ task[t].hold = NoReason
     /\ \/ Identity[p] \in {NoActor, plan[task[t].plan].owner}
        \/ plan[task[t].plan].owner = NoActor /\ editor[t] = Identity[p]}

\* "One task in progress.  While you have a started, unheld task, `task start`,
\* `task add`, and `plan add` are refused" (README.md:142): of two tasks in
\* progress at once, one was started by force and its override note says so.
\* Two commands of one identity that both look before either starts its task
\* (dispatch.rs:784) leave two without such a note.
OneTaskInProgress ==
  \A p \in Proc : \A t, u \in InProgress(p) :
    t # u => Notes(override, "task", t) \cup Notes(override, "task", u) # {}

\* The processes that run as the same identity as p, and the tasks that they have
\* found nothing against starting.
Peers(p) == {q \in Proc : Identity[q] = Identity[p]}
AboutToStart(p) == {proc[q].id : q \in {x \in Peers(p) : proc[x].pc = "start" /\ ~proc[x].gap}}

\* That race is all that gets past the gate: k processes of one identity, however
\* they start, finish and close, leave at most k tasks in progress that no override
\* note accounts for, and a single one at most one.  The look of any of them
\* counts what all have started, so the excess does not add up over time.
OneTaskPerCommand ==
  \A p \in Proc :
    Cardinality({t \in InProgress(p) : Notes(override, "task", t) = {}} \cup AboutToStart(p))
      <= Cardinality(Peers(p))

\* "`--force` on each bypasses the gate and records an override note on the new
\* item" (docs/superpowers/specs/2026-08-23-goal-anchoring-design.md:124): a
\* command that opened a task by force does not end without that note.
ForcedAddIsRecorded ==
  \A p \in Proc :
    /\ proc[p].pc = "note" /\ proc'[p].pc = "idle"
    /\ proc[p].id \in DOMAIN task'
    => Notes(override, "task", proc[p].id)' # {}
=============================================================================
