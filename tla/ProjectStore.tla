---------------------------- MODULE ProjectStore ----------------------------
(***************************************************************************)
(* The typed project store: plans, tasks, notes, issues and recorded       *)
(* commits of one project, the claims that give a plan to one identity,    *)
(* and the active-plan pointers.                                           *)
(*                                                                         *)
(* A process opens the database under an exclusive file lock, runs its     *)
(* transactions as one configured identity, and closes it again; a crash   *)
(* in between aborts the transaction that was running.  `session' is the   *)
(* identity of the process that holds the lock.  Every other action is one *)
(* committed write transaction; a refused one aborts and changes nothing,  *)
(* so it has no action here.  A plan that moves to another project is      *)
(* exported, imported there and deleted here, in three transactions of two *)
(* stores; `exported' is what the caller of the export has in its hands.   *)
(*                                                                         *)
(* Titles, bodies, timestamps, orders and severities are left out: no      *)
(* property here is about them.                                            *)
(***************************************************************************)
EXTENDS Integers, FiniteSets

CONSTANTS
  Actor,          \* identities minted by `ptrack config set user'
  NoActor,        \* a process with no configured identity; an unclaimed plan
  Closed,         \* nobody holds the database lock
  Callers,        \* who opens the store: a subset of Actor \cup {NoActor}
  Reason,         \* the hold reasons writers give
  NoReason,       \* a record that is not on hold
  Sha,            \* the commit object names that get recorded
  Movers,         \* who exports plans: a subset of Callers
  Arrivals,       \* the subtrees that arrive from other stores
  PlanStatusIn,   \* the plan statuses callers ask for
  TaskStatusIn,   \* the task statuses callers ask for
  MaxPlan, MaxTask, MaxNote, MaxIssue, MaxMilestone, \* bounds on minted ids
  MaxEpoch,       \* bound on claim epochs (u64::MAX in the code)
  MaxDeps         \* bound on the dependency edges of one record

ASSUME ActorAssumption ==
  /\ NoActor \notin Actor /\ Closed \notin Actor /\ Closed # NoActor
  /\ Callers \subseteq Actor \cup {NoActor} /\ Movers \subseteq Callers

ASSUME InputAssumption ==
  /\ NoReason \notin Reason
  /\ PlanStatusIn \subseteq {"active", "done", "archived"}
  /\ TaskStatusIn \subseteq {"todo", "doing", "blocked", "done"}

ASSUME BoundAssumption ==
  /\ MaxPlan \in Nat /\ MaxTask \in Nat /\ MaxNote \in Nat /\ MaxIssue \in Nat
  /\ MaxMilestone \in Nat /\ MaxEpoch \in Nat /\ MaxDeps \in Nat

VARIABLES
  plan,     \* plan id -> plan record
  task,     \* task id -> task record
  note,     \* note id -> what it is written on
  issue,    \* issue id -> issue record
  commit,   \* sha -> the plan and task it is linked to
  seq,      \* collection -> the highest id it ever minted
  active,   \* Meta.active_plan, the legacy shared pointer (0: none)
  actives,  \* Meta.active_plans, actor -> its own pointer
  actors,   \* Meta.actors, the identities with a directory entry
  exported, \* the records the last export of a plan carried
  session   \* who holds the database lock

vars == <<plan, task, note, issue, commit, seq, active, actives, actors, exported, session>>

PlanStatus == {"active", "done", "archived"}
TaskStatus == {"todo", "doing", "blocked", "done"}

PlanRecord == [status : PlanStatus, hold : Reason \cup {NoReason}, milestone : Nat,
               owner : Actor \cup {NoActor}, epoch : Nat, deps : SUBSET Nat]
TaskRecord == [plan : Nat, status : TaskStatus, hold : Reason \cup {NoReason},
               deps : SUBSET Nat]
NoteRecord == [target : {"project", "plan", "task"}, id : Nat]
IssueRecord == [task : Nat, status : {"open", "closed"}]
CommitRecord == [plan : Nat, task : Nat]
CascadeRecord == [plan : Nat, tasks : SUBSET Nat, notes : SUBSET Nat, issues : SUBSET Nat,
                  commits : SUBSET Sha]
Collection == {"plan", "task", "note", "issue", "milestone"}

-----------------------------------------------------------------------------
(* Records *)

\* Inserts or replaces one record, and removes a set of them.
Put(f, k, v) == [x \in DOMAIN f \cup {k} |-> IF x = k THEN v ELSE f[x]]
Drop(f, S) == [x \in DOMAIN f \ S |-> f[x]]

\* Faulty variant: leaves the edges of what it deletes.
WithoutDepsKept(f, S) == f
\* A dependency edge to a deleted record goes with it.
WithoutDeps(f, S) == [x \in DOMAIN f |-> [f[x] EXCEPT !.deps = @ \ S]]

TasksOf(p) == {t \in DOMAIN task : task[t].plan = p}
OpenTasks(p) == {t \in TasksOf(p) : task[t].status # "done"}
NotesOn(p, T) == {n \in DOMAIN note :
                    \/ note[n].target = "plan" /\ note[n].id = p
                    \/ note[n].target = "task" /\ note[n].id \in T}

NewPlan(m) == [status |-> "active", hold |-> NoReason, milestone |-> m,
               owner |-> NoActor, epoch |-> 0, deps |-> {}]
NewTask(p) == [plan |-> p, status |-> "todo", hold |-> NoReason, deps |-> {}]

\* Faulty variant: forgets the epoch with the claim.
WithPlanStatusForgetful(r, s) ==
  IF s = "active" THEN [r EXCEPT !.status = s]
  ELSE [r EXCEPT !.status = s, !.hold = NoReason, !.owner = NoActor, !.epoch = 0]
\* Only an active plan, and only an unfinished task, may be held; a finished
\* plan holds nobody's claim but keeps its epoch.
WithPlanStatus(r, s) ==
  IF s = "active" THEN [r EXCEPT !.status = s]
  ELSE [r EXCEPT !.status = s, !.hold = NoReason, !.owner = NoActor]
WithTaskStatus(r, s) ==
  [r EXCEPT !.status = s, !.hold = IF s = "done" THEN NoReason ELSE @]

\* The identifiers reachable from n along dependency edges, n included: the
\* least set that holds n and is closed under the edges.
Reachable(f, n) ==
  {m \in DOMAIN f :
     \A C \in SUBSET DOMAIN f :
        n \in C /\ (\A x \in C : f[x].deps \subseteq C) => m \in C}

WouldCreateCycle(f, from, to) == from = to \/ from \in Reachable(f, to)

\* Every non-empty set of records holds one that depends on nothing in the set.
Acyclic(f) == \A S \in SUBSET DOMAIN f :
                S # {} => \E x \in S : f[x].deps \cap S = {}

-----------------------------------------------------------------------------
(* What arrives: exports of other stores, in which the same code ran *)

Ids(S) == S \subseteq Nat /\ IsFiniteSet(S)

\* A plan with its tasks, and with notes, issues and commits of theirs.
IsSubtree(s) ==
  /\ Ids(DOMAIN s.task) /\ Ids(DOMAIN s.note) /\ Ids(DOMAIN s.issue)
  /\ s.plan \in PlanRecord /\ (s.plan.status # "active" => s.plan.hold = NoReason)
  /\ \A t \in DOMAIN s.task : /\ s.task[t] \in TaskRecord
                              /\ s.task[t].status = "done" => s.task[t].hold = NoReason
  /\ \A n \in DOMAIN s.note : /\ s.note[n] \in NoteRecord
                              /\ s.note[n].target # "project"
                              /\ s.note[n].target = "task" => s.note[n].id \in DOMAIN s.task
  /\ \A i \in DOMAIN s.issue : s.issue[i] \in IssueRecord /\ s.issue[i].task \in DOMAIN s.task
  /\ DOMAIN s.commit \subseteq Sha /\ \A c \in DOMAIN s.commit : s.commit[c] \in CommitRecord

ASSUME ArrivalAssumption == \A s \in Arrivals : IsSubtree(s) /\ Acyclic(s.task)

-----------------------------------------------------------------------------
(* The write funnel *)

\* Every transaction registers the configured identity in the actor directory.
Funnel == /\ session # Closed
          /\ actors' = actors \cup ({session} \cap Actor)
          /\ UNCHANGED session
Writing == Funnel /\ UNCHANGED exported

\* A plan claimed by someone else refuses content changes; a process without
\* an identity is never an owner.
ClaimAccess(p) == plan[p].owner \in {NoActor, session}

\* A finished plan takes no new open work.
AcceptsOpenWork(p) == plan[p].status = "active"

NextId(c) == seq[c] + 1

\* k audit notes written on a record by the transaction that changed it.
WriteNotes(target, id, k) ==
  /\ seq["note"] + k <= MaxNote
  /\ note' = [n \in DOMAIN note \cup (NextId("note") .. seq["note"] + k) |->
                IF n \in DOMAIN note THEN note[n] ELSE [target |-> target, id |-> id]]

-----------------------------------------------------------------------------
(* Plans and claims *)

Open(a) == /\ session = Closed
           /\ session' = a
           /\ UNCHANGED <<plan, task, note, issue, commit, seq, active, actives, actors, exported>>

Close == /\ session # Closed
         /\ session' = Closed
         /\ UNCHANGED <<plan, task, note, issue, commit, seq, active, actives, actors, exported>>

AddMilestone ==
  /\ Writing
  /\ seq["milestone"] < MaxMilestone
  /\ seq' = [seq EXCEPT !["milestone"] = @ + 1]
  /\ UNCHANGED <<plan, task, note, issue, commit, active, actives>>

AddPlan(m) ==
  /\ Writing
  /\ seq["plan"] < MaxPlan
  /\ m \in 0 .. seq["milestone"]
  /\ plan' = Put(plan, NextId("plan"), NewPlan(m))
  /\ seq' = [seq EXCEPT !["plan"] = @ + 1]
  /\ UNCHANGED <<task, note, issue, commit, active, actives>>

\* Sets the caller's own pointer, or the shared one without an identity.
PointAt(p) ==
  IF session \in Actor
  THEN actives' = Put(actives, session, p) /\ UNCHANGED active
  ELSE active' = p /\ UNCHANGED actives

\* The first plan is created and activated together.
CreateFirstPlan ==
  /\ Writing
  /\ DOMAIN plan = {} /\ active = 0
  /\ seq["plan"] < MaxPlan
  /\ plan' = Put(plan, NextId("plan"), NewPlan(0))
  /\ seq' = [seq EXCEPT !["plan"] = @ + 1]
  /\ active' = NextId("plan")
  /\ actives' = IF session \in Actor THEN Put(actives, session, NextId("plan"))
                                     ELSE actives
  /\ UNCHANGED <<task, note, issue, commit>>

\* `plan use': the caller claims an active plan that is free, or steals it.
TakesClaim(p, steal) ==
  /\ p # 0
  /\ session \in Actor
  /\ plan[p].status = "active"
  /\ plan[p].owner # session
  /\ plan[p].owner = NoActor \/ steal

\* Nothing to claim: no plan, no identity, a finished plan, or one's own.
KeepsClaim(p) ==
  p # 0 /\ session \in Actor /\ plan[p].status = "active" => plan[p].owner = session

UsePlan(p, steal) ==
  /\ Writing
  /\ steal => session \in Actor
  /\ \/ /\ TakesClaim(p, steal)
        /\ plan[p].epoch < MaxEpoch
        /\ plan' = [plan EXCEPT ![p].owner = session, ![p].epoch = @ + 1]
     \/ KeepsClaim(p) /\ UNCHANGED plan
  /\ PointAt(p)
  /\ UNCHANGED <<task, note, issue, commit, seq>>

ReleasePlan(p) ==
  /\ Writing
  /\ session \in Actor /\ plan[p].owner = session
  /\ plan' = [plan EXCEPT ![p].owner = NoActor]
  /\ UNCHANGED <<task, note, issue, commit, seq, active, actives>>

\* A status change with the k notes that document it, in one transaction.
SetPlanStatus(p, s, k) ==
  /\ Writing
  /\ ClaimAccess(p)
  /\ plan' = [plan EXCEPT ![p] = WithPlanStatus(@, s)]
  /\ WriteNotes("plan", p, k)
  /\ seq' = [seq EXCEPT !["note"] = @ + k]
  /\ UNCHANGED <<task, issue, commit, active, actives>>

\* Faulty variant: trusts the caller to have looked for open tasks.
CompletePlanUnchecked(p, force) ==
  /\ Writing
  /\ ClaimAccess(p)
  /\ plan' = [plan EXCEPT ![p] = WithPlanStatus(@, "done")]
  /\ UNCHANGED <<task, note, issue, commit, seq, active, actives>>
\* Open tasks refuse the close inside the closing transaction, unless forced,
\* and a forced close records them in an override note.
CompletePlan(p, force) ==
  /\ Writing
  /\ ClaimAccess(p)
  /\ OpenTasks(p) = {} \/ force
  /\ plan' = [plan EXCEPT ![p] = WithPlanStatus(@, "done")]
  /\ LET k == IF OpenTasks(p) = {} THEN 0 ELSE 1 IN
       /\ WriteNotes("plan", p, k)
       /\ seq' = [seq EXCEPT !["note"] = @ + k]
  /\ UNCHANGED <<task, issue, commit, active, actives>>

\* Holds are open to everyone; a finished plan cannot be put on hold.
SetPlanHold(p, r) ==
  /\ Writing
  /\ r # NoReason => plan[p].status = "active"
  /\ plan' = [plan EXCEPT ![p].hold = r]
  /\ UNCHANGED <<task, note, issue, commit, seq, active, actives>>

SetPlanMilestone(p, m) ==
  /\ Writing
  /\ m \in 0 .. seq["milestone"]
  /\ ClaimAccess(p)
  /\ plan' = [plan EXCEPT ![p].milestone = m]
  /\ UNCHANGED <<task, note, issue, commit, seq, active, actives>>

AddPlanDep(p, d) ==
  /\ Writing
  /\ ClaimAccess(p)
  /\ d \notin plan[p].deps
  /\ ~WouldCreateCycle(plan, p, d)
  /\ Cardinality(plan[p].deps) < MaxDeps
  /\ plan' = [plan EXCEPT ![p].deps = @ \cup {d}]
  /\ UNCHANGED <<task, note, issue, commit, seq, active, actives>>

RemovePlanDep(p, d) ==
  /\ Writing
  /\ ClaimAccess(p)
  /\ d \in plan[p].deps
  /\ plan' = [plan EXCEPT ![p].deps = @ \ {d}]
  /\ UNCHANGED <<task, note, issue, commit, seq, active, actives>>

\* Issues and commits survive a plan delete, unlinked; a move's delete takes
\* the issues with it.
DetachIssues(T) ==
  [i \in DOMAIN issue |-> IF issue[i].task \in T THEN [issue[i] EXCEPT !.task = 0]
                                                 ELSE issue[i]]
\* Faulty variant: unlinks every commit of the plan from its task as well.
DetachCommitsWhole(p, T) ==
  [c \in DOMAIN commit |->
     IF commit[c].plan = p \/ commit[c].task \in T THEN [plan |-> 0, task |-> 0]
                                                   ELSE commit[c]]
DetachCommits(p, T) ==
  [c \in DOMAIN commit |-> [plan |-> IF commit[c].plan = p THEN 0 ELSE commit[c].plan,
                            task |-> IF commit[c].task \in T THEN 0 ELSE commit[c].task]]

\* Every pointer at a deleted plan is reset.
ForgetActive(p) ==
  /\ active' = IF active = p THEN 0 ELSE active
  /\ actives' = [a \in DOMAIN actives |-> IF actives[a] = p THEN 0 ELSE actives[a]]

IssuesOn(T) == {i \in DOMAIN issue : issue[i].task \in T}
CommitsOn(p, T) == {c \in DOMAIN commit : commit[c].plan = p \/ commit[c].task \in T}

\* The delete of a plan, which leaves of the linked issues what it is given.
Delete(p, issues) ==
  /\ Writing
  /\ ClaimAccess(p)
  /\ task' = WithoutDeps(Drop(task, TasksOf(p)), TasksOf(p))
  /\ plan' = WithoutDeps(Drop(plan, {p}), {p})
  /\ note' = Drop(note, NotesOn(p, TasksOf(p)))
  /\ issue' = issues
  /\ commit' = DetachCommits(p, TasksOf(p))
  /\ ForgetActive(p)
  /\ UNCHANGED seq

DeletePlan(p) == Delete(p, DetachIssues(TasksOf(p)))

-----------------------------------------------------------------------------
(* Moving a plan: what an export carries, and the delete that follows it *)

\* The records that belong to a plan, chosen alike by export and delete.
Cascade(p) ==
  LET T == TasksOf(p) IN
  [plan |-> p, tasks |-> T, notes |-> NotesOn(p, T), issues |-> IssuesOn(T),
   commits |-> CommitsOn(p, T)]
NothingExported == [plan |-> 0, tasks |-> {}, notes |-> {}, issues |-> {}, commits |-> {}]

ExportPlan(p) ==
  /\ Funnel
  /\ session \in Movers
  /\ ClaimAccess(p)
  /\ exported' = Cascade(p)
  /\ UNCHANGED <<plan, task, note, issue, commit, seq, active, actives>>

\* Faulty variant: what was added to the plan since its export goes with it.
WasExportedInPart(p) == exported.plan = p
\* The delete takes exactly what was exported or nothing at all.
WasExported(p) == exported = Cascade(p)

DeletePlanForMove(p) ==
  /\ WasExported(p)
  /\ Delete(p, Drop(issue, IssuesOn(TasksOf(p))))

-----------------------------------------------------------------------------
(* Importing a plan with everything that belongs to it *)

\* The id an imported record gets: the collection's next ids, in id order.
Minted(c, S, x) == seq[c] + Cardinality({y \in S : y <= x})
Source(c, S, k) == CHOOSE x \in S : Minted(c, S, x) = k
MintedIds(c, S) == {Minted(c, S, x) : x \in S}

\* f extended with copies of the records of g, each copy made by the operator
\* that remaps its references.
WithCopies(f, c, g, Copy(_)) ==
  [k \in DOMAIN f \cup MintedIds(c, DOMAIN g) |->
     IF k \in DOMAIN f THEN f[k] ELSE Copy(g[Source(c, DOMAIN g, k)])]

\* Dependencies inside the subtree are remapped; of the others those to `known'
\* records are kept.
CopyTask(T, known, q, r) ==
  [r EXCEPT !.plan = q,
            !.deps = {IF d \in T THEN Minted("task", T, d) ELSE d : d \in @ \cap (T \cup known)}]
CopyNote(T, q, r) ==
  [r EXCEPT !.id = IF r.target = "plan" THEN q ELSE Minted("task", T, @)]
CopyPlanRecord(known, r) ==
  [r EXCEPT !.milestone = 0, !.owner = NoActor, !.epoch = 0, !.deps = @ \cap known]

\* A commit this store already holds is left as it is; another one belongs to
\* the plan that arrives.
WithCommits(T, q, g) ==
  [c \in DOMAIN commit \cup DOMAIN g |->
     IF c \in DOMAIN commit THEN commit[c]
     ELSE [plan |-> q, task |-> IF g[c].task \in T THEN Minted("task", T, g[c].task) ELSE 0]]

\* The subtree s becomes a plan of this store, which knows those of its outside
\* dependencies that are in `plans' and `tasks'.
Import(s, plans, tasks) ==
  LET T == DOMAIN s.task  q == NextId("plan") IN
  /\ Writing
  /\ seq["plan"] < MaxPlan
  /\ seq["task"] + Cardinality(T) <= MaxTask
  /\ seq["note"] + Cardinality(DOMAIN s.note) <= MaxNote
  /\ seq["issue"] + Cardinality(DOMAIN s.issue) <= MaxIssue
  /\ plan' = Put(plan, q, CopyPlanRecord(plans, s.plan))
  /\ task' = WithCopies(task, "task", s.task, LAMBDA r : CopyTask(T, tasks, q, r))
  /\ note' = WithCopies(note, "note", s.note, LAMBDA r : CopyNote(T, q, r))
  /\ issue' = WithCopies(issue, "issue", s.issue,
                LAMBDA r : [r EXCEPT !.task = Minted("task", T, @)])
  /\ commit' = WithCommits(T, q, s.commit)
  /\ seq' = [seq EXCEPT !["plan"] = @ + 1, !["task"] = @ + Cardinality(T),
                        !["note"] = @ + Cardinality(DOMAIN s.note),
                        !["issue"] = @ + Cardinality(DOMAIN s.issue)]
  /\ UNCHANGED <<active, actives>>

Only(f, S) == [x \in S |-> f[x]]
Subtree(p) ==
  LET C == Cascade(p) IN
  [plan |-> plan[p], task |-> Only(task, C.tasks), note |-> Only(note, C.notes),
   issue |-> Only(issue, C.issues), commit |-> Only(commit, C.commits)]

\* A copy into the same project is exported and imported in one hold of the
\* lock: it keeps the dependencies that leave the plan.
CopyPlan(p) == ClaimAccess(p) /\ Import(Subtree(p), DOMAIN plan, DOMAIN task)

\* Ids of another store name nothing here.
ImportPlan(s) == Import(s, {}, {})

-----------------------------------------------------------------------------
(* Tasks *)

\* Faulty variant: the gate of a task forgets that a claim may be another's.
ClaimOfTaskOpen(t) == session # NoActor \/ ClaimAccess(task[t].plan)
ClaimOfTask(t) == ClaimAccess(task[t].plan)

AddTask(p) ==
  /\ Writing
  /\ ClaimAccess(p)
  /\ AcceptsOpenWork(p)
  /\ seq["task"] < MaxTask
  /\ task' = Put(task, NextId("task"), NewTask(p))
  /\ seq' = [seq EXCEPT !["task"] = @ + 1]
  /\ UNCHANGED <<plan, note, issue, commit, active, actives>>

\* The first task of the sole plan, which is also the shared active one.
CreateFirstTask(p) ==
  /\ DOMAIN plan = {p} /\ active = p /\ task = <<>>
  /\ AddTask(p)

\* Starting, blocking, reopening and finishing a task, with the k notes that
\* document it.  The store never asks whether the plan is finished.
SetTaskStatus(t, s, k) ==
  /\ Writing
  /\ ClaimOfTask(t)
  /\ task' = [task EXCEPT ![t] = WithTaskStatus(@, s)]
  /\ WriteNotes("task", t, k)
  /\ seq' = [seq EXCEPT !["note"] = @ + k]
  /\ UNCHANGED <<plan, issue, commit, active, actives>>

SetTaskHold(t, r) ==
  /\ Writing
  /\ r # NoReason => task[t].status # "done"
  /\ task' = [task EXCEPT ![t].hold = r]
  /\ UNCHANGED <<plan, note, issue, commit, seq, active, actives>>

SetTaskPlan(t, p) ==
  /\ Writing
  /\ ClaimAccess(p) /\ ClaimOfTask(t)
  /\ task[t].status # "done" /\ task[t].plan # p => AcceptsOpenWork(p)
  /\ task' = [task EXCEPT ![t].plan = p]
  /\ UNCHANGED <<plan, note, issue, commit, seq, active, actives>>

AddTaskDep(t, d) ==
  /\ Writing
  /\ ClaimOfTask(t)
  /\ d \notin task[t].deps
  /\ ~WouldCreateCycle(task, t, d)
  /\ Cardinality(task[t].deps) < MaxDeps
  /\ task' = [task EXCEPT ![t].deps = @ \cup {d}]
  /\ UNCHANGED <<plan, note, issue, commit, seq, active, actives>>

RemoveTaskDep(t, d) ==
  /\ Writing
  /\ ClaimOfTask(t)
  /\ d \in task[t].deps
  /\ task' = [task EXCEPT ![t].deps = @ \ {d}]
  /\ UNCHANGED <<plan, note, issue, commit, seq, active, actives>>

\* The plan a task becomes: done iff the task was, in the parent's milestone,
\* and claimed by the converting identity iff the parent was claimed.
ConvertedPlan(t) ==
  LET parent == plan[task[t].plan]
      status == IF task[t].status = "done" THEN "done" ELSE "active"
      claims == status = "active" /\ parent.owner # NoActor /\ session \in Actor IN
  [status |-> status,
   hold |-> IF status = "active" THEN task[t].hold ELSE NoReason,
   milestone |-> parent.milestone,
   owner |-> IF claims THEN session ELSE NoActor,
   epoch |-> IF claims THEN 1 ELSE 0,
   deps |-> {}]

\* Faulty variant: a conversion drops the notes of the task.
NotesDropped(t, q) ==
  Drop(note, {n \in DOMAIN note : note[n].target = "task" /\ note[n].id = t})
\* Everything recorded on the task t moves to the plan q or is detached.
NotesToPlan(t, q) ==
  [n \in DOMAIN note |->
     IF note[n].target = "task" /\ note[n].id = t THEN [target |-> "plan", id |-> q]
                                                  ELSE note[n]]
CommitsToPlan(t, q) ==
  [c \in DOMAIN commit |-> IF commit[c].task = t THEN [plan |-> q, task |-> 0]
                                                 ELSE commit[c]]

ConvertTaskToPlan(t) ==
  /\ Writing
  /\ ClaimOfTask(t)
  /\ seq["plan"] < MaxPlan
  /\ plan' = Put(plan, NextId("plan"), ConvertedPlan(t))
  /\ task' = WithoutDeps(Drop(task, {t}), {t})
  /\ note' = NotesToPlan(t, NextId("plan"))
  /\ commit' = CommitsToPlan(t, NextId("plan"))
  /\ issue' = DetachIssues({t})
  /\ seq' = [seq EXCEPT !["plan"] = @ + 1]
  /\ UNCHANGED <<active, actives>>

-----------------------------------------------------------------------------
(* Notes, issues and commits: open to everyone, claimed or not *)

NoteTargets == {[target |-> "project", id |-> 0]}
               \cup {[target |-> "plan", id |-> p] : p \in DOMAIN plan}
               \cup {[target |-> "task", id |-> t] : t \in DOMAIN task}

AddNote(n) ==
  /\ Writing
  /\ WriteNotes(n.target, n.id, 1)
  /\ seq' = [seq EXCEPT !["note"] = @ + 1]
  /\ UNCHANGED <<plan, task, issue, commit, active, actives>>

AddIssue(t) ==
  /\ Writing
  /\ t \in DOMAIN task \cup {0}
  /\ seq["issue"] < MaxIssue
  /\ issue' = Put(issue, NextId("issue"), [task |-> t, status |-> "open"])
  /\ seq' = [seq EXCEPT !["issue"] = @ + 1]
  /\ UNCHANGED <<plan, task, note, commit, active, actives>>

SetIssueStatus(i, s) ==
  /\ Writing
  /\ issue' = [issue EXCEPT ![i].status = s]
  /\ UNCHANGED <<plan, task, note, commit, seq, active, actives>>

\* Links, relinks or unlinks; the link the caller saw must still be there, and
\* here it is always the current one (a stale caller is refused).
SetIssueTask(i, t) ==
  /\ Writing
  /\ t \in DOMAIN task \cup {0}
  /\ issue' = [issue EXCEPT ![i].task = t]
  /\ UNCHANGED <<plan, task, note, commit, seq, active, actives>>

\* Faulty variant: scheduling does not look at the plan's status.
AcceptsAnyWork(p) == TRUE
\* Scheduling and moving from an issue refuse a done plan only.
AcceptsScheduledWork(p) == plan[p].status # "done"

MoveIssueTask(i, p) ==
  /\ Writing
  /\ issue[i].task # 0
  /\ AcceptsScheduledWork(p)
  /\ ClaimOfTask(issue[i].task) /\ ClaimAccess(p)
  /\ task' = [task EXCEPT ![issue[i].task].plan = p]
  /\ UNCHANGED <<plan, note, issue, commit, seq, active, actives>>

ScheduleIssue(i, p) ==
  /\ Writing
  /\ issue[i] = [task |-> 0, status |-> "open"]
  /\ AcceptsScheduledWork(p)
  /\ ClaimAccess(p)
  /\ seq["task"] < MaxTask
  /\ task' = Put(task, NextId("task"), NewTask(p))
  /\ issue' = [issue EXCEPT ![i].task = NextId("task")]
  /\ seq' = [seq EXCEPT !["task"] = @ + 1]
  /\ UNCHANGED <<plan, note, commit, active, actives>>

\* The links are stored as given: the caller checks that the task exists, in
\* an earlier session, and nobody checks the plan.
AddCommit(c, p, t) ==
  /\ Writing
  /\ c \notin DOMAIN commit
  /\ t \in 0 .. seq["task"] /\ p \in 0 .. MaxPlan
  /\ commit' = Put(commit, c, [plan |-> p, task |-> t])
  /\ UNCHANGED <<plan, task, note, issue, seq, active, actives>>

\* A first plan, first task or commit that is asked for again is returned as it
\* is: the transaction registers the identity and writes nothing else.
Replay ==
  /\ Writing
  /\ commit # <<>> \/ \E p \in DOMAIN plan : DOMAIN plan = {p} /\ active = p
  /\ UNCHANGED <<plan, task, note, issue, commit, seq, active, actives>>

-----------------------------------------------------------------------------
Init ==
  /\ plan = <<>> /\ task = <<>> /\ note = <<>> /\ issue = <<>> /\ commit = <<>>
  /\ seq = [c \in Collection |-> 0]
  /\ active = 0 /\ actives = <<>> /\ actors = {}
  /\ exported = NothingExported
  /\ session = Closed

PlanStep(p) ==
  \/ \E steal \in BOOLEAN : UsePlan(p, steal)
  \/ ReleasePlan(p)
  \/ \E s \in PlanStatusIn, k \in 0 .. 1 : SetPlanStatus(p, s, k)
  \/ \E force \in BOOLEAN : CompletePlan(p, force)
  \/ \E r \in Reason \cup {NoReason} : SetPlanHold(p, r)
  \/ \E m \in 0 .. MaxMilestone : SetPlanMilestone(p, m)
  \/ \E d \in DOMAIN plan : AddPlanDep(p, d) \/ RemovePlanDep(p, d)
  \/ DeletePlan(p)
  \/ ExportPlan(p)
  \/ DeletePlanForMove(p)
  \/ CopyPlan(p)
  \/ AddTask(p)
  \/ CreateFirstTask(p)

TaskStep(t) ==
  \/ \E s \in TaskStatusIn, k \in 0 .. 1 : SetTaskStatus(t, s, k)
  \/ \E r \in Reason \cup {NoReason} : SetTaskHold(t, r)
  \/ \E p \in DOMAIN plan : SetTaskPlan(t, p)
  \/ \E d \in DOMAIN task : AddTaskDep(t, d) \/ RemoveTaskDep(t, d)
  \/ ConvertTaskToPlan(t)

IssueStep(i) ==
  \/ \E s \in {"open", "closed"} : SetIssueStatus(i, s)
  \/ \E t \in DOMAIN task \cup {0} : SetIssueTask(i, t)
  \/ \E p \in DOMAIN plan : MoveIssueTask(i, p) \/ ScheduleIssue(i, p)

Next ==
  \/ \E a \in Callers : Open(a)
  \/ Close
  \/ AddMilestone
  \/ \E m \in 0 .. MaxMilestone : AddPlan(m)
  \/ CreateFirstPlan
  \/ Replay
  \/ UsePlan(0, FALSE)
  \/ \E s \in Arrivals : ImportPlan(s)
  \/ \E p \in DOMAIN plan : PlanStep(p)
  \/ \E t \in DOMAIN task : TaskStep(t)
  \/ \E n \in NoteTargets : AddNote(n)
  \/ \E t \in DOMAIN task \cup {0} : AddIssue(t)
  \/ \E i \in DOMAIN issue : IssueStep(i)
  \/ \E c \in Sha, p \in 0 .. MaxPlan, t \in 0 .. MaxTask : AddCommit(c, p, t)

Spec == Init /\ [][Next]_vars

-----------------------------------------------------------------------------
(* Type invariant *)

RecordTypes ==
  /\ \A p \in DOMAIN plan : plan[p] \in PlanRecord
  /\ \A t \in DOMAIN task : task[t] \in TaskRecord
  /\ \A n \in DOMAIN note : note[n] \in NoteRecord
  /\ \A i \in DOMAIN issue : issue[i] \in IssueRecord
  /\ \A c \in DOMAIN commit : commit[c] \in CommitRecord

\* A record's identifier was minted: no collection holds one above its mark.
IdsMinted ==
  /\ DOMAIN plan \subseteq 1 .. seq["plan"]
  /\ DOMAIN task \subseteq 1 .. seq["task"]
  /\ DOMAIN note \subseteq 1 .. seq["note"]
  /\ DOMAIN issue \subseteq 1 .. seq["issue"]

\* Every record and pointer has the type its Rust struct gives it, and every
\* record identifier is one its collection minted.
TypeOK ==
  /\ seq \in [Collection -> Nat]
  /\ RecordTypes
  /\ IdsMinted
  /\ DOMAIN commit \subseteq Sha
  /\ active \in Nat
  /\ DOMAIN actives \subseteq Actor /\ \A a \in DOMAIN actives : actives[a] \in Nat
  /\ actors \subseteq Actor
  /\ exported \in CascadeRecord
  /\ session \in Actor \cup {NoActor, Closed}

-----------------------------------------------------------------------------
(* Safety *)

PlanRefs == \A p \in DOMAIN plan : /\ plan[p].deps \subseteq DOMAIN plan
                                   /\ plan[p].milestone <= seq["milestone"]
TaskRefs == \A t \in DOMAIN task : /\ task[t].plan \in DOMAIN plan
                                   /\ task[t].deps \subseteq DOMAIN task
NoteRefs == \A n \in DOMAIN note : note[n] \in NoteTargets
IssueRefs == \A i \in DOMAIN issue : issue[i].task \in DOMAIN task \cup {0}
PointerRefs == /\ active \in DOMAIN plan \cup {0}
               /\ \A a \in DOMAIN actives : actives[a] \in DOMAIN plan \cup {0}

\* No legal sequence of adds, moves, conversions, copies and deletes leaves a
\* reference dangling: a task's plan, a dependency, a note's target, an issue's
\* task and every active-plan pointer name a record that exists.  (A commit's
\* links may dangle: the code stores them as given.)
RefIntegrity == PlanRefs /\ TaskRefs /\ NoteRefs /\ IssueRefs /\ PointerRefs

\* Dependencies never close a cycle, whatever edges deletes cut and copies and
\* moves bring in: otherwise `task next' would never offer the tasks on it.
AcyclicDeps == Acyclic(plan) /\ Acyclic(task)

\* A done or archived plan holds nobody's claim and is not on hold, and a done
\* task is not on hold, whichever of the operations finished or produced it.
FinishedHoldsNothing ==
  /\ \A p \in DOMAIN plan : plan[p].status # "active" =>
        plan[p].owner = NoActor /\ plan[p].hold = NoReason
  /\ \A t \in DOMAIN task : task[t].status = "done" => task[t].hold = NoReason

\* The owner of every claim has an entry in the actor directory, so that
\* `claimed by' names it, and holds the claim under a positive epoch.
OwnersKnown ==
  \A p \in DOMAIN plan : plan[p].owner # NoActor =>
     plan[p].owner \in actors /\ plan[p].epoch > 0

\* What every reader of the store may rely on after any sequence of operations.
StoreSafe == TypeOK /\ RefIntegrity /\ AcyclicDeps /\ FinishedHoldsNothing /\ OwnersKnown

-----------------------------------------------------------------------------
(* What a step may never do *)

\* The fencing epoch: a plan's epoch never goes back, not even when a close
\* releases the claim, and an identity that becomes its owner gets a new one.
EpochFences ==
  [][\A p \in DOMAIN plan \cap DOMAIN plan' :
       /\ plan'[p].epoch >= plan[p].epoch
       /\ plan'[p].owner \notin {NoActor, plan[p].owner} =>
            plan'[p].epoch > plan[p].epoch]_vars

\* What a claim protects in the plan p: that it exists, its status, milestone
\* and dependencies, which tasks it has, their status and their dependencies,
\* but for edges to records that were deleted elsewhere.
ContentKept(p) ==
  /\ p \in DOMAIN plan'
  /\ plan'[p].status = plan[p].status
  /\ plan'[p].milestone = plan[p].milestone
  /\ plan'[p].deps = plan[p].deps \cap DOMAIN plan'
  /\ {t \in DOMAIN task' : task'[t].plan = p} = TasksOf(p)
  /\ \A t \in TasksOf(p) : /\ task'[t].status = task[t].status
                           /\ task'[t].deps = task[t].deps \cap DOMAIN task'

\* Nobody but its owner changes the content of a claimed plan, not through a
\* task, an issue, another plan's delete or a process without an identity; and
\* the claim passes only to the identity that steals it.
ClaimGate ==
  [][\A p \in DOMAIN plan : plan[p].owner \notin {NoActor, session} =>
       /\ ContentKept(p)
       /\ plan'[p].owner \in {plan[p].owner, session}]_vars

\* What a step removes is what the last export carried: the issues that go were
\* exported, and so were the tasks and notes that go with them.
GoneAsExported ==
  /\ DOMAIN issue \ DOMAIN issue' \subseteq exported.issues
  /\ DOMAIN task \ DOMAIN task' = exported.tasks
  /\ DOMAIN note \ DOMAIN note' = exported.notes
  /\ \A i \in DOMAIN issue \ DOMAIN issue' : issue[i].task \notin DOMAIN task'

\* The evidence a task's completion rests on is never lost: recorded commits
\* outlive every delete and keep their link to a task as long as that task
\* exists.  An issue outlives every delete but that of a move, which follows its
\* task to the target (project.rs:955): it goes only with the task it is linked
\* to, and only if the export carried all that goes.
EvidenceStays ==
  [][/\ DOMAIN commit \subseteq DOMAIN commit'
     /\ \A c \in DOMAIN commit : commit[c].task \in DOMAIN task' =>
          commit'[c].task = commit[c].task
     /\ ~(DOMAIN issue \subseteq DOMAIN issue') => GoneAsExported]_vars

\* A task that leaves a plan which stays was converted, and its whole trail,
\* notes and commits, is on the plan it became.
ConvertKeepsTrail ==
  [][\A t \in DOMAIN task \ DOMAIN task' : task[t].plan \in DOMAIN plan' =>
       \E q \in DOMAIN plan' \ DOMAIN plan :
         /\ \A n \in DOMAIN note : note[n] = [target |-> "task", id |-> t] =>
              n \in DOMAIN note' /\ note'[n] = [target |-> "plan", id |-> q]
         /\ \A c \in DOMAIN commit : commit[c].task = t =>
              commit'[c] = [plan |-> q, task |-> 0]]_vars

\* A new task starts without evidence: no commit recorded earlier, whose link
\* may outlive the task it named, is linked to a task that appears now.
FreshTaskUnlinked ==
  [][\A t \in DOMAIN task' \ DOMAIN task : \A c \in DOMAIN commit :
       commit[c].task # t]_vars

\* What was recorded of a task is never lost nor misplaced by deletes, moves,
\* imports and conversions, and never turns up on another task.
TrailStays == EvidenceStays /\ ConvertKeepsTrail /\ FreshTaskUnlinked

\* A finished plan takes no new open work, neither a new task nor one moved from
\* elsewhere.  The one way around it is an issue: schedule_issue and
\* move_issue_task look for a done plan only, so an archived plan takes open
\* tasks, but none that no issue is linked to.
FinishedRefusesNewWork ==
  [][\A t \in DOMAIN task' : LET p == task'[t].plan IN
       /\ task'[t].status # "done"
       /\ p \in DOMAIN plan /\ plan[p].status # "active"
       /\ ~(t \in DOMAIN task /\ task[t].plan = p)
       => /\ plan[p].status = "archived"
          /\ \E i \in DOMAIN issue' : issue'[i].task = t]_vars
=============================================================================
