------------------------- MODULE ProjectStoreProofs -------------------------
(***************************************************************************)
(* What is true of a store of any size, proved for every choice of the     *)
(* constants of ProjectStore.                                              *)
(*                                                                         *)
(* First the state.  None of TypeOK, RefIntegrity, FinishedHoldsNothing    *)
(* and OwnersKnown is inductive alone: the type of a converted plan rests  *)
(* on the task's plan existing, and what it holds on the parent's claim.   *)
(* The induction is over Inv, which states them together, one part per     *)
(* collection, so that an action has to answer only for what it writes.    *)
(*                                                                         *)
(* Then what no transaction may do: pass a claim without a new epoch,      *)
(* change a plan that someone else has claimed, lose the evidence of a     *)
(* task, hand it to another one, drop the trail of a task that becomes a   *)
(* plan, add work to a finished plan, or close a cycle of dependencies.    *)
(* Each is proved of a single step from Inv; that evidence is not handed   *)
(* over needs also that a commit never names a task id which is yet to be  *)
(* minted.  The two deletes of a plan, and the two imports of one, are     *)
(* treated together: an import is of a subtree whose edges are acyclic and *)
(* whose records refer to each other, also when it comes from elsewhere.   *)
(*                                                                         *)
(* A graph is acyclic when every non-empty set of its records holds one    *)
(* that depends on nothing in the set.  Read that way no induction over    *)
(* paths is needed.  Removing records and edges keeps it; so does a new    *)
(* record that nothing depends on; so do copies, whose edges mirror the    *)
(* originals'; and an edge that passes the search of the store keeps it    *)
(* because a set that goes wrong would go wrong within what is reachable   *)
(* from the edge's end, where nothing has changed.                         *)
(***************************************************************************)
EXTENDS ProjectStore, CountingLemmas

MetaInv ==
  /\ seq \in [Collection -> Nat]
  /\ actors \subseteq Actor
  /\ exported \in CascadeRecord
  /\ session \in Actor \cup {NoActor, Closed}

PlanInv ==
  /\ DOMAIN plan \subseteq 1 .. seq["plan"]
  /\ \A p \in DOMAIN plan :
       /\ plan[p] \in PlanRecord
       /\ plan[p].deps \subseteq DOMAIN plan
       /\ plan[p].milestone <= seq["milestone"]
       /\ plan[p].status # "active" => plan[p].owner = NoActor /\ plan[p].hold = NoReason
       /\ plan[p].owner # NoActor => plan[p].owner \in actors /\ plan[p].epoch > 0

TaskInv ==
  /\ DOMAIN task \subseteq 1 .. seq["task"]
  /\ \A t \in DOMAIN task :
       /\ task[t] \in TaskRecord
       /\ task[t].plan \in DOMAIN plan
       /\ task[t].deps \subseteq DOMAIN task
       /\ task[t].status = "done" => task[t].hold = NoReason

NoteInv ==
  /\ DOMAIN note \subseteq 1 .. seq["note"]
  /\ \A n \in DOMAIN note :
       /\ note[n] \in NoteRecord
       /\ note[n].target = "project" => note[n].id = 0
       /\ note[n].target = "plan" => note[n].id \in DOMAIN plan
       /\ note[n].target = "task" => note[n].id \in DOMAIN task

IssueInv ==
  /\ DOMAIN issue \subseteq 1 .. seq["issue"]
  /\ \A i \in DOMAIN issue :
       issue[i] \in IssueRecord /\ issue[i].task \in DOMAIN task \cup {0}

CommitInv == DOMAIN commit \subseteq Sha /\ \A c \in DOMAIN commit : commit[c] \in CommitRecord

PointerInv ==
  /\ active \in DOMAIN plan \cup {0}
  /\ DOMAIN actives \subseteq Actor
  /\ \A a \in DOMAIN actives : actives[a] \in DOMAIN plan \cup {0}

Inv == MetaInv /\ PlanInv /\ TaskInv /\ NoteInv /\ IssueInv /\ CommitInv /\ PointerInv


-----------------------------------------------------------------------------
(* What an action leaves alone keeps its part of the invariant *)

\* Nothing the other parts refer to goes back: marks and directory only grow.
Grows == /\ MetaInv' /\ actors \subseteq actors'
         /\ \A c \in Collection : seq[c] <= seq'[c]

\* Every write transaction that leaves the marks alone, and the ones that
\* mint one record or n of them.
LEMMA GrowsLemma ==
  ASSUME Inv, Writing,
         \/ UNCHANGED seq
         \/ \E c \in Collection, n \in Nat : seq' = [seq EXCEPT ![c] = @ + n]
  PROVE  Grows
BY DEF Inv, MetaInv, Writing, Funnel, Grows, Collection

\* A transaction that touches none of the records Inv speaks of keeps Inv.
LEMMA Frame ==
  ASSUME Inv, Grows
  PROVE  /\ UNCHANGED plan => PlanInv'
         /\ UNCHANGED task /\ DOMAIN plan \subseteq DOMAIN plan' => TaskInv'
         /\ /\ UNCHANGED note
            /\ DOMAIN plan \subseteq DOMAIN plan' /\ DOMAIN task \subseteq DOMAIN task'
            => NoteInv'
         /\ UNCHANGED issue /\ DOMAIN task \subseteq DOMAIN task' => IssueInv'
         /\ UNCHANGED commit => CommitInv'
         /\ UNCHANGED <<active, actives>> /\ DOMAIN plan \subseteq DOMAIN plan'
            => PointerInv'
<1>1. UNCHANGED plan => PlanInv'
  BY DEF Inv, MetaInv, PlanInv, PlanRecord, Grows, Collection
<1>2. UNCHANGED task /\ DOMAIN plan \subseteq DOMAIN plan' => TaskInv'
  BY DEF Inv, MetaInv, TaskInv, Grows, Collection
<1>3. /\ UNCHANGED note
      /\ DOMAIN plan \subseteq DOMAIN plan' /\ DOMAIN task \subseteq DOMAIN task'
      => NoteInv'
  BY DEF Inv, MetaInv, NoteInv, NoteRecord, Grows, Collection
<1>4. UNCHANGED issue /\ DOMAIN task \subseteq DOMAIN task' => IssueInv'
  BY DEF Inv, MetaInv, IssueInv, Grows, Collection
<1>5. UNCHANGED commit => CommitInv'
  BY DEF Inv, CommitInv
<1>6. UNCHANGED <<active, actives>> /\ DOMAIN plan \subseteq DOMAIN plan' => PointerInv'
  BY DEF Inv, PointerInv
<1>7. QED BY <1>1, <1>2, <1>3, <1>4, <1>5, <1>6

-----------------------------------------------------------------------------
(* One lemma per action *)

\* A transaction of a session that only registers the actor keeps Inv.
LEMMA SessionInv ==
  ASSUME Inv, (\E a \in Callers : Open(a)) \/ Close
  PROVE  Inv'
<1>1. Grows
  BY ActorAssumption DEF Inv, MetaInv, Grows, Open, Close, Collection
<1>2. QED BY <1>1, Frame DEF Inv, Open, Close, Grows

\* add_milestone mints a milestone id and nothing else.
LEMMA AddMilestoneInv ==
  ASSUME Inv, AddMilestone
  PROVE  Inv'
<1>1. Grows BY GrowsLemma DEF AddMilestone, Collection
<1>2. QED BY <1>1, Frame DEF Inv, AddMilestone, Grows

\* A replayed request changes the directory at most.
LEMMA ReplayInv ==
  ASSUME Inv, Replay
  PROVE  Inv'
<1>1. Grows BY GrowsLemma DEF Replay, Collection
<1>2. QED BY <1>1, Frame DEF Inv, Replay, Grows

\* add_plan: the new plan is unclaimed, and names a milestone and no plans.
LEMMA AddPlanInv ==
  ASSUME Inv, NEW m \in 0 .. MaxMilestone, AddPlan(m)
  PROVE  Inv'
<1>1. Grows BY GrowsLemma DEF AddPlan, Collection
<1>2. PlanInv'
  BY <1>1 DEF Inv, MetaInv, PlanInv, AddPlan, Grows, Put, NextId, NewPlan,
             PlanRecord, PlanStatus, Collection
<1>3. DOMAIN plan \subseteq DOMAIN plan' BY DEF AddPlan, Put
<1>4. QED BY <1>1, <1>2, <1>3, Frame DEF Inv, AddPlan, Grows

\* create_first_plan: the new plan becomes the shared active plan and exists.
LEMMA CreateFirstPlanInv ==
  ASSUME Inv, CreateFirstPlan
  PROVE  Inv'
<1>1. Grows BY GrowsLemma DEF CreateFirstPlan, Collection
<1>2. PlanInv'
  BY <1>1 DEF Inv, MetaInv, PlanInv, CreateFirstPlan, Grows, Put, NextId, NewPlan,
             PlanRecord, PlanStatus, Collection
<1>3. DOMAIN plan' = DOMAIN plan \cup {NextId("plan")} BY DEF CreateFirstPlan, Put
<1>4. PointerInv'
  BY <1>3 DEF Inv, PointerInv, CreateFirstPlan, Put
<1>5. QED BY <1>1, <1>2, <1>3, <1>4, Frame DEF Inv, CreateFirstPlan, Grows

\* use_plan: a claim is taken by a session in the directory, with the next epoch.
LEMMA UsePlanInv ==
  ASSUME Inv, NEW p \in DOMAIN plan \cup {0}, NEW steal \in BOOLEAN, UsePlan(p, steal)
  PROVE  Inv'
<1>1. Grows BY GrowsLemma DEF UsePlan
<1>2. PlanInv' /\ DOMAIN plan' = DOMAIN plan
  <2>1. CASE UNCHANGED plan BY <1>1, <2>1, Frame
  <2>2. CASE /\ TakesClaim(p, steal)
             /\ plan' = [plan EXCEPT ![p].owner = session, ![p].epoch = @ + 1]
    BY <1>1, <2>2 DEF Inv, MetaInv, PlanInv, UsePlan, Writing, Funnel, TakesClaim, Grows,
                    PlanRecord, PlanStatus, Collection
  <2>3. QED BY <2>1, <2>2 DEF UsePlan
<1>3. PointerInv' BY <1>2 DEF Inv, PointerInv, UsePlan, PointAt, Put
<1>4. QED BY <1>1, <1>2, <1>3, Frame DEF Inv, UsePlan, Grows

\* The actions that rewrite one plan, write at most notes on it, and leave the
\* rest alone.
LEMMA ReleasePlanInv ==
  ASSUME Inv, NEW p \in DOMAIN plan, ReleasePlan(p)
  PROVE  Inv'
<1>1. Grows BY GrowsLemma DEF ReleasePlan
<1>2. PlanInv' /\ DOMAIN plan' = DOMAIN plan
  BY <1>1 DEF Inv, MetaInv, PlanInv, ReleasePlan, Grows, PlanRecord, Collection
<1>3. QED BY <1>1, <1>2, Frame DEF Inv, ReleasePlan, Grows

\* set_plan_hold refuses a finished plan, so none is parked.
LEMMA SetPlanHoldInv ==
  ASSUME Inv, NEW p \in DOMAIN plan, NEW r \in Reason \cup {NoReason}, SetPlanHold(p, r)
  PROVE  Inv'
<1>1. Grows BY GrowsLemma DEF SetPlanHold
<1>2. PlanInv' /\ DOMAIN plan' = DOMAIN plan
  BY <1>1 DEF Inv, MetaInv, PlanInv, SetPlanHold, Grows, PlanRecord, Collection
<1>3. QED BY <1>1, <1>2, Frame DEF Inv, SetPlanHold, Grows

\* set_plan_milestone names a milestone that was minted.
LEMMA SetPlanMilestoneInv ==
  ASSUME Inv, NEW p \in DOMAIN plan, NEW m \in 0 .. MaxMilestone, SetPlanMilestone(p, m)
  PROVE  Inv'
<1>1. Grows BY GrowsLemma DEF SetPlanMilestone
<1>2. PlanInv' /\ DOMAIN plan' = DOMAIN plan
  BY <1>1 DEF Inv, MetaInv, PlanInv, SetPlanMilestone, Grows, PlanRecord, Collection
<1>3. QED BY <1>1, <1>2, Frame DEF Inv, SetPlanMilestone, Grows

\* add_plan_dep and remove_plan_dep name plans that exist.
LEMMA PlanDepInv ==
  ASSUME Inv, NEW p \in DOMAIN plan, NEW d \in DOMAIN plan,
         AddPlanDep(p, d) \/ RemovePlanDep(p, d)
  PROVE  Inv'
<1>1. Grows BY GrowsLemma DEF AddPlanDep, RemovePlanDep
<1>2. PlanInv' /\ DOMAIN plan' = DOMAIN plan
  BY <1>1 DEF Inv, MetaInv, PlanInv, AddPlanDep, RemovePlanDep, Grows, PlanRecord,
             Collection
<1>3. QED BY <1>1, <1>2, Frame DEF Inv, AddPlanDep, RemovePlanDep, Grows

\* The notes of a transaction get fresh ids and name the record it changes.
LEMMA WriteNotesInv ==
  ASSUME Inv, NEW r \in NoteTargets, NEW k \in Nat, WriteNotes(r.target, r.id, k),
         seq' = [seq EXCEPT !["note"] = @ + k],
         DOMAIN plan \subseteq DOMAIN plan', DOMAIN task \subseteq DOMAIN task'
  PROVE  NoteInv'
<1>1. /\ r.target \in {"project", "plan", "task"} /\ r.id \in Nat
      /\ r.target = "project" => r.id = 0
      /\ r.target = "plan" => r.id \in DOMAIN plan
      /\ r.target = "task" => r.id \in DOMAIN task
  BY DEF Inv, PlanInv, TaskInv, MetaInv, NoteTargets, Collection
<1>2. DOMAIN note' \subseteq 1 .. seq'["note"]
  BY DEF Inv, NoteInv, MetaInv, WriteNotes, NextId, Collection
<1>3. ASSUME NEW n \in DOMAIN note'
      PROVE  note'[n] = IF n \in DOMAIN note THEN note[n]
                                            ELSE [target |-> r.target, id |-> r.id]
  BY DEF WriteNotes
<1>4. QED BY <1>1, <1>2, <1>3 DEF Inv, NoteInv, NoteRecord

\* Finishing a plan empties what it holds, whatever it held.
LEMMA WithPlanStatusInv ==
  ASSUME Inv, Grows, NEW p \in DOMAIN plan, NEW s \in PlanStatus,
         plan' = [plan EXCEPT ![p] = WithPlanStatus(@, s)]
  PROVE  PlanInv' /\ DOMAIN plan' = DOMAIN plan
<1>1. DOMAIN plan' = DOMAIN plan OBVIOUS
<1>2. plan'[p] = WithPlanStatus(plan[p], s)
      /\ \A q \in DOMAIN plan : q # p => plan'[q] = plan[q]
  OBVIOUS
<1>3. plan[p] \in PlanRecord BY DEF Inv, PlanInv
<1>4. /\ plan'[p] \in PlanRecord
      /\ plan'[p].deps = plan[p].deps /\ plan'[p].milestone = plan[p].milestone
      /\ plan'[p].epoch = plan[p].epoch /\ plan'[p].status = s
      /\ s # "active" => plan'[p].owner = NoActor /\ plan'[p].hold = NoReason
      /\ s = "active" => plan'[p].owner = plan[p].owner
      /\ plan'[p].owner # NoActor => plan'[p].owner = plan[p].owner
  BY <1>2, <1>3 DEF WithPlanStatus, PlanRecord
<1>5. QED BY <1>1, <1>2, <1>3, <1>4
        DEF Inv, MetaInv, PlanInv, Grows, PlanRecord, Collection

\* set_plan_status with its notes keeps Inv.
LEMMA SetPlanStatusInv ==
  ASSUME Inv, NEW p \in DOMAIN plan, NEW s \in PlanStatusIn, NEW k \in 0 .. 1,
         SetPlanStatus(p, s, k)
  PROVE  Inv'
<1>1. k \in Nat /\ s \in PlanStatus BY InputAssumption DEF PlanStatus
<1>2. Grows BY <1>1, GrowsLemma DEF SetPlanStatus, Collection
<1>3. PlanInv' /\ DOMAIN plan' = DOMAIN plan
  BY <1>1, <1>2, WithPlanStatusInv DEF SetPlanStatus
<1>4. NoteInv'
  <2>1. [target |-> "plan", id |-> p] \in NoteTargets BY DEF NoteTargets
  <2>2. DOMAIN task \subseteq DOMAIN task' BY DEF SetPlanStatus
  <2>3. /\ WriteNotes([target |-> "plan", id |-> p].target,
                      [target |-> "plan", id |-> p].id, k)
        /\ seq' = [seq EXCEPT !["note"] = @ + k]
    BY DEF SetPlanStatus
  <2>4. QED BY <1>1, <1>3, <2>1, <2>2, <2>3, WriteNotesInv
<1>5. QED BY <1>2, <1>3, <1>4, Frame DEF Inv, SetPlanStatus, Grows

\* complete_plan, forced or not, keeps Inv.
LEMMA CompletePlanInv ==
  ASSUME Inv, NEW p \in DOMAIN plan, NEW force \in BOOLEAN, CompletePlan(p, force)
  PROVE  Inv'
<1> DEFINE k == IF OpenTasks(p) = {} THEN 0 ELSE 1
<1>1. k \in Nat OBVIOUS
<1>2. WriteNotes("plan", p, k) /\ seq' = [seq EXCEPT !["note"] = @ + k]
  BY DEF CompletePlan
<1>3. Grows
  <2> HIDE DEF k
  <2>1. QED BY <1>1, <1>2, GrowsLemma DEF CompletePlan, Collection
<1>4. PlanInv' /\ DOMAIN plan' = DOMAIN plan
  BY <1>3, WithPlanStatusInv DEF CompletePlan, PlanStatus
<1>5. NoteInv'
  <2> HIDE DEF k
  <2>1. [target |-> "plan", id |-> p] \in NoteTargets BY DEF NoteTargets
  <2>2. DOMAIN task \subseteq DOMAIN task' BY DEF CompletePlan
  <2>3. WriteNotes([target |-> "plan", id |-> p].target,
                   [target |-> "plan", id |-> p].id, k)
    BY <1>2
  <2>4. QED BY <1>1, <1>2, <1>4, <2>1, <2>2, <2>3, WriteNotesInv
<1>6. QED BY <1>3, <1>4, <1>5, Frame DEF Inv, CompletePlan, Grows

\* The two deletes differ in what becomes of the issues linked to the plan.
Deletion(p) == \E I \in {DetachIssues(TasksOf(p)), Drop(issue, IssuesOn(TasksOf(p)))} :
                 Delete(p, I)

\* delete_plan and delete_plan_for_move are deletes.
LEMMA DeletesOfPlan ==
  ASSUME NEW p, DeletePlan(p) \/ DeletePlanForMove(p)
  PROVE  Deletion(p)
BY DEF Deletion, DeletePlan, DeletePlanForMove

\* A delete takes every reference to what it deletes with it.
LEMMA DeletePlanInv ==
  ASSUME Inv, NEW p \in DOMAIN plan, Deletion(p)
  PROVE  Inv'
<1> DEFINE T == TasksOf(p)
<1>1. Grows BY GrowsLemma DEF Deletion, Delete
<1>2. DOMAIN plan' = DOMAIN plan \ {p} /\ DOMAIN task' = DOMAIN task \ T
  BY DEF Deletion, Delete, Drop, WithoutDeps
<1>3. PlanInv'
  BY SMTT(30), <1>1, <1>2 DEF Inv, MetaInv, PlanInv, Deletion, Delete, Drop, WithoutDeps,
                    Grows, PlanRecord, Collection
<1>4. TaskInv'
  <2>1. \A t \in DOMAIN task' : task'[t] = [task[t] EXCEPT !.deps = @ \ T]
    BY <1>2 DEF Deletion, Delete, Drop, WithoutDeps
  <2>2. \A t \in DOMAIN task : task[t] \in TaskRecord BY DEF Inv, TaskInv
  <2>3. \A t \in DOMAIN task' : task[t].plan # p BY <1>2 DEF TasksOf
  <2> HIDE DEF T
  <2>4. \A t \in DOMAIN task' :
          /\ task'[t] \in TaskRecord
          /\ task'[t].plan = task[t].plan /\ task'[t].deps = task[t].deps \ T
          /\ task'[t].status = task[t].status /\ task'[t].hold = task[t].hold
    BY <1>2, <2>1, <2>2 DEF TaskRecord
  <2>5. seq'["task"] = seq["task"] BY DEF Deletion, Delete
  <2>6. QED BY <1>2, <2>3, <2>4, <2>5 DEF Inv, TaskInv
<1>5. NoteInv'
  BY <1>1, <1>2 DEF Inv, MetaInv, NoteInv, NoteRecord, Deletion, Delete, Drop, NotesOn,
                    Grows, Collection
<1>6. IssueInv'
  <2>1. CASE issue' = DetachIssues(T)
    BY <1>1, <1>2, <2>1 DEF Inv, MetaInv, IssueInv, IssueRecord, DetachIssues, Grows,
                            Collection
  <2>2. CASE issue' = Drop(issue, IssuesOn(T))
    BY <1>1, <1>2, <2>2 DEF Inv, MetaInv, IssueInv, Drop, IssuesOn, Grows, Collection
  <2>3. QED BY <2>1, <2>2 DEF Deletion, Delete
<1>7. CommitInv'
  BY DEF Inv, CommitInv, CommitRecord, Deletion, Delete, DetachCommits
<1>8. PointerInv'
  BY <1>2 DEF Inv, PointerInv, Deletion, Delete, ForgetActive
<1>9. QED BY <1>1, <1>3, <1>4, <1>5, <1>6, <1>7, <1>8 DEF Inv, Grows
-----------------------------------------------------------------------------
(* Tasks *)

\* add_task names a plan that exists.
LEMMA AddTaskInv ==
  ASSUME Inv, NEW p \in DOMAIN plan, AddTask(p) \/ CreateFirstTask(p)
  PROVE  Inv'
<1>0. AddTask(p) BY DEF CreateFirstTask
<1>1. Grows BY <1>0, GrowsLemma DEF AddTask, Collection
<1>2. TaskInv' /\ DOMAIN task \subseteq DOMAIN task'
  BY <1>0, <1>1 DEF Inv, MetaInv, TaskInv, AddTask, Put, NextId, NewTask, Grows,
                    PlanInv, TaskRecord, TaskStatus, Collection
<1>3. QED BY <1>0, <1>1, <1>2, Frame DEF Inv, AddTask, Grows

\* set_task_status: a task that is done loses its hold.
LEMMA SetTaskStatusInv ==
  ASSUME Inv, NEW t \in DOMAIN task, NEW s \in TaskStatusIn, NEW k \in 0 .. 1,
         SetTaskStatus(t, s, k)
  PROVE  Inv'
<1>1. k \in Nat /\ s \in TaskStatus BY InputAssumption DEF TaskStatus
<1>2. Grows BY <1>1, GrowsLemma DEF SetTaskStatus, Collection
<1>3. TaskInv' /\ DOMAIN task' = DOMAIN task
  <2>1. task' = [task EXCEPT ![t] = WithTaskStatus(@, s)] BY DEF SetTaskStatus
  <2>2. /\ WithTaskStatus(task[t], s) \in TaskRecord
        /\ LET r == WithTaskStatus(task[t], s) IN
             /\ r.plan = task[t].plan /\ r.deps = task[t].deps /\ r.status = s
             /\ s = "done" => r.hold = NoReason
    <3>1. ASSUME NEW r \in TaskRecord
          PROVE  LET w == WithTaskStatus(r, s) IN
                 /\ w = [r EXCEPT !.status = s, !.hold = w.hold]
                 /\ w.hold \in Reason \cup {NoReason}
                 /\ w.plan = r.plan /\ w.deps = r.deps /\ w.status = s
                 /\ s = "done" => w.hold = NoReason
      BY DEF WithTaskStatus, TaskRecord
    <3>2. ASSUME NEW r \in TaskRecord, NEW h \in Reason \cup {NoReason}
          PROVE  [r EXCEPT !.status = s, !.hold = h] \in TaskRecord
      BY <1>1 DEF TaskRecord
    <3>3. task[t] \in TaskRecord BY DEF Inv, TaskInv
    <3>4. QED BY <3>1, <3>2, <3>3
  <2>3. QED BY <1>2, <2>1, <2>2
          DEF Inv, MetaInv, TaskInv, SetTaskStatus, Grows, Collection
<1>4. NoteInv'
  <2>1. [target |-> "task", id |-> t] \in NoteTargets BY DEF NoteTargets
  <2>2. DOMAIN plan \subseteq DOMAIN plan' BY DEF SetTaskStatus
  <2>3. /\ WriteNotes([target |-> "task", id |-> t].target,
                      [target |-> "task", id |-> t].id, k)
        /\ seq' = [seq EXCEPT !["note"] = @ + k]
    BY DEF SetTaskStatus
  <2>4. QED BY <1>1, <1>3, <2>1, <2>2, <2>3, WriteNotesInv
<1>5. QED BY <1>2, <1>3, <1>4, Frame DEF Inv, SetTaskStatus, Grows

\* set_task_hold refuses a done task, so none is parked.
LEMMA SetTaskHoldInv ==
  ASSUME Inv, NEW t \in DOMAIN task, NEW r \in Reason \cup {NoReason}, SetTaskHold(t, r)
  PROVE  Inv'
<1>1. Grows BY GrowsLemma DEF SetTaskHold
<1>2. TaskInv' /\ DOMAIN task' = DOMAIN task
  BY <1>1 DEF Inv, MetaInv, TaskInv, SetTaskHold, Grows, TaskRecord, Collection
<1>3. QED BY <1>1, <1>2, Frame DEF Inv, SetTaskHold, Grows

\* set_task_plan names a plan that exists.
LEMMA SetTaskPlanInv ==
  ASSUME Inv, NEW t \in DOMAIN task, NEW p \in DOMAIN plan, SetTaskPlan(t, p)
  PROVE  Inv'
<1>1. Grows BY GrowsLemma DEF SetTaskPlan
<1>2. TaskInv' /\ DOMAIN task' = DOMAIN task
  BY <1>1 DEF Inv, MetaInv, PlanInv, TaskInv, SetTaskPlan, Grows, TaskRecord, Collection
<1>3. QED BY <1>1, <1>2, Frame DEF Inv, SetTaskPlan, Grows

\* add_task_dep and remove_task_dep name tasks that exist.
LEMMA TaskDepInv ==
  ASSUME Inv, NEW t \in DOMAIN task, NEW d \in DOMAIN task,
         AddTaskDep(t, d) \/ RemoveTaskDep(t, d)
  PROVE  Inv'
<1>1. Grows BY GrowsLemma DEF AddTaskDep, RemoveTaskDep
<1>2. TaskInv' /\ DOMAIN task' = DOMAIN task
  BY <1>1 DEF Inv, MetaInv, TaskInv, AddTaskDep, RemoveTaskDep, Grows, TaskRecord,
              Collection
<1>3. QED BY <1>1, <1>2, Frame DEF Inv, AddTaskDep, RemoveTaskDep, Grows

\* convert_task_to_plan: whatever named the task names its plan.
LEMMA ConvertTaskToPlanInv ==
  ASSUME Inv, NEW t \in DOMAIN task, ConvertTaskToPlan(t)
  PROVE  Inv'
<1> DEFINE q == NextId("plan")
<1>1. Grows BY GrowsLemma DEF ConvertTaskToPlan, Collection
<1>2. DOMAIN plan' = DOMAIN plan \cup {q} /\ DOMAIN task' = DOMAIN task \ {t} /\ q \in Nat
  BY DEF ConvertTaskToPlan, Put, Drop, WithoutDeps, NextId, Inv, MetaInv, Collection
<1>3. /\ ConvertedPlan(t) \in PlanRecord
      /\ LET r == ConvertedPlan(t) IN
           /\ r.deps = {}
           /\ r.milestone <= seq["milestone"]
           /\ r.status # "active" => r.owner = NoActor /\ r.hold = NoReason
           /\ r.owner # NoActor => r.owner \in actors' /\ r.epoch > 0
  BY DEF Inv, MetaInv, PlanInv, TaskInv, ConvertTaskToPlan, Writing, Funnel, ConvertedPlan,
         PlanRecord, TaskRecord, PlanStatus, Collection
<1>4. PlanInv'
  BY <1>1, <1>2, <1>3 DEF Inv, MetaInv, PlanInv, ConvertTaskToPlan, Put, NextId, Grows,
                          PlanRecord, Collection
<1>5. TaskInv'
  BY <1>1, <1>2 DEF Inv, MetaInv, TaskInv, ConvertTaskToPlan, Drop, WithoutDeps, Grows,
                    TaskRecord, Collection
<1>6. NoteInv'
  BY <1>1, <1>2 DEF Inv, MetaInv, NoteInv, NoteRecord, ConvertTaskToPlan, NotesToPlan,
                    Grows, Collection
<1>7. IssueInv'
  BY <1>1, <1>2 DEF Inv, MetaInv, IssueInv, IssueRecord, ConvertTaskToPlan, DetachIssues,
                    Grows, Collection
<1>8. CommitInv'
  BY <1>2 DEF Inv, CommitInv, CommitRecord, ConvertTaskToPlan, CommitsToPlan
<1>9. QED BY <1>1, <1>2, <1>4, <1>5, <1>6, <1>7, <1>8, Frame
         DEF Inv, ConvertTaskToPlan, Grows

-----------------------------------------------------------------------------
(* Notes, issues and commits *)

\* add_note names a record that exists.
LEMMA AddNoteInv ==
  ASSUME Inv, NEW r \in NoteTargets, AddNote(r)
  PROVE  Inv'
<1>1. Grows BY GrowsLemma DEF AddNote, Collection
<1>2. NoteInv'
  <2>1. /\ WriteNotes(r.target, r.id, 1) /\ seq' = [seq EXCEPT !["note"] = @ + 1]
        /\ UNCHANGED <<plan, task>>
    BY DEF AddNote
  <2>2. QED BY <2>1, WriteNotesInv
<1>3. QED BY <1>1, <1>2, Frame DEF Inv, AddNote, Grows

\* add_issue: the new issue is scheduled nowhere.
LEMMA AddIssueInv ==
  ASSUME Inv, NEW t \in DOMAIN task \cup {0}, AddIssue(t)
  PROVE  Inv'
<1>1. Grows BY GrowsLemma DEF AddIssue, Collection
<1>2. t \in Nat BY DEF Inv, MetaInv, TaskInv, Collection
<1>3. IssueInv'
  BY <1>1, <1>2 DEF Inv, MetaInv, IssueInv, IssueRecord, AddIssue, Put, NextId, Grows,
                    Collection
<1>4. QED BY <1>1, <1>3, Frame DEF Inv, AddIssue, Grows

\* Editing an issue, or linking it to a task that exists, keeps Inv.
LEMMA EditIssueInv ==
  ASSUME Inv, NEW i \in DOMAIN issue,
         \/ \E s \in {"open", "closed"} : SetIssueStatus(i, s)
         \/ \E t \in DOMAIN task \cup {0} : SetIssueTask(i, t)
  PROVE  Inv'
<1>1. Grows BY GrowsLemma DEF SetIssueStatus, SetIssueTask
<1>2. DOMAIN task \subseteq Nat BY DEF Inv, MetaInv, TaskInv, Collection
<1>3. IssueInv'
  BY <1>1, <1>2 DEF Inv, MetaInv, IssueInv, IssueRecord, SetIssueStatus, SetIssueTask,
                    Grows, Collection
<1>4. QED BY <1>1, <1>3, Frame DEF Inv, SetIssueStatus, SetIssueTask, Grows

\* move_issue_task moves the task to a plan that exists.
LEMMA MoveIssueTaskInv ==
  ASSUME Inv, NEW i \in DOMAIN issue, NEW p \in DOMAIN plan, MoveIssueTask(i, p)
  PROVE  Inv'
<1>1. Grows BY GrowsLemma DEF MoveIssueTask
<1>2. TaskInv' /\ DOMAIN task' = DOMAIN task
  BY <1>1 DEF Inv, MetaInv, PlanInv, TaskInv, IssueInv, MoveIssueTask, Grows, TaskRecord,
              Collection
<1>3. QED BY <1>1, <1>2, Frame DEF Inv, MoveIssueTask, Grows

\* schedule_issue links the issue to the task it adds.
LEMMA ScheduleIssueInv ==
  ASSUME Inv, NEW i \in DOMAIN issue, NEW p \in DOMAIN plan, ScheduleIssue(i, p)
  PROVE  Inv'
<1>1. Grows BY GrowsLemma DEF ScheduleIssue, Collection
<1>2. TaskInv' /\ DOMAIN task' = DOMAIN task \cup {NextId("task")}
  BY <1>1 DEF Inv, MetaInv, PlanInv, TaskInv, ScheduleIssue, Put, NextId, NewTask, Grows,
              TaskRecord, TaskStatus, Collection
<1>3. IssueInv'
  BY <1>1, <1>2 DEF Inv, MetaInv, IssueInv, IssueRecord, ScheduleIssue, NextId, Grows,
                    Collection
<1>4. QED BY <1>1, <1>2, <1>3, Frame DEF Inv, ScheduleIssue, Grows

\* add_commit names a plan and a task that exist, or none.
LEMMA AddCommitInv ==
  ASSUME Inv, NEW c \in Sha, NEW p \in 0 .. MaxPlan, NEW t \in 0 .. MaxTask,
         AddCommit(c, p, t)
  PROVE  Inv'
<1>1. Grows BY GrowsLemma DEF AddCommit
<1>2. CommitInv'
  BY BoundAssumption DEF Inv, CommitInv, CommitRecord, AddCommit, Put
<1>3. QED BY <1>1, <1>2, Frame DEF Inv, AddCommit, Grows

-----------------------------------------------------------------------------
(* Exporting and importing a plan *)

\* The ids minted for the copies of a finite set are above the old mark and
\* not above the new one, and each is the copy of a record of the set.
LEMMA MintedLemma ==
  ASSUME NEW c \in Collection, seq \in [Collection -> Nat],
         NEW S \in SUBSET Nat, IsFiniteSet(S)
  PROVE  /\ Cardinality(S) \in Nat
         /\ MintedIds(c, S) \subseteq seq[c] + 1 .. seq[c] + Cardinality(S)
         /\ \A k \in MintedIds(c, S) : Source(c, S, k) \in S
<1>1. Cardinality(S) \in Nat BY FS_CardinalityType
<1>2. ASSUME NEW x \in S
      PROVE  Minted(c, S, x) \in seq[c] + 1 .. seq[c] + Cardinality(S)
  <2> DEFINE U == {y \in S : y <= x}
  <2>1. IsFiniteSet(U) /\ Cardinality(U) <= Cardinality(S) BY FS_Subset
  <2>2. Cardinality(U) \in Nat BY <2>1, FS_CardinalityType
  <2>3. Cardinality(U) # 0 BY <2>1, FS_EmptySet
  <2>4. QED BY <1>1, <2>1, <2>2, <2>3 DEF Minted
<1>3. QED BY <1>1, <1>2 DEF MintedIds, Source

\* What belongs to a plan is part of the invariant, so it is a finite set of
\* numbers.
LEMMA CopiedSets ==
  ASSUME Inv, NEW p
  PROVE  LET T == TasksOf(p) IN
         /\ T \in SUBSET Nat /\ IsFiniteSet(T)
         /\ NotesOn(p, T) \in SUBSET Nat /\ IsFiniteSet(NotesOn(p, T))
         /\ IssuesOn(T) \in SUBSET Nat /\ IsFiniteSet(IssuesOn(T))
<1>1. ASSUME NEW c \in Collection PROVE IsFiniteSet(1 .. seq[c])
  <2>1. seq[c] \in Int BY DEF Inv, MetaInv
  <2>2. QED BY <2>1, FS_Interval
<1>2. ASSUME NEW S, NEW c \in Collection, S \subseteq 1 .. seq[c]
      PROVE  S \in SUBSET Nat /\ IsFiniteSet(S)
  <2>1. seq[c] \in Nat BY DEF Inv, MetaInv
  <2>2. S \in SUBSET (1 .. seq[c]) BY <1>2
  <2>3. IsFiniteSet(S) BY <1>1, <2>2, FS_Subset
  <2>4. QED BY <2>1, <2>2, <2>3
<1>3. /\ TasksOf(p) \subseteq 1 .. seq["task"]
      /\ NotesOn(p, TasksOf(p)) \subseteq 1 .. seq["note"]
      /\ IssuesOn(TasksOf(p)) \subseteq 1 .. seq["issue"]
  BY DEF Inv, TaskInv, NoteInv, IssueInv, TasksOf, NotesOn, IssuesOn
<1>4. {"task", "note", "issue"} \subseteq Collection BY DEF Collection
<1>5. QED BY <1>2, <1>3, <1>4

\* export_plan_subtree changes nothing but what its caller has.
LEMMA ExportPlanInv ==
  ASSUME Inv, NEW p \in DOMAIN plan, ExportPlan(p)
  PROVE  Inv'
<1>1. Cascade(p) \in CascadeRecord
  <2>1. p \in Nat BY DEF Inv, MetaInv, PlanInv, Collection
  <2>2. CommitsOn(p, TasksOf(p)) \subseteq Sha BY DEF Inv, CommitInv, CommitsOn
  <2>3. QED BY <2>1, <2>2, CopiedSets DEF Cascade, CascadeRecord
<1>2. Grows BY <1>1 DEF Inv, MetaInv, ExportPlan, Funnel, Grows, Collection
<1>3. QED BY <1>2, Frame DEF Inv, ExportPlan, Grows

\* What an import is given: a subtree, and plans and tasks of the store.
Imports(s, P, K) == /\ IsSubtree(s) /\ P \subseteq DOMAIN plan /\ K \subseteq DOMAIN task
                    /\ Import(s, P, K)
Arrival == (\E p \in DOMAIN plan : CopyPlan(p)) \/ \E s \in Arrivals : ImportPlan(s)

\* What a copy exports is a subtree.
LEMMA SubtreeOfPlan ==
  ASSUME Inv, NEW p \in DOMAIN plan
  PROVE  IsSubtree(Subtree(p)) /\ (Acyclic(task) => Acyclic(Subtree(p).task))
<1> DEFINE T == TasksOf(p)
           C == CommitsOn(p, T)
<1>1. /\ Subtree(p).plan = plan[p] /\ Subtree(p).task = Only(task, T)
      /\ Subtree(p).note = Only(note, NotesOn(p, T))
      /\ Subtree(p).issue = Only(issue, IssuesOn(T)) /\ Subtree(p).commit = Only(commit, C)
  BY DEF Subtree, Cascade
<1>2. /\ \A t \in T : /\ t \in DOMAIN task /\ task[t] \in TaskRecord
                      /\ task[t].status = "done" => task[t].hold = NoReason
      /\ plan[p] \in PlanRecord /\ (plan[p].status # "active" => plan[p].hold = NoReason)
  BY DEF Inv, PlanInv, TaskInv, TasksOf
<1>3. \A n \in NotesOn(p, T) : /\ n \in DOMAIN note /\ note[n] \in NoteRecord
                               /\ note[n].target # "project"
                               /\ note[n].target = "task" => note[n].id \in T
  BY DEF Inv, NoteInv, NotesOn
<1>4. \A i \in IssuesOn(T) : issue[i] \in IssueRecord /\ issue[i].task \in T
  BY DEF Inv, IssueInv, IssuesOn
<1>5. \A c \in C : c \in Sha /\ commit[c] \in CommitRecord
  BY DEF Inv, CommitInv, CommitsOn
<1>6. Ids(T) /\ Ids(NotesOn(p, T)) /\ Ids(IssuesOn(T)) BY CopiedSets DEF Ids
<1>7. Acyclic(task) => Acyclic(Only(task, T))
  <2>1. T \subseteq DOMAIN task BY DEF TasksOf
  <2> HIDE DEF T
  <2>2. QED BY <2>1 DEF Acyclic, Only
<1> HIDE DEF T, C
<1>8. IsSubtree(Subtree(p)) BY <1>1, <1>2, <1>3, <1>4, <1>5, <1>6 DEF IsSubtree, Only
<1>9. QED BY <1>1, <1>7, <1>8

\* A copy of a plan and the arrival of one are imports.
LEMMA ImportsOfPlan ==
  ASSUME Inv, Arrival
  PROVE  \E s, P, K : Imports(s, P, K) /\ (Acyclic(task) => Acyclic(s.task))
<1>1. ASSUME NEW p \in DOMAIN plan, CopyPlan(p)
      PROVE  /\ Imports(Subtree(p), DOMAIN plan, DOMAIN task)
             /\ Acyclic(task) => Acyclic(Subtree(p).task)
  BY <1>1, SubtreeOfPlan DEF CopyPlan, Imports
<1>2. ASSUME NEW s \in Arrivals, ImportPlan(s) PROVE Imports(s, {}, {}) /\ Acyclic(s.task)
  BY <1>2, ArrivalAssumption DEF ImportPlan, Imports
<1>3. QED BY <1>1, <1>2 DEF Arrival

\* The collections an import mints in, and the ids of its copies.
LEMMA ImportedIds ==
  ASSUME Inv, NEW s, IsSubtree(s)
  PROVE  LET T == DOMAIN s.task  N == DOMAIN s.note  I == DOMAIN s.issue IN
         /\ Cardinality(T) \in Nat /\ Cardinality(N) \in Nat /\ Cardinality(I) \in Nat
         /\ MintedIds("task", T) \subseteq seq["task"] + 1 .. seq["task"] + Cardinality(T)
         /\ MintedIds("note", N) \subseteq seq["note"] + 1 .. seq["note"] + Cardinality(N)
         /\ MintedIds("issue", I) \subseteq seq["issue"] + 1 .. seq["issue"] + Cardinality(I)
         /\ \A k \in MintedIds("task", T) : Source("task", T, k) \in T
         /\ \A k \in MintedIds("note", N) : Source("note", N, k) \in N
         /\ \A k \in MintedIds("issue", I) : Source("issue", I, k) \in I
<1>1. seq \in [Collection -> Nat] /\ {"plan", "task", "note", "issue"} \subseteq Collection
  BY DEF Inv, MetaInv, Collection
<1>2. Ids(DOMAIN s.task) /\ Ids(DOMAIN s.note) /\ Ids(DOMAIN s.issue) BY DEF IsSubtree
<1>3. QED BY <1>1, <1>2, MintedLemma DEF Ids

\* import_plan_subtree: the copies name copies, under fresh ids.
LEMMA ImportInv ==
  ASSUME Inv, NEW s, NEW P, NEW R, Imports(s, P, R)
  PROVE  Inv'
<1> DEFINE T == DOMAIN s.task
           N == DOMAIN s.note
           I == DOMAIN s.issue
           q == NextId("plan")
<1>0. /\ IsSubtree(s) /\ P \subseteq DOMAIN plan /\ R \subseteq DOMAIN task
      /\ Import(s, P, R)
  BY DEF Imports
<1>1. seq \in [Collection -> Nat] BY DEF Inv, MetaInv
<1>2. {"plan", "task", "note", "issue"} \subseteq Collection BY DEF Collection
<1>3. /\ Cardinality(T) \in Nat /\ Cardinality(N) \in Nat /\ Cardinality(I) \in Nat
      /\ MintedIds("task", T) \subseteq seq["task"] + 1 .. seq["task"] + Cardinality(T)
      /\ MintedIds("note", N) \subseteq seq["note"] + 1 .. seq["note"] + Cardinality(N)
      /\ MintedIds("issue", I) \subseteq seq["issue"] + 1 .. seq["issue"] + Cardinality(I)
      /\ \A k \in MintedIds("task", T) : Source("task", T, k) \in T
      /\ \A k \in MintedIds("note", N) : Source("note", N, k) \in N
      /\ \A k \in MintedIds("issue", I) : Source("issue", I, k) \in I
  BY <1>0, ImportedIds
<1> HIDE DEF T, N, I
<1>4. /\ seq' = [seq EXCEPT !["plan"] = @ + 1, !["task"] = @ + Cardinality(T),
                            !["note"] = @ + Cardinality(N),
                            !["issue"] = @ + Cardinality(I)]
      /\ plan' = Put(plan, q, CopyPlanRecord(P, s.plan))
      /\ task' = WithCopies(task, "task", s.task, LAMBDA r : CopyTask(T, R, q, r))
      /\ note' = WithCopies(note, "note", s.note, LAMBDA r : CopyNote(T, q, r))
      /\ issue' = WithCopies(issue, "issue", s.issue,
                    LAMBDA r : [r EXCEPT !.task = Minted("task", T, @)])
      /\ commit' = WithCommits(T, q, s.commit)
      /\ UNCHANGED <<active, actives>> /\ Writing
  BY <1>0 DEF Import, T, N, I
<1>5a. /\ seq'["task"] = seq["task"] + Cardinality(T) /\ seq["task"] \in Nat
       /\ seq'["note"] = seq["note"] + Cardinality(N) /\ seq["note"] \in Nat
       /\ seq'["issue"] = seq["issue"] + Cardinality(I) /\ seq["issue"] \in Nat
  BY <1>1, <1>2, <1>4
<1>5. Grows
  BY <1>1, <1>3, <1>4 DEF Writing, Funnel, Inv, MetaInv, Grows, Collection
<1>6. PlanInv' /\ DOMAIN plan' = DOMAIN plan \cup {q}
  <2>1. /\ CopyPlanRecord(P, s.plan) \in PlanRecord
        /\ LET r == CopyPlanRecord(P, s.plan) IN
             /\ r.deps \subseteq DOMAIN plan /\ r.milestone = 0 /\ r.owner = NoActor
             /\ r.status # "active" => r.hold = NoReason
    <3>1. ASSUME NEW r \in PlanRecord, r.status # "active" => r.hold = NoReason
          PROVE  /\ CopyPlanRecord(P, r) \in PlanRecord
                 /\ CopyPlanRecord(P, r).deps \subseteq DOMAIN plan
                 /\ CopyPlanRecord(P, r).milestone = 0
                 /\ CopyPlanRecord(P, r).owner = NoActor
                 /\ CopyPlanRecord(P, r).status = r.status
                 /\ CopyPlanRecord(P, r).hold = r.hold
      BY <1>0 DEF CopyPlanRecord, PlanRecord
    <3>2. s.plan \in PlanRecord /\ (s.plan.status # "active" => s.plan.hold = NoReason)
      BY <1>0 DEF IsSubtree
    <3>3. QED BY <3>1, <3>2
  <2>2. seq'["plan"] = q /\ q = seq["plan"] + 1 BY <1>1, <1>2, <1>4 DEF NextId
  <2>3. QED BY <1>1, <1>2, <1>4, <1>5, <2>1, <2>2
          DEF Inv, MetaInv, PlanInv, Put, Grows, PlanRecord, Collection
<1>7. TaskInv' /\ DOMAIN task' = DOMAIN task \cup MintedIds("task", T)
  <2>1. DOMAIN task' = DOMAIN task \cup MintedIds("task", T)
    BY <1>4 DEF WithCopies, T
  <2>2. ASSUME NEW k \in DOMAIN task', k \notin DOMAIN task
        PROVE  /\ Source("task", T, k) \in T
               /\ task'[k] = CopyTask(T, R, q, s.task[Source("task", T, k)])
    BY <1>3, <1>4, <2>1, <2>2 DEF WithCopies, T
  <2>3. ASSUME NEW k \in DOMAIN task
        PROVE  task'[k] = task[k]
    BY <1>4, <2>1 DEF WithCopies
  <2>4. \A x \in T : Minted("task", T, x) \in MintedIds("task", T)
    BY DEF MintedIds
  <2>5. ASSUME NEW r \in TaskRecord, r.status = "done" => r.hold = NoReason
        PROVE  /\ CopyTask(T, R, q, r) \in TaskRecord
               /\ CopyTask(T, R, q, r).plan = q
               /\ CopyTask(T, R, q, r).deps \subseteq DOMAIN task'
               /\ CopyTask(T, R, q, r).status = "done" => CopyTask(T, R, q, r).hold = NoReason
    <3>1. DOMAIN task' \subseteq Nat /\ q \in Nat
      BY <1>1, <1>2, <1>3, <2>1 DEF Inv, TaskInv, NextId
    <3>2. CopyTask(T, R, q, r).deps \subseteq DOMAIN task'
      BY <1>0, <2>1, <2>4 DEF CopyTask, TaskRecord
    <3>3. QED BY <2>5, <3>1, <3>2 DEF CopyTask, TaskRecord
  <2>6. DOMAIN task' \subseteq 1 .. seq'["task"]
    BY <1>3, <1>5a, <2>1 DEF Inv, TaskInv
  <2>7. \A t \in T : /\ s.task[t] \in TaskRecord
                     /\ s.task[t].status = "done" => s.task[t].hold = NoReason
    BY <1>0 DEF IsSubtree, T
  <2>8. QED BY <1>6, <2>1, <2>2, <2>3, <2>5, <2>6, <2>7 DEF Inv, TaskInv
<1>8. NoteInv'
  <2>1. DOMAIN note' = DOMAIN note \cup MintedIds("note", N)
    BY <1>4 DEF WithCopies, N
  <2>2. ASSUME NEW k \in DOMAIN note', k \notin DOMAIN note
        PROVE  /\ Source("note", N, k) \in N
               /\ note'[k] = CopyNote(T, q, s.note[Source("note", N, k)])
    BY <1>3, <1>4, <2>1, <2>2 DEF WithCopies, N
  <2>3. ASSUME NEW k \in DOMAIN note
        PROVE  note'[k] = note[k]
    BY <1>4, <2>1 DEF WithCopies
  <2>4. DOMAIN note' \subseteq 1 .. seq'["note"]
    BY <1>3, <1>5a, <2>1 DEF Inv, NoteInv
  <2>5. ASSUME NEW n \in N
        PROVE  /\ CopyNote(T, q, s.note[n]) \in NoteRecord
               /\ CopyNote(T, q, s.note[n]).target = s.note[n].target
               /\ s.note[n].target \in {"plan", "task"}
               /\ s.note[n].target = "plan" => CopyNote(T, q, s.note[n]).id = q
               /\ s.note[n].target = "task" =>
                    CopyNote(T, q, s.note[n]).id \in MintedIds("task", T)
    <3>1. s.note[n] \in NoteRecord /\ s.note[n].target \in {"plan", "task"}
          /\ (s.note[n].target = "task" => s.note[n].id \in T)
      BY <1>0 DEF IsSubtree, NoteRecord, T, N
    <3>2. q \in Nat /\ MintedIds("task", T) \subseteq Nat
      BY <1>1, <1>2, <1>3 DEF NextId
    <3>3. s.note[n].target = "task" => Minted("task", T, s.note[n].id) \in MintedIds("task", T)
      BY <3>1 DEF MintedIds
    <3>4. QED BY <3>1, <3>2, <3>3 DEF CopyNote, NoteRecord
  <2>6. QED BY <1>6, <1>7, <2>1, <2>2, <2>3, <2>4, <2>5 DEF Inv, NoteInv
<1>9. IssueInv'
  <2>1. DOMAIN issue' = DOMAIN issue \cup MintedIds("issue", I)
    BY <1>4 DEF WithCopies, I
  <2>2. ASSUME NEW k \in DOMAIN issue', k \notin DOMAIN issue
        PROVE  LET i == Source("issue", I, k) IN
               /\ i \in I
               /\ issue'[k] = [s.issue[i] EXCEPT !.task = Minted("task", T, @)]
    BY <1>3, <1>4, <2>1, <2>2 DEF WithCopies, I
  <2>3. ASSUME NEW k \in DOMAIN issue
        PROVE  issue'[k] = issue[k]
    BY <1>4, <2>1 DEF WithCopies
  <2>4. DOMAIN issue' \subseteq 1 .. seq'["issue"]
    BY <1>3, <1>5a, <2>1 DEF Inv, IssueInv
  <2>5. ASSUME NEW i \in I
        PROVE  LET r == [s.issue[i] EXCEPT !.task = Minted("task", T, @)] IN
               r \in IssueRecord /\ r.task \in MintedIds("task", T)
    <3>1. s.issue[i] \in IssueRecord /\ s.issue[i].task \in T
      BY <1>0 DEF IsSubtree, T, I
    <3>2. MintedIds("task", T) \subseteq Nat BY <1>1, <1>2, <1>3
    <3>3. QED BY <3>1, <3>2 DEF MintedIds, IssueRecord
  <2>6. QED BY <1>7, <2>1, <2>2, <2>3, <2>4, <2>5 DEF Inv, IssueInv
<1>10. CommitInv'
  <2>1. q \in Nat /\ MintedIds("task", T) \subseteq Nat BY <1>1, <1>2, <1>3 DEF NextId
  <2>2. \A x \in T : Minted("task", T, x) \in Nat BY <2>1 DEF MintedIds
  <2>3. DOMAIN s.commit \subseteq Sha BY <1>0 DEF IsSubtree
  <2>4. QED BY <1>4, <2>1, <2>2, <2>3 DEF Inv, CommitInv, CommitRecord, WithCommits
<1>11. PointerInv' BY <1>4, <1>5, <1>6, Frame
<1>12. QED BY <1>5, <1>6, <1>7, <1>8, <1>9, <1>10, <1>11 DEF Inv, Grows

-----------------------------------------------------------------------------
(* The invariant *)

\* A new store satisfies Inv.
LEMMA InitInv == Init => Inv
BY DEF Init, Inv, MetaInv, PlanInv, TaskInv, NoteInv, IssueInv, CommitInv, PointerInv,
       Collection, NothingExported, CascadeRecord

\* Every transaction of the store keeps Inv.
LEMMA NextInv == Inv /\ [Next]_vars => Inv'
<1> SUFFICES ASSUME Inv, [Next]_vars PROVE Inv'
  OBVIOUS
<1>0. CASE Arrival BY <1>0, ImportsOfPlan, ImportInv
<1>1. CASE UNCHANGED vars
  BY <1>1 DEF vars, Inv, MetaInv, PlanInv, TaskInv, NoteInv, IssueInv, CommitInv, PointerInv
<1>2. CASE (\E a \in Callers : Open(a)) \/ Close
  BY <1>2, SessionInv
<1>3. CASE AddMilestone \/ (\E m \in 0 .. MaxMilestone : AddPlan(m)) \/ CreateFirstPlan \/ Replay
  BY <1>3, AddMilestoneInv, AddPlanInv, CreateFirstPlanInv, ReplayInv
<1>4. CASE UsePlan(0, FALSE)
  BY <1>4, UsePlanInv
<1>5. ASSUME NEW p \in DOMAIN plan, PlanStep(p) PROVE Inv'
  <2>1. CASE \E steal \in BOOLEAN : UsePlan(p, steal) BY <2>1, UsePlanInv
  <2>2. CASE ReleasePlan(p) BY <2>2, ReleasePlanInv
  <2>3. CASE \E s \in PlanStatusIn, k \in 0 .. 1 : SetPlanStatus(p, s, k)
    BY <2>3, SetPlanStatusInv
  <2>4. CASE \E force \in BOOLEAN : CompletePlan(p, force) BY <2>4, CompletePlanInv
  <2>5. CASE \E r \in Reason \cup {NoReason} : SetPlanHold(p, r) BY <2>5, SetPlanHoldInv
  <2>6. CASE \E m \in 0 .. MaxMilestone : SetPlanMilestone(p, m)
    BY <2>6, SetPlanMilestoneInv
  <2>7. CASE \E d \in DOMAIN plan : AddPlanDep(p, d) \/ RemovePlanDep(p, d)
    BY <2>7, PlanDepInv
  <2>8. CASE DeletePlan(p) \/ DeletePlanForMove(p) BY <2>8, DeletesOfPlan, DeletePlanInv
  <2>9. CASE CopyPlan(p) BY <1>0, <2>9 DEF Arrival
  <2>10. CASE AddTask(p) \/ CreateFirstTask(p) BY <2>10, AddTaskInv
  <2>11. CASE ExportPlan(p) BY <2>11, ExportPlanInv
  <2>12. QED
    BY <1>5, <2>1, <2>2, <2>3, <2>4, <2>5, <2>6, <2>7, <2>8, <2>9, <2>10, <2>11 DEF PlanStep
<1>6. ASSUME NEW t \in DOMAIN task, TaskStep(t) PROVE Inv'
  <2>1. CASE \E s \in TaskStatusIn, k \in 0 .. 1 : SetTaskStatus(t, s, k)
    BY <2>1, SetTaskStatusInv
  <2>2. CASE \E r \in Reason \cup {NoReason} : SetTaskHold(t, r) BY <2>2, SetTaskHoldInv
  <2>3. CASE \E p \in DOMAIN plan : SetTaskPlan(t, p) BY <2>3, SetTaskPlanInv
  <2>4. CASE \E d \in DOMAIN task : AddTaskDep(t, d) \/ RemoveTaskDep(t, d)
    BY <2>4, TaskDepInv
  <2>5. CASE ConvertTaskToPlan(t) BY <2>5, ConvertTaskToPlanInv
  <2>6. QED BY <1>6, <2>1, <2>2, <2>3, <2>4, <2>5 DEF TaskStep
<1>7. ASSUME NEW i \in DOMAIN issue, IssueStep(i) PROVE Inv'
  <2>1. CASE \/ \E s \in {"open", "closed"} : SetIssueStatus(i, s)
             \/ \E t \in DOMAIN task \cup {0} : SetIssueTask(i, t)
    BY <2>1, EditIssueInv
  <2>2. CASE \E p \in DOMAIN plan : MoveIssueTask(i, p) \/ ScheduleIssue(i, p)
    BY <2>2, MoveIssueTaskInv, ScheduleIssueInv
  <2>3. QED BY <1>7, <2>1, <2>2 DEF IssueStep
<1>8. CASE \E n \in NoteTargets : AddNote(n) BY <1>8, AddNoteInv
<1>9. CASE \E t \in DOMAIN task \cup {0} : AddIssue(t) BY <1>9, AddIssueInv
<1>10. CASE \E c \in Sha, p \in 0 .. MaxPlan, t \in 0 .. MaxTask : AddCommit(c, p, t)
  BY <1>10, AddCommitInv
<1>11. QED
  BY <1>0, <1>1, <1>2, <1>3, <1>4, <1>5, <1>6, <1>7, <1>8, <1>9, <1>10 DEF Next, Arrival

\* Inv holds in every state a store reaches.
THEOREM Invariance == Spec => []Inv
BY InitInv, NextInv, PTL DEF Spec

-----------------------------------------------------------------------------
(* The state properties the runs check *)

\* Inv implies the invariants the runs check.
LEMMA InvImplies == Inv => TypeOK /\ RefIntegrity /\ FinishedHoldsNothing /\ OwnersKnown
<1> SUFFICES ASSUME Inv PROVE TypeOK /\ RefIntegrity /\ FinishedHoldsNothing /\ OwnersKnown
  OBVIOUS
<1>1. DOMAIN plan \subseteq Nat
  BY DEF Inv, MetaInv, PlanInv, Collection
<1>2. RecordTypes
  BY DEF Inv, PlanInv, TaskInv, NoteInv, IssueInv, CommitInv, RecordTypes
<1>3. TypeOK
  BY <1>1, <1>2 DEF Inv, MetaInv, PlanInv, TaskInv, NoteInv, IssueInv, CommitInv,
                    PointerInv, TypeOK, IdsMinted
<1>4. NoteRefs
  <2>1. ASSUME NEW n \in DOMAIN note PROVE note[n] \in NoteTargets
    <3>1. /\ note[n].target \in {"project", "plan", "task"}
          /\ note[n] = [target |-> note[n].target, id |-> note[n].id]
      BY DEF Inv, NoteInv, NoteRecord
    <3>2. QED BY <3>1 DEF Inv, NoteInv, NoteTargets
  <2>2. QED BY <2>1 DEF NoteRefs
<1>5. PlanRefs /\ TaskRefs /\ IssueRefs /\ PointerRefs
  BY DEF Inv, PlanInv, TaskInv, IssueInv, PointerInv, PlanRefs, TaskRefs, IssueRefs,
         PointerRefs
<1>6. FinishedHoldsNothing /\ OwnersKnown
  BY DEF Inv, PlanInv, TaskInv, FinishedHoldsNothing, OwnersKnown
<1>7. QED BY <1>3, <1>4, <1>5, <1>6 DEF RefIntegrity

\* In every behaviour of the store, whatever the number of plans, tasks,
\* identities and processes, records have their types and minted ids.
THEOREM TypeCorrect == Spec => []TypeOK
BY Invariance, InvImplies, PTL

\* No sequence of the store's transactions leaves a reference dangling.
THEOREM NoDanglingReference == Spec => []RefIntegrity
BY Invariance, InvImplies, PTL

\* A finished plan never holds a claim or a hold, nor a done task a hold.
THEOREM FinishedIsFree == Spec => []FinishedHoldsNothing
BY Invariance, InvImplies, PTL

\* The owner of a claim is always in the directory, under a positive epoch.
THEOREM OwnersAreKnown == Spec => []OwnersKnown
BY Invariance, InvImplies, PTL

-----------------------------------------------------------------------------
(* What a transaction leaves alone *)

\* The kinds of steps, by what they leave alone.
Quiet == \/ UNCHANGED vars \/ (\E a \in Callers : Open(a)) \/ Close \/ AddMilestone \/ Replay
         \/ (\E n \in NoteTargets : AddNote(n)) \/ \E p \in DOMAIN plan : ExportPlan(p)

\* Opening, closing, exporting and replaying change no record, nor does adding a
\* milestone or a note change a plan, a task, an issue or a commit.
LEMMA QuietSteps == Quiet => UNCHANGED <<plan, task, issue, commit>>
BY DEF Quiet, vars, Open, Close, AddMilestone, Replay, AddNote, ExportPlan

\* The collections and marks of an import, and what it leaves alone.
LEMMA ImportEffects ==
  ASSUME Inv, Arrival
  PROVE  \E s, P, K : LET T == DOMAIN s.task  q == NextId("plan") IN
         /\ plan' = Put(plan, q, CopyPlanRecord(P, s.plan)) /\ q \notin DOMAIN plan
         /\ CopyPlanRecord(P, s.plan).deps \subseteq DOMAIN plan
         /\ DOMAIN task' = DOMAIN task \cup MintedIds("task", T)
         /\ MintedIds("task", T) \cap DOMAIN task = {}
         /\ \A t \in DOMAIN task : task'[t] = task[t]
         /\ \A k \in MintedIds("task", T) :
              /\ Source("task", T, k) \in T
              /\ task'[k] = CopyTask(T, K, q, s.task[Source("task", T, k)])
              /\ task'[k].plan = q
         /\ commit' = WithCommits(T, q, s.commit)
         /\ Cardinality(T) \in Nat /\ seq'["task"] = seq["task"] + Cardinality(T)
         /\ MintedIds("task", T) \subseteq seq["task"] + 1 .. seq["task"] + Cardinality(T)
         /\ Ids(T) /\ K \subseteq DOMAIN task
         /\ \A t \in T : s.task[t] \in TaskRecord
         /\ Acyclic(task) => Acyclic(s.task)
<1>1. PICK s, P, K : Imports(s, P, K) /\ (Acyclic(task) => Acyclic(s.task))
  BY ImportsOfPlan
<1> DEFINE T == DOMAIN s.task
           q == NextId("plan")
<1>2. /\ IsSubtree(s) /\ Ids(T) /\ s.plan \in PlanRecord
      /\ \A t \in T : s.task[t] \in TaskRecord
      /\ P \subseteq DOMAIN plan /\ K \subseteq DOMAIN task
  BY <1>1 DEF Imports, IsSubtree
<1>3. /\ plan' = Put(plan, q, CopyPlanRecord(P, s.plan))
      /\ task' = WithCopies(task, "task", s.task, LAMBDA r : CopyTask(T, K, q, r))
      /\ commit' = WithCommits(T, q, s.commit)
      /\ seq' = [seq EXCEPT !["plan"] = @ + 1, !["task"] = @ + Cardinality(T),
                            !["note"] = @ + Cardinality(DOMAIN s.note),
                            !["issue"] = @ + Cardinality(DOMAIN s.issue)]
  BY <1>1 DEF Imports, Import
<1>4. /\ seq \in [Collection -> Nat] /\ {"plan", "task", "note", "issue"} \subseteq Collection
      /\ DOMAIN plan \subseteq 1 .. seq["plan"] /\ DOMAIN task \subseteq 1 .. seq["task"]
  BY DEF Inv, MetaInv, PlanInv, TaskInv, Collection
<1>5. /\ Cardinality(T) \in Nat
      /\ MintedIds("task", T) \subseteq seq["task"] + 1 .. seq["task"] + Cardinality(T)
      /\ \A k \in MintedIds("task", T) : Source("task", T, k) \in T
  BY <1>2, ImportedIds
<1>6. seq'["task"] = seq["task"] + Cardinality(T)
  <2> HIDE DEF T
  <2>1. QED BY <1>3, <1>4
<1>7. q \notin DOMAIN plan /\ CopyPlanRecord(P, s.plan).deps \subseteq DOMAIN plan
  BY <1>2, <1>4 DEF NextId, CopyPlanRecord, PlanRecord
<1>8. MintedIds("task", T) \cap DOMAIN task = {}
  <2> HIDE DEF T
  <2>1. QED BY <1>4, <1>5
<1>9. /\ DOMAIN task' = DOMAIN task \cup MintedIds("task", T)
      /\ \A t \in DOMAIN task : task'[t] = task[t]
      /\ \A k \in MintedIds("task", T) :
           task'[k] = CopyTask(T, K, q, s.task[Source("task", T, k)])
  <2> HIDE DEF q
  <2>1. QED BY <1>3, <1>8 DEF WithCopies
<1>10. \A k \in MintedIds("task", T) : task'[k].plan = q
  <2>1. \A r \in TaskRecord : CopyTask(T, K, q, r).plan = q BY DEF CopyTask, TaskRecord
  <2>2. QED BY <1>2, <1>5, <1>9, <2>1
<1> HIDE DEF T, q
<1>11. QED BY <1>1, <1>2, <1>3, <1>5, <1>6, <1>7, <1>8, <1>9, <1>10 DEF T, q

-----------------------------------------------------------------------------
(* Epochs *)

\* An epoch never goes back, and a new owner comes with a new one.
Fenced(r, s) == /\ s.epoch >= r.epoch
                /\ s.owner \notin {NoActor, r.owner} => s.epoch > r.epoch
EpochStep == \A p \in DOMAIN plan \cap DOMAIN plan' : Fenced(plan[p], plan'[p])

\* A record that keeps its epoch, and its owner or none, is fenced.
LEMMA Fences ==
  ASSUME Inv, \A p \in DOMAIN plan \cap DOMAIN plan' :
                plan'[p].epoch = plan[p].epoch /\ plan'[p].owner \in {NoActor, plan[p].owner}
  PROVE  EpochStep
<1>1. \A p \in DOMAIN plan : plan[p].epoch \in Nat BY DEF Inv, PlanInv, PlanRecord
<1>2. QED BY <1>1 DEF EpochStep, Fenced

\* The claims of a step.
LEMMA EpochSteps ==
  ASSUME Inv, [Next]_vars
  PROVE  EpochStep
<1>1. \A p \in DOMAIN plan : plan[p] \in PlanRecord BY DEF Inv, PlanInv
<1>2. NextId("plan") \notin DOMAIN plan
  BY DEF Inv, MetaInv, PlanInv, NextId, Collection
<1>3. CASE UNCHANGED plan BY <1>3, Fences
<1>4. CASE \E r : plan' = Put(plan, NextId("plan"), r) BY <1>2, <1>4, Fences DEF Put
<1>5. CASE Quiet \/ Arrival BY <1>3, <1>4, <1>5, QuietSteps, ImportEffects
<1>6. CASE (\E m \in 0 .. MaxMilestone : AddPlan(m)) \/ CreateFirstPlan
  BY <1>4, <1>6 DEF AddPlan, CreateFirstPlan
<1>7. ASSUME NEW p \in DOMAIN plan \cup {0}, NEW steal \in BOOLEAN, UsePlan(p, steal)
      PROVE  EpochStep
  <2>1. CASE UNCHANGED plan BY <1>3, <2>1
  <2>2. CASE /\ TakesClaim(p, steal)
             /\ plan' = [plan EXCEPT ![p].owner = session, ![p].epoch = @ + 1]
    <3>1. p \in DOMAIN plan BY <2>2 DEF TakesClaim
    <3>2. plan[p].epoch \in Nat BY <1>1, <3>1 DEF PlanRecord
    <3>3. plan'[p].epoch = plan[p].epoch + 1 BY <1>1, <2>2, <3>1 DEF PlanRecord
    <3>4. Fenced(plan[p], plan'[p]) BY <3>2, <3>3 DEF Fenced
    <3>5. ASSUME NEW q \in DOMAIN plan, q # p PROVE Fenced(plan[q], plan'[q])
      <4>1. plan'[q] = plan[q] /\ plan[q].epoch \in Nat BY <1>1, <2>2, <3>5 DEF PlanRecord
      <4>2. QED BY <4>1 DEF Fenced
    <3>6. QED BY <3>4, <3>5 DEF EpochStep
  <2>3. QED BY <1>7, <2>1, <2>2 DEF UsePlan
<1>8. ASSUME NEW p \in DOMAIN plan, NEW s, plan' = [plan EXCEPT ![p] = WithPlanStatus(@, s)]
      PROVE  EpochStep
  <2>1. \A r \in PlanRecord : /\ WithPlanStatus(r, s).epoch = r.epoch
                              /\ WithPlanStatus(r, s).owner \in {NoActor, r.owner}
    BY DEF WithPlanStatus, PlanRecord
  <2>2. QED BY <1>1, <1>8, <2>1, Fences
<1>9. ASSUME NEW p \in DOMAIN plan, PlanStep(p) PROVE EpochStep
  <2>1. CASE \E steal \in BOOLEAN : UsePlan(p, steal) BY <1>7, <2>1
  <2>2. CASE \/ \E s \in PlanStatusIn, k \in 0 .. 1 : SetPlanStatus(p, s, k)
             \/ \E force \in BOOLEAN : CompletePlan(p, force)
    BY <1>8, <2>2 DEF SetPlanStatus, CompletePlan
  <2>3. CASE ReleasePlan(p) BY <1>1, <2>3, Fences DEF ReleasePlan, PlanRecord
  <2>4. CASE \E r \in Reason \cup {NoReason} : SetPlanHold(p, r)
    BY <1>1, <2>4, Fences DEF SetPlanHold, PlanRecord
  <2>5. CASE \E m \in 0 .. MaxMilestone : SetPlanMilestone(p, m)
    BY <1>1, <2>5, Fences DEF SetPlanMilestone, PlanRecord
  <2>6. CASE \E d \in DOMAIN plan : AddPlanDep(p, d) \/ RemovePlanDep(p, d)
    BY <1>1, <2>6, Fences DEF AddPlanDep, RemovePlanDep, PlanRecord
  <2>7. CASE DeletePlan(p) \/ DeletePlanForMove(p)
    <3>1. Deletion(p) BY <2>7, DeletesOfPlan
    <3>2. plan' = WithoutDeps(Drop(plan, {p}), {p}) BY <3>1 DEF Deletion, Delete
    <3>3. QED BY <1>1, <3>2, Fences DEF WithoutDeps, Drop, PlanRecord
  <2>8. CASE CopyPlan(p) \/ ExportPlan(p) BY <1>5, <2>8 DEF Arrival, Quiet
  <2>9. CASE AddTask(p) \/ CreateFirstTask(p) BY <1>3, <2>9 DEF AddTask, CreateFirstTask
  <2>10. QED BY <1>9, <2>1, <2>2, <2>3, <2>4, <2>5, <2>6, <2>7, <2>8, <2>9 DEF PlanStep
<1>10. ASSUME NEW t \in DOMAIN task, TaskStep(t) PROVE EpochStep
  <2>1. CASE ConvertTaskToPlan(t) BY <1>4, <2>1 DEF ConvertTaskToPlan
  <2>2. CASE ~ConvertTaskToPlan(t)
    BY <1>3, <1>10, <2>2 DEF TaskStep, SetTaskStatus, SetTaskHold, SetTaskPlan, AddTaskDep,
                             RemoveTaskDep
  <2>3. QED BY <2>1, <2>2
<1>11. CASE \/ \E t \in DOMAIN task \cup {0} : AddIssue(t)
            \/ \E i \in DOMAIN issue : IssueStep(i)
            \/ \E c \in Sha, p \in 0 .. MaxPlan, t \in 0 .. MaxTask : AddCommit(c, p, t)
  BY <1>3, <1>11 DEF AddIssue, IssueStep, SetIssueStatus, SetIssueTask, MoveIssueTask,
                     ScheduleIssue, AddCommit
<1>12. QED BY <1>5, <1>6, <1>7, <1>9, <1>10, <1>11 DEF Next, Quiet, Arrival

\* The fencing epoch of every plan: it never goes back, not even when a close
\* releases the claim, and whoever becomes the owner gets a new one.
THEOREM EpochsFence == Spec => EpochFences
<1>1. Inv /\ [Next]_vars => EpochStep BY EpochSteps
<1>2. EpochStep => \A p \in DOMAIN plan \cap DOMAIN plan' :
                     /\ plan'[p].epoch >= plan[p].epoch
                     /\ plan'[p].owner \notin {NoActor, plan[p].owner} =>
                          plan'[p].epoch > plan[p].epoch
  BY DEF EpochStep, Fenced
<1>3. QED BY <1>1, <1>2, Invariance, PTL DEF Spec, EpochFences

-----------------------------------------------------------------------------
(* Claims *)

\* The plan p is claimed by an identity other than the session's.
Foreign(p) == p \in DOMAIN plan /\ plan[p].owner \notin {NoActor, session}

\* The two halves of what a claim protects.
PlanKept(p) ==
  /\ p \in DOMAIN plan'
  /\ plan'[p].status = plan[p].status
  /\ plan'[p].milestone = plan[p].milestone
  /\ plan'[p].deps = plan[p].deps \cap DOMAIN plan'
  /\ plan'[p].owner \in {plan[p].owner, session}
TasksKept(p) ==
  /\ {t \in DOMAIN task' : task'[t].plan = p} = TasksOf(p)
  /\ \A t \in TasksOf(p) : /\ task'[t].status = task[t].status
                           /\ task'[t].deps = task[t].deps \cap DOMAIN task'

\* A plan is kept when its record is and no plan goes.
LEMMA PlanStays ==
  ASSUME Inv, NEW p \in DOMAIN plan, DOMAIN plan \subseteq DOMAIN plan', plan'[p] = plan[p]
  PROVE  PlanKept(p)
BY DEF Inv, PlanInv, PlanKept

\* The tasks of a plan are kept when no task goes, theirs are what they were
\* but for a hold, and none of the others comes to belong to the plan.
LEMMA TasksStay ==
  ASSUME Inv, NEW p \in DOMAIN plan, DOMAIN task \subseteq DOMAIN task',
         \A t \in TasksOf(p) : /\ task'[t].plan = p
                               /\ task'[t].status = task[t].status
                               /\ task'[t].deps = task[t].deps,
         \A t \in DOMAIN task' \ TasksOf(p) : task'[t].plan # p
  PROVE  TasksKept(p)
<1>1. {t \in DOMAIN task' : task'[t].plan = p} = TasksOf(p) BY DEF TasksOf
<1>2. \A t \in TasksOf(p) : task[t].deps \subseteq DOMAIN task
  BY DEF Inv, TaskInv, TasksOf
<1>3. QED BY <1>1, <1>2 DEF TasksKept

\* Tasks that nobody touches.
LEMMA TasksUntouched ==
  ASSUME Inv, NEW p \in DOMAIN plan, task' = task
  PROVE  TasksKept(p)
BY TasksStay DEF TasksOf

\* The plan transactions pass the gate of the plan they change.
LEMMA PlanGates ==
  ASSUME Inv, NEW p, Foreign(p), NEW q \in DOMAIN plan \cup {0},
         \/ \E steal \in BOOLEAN : UsePlan(q, steal)
         \/ /\ q # 0
            /\ \/ ReleasePlan(q)
               \/ \E s \in PlanStatusIn, k \in 0 .. 1 : SetPlanStatus(q, s, k)
               \/ \E force \in BOOLEAN : CompletePlan(q, force)
               \/ \E r \in Reason \cup {NoReason} : SetPlanHold(q, r)
               \/ \E m \in 0 .. MaxMilestone : SetPlanMilestone(q, m)
               \/ \E d \in DOMAIN plan : AddPlanDep(q, d) \/ RemovePlanDep(q, d)
  PROVE  PlanKept(p) /\ TasksKept(p)
<1>1. p \in DOMAIN plan /\ plan[p] \in PlanRecord /\ plan[p].owner \notin {NoActor, session}
  BY DEF Foreign, Inv, PlanInv
<1>2. CASE \E steal \in BOOLEAN : UsePlan(q, steal)
  <2>1. task' = task BY <1>2 DEF UsePlan
  <2>2. CASE plan' = plan BY <1>1, <2>1, <2>2, PlanStays, TasksUntouched
  <2>3. CASE plan' = [plan EXCEPT ![q].owner = session, ![q].epoch = @ + 1]
    <3>1. DOMAIN plan' = DOMAIN plan /\ plan[p].deps \subseteq DOMAIN plan
      BY <1>1, <2>3 DEF Inv, PlanInv
    <3>2. /\ plan'[p].status = plan[p].status /\ plan'[p].milestone = plan[p].milestone
          /\ plan'[p].deps = plan[p].deps /\ plan'[p].owner \in {plan[p].owner, session}
      BY <1>1, <2>3 DEF PlanRecord
    <3>3. PlanKept(p) BY <1>1, <3>1, <3>2 DEF PlanKept
    <3>4. QED BY <1>1, <2>1, <3>3, TasksUntouched
  <2>4. QED BY <1>2, <2>2, <2>3 DEF UsePlan
<1>3. CASE q # 0 /\ \E r \in Reason \cup {NoReason} : SetPlanHold(q, r)
  <2>1. task' = task BY <1>3 DEF SetPlanHold
  <2>2. DOMAIN plan' = DOMAIN plan /\ plan[p].deps \subseteq DOMAIN plan
    BY <1>1, <1>3 DEF Inv, PlanInv, SetPlanHold
  <2>3. /\ plan'[p].status = plan[p].status /\ plan'[p].milestone = plan[p].milestone
        /\ plan'[p].deps = plan[p].deps /\ plan'[p].owner = plan[p].owner
    BY <1>1, <1>3 DEF PlanRecord, SetPlanHold
  <2>4. PlanKept(p) BY <1>1, <2>2, <2>3 DEF PlanKept
  <2>5. QED BY <1>1, <2>1, <2>4, TasksUntouched
<1>4. CASE q # 0 /\ ReleasePlan(q)
  <2>1. q # p BY <1>1, <1>4 DEF ReleasePlan
  <2>2. DOMAIN plan' = DOMAIN plan /\ plan'[p] = plan[p] /\ task' = task
    BY <1>1, <1>4, <2>1 DEF ReleasePlan
  <2>3. QED BY <1>1, <2>2, PlanStays, TasksUntouched
<1>5. CASE /\ q # 0
           /\ \/ \E s \in PlanStatusIn, k \in 0 .. 1 : SetPlanStatus(q, s, k)
              \/ \E force \in BOOLEAN : CompletePlan(q, force)
              \/ \E m \in 0 .. MaxMilestone : SetPlanMilestone(q, m)
              \/ \E d \in DOMAIN plan : AddPlanDep(q, d) \/ RemovePlanDep(q, d)
  <2>1. ClaimAccess(q) /\ task' = task /\ DOMAIN plan' = DOMAIN plan
        /\ \A x \in DOMAIN plan \ {q} : plan'[x] = plan[x]
    BY <1>5 DEF SetPlanStatus, CompletePlan, SetPlanMilestone, AddPlanDep, RemovePlanDep
  <2>2. q # p BY <1>1, <2>1 DEF ClaimAccess
  <2>3. QED BY <1>1, <2>1, <2>2, PlanStays, TasksUntouched
<1>6. QED BY <1>2, <1>3, <1>4, <1>5

\* Deleting another plan leaves the claimed one as it is, but for edges to what
\* is deleted.
LEMMA DeleteGate ==
  ASSUME Inv, NEW p, Foreign(p), NEW q \in DOMAIN plan, Deletion(q)
  PROVE  PlanKept(p) /\ TasksKept(p)
<1>1. p \in DOMAIN plan /\ plan[p] \in PlanRecord /\ p # q
  BY DEF Foreign, Inv, PlanInv, Deletion, Delete, ClaimAccess
<1>2. /\ plan' = WithoutDeps(Drop(plan, {q}), {q})
      /\ task' = WithoutDeps(Drop(task, TasksOf(q)), TasksOf(q))
  BY DEF Deletion, Delete
<1>3. PlanKept(p)
  <2>1. plan[p].deps \subseteq DOMAIN plan BY <1>1 DEF Inv, PlanInv
  <2>2. DOMAIN plan' = DOMAIN plan \ {q} /\ plan'[p] = [plan[p] EXCEPT !.deps = @ \ {q}]
    BY <1>1, <1>2 DEF WithoutDeps, Drop
  <2>3. QED BY <1>1, <2>1, <2>2 DEF PlanKept, PlanRecord
<1>4. TasksKept(p)
  <2>1. /\ DOMAIN task' = DOMAIN task \ TasksOf(q)
        /\ \A t \in DOMAIN task' : task'[t] = [task[t] EXCEPT !.deps = @ \ TasksOf(q)]
    BY <1>2 DEF WithoutDeps, Drop
  <2>2. \A t \in DOMAIN task : task[t] \in TaskRecord /\ task[t].deps \subseteq DOMAIN task
    BY DEF Inv, TaskInv
  <2>3. \A t \in DOMAIN task' : /\ task'[t].plan = task[t].plan
                                /\ task'[t].status = task[t].status
                                /\ task'[t].deps = task[t].deps \cap DOMAIN task'
    BY <2>1, <2>2 DEF TaskRecord
  <2>4. TasksOf(p) \subseteq DOMAIN task' BY <1>1, <2>1 DEF TasksOf
  <2>5. QED BY <2>1, <2>3, <2>4 DEF TasksKept, TasksOf
<1>5. QED BY <1>3, <1>4

\* Importing a plan adds a plan and tasks of that plan.
LEMMA ImportGate ==
  ASSUME Inv, NEW p, Foreign(p), Arrival
  PROVE  PlanKept(p) /\ TasksKept(p)
<1> DEFINE n == NextId("plan")
<1>1. p \in DOMAIN plan BY DEF Foreign
<1>2. PICK K : /\ n \notin DOMAIN plan /\ \E r : plan' = Put(plan, n, r)
               /\ DOMAIN task' = DOMAIN task \cup K /\ K \cap DOMAIN task = {}
               /\ \A t \in DOMAIN task : task'[t] = task[t]
               /\ \A k \in K : task'[k].plan = n
  BY ImportEffects
<1> HIDE DEF n
<1>3. PlanKept(p)
  <2>1. DOMAIN plan \subseteq DOMAIN plan' /\ plan'[p] = plan[p]
    BY <1>1, <1>2 DEF Put
  <2>2. QED BY <1>1, <2>1, PlanStays
<1>4. TasksKept(p)
  <2>1. \A t \in DOMAIN task' \ TasksOf(p) : task'[t].plan # p
    BY <1>1, <1>2 DEF TasksOf
  <2>2. \A t \in TasksOf(p) : t \in DOMAIN task /\ task[t].plan = p BY DEF TasksOf
  <2>3. QED BY <1>1, <1>2, <2>1, <2>2, TasksStay
<1>5. QED BY <1>3, <1>4

\* The task transactions pass the gate of the plan the task is in, and of the
\* plan it goes to.
LEMMA TaskGates ==
  ASSUME Inv, NEW p, Foreign(p), NEW t \in DOMAIN task, TaskStep(t)
  PROVE  PlanKept(p) /\ TasksKept(p)
<1>1. p \in DOMAIN plan /\ task[t] \in TaskRecord BY DEF Foreign, Inv, TaskInv
<1>2. ASSUME ClaimOfTask(t) PROVE task[t].plan # p
  BY <1>2 DEF ClaimOfTask, ClaimAccess, Foreign
<1>3. ASSUME plan' = plan, task[t].plan # p, DOMAIN task' = DOMAIN task,
             task'[t].plan # p, \A u \in DOMAIN task \ {t} : task'[u] = task[u]
      PROVE  PlanKept(p) /\ TasksKept(p)
  <2>1. PlanKept(p) BY <1>1, <1>3, PlanStays
  <2>2. \A u \in TasksOf(p) : task'[u] = task[u] /\ task[u].plan = p BY <1>3 DEF TasksOf
  <2>3. \A u \in DOMAIN task' \ TasksOf(p) : task'[u].plan # p BY <1>3 DEF TasksOf
  <2>4. TasksKept(p) BY <1>1, <1>3, <2>2, <2>3, TasksStay
  <2>5. QED BY <2>1, <2>4
<1>4. CASE \E s \in TaskStatusIn, k \in 0 .. 1 : SetTaskStatus(t, s, k)
  <2>1. PICK s \in TaskStatusIn : \E k \in 0 .. 1 : SetTaskStatus(t, s, k) BY <1>4
  <2>2. WithTaskStatus(task[t], s).plan = task[t].plan
    BY <1>1 DEF WithTaskStatus, TaskRecord
  <2>3. /\ ClaimOfTask(t) /\ plan' = plan
        /\ task' = [task EXCEPT ![t] = WithTaskStatus(@, s)]
    BY <2>1 DEF SetTaskStatus
  <2>4. QED BY <1>2, <1>3, <2>2, <2>3
<1>5. CASE \E r \in Reason \cup {NoReason} : SetTaskHold(t, r)
  <2>1. PICK r : SetTaskHold(t, r) BY <1>5
  <2>2. plan' = plan /\ task' = [task EXCEPT ![t].hold = r] BY <2>1 DEF SetTaskHold
  <2>3. /\ DOMAIN task' = DOMAIN task
        /\ \A u \in DOMAIN task : /\ task'[u].plan = task[u].plan
                                  /\ task'[u].status = task[u].status
                                  /\ task'[u].deps = task[u].deps
    BY <1>1, <2>2 DEF TaskRecord
  <2>4. PlanKept(p) BY <1>1, <2>2, PlanStays
  <2>5. TasksKept(p) BY <1>1, <2>3, TasksStay DEF TasksOf
  <2>6. QED BY <2>4, <2>5
<1>6. CASE \E q \in DOMAIN plan : SetTaskPlan(t, q)
  <2>1. PICK q \in DOMAIN plan : SetTaskPlan(t, q) BY <1>6
  <2>2. q # p BY <2>1 DEF SetTaskPlan, ClaimAccess, Foreign
  <2>3. QED BY <1>1, <1>2, <1>3, <2>1, <2>2 DEF SetTaskPlan, TaskRecord
<1>7. CASE \E d \in DOMAIN task : AddTaskDep(t, d) \/ RemoveTaskDep(t, d)
  BY <1>1, <1>2, <1>3, <1>7 DEF AddTaskDep, RemoveTaskDep, TaskRecord
<1>8. CASE ConvertTaskToPlan(t)
  <2>1. task[t].plan # p BY <1>2, <1>8 DEF ConvertTaskToPlan
  <2>2. NextId("plan") \notin DOMAIN plan
    BY DEF Inv, MetaInv, PlanInv, NextId, Collection
  <2>3. /\ plan' = Put(plan, NextId("plan"), ConvertedPlan(t))
        /\ task' = WithoutDeps(Drop(task, {t}), {t})
    BY <1>8 DEF ConvertTaskToPlan
  <2>4. DOMAIN plan \subseteq DOMAIN plan' /\ plan'[p] = plan[p]
    BY <1>1, <2>2, <2>3 DEF Put
  <2>5. PlanKept(p) BY <1>1, <2>4, PlanStays
  <2>6. /\ DOMAIN task' = DOMAIN task \ {t}
        /\ \A u \in DOMAIN task' : task'[u] = [task[u] EXCEPT !.deps = @ \ {t}]
    BY <2>3 DEF WithoutDeps, Drop
  <2>7. \A u \in DOMAIN task : task[u] \in TaskRecord /\ task[u].deps \subseteq DOMAIN task
    BY DEF Inv, TaskInv
  <2>8. \A u \in DOMAIN task' : /\ task'[u].plan = task[u].plan
                                /\ task'[u].status = task[u].status
                                /\ task'[u].deps = task[u].deps \cap DOMAIN task'
    BY <2>6, <2>7 DEF TaskRecord
  <2>9. TasksOf(p) \subseteq DOMAIN task' BY <2>1, <2>6 DEF TasksOf
  <2>10. TasksKept(p) BY <2>6, <2>8, <2>9 DEF TasksKept, TasksOf
  <2>11. QED BY <2>5, <2>10
<1>9. QED BY <1>4, <1>5, <1>6, <1>7, <1>8 DEF TaskStep

\* A task that is added goes to a plan the session may change, also from an issue.
LEMMA AddGates ==
  ASSUME Inv, NEW p, Foreign(p), NEW q \in DOMAIN plan,
         \/ AddTask(q) \/ CreateFirstTask(q)
         \/ \E i \in DOMAIN issue : ScheduleIssue(i, q) \/ MoveIssueTask(i, q)
  PROVE  PlanKept(p) /\ TasksKept(p)
<1>1. p \in DOMAIN plan /\ plan' = plan /\ q # p
  BY DEF Foreign, AddTask, CreateFirstTask, ScheduleIssue, MoveIssueTask, ClaimAccess
<1>2. PlanKept(p) BY <1>1, PlanStays
<1>3. CASE task' = Put(task, NextId("task"), NewTask(q))
  <2>1. NextId("task") \notin DOMAIN task
    BY DEF Inv, MetaInv, TaskInv, NextId, Collection
  <2>2. /\ DOMAIN task' = DOMAIN task \cup {NextId("task")}
        /\ \A t \in DOMAIN task : task'[t] = task[t]
        /\ task'[NextId("task")].plan = q
    BY <1>3, <2>1 DEF Put, NewTask
  <2>3. TasksKept(p) BY <1>1, <2>1, <2>2, TasksStay DEF TasksOf
  <2>4. QED BY <1>2, <2>3
<1>4. ASSUME NEW i \in DOMAIN issue, MoveIssueTask(i, q) PROVE PlanKept(p) /\ TasksKept(p)
  <2> DEFINE t == issue[i].task
  <2>1. t \in DOMAIN task /\ task[t] \in TaskRecord
    BY <1>4 DEF MoveIssueTask, Inv, IssueInv, TaskInv
  <2>2. task[t].plan # p BY <1>4 DEF MoveIssueTask, ClaimOfTask, ClaimAccess, Foreign
  <2>3. /\ DOMAIN task' = DOMAIN task /\ task'[t].plan = q
        /\ \A u \in DOMAIN task \ {t} : task'[u] = task[u]
    BY <1>4, <2>1 DEF MoveIssueTask, TaskRecord
  <2> HIDE DEF t
  <2>4. TasksKept(p) BY <1>1, <2>1, <2>2, <2>3, TasksStay DEF TasksOf
  <2>5. QED BY <1>2, <2>4
<1>5. QED BY <1>3, <1>4 DEF AddTask, CreateFirstTask, ScheduleIssue

\* Every step keeps the plans that others have claimed.
LEMMA GateSteps ==
  ASSUME Inv, [Next]_vars, NEW p, Foreign(p)
  PROVE  PlanKept(p) /\ TasksKept(p)
<1>1. p \in DOMAIN plan BY DEF Foreign
<1>2. CASE UNCHANGED <<plan, task>> BY <1>1, <1>2, PlanStays, TasksUntouched
<1>3. CASE Quiet \/ Arrival BY <1>2, <1>3, QuietSteps, ImportGate
<1>4. CASE \/ \E t \in DOMAIN task \cup {0} : AddIssue(t)
           \/ \E i \in DOMAIN issue : \/ \E s \in {"open", "closed"} : SetIssueStatus(i, s)
                                     \/ \E t \in DOMAIN task \cup {0} : SetIssueTask(i, t)
           \/ \E c \in Sha, q \in 0 .. MaxPlan, t \in 0 .. MaxTask : AddCommit(c, q, t)
  BY <1>2, <1>4 DEF AddIssue, SetIssueStatus, SetIssueTask, AddCommit
<1>5. CASE (\E m \in 0 .. MaxMilestone : AddPlan(m)) \/ CreateFirstPlan
  <2>1. NextId("plan") \notin DOMAIN plan
    BY DEF Inv, MetaInv, PlanInv, NextId, Collection
  <2>2. /\ \E r : plan' = Put(plan, NextId("plan"), r)
        /\ task' = task
    BY <1>5 DEF AddPlan, CreateFirstPlan
  <2>3. DOMAIN plan \subseteq DOMAIN plan' /\ plan'[p] = plan[p]
    BY <1>1, <2>1, <2>2 DEF Put
  <2>4. QED BY <1>1, <2>2, <2>3, PlanStays, TasksUntouched
<1>6. CASE UsePlan(0, FALSE) BY <1>6, PlanGates
<1>7. ASSUME NEW q \in DOMAIN plan, PlanStep(q) PROVE PlanKept(p) /\ TasksKept(p)
  <2>1. q \in DOMAIN plan \cup {0} /\ q # 0 BY DEF Inv, PlanInv, MetaInv, Collection
  <2>2. CASE DeletePlan(q) \/ DeletePlanForMove(q) BY <2>2, DeletesOfPlan, DeleteGate
  <2>3. CASE CopyPlan(q) \/ ExportPlan(q) BY <1>3, <2>3 DEF Arrival, Quiet
  <2>4. CASE AddTask(q) \/ CreateFirstTask(q) BY <2>4, AddGates
  <2>5. CASE ~(\/ DeletePlan(q) \/ DeletePlanForMove(q) \/ CopyPlan(q) \/ ExportPlan(q)
               \/ AddTask(q) \/ CreateFirstTask(q))
    BY <1>7, <2>1, <2>5, PlanGates DEF PlanStep
  <2>6. QED BY <2>2, <2>3, <2>4, <2>5
<1>8. ASSUME NEW t \in DOMAIN task, TaskStep(t) PROVE PlanKept(p) /\ TasksKept(p)
  BY <1>8, TaskGates
<1>9. CASE \E i \in DOMAIN issue, q \in DOMAIN plan : MoveIssueTask(i, q) \/ ScheduleIssue(i, q)
  BY <1>9, AddGates
<1>10. QED BY <1>3, <1>4, <1>5, <1>6, <1>7, <1>8, <1>9 DEF Next, Quiet, Arrival, IssueStep

\* Nobody but its owner changes the content of a claimed plan, whichever way a
\* transaction gets to it, and the claim passes only to an identity that steals it.
THEOREM ClaimsHold == Spec => ClaimGate
<1>1. Inv /\ [Next]_vars => \A p \in DOMAIN plan : plan[p].owner \notin {NoActor, session} =>
        /\ ContentKept(p)
        /\ plan'[p].owner \in {plan[p].owner, session}
  <2>1. ASSUME Inv, [Next]_vars, NEW p \in DOMAIN plan, plan[p].owner \notin {NoActor, session}
        PROVE  ContentKept(p) /\ plan'[p].owner \in {plan[p].owner, session}
    <3>1. Foreign(p) BY <2>1 DEF Foreign
    <3>2. PlanKept(p) /\ TasksKept(p) BY <2>1, <3>1, GateSteps
    <3>3. QED BY <3>2 DEF PlanKept, TasksKept, ContentKept
  <2>2. QED BY <2>1
<1>2. QED BY <1>1, Invariance, PTL DEF Spec, ClaimGate

-----------------------------------------------------------------------------
(* Evidence *)

\* Only recording, importing and deleting a plan and converting a task touch the
\* commits.
LEMMA CommitSteps ==
  ASSUME [Next]_vars
  PROVE  \/ UNCHANGED commit
         \/ Arrival
         \/ \E p \in DOMAIN plan : Deletion(p)
         \/ \E t \in DOMAIN task : ConvertTaskToPlan(t)
         \/ \E c \in Sha, p \in 0 .. MaxPlan, t \in 0 .. MaxTask : AddCommit(c, p, t)
<1>1. CASE Quiet BY <1>1, QuietSteps
<1>2. ASSUME NEW p \in DOMAIN plan, PlanStep(p), ~Deletion(p), ~Arrival
      PROVE  UNCHANGED commit
  <2>1. ~DeletePlan(p) /\ ~DeletePlanForMove(p) /\ ~CopyPlan(p)
    BY <1>2, DeletesOfPlan DEF Arrival
  <2>2. QED
    BY <1>2, <2>1 DEF PlanStep, UsePlan, ReleasePlan, SetPlanStatus, CompletePlan, SetPlanHold,
                      SetPlanMilestone, AddPlanDep, RemovePlanDep, ExportPlan, AddTask,
                      CreateFirstTask
<1>3. ASSUME NEW t \in DOMAIN task, TaskStep(t), ~ConvertTaskToPlan(t)
      PROVE  UNCHANGED commit
  BY <1>3 DEF TaskStep, SetTaskStatus, SetTaskHold, SetTaskPlan, AddTaskDep, RemoveTaskDep
<1>4. ASSUME NEW i \in DOMAIN issue, IssueStep(i) PROVE UNCHANGED commit
  BY <1>4 DEF IssueStep, SetIssueStatus, SetIssueTask, MoveIssueTask, ScheduleIssue
<1>5. CASE \/ \E m \in 0 .. MaxMilestone : AddPlan(m)
           \/ CreateFirstPlan
           \/ UsePlan(0, FALSE)
           \/ \E t \in DOMAIN task \cup {0} : AddIssue(t)
  BY <1>5 DEF AddPlan, CreateFirstPlan, UsePlan, AddIssue
<1>6. QED BY <1>1, <1>2, <1>3, <1>4, <1>5 DEF Next, Quiet, Arrival

\* No step but a move's delete removes an issue; the other delete and a
\* conversion unlink it.
LEMMA IssuesStay ==
  ASSUME [Next]_vars
  PROVE  \/ DOMAIN issue \subseteq DOMAIN issue'
         \/ \E p \in DOMAIN plan : DeletePlanForMove(p)
<1>1. CASE Quiet BY <1>1, QuietSteps
<1>2. CASE Arrival
  <2>1. PICK s, P, K : Import(s, P, K) BY <1>2 DEF Arrival, CopyPlan, ImportPlan
  <2>2. QED BY <2>1 DEF Import, WithCopies
<1>3. ASSUME NEW p \in DOMAIN plan, PlanStep(p), ~DeletePlanForMove(p), ~CopyPlan(p)
      PROVE  DOMAIN issue \subseteq DOMAIN issue'
  <2>1. CASE DeletePlan(p) BY <2>1 DEF DeletePlan, Delete, DetachIssues
  <2>2. CASE ~DeletePlan(p)
    BY <1>3, <2>2 DEF PlanStep, UsePlan, ReleasePlan, SetPlanStatus, CompletePlan, SetPlanHold,
                      SetPlanMilestone, AddPlanDep, RemovePlanDep, ExportPlan, AddTask,
                      CreateFirstTask
  <2>3. QED BY <2>1, <2>2
<1>4. ASSUME NEW t \in DOMAIN task, TaskStep(t)
      PROVE  DOMAIN issue \subseteq DOMAIN issue'
  BY <1>4 DEF TaskStep, SetTaskStatus, SetTaskHold, SetTaskPlan, AddTaskDep, RemoveTaskDep,
              ConvertTaskToPlan, DetachIssues
<1>5. ASSUME NEW i \in DOMAIN issue, IssueStep(i)
      PROVE  DOMAIN issue \subseteq DOMAIN issue'
  BY <1>5 DEF IssueStep, SetIssueStatus, SetIssueTask, MoveIssueTask, ScheduleIssue
<1>6. CASE \/ \E m \in 0 .. MaxMilestone : AddPlan(m)
           \/ CreateFirstPlan
           \/ UsePlan(0, FALSE)
           \/ \E t \in DOMAIN task \cup {0} : AddIssue(t)
           \/ \E c \in Sha, p \in 0 .. MaxPlan, t \in 0 .. MaxTask : AddCommit(c, p, t)
  BY <1>6 DEF AddPlan, CreateFirstPlan, UsePlan, AddIssue, AddCommit, Put
<1>7. QED BY <1>1, <1>2, <1>3, <1>4, <1>5, <1>6 DEF Next, Quiet, Arrival

\* What a move's delete takes is what belongs to the plan now, and that is what
\* was exported.
LEMMA MoveTakesExport ==
  ASSUME NEW p \in DOMAIN plan, DeletePlanForMove(p)
  PROVE  GoneAsExported
<1> DEFINE T == TasksOf(p)
<1>1. /\ DOMAIN task' = DOMAIN task \ T
      /\ DOMAIN note' = DOMAIN note \ NotesOn(p, T)
      /\ DOMAIN issue' = DOMAIN issue \ IssuesOn(T)
  BY DEF DeletePlanForMove, Delete, WithoutDeps, Drop
<1>2. exported.tasks = T /\ exported.notes = NotesOn(p, T) /\ exported.issues = IssuesOn(T)
  BY DEF DeletePlanForMove, WasExported, Cascade
<1>3. T \subseteq DOMAIN task /\ NotesOn(p, T) \subseteq DOMAIN note
  BY DEF TasksOf, NotesOn
<1>4. \A i \in DOMAIN issue \ DOMAIN issue' : issue[i].task \in T BY <1>1 DEF IssuesOn
<1> HIDE DEF T
<1>5. QED BY <1>1, <1>2, <1>3, <1>4 DEF GoneAsExported

\* A commit stays, with its link to every task that stays.
LEMMA CommitsStay ==
  ASSUME Inv, [Next]_vars
  PROVE  /\ DOMAIN commit \subseteq DOMAIN commit'
         /\ \A c \in DOMAIN commit : commit[c].task \in DOMAIN task' =>
              commit'[c].task = commit[c].task
<1>1. CASE UNCHANGED commit BY <1>1
<1>2. ASSUME NEW p \in DOMAIN plan, Deletion(p)
      PROVE  /\ DOMAIN commit' = DOMAIN commit
             /\ \A c \in DOMAIN commit : commit[c].task \in DOMAIN task' =>
                  commit'[c].task = commit[c].task
  BY <1>2 DEF Deletion, Delete, DetachCommits, Drop, WithoutDeps
<1>3. ASSUME NEW t \in DOMAIN task, ConvertTaskToPlan(t)
      PROVE  /\ DOMAIN commit' = DOMAIN commit
             /\ \A c \in DOMAIN commit : commit[c].task \in DOMAIN task' =>
                  commit'[c].task = commit[c].task
  BY <1>3 DEF ConvertTaskToPlan, CommitsToPlan, Drop, WithoutDeps
<1>4. CASE \E c \in Sha, p \in 0 .. MaxPlan, t \in 0 .. MaxTask : AddCommit(c, p, t)
  BY <1>4 DEF AddCommit, Put
<1>5. CASE Arrival
  <2>1. \E T, q, g : commit' = WithCommits(T, q, g) BY <1>5, ImportEffects
  <2>2. QED BY <2>1 DEF WithCommits
<1>6. QED BY <1>1, <1>2, <1>3, <1>4, <1>5, CommitSteps

\* Commits outlive every delete, with their link to every task that stays, and an
\* issue goes only with the task it is linked to, in the delete of a move, after
\* an export that carried all that goes.
THEOREM EvidenceIsKept == Spec => EvidenceStays
<1>1. Inv /\ [Next]_vars =>
        /\ DOMAIN commit \subseteq DOMAIN commit'
        /\ \A c \in DOMAIN commit : commit[c].task \in DOMAIN task' =>
             commit'[c].task = commit[c].task
        /\ ~(DOMAIN issue \subseteq DOMAIN issue') => GoneAsExported
  BY CommitsStay, IssuesStay, MoveTakesExport
<1>2. QED BY <1>1, Invariance, PTL DEF Spec, EvidenceStays

\* No commit names a task id that is still to be minted: what its link may
\* outlive is a task there was.
LinksMinted == \A c \in DOMAIN commit : commit[c].task <= seq["task"]

\* The mark of the tasks never goes back, and a new task is above it.
LEMMA TasksMinted ==
  ASSUME Inv, [Next]_vars
  PROVE  /\ seq["task"] \in Nat /\ seq'["task"] \in Nat /\ seq["task"] <= seq'["task"]
         /\ \A t \in DOMAIN task' \ DOMAIN task : t > seq["task"]
<1> DEFINE Goal == /\ seq["task"] <= seq'["task"]
                   /\ \A t \in DOMAIN task' \ DOMAIN task : t > seq["task"]
<1>1. seq \in [Collection -> Nat] /\ seq["task"] \in Nat
  BY DEF Inv, MetaInv, Collection
<1>2. seq'["task"] \in Nat BY NextInv DEF Inv, MetaInv, Collection
<1>3. CASE DOMAIN task' \subseteq DOMAIN task /\ seq'["task"] = seq["task"]
  BY <1>1, <1>3
<1>4. CASE /\ \E r : task' = Put(task, NextId("task"), r)
           /\ seq' = [seq EXCEPT !["task"] = @ + 1]
  BY <1>1, <1>4 DEF Put, NextId, Collection
<1>5. ASSUME NEW k \in Nat, task' = task, seq' = [seq EXCEPT !["note"] = @ + k]
      PROVE  Goal
  BY <1>1, <1>3, <1>5 DEF Collection
<1>6. CASE Arrival
  <2>1. PICK T : /\ DOMAIN task' = DOMAIN task \cup MintedIds("task", T)
                 /\ MintedIds("task", T) \subseteq seq["task"] + 1 .. seq["task"] + Cardinality(T)
                 /\ Cardinality(T) \in Nat /\ seq'["task"] = seq["task"] + Cardinality(T)
    BY <1>6, ImportEffects
  <2>2. QED BY <1>1, <2>1
<1>7. CASE Quiet
  <2>1. task' = task BY <1>7, QuietSteps
  <2>2. seq'["task"] = seq["task"]
    BY <1>1, <1>7 DEF Quiet, vars, Open, Close, AddMilestone, Replay, AddNote, ExportPlan,
                      Collection
  <2>3. QED BY <1>3, <2>1, <2>2
<1>8. ASSUME NEW p \in DOMAIN plan, PlanStep(p) PROVE Goal
  <2>1. CASE \/ \E s \in PlanStatusIn, k \in 0 .. 1 : SetPlanStatus(p, s, k)
             \/ \E force \in BOOLEAN : CompletePlan(p, force)
    BY <1>5, <2>1 DEF SetPlanStatus, CompletePlan
  <2>2. CASE DeletePlan(p) \/ DeletePlanForMove(p)
    <3>1. Deletion(p) BY <2>2, DeletesOfPlan
    <3>2. QED BY <1>3, <3>1 DEF Deletion, Delete, Drop, WithoutDeps
  <2>3. CASE CopyPlan(p) \/ ExportPlan(p) BY <1>6, <1>7, <2>3 DEF Arrival, Quiet
  <2>4. CASE AddTask(p) \/ CreateFirstTask(p) BY <1>4, <2>4 DEF AddTask, CreateFirstTask
  <2>5. CASE UNCHANGED <<task, seq>> BY <1>3, <2>5
  <2>6. QED BY <1>8, <2>1, <2>2, <2>3, <2>4, <2>5
          DEF PlanStep, UsePlan, ReleasePlan, SetPlanHold, SetPlanMilestone, AddPlanDep,
              RemovePlanDep
<1>9. ASSUME NEW t \in DOMAIN task, TaskStep(t) PROVE Goal
  <2>1. CASE \E s \in TaskStatusIn, k \in 0 .. 1 : SetTaskStatus(t, s, k)
    BY <1>1, <1>3, <2>1 DEF SetTaskStatus, Collection
  <2>2. CASE ConvertTaskToPlan(t)
    BY <1>1, <1>3, <2>2 DEF ConvertTaskToPlan, Drop, WithoutDeps, Collection
  <2>3. CASE ~(ConvertTaskToPlan(t) \/ \E s \in TaskStatusIn, k \in 0 .. 1 : SetTaskStatus(t, s, k))
    BY <1>3, <1>9, <2>3 DEF TaskStep, SetTaskHold, SetTaskPlan, AddTaskDep, RemoveTaskDep
  <2>4. QED BY <2>1, <2>2, <2>3
<1>10. ASSUME NEW i \in DOMAIN issue, IssueStep(i) PROVE Goal
  <2>1. CASE \E p \in DOMAIN plan : ScheduleIssue(i, p) BY <1>4, <2>1 DEF ScheduleIssue
  <2>2. CASE ~\E p \in DOMAIN plan : ScheduleIssue(i, p)
    BY <1>3, <1>10, <2>2 DEF IssueStep, SetIssueStatus, SetIssueTask, MoveIssueTask
  <2>3. QED BY <2>1, <2>2
<1>11. CASE \/ \E m \in 0 .. MaxMilestone : AddPlan(m)
            \/ CreateFirstPlan
            \/ UsePlan(0, FALSE)
            \/ \E t \in DOMAIN task \cup {0} : AddIssue(t)
            \/ \E c \in Sha, p \in 0 .. MaxPlan, t \in 0 .. MaxTask : AddCommit(c, p, t)
  BY <1>1, <1>3, <1>11 DEF AddPlan, CreateFirstPlan, UsePlan, AddIssue, AddCommit, Collection
<1>12. Goal BY <1>6, <1>7, <1>8, <1>9, <1>10, <1>11 DEF Next, Quiet, Arrival
<1>13. QED BY <1>1, <1>2, <1>12

\* A recorded link is to a task there was: the mark never goes back, and a link
\* is only ever written below it, or cleared.
LEMMA LinksStep ==
  ASSUME Inv, LinksMinted, [Next]_vars
  PROVE  LinksMinted'
<1>1. /\ seq["task"] \in Nat /\ seq'["task"] \in Nat /\ seq["task"] <= seq'["task"]
      /\ \A c \in DOMAIN commit : commit[c].task \in Nat /\ commit[c].task <= seq["task"]
  BY TasksMinted DEF LinksMinted, Inv, CommitInv, CommitRecord
<1>2. CASE UNCHANGED commit BY <1>1, <1>2 DEF LinksMinted
<1>3. ASSUME NEW p \in DOMAIN plan, Deletion(p) PROVE LinksMinted'
  <2>1. /\ DOMAIN commit' = DOMAIN commit
        /\ \A c \in DOMAIN commit : commit'[c].task \in {0, commit[c].task}
    BY <1>3 DEF Deletion, Delete, DetachCommits
  <2>2. QED BY <1>1, <2>1 DEF LinksMinted
<1>4. ASSUME NEW t \in DOMAIN task, ConvertTaskToPlan(t) PROVE LinksMinted'
  <2>1. /\ DOMAIN commit' = DOMAIN commit
        /\ \A c \in DOMAIN commit : commit'[c].task \in {0, commit[c].task}
    BY <1>4 DEF ConvertTaskToPlan, CommitsToPlan
  <2>2. QED BY <1>1, <2>1 DEF LinksMinted
<1>5. CASE \E c \in Sha, p \in 0 .. MaxPlan, t \in 0 .. MaxTask : AddCommit(c, p, t)
  BY <1>1, <1>5 DEF AddCommit, Put, LinksMinted
<1>6. CASE Arrival
  <2>1. PICK T, q, g : /\ commit' = WithCommits(T, q, g)
                       /\ MintedIds("task", T) \subseteq 1 .. seq'["task"]
    <3>1. PICK T, q, g :
            /\ commit' = WithCommits(T, q, g)
            /\ MintedIds("task", T) \subseteq seq["task"] + 1 .. seq["task"] + Cardinality(T)
            /\ Cardinality(T) \in Nat /\ seq'["task"] = seq["task"] + Cardinality(T)
      BY <1>6, ImportEffects
    <3>2. QED BY <1>1, <3>1
  <2>2. \A x \in T : Minted("task", T, x) <= seq'["task"]
    BY <1>1, <2>1 DEF MintedIds
  <2>3. QED BY <1>1, <2>1, <2>2 DEF WithCommits, LinksMinted
<1>7. QED BY <1>2, <1>3, <1>4, <1>5, <1>6, CommitSteps

\* A new task starts without evidence: its id was never minted before, so no
\* commit that was recorded earlier names it, also not one whose task is gone.
THEOREM FreshTasksHaveNoCommits == Spec => FreshTaskUnlinked
<1>1. Init => LinksMinted BY DEF Init, LinksMinted
<1>2. Inv /\ LinksMinted /\ [Next]_vars => LinksMinted' BY LinksStep
<1>3. Inv /\ LinksMinted /\ [Next]_vars =>
        \A t \in DOMAIN task' \ DOMAIN task : \A c \in DOMAIN commit :
          commit[c].task # t
  <2> SUFFICES ASSUME Inv, LinksMinted, [Next]_vars,
                      NEW t \in DOMAIN task' \ DOMAIN task, NEW c \in DOMAIN commit
               PROVE  commit[c].task # t
    OBVIOUS
  <2>2. t > seq["task"] /\ seq["task"] \in Nat BY TasksMinted
  <2>3. commit[c].task \in Nat /\ commit[c].task <= seq["task"]
    BY DEF LinksMinted, Inv, CommitInv, CommitRecord
  <2>4. t \in Nat BY NextInv DEF Inv, TaskInv, MetaInv, Collection
  <2>5. QED BY <2>2, <2>3, <2>4
<1>4. QED BY <1>1, <1>2, <1>3, Invariance, PTL DEF Spec, FreshTaskUnlinked

-----------------------------------------------------------------------------
(* Conversions *)

\* Only deleting its plan and converting it make a task disappear.
LEMMA TasksGo ==
  ASSUME Inv, [Next]_vars
  PROVE  \/ DOMAIN task \subseteq DOMAIN task'
         \/ \E p \in DOMAIN plan : Deletion(p)
         \/ \E t \in DOMAIN task : ConvertTaskToPlan(t)
<1>1. CASE Quiet \/ Arrival BY <1>1, QuietSteps, ImportEffects
<1>2. ASSUME NEW p \in DOMAIN plan, PlanStep(p), ~Deletion(p), ~Arrival
      PROVE  DOMAIN task \subseteq DOMAIN task'
  <2>1. ~DeletePlan(p) /\ ~DeletePlanForMove(p) /\ ~CopyPlan(p)
    BY <1>2, DeletesOfPlan DEF Arrival
  <2>2. QED
    BY <1>2, <2>1 DEF PlanStep, UsePlan, ReleasePlan, SetPlanStatus, CompletePlan, SetPlanHold,
                      SetPlanMilestone, AddPlanDep, RemovePlanDep, ExportPlan, AddTask,
                      CreateFirstTask, Put
<1>3. ASSUME NEW t \in DOMAIN task, TaskStep(t), ~ConvertTaskToPlan(t)
      PROVE  DOMAIN task \subseteq DOMAIN task'
  BY <1>3 DEF TaskStep, SetTaskStatus, SetTaskHold, SetTaskPlan, AddTaskDep, RemoveTaskDep
<1>4. ASSUME NEW i \in DOMAIN issue, IssueStep(i)
      PROVE  DOMAIN task \subseteq DOMAIN task'
  BY <1>4 DEF IssueStep, SetIssueStatus, SetIssueTask, MoveIssueTask, ScheduleIssue, Put
<1>5. CASE \/ \E m \in 0 .. MaxMilestone : AddPlan(m)
           \/ CreateFirstPlan
           \/ UsePlan(0, FALSE)
           \/ \E t \in DOMAIN task \cup {0} : AddIssue(t)
           \/ \E c \in Sha, p \in 0 .. MaxPlan, t \in 0 .. MaxTask : AddCommit(c, p, t)
  BY <1>5 DEF AddPlan, CreateFirstPlan, UsePlan, AddIssue, AddCommit
<1>6. QED BY <1>1, <1>2, <1>3, <1>4, <1>5 DEF Next, Quiet, Arrival

\* The trail of the task t is on the plan q.
TrailOn(t, q) ==
  /\ \A n \in DOMAIN note : note[n] = [target |-> "task", id |-> t] =>
       n \in DOMAIN note' /\ note'[n] = [target |-> "plan", id |-> q]
  /\ \A c \in DOMAIN commit : commit[c].task = t =>
       commit'[c] = [plan |-> q, task |-> 0]

\* A conversion makes a new plan, and moves the task's trail there.
LEMMA TrailMoves ==
  ASSUME Inv, NEW t \in DOMAIN task, ConvertTaskToPlan(t)
  PROVE  NextId("plan") \in DOMAIN plan' \ DOMAIN plan /\ TrailOn(t, NextId("plan"))
<1>1. NextId("plan") \in DOMAIN plan' \ DOMAIN plan
  <2>1. NextId("plan") \notin DOMAIN plan
    BY DEF Inv, MetaInv, PlanInv, NextId, Collection
  <2>2. QED BY <2>1 DEF ConvertTaskToPlan, Put
<1>2. TrailOn(t, NextId("plan"))
  BY DEF ConvertTaskToPlan, NotesToPlan, CommitsToPlan, TrailOn
<1>3. QED BY <1>1, <1>2

\* A task that leaves a plan which stays was converted: it goes in no other way,
\* and its whole trail is on the plan it became.
THEOREM TrailsAreKept == Spec => ConvertKeepsTrail
<1>1. ASSUME Inv, [Next]_vars, NEW t \in DOMAIN task \ DOMAIN task',
             task[t].plan \in DOMAIN plan'
      PROVE  \E q \in DOMAIN plan' \ DOMAIN plan : TrailOn(t, q)
  <2>1. ASSUME NEW p \in DOMAIN plan, Deletion(p) PROVE FALSE
    <3>1. DOMAIN task' = DOMAIN task \ TasksOf(p) /\ DOMAIN plan' = DOMAIN plan \ {p}
      BY <2>1 DEF Deletion, Delete, Drop, WithoutDeps
    <3>2. QED BY <1>1, <3>1 DEF TasksOf
  <2>2. ASSUME NEW u \in DOMAIN task, ConvertTaskToPlan(u) PROVE u = t
    BY <1>1, <2>2 DEF ConvertTaskToPlan, Drop, WithoutDeps
  <2>3. ConvertTaskToPlan(t) BY <1>1, <2>1, <2>2, TasksGo
  <2>4. QED BY <1>1, <2>3, TrailMoves
<1>2. Inv /\ [Next]_vars =>
        \A t \in DOMAIN task \ DOMAIN task' : task[t].plan \in DOMAIN plan' =>
          \E q \in DOMAIN plan' \ DOMAIN plan :
            /\ \A n \in DOMAIN note : note[n] = [target |-> "task", id |-> t] =>
                 n \in DOMAIN note' /\ note'[n] = [target |-> "plan", id |-> q]
            /\ \A c \in DOMAIN commit : commit[c].task = t =>
                 commit'[c] = [plan |-> q, task |-> 0]
  BY <1>1 DEF TrailOn
<1>3. QED BY <1>2, Invariance, PTL DEF Spec, ConvertKeepsTrail

\* The trail of a task, its evidence and its notes, is not lost nor misplaced by
\* deletes, moves and conversions, and never turns up on a new task.
THEOREM TrailsStay == Spec => TrailStays
BY EvidenceIsKept, TrailsAreKept, FreshTasksHaveNoCommits DEF TrailStays

-----------------------------------------------------------------------------
(* Finished plans *)

\* The task t is no new open work of a finished plan, unless it came by an
\* issue to an archived one.
NoNewWork(t) ==
  /\ task'[t].status # "done"
  /\ task'[t].plan \in DOMAIN plan /\ plan[task'[t].plan].status # "active"
  /\ ~(t \in DOMAIN task /\ task[t].plan = task'[t].plan)
  => /\ plan[task'[t].plan].status = "archived"
     /\ \E i \in DOMAIN issue' : issue'[i].task = t

\* The steps that put a task into a plan look at its status.
LEMMA WorkSteps ==
  ASSUME Inv, [Next]_vars, NEW t \in DOMAIN task'
  PROVE  NoNewWork(t)
<1>1. CASE t \in DOMAIN task /\ task'[t].plan = task[t].plan BY <1>1 DEF NoNewWork
<1>2. \A u \in DOMAIN task : task[u] \in TaskRecord BY DEF Inv, TaskInv
<1>3. NextId("task") \notin DOMAIN task
  BY DEF Inv, MetaInv, TaskInv, NextId, Collection
<1>4. CASE Quiet BY <1>1, <1>4, QuietSteps
<1>5. ASSUME NEW q \in DOMAIN plan, AddTask(q) PROVE NoNewWork(t)
  BY <1>1, <1>5 DEF AddTask, AcceptsOpenWork, Put, NewTask, NoNewWork
<1>6. CASE Arrival
  <2>1. PICK T : /\ NextId("plan") \notin DOMAIN plan
                 /\ DOMAIN task' = DOMAIN task \cup MintedIds("task", T)
                 /\ \A u \in DOMAIN task : task'[u] = task[u]
                 /\ \A k \in MintedIds("task", T) : task'[k].plan = NextId("plan")
    BY <1>6, ImportEffects
  <2>2. CASE t \in DOMAIN task BY <1>1, <2>1, <2>2
  <2>3. CASE t \in MintedIds("task", T) BY <2>1, <2>3 DEF NoNewWork
  <2>4. QED BY <2>1, <2>2, <2>3
<1>7. ASSUME NEW q \in DOMAIN plan, PlanStep(q) PROVE NoNewWork(t)
  <2>1. CASE AddTask(q) \/ CreateFirstTask(q) BY <1>5, <2>1 DEF CreateFirstTask
  <2>2. CASE CopyPlan(q) \/ ExportPlan(q) BY <1>4, <1>6, <2>2 DEF Arrival, Quiet
  <2>3. CASE DeletePlan(q) \/ DeletePlanForMove(q)
    <3>1. Deletion(q) BY <2>3, DeletesOfPlan
    <3>2. /\ t \in DOMAIN task
          /\ task'[t] = [task[t] EXCEPT !.deps = @ \ TasksOf(q)]
      BY <3>1 DEF Deletion, Delete, Drop, WithoutDeps
    <3>3. QED BY <1>1, <1>2, <3>2 DEF TaskRecord
  <2>4. CASE task' = task BY <1>1, <2>4
  <2>5. QED BY <1>7, <2>1, <2>2, <2>3, <2>4
        DEF PlanStep, UsePlan, ReleasePlan, SetPlanStatus, CompletePlan, SetPlanHold,
            SetPlanMilestone, AddPlanDep, RemovePlanDep
<1>8. ASSUME NEW u \in DOMAIN task, TaskStep(u) PROVE NoNewWork(t)
  <2>1. CASE \E s \in TaskStatusIn, k \in 0 .. 1 : SetTaskStatus(u, s, k)
    <3>1. PICK s : task' = [task EXCEPT ![u] = WithTaskStatus(@, s)] BY <2>1 DEF SetTaskStatus
    <3>2. \A r \in TaskRecord : WithTaskStatus(r, s).plan = r.plan
      BY DEF WithTaskStatus, TaskRecord
    <3>3. QED BY <1>1, <1>2, <3>1, <3>2
  <2>2. CASE \E p \in DOMAIN plan : SetTaskPlan(u, p)
    <3>1. PICK p \in DOMAIN plan : SetTaskPlan(u, p) BY <2>2
    <3>2. task' = [task EXCEPT ![u].plan = p] BY <3>1 DEF SetTaskPlan
    <3>3. CASE t # u BY <1>1, <3>2, <3>3
    <3>4. CASE t = u
      <4>1. task'[t].plan = p /\ task'[t].status = task[t].status
        BY <1>2, <3>2, <3>4 DEF TaskRecord
      <4>2. QED BY <1>1, <3>1, <3>4, <4>1 DEF SetTaskPlan, AcceptsOpenWork, NoNewWork
    <3>5. QED BY <3>3, <3>4
  <2>3. CASE ConvertTaskToPlan(u)
    <3>1. t \in DOMAIN task /\ task'[t] = [task[t] EXCEPT !.deps = @ \ {u}]
      BY <2>3 DEF ConvertTaskToPlan, Drop, WithoutDeps
    <3>2. QED BY <1>1, <1>2, <3>1 DEF TaskRecord
  <2>4. CASE \E r \in Reason \cup {NoReason} : SetTaskHold(u, r)
    BY <1>1, <1>2, <2>4 DEF SetTaskHold, TaskRecord
  <2>5. CASE \E d \in DOMAIN task : AddTaskDep(u, d) \/ RemoveTaskDep(u, d)
    BY <1>1, <1>2, <2>5 DEF AddTaskDep, RemoveTaskDep, TaskRecord
  <2>6. QED BY <1>8, <2>1, <2>2, <2>3, <2>4, <2>5 DEF TaskStep
<1>9. ASSUME NEW i \in DOMAIN issue, IssueStep(i) PROVE NoNewWork(t)
  <2>1. \A p \in DOMAIN plan : plan[p].status \in PlanStatus
    BY DEF Inv, PlanInv, PlanRecord
  <2>2. CASE \E p \in DOMAIN plan : MoveIssueTask(i, p)
    <3>1. PICK p \in DOMAIN plan : MoveIssueTask(i, p) BY <2>2
    <3>2. task' = [task EXCEPT ![issue[i].task].plan = p] /\ issue' = issue
      BY <3>1 DEF MoveIssueTask
    <3>3. CASE t # issue[i].task BY <1>1, <3>2, <3>3
    <3>4. CASE t = issue[i].task
      <4>1. t \in DOMAIN task /\ task'[t].plan = p
        BY <1>2, <3>2, <3>4 DEF TaskRecord
      <4>2. QED BY <2>1, <3>1, <3>2, <3>4, <4>1
            DEF MoveIssueTask, AcceptsScheduledWork, PlanStatus, NoNewWork
    <3>5. QED BY <3>3, <3>4
  <2>3. CASE \E p \in DOMAIN plan : ScheduleIssue(i, p)
    <3>1. PICK p \in DOMAIN plan : ScheduleIssue(i, p) BY <2>3
    <3>2. CASE t \in DOMAIN task BY <1>1, <1>3, <3>1, <3>2 DEF ScheduleIssue, Put
    <3>3. CASE t \notin DOMAIN task
      <4>1. t = NextId("task") /\ task'[t].plan = p
        BY <3>1, <3>3 DEF ScheduleIssue, Put, NewTask
      <4>2. issue[i] \in IssueRecord BY DEF Inv, IssueInv
      <4>3. i \in DOMAIN issue' /\ issue'[i].task = t
        BY <3>1, <4>1, <4>2 DEF ScheduleIssue, IssueRecord
      <4>4. QED BY <2>1, <3>1, <4>1, <4>3
            DEF ScheduleIssue, AcceptsScheduledWork, PlanStatus, NoNewWork
    <3>4. QED BY <3>2, <3>3
  <2>4. CASE task' = task BY <1>1, <2>4
  <2>5. QED BY <1>9, <2>2, <2>3, <2>4 DEF IssueStep, SetIssueStatus, SetIssueTask
<1>10. CASE \/ \E m \in 0 .. MaxMilestone : AddPlan(m)
            \/ CreateFirstPlan
            \/ UsePlan(0, FALSE)
            \/ \E u \in DOMAIN task \cup {0} : AddIssue(u)
            \/ \E c \in Sha, p \in 0 .. MaxPlan, u \in 0 .. MaxTask : AddCommit(c, p, u)
  BY <1>1, <1>10 DEF AddPlan, CreateFirstPlan, UsePlan, AddIssue, AddCommit
<1>11. QED BY <1>4, <1>6, <1>7, <1>8, <1>9, <1>10 DEF Next, Quiet, Arrival

\* A finished plan takes no new open work, on none of the many ways a task gets
\* into a plan, but for an archived plan that an issue's task is put in.
THEOREM FinishedTakesNoWork == Spec => FinishedRefusesNewWork
<1>1. Inv /\ [Next]_vars =>
        \A t \in DOMAIN task' : LET p == task'[t].plan IN
          /\ task'[t].status # "done"
          /\ p \in DOMAIN plan /\ plan[p].status # "active"
          /\ ~(t \in DOMAIN task /\ task[t].plan = p)
          => /\ plan[p].status = "archived"
             /\ \E i \in DOMAIN issue' : issue'[i].task = t
  BY WorkSteps DEF NoNewWork
<1>2. QED BY <1>1, Invariance, PTL DEF Spec, FinishedRefusesNewWork

-----------------------------------------------------------------------------
(* Dependencies *)


\* g has some of f's records, with some of their dependencies.
Shrinks(f, g) == /\ DOMAIN g \subseteq DOMAIN f
                 /\ \A x \in DOMAIN g : g[x].deps \subseteq f[x].deps

\* g has one record more, which depends on records of f at most.
Extends(f, g, q) == /\ DOMAIN g = DOMAIN f \cup {q} /\ q \notin DOMAIN f
                    /\ g[q].deps \subseteq DOMAIN f
                    /\ \A x \in DOMAIN f : g[x] = f[x]

\* g has the records K more, copies of the records of h: m says which is whose,
\* and edges among the copies mirror edges among the originals.
Mirrors(f, g, h, m, K) ==
  /\ K \cap DOMAIN f = {} /\ DOMAIN g = DOMAIN f \cup K
  /\ \A x \in DOMAIN f : g[x].deps = f[x].deps
  /\ \A x \in DOMAIN h, y \in DOMAIN h : m[x] = m[y] => x = y
  /\ \A k \in K : \E x \in DOMAIN h :
       k = m[x] /\ \A e \in g[k].deps \cap K : \E y \in h[x].deps \cap DOMAIN h : e = m[y]

\* The dependencies of f are records of f.
DepsInside(f) == \A x \in DOMAIN f : f[x].deps \subseteq DOMAIN f

-----------------------------------------------------------------------------
(* What keeps a graph acyclic *)

\* Deleting records and edges.
LEMMA ShrinksAcyclic ==
  ASSUME NEW f, NEW g, Acyclic(f), Shrinks(f, g)
  PROVE  Acyclic(g)
<1> SUFFICES ASSUME NEW S \in SUBSET DOMAIN g, S # {}
             PROVE  \E x \in S : g[x].deps \cap S = {}
  BY DEF Acyclic
<1>1. S \in SUBSET DOMAIN f BY DEF Shrinks
<1>2. PICK x \in S : f[x].deps \cap S = {} BY <1>1 DEF Acyclic
<1>3. g[x].deps \cap S = {} BY <1>2 DEF Shrinks
<1>4. QED BY <1>3

\* Adding a record that nothing depends on.
LEMMA ExtendsAcyclic ==
  ASSUME NEW f, NEW g, NEW q, Acyclic(f), DepsInside(f), Extends(f, g, q)
  PROVE  Acyclic(g)
<1> SUFFICES ASSUME NEW S \in SUBSET DOMAIN g, S # {}
             PROVE  \E x \in S : g[x].deps \cap S = {}
  BY DEF Acyclic
<1>1. CASE S \cap DOMAIN f = {}
  <2>1. S = {q} /\ g[q].deps \cap S = {} BY <1>1 DEF Extends
  <2>2. QED BY <2>1
<1>2. CASE S \cap DOMAIN f # {}
  <2>1. PICK x \in S \cap DOMAIN f : f[x].deps \cap (S \cap DOMAIN f) = {}
    BY <1>2 DEF Acyclic
  <2>2. g[x].deps \subseteq DOMAIN f BY <2>1 DEF DepsInside, Extends
  <2>3. g[x].deps \cap S = {} BY <2>1, <2>2 DEF Extends
  <2>4. QED BY <2>3
<1>3. QED BY <1>1, <1>2

\* What a record reaches holds the record and all that its members depend on.
LEMMA ReachableClosed ==
  ASSUME NEW f, DepsInside(f), NEW n \in DOMAIN f
  PROVE  /\ n \in Reachable(f, n) /\ Reachable(f, n) \subseteq DOMAIN f
         /\ \A x \in Reachable(f, n) : f[x].deps \subseteq Reachable(f, n)
<1>1. n \in Reachable(f, n) /\ Reachable(f, n) \subseteq DOMAIN f BY DEF Reachable
<1>2. ASSUME NEW x \in Reachable(f, n), NEW y \in f[x].deps PROVE y \in Reachable(f, n)
  <2>1. y \in DOMAIN f BY DEF Reachable, DepsInside
  <2>2. ASSUME NEW C \in SUBSET DOMAIN f, n \in C, \A z \in C : f[z].deps \subseteq C
        PROVE  y \in C
    <3>1. x \in C BY <2>2 DEF Reachable
    <3>2. QED BY <2>2, <3>1
  <2>3. QED BY <2>1, <2>2 DEF Reachable
<1>3. QED BY <1>1, <1>2

\* Adding the edge from t to d that the store's search found no way back for.
LEMMA EdgeAcyclic ==
  ASSUME NEW f, NEW g, Acyclic(f), DepsInside(f), NEW t \in DOMAIN f, NEW d \in DOMAIN f,
         ~WouldCreateCycle(f, t, d), DOMAIN g = DOMAIN f,
         g[t].deps = f[t].deps \cup {d},
         \A x \in DOMAIN f \ {t} : g[x].deps = f[x].deps
  PROVE  Acyclic(g)
<1> DEFINE R == Reachable(f, d)
<1>1. t # d /\ t \notin R BY DEF WouldCreateCycle
<1>2. d \in R /\ R \subseteq DOMAIN f /\ \A x \in R : f[x].deps \subseteq R
  BY ReachableClosed
<1> HIDE DEF R
<1> SUFFICES ASSUME NEW S \in SUBSET DOMAIN g, S # {}
             PROVE  \E x \in S : g[x].deps \cap S = {}
  BY DEF Acyclic
<1>3. CASE d \notin S
  <2>1. PICK x \in S : f[x].deps \cap S = {} BY DEF Acyclic
  <2>2. g[x].deps \cap S = {} BY <1>3, <2>1
  <2>3. QED BY <2>2
<1>4. CASE d \in S
  <2>1. S \cap R # {} /\ S \cap R \in SUBSET DOMAIN f BY <1>2, <1>4
  <2>2. PICK x \in S \cap R : f[x].deps \cap (S \cap R) = {} BY <2>1 DEF Acyclic
  <2>3. x # t /\ f[x].deps \subseteq R BY <1>1, <1>2, <2>2
  <2>4. g[x].deps \cap S = {} BY <2>2, <2>3
  <2>5. QED BY <2>4
<1>5. QED BY <1>3, <1>4

\* Adding copies of the records of an acyclic h, each depending on the copies of
\* what its original depends on in h, and on records of f.
LEMMA CopiesAcyclic ==
  ASSUME NEW f, NEW g, NEW h, NEW m, NEW K, Acyclic(f), DepsInside(f), Acyclic(h),
         Mirrors(f, g, h, m, K)
  PROVE  Acyclic(g)
<1> SUFFICES ASSUME NEW S \in SUBSET DOMAIN g, S # {}
             PROVE  \E x \in S : g[x].deps \cap S = {}
  BY DEF Acyclic
<1>1. CASE S \cap DOMAIN f # {}
  <2>1. PICK x \in S \cap DOMAIN f : f[x].deps \cap (S \cap DOMAIN f) = {}
    BY <1>1 DEF Acyclic
  <2>2. f[x].deps \subseteq DOMAIN f BY <2>1 DEF DepsInside
  <2>3. g[x].deps \cap S = {} BY <2>1, <2>2 DEF Mirrors
  <2>4. QED BY <2>3
<1>2. CASE S \cap DOMAIN f = {}
  <2> DEFINE S0 == {x \in DOMAIN h : m[x] \in S}
  <2>1. S \subseteq K BY <1>2 DEF Mirrors
  <2>2. S0 # {} /\ S0 \in SUBSET DOMAIN h BY <2>1 DEF Mirrors
  <2>3. PICK x \in S0 : h[x].deps \cap S0 = {} BY <2>2 DEF Acyclic
  <2>4. m[x] \in S /\ x \in DOMAIN h BY <2>3
  <2>5. \A e \in g[m[x]].deps \cap K : \E y \in h[x].deps \cap DOMAIN h : e = m[y]
    BY <2>1, <2>4 DEF Mirrors
  <2>6. g[m[x]].deps \cap S = {} BY <2>1, <2>3, <2>5
  <2>7. QED BY <2>4, <2>6
<1>3. QED BY <1>1, <1>2

-----------------------------------------------------------------------------
(* What the transactions do to the graphs *)

\* The dependencies of the store's records are records: a part of Inv.
LEMMA StoreDepsInside == Inv => DepsInside(plan) /\ DepsInside(task)
BY DEF Inv, PlanInv, TaskInv, DepsInside

\* The transactions that change one plan in place and leave the tasks alone.
LEMMA PlanEdits ==
  ASSUME Inv, NEW p \in DOMAIN plan \cup {0},
         \/ \E steal \in BOOLEAN : UsePlan(p, steal)
         \/ p # 0 /\ ReleasePlan(p)
         \/ p # 0 /\ \E s \in PlanStatusIn, k \in 0 .. 1 : SetPlanStatus(p, s, k)
         \/ p # 0 /\ \E force \in BOOLEAN : CompletePlan(p, force)
         \/ p # 0 /\ \E r \in Reason \cup {NoReason} : SetPlanHold(p, r)
         \/ p # 0 /\ \E m \in 0 .. MaxMilestone : SetPlanMilestone(p, m)
         \/ p # 0 /\ \E d \in DOMAIN plan : RemovePlanDep(p, d)
  PROVE  Shrinks(plan, plan') /\ task' = task
<1>1. \A q \in DOMAIN plan : plan[q] \in PlanRecord BY DEF Inv, PlanInv
<1>2. CASE \E steal \in BOOLEAN : UsePlan(p, steal)
  BY <1>1, <1>2 DEF UsePlan, Shrinks, PlanRecord
<1>3. CASE p # 0 /\ ReleasePlan(p) BY <1>1, <1>3 DEF ReleasePlan, Shrinks, PlanRecord
<1>4. ASSUME NEW s, p # 0, plan' = [plan EXCEPT ![p] = WithPlanStatus(@, s)], task' = task
      PROVE  Shrinks(plan, plan') /\ task' = task
  <2>1. \A r \in PlanRecord : WithPlanStatus(r, s).deps = r.deps
    BY DEF WithPlanStatus, PlanRecord
  <2>2. QED BY <1>1, <1>4, <2>1 DEF Shrinks
<1>5. CASE p # 0 /\ \E s \in PlanStatusIn, k \in 0 .. 1 : SetPlanStatus(p, s, k)
  BY <1>4, <1>5 DEF SetPlanStatus
<1>6. CASE p # 0 /\ \E force \in BOOLEAN : CompletePlan(p, force)
  BY <1>4, <1>6 DEF CompletePlan
<1>7. CASE p # 0 /\ \E r \in Reason \cup {NoReason} : SetPlanHold(p, r)
  BY <1>1, <1>7 DEF SetPlanHold, Shrinks, PlanRecord
<1>8. CASE p # 0 /\ \E m \in 0 .. MaxMilestone : SetPlanMilestone(p, m)
  BY <1>1, <1>8 DEF SetPlanMilestone, Shrinks, PlanRecord
<1>9. CASE p # 0 /\ \E d \in DOMAIN plan : RemovePlanDep(p, d)
  BY <1>1, <1>9 DEF RemovePlanDep, Shrinks, PlanRecord
<1>10. QED BY <1>2, <1>3, <1>5, <1>6, <1>7, <1>8, <1>9

\* The transactions that change one task in place and leave the plans alone.
LEMMA TaskEdits ==
  ASSUME Inv,
         \/ \E t \in DOMAIN task :
              \/ \E s \in TaskStatusIn, k \in 0 .. 1 : SetTaskStatus(t, s, k)
              \/ \E r \in Reason \cup {NoReason} : SetTaskHold(t, r)
              \/ \E p \in DOMAIN plan : SetTaskPlan(t, p)
              \/ \E d \in DOMAIN task : RemoveTaskDep(t, d)
         \/ \E i \in DOMAIN issue, p \in DOMAIN plan : MoveIssueTask(i, p)
  PROVE  Shrinks(task, task') /\ plan' = plan
<1>1. \A t \in DOMAIN task : task[t] \in TaskRecord BY DEF Inv, TaskInv
<1>2. ASSUME NEW t \in DOMAIN task, NEW s \in TaskStatusIn, NEW k \in 0 .. 1,
             SetTaskStatus(t, s, k)
      PROVE  Shrinks(task, task') /\ plan' = plan
  <2>1. \A r \in TaskRecord : WithTaskStatus(r, s).deps = r.deps
    BY DEF WithTaskStatus, TaskRecord
  <2>2. task' = [task EXCEPT ![t] = WithTaskStatus(@, s)] /\ plan' = plan
    BY <1>2 DEF SetTaskStatus
  <2>3. QED BY <1>1, <2>1, <2>2 DEF Shrinks
<1>3. ASSUME NEW t \in DOMAIN task, NEW r, SetTaskHold(t, r)
      PROVE  Shrinks(task, task') /\ plan' = plan
  BY <1>1, <1>3 DEF SetTaskHold, Shrinks, TaskRecord
<1>4. ASSUME NEW t \in DOMAIN task, NEW p, SetTaskPlan(t, p)
      PROVE  Shrinks(task, task') /\ plan' = plan
  BY <1>1, <1>4 DEF SetTaskPlan, Shrinks, TaskRecord
<1>5. ASSUME NEW t \in DOMAIN task, NEW d, RemoveTaskDep(t, d)
      PROVE  Shrinks(task, task') /\ plan' = plan
  BY <1>1, <1>5 DEF RemoveTaskDep, Shrinks, TaskRecord
<1>6. ASSUME NEW i \in DOMAIN issue, NEW p \in DOMAIN plan, MoveIssueTask(i, p)
      PROVE  Shrinks(task, task') /\ plan' = plan
  <2>1. issue[i].task \in DOMAIN task BY <1>6 DEF MoveIssueTask, Inv, IssueInv
  <2>2. QED BY <1>1, <1>6, <2>1 DEF MoveIssueTask, Shrinks, TaskRecord
<1>7. QED BY <1>2, <1>3, <1>4, <1>5, <1>6

\* A deleted plan, and a converted task, go with the edges to them.
LEMMA Deletes ==
  ASSUME Inv, NEW p \in DOMAIN plan, Deletion(p)
  PROVE  Shrinks(plan, plan') /\ Shrinks(task, task')
<1>1. plan' = WithoutDeps(Drop(plan, {p}), {p})
      /\ task' = WithoutDeps(Drop(task, TasksOf(p)), TasksOf(p))
  BY DEF Deletion, Delete
<1>2. /\ \A q \in DOMAIN plan : plan[q] \in PlanRecord
      /\ \A t \in DOMAIN task : task[t] \in TaskRecord
  BY DEF Inv, PlanInv, TaskInv
<1>3. Shrinks(plan, plan') BY <1>1, <1>2 DEF WithoutDeps, Drop, Shrinks, PlanRecord
<1>4. Shrinks(task, task') BY <1>1, <1>2 DEF WithoutDeps, Drop, Shrinks, TaskRecord
<1>5. QED BY <1>3, <1>4

\* A new plan or task depends on nothing, whatever it is made from.
LEMMA Adds ==
  ASSUME Inv
  PROVE  /\ (\E m \in 0 .. MaxMilestone : AddPlan(m)) \/ CreateFirstPlan =>
              Extends(plan, plan', NextId("plan")) /\ task' = task
         /\ (\E p \in DOMAIN plan : AddTask(p) \/ CreateFirstTask(p)
                 \/ \E i \in DOMAIN issue : ScheduleIssue(i, p)) =>
              Extends(task, task', NextId("task")) /\ plan' = plan
         /\ \A t \in DOMAIN task : ConvertTaskToPlan(t) =>
              Extends(plan, plan', NextId("plan")) /\ Shrinks(task, task')
<1>1. NextId("plan") \notin DOMAIN plan /\ NextId("task") \notin DOMAIN task
  BY DEF Inv, MetaInv, PlanInv, TaskInv, NextId, Collection
<1>2. ASSUME NEW r, r.deps = {}, plan' = Put(plan, NextId("plan"), r)
      PROVE  Extends(plan, plan', NextId("plan"))
  BY <1>1, <1>2 DEF Put, Extends
<1>3. ASSUME NEW r, r.deps = {}, task' = Put(task, NextId("task"), r)
      PROVE  Extends(task, task', NextId("task"))
  BY <1>1, <1>3 DEF Put, Extends
<1>4. /\ \A m : NewPlan(m).deps = {}
      /\ \A p : NewTask(p).deps = {}
      /\ \A t : ConvertedPlan(t).deps = {}
  BY DEF NewPlan, NewTask, ConvertedPlan
<1>5. ASSUME NEW t \in DOMAIN task, ConvertTaskToPlan(t) PROVE Shrinks(task, task')
  <2>1. \A u \in DOMAIN task : task[u] \in TaskRecord BY DEF Inv, TaskInv
  <2>2. task' = WithoutDeps(Drop(task, {t}), {t}) BY <1>5 DEF ConvertTaskToPlan
  <2>3. QED BY <2>1, <2>2 DEF WithoutDeps, Drop, Shrinks, TaskRecord
<1>6. ASSUME NEW m \in 0 .. MaxMilestone, AddPlan(m)
      PROVE  Extends(plan, plan', NextId("plan")) /\ task' = task
  BY <1>2, <1>4, <1>6 DEF AddPlan
<1>7. ASSUME CreateFirstPlan PROVE Extends(plan, plan', NextId("plan")) /\ task' = task
  BY <1>2, <1>4, <1>7 DEF CreateFirstPlan
<1>8. ASSUME NEW p \in DOMAIN plan, AddTask(p) \/ CreateFirstTask(p)
      PROVE  Extends(task, task', NextId("task")) /\ plan' = plan
  BY <1>3, <1>4, <1>8 DEF CreateFirstTask, AddTask
<1>9. ASSUME NEW p \in DOMAIN plan, NEW i \in DOMAIN issue, ScheduleIssue(i, p)
      PROVE  Extends(task, task', NextId("task")) /\ plan' = plan
  BY <1>3, <1>4, <1>9 DEF ScheduleIssue
<1>10. ASSUME NEW t \in DOMAIN task, ConvertTaskToPlan(t)
       PROVE  Extends(plan, plan', NextId("plan"))
  BY <1>2, <1>4, <1>10 DEF ConvertTaskToPlan
<1>11. QED BY <1>5, <1>6, <1>7, <1>8, <1>9, <1>10

\* A new edge is one that the search of the store found no way back for.
LEMMA Edges ==
  ASSUME Inv, AcyclicDeps,
         \/ \E p \in DOMAIN plan, d \in DOMAIN plan : AddPlanDep(p, d)
         \/ \E t \in DOMAIN task, d \in DOMAIN task : AddTaskDep(t, d)
  PROVE  Acyclic(plan') /\ Acyclic(task')
<1>1. Acyclic(plan) /\ Acyclic(task) /\ DepsInside(plan) /\ DepsInside(task)
  BY StoreDepsInside DEF AcyclicDeps
<1>2. ASSUME NEW p \in DOMAIN plan, NEW d \in DOMAIN plan, AddPlanDep(p, d)
      PROVE  Acyclic(plan') /\ Acyclic(task')
  <2>1. plan[p] \in PlanRecord BY DEF Inv, PlanInv
  <2>2. /\ DOMAIN plan' = DOMAIN plan /\ plan'[p].deps = plan[p].deps \cup {d}
        /\ \A x \in DOMAIN plan \ {p} : plan'[x].deps = plan[x].deps
        /\ ~WouldCreateCycle(plan, p, d) /\ task' = task
    BY <1>2, <2>1 DEF AddPlanDep, PlanRecord
  <2>3. Acyclic(plan') BY <1>1, <2>2, EdgeAcyclic
  <2>4. QED BY <1>1, <2>2, <2>3
<1>3. ASSUME NEW t \in DOMAIN task, NEW d \in DOMAIN task, AddTaskDep(t, d)
      PROVE  Acyclic(plan') /\ Acyclic(task')
  <2>1. task[t] \in TaskRecord BY DEF Inv, TaskInv
  <2>2. /\ DOMAIN task' = DOMAIN task /\ task'[t].deps = task[t].deps \cup {d}
        /\ \A x \in DOMAIN task \ {t} : task'[x].deps = task[x].deps
        /\ ~WouldCreateCycle(task, t, d) /\ plan' = plan
    BY <1>3, <2>1 DEF AddTaskDep, TaskRecord
  <2>3. Acyclic(task') BY <1>1, <2>2, EdgeAcyclic
  <2>4. QED BY <1>1, <2>2, <2>3
<1>4. QED BY <1>2, <1>3

\* An imported plan depends on old plans, and the edges among the imported tasks
\* mirror those among the originals.
LEMMA Copies ==
  ASSUME Inv, AcyclicDeps, Arrival
  PROVE  Acyclic(plan') /\ Acyclic(task')
<1>1. Acyclic(plan) /\ Acyclic(task) /\ DepsInside(plan) /\ DepsInside(task)
  BY StoreDepsInside DEF AcyclicDeps
<1> DEFINE q == NextId("plan")
<1>2. PICK h, R, N :
        /\ plan' = Put(plan, q, N) /\ q \notin DOMAIN plan /\ N.deps \subseteq DOMAIN plan
        /\ DOMAIN task' = DOMAIN task \cup MintedIds("task", DOMAIN h)
        /\ MintedIds("task", DOMAIN h) \cap DOMAIN task = {}
        /\ \A t \in DOMAIN task : task'[t] = task[t]
        /\ \A k \in MintedIds("task", DOMAIN h) :
             task'[k] = CopyTask(DOMAIN h, R, q, h[Source("task", DOMAIN h, k)])
        /\ Ids(DOMAIN h) /\ R \subseteq DOMAIN task
        /\ \A t \in DOMAIN h : h[t] \in TaskRecord
        /\ Acyclic(h)
  <2>1. PICK s, P, R :
        /\ plan' = Put(plan, q, CopyPlanRecord(P, s.plan)) /\ q \notin DOMAIN plan
        /\ CopyPlanRecord(P, s.plan).deps \subseteq DOMAIN plan
        /\ DOMAIN task' = DOMAIN task \cup MintedIds("task", DOMAIN s.task)
        /\ MintedIds("task", DOMAIN s.task) \cap DOMAIN task = {}
        /\ \A t \in DOMAIN task : task'[t] = task[t]
        /\ \A k \in MintedIds("task", DOMAIN s.task) :
             task'[k] = CopyTask(DOMAIN s.task, R, q, s.task[Source("task", DOMAIN s.task, k)])
        /\ Ids(DOMAIN s.task) /\ R \subseteq DOMAIN task
        /\ \A t \in DOMAIN s.task : s.task[t] \in TaskRecord
        /\ Acyclic(task) => Acyclic(s.task)
    BY ImportEffects
  <2>2. QED BY <1>1, <2>1
<1> DEFINE T == DOMAIN h
           K == MintedIds("task", T)
           m == [x \in T |-> Minted("task", T, x)]
<1>3. Acyclic(plan')
  <2>1. Extends(plan, plan', q) BY <1>2 DEF Extends, Put
  <2>2. QED BY <1>1, <2>1, ExtendsAcyclic
<1>4. seq["task"] \in Nat /\ T \in SUBSET Nat /\ IsFiniteSet(T)
  BY <1>2 DEF Inv, MetaInv, Collection, Ids
<1>5. ASSUME NEW x \in T, NEW y \in T, m[x] = m[y] PROVE x = y
  <2>1. m[x] = seq["task"] + Rank(T, x) /\ m[y] = seq["task"] + Rank(T, y)
    BY DEF Minted, Rank
  <2> HIDE DEF m, T
  <2>2. Rank(T, x) \in 1 .. Cardinality(T) /\ Rank(T, y) \in 1 .. Cardinality(T)
        /\ Cardinality(T) \in Nat
    BY <1>4, RankBounds
  <2>3. Rank(T, x) \in Nat /\ Rank(T, y) \in Nat BY <2>2
  <2>4. seq["task"] + Rank(T, x) = seq["task"] + Rank(T, y) BY <1>5, <2>1
  <2>5. Rank(T, x) = Rank(T, y) BY <1>4, <2>3, <2>4
  <2>6. QED BY <1>4, <2>5, RankDistinct
<1>6. ASSUME NEW k \in K
      PROVE  \E x \in T :
               k = m[x] /\ \A e \in task'[k].deps \cap K : \E y \in h[x].deps \cap T : e = m[y]
  <2> DEFINE x == Source("task", T, k)
  <2>1. x \in T /\ k = m[x] BY DEF MintedIds, Source
  <2>2. h[x] \in TaskRecord /\ task'[k] = CopyTask(T, R, q, h[x]) BY <1>2, <2>1
  <2> HIDE DEF x
  <2>3. task'[k].deps = {IF d \in T THEN Minted("task", T, d) ELSE d : d \in h[x].deps \cap (T \cup R)}
    BY <2>2 DEF CopyTask, TaskRecord
  <2>4. ASSUME NEW e \in task'[k].deps \cap K PROVE \E y \in h[x].deps \cap T : e = m[y]
    <3>1. K \cap R = {} BY <1>2
    <3> HIDE DEF T, K
    <3>2. PICK d \in h[x].deps \cap (T \cup R) :
            e = IF d \in T THEN Minted("task", T, d) ELSE d
      BY <2>3, <2>4
    <3>3. d \in T BY <2>4, <3>1, <3>2
    <3>4. QED BY <3>2, <3>3
  <2>5. QED BY <2>1, <2>4
<1>7. Acyclic(task')
  <2>1. /\ DOMAIN task' = DOMAIN task \cup K /\ K \cap DOMAIN task = {}
        /\ \A x \in DOMAIN task : task'[x].deps = task[x].deps
    BY <1>2
  <2>2. \A x \in T, y \in T : m[x] = m[y] => x = y BY <1>5
  <2>3. \A k \in K : \E x \in T :
          k = m[x] /\ \A e \in task'[k].deps \cap K : \E y \in h[x].deps \cap T : e = m[y]
    BY <1>6
  <2> HIDE DEF m, K
  <2>4. Mirrors(task, task', h, m, K) BY <2>1, <2>2, <2>3 DEF Mirrors
  <2>5. QED BY <1>1, <1>2, <2>4, CopiesAcyclic
<1>8. QED BY <1>3, <1>7

-----------------------------------------------------------------------------
(* The invariant *)

\* No transaction of the store closes a cycle.
LEMMA StepKeepsAcyclic ==
  ASSUME Inv, AcyclicDeps, [Next]_vars
  PROVE  Acyclic(plan') /\ Acyclic(task')
<1>1. Acyclic(plan) /\ Acyclic(task) /\ DepsInside(plan) /\ DepsInside(task)
  BY StoreDepsInside DEF AcyclicDeps
<1>2. CASE UNCHANGED <<plan, task>> BY <1>1, <1>2
<1>3. CASE Shrinks(plan, plan') /\ task' = task BY <1>1, <1>3, ShrinksAcyclic
<1>4. CASE Shrinks(task, task') /\ plan' = plan BY <1>1, <1>4, ShrinksAcyclic
<1>5. CASE Extends(plan, plan', NextId("plan")) /\ task' = task
  BY <1>1, <1>5, ExtendsAcyclic
<1>6. CASE Extends(task, task', NextId("task")) /\ plan' = plan
  BY <1>1, <1>6, ExtendsAcyclic
<1>7. CASE \/ UNCHANGED vars \/ (\E a \in Callers : Open(a)) \/ Close \/ AddMilestone \/ Replay
           \/ (\E n \in NoteTargets : AddNote(n)) \/ (\E p \in DOMAIN plan : ExportPlan(p))
           \/ (\E t \in DOMAIN task \cup {0} : AddIssue(t))
           \/ (\E c \in Sha, p \in 0 .. MaxPlan, t \in 0 .. MaxTask : AddCommit(c, p, t))
  BY <1>2, <1>7 DEF vars, Open, Close, AddMilestone, Replay, AddNote, ExportPlan, AddIssue,
                    AddCommit
<1>8. CASE (\E m \in 0 .. MaxMilestone : AddPlan(m)) \/ CreateFirstPlan
  BY <1>5, <1>8, Adds
<1>9. CASE UsePlan(0, FALSE) BY <1>3, <1>9, PlanEdits
<1>10. ASSUME NEW p \in DOMAIN plan, PlanStep(p) PROVE Acyclic(plan') /\ Acyclic(task')
  <2>1. p \in DOMAIN plan \cup {0} /\ p # 0 BY DEF Inv, PlanInv, MetaInv, Collection
  <2>2. CASE \/ \E steal \in BOOLEAN : UsePlan(p, steal)
             \/ ReleasePlan(p)
             \/ \E s \in PlanStatusIn, k \in 0 .. 1 : SetPlanStatus(p, s, k)
             \/ \E force \in BOOLEAN : CompletePlan(p, force)
             \/ \E r \in Reason \cup {NoReason} : SetPlanHold(p, r)
             \/ \E m \in 0 .. MaxMilestone : SetPlanMilestone(p, m)
             \/ \E d \in DOMAIN plan : RemovePlanDep(p, d)
    BY <1>3, <2>1, <2>2, PlanEdits
  <2>3. CASE \E d \in DOMAIN plan : AddPlanDep(p, d) BY <2>3, Edges
  <2>4. CASE DeletePlan(p) \/ DeletePlanForMove(p)
    BY <1>1, <2>4, DeletesOfPlan, Deletes, ShrinksAcyclic
  <2>5. CASE CopyPlan(p) \/ ExportPlan(p) BY <1>7, <2>5, Copies DEF Arrival
  <2>6. CASE AddTask(p) \/ CreateFirstTask(p) BY <1>6, <2>6, Adds
  <2>7. QED BY <1>10, <2>2, <2>3, <2>4, <2>5, <2>6 DEF PlanStep
<1>11. ASSUME NEW t \in DOMAIN task, TaskStep(t) PROVE Acyclic(plan') /\ Acyclic(task')
  <2>1. CASE \/ \E s \in TaskStatusIn, k \in 0 .. 1 : SetTaskStatus(t, s, k)
             \/ \E r \in Reason \cup {NoReason} : SetTaskHold(t, r)
             \/ \E p \in DOMAIN plan : SetTaskPlan(t, p)
             \/ \E d \in DOMAIN task : RemoveTaskDep(t, d)
    BY <1>4, <2>1, TaskEdits
  <2>2. CASE \E d \in DOMAIN task : AddTaskDep(t, d) BY <2>2, Edges
  <2>3. CASE ConvertTaskToPlan(t) BY <1>1, <2>3, Adds, ShrinksAcyclic, ExtendsAcyclic
  <2>4. QED BY <1>11, <2>1, <2>2, <2>3 DEF TaskStep
<1>12. ASSUME NEW i \in DOMAIN issue, IssueStep(i) PROVE Acyclic(plan') /\ Acyclic(task')
  <2>1. CASE \/ \E s \in {"open", "closed"} : SetIssueStatus(i, s)
             \/ \E t \in DOMAIN task \cup {0} : SetIssueTask(i, t)
    BY <1>2, <2>1 DEF SetIssueStatus, SetIssueTask
  <2>2. CASE \E p \in DOMAIN plan : MoveIssueTask(i, p) BY <1>4, <2>2, TaskEdits
  <2>3. CASE \E p \in DOMAIN plan : ScheduleIssue(i, p) BY <1>6, <2>3, Adds
  <2>4. QED BY <1>12, <2>1, <2>2, <2>3 DEF IssueStep
<1>13. QED BY <1>7, <1>8, <1>9, <1>10, <1>11, <1>12, Copies DEF Next, Arrival

\* No sequence of edges, deletes, moves, conversions and copies, of any length
\* and in stores of any size, closes a cycle of dependencies.
THEOREM NoDependencyCycle == Spec => []AcyclicDeps
<1>1. Init => AcyclicDeps BY DEF Init, AcyclicDeps, Acyclic
<1>2. Inv /\ AcyclicDeps /\ [Next]_vars => AcyclicDeps'
  <2>1. Inv /\ AcyclicDeps /\ [Next]_vars => Acyclic(plan') /\ Acyclic(task')
    BY StepKeepsAcyclic
  <2>2. QED BY <2>1 DEF AcyclicDeps, Acyclic
<1>3. QED BY <1>1, <1>2, Invariance, PTL DEF Spec

\* The store at large: in every state any sequence of transactions reaches,
\* records have their types and minted ids, no reference dangles, no dependency
\* closes a cycle, what is finished holds nothing and owners are known.
THEOREM StoreIsSafe == Spec => []StoreSafe
BY TypeCorrect, NoDanglingReference, NoDependencyCycle, FinishedIsFree, OwnersAreKnown, PTL
   DEF StoreSafe
=============================================================================
