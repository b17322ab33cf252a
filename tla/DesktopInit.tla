---------------------------- MODULE DesktopInit ----------------------------
(***************************************************************************)
(* A desktop's first-run initialization of a project on top of the active *)
(* generation: choosing a folder, quiescing the process's own runtime,    *)
(* the commit under the exclusive cutover lease with a checkpoint in the   *)
(* journal after each durable step, the recovery of a failed commit, and   *)
(* what a restarted desktop makes of the journal it finds.                 *)
(*                                                                         *)
(* An operation has one goal, so a store committed the operation's goal    *)
(* when its goal is the operation (0: a goal a command set).  Checkpoints are their ranks: 0 none,   *)
(* 1 prepared, 2 runtime, 3 project, 4 guide, 5 bound.  The guide is that  *)
(* its application may fail (ProjectGuide has its own steps).              *)
(***************************************************************************)
EXTENDS ActiveGeneration

CONSTANT MaxOp
ASSUME InitAssumption == MaxOp \in Nat

VARIABLES
  journal, \* desktop-initialization.json, or None
  mem,     \* the status each desktop process holds
  ops      \* the operation ids drawn

ivars == <<journal, mem, ops>>
vars == <<avars, ivars>>

Init == AInit /\ journal = None /\ mem = [d \in Desktops |-> None] /\ ops = 0

Status(op, root, cp, outcome) == [op |-> op, root |-> root, cp |-> cp, outcome |-> outcome]
Incomplete(s) == s # None /\ s.outcome # "complete"
Stopped(s, cp) == Status(s.op, s.root, cp, IF cp = 0 THEN "ready" ELSE "recovery")

\* validate_desktop_initialization_transition
MayReplace(new) ==
  journal # None =>
    IF journal.op = new.op
    THEN new.cp >= journal.cp /\ (journal.outcome = "complete" => new.outcome = "complete")
    ELSE journal.outcome = "complete" \/ (journal.cp = 0 /\ new.cp = 0)
-----------------------------------------------------------------------------
(* Starting, and reading the journal again *)

\* An operation that recorded no checkpoint is settled by what it left behind.
\* A plan that is not its own, or no longer valid, keeps the desktop down.
Settled ==
  IF journal = None \/ journal.cp # 0 \/ journal.outcome = "complete" THEN journal
  ELSE IF plan # None \/ disk[journal.root].step # "none" THEN Stopped(journal, 1)
  ELSE Stopped(journal, 0)
Startable ==
  (journal # None /\ journal.cp = 0 /\ plan # None) =>
    /\ plan.op = journal.op /\ plan.root = journal.root
    /\ disk[plan.root].here =>
         disk[plan.root].made /\ (plan.prev # None => StrictOk(plan.prev))

Startup(d) ==
  /\ pc[d] = "down" /\ CanShare(d) /\ Startable
  /\ journal' = Settled /\ mem' = [mem EXCEPT ![d] = Settled]
  /\ IF Incomplete(Settled) /\ plan # None
     THEN Goto(d, "up") /\ UNCHANGED then
     ELSE LoadThen(d, "started")
  /\ UNCHANGED <<durable, locks, job, budget, ops>>

\* Only an incomplete initialization lets a desktop start without a runtime
\* that should be there.
Started(d) ==
  /\ pc[d] = "started"
  /\ Goto(d, IF loaded[d] # None \/ marker = None \/ Incomplete(mem[d]) THEN "up" ELSE "down")
  /\ UNCHANGED <<durable, locks, then, job, budget, ivars>>

\* Status, pending and completed calls read the journal again; a completion by
\* another process reloads the authority.
Refresh(d) ==
  /\ pc[d] = "up" /\ journal # None /\ mem[d] # journal
  /\ mem' = [mem EXCEPT ![d] = journal]
  /\ IF journal.outcome = "complete" /\ loaded[d] = None
     THEN LoadThen(d, "up") ELSE UNCHANGED <<pc, then>>
  /\ UNCHANGED <<durable, locks, job, budget, journal, ops>>

\* reload_marker: a command published a newer marker.
ReloadMarker(d) ==
  /\ pc[d] = "up" /\ loaded[d] # None /\ loaded[d] # marker
  /\ LoadThen(d, "up")
  /\ UNCHANGED <<durable, locks, job, budget, ivars>>
-----------------------------------------------------------------------------
(* Choosing the folder *)

Routes(d, r) ==
  \/ Lists(loaded[d], r)
  \/ loaded[d] = None /\ mem[d].cp >= 2 /\ plan = None /\ Lists(marker, r) /\ LoadOk(marker)

\* The folder an interrupted operation was working on can be resumed: under
\* its own plan, or as a project the runtime routes to.
Resumable(d, r) ==
  /\ Incomplete(mem[d]) /\ mem[d].root = r
  /\ IF plan # None THEN PlanValid(r) /\ plan.op = mem[d].op
     ELSE mem[d].cp # 0 /\ Routes(d, r)

\* A folder nobody uses, and no other operation is under way.
Fresh(d, r) ==
  /\ Incomplete(mem[d]) => mem[d].cp = 0
  /\ disk[r].here /\ disk[r].step = "none" /\ ~Lists(loaded[d], r)
  /\ plan = None /\ (loaded[d] = None => ~globalMade)

Choose(d, r) ==
  /\ pc[d] = "up" /\ Fresh(d, r) /\ ops < MaxOp
  /\ ~(Incomplete(mem[d]) /\ mem[d].root = r)
  /\ ops' = ops + 1
  /\ mem' = [mem EXCEPT ![d] = Status(ops + 1, r, 0, "ready")]
  /\ UNCHANGED <<avars, journal>>

\* A confirmed request is classified again; then the process lets go of its own
\* runtime, whose shared lease would keep it from the exclusive one.
Initialize(d) ==
  /\ pc[d] = "up" /\ mem[d] # None /\ mem[d].cp < 5
  /\ IF Resumable(d, mem[d].root) \/ (mem[d].cp = 0 /\ Fresh(d, mem[d].root))
     THEN /\ mem' = [mem EXCEPT ![d].outcome = "progress"]
          /\ loaded' = [loaded EXCEPT ![d] = None]
          /\ job' = [job EXCEPT ![d] = [root |-> mem[d].root, keep |-> {}, cp |-> mem[d].cp]]
          /\ Goto(d, "exclude")
          /\ UNCHANGED <<durable, lease, publisher, then, budget, journal, ops>>
     ELSE /\ mem[d].cp = 0
          /\ mem' = [mem EXCEPT ![d] = None]
          /\ UNCHANGED <<avars, journal, ops>>
-----------------------------------------------------------------------------
(* The commit, under the exclusive lease *)

Running(d, step) == pc[d] = step /\ job[d].cp \in 0..4
Fails(d) == Quit(d) /\ UNCHANGED ivars

\* Durably records the operation in progress at a checkpoint.
Record(d, cp) ==
  LET s == Status(mem[d].op, mem[d].root, cp, "progress") IN
  /\ MayReplace(s)
  /\ journal' = s /\ mem' = [mem EXCEPT ![d] = s]
Recorded(d, cp, next) ==
  \/ Record(d, cp) /\ Goto(d, next) /\ UNCHANGED <<durable, locks, then, job, budget, ops>>
  \/ ~MayReplace(Status(mem[d].op, mem[d].root, cp, "progress")) /\ Fails(d)

\* What changed since the folder was classified refuses the commit.
Exclusive(d) ==
  /\ CanExclude(d)
  /\ ~(Incomplete(journal) /\ journal.op # mem[d].op /\ journal.cp # 0)
  /\ marker # None => StrictOk(marker)
  /\ job[d].cp = 0 => ~Lists(marker, job[d].root) /\ TargetFree(job[d].root)
Exclude(d) ==
  /\ Running(d, "exclude")
  /\ IF Exclusive(d) /\ MayReplace(Status(mem[d].op, mem[d].root, job[d].cp, "progress"))
     THEN /\ Record(d, job[d].cp)
          /\ lease' = [lease EXCEPT ![d] = "exclusive"] /\ Goto(d, "pin")
          /\ UNCHANGED <<durable, loaded, publisher, then, job, budget, ops>>
     ELSE Fails(d)

AfterPin(d) == CASE job[d].cp = 4 -> "finish" [] job[d].cp = 3 -> "prove" [] OTHER -> "planning"

\* The directory of the plan; of a runtime that was committed, made again if it
\* was lost; or a new one, where none may be.
Pin(d) ==
  /\ Running(d, "pin")
  /\ LET r == job[d].root IN
     \/ /\ IF plan # None THEN PlanValid(r) /\ plan.op = mem[d].op
           ELSE job[d].cp >= 2 /\ disk[r].here /\ disk[r].step # "none"
        /\ Goto(d, AfterPin(d)) /\ UNCHANGED <<durable, locks, then, job, budget, ivars>>
     \/ /\ plan = None /\ disk[r].here /\ disk[r].step = "none"
        /\ MakeDirectory(r) /\ Goto(d, AfterPin(d))
        /\ UNCHANGED <<marker, plan, globalMade, locks, then, job, faults, upheavals, ivars>>
     \/ /\ IF plan # None THEN ~(PlanValid(r) /\ plan.op = mem[d].op)
           ELSE ~disk[r].here \/ (job[d].cp < 2 /\ disk[r].step # "none")
        /\ Fails(d)

Planning(d) ==
  /\ Running(d, "planning")
  /\ LET r == job[d].root IN
     IF plan # None THEN Goto(d, "prepare") /\ UNCHANGED <<durable, locks, then, job, budget, ivars>>
     ELSE IF Lists(marker, r) /\ job[d].cp # 0
     THEN Goto(d, "runtime") /\ UNCHANGED <<durable, locks, then, job, budget, ivars>>
     ELSE IF disk[r].here /\ disk[r].step = "dir" /\ (marker = None => ~globalMade)
     THEN /\ plan' = NewPlan(mem[d].op, r) /\ Goto(d, "prepare")
          /\ UNCHANGED <<marker, globalMade, disk, locks, then, job, budget, ivars>>
     ELSE Fails(d)

Prepare(d) == Running(d, "prepare") /\ Recorded(d, 1, "match")

\* The stores are GlobalStore .. Install, unless the marker is the plan's already.
Match(d) ==
  /\ Running(d, "match")
  /\ IF marker \in {plan.target, plan.prev}
     THEN /\ Goto(d, IF marker = plan.target THEN "runtime" ELSE "stores")
          /\ UNCHANGED <<durable, locks, then, job, budget, ivars>>
     ELSE Fails(d)

Runtime(d) == Running(d, "runtime") /\ Recorded(d, 2, "goal")

Goal(d) ==
  /\ Running(d, "goal")
  /\ LET r == job[d].root IN
     IF Entry(r) \in marker /\ Bound(r, disk[r].db)
     THEN /\ disk' = [disk EXCEPT ![r].goal = mem[d].op] /\ Goto(d, "unplan")
          /\ UNCHANGED <<marker, plan, globalMade, locks, then, job, budget, ivars>>
     ELSE Fails(d)

ClearPlan(d) ==
  /\ Running(d, "unplan")
  /\ plan' = None /\ Goto(d, "commit")
  /\ UNCHANGED <<marker, globalMade, disk, locks, then, job, budget, ivars>>

Commit(d) == Running(d, "commit") /\ Recorded(d, 3, "apply")

\* A commit that was recorded proves its goal again.
Prove(d) ==
  /\ Running(d, "prove")
  /\ LET r == job[d].root IN
     IF /\ marker # None /\ Entry(r) \in marker /\ Bound(r, disk[r].db)
        /\ disk[r].goal = mem[d].op /\ (plan # None => plan.target = marker)
     THEN /\ plan' = None /\ Goto(d, "apply")
          /\ UNCHANGED <<marker, globalMade, disk, locks, then, job, budget, ivars>>
     ELSE Fails(d)

Apply(d) == Running(d, "apply") /\ Recorded(d, 4, "reload")

\* The guide was applied: only the plan is left to clear.
Finish(d) ==
  /\ Running(d, "finish")
  /\ IF marker # None /\ (plan # None => plan.target = marker)
     THEN /\ plan' = None /\ Goto(d, "reload")
          /\ UNCHANGED <<marker, globalMade, disk, locks, then, job, budget, ivars>>
     ELSE Fails(d)

\* The exclusive lease goes, and the authority is loaded again.
Reload(d) ==
  /\ pc[d] = "reload"
  /\ Release(d) /\ LoadThen(d, "applied")
  /\ UNCHANGED <<durable, loaded, job, budget, ivars>>
Applied(d) ==
  /\ pc[d] = "applied"
  /\ IF loaded[d] # None
     THEN Goto(d, "up") /\ UNCHANGED <<durable, locks, then, job, budget, ivars>>
     ELSE Fails(d)

\* The coordinator opened the workspace.
MarkBound(d) ==
  /\ pc[d] = "up" /\ mem[d] # None /\ mem[d].cp = 4 /\ Lists(loaded[d], mem[d].root)
  /\ LET s == Status(mem[d].op, mem[d].root, 5, "complete") IN
     /\ MayReplace(s) /\ journal' = s /\ mem' = [mem EXCEPT ![d] = s]
  /\ UNCHANGED <<avars, ops>>
-----------------------------------------------------------------------------
(* Failure, recovery and crash *)

\* Any step may fail: the lease goes and the recovery loads what it can.
StepFails(d) ==
  /\ pc[d] \in {"pin", "planning", "prepare", "match", "stores", "activate", "install", "runtime", "goal",
               "unplan", "commit", "prove", "apply", "finish"}
  /\ faults < MaxFault /\ faults' = faults + 1
  /\ Release(d) /\ Goto(d, "failed")
  /\ UNCHANGED <<durable, loaded, then, job, dbs, upheavals, ivars>>

Failed(d) ==
  /\ pc[d] = "failed"
  /\ LoadThen(d, "derive")
  /\ UNCHANGED <<durable, locks, job, budget, ivars>>

\* derive_initialization_checkpoint
Derived(d) ==
  LET r == job[d].root IN
  IF Lists(loaded[d], r) THEN IF Bound(r, disk[r].db) /\ disk[r].goal = mem[d].op THEN 3 ELSE 2
  ELSE IF loaded[d] = None /\ plan # None THEN 1
  ELSE CASE Stored(r) -> 2 [] disk[r].step = "dir" -> 1 [] OTHER -> 0

\* The failure is recorded by the journal's owner; anyone else takes over what
\* the journal says.
Recover(d) ==
  /\ pc[d] = "derive"
  /\ LET s == Stopped(mem[d], Derived(d)) IN
     /\ journal' = IF journal # None /\ journal.op = s.op /\ MayReplace(s) THEN s ELSE journal
     /\ mem' = [mem EXCEPT ![d] = IF journal = None THEN s ELSE journal']
  /\ Goto(d, "up")
  /\ UNCHANGED <<durable, locks, then, job, budget, ops>>

\* The desktop quits, or is killed in the middle of something.
DesktopEnds(d) ==
  /\ pc[d] # "down"
  /\ IF pc[d] = "up" THEN UNCHANGED faults ELSE faults < MaxFault /\ faults' = faults + 1
  /\ Release(d) /\ loaded' = [loaded EXCEPT ![d] = None] /\ Goto(d, "down")
  /\ mem' = [mem EXCEPT ![d] = None]
  /\ UNCHANGED <<durable, then, job, dbs, upheavals, journal, ops>>

Committing(d) ==
  \/ Exclude(d) \/ Pin(d) \/ Planning(d) \/ Prepare(d) \/ Match(d) \/ Runtime(d) \/ Goal(d)
  \/ ClearPlan(d) \/ Commit(d) \/ Prove(d) \/ Apply(d) \/ Finish(d) \/ Reload(d) \/ Applied(d)
  \/ Failed(d) \/ Recover(d)
Desktop(d) ==
  \/ Startup(d) \/ Started(d) \/ Refresh(d) \/ ReloadMarker(d)
  \/ (\E r \in Roots : Choose(d, r)) \/ Initialize(d) \/ Committing(d) \/ MarkBound(d)
  \/ StepFails(d) \/ DesktopEnds(d)

Next == (ANext /\ UNCHANGED ivars) \/ \E d \in Desktops : Desktop(d)
Spec == Init /\ [][Next]_vars

\* A user who starts the desktop when it is down and keeps answering the pending
\* initialization; every step of a commit and of a load is taken.
Fairness ==
  \A d \in Desktops :
    /\ WF_vars(Startup(d) \/ Started(d) \/ Committing(d))
    /\ WF_vars(Publish(d) /\ UNCHANGED ivars)
    /\ SF_vars(Initialize(d)) /\ SF_vars(MarkBound(d))
FairSpec == Spec /\ Fairness
-----------------------------------------------------------------------------
(* Properties *)

\* A checkpoint is recorded only once what it stands for is durable, by the
\* commit and by a recovery that infers it: from "project committed" on, the
\* project's store, if the folder is still there, holds the operation's goal.
CheckpointEarned ==
  [][(journal' # journal /\ journal'.cp \in 3..4 /\ (journal = None \/ journal.cp < 3)) =>
       LET r == journal'.root IN
       Bound(r, disk[r].db) => disk[r].goal = journal'.op]_vars

\* What a desktop and commands beside it keep at large: the entries of the
\* marker, the plan that is durable, and what a checkpoint stands for.
GenerationKept == EntryStays /\ PlanHeld /\ CheckpointEarned

\* "recording each checkpoint in order so an interruption resumes exactly where
\* it stopped" (authority/commit.rs:3): an operation interrupted after its
\* marker was committed is completed.
InterruptionResumes ==
  (journal # None /\ journal.cp = 2 /\ journal.outcome # "complete")
    ~> (journal # None /\ journal.outcome = "complete")
=============================================================================
