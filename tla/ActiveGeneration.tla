-------------------------- MODULE ActiveGeneration --------------------------
(***************************************************************************)
(* The active generation: the marker that routes every process to the     *)
(* project stores, and its publication beside live processes.  A command  *)
(* registers a folder by a durable bootstrap plan, the stores and an       *)
(* append to the marker; a load that finds a folder gone retires it; a     *)
(* moved store is relocated.  Commands may stop at any step and folders be *)
(* deleted, moved or copied behind their back.                             *)
(*                                                                         *)
(* A project's database id is random, drawn here from a counter when its   *)
(* .ptrack directory is made.  The generation number and the global        *)
(* database never change once published: that there is one is globalMade.  *)
(* A folder is its .ptrack directory: none, dir (empty), raw (a database   *)
(* not yet activated) or bound (activated at the path "at").               *)
(***************************************************************************)
EXTENDS Integers, FiniteSets

CONSTANTS
  Clis, Desktops, \* the processes: commands, and desktops (DesktopInit)
  Roots, None,
  MaxDb, MaxFault, MaxUpheaval \* bounds: databases, interruptions, folder changes

Procs == Clis \cup Desktops

ASSUME GenerationAssumption ==
  Clis \cap Desktops = {} /\ MaxDb \in Nat /\ MaxFault \in Nat /\ MaxUpheaval \in Nat

VARIABLES
  marker,     \* the published entries, a set of [root, db], or None
  plan,       \* bootstrap-plan.json, or None
  globalMade, \* whether global.redb exists
  disk,       \* what each folder holds
  lease,      \* the cutover lease each process holds for an operation
  loaded,     \* the marker each live process routes by, under a shared lease
  publisher,  \* who holds bootstrap.lock
  pc, then, job, \* of each process: its step, where a load returns, its request
  dbs, faults, upheavals

durable == <<marker, plan, globalMade, disk>>
locks == <<lease, loaded, publisher>>
steps == <<pc, then, job>>
budget == <<dbs, faults, upheavals>>
avars == <<durable, locks, steps, budget>>

Gone == [here |-> FALSE, step |-> "none", db |-> 0, at |-> None, made |-> FALSE, goal |-> None]
Empty == [Gone EXCEPT !.here = TRUE]
Entry(r) == [root |-> r, db |-> disk[r].db]

AInit ==
  /\ marker = None /\ plan = None /\ globalMade = FALSE
  /\ disk \in [Roots -> {Empty, Gone}]
  /\ lease = [p \in Procs |-> "none"] /\ loaded = [p \in Procs |-> None]
  /\ publisher = None
  /\ pc = [p \in Procs |-> IF p \in Clis THEN "idle" ELSE "down"]
  /\ then = [p \in Procs |-> "idle"] /\ job = [p \in Procs |-> None]
  /\ dbs = 0 /\ faults = 0 /\ upheavals = 0
-----------------------------------------------------------------------------
(* Leases and validation *)

CanShare(p) == \A q \in Procs \ {p} : lease[q] # "exclusive"
CanExclude(p) == \A q \in Procs : lease[q] = "none" /\ loaded[q] = None

Lists(m, r) == m # None /\ \E e \in m : e.root = r
Stored(r) == disk[r].here /\ disk[r].step \in {"raw", "bound"}
Bound(r, db) == disk[r].here /\ disk[r].step = "bound" /\ disk[r].db = db /\ disk[r].at = r

\* Validation for a load looks at the folders alone, the strict one opens every store.
LoadOk(m) == \A e \in m : disk[e.root].here
StrictOk(m) ==
  /\ \A e \in m : Bound(e.root, e.db)
  /\ \A e, f \in m : e.db = f.db => e = f

\* A plan to resume: the folder it named, the .ptrack directory it made, and a
\* previous marker that still validates.
PlanValid(r) ==
  /\ plan.root = r /\ disk[r].here /\ disk[r].made /\ disk[r].db = plan.db
  /\ plan.prev # None => StrictOk(plan.prev)

Goto(p, step) == pc' = [pc EXCEPT ![p] = step]
\* A refused command exits and a refused initialization fails; either lets go
\* of its locks.
Release(p) ==
  /\ lease' = [lease EXCEPT ![p] = "none"]
  /\ publisher' = IF publisher = p THEN None ELSE publisher
Quit(p) ==
  /\ Release(p)
  /\ loaded' = IF p \in Clis THEN [loaded EXCEPT ![p] = None] ELSE loaded
  /\ Goto(p, IF p \in Clis THEN "idle" ELSE "failed")
  /\ UNCHANGED <<durable, then, job, budget>>
-----------------------------------------------------------------------------
(* Loading the runtime, with the prune of vanished projects *)

LoadThen(p, next) == Goto(p, "load") /\ then' = [then EXCEPT ![p] = next]

\* One attempt; a first failure goes on to the prune, a second one stands.
Attempt(p) ==
  /\ pc[p] \in {"load", "again"}
  /\ LET ok == CanShare(p) /\ plan = None /\ (marker # None => LoadOk(marker)) IN
     /\ loaded' = IF ok THEN [loaded EXCEPT ![p] = marker] ELSE loaded
     /\ Goto(p, IF ok \/ pc[p] = "again" THEN then[p] ELSE "prune")
  /\ UNCHANGED <<durable, lease, publisher, then, job, budget>>

\* The prune looks for a plan before it takes its locks.
PruneCheck(p) ==
  /\ pc[p] = "prune"
  /\ Goto(p, IF plan = None THEN "retire" ELSE then[p])
  /\ UNCHANGED <<durable, locks, then, job, budget>>

Kept == {e \in marker : disk[e.root].here}

Retire(p) ==
  /\ pc[p] = "retire"
  /\ LET ok == publisher = None /\ CanShare(p) /\ marker # None /\ Kept # marker /\ StrictOk(Kept) IN
     /\ marker' = IF ok THEN Kept ELSE marker
     /\ Goto(p, IF ok THEN "again" ELSE then[p])
  /\ UNCHANGED <<plan, globalMade, disk, locks, then, job, budget>>

Load(p) == Attempt(p) \/ PruneCheck(p) \/ Retire(p)
-----------------------------------------------------------------------------
(* ptrack init *)

\* A root the marker lists already is adopted without any lease to wait for.
InitBegin(c, r) ==
  /\ pc[c] = "idle" /\ disk[r].here
  /\ job' = [job EXCEPT ![c] = [root |-> r, keep |-> {}]]
  /\ LoadThen(c, IF plan = None /\ Lists(marker, r) THEN "live" ELSE "lock")
  /\ UNCHANGED <<durable, locks, budget>>

InitLock(c) ==
  /\ pc[c] = "lock"
  /\ IF publisher = None
     THEN publisher' = c /\ Goto(c, "share") /\ UNCHANGED <<durable, lease, loaded, then, job, budget>>
     ELSE Quit(c)

\* The first generation gives its shared lease up for the exclusive one.
InitShare(c) ==
  /\ pc[c] = "share"
  /\ IF CanShare(c) /\ (marker # None => StrictOk(marker))
     THEN /\ lease' = IF marker = None THEN lease ELSE [lease EXCEPT ![c] = "shared"]
          /\ Goto(c, IF marker = None THEN "exclude" ELSE "plan")
          /\ UNCHANGED <<durable, loaded, publisher, then, job, budget>>
     ELSE Quit(c)

InitExclude(c) ==
  /\ pc[c] = "exclude"
  /\ IF CanExclude(c) /\ (marker # None => StrictOk(marker))
     THEN /\ lease' = [lease EXCEPT ![c] = "exclusive"] /\ Goto(c, "plan")
          /\ UNCHANGED <<durable, loaded, publisher, then, job, budget>>
     ELSE Quit(c)

\* The process makes the .ptrack directory; its database id is drawn with it.
MakeDirectory(r) ==
  /\ dbs < MaxDb /\ dbs' = dbs + 1
  /\ disk' = [disk EXCEPT ![r] = [Empty EXCEPT !.step = "dir", !.db = dbs', !.made = TRUE]]
TargetFree(r) ==
  /\ disk[r].here /\ disk[r].step = "none"
  /\ marker = None => ~globalMade

\* Resume the durable plan, find nothing to do, or start a plan of one's own.
InitPlan(c) ==
  /\ pc[c] = "plan"
  /\ LET r == job[c].root IN
     \/ /\ plan # None /\ PlanValid(r) /\ marker \in {plan.target, plan.prev}
        /\ Goto(c, IF marker = plan.target THEN "clear" ELSE "stores")
        /\ UNCHANGED <<durable, locks, then, job, budget>>
     \/ /\ plan = None /\ Lists(marker, r)
        /\ Release(c) /\ LoadThen(c, "live")
        /\ UNCHANGED <<durable, loaded, job, budget>>
     \/ /\ plan = None /\ ~Lists(marker, r) /\ TargetFree(r)
        /\ MakeDirectory(r) /\ Goto(c, "publish")
        /\ UNCHANGED <<marker, plan, globalMade, locks, then, job, faults, upheavals>>
     \/ /\ IF plan = None THEN ~Lists(marker, r) /\ ~TargetFree(r)
           ELSE ~(PlanValid(r) /\ marker \in {plan.target, plan.prev})
        /\ Quit(c)

NewPlan(op, r) ==
  [op |-> op, root |-> r, db |-> disk[r].db, prev |-> marker,
   target |-> (IF marker = None THEN {} ELSE marker) \cup {Entry(r)}]

InitPublish(c) ==
  /\ pc[c] = "publish"
  /\ LET r == job[c].root IN
     IF disk[r].here /\ disk[r].step = "dir"
     THEN /\ plan' = NewPlan(None, r) /\ Goto(c, "stores")
          /\ UNCHANGED <<marker, globalMade, disk, locks, then, job, budget>>
     ELSE Quit(c)
-----------------------------------------------------------------------------
(* The stores of a plan and the marker: commands and desktops alike *)

GlobalStore(p) ==
  /\ pc[p] = "stores" /\ plan.prev = None /\ ~globalMade
  /\ globalMade' = TRUE
  /\ UNCHANGED <<marker, plan, disk, locks, steps, budget>>

\* A store made by an earlier attempt is taken as it is when it is the plan's
\* and nobody wrote to it; one that was never activated is refused.
ProjectStore(p) ==
  /\ pc[p] = "stores" /\ (plan.prev = None => globalMade)
  /\ LET r == job[p].root IN
     IF disk[r].here /\ disk[r].step = "dir"
     THEN /\ disk' = [disk EXCEPT ![r].step = "raw"] /\ Goto(p, "activate")
          /\ UNCHANGED <<marker, plan, globalMade, locks, then, job, budget>>
     ELSE IF Bound(r, plan.db) /\ disk[r].goal = None
     THEN Goto(p, "install") /\ UNCHANGED <<durable, locks, then, job, budget>>
     ELSE Quit(p)

Activate(p) ==
  /\ pc[p] = "activate"
  /\ LET r == job[p].root IN
     IF disk[r].here /\ disk[r].step = "raw" /\ disk[r].db = plan.db
     THEN /\ disk' = [disk EXCEPT ![r].step = "bound", ![r].at = r] /\ Goto(p, "install")
          /\ UNCHANGED <<marker, plan, globalMade, locks, then, job, budget>>
     ELSE Quit(p)

\* The append under the shared lease, or the first marker under the exclusive one.
Install(p) ==
  /\ pc[p] = "install"
  /\ IF StrictOk(plan.target) /\ marker = plan.prev
     THEN /\ marker' = plan.target /\ Goto(p, IF p \in Clis THEN "clear" ELSE "runtime")
          /\ UNCHANGED <<plan, globalMade, disk, locks, then, job, budget>>
     ELSE Quit(p)

Clear(c) ==
  /\ pc[c] = "clear"
  /\ plan' = None /\ Release(c) /\ LoadThen(c, "live")
  /\ UNCHANGED <<marker, globalMade, disk, loaded, job, budget>>

\* The registered command runs: it may commit a goal, makes a store again that
\* its listed folder lost, and exits.
Work(c) ==
  /\ pc[c] = "live"
  /\ LET r == job[c].root
         e == CHOOSE x \in loaded[c] : x.root = r IN
     /\ Lists(loaded[c], r) /\ disk[r].here
     /\ \/ Bound(r, e.db) /\ disk' = [disk EXCEPT ![r].goal = 0]
        \/ disk[r].step \in {"none", "dir"}
           /\ disk' = [disk EXCEPT ![r] = [@ EXCEPT !.step = "bound", !.db = e.db, !.at = r]]
  /\ UNCHANGED <<marker, plan, globalMade, locks, steps, budget>>
Exit(c) == pc[c] = "live" /\ Quit(c)
-----------------------------------------------------------------------------
(* ptrack relocate *)

RelocateBegin(c, r) ==
  /\ pc[c] = "idle" /\ disk[r].here /\ disk[r].step = "bound"
  /\ job' = [job EXCEPT ![c] = [root |-> r, keep |-> {}]] /\ Goto(c, "relocate")
  /\ UNCHANGED <<durable, locks, then, budget>>

FaultyRelocatable(r) ==
  /\ plan = None /\ marker # None /\ ~Lists(marker, r)
  /\ disk[r].here /\ disk[r].step = "bound"
\* A store still present where it is registered is a copy, never a move.
Relocatable(r) ==
  /\ plan = None /\ marker # None /\ ~Lists(marker, r)
  /\ disk[r].here /\ disk[r].step = "bound"
  /\ \A e \in marker : e.db = disk[r].db => ~Stored(e.root)

RelocateLock(c) ==
  /\ pc[c] = "relocate"
  /\ LET r == job[c].root IN
     IF CanExclude(c) /\ Relocatable(r)
     THEN /\ lease' = [lease EXCEPT ![c] = "exclusive"]
          /\ job' = [job EXCEPT ![c].keep = {e \in Kept : e.db # disk[r].db}]
          /\ Goto(c, IF disk[r].at = r THEN "relist" ELSE "rebind")
          /\ UNCHANGED <<durable, loaded, publisher, then, budget>>
     ELSE Quit(c)

\* Only a store whose recorded place is empty is rebound.
Rebind(c) ==
  /\ pc[c] = "rebind"
  /\ LET r == job[c].root IN
     IF disk[r].here /\ ~Stored(disk[r].at)
     THEN /\ disk' = [disk EXCEPT ![r].at = r] /\ Goto(c, "relist")
          /\ UNCHANGED <<marker, plan, globalMade, locks, then, job, budget>>
     ELSE Quit(c)

Relist(c) ==
  /\ pc[c] = "relist"
  /\ LET target == job[c].keep \cup {Entry(job[c].root)} IN
     IF StrictOk(target)
     THEN /\ marker' = target /\ Release(c) /\ LoadThen(c, "live")
          /\ UNCHANGED <<plan, globalMade, disk, loaded, job, budget>>
     ELSE Quit(c)
-----------------------------------------------------------------------------
(* Interruptions and what happens to folders *)

\* A command is killed, or a step of it fails: the same state is left behind.
Killed(c) ==
  /\ pc[c] # "idle" /\ faults < MaxFault /\ faults' = faults + 1
  /\ Release(c) /\ loaded' = [loaded EXCEPT ![c] = None] /\ Goto(c, "idle")
  /\ UNCHANGED <<durable, then, job, dbs, upheavals>>

Upheaval(change) ==
  /\ upheavals < MaxUpheaval /\ upheavals' = upheavals + 1
  /\ disk' = change
  /\ UNCHANGED <<marker, plan, globalMade, locks, steps, dbs, faults>>
Deleted(r) == disk[r].here /\ Upheaval([disk EXCEPT ![r] = Gone])
Moved(r, s) ==
  /\ disk[r].here /\ ~disk[s].here
  /\ Upheaval([disk EXCEPT ![r] = Gone, ![s] = disk[r]])
Copied(r, s) ==
  /\ Stored(r) /\ ~disk[s].here
  /\ Upheaval([disk EXCEPT ![s] = [disk[r] EXCEPT !.made = FALSE]])

Command(c) ==
  \/ \E r \in Roots : InitBegin(c, r) \/ RelocateBegin(c, r)
  \/ InitLock(c) \/ InitShare(c) \/ InitExclude(c) \/ InitPlan(c) \/ InitPublish(c)
  \/ Clear(c) \/ Work(c) \/ Exit(c) \/ RelocateLock(c) \/ Rebind(c) \/ Relist(c)
  \/ Killed(c)
Publish(p) == Load(p) \/ GlobalStore(p) \/ ProjectStore(p) \/ Activate(p) \/ Install(p)
Folders ==
  \/ \E r \in Roots : Deleted(r)
  \/ \E r, s \in Roots : Moved(r, s) \/ Copied(r, s)
ANext == (\E c \in Clis : Command(c)) \/ (\E p \in Procs : Publish(p)) \/ Folders
ASpec == AInit /\ [][ANext]_avars
-----------------------------------------------------------------------------
(* Properties *)

\* However commands interleave and are killed, a project leaves the marker
\* only when its store is gone from its folder: no publication beside live
\* processes drops what they route to (append_active_generation,
\* retire_active_generation), and a copy never displaces the original
\* (relocation_marker_projects).
EntryStays ==
  [][marker # None => \A e \in marker : e \in marker' \/ ~Bound(e.root, e.db)]_avars

\* While a bootstrap plan is durable the marker only changes to the plan's
\* target, or to retire a folder that vanished; and the plan is given up only
\* once its project is listed, so that an interrupted registration can always
\* be taken up by the next one.
PlanHeld ==
  [][plan # None =>
       /\ marker' \notin {marker, plan.target} => marker' = Kept
       /\ plan' # plan => plan' = None /\ [root |-> plan.root, db |-> plan.db] \in marker]_avars
=============================================================================
