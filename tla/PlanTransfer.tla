---------------------------- MODULE PlanTransfer ----------------------------
(***************************************************************************)
(* `plan copy' and `plan move' between the stores of several projects.     *)
(*                                                                         *)
(* A transfer opens the source, exports the plan, opens the target while   *)
(* it still holds the source, imports the plan there in one transaction,   *)
(* closes the target and, for a move, deletes the plan from the source in  *)
(* another transaction.  A store is open to one process at a time; a       *)
(* process that finds the target taken gives up after a second (Busy), so  *)
(* two moves that cross do not wait for each other for ever.  It may also  *)
(* be killed, or fail on an I/O error, between any two steps.              *)
(*                                                                         *)
(* A project is reduced to its plans, each with an owner and its tasks;    *)
(* a task is reduced to one version of its content.                        *)
(***************************************************************************)
EXTENDS Integers, FiniteSets

CONSTANTS
  Project,    \* the registered projects
  Proc,       \* the processes
  Actor,      \* the configured identities
  NoActor,    \* a process without an identity; an unclaimed plan
  Identity,   \* process -> its identity
  Free,       \* a store nobody has open
  MaxPlan,    \* bound on the plan ids of one project
  MaxVersion  \* bound on the contents ever written

ASSUME TransferAssumption ==
  /\ NoActor \notin Actor /\ Free \notin Proc
  /\ Identity \in [Proc -> Actor \cup {NoActor}]
  /\ MaxPlan \in Nat /\ MaxVersion \in Nat

VARIABLES
  plans,     \* project -> plan id -> owner and tasks (task id -> content)
  seq,       \* project -> the highest plan and task id it minted
  lock,      \* project -> the process that has its store open
  proc,      \* process -> the transfer it is running
  version,   \* the contents written so far
  alive      \* the contents nobody has overwritten or deleted on purpose

vars == <<plans, seq, lock, proc, version, alive>>

Idle == [pc |-> "idle"]

\* A running transfer: what was exported from where, and where it goes.
Transfer(pc, from, to, id, tasks, move) ==
  [pc |-> pc, from |-> from, to |-> to, id |-> id, tasks |-> tasks, move |-> move]

Contents(r) == {r.tasks[t] : t \in DOMAIN r.tasks}
Kept(ps) == UNION {UNION {Contents(ps[P][q]) : q \in DOMAIN ps[P]} : P \in Project}

Without(f, q) == [x \in DOMAIN f \ {q} |-> f[x]]
With(f, q, r) == [x \in DOMAIN f \cup {q} |-> IF x = q THEN r ELSE f[x]]

\* A plan claimed by someone else refuses changes.
ClaimAccess(p, r) == r.owner \in {NoActor, Identity[p]}

-----------------------------------------------------------------------------
(* The steps of a transfer *)

Locked(p, P) == lock' = [lock EXCEPT ![P] = p]
Unlocked(S) == lock' = [P \in Project |-> IF P \in S THEN Free ELSE lock[P]]
Held(p) == {P \in Project : lock[P] = p}
Goto(p, r) == proc' = [proc EXCEPT ![p] = r]

\* The bound on plan ids, with a place for every transfer on its way.
Room(Q) == seq[Q].plan + Cardinality({p \in Proc : /\ proc[p].pc \in {"open", "import"}
                                                  /\ proc[p].to = Q}) < MaxPlan

\* Faulty variant: exports a plan someone else has claimed.
ExportUngated(p, P, q, Q, move) ==
  /\ proc[p].pc = "idle" /\ lock[P] = Free /\ Room(Q)
  /\ move => P # Q
  /\ Locked(p, P)
  /\ Goto(p, Transfer("open", P, Q, q, plans[P][q].tasks, move))
  /\ UNCHANGED <<plans, seq, version, alive>>
\* Opens the source and exports the plan, which is gated like a change of it;
\* a move into the project the plan is in is refused.
Export(p, P, q, Q, move) ==
  /\ proc[p].pc = "idle" /\ lock[P] = Free /\ Room(Q)
  /\ move => P # Q
  /\ ClaimAccess(p, plans[P][q])
  /\ Locked(p, P)
  /\ Goto(p, Transfer("open", P, Q, q, plans[P][q].tasks, move))
  /\ UNCHANGED <<plans, seq, version, alive>>

\* A copy into the same project goes on in the store it has open.
OpenTarget(p) ==
  /\ proc[p].pc = "open" /\ lock[proc[p].to] \in {Free, p}
  /\ Locked(p, proc[p].to)
  /\ Goto(p, [proc[p] EXCEPT !.pc = "import"])
  /\ UNCHANGED <<plans, seq, version, alive>>

\* Faulty variant: waits for the target as long as it takes.
GiveUpNever(p) == FALSE /\ UNCHANGED vars
\* Busy: the target stayed taken for LOCK_TIMEOUT; nothing was written.
GiveUp(p) ==
  /\ proc[p].pc = "open" /\ lock[proc[p].to] \notin {Free, p}
  /\ Unlocked(Held(p)) /\ Goto(p, Idle)
  /\ UNCHANGED <<plans, seq, version, alive>>

\* Faulty variant: reads the next id once for all the tasks.
MintedOnce(P, T, t) == seq[P].task + 1
\* A copied record gets the next ids of its collection, in the order of the old.
Minted(P, T, t) == seq[P].task + Cardinality({u \in T : u <= t})
Copied(P, tasks) ==
  [k \in {Minted(P, DOMAIN tasks, t) : t \in DOMAIN tasks} |->
     tasks[CHOOSE t \in DOMAIN tasks : Minted(P, DOMAIN tasks, t) = k]]

\* The copy arrives unclaimed; then the target is closed, and a copy is finished.
Import(p) ==
  LET P == proc[p].to
      copy == [owner |-> NoActor, tasks |-> Copied(P, proc[p].tasks)]
  IN
  /\ proc[p].pc = "import"
  /\ plans' = [plans EXCEPT ![P] = With(@, seq[P].plan + 1, copy)]
  /\ seq' = [seq EXCEPT ![P] = [plan |-> @.plan + 1,
                                task |-> @.task + Cardinality(DOMAIN proc[p].tasks)]]
  /\ IF proc[p].move
     THEN Unlocked({P}) /\ Goto(p, [proc[p] EXCEPT !.pc = "delete"])
     ELSE Unlocked(Held(p)) /\ Goto(p, Idle)
  /\ UNCHANGED <<version, alive>>

\* What the delete of a move checks inside its transaction: the claim gate, and
\* that the plan holds the records that were exported.
Deletable(p) ==
  LET here == plans[proc[p].from] IN
  /\ proc[p].id \in DOMAIN here
  /\ ClaimAccess(p, here[proc[p].id])
  /\ DOMAIN here[proc[p].id].tasks = DOMAIN proc[p].tasks

DeleteSource(p) ==
  /\ proc[p].pc = "delete" /\ Deletable(p)
  /\ plans' = [plans EXCEPT ![proc[p].from] = Without(@, proc[p].id)]
  /\ Unlocked(Held(p)) /\ Goto(p, Idle)
  /\ UNCHANGED <<seq, version, alive>>

\* The process is killed, or its next transaction is refused or fails: the
\* stores it had open are free again, and a move that had imported the plan
\* leaves it in both projects.
Stop(p) ==
  /\ proc[p].pc # "idle"
  /\ Unlocked(Held(p)) /\ Goto(p, Idle)
  /\ UNCHANGED <<plans, seq, version, alive>>

-----------------------------------------------------------------------------
(* What others do meanwhile, each in a session of its own *)

OneSession(p, P) == proc[p].pc = "idle" /\ lock[P] = Free /\ UNCHANGED <<lock, proc>>

\* A new task, or a new version of one that exists.
Write(p, P, q, t) ==
  /\ OneSession(p, P)
  /\ ClaimAccess(p, plans[P][q]) /\ version < MaxVersion
  /\ version' = version + 1
  /\ plans' = [plans EXCEPT ![P][q].tasks = With(@, t, version + 1)]
  /\ seq' = [seq EXCEPT ![P].task = IF t > @ THEN t ELSE @]
  /\ alive' = (alive \ {plans[P][q].tasks[u] : u \in {t} \cap DOMAIN plans[P][q].tasks})
              \cup {version + 1}

\* `plan use', `plan use --steal' and `plan release'.
Claim(p, P, q, a) ==
  /\ OneSession(p, P)
  /\ Identity[p] # NoActor
  /\ a = NoActor => plans[P][q].owner = Identity[p]
  /\ plans' = [plans EXCEPT ![P][q].owner = a]
  /\ UNCHANGED <<seq, version, alive>>

\* `plan delete': what it deletes is gone on purpose.
Delete(p, P, q) ==
  /\ OneSession(p, P)
  /\ ClaimAccess(p, plans[P][q])
  /\ plans' = [plans EXCEPT ![P] = Without(@, q)]
  /\ alive' = alive \ Contents(plans[P][q])
  /\ UNCHANGED <<seq, version>>

-----------------------------------------------------------------------------
\* Every project starts with one empty plan.
Init ==
  /\ plans = [P \in Project |-> [q \in {1} |-> [owner |-> NoActor, tasks |-> <<>>]]]
  /\ seq = [P \in Project |-> [plan |-> 1, task |-> 0]]
  /\ lock = [P \in Project |-> Free]
  /\ proc = [p \in Proc |-> Idle]
  /\ version = 0 /\ alive = {}

\* What a transfer that has begun does next.
Step(p) == OpenTarget(p) \/ GiveUp(p) \/ Import(p) \/ DeleteSource(p)

Next == \E p \in Proc :
  \/ Step(p) \/ Stop(p)
  \/ \E P \in Project : \E q \in DOMAIN plans[P] :
       \/ \E Q \in Project, move \in BOOLEAN : Export(p, P, q, Q, move)
       \/ \E t \in DOMAIN plans[P][q].tasks \cup {seq[P].task + 1} : Write(p, P, q, t)
       \/ \E a \in {Identity[p], NoActor} : Claim(p, P, q, a)
       \/ Delete(p, P, q)

Spec == Init /\ [][Next]_vars

\* A process that runs a transfer goes on with it; Busy comes after a second.
FairSpec == Spec /\ \A p \in Proc : WF_vars(Step(p))

-----------------------------------------------------------------------------
(* Properties *)

\* Stores, sequences and locks are well formed; a lock is held by a process
\* that is in the middle of a transfer that involves it.
TypeOK ==
  /\ \A P \in Project : \A q \in DOMAIN plans[P] :
       /\ q \in 1 .. seq[P].plan
       /\ plans[P][q].owner \in Actor \cup {NoActor}
       /\ DOMAIN plans[P][q].tasks \subseteq 1 .. seq[P].task
       /\ Contents(plans[P][q]) \subseteq 1 .. version
  /\ \A P \in Project : lock[P] # Free =>
       /\ lock[P] \in Proc /\ proc[lock[P]].pc # "idle"
       /\ P \in {proc[lock[P]].from, proc[lock[P]].to}
  /\ alive \subseteq 1 .. version

\* Whatever crosses, fails or is killed, content that nobody deleted is in some
\* project: a move never deletes what the target does not hold, nor an edit
\* made after the export.
NothingLost == alive \subseteq Kept(plans)

\* A move that has imported the plan is not refused when it deletes the source:
\* neither a claim taken by someone else nor a change to the plan can come
\* between its export and its delete.
DeleteAdmitted == \A p \in Proc : proc[p].pc = "delete" => Deletable(p)

\* Every transfer ends, also when two of them hold what the other waits for.
TransferEnds == \A p \in Proc : proc[p].pc # "idle" ~> proc[p].pc = "idle"
=============================================================================
