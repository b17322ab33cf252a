------------------------- MODULE PlanTransferProofs -------------------------
(***************************************************************************)
(* The safety of plan transfers, proved for any number of projects,        *)
(* processes, plans and tasks: a move that has imported its plan is        *)
(* admitted when it deletes the source, and no content is ever lost.       *)
(*                                                                         *)
(* Neither is inductive.  The delete is admitted because the source stays  *)
(* locked and its plan is still the one that was exported (TransferInv);   *)
(* content survives it because every living content has a home that no     *)
(* move is about to delete (HomeInv).                                      *)
(***************************************************************************)
EXTENDS PlanTransfer, CountingLemmas, FiniteSetTheorems, TLAPS

\* A plan whose tasks are among the first n and whose contents among the first v.
GoodPlan(r, n, v) ==
  /\ r = [owner |-> r.owner, tasks |-> r.tasks]
  /\ r.owner \in Actor \cup {NoActor}
  /\ DOMAIN r.tasks \subseteq 1 .. n
  /\ \A t \in DOMAIN r.tasks : r.tasks[t] \in 1 .. v
IsTransfer(r) == r = Transfer(r.pc, r.from, r.to, r.id, r.tasks, r.move)

\* The stores: ids were minted and contents written.
PlansInv ==
  /\ version \in Nat
  /\ seq = [P \in Project |-> seq[P]] /\ DOMAIN plans = Project
  /\ \A P \in Project : /\ seq[P] = [plan |-> seq[P].plan, task |-> seq[P].task]
                        /\ seq[P].plan \in Nat /\ seq[P].task \in Nat
  /\ \A P \in Project : \A q \in DOMAIN plans[P] :
       /\ q \in 1 .. seq[P].plan
       /\ GoodPlan(plans[P][q], seq[P].task, version)

\* A running transfer holds its source, where the plan is still what it
\* exported and nobody else has claimed it.
Exported(p) ==
  LET here == plans[proc[p].from] IN
  /\ lock[proc[p].from] = p
  /\ proc[p].id \in DOMAIN here
  /\ ClaimAccess(p, here[proc[p].id])
  /\ here[proc[p].id].tasks = proc[p].tasks

TransferInv ==
  /\ proc = [p \in Proc |-> proc[p]]
  /\ \A p \in Proc :
       \/ proc[p] = Idle
       \/ /\ IsTransfer(proc[p])
          /\ proc[p].pc \in {"open", "import", "delete"}
          /\ proc[p].from \in Project /\ proc[p].to \in Project
          /\ proc[p].move \in BOOLEAN
          /\ proc[p].move => proc[p].from # proc[p].to
          /\ proc[p].pc = "import" => lock[proc[p].to] = p
          /\ Exported(p)

\* Whoever holds a store is in the middle of a transfer that involves it.
LockInv ==
  /\ DOMAIN lock = Project
  /\ \A P \in Project : lock[P] # Free =>
       /\ lock[P] \in Proc /\ proc[lock[P]].pc # "idle"
       /\ P \in {proc[lock[P]].from, proc[lock[P]].to}

\* A plan that a move is about to delete.
Doomed(P, q) ==
  \E p \in Proc : proc[p].pc = "delete" /\ proc[p].from = P /\ proc[p].id = q

\* Living content has a home that is not doomed.
Homed(c) == \E P \in Project : \E q \in DOMAIN plans[P] :
              c \in Contents(plans[P][q]) /\ ~Doomed(P, q)
HomeInv == alive \subseteq 1 .. version /\ \A c \in alive : Homed(c)

Inv == PlansInv /\ TransferInv /\ LockInv /\ HomeInv

-----------------------------------------------------------------------------
(* What the steps share *)

\* What the invariant says of a process that is not idle.
LEMMA Running ==
  ASSUME Inv, NEW r \in Proc, proc[r].pc # "idle"
  PROVE  /\ IsTransfer(proc[r])
         /\ proc[r].pc \in {"open", "import", "delete"}
         /\ proc[r].from \in Project /\ proc[r].to \in Project
         /\ proc[r].move \in BOOLEAN
         /\ proc[r].move => proc[r].from # proc[r].to
         /\ proc[r].pc = "import" => lock[proc[r].to] = r
         /\ Exported(r)
         /\ lock[proc[r].from] = r /\ r # Free
BY TransferAssumption DEF Inv, TransferInv, Idle, Exported

\* A step that leaves the plans of the running transfers alone, and every
\* process and lock but the one of p, keeps the transfers that p does not run.
OthersKept(p) ==
  \A r \in Proc \ {p} : proc[r].pc # "idle" =>
    /\ proc[r].id \in DOMAIN plans'[proc[r].from]
    /\ plans'[proc[r].from][proc[r].id] = plans[proc[r].from][proc[r].id]

\* A transfer that ends, however it ends, frees what it held and nothing else.
LEMMA EndKeepsTransfers ==
  ASSUME Inv, NEW p \in Proc, proc[p].pc # "idle", OthersKept(p),
         Unlocked(Held(p)), Goto(p, Idle)
  PROVE  TransferInv' /\ LockInv'
<1>1. proc' = [proc EXCEPT ![p] = Idle] BY DEF Goto
<1>2. proc' = [r \in Proc |-> IF r = p THEN Idle ELSE proc[r]]
  BY <1>1 DEF Inv, TransferInv
<1>3. lock' = [P \in Project |-> IF lock[P] = p THEN Free ELSE lock[P]]
  BY DEF Unlocked, Held
<1>4. ASSUME NEW r \in Proc, r # p, proc[r].pc # "idle"
      PROVE  /\ Exported(r)'
             /\ proc'[r].pc = "import" => lock'[proc'[r].to] = r
  BY <1>2, <1>3, <1>4, Running DEF OthersKept, Exported, ClaimAccess
<1>5. TransferInv'
  <2>1. ASSUME NEW r \in Proc
        PROVE  \/ proc'[r] = Idle
               \/ /\ IsTransfer(proc'[r])
                  /\ proc'[r].pc \in {"open", "import", "delete"}
                  /\ proc'[r].from \in Project /\ proc'[r].to \in Project
                  /\ proc'[r].move \in BOOLEAN
                  /\ proc'[r].move => proc'[r].from # proc'[r].to
                  /\ proc'[r].pc = "import" => lock'[proc'[r].to] = r
                  /\ Exported(r)'
    <3>1. CASE r = p \/ proc[r] = Idle BY <1>2, <3>1
    <3>2. CASE r # p /\ proc[r] # Idle
      <4>1. proc'[r] = proc[r] BY <1>2, <3>2
      <4>2. proc[r].pc # "idle" BY <3>2 DEF Inv, TransferInv
      <4>3. QED BY <1>4, <3>2, <4>1, <4>2, Running
    <3>3. QED BY <3>1, <3>2
  <2>2. QED BY <1>2, <2>1 DEF TransferInv
<1>6. LockInv'
  BY <1>2, <1>3 DEF Inv, LockInv
<1>7. QED BY <1>5, <1>6

\* A session of an idle process changes plans of one project that nobody holds.
LEMMA SessionKeepsTransfers ==
  ASSUME Inv, NEW p \in Proc, NEW P \in Project, OneSession(p, P),
         \A Q \in Project \ {P} : plans'[Q] = plans[Q]
  PROVE  TransferInv' /\ LockInv'
<1>1. UNCHANGED <<lock, proc>> /\ lock[P] = Free BY DEF OneSession
<1>2. ASSUME NEW r \in Proc, proc[r].pc # "idle" PROVE Exported(r)'
  <2>1. proc[r].from \in Project \ {P} BY <1>1, <1>2, Running
  <2>2. QED BY <1>1, <1>2, <2>1, Running DEF Exported, ClaimAccess
<1>3. LockInv' BY <1>1 DEF Inv, LockInv
<1>4. TransferInv'
  <2>1. ASSUME NEW r \in Proc, proc[r] # Idle PROVE Exported(r)'
    <3>1. proc[r].pc # "idle" BY <2>1 DEF Inv, TransferInv
    <3>2. QED BY <1>2, <3>1
  <2>2. QED BY <1>1, <2>1 DEF Inv, TransferInv
<1>5. QED BY <1>3, <1>4

\* A step that only moves the processes keeps the stores, and the homes of all
\* contents unless it dooms a plan.
LEMMA StoresKept ==
  ASSUME Inv, UNCHANGED <<plans, seq, version, alive>>,
         \A P \in Project : \A q \in DOMAIN plans[P] : Doomed(P, q)' => Doomed(P, q)
  PROVE  PlansInv' /\ HomeInv'
<1>1. PlansInv' BY DEF Inv, PlansInv
<1>2. ASSUME NEW c \in alive PROVE Homed(c)'
  <2>1. PICK P \in Project : \E q \in DOMAIN plans[P] :
          c \in Contents(plans[P][q]) /\ ~Doomed(P, q)
    BY DEF Inv, HomeInv, Homed
  <2>2. PICK q \in DOMAIN plans[P] : c \in Contents(plans[P][q]) /\ ~Doomed(P, q)
    BY <2>1
  <2>3. c \in Contents(plans'[P][q]) /\ ~Doomed(P, q)' BY <2>2
  <2>4. QED BY <2>2, <2>3 DEF Homed
<1>3. HomeInv' BY <1>2 DEF Inv, HomeInv
<1>4. QED BY <1>1, <1>3

\* A plan stays good when more ids are minted and more contents written.
LEMMA StaysGood ==
  ASSUME NEW n \in Nat, NEW m \in Nat, n <= m, NEW v \in Nat, NEW w \in Nat, v <= w,
         NEW r, GoodPlan(r, n, v)
  PROVE  GoodPlan(r, m, w)
<1>1. 1 .. n \subseteq 1 .. m /\ 1 .. v \subseteq 1 .. w OBVIOUS
<1>2. QED BY <1>1 DEF GoodPlan

\* A step that changes the plans of one project keeps the stores well formed
\* when its sequences only grow and its plans stay within them.
LEMMA OneStoreChanges ==
  ASSUME Inv, NEW P \in Project, NEW g, NEW n,
         plans' = [plans EXCEPT ![P] = g], seq' = [seq EXCEPT ![P] = n],
         n = [plan |-> n.plan, task |-> n.task], n.plan \in Nat, n.task \in Nat,
         version' \in Nat, version <= version',
         \A q \in DOMAIN g : q \in 1 .. n.plan /\ GoodPlan(g[q], n.task, version')
  PROVE  PlansInv'
<1>1. /\ DOMAIN plans' = Project /\ DOMAIN seq' = Project
      /\ plans'[P] = g /\ seq'[P] = n
      /\ \A Q \in Project \ {P} : plans'[Q] = plans[Q] /\ seq'[Q] = seq[Q]
  BY DEF Inv, PlansInv
<1>2. ASSUME NEW Q \in Project \ {P}, NEW q \in DOMAIN plans[Q]
      PROVE  q \in 1 .. seq[Q].plan /\ GoodPlan(plans[Q][q], seq[Q].task, version')
  <2>1. /\ q \in 1 .. seq[Q].plan /\ GoodPlan(plans[Q][q], seq[Q].task, version)
        /\ version \in Nat /\ seq[Q].task \in Nat
    BY DEF Inv, PlansInv
  <2>2. QED BY <2>1, StaysGood
<1>3. QED BY <1>1, <1>2 DEF Inv, PlansInv

-----------------------------------------------------------------------------
(* The steps of a transfer *)

\* Export takes a store that was free, so it disturbs no other transfer.
LEMMA ExportInv ==
  ASSUME Inv, NEW p \in Proc, NEW P \in Project, NEW q \in DOMAIN plans[P],
         NEW Q \in Project, NEW move \in BOOLEAN, Export(p, P, q, Q, move)
  PROVE  Inv'
<1> DEFINE T == Transfer("open", P, Q, q, plans[P][q].tasks, move)
<1>1. /\ proc' = [r \in Proc |-> IF r = p THEN T ELSE proc[r]]
      /\ lock' = [R \in Project |-> IF R = P THEN p ELSE lock[R]]
      /\ UNCHANGED <<plans, seq, version, alive>>
  BY DEF Export, Goto, Locked, Inv, TransferInv, LockInv
<1>2. proc[p].pc = "idle" /\ lock[P] = Free /\ (move => P # Q)
      /\ ClaimAccess(p, plans[P][q])
  BY DEF Export
<1>3. /\ T.pc = "open" /\ T.from = P /\ T.to = Q /\ T.id = q
      /\ T.tasks = plans[P][q].tasks /\ T.move = move /\ IsTransfer(T)
  BY DEF Transfer, IsTransfer
<1> HIDE DEF T
<1>4. TransferInv'
  <2>1. ASSUME NEW r \in Proc, r # p, proc[r] # Idle
        PROVE  /\ Exported(r)'
               /\ proc'[r].pc = "import" => lock'[proc'[r].to] = r
    <3>1. proc[r].pc # "idle" BY <2>1 DEF Inv, TransferInv
    <3>2. proc'[r] = proc[r] /\ plans' = plans BY <1>1, <2>1
    <3>3. proc[r].from # P /\ (proc[r].pc = "import" => proc[r].to # P)
      BY <1>2, <3>1, Running
    <3>4. QED BY <1>1, <3>1, <3>2, <3>3, Running DEF Exported, ClaimAccess
  <2>2. Exported(p)' BY <1>1, <1>2, <1>3 DEF Exported, ClaimAccess
  <2>3. QED BY <1>1, <1>2, <1>3, <2>1, <2>2 DEF Inv, TransferInv
<1>5. LockInv' BY <1>1, <1>2, <1>3, TransferAssumption DEF Inv, LockInv
<1>6. \A R \in Project : \A k \in DOMAIN plans[R] : Doomed(R, k)' => Doomed(R, k)
  BY <1>1, <1>3 DEF Doomed
<1>7. QED BY <1>1, <1>4, <1>5, <1>6, StoresKept DEF Inv

\* Opening the target takes a store that was free, or its own.
LEMMA OpenTargetInv ==
  ASSUME Inv, NEW p \in Proc, OpenTarget(p)
  PROVE  Inv'
<1> DEFINE T == [proc[p] EXCEPT !.pc = "import"]
           Q == proc[p].to
<1>1. proc[p].pc = "open" /\ lock[Q] \in {Free, p} BY DEF OpenTarget
<1>2. proc[p].pc # "idle" BY <1>1
<1>3. IsTransfer(proc[p]) /\ proc[p].from \in Project /\ Q \in Project
      /\ lock[proc[p].from] = p
  BY <1>2, Running
<1>4. /\ proc' = [r \in Proc |-> IF r = p THEN T ELSE proc[r]]
      /\ lock' = [R \in Project |-> IF R = Q THEN p ELSE lock[R]]
      /\ UNCHANGED <<plans, seq, version, alive>>
  BY DEF OpenTarget, Goto, Locked, Inv, TransferInv, LockInv
<1>5. /\ T.pc = "import" /\ T.from = proc[p].from /\ T.to = Q
      /\ T.id = proc[p].id /\ T.tasks = proc[p].tasks /\ T.move = proc[p].move
      /\ IsTransfer(T)
  BY <1>3 DEF Transfer, IsTransfer
<1> HIDE DEF T
<1>6. TransferInv'
  <2>1. ASSUME NEW r \in Proc, r # p, proc[r] # Idle
        PROVE  /\ Exported(r)'
               /\ proc'[r].pc = "import" => lock'[proc'[r].to] = r
    <3>1. proc[r].pc # "idle" BY <2>1 DEF Inv, TransferInv
    <3>2. proc'[r] = proc[r] /\ plans' = plans BY <1>4, <2>1
    <3>3. proc[r].from # Q /\ (proc[r].pc = "import" => proc[r].to # Q)
      BY <1>1, <2>1, <3>1, Running
    <3>4. QED BY <1>4, <3>1, <3>2, <3>3, Running DEF Exported, ClaimAccess
  <2>2. Exported(p)'
    <3>1. Exported(p) BY <1>2, Running
    <3>2. QED BY <1>3, <1>4, <1>5, <3>1 DEF Exported, ClaimAccess
  <2>3. proc'[p] = T /\ T.move \in BOOLEAN /\ (T.move => T.from # T.to)
        /\ lock'[T.to] = p
    BY <1>2, <1>3, <1>4, <1>5, Running
  <2>4. QED BY <1>3, <1>4, <1>5, <2>1, <2>2, <2>3 DEF Inv, TransferInv
<1>7. LockInv' BY <1>1, <1>3, <1>4, <1>5, TransferAssumption DEF Inv, LockInv
<1>8. \A R \in Project : \A k \in DOMAIN plans[R] : Doomed(R, k)' => Doomed(R, k)
  BY <1>4, <1>5 DEF Doomed
<1>9. QED BY <1>4, <1>6, <1>7, <1>8, StoresKept DEF Inv

\* Giving up and being killed leave the stores as they are.
LEMMA EndInv ==
  ASSUME Inv, NEW p \in Proc, proc[p].pc # "idle", Unlocked(Held(p)), Goto(p, Idle),
         UNCHANGED <<plans, seq, version, alive>>
  PROVE  Inv'
<1>1. OthersKept(p) BY Running DEF OthersKept, Exported
<1>2. TransferInv' /\ LockInv' BY <1>1, EndKeepsTransfers
<1>3. \A R \in Project : \A k \in DOMAIN plans[R] : Doomed(R, k)' => Doomed(R, k)
  <2>1. proc' = [proc EXCEPT ![p] = Idle] BY DEF Goto
  <2>2. proc' = [r \in Proc |-> IF r = p THEN Idle ELSE proc[r]]
    BY <2>1 DEF Inv, TransferInv
  <2>3. QED BY <2>2 DEF Doomed, Idle
<1>4. QED BY <1>2, <1>3, StoresKept DEF Inv

\* A copy gets distinct new ids, one for each task, so nothing is overwritten
\* and every content arrives.
LEMMA CopiedContents ==
  ASSUME NEW P, seq[P].task \in Nat,
         NEW f, DOMAIN f \in SUBSET Nat, IsFiniteSet(DOMAIN f)
  PROVE  /\ Cardinality(DOMAIN f) \in Nat
         /\ DOMAIN Copied(P, f) \subseteq seq[P].task + 1 .. seq[P].task + Cardinality(DOMAIN f)
         /\ \A k \in DOMAIN Copied(P, f) : \E t \in DOMAIN f : Copied(P, f)[k] = f[t]
         /\ \A t \in DOMAIN f : \E k \in DOMAIN Copied(P, f) : Copied(P, f)[k] = f[t]
<1> DEFINE D == DOMAIN f
           m(t) == Minted(P, D, t)
<1>1. Cardinality(D) \in Nat BY FS_CardinalityType
<1>2. ASSUME NEW t \in D
      PROVE  /\ Rank(D, t) \in Nat /\ m(t) = seq[P].task + Rank(D, t)
             /\ m(t) \in seq[P].task + 1 .. seq[P].task + Cardinality(D)
  <2>1. Rank(D, t) \in 1 .. Cardinality(D) BY RankBounds
  <2>2. m(t) = seq[P].task + Rank(D, t) BY DEF Minted, Rank
  <2> HIDE DEF m, D
  <2>3. QED BY <1>1, <2>1, <2>2
<1>3. ASSUME NEW t \in D, NEW u \in D, m(t) = m(u) PROVE t = u
  <2> HIDE DEF m
  <2>1. Rank(D, t) = Rank(D, u) BY <1>2, <1>3
  <2>2. QED BY <2>1, RankDistinct
<1>4. ASSUME NEW t \in D PROVE m(t) \in DOMAIN Copied(P, f) /\ Copied(P, f)[m(t)] = f[t]
  <2>1. (CHOOSE u \in D : m(u) = m(t)) = t BY <1>3
  <2>2. QED BY <2>1 DEF Copied
<1>5. DOMAIN Copied(P, f) = {m(t) : t \in D} BY DEF Copied
<1> HIDE DEF m
<1>6. \A t \in D : m(t) \in seq[P].task + 1 .. seq[P].task + Cardinality(D)
  BY <1>2
<1>7. QED BY <1>1, <1>4, <1>5, <1>6

\* A move that deletes the source deletes what it doomed: no home is lost.
LEMMA DeleteSourceInv ==
  ASSUME Inv, NEW p \in Proc, DeleteSource(p)
  PROVE  Inv'
<1> DEFINE P == proc[p].from
           q == proc[p].id
           g == Without(plans[P], q)
<1>1. proc[p].pc = "delete" /\ proc[p].pc # "idle" BY DEF DeleteSource
<1>2. P \in Project /\ q \in DOMAIN plans[P] /\ lock[P] = p
  BY <1>1, Running DEF Exported
<1>3. /\ plans' = [plans EXCEPT ![P] = g]
      /\ Unlocked(Held(p)) /\ Goto(p, Idle) /\ UNCHANGED <<seq, version, alive>>
  BY DEF DeleteSource
<1>4. DOMAIN g = DOMAIN plans[P] \ {q} /\ \A k \in DOMAIN g : g[k] = plans[P][k]
  BY DEF Without
<1>5. /\ plans'[P] = g /\ DOMAIN plans = Project
      /\ \A R \in Project \ {P} : plans'[R] = plans[R]
  BY <1>2, <1>3 DEF Inv, PlansInv
<1> HIDE DEF g
<1>6. TransferInv' /\ LockInv'
  <2>1. \A r \in Proc \ {p} : proc[r].pc # "idle" => proc[r].from # P
    BY <1>2, Running
  <2>2. OthersKept(p) BY <1>5, <2>1, Running DEF OthersKept, Exported
  <2>3. QED BY <1>1, <1>3, <2>2, EndKeepsTransfers
<1>7. PlansInv'
  <2> DEFINE n == seq[P]
  <2>0. seq' = [seq EXCEPT ![P] = n] BY <1>3 DEF Inv, PlansInv
  <2>1. /\ n = [plan |-> n.plan, task |-> n.task]
        /\ n.plan \in Nat /\ n.task \in Nat
        /\ version' \in Nat /\ version <= version'
        /\ \A k \in DOMAIN g : k \in 1 .. n.plan /\ GoodPlan(g[k], n.task, version')
    BY <1>2, <1>3, <1>4 DEF Inv, PlansInv
  <2>2. QED BY <1>2, <1>3, <2>0, <2>1, OneStoreChanges
<1>8. HomeInv'
  <2>1. proc' = [r \in Proc |-> IF r = p THEN Idle ELSE proc[r]]
    BY <1>3 DEF Goto, Inv, TransferInv
  <2>2. ASSUME NEW c \in alive PROVE Homed(c)'
    <3>1. PICK R \in Project : \E k \in DOMAIN plans[R] :
            c \in Contents(plans[R][k]) /\ ~Doomed(R, k)
      BY DEF Inv, HomeInv, Homed
    <3>2. PICK k \in DOMAIN plans[R] : c \in Contents(plans[R][k]) /\ ~Doomed(R, k)
      BY <3>1
    <3>3. R # P \/ k # q BY <1>1, <3>2 DEF Doomed
    <3>4. k \in DOMAIN plans'[R] /\ plans'[R][k] = plans[R][k]
      BY <1>4, <1>5, <3>2, <3>3
    <3>5. c \in Contents(plans'[R][k]) BY <3>2, <3>4
    <3>6. ~Doomed(R, k)' BY <2>1, <3>2 DEF Doomed, Idle
    <3>7. QED BY <3>4, <3>5, <3>6 DEF Homed
  <2>3. QED BY <1>3, <2>2 DEF Inv, HomeInv
<1>9. QED BY <1>6, <1>7, <1>8 DEF Inv

-----------------------------------------------------------------------------
(* The sessions of others *)

\* What a running transfer is about to delete is in a store that it holds.
LEMMA FreeStoreNotDoomed ==
  ASSUME Inv, NEW P \in Project, lock[P] = Free, NEW q PROVE ~Doomed(P, q)
BY Running DEF Doomed

\* A write overwrites only content that it also takes out of alive, and the new
\* content gets a home in a store that nobody moves from.
LEMMA WriteInv ==
  ASSUME Inv, NEW p \in Proc, NEW P \in Project, NEW q \in DOMAIN plans[P],
         NEW t \in DOMAIN plans[P][q].tasks \cup {seq[P].task + 1}, Write(p, P, q, t)
  PROVE  Inv'
<1> DEFINE f == plans[P][q].tasks
           h == With(f, t, version + 1)
           g == [plans[P] EXCEPT ![q].tasks = h]
           n == [seq[P] EXCEPT !.task = IF t > @ THEN t ELSE @]
<1>1. /\ OneSession(p, P) /\ lock[P] = Free /\ proc' = proc /\ version' = version + 1
      /\ plans' = [plans EXCEPT ![P] = g] /\ seq' = [seq EXCEPT ![P] = n]
      /\ alive' = (alive \ {f[u] : u \in {t} \cap DOMAIN f}) \cup {version + 1}
  BY DEF Write, OneSession
<1>2. /\ version \in Nat /\ DOMAIN plans = Project
      /\ seq[P] = [plan |-> seq[P].plan, task |-> seq[P].task]
      /\ seq[P].plan \in Nat /\ seq[P].task \in Nat
      /\ GoodPlan(plans[P][q], seq[P].task, version)
  BY DEF Inv, PlansInv
<1>3. /\ n = [plan |-> n.plan, task |-> n.task]
      /\ n.plan = seq[P].plan /\ n.task \in Nat
      /\ seq[P].task <= n.task /\ t \in 1 .. n.task
  BY <1>2 DEF GoodPlan
<1>4. /\ DOMAIN h = DOMAIN f \cup {t} /\ h[t] = version + 1
      /\ \A u \in DOMAIN f \ {t} : h[u] = f[u]
  BY DEF With
<1> HIDE DEF h
<1>5. /\ DOMAIN g = DOMAIN plans[P] /\ \A k \in DOMAIN plans[P] \ {q} : g[k] = plans[P][k]
      /\ g[q] = [owner |-> plans[P][q].owner, tasks |-> h]
  BY <1>2 DEF GoodPlan
<1> HIDE DEF g, n
<1>6. /\ plans'[P] = g /\ \A R \in Project \ {P} : plans'[R] = plans[R]
  BY <1>1, <1>2
<1>7. TransferInv' /\ LockInv' BY <1>1, <1>6, SessionKeepsTransfers
<1>8. PlansInv'
  <2>1. GoodPlan(g[q], n.task, version') BY <1>1, <1>2, <1>3, <1>4, <1>5 DEF GoodPlan
  <2>2. ASSUME NEW k \in DOMAIN plans[P] \ {q} PROVE GoodPlan(g[k], n.task, version')
    <3>1. GoodPlan(plans[P][k], seq[P].task, version) BY DEF Inv, PlansInv
    <3>2. version' \in Nat /\ version <= version' BY <1>1, <1>2
    <3>3. GoodPlan(plans[P][k], n.task, version') BY <1>2, <1>3, <3>1, <3>2, StaysGood
    <3>4. QED BY <1>5, <3>3
  <2>3. \A k \in DOMAIN g : k \in 1 .. n.plan BY <1>3, <1>5 DEF Inv, PlansInv
  <2>4. n.plan \in Nat /\ version' \in Nat /\ version <= version' BY <1>1, <1>2, <1>3
  <2>5. \A k \in DOMAIN g : k \in 1 .. n.plan /\ GoodPlan(g[k], n.task, version')
    BY <1>5, <2>1, <2>2, <2>3
  <2>6. QED BY <1>1, <1>3, <2>4, <2>5, OneStoreChanges
<1>9. HomeInv'
  <2>1. ASSUME NEW c \in alive', c = version + 1 PROVE Homed(c)'
    <3>1. c \in Contents(plans'[P][q]) BY <1>4, <1>5, <1>6, <2>1 DEF Contents
    <3>2. ~Doomed(P, q)' BY <1>1, FreeStoreNotDoomed DEF Doomed
    <3>3. QED BY <1>5, <1>6, <3>1, <3>2 DEF Homed
  <2>2. ASSUME NEW c \in alive', c # version + 1 PROVE Homed(c)'
    <3>1. c \in alive /\ \A u \in {t} \cap DOMAIN f : c # f[u] BY <1>1, <2>2
    <3>2. PICK R \in Project : \E k \in DOMAIN plans[R] :
            c \in Contents(plans[R][k]) /\ ~Doomed(R, k)
      BY <3>1 DEF Inv, HomeInv, Homed
    <3>3. PICK k \in DOMAIN plans[R] : c \in Contents(plans[R][k]) /\ ~Doomed(R, k)
      BY <3>2
    <3>4. ~Doomed(R, k)' BY <1>1, <3>3 DEF Doomed
    <3>5. CASE R = P /\ k = q
      <4>1. PICK u \in DOMAIN f : c = f[u] BY <3>3, <3>5 DEF Contents
      <4>2. u # t BY <3>1, <4>1
      <4>3. c \in Contents(plans'[P][q]) BY <1>4, <1>5, <1>6, <4>1, <4>2 DEF Contents
      <4>4. QED BY <1>5, <1>6, <3>4, <3>5, <4>3 DEF Homed
    <3>6. CASE R # P \/ k # q
      <4>1. k \in DOMAIN plans'[R] /\ plans'[R][k] = plans[R][k]
        BY <1>5, <1>6, <3>3, <3>6
      <4>2. c \in Contents(plans'[R][k]) BY <3>3, <4>1
      <4>3. QED BY <3>4, <4>1, <4>2 DEF Homed
    <3>7. QED BY <3>5, <3>6
  <2>3. alive' \subseteq 1 .. version' BY <1>1, <1>2 DEF Inv, HomeInv
  <2>4. QED BY <2>1, <2>2, <2>3 DEF HomeInv
<1>10. QED BY <1>7, <1>8, <1>9 DEF Inv

\* A claim changes the owner of a plan that no transfer has exported.
LEMMA ClaimInv ==
  ASSUME Inv, NEW p \in Proc, NEW P \in Project, NEW q \in DOMAIN plans[P],
         NEW a \in {Identity[p], NoActor}, Claim(p, P, q, a)
  PROVE  Inv'
<1> DEFINE g == [plans[P] EXCEPT ![q].owner = a]
           n == seq[P]
<1>1. /\ OneSession(p, P) /\ lock[P] = Free /\ proc' = proc
      /\ plans' = [plans EXCEPT ![P] = g] /\ UNCHANGED <<seq, version, alive>>
  BY DEF Claim, OneSession
<1>2. /\ version \in Nat /\ DOMAIN plans = Project /\ seq' = [seq EXCEPT ![P] = n]
      /\ n = [plan |-> n.plan, task |-> n.task] /\ n.plan \in Nat /\ n.task \in Nat
  BY <1>1 DEF Inv, PlansInv
<1>3. /\ \A k \in DOMAIN plans[P] : k \in 1 .. n.plan /\ GoodPlan(plans[P][k], n.task, version)
      /\ GoodPlan(plans[P][q], n.task, version)
  BY DEF Inv, PlansInv
<1>3a. plans[P][q] = [owner |-> plans[P][q].owner, tasks |-> plans[P][q].tasks]
  BY <1>3 DEF GoodPlan
<1>4. /\ DOMAIN g = DOMAIN plans[P] /\ \A k \in DOMAIN plans[P] \ {q} : g[k] = plans[P][k]
      /\ g[q] = [owner |-> a, tasks |-> plans[P][q].tasks]
  BY <1>3a
<1> HIDE DEF g, n
<1>5. /\ plans'[P] = g /\ \A R \in Project \ {P} : plans'[R] = plans[R]
  BY <1>1, <1>2
<1>6. TransferInv' /\ LockInv' BY <1>1, <1>5, SessionKeepsTransfers
<1>7. PlansInv'
  <2>1. a \in Actor \cup {NoActor} BY TransferAssumption
  <2>2. GoodPlan(g[q], n.task, version) BY <1>3, <1>4, <2>1 DEF GoodPlan
  <2>3. \A k \in DOMAIN g : k \in 1 .. n.plan /\ GoodPlan(g[k], n.task, version')
    BY <1>1, <1>3, <1>4, <2>2
  <2>4. version' \in Nat /\ version <= version' BY <1>1, <1>2
  <2>5. QED BY <1>1, <1>2, <2>3, <2>4, OneStoreChanges
<1>8. HomeInv'
  <2>1. ASSUME NEW c \in alive PROVE Homed(c)'
    <3>1. PICK R \in Project : \E k \in DOMAIN plans[R] :
            c \in Contents(plans[R][k]) /\ ~Doomed(R, k)
      BY DEF Inv, HomeInv, Homed
    <3>2. PICK k \in DOMAIN plans[R] : c \in Contents(plans[R][k]) /\ ~Doomed(R, k)
      BY <3>1
    <3>3. k \in DOMAIN plans'[R] /\ plans'[R][k].tasks = plans[R][k].tasks
      BY <1>4, <1>5, <3>2
    <3>4. c \in Contents(plans'[R][k]) BY <3>2, <3>3 DEF Contents
    <3>5. ~Doomed(R, k)' BY <1>1, <3>2 DEF Doomed
    <3>6. QED BY <3>3, <3>4, <3>5 DEF Homed
  <2>2. QED BY <1>1, <2>1 DEF Inv, HomeInv
<1>9. QED BY <1>6, <1>7, <1>8 DEF Inv

\* What is deleted on purpose is no longer alive.
LEMMA DeleteInv ==
  ASSUME Inv, NEW p \in Proc, NEW P \in Project, NEW q \in DOMAIN plans[P],
         Delete(p, P, q)
  PROVE  Inv'
<1> DEFINE g == Without(plans[P], q)
           n == seq[P]
<1>1. /\ OneSession(p, P) /\ lock[P] = Free /\ proc' = proc
      /\ plans' = [plans EXCEPT ![P] = g] /\ UNCHANGED <<seq, version>>
      /\ alive' = alive \ Contents(plans[P][q])
  BY DEF Delete, OneSession
<1>2. /\ version \in Nat /\ DOMAIN plans = Project /\ seq' = [seq EXCEPT ![P] = n]
      /\ n = [plan |-> n.plan, task |-> n.task] /\ n.plan \in Nat /\ n.task \in Nat
  BY <1>1 DEF Inv, PlansInv
<1>3. DOMAIN g = DOMAIN plans[P] \ {q} /\ \A k \in DOMAIN g : g[k] = plans[P][k]
  BY DEF Without
<1> HIDE DEF g, n
<1>4. /\ plans'[P] = g /\ \A R \in Project \ {P} : plans'[R] = plans[R]
  BY <1>1, <1>2
<1>5. TransferInv' /\ LockInv' BY <1>1, <1>4, SessionKeepsTransfers
<1>6. PlansInv'
  <2>1. \A k \in DOMAIN g : k \in 1 .. n.plan /\ GoodPlan(g[k], n.task, version')
    BY <1>1, <1>3 DEF Inv, PlansInv, n
  <2>2. version' \in Nat /\ version <= version' BY <1>1, <1>2
  <2>3. QED BY <1>1, <1>2, <2>1, <2>2, OneStoreChanges
<1>7. HomeInv'
  <2>1. ASSUME NEW c \in alive' PROVE Homed(c)'
    <3>1. c \in alive /\ c \notin Contents(plans[P][q]) BY <1>1
    <3>2. PICK R \in Project : \E k \in DOMAIN plans[R] :
            c \in Contents(plans[R][k]) /\ ~Doomed(R, k)
      BY <3>1 DEF Inv, HomeInv, Homed
    <3>3. PICK k \in DOMAIN plans[R] : c \in Contents(plans[R][k]) /\ ~Doomed(R, k)
      BY <3>2
    <3>4. k \in DOMAIN plans'[R] /\ plans'[R][k] = plans[R][k]
      BY <1>3, <1>4, <3>1, <3>3
    <3>5. c \in Contents(plans'[R][k]) BY <3>3, <3>4
    <3>6. ~Doomed(R, k)' BY <1>1, <3>3 DEF Doomed
    <3>7. QED BY <3>4, <3>5, <3>6 DEF Homed
  <2>2. QED BY <1>1, <2>1 DEF Inv, HomeInv
<1>8. QED BY <1>5, <1>6, <1>7 DEF Inv

-----------------------------------------------------------------------------
(* Import: the contents arrive before the source is doomed *)

\* An import adds a plan under a new id and leaves the others alone; when a move
\* dooms the source, the new plan takes over as the home of its contents.
LEMMA ImportInv ==
  ASSUME Inv, NEW p \in Proc, Import(p)
  PROVE  Inv'
<1> DEFINE P == proc[p].to
           f == proc[p].tasks
           k0 == seq[P].plan + 1
           copy == [owner |-> NoActor, tasks |-> Copied(P, f)]
           g == With(plans[P], k0, copy)
           n == [plan |-> k0, task |-> seq[P].task + Cardinality(DOMAIN f)]
           T == [proc[p] EXCEPT !.pc = "delete"]
<1>1. proc[p].pc = "import" /\ proc[p].pc # "idle" BY DEF Import
<1>2. /\ P \in Project /\ proc[p].from \in Project /\ lock[P] = p
      /\ lock[proc[p].from] = p /\ IsTransfer(proc[p]) /\ Exported(p)
      /\ proc[p].move \in BOOLEAN /\ (proc[p].move => proc[p].from # P)
  BY <1>1, Running
<1>3. /\ version \in Nat /\ DOMAIN plans = Project
      /\ seq[P] = [plan |-> seq[P].plan, task |-> seq[P].task]
      /\ seq[P].plan \in Nat /\ seq[P].task \in Nat
  BY <1>2 DEF Inv, PlansInv
<1>4. /\ DOMAIN f \in SUBSET Nat /\ IsFiniteSet(DOMAIN f)
      /\ \A t \in DOMAIN f : f[t] \in 1 .. version
  <2>1. GoodPlan(plans[proc[p].from][proc[p].id], seq[proc[p].from].task, version)
        /\ seq[proc[p].from].task \in Nat
    BY <1>2 DEF Inv, PlansInv, Exported
  <2>2. f = plans[proc[p].from][proc[p].id].tasks BY <1>2 DEF Exported
  <2>3. DOMAIN f \in SUBSET (1 .. seq[proc[p].from].task) BY <2>1, <2>2 DEF GoodPlan
  <2>4. IsFiniteSet(1 .. seq[proc[p].from].task) BY <2>1, FS_Interval
  <2>5. IsFiniteSet(DOMAIN f) BY <2>3, <2>4, FS_Subset
  <2>6. \A t \in DOMAIN f : f[t] \in 1 .. version BY <2>1, <2>2 DEF GoodPlan
  <2>7. DOMAIN f \in SUBSET Nat BY <2>1, <2>3
  <2>8. QED BY <2>5, <2>6, <2>7
<1>5. /\ Cardinality(DOMAIN f) \in Nat
      /\ DOMAIN Copied(P, f) \subseteq seq[P].task + 1 .. seq[P].task + Cardinality(DOMAIN f)
      /\ \A k \in DOMAIN Copied(P, f) : \E t \in DOMAIN f : Copied(P, f)[k] = f[t]
      /\ \A t \in DOMAIN f : \E k \in DOMAIN Copied(P, f) : Copied(P, f)[k] = f[t]
  <2>1. seq[P].task \in Nat BY <1>3
  <2> HIDE DEF f, P
  <2>2. QED BY <1>4, <2>1, CopiedContents
<1>6. /\ plans' = [plans EXCEPT ![P] = g] /\ UNCHANGED <<version, alive>>
      /\ IF proc[p].move THEN Unlocked({P}) /\ Goto(p, T)
                         ELSE Unlocked(Held(p)) /\ Goto(p, Idle)
  BY DEF Import
<1>7. /\ seq' = [seq EXCEPT ![P] = n] /\ n = [plan |-> n.plan, task |-> n.task]
      /\ n.plan = k0 /\ n.task = seq[P].task + Cardinality(DOMAIN f)
  BY DEF Import
<1>8. /\ DOMAIN g = DOMAIN plans[P] \cup {k0} /\ g[k0] = copy
      /\ k0 \notin DOMAIN plans[P] /\ \A k \in DOMAIN plans[P] : g[k] = plans[P][k]
  <2>1. \A k \in DOMAIN plans[P] : k \in 1 .. seq[P].plan BY <1>2 DEF Inv, PlansInv
  <2>2. k0 \notin DOMAIN plans[P] BY <1>3, <2>1
  <2>3. QED BY <2>2 DEF With
<1>9. /\ T.pc = "delete" /\ T.from = proc[p].from /\ T.to = P /\ T.id = proc[p].id
      /\ T.tasks = f /\ T.move = proc[p].move /\ IsTransfer(T)
  BY <1>2 DEF Transfer, IsTransfer
<1>10. \A c : c \in Contents(copy) <=> \E t \in DOMAIN f : c = f[t]
  BY <1>5 DEF Contents
<1> HIDE DEF T, g, n
<1>11. /\ plans'[P] = g /\ \A R \in Project \ {P} : plans'[R] = plans[R]
  BY <1>2, <1>3, <1>6
<1>12. ASSUME NEW R \in Project, NEW k \in DOMAIN plans[R]
       PROVE  k \in DOMAIN plans'[R] /\ plans'[R][k] = plans[R][k]
  BY <1>8, <1>11
<1>13. PlansInv'
  <2>1. GoodPlan(copy, n.task, version)
    <3>1. DOMAIN Copied(P, f) \subseteq 1 .. n.task BY <1>3, <1>5, <1>7
    <3>2. \A k \in DOMAIN Copied(P, f) : Copied(P, f)[k] \in 1 .. version BY <1>4, <1>5
    <3>3. QED BY <3>1, <3>2 DEF GoodPlan
  <2>2. ASSUME NEW k \in DOMAIN plans[P] PROVE k \in 1 .. n.plan /\ GoodPlan(g[k], n.task, version)
    <3>1. k \in 1 .. seq[P].plan /\ GoodPlan(plans[P][k], seq[P].task, version)
      BY <1>2 DEF Inv, PlansInv
    <3>2. seq[P].task \in Nat /\ n.task \in Nat /\ seq[P].task <= n.task
          /\ seq[P].plan \in Nat /\ n.plan = seq[P].plan + 1
      BY <1>3, <1>5, <1>7
    <3>3. GoodPlan(plans[P][k], n.task, version) BY <1>3, <3>1, <3>2, StaysGood
    <3>4. k \in 1 .. n.plan BY <3>1, <3>2
    <3>5. QED BY <1>8, <3>3, <3>4
  <2>3. k0 \in 1 .. n.plan BY <1>3, <1>7
  <2>4. n.plan \in Nat /\ n.task \in Nat BY <1>3, <1>5, <1>7
  <2>5. \A k \in DOMAIN g : k \in 1 .. n.plan /\ GoodPlan(g[k], n.task, version')
    BY <1>6, <1>8, <2>1, <2>2, <2>3
  <2>6. version' \in Nat /\ version <= version' BY <1>3, <1>6
  <2>7. QED BY <1>2, <1>6, <1>7, <2>4, <2>5, <2>6, OneStoreChanges
<1>14. CASE ~proc[p].move
  <2>1. Unlocked(Held(p)) /\ Goto(p, Idle) BY <1>6, <1>14
  <2>2. OthersKept(p) BY <1>12, Running DEF OthersKept, Exported
  <2>3. TransferInv' /\ LockInv' BY <1>1, <2>1, <2>2, EndKeepsTransfers
  <2>4. proc' = [r \in Proc |-> IF r = p THEN Idle ELSE proc[r]]
    BY <2>1 DEF Goto, Inv, TransferInv
  <2>5. ASSUME NEW c \in alive PROVE Homed(c)'
    <3>1. PICK R \in Project : \E k \in DOMAIN plans[R] :
            c \in Contents(plans[R][k]) /\ ~Doomed(R, k)
      BY DEF Inv, HomeInv, Homed
    <3>2. PICK k \in DOMAIN plans[R] : c \in Contents(plans[R][k]) /\ ~Doomed(R, k)
      BY <3>1
    <3>3. ~Doomed(R, k)' BY <2>4, <3>2 DEF Doomed, Idle
    <3>4. QED BY <1>12, <3>2, <3>3 DEF Homed
  <2>6. HomeInv' BY <1>6, <2>5 DEF Inv, HomeInv
  <2>7. QED BY <1>13, <2>3, <2>6 DEF Inv
<1>15. CASE proc[p].move
  <2>1. proc[p].from # P BY <1>2, <1>15
  <2>2. /\ proc' = [r \in Proc |-> IF r = p THEN T ELSE proc[r]]
        /\ lock' = [R \in Project |-> IF R = P THEN Free ELSE lock[R]]
    BY <1>6, <1>15 DEF Goto, Unlocked, Inv, TransferInv
  <2>3. ASSUME NEW r \in Proc, r # p, proc[r] # Idle
        PROVE  /\ Exported(r)'
               /\ proc'[r].pc = "import" => lock'[proc'[r].to] = r
    <3>1. proc[r].pc # "idle" BY <2>3 DEF Inv, TransferInv
    <3>2. proc'[r] = proc[r] BY <2>2, <2>3
    <3>3. proc[r].from # P /\ (proc[r].pc = "import" => proc[r].to # P)
      BY <1>2, <2>3, <3>1, Running
    <3>4. plans'[proc[r].from] = plans[proc[r].from] BY <1>11, <3>1, <3>3, Running
    <3>5. QED BY <2>2, <3>1, <3>2, <3>3, <3>4, Running DEF Exported, ClaimAccess
  <2>4. Exported(p)'
    <3>1. plans'[proc[p].from] = plans[proc[p].from] BY <1>2, <1>11, <2>1
    <3>2. QED BY <1>2, <1>9, <2>1, <2>2, <3>1 DEF Exported, ClaimAccess
  <2>5. proc'[p] = T BY <2>2
  <2>6. TransferInv'
    BY <1>2, <1>9, <1>15, <2>1, <2>2, <2>3, <2>4, <2>5 DEF Inv, TransferInv
  <2>7. LockInv' BY <1>2, <1>9, <2>2 DEF Inv, LockInv
  <2>8. ASSUME NEW c \in alive PROVE Homed(c)'
    <3>1. PICK R \in Project : \E k \in DOMAIN plans[R] :
            c \in Contents(plans[R][k]) /\ ~Doomed(R, k)
      BY DEF Inv, HomeInv, Homed
    <3>2. PICK k \in DOMAIN plans[R] : c \in Contents(plans[R][k]) /\ ~Doomed(R, k)
      BY <3>1
    <3>3. CASE R = proc[p].from /\ k = proc[p].id
      <4>1. plans[R][k].tasks = f BY <1>2, <3>3 DEF Exported
      <4>2. c \in Contents(copy) BY <1>10, <3>2, <4>1 DEF Contents
      <4>3. k0 \in DOMAIN plans'[P] /\ plans'[P][k0] = copy BY <1>8, <1>11
      <4>4. PICK Q \in Project, i \in Nat : Q = P /\ i = k0 BY <1>2, <1>3
      <4>5. ASSUME NEW r \in Proc, proc'[r].pc = "delete", proc'[r].from = Q, proc'[r].id = i
            PROVE  FALSE
        <5>1. r # p BY <1>9, <2>1, <2>5, <4>4, <4>5
        <5>2. proc'[r] = proc[r] BY <2>2, <5>1
        <5>3. k0 \in DOMAIN plans[P] BY <4>4, <4>5, <5>2, Running DEF Exported
        <5>4. QED BY <1>8, <5>3
      <4>6. ~Doomed(Q, i)' BY <4>5 DEF Doomed
      <4>7. i \in DOMAIN plans'[Q] /\ c \in Contents(plans'[Q][i]) BY <4>2, <4>3, <4>4
      <4>8. QED BY <4>6, <4>7 DEF Homed
    <3>4. CASE R # proc[p].from \/ k # proc[p].id
      <4>1. ~Doomed(R, k)' BY <1>9, <2>2, <3>2, <3>4 DEF Doomed
      <4>2. QED BY <1>12, <3>2, <4>1 DEF Homed
    <3>5. QED BY <3>3, <3>4
  <2>9. HomeInv' BY <1>6, <2>8 DEF Inv, HomeInv
  <2>10. QED BY <1>13, <2>6, <2>7, <2>9 DEF Inv
<1>16. QED BY <1>14, <1>15

-----------------------------------------------------------------------------
(* The invariant, and what follows from it *)

\* Every project starts with one plan that holds nothing.
LEMMA InitInv == Init => Inv
<1> SUFFICES ASSUME Init PROVE Inv OBVIOUS
<1>1. PlansInv BY TransferAssumption DEF Init, PlansInv, GoodPlan
<1>2. TransferInv /\ LockInv BY DEF Init, TransferInv, LockInv
<1>3. HomeInv BY DEF Init, HomeInv
<1>4. QED BY <1>1, <1>2, <1>3 DEF Inv

\* Every step of every process keeps the invariant.
LEMMA NextInv == Inv /\ [Next]_vars => Inv'
<1> SUFFICES ASSUME Inv, [Next]_vars PROVE Inv' OBVIOUS
<1>1. ASSUME NEW p \in Proc, Step(p) \/ Stop(p) PROVE Inv'
  <2>1. CASE OpenTarget(p) BY <2>1, OpenTargetInv
  <2>2. CASE Import(p) BY <2>2, ImportInv
  <2>3. CASE DeleteSource(p) BY <2>3, DeleteSourceInv
  <2>4. CASE GiveUp(p)
    <3>1. proc[p].pc # "idle" BY <2>4 DEF GiveUp
    <3>2. QED BY <2>4, <3>1, EndInv DEF GiveUp
  <2>5. CASE Stop(p) BY <2>5, EndInv DEF Stop
  <2>6. QED BY <1>1, <2>1, <2>2, <2>3, <2>4, <2>5 DEF Step
<1>2. ASSUME NEW p \in Proc, NEW P \in Project, NEW q \in DOMAIN plans[P],
             \/ \E Q \in Project, move \in BOOLEAN : Export(p, P, q, Q, move)
             \/ \E t \in DOMAIN plans[P][q].tasks \cup {seq[P].task + 1} : Write(p, P, q, t)
             \/ \E a \in {Identity[p], NoActor} : Claim(p, P, q, a)
             \/ Delete(p, P, q)
      PROVE  Inv'
  BY <1>2, ExportInv, WriteInv, ClaimInv, DeleteInv
<1>3. CASE UNCHANGED vars
  <2>1. /\ plans' = plans /\ seq' = seq /\ lock' = lock
        /\ proc' = proc /\ version' = version /\ alive' = alive
    BY <1>3 DEF vars
  <2>2. TransferInv' /\ LockInv'
    BY <2>1 DEF Inv, TransferInv, LockInv, Exported, ClaimAccess
  <2>3. \A P \in Project : \A q \in DOMAIN plans[P] : Doomed(P, q)' => Doomed(P, q)
    BY <2>1 DEF Doomed
  <2>4. QED BY <2>1, <2>2, <2>3, StoresKept DEF Inv
<1>4. QED BY <1>1, <1>2, <1>3 DEF Next

\* The strengthened invariant holds of every run.
THEOREM Invariance == Spec => []Inv
<1>1. QED BY InitInv, NextInv, PTL DEF Spec

\* Ids come from the sequences, and a store is only held by a transfer under way.
THEOREM TypeCorrect == Spec => []TypeOK
<1>1. Inv => TypeOK
  BY DEF Inv, PlansInv, GoodPlan, LockInv, HomeInv, TypeOK, Contents
<1>2. QED BY <1>1, Invariance, PTL

\* The delete of a move is not refused: between the export and the delete the
\* source is locked, so that nobody claims or changes the plan.
THEOREM DeleteIsAdmitted == Spec => []DeleteAdmitted
<1>1. ASSUME Inv, NEW p \in Proc, proc[p].pc = "delete" PROVE Deletable(p)
  <2>1. Exported(p) BY <1>1, Running
  <2>2. QED BY <2>1 DEF Exported, Deletable
<1>2. Inv => DeleteAdmitted BY <1>1 DEF DeleteAdmitted
<1>3. QED BY <1>2, Invariance, PTL

\* No transfer, however it is interleaved, refused or killed, loses content that
\* nobody deleted.
THEOREM NothingIsLost == Spec => []NothingLost
<1>1. ASSUME Inv, NEW c \in alive PROVE c \in Kept(plans)
  <2>1. Homed(c) BY <1>1 DEF Inv, HomeInv
  <2>2. QED BY <2>1 DEF Homed, Kept
<1>2. Inv => NothingLost BY <1>1 DEF NothingLost
<1>3. QED BY <1>2, Invariance, PTL
=============================================================================
