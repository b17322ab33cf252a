---------------------------- MODULE DesktopProofs ----------------------------
(***************************************************************************)
(* The desktop is safe for any number of threads of each kind, in its      *)
(* three parts: the coordinator over whole workspaces, of any number of    *)
(* workspaces and terminals (CoordinatorSafe); the commands inside an open *)
(* workspace, of any number of terminals, runs, writes and challenges      *)
(* (WorkspaceSafe, MovesOnlyShown); and what its agents agree on, of any   *)
(* number of runs and requests (CoordinationSafe, ApprovalsRight).         *)
(*                                                                         *)
(* The coordinator: the transition lock is held by exactly the threads     *)
(* that are between its taking and its giving back (Locked), so what one   *)
(* of them has read of the published workspace stays true until it gives   *)
(* it back.  A shutdown is one thread, begun when no initialization was    *)
(* under way, and nobody begins anything while it is there (Quitting).     *)
(* What the user was shown bounds the terminals that run and the launches  *)
(* that are admitted, since whoever shows them fences the workspace first  *)
(* (Shown).                                                                *)
(*                                                                         *)
(* The commands: a launch and a link validate their target before they     *)
(* hold the transition.  The launch is admitted first, and whoever deletes *)
(* has found no admission while it fences new ones (Quiet); the link looks *)
(* again when it holds the transition (Halves).  So a target that was      *)
(* valid is not removed before it is used (Stands).  The two halves of a   *)
(* link differ only while the thread that changes them is between the two  *)
(* (Pairs).  A mover's list of terminals only grows too long while it      *)
(* holds the transition (Seen), and a task that was written to since is    *)
(* told by the time of the write (Earlier).                                *)
(*                                                                         *)
(* The agents: ids are given out once and a record stays what it was       *)
(* captured from (Growing), so what a request has read of a record is      *)
(* right, or the record is gone, whenever it acts on it: a handoff that    *)
(* was taken is never there again (AckRight), and an approval grants the   *)
(* capture it was proposed with (ApproveRight).                            *)
(***************************************************************************)
EXTENDS DesktopRuntime, DesktopResources, AgentCoordination, FiniteSetTheorems, TLAPS

CallStep == {"idle", "entering", "inside", "admitted", "launched"}
StopStep == {"stop", "drainCalls", "stopTerminals"}
LockStep == {"check", "build", "publish", "unpublish", "end", "fail", "finish"} \cup StopStep

\* The steps of each kind of thread.
Steps(t) ==
  /\ t \in Caller => pc[t] \in CallStep
  /\ t \in Opener => pc[t] \in {"idle", "lock", "check", "build", "publish", "end", "unlease"} \cup StopStep
  /\ t \in Closer => pc[t] \in {"idle", "lock", "check", "unpublish", "end", "unlease"} \cup StopStep
  /\ t \in Initer => pc[t] \in {"idle", "drain", "lock", "build", "fail", "finish"}
  /\ t \in Poller => pc[t] \in {"idle", "lock", "build", "end"}
  /\ t \in Quitter => pc[t] \in {"idle", "drain", "lock", "end", "done"} \cup StopStep

\* The types of the state.
Typed ==
  /\ current \in 0..MaxGen /\ generation \in 0..MaxGen
  /\ shutting \in BOOLEAN /\ retry \in BOOLEAN /\ changing \in BOOLEAN
  /\ transition \in Thread \cup {Free}
  /\ terminals \in [Gen -> Nat] /\ live \in [Gen -> BOOLEAN]
  /\ DOMAIN pc = Thread /\ target \in [Thread -> 0..MaxGen] /\ shown \in [Thread -> Nat]
  /\ \A t \in Thread : Steps(t)

\* The lock is held by the one thread that is at a step under it.
Locked == \A t \in Thread : transition = t <=> pc[t] \in LockStep

\* What an open or a close knows of the workspace it replaces.
Changing(t) ==
  /\ pc[t] \in {"idle", "lock", "check"} => shown[t] = 0
  /\ pc[t] \in {"check", "build", "publish", "unpublish"} => target[t] = current
  /\ pc[t] = "publish" => generation < MaxGen
  /\ (t \in Closer /\ pc[t] \in {"check", "unpublish"}) \/ Stopping(t) => target[t] # 0

\* An initialization is one thread, and publishes only where nothing is.
Initializing(t) ==
  /\ pc[t] # "idle" => changing /\ \A u \in Initer : pc[u] # "idle" => u = t
  /\ pc[t] = "build" => current = 0

\* A shutdown is one thread; once it has drained there is no other.
Quitting(t) ==
  /\ pc[t] # "idle" => shutting /\ ~retry /\ \A u \in Quitter : pc[u] # "idle" => u = t
  /\ pc[t] \in {"lock", "end", "done"} \/ Stopping(t) =>
       \A u \in Thread \ Quitter : pc[u] = "idle"
  /\ Stopping(t) => target[t] = current /\ current # 0
  /\ pc[t] = "end" /\ current # 0 => ~live[current]
  /\ pc[t] = "done" => current = 0 /\ status = "closed"

Roles ==
  /\ \A t \in Opener \cup Closer : Changing(t)
  /\ \A t \in Initer : Initializing(t)
  /\ \A t \in Poller : pc[t] = "build" => current = 0
  /\ \A t \in Quitter : Quitting(t)
  /\ ~(changing /\ shutting)

\* A workspace that has been shut down has no terminals.
Dead == \A g \in Gen : ~live[g] => terminals[g] = 0

\* The terminals of a workspace that is about to be replaced, and the launches
\* admitted to it, are no more than were shown.
Bounded(t) ==
  pc[t] \in {"build", "publish", "unpublish"} \cup StopStep /\ target[t] # 0 =>
    terminals[target[t]] + Coming(target[t]) <= shown[t]
Shown == \A t \in Opener \cup Closer : Bounded(t)

Base == Typed /\ Locked /\ Roles /\ NoOrphan /\ Dead
Inv == Base /\ Shown

-----------------------------------------------------------------------------
(* What every step keeps *)

\* A thread that goes on to a step of its kind, or leaves.
LEMMA Going ==
  ASSUME Typed, NEW t \in Thread, NEW s, Goto(t, s),
         Steps(t)'
  PROVE  DOMAIN pc' = Thread /\ \A u \in Thread : Steps(u)'
<1>1. DOMAIN pc' = Thread /\ pc'[t] = s /\ \A u \in Thread \ {t} : pc'[u] = pc[u]
  BY DEF Typed, Goto
<1>2. ASSUME NEW u \in Thread \ {t} PROVE Steps(u)'
  BY <1>1 DEF Typed, Steps
<1>3. QED BY <1>1, <1>2

LEMMA Leaving ==
  ASSUME Typed, NEW t \in Thread, Leave(t)
  PROVE  /\ DOMAIN pc' = Thread /\ \A u \in Thread : Steps(u)'
         /\ target' \in [Thread -> 0..MaxGen] /\ shown' \in [Thread -> Nat]
<1>1. pc'[t] = "idle" BY DEF Typed, Leave, Goto
<1>2. Steps(t)' BY <1>1 DEF Steps, CallStep
<1>3. DOMAIN pc' = Thread /\ \A u \in Thread : Steps(u)'
  <2>1. Goto(t, "idle") BY DEF Leave
  <2>2. QED BY <1>2, <2>1, Going
<1>4. target' \in [Thread -> 0..MaxGen] /\ shown' \in [Thread -> Nat]
  BY DesktopAssumption DEF Typed, Leave
<1>5. QED BY <1>3, <1>4

\* The launches that are under way are finitely many.
Comers(g) == {t \in Caller : At(t, "admitted") /\ target[t] = g}
LEMMA ActiveCounts ==
  ASSUME Typed, NEW g \in 0..MaxGen
  PROVE  /\ Active(g) \in Nat /\ IsFiniteSet(Comers(g)) /\ Coming(g) \in Nat
         /\ g # 0 => terminals[g] + Coming(g) <= Active(g)
<1> DEFINE P == {t \in Caller : pc[t] \in {"admitted", "launched"} /\ target[t] = g}
<1>1. IsFiniteSet(P) /\ Cardinality(P) \in Nat
  BY ThreadAssumption, FS_Subset, FS_CardinalityType
<1>2. Comers(g) \in SUBSET P BY DEF Comers, At
<1>3. /\ IsFiniteSet(Comers(g)) /\ Cardinality(Comers(g)) \in Nat
      /\ Cardinality(Comers(g)) <= Cardinality(P)
  BY <1>1, <1>2, FS_Subset, FS_CardinalityType
<1>4. g # 0 => terminals[g] \in Nat BY DEF Typed, Gen
<1>5. Coming(g) = Cardinality(Comers(g)) /\ Pending(g) = Cardinality(P)
  BY DEF Coming, Comers, Pending
<1> HIDE DEF P
<1>6. QED BY <1>1, <1>3, <1>4, <1>5 DEF Active

\* The steps that the provers have to be shown one by one.
LEMMA CallTyped == ASSUME Typed, NEW t \in Thread, CallEnter(t) \/ Launch(t) PROVE Typed'
<1>1. CASE CallEnter(t)
  <2>1. UNCHANGED <<published, flags, transition, workspaces>> BY <1>1 DEF CallEnter
  <2>2. CASE Leave(t) BY <2>1, <2>2, Leaving DEF Typed, published, flags, workspaces
  <2>3. CASE Goto(t, "inside") /\ UNCHANGED <<target, shown>>
    <3>1. Steps(t)'
      BY <1>1, <2>3, ThreadAssumption DEF CallEnter, Goto, Typed, Steps, CallStep
    <3>2. QED BY <2>1, <2>3, <3>1, Going DEF Typed, published, flags, workspaces
  <2>4. QED BY <1>1, <2>2, <2>3 DEF CallEnter
<1>2. CASE Launch(t)
  <2>1. Goto(t, "launched") /\ UNCHANGED <<published, flags, transition, gate, live, target, shown>>
    BY <1>2 DEF Launch
  <2>2. Steps(t)' BY <1>2, ThreadAssumption DEF Launch, Goto, Typed, Steps, CallStep
  <2>3. terminals' \in [Gen -> Nat]
    <3>1. terminals \in [Gen -> Nat] BY DEF Typed
    <3>2. \/ terminals' = [terminals EXCEPT ![target[t]] = @ + 1]
          \/ terminals' = [terminals EXCEPT ![target[t]] = @]
      BY <1>2 DEF Launch
    <3>3. QED BY <3>1, <3>2
  <2>4. QED BY <2>1, <2>2, <2>3, Going DEF Typed, published, flags
<1>3. QED BY <1>1, <1>2

LEMMA ChangeTyped ==
  ASSUME Typed, Roles, NEW t \in Thread, (\E exact \in BOOLEAN : Confirm(t, exact)) \/ OpenPublish(t)
  PROVE  Typed'
<1>1. CASE \E exact \in BOOLEAN : Confirm(t, exact)
  <2>1. UNCHANGED <<published, flags, workspaces>> BY <1>1 DEF Confirm
  <2>2. CASE Leave(t) /\ transition' = Free
    BY <2>1, <2>2, Leaving DEF Typed, published, flags, workspaces
  <2>3. CASE ~(Leave(t) /\ transition' = Free)
    <3>1. /\ t \in Opener \cup Closer /\ Proceed(t) /\ UNCHANGED <<target, transition>>
          /\ shown' = [shown EXCEPT ![t] = Active(target[t])]
      BY <1>1, <2>3 DEF Confirm, Valid
    <3>2. Goto(t, IF t \in Opener THEN "build" ELSE "unpublish") BY <3>1 DEF Proceed
    <3>3. Steps(t)' BY <3>1, <3>2, ThreadAssumption DEF Goto, Typed, Steps
    <3>4. \A u \in Thread : Steps(u)' BY <3>2, <3>3, Going
    <3>5. shown' \in [Thread -> Nat] BY <3>1, ActiveCounts DEF Typed
    <3>6. QED BY <2>1, <3>1, <3>2, <3>4, <3>5 DEF Typed, Goto, published, flags, workspaces
  <2>4. QED BY <1>1, <2>2, <2>3 DEF Confirm
<1>2. CASE OpenPublish(t)
  <2>1. /\ t \in Opener /\ UNCHANGED <<flags, transition, terminals, gate, target, shown>>
        /\ Goto(t, IF target[t] = 0 THEN "end" ELSE "stop")
    BY <1>2 DEF OpenPublish
  <2>2. Steps(t)' BY <2>1, ThreadAssumption DEF Goto, Typed, Steps, StopStep
  <2>3. \A u \in Thread : Steps(u)' BY <2>1, <2>2, Going
  <2>4. current' \in 0..MaxGen /\ generation' \in 0..MaxGen /\ live' \in [Gen -> BOOLEAN]
    <3>1. generation < MaxGen /\ generation + 1 \in Gen
      BY <1>2, DesktopAssumption DEF OpenPublish, At, Roles, Changing, Typed, Gen
    <3>2. /\ current' = generation + 1 /\ generation' = generation + 1
          /\ live' = [live EXCEPT ![generation + 1] = TRUE]
      BY <1>2 DEF OpenPublish, Publish
    <3>3. live \in [Gen -> BOOLEAN] BY DEF Typed
    <3>4. QED BY <3>1, <3>2, <3>3 DEF Gen
  <2>5. QED BY <2>1, <2>3, <2>4 DEF Typed, Goto, flags
<1>3. QED BY <1>1, <1>2

LEMMA OthersTyped ==
  ASSUME Typed, NEW t \in Thread,
         InitGivesUp(t) \/ InitFinish(t) \/ PollLock(t) \/ QuitBegin(t) \/ QuitRefused(t)
  PROVE  Typed'
<1>1. CASE InitGivesUp(t)
  BY <1>1, Leaving DEF InitGivesUp, Typed, workspaces
<1>2. CASE InitFinish(t)
  BY <1>2, Leaving DEF InitFinish, Typed, workspaces
<1>3. CASE PollLock(t)
  <2>1. UNCHANGED <<generation, current, flags, workspaces>> BY <1>3 DEF PollLock
  <2>2. CASE Leave(t) /\ UNCHANGED transition BY <2>1, <2>2, Leaving DEF Typed, flags, workspaces
  <2>3. CASE transition' = t /\ Goto(t, "build") /\ UNCHANGED <<target, shown>>
    <3>1. t \in Poller BY <1>3 DEF PollLock
    <3>2. Steps(t)' BY <2>3, <3>1, ThreadAssumption DEF Goto, Typed, Steps
    <3>3. QED BY <2>1, <2>3, <3>2, Going DEF Typed, flags, workspaces
  <2>4. QED BY <1>3, <2>2, <2>3 DEF PollLock
<1>4. CASE QuitBegin(t)
  <2>1. t \in Quitter /\ Goto(t, "drain") BY <1>4 DEF QuitBegin
  <2>2. Steps(t)' BY <2>1, ThreadAssumption DEF Goto, Typed, Steps
  <2>3. QED BY <1>4, <2>1, <2>2, Going DEF QuitBegin, Typed, published, workspaces
<1>5. CASE QuitRefused(t)
  BY <1>5, Leaving DEF QuitRefused, Typed, published, workspaces
<1>6. QED BY <1>1, <1>2, <1>3, <1>4, <1>5

\* Whoever is not stopping a workspace may go anywhere without orphaning one.
LEMMA NoneOrphaned ==
  ASSUME NoOrphan, NEW t \in Thread, ~Stopping(t), UNCHANGED <<live, current>>,
         \A u \in Thread \ {t} : pc'[u] = pc[u] /\ target'[u] = target[u]
  PROVE  NoOrphan'
BY DEF NoOrphan, Stopping

LEMMA InitBase == Init => Base
<1> SUFFICES ASSUME Init PROVE Base OBVIOUS
<1> USE DesktopAssumption, ThreadAssumption DEF Init, Gen
<1>1. /\ current \in 0..MaxGen /\ generation \in 0..MaxGen
      /\ target \in [Thread -> 0..MaxGen] /\ shown \in [Thread -> Nat]
  OBVIOUS
<1>2. terminals \in [Gen -> Nat] /\ live \in [Gen -> BOOLEAN] OBVIOUS
<1>3. \A t \in Thread : Steps(t) BY DEF Steps, CallStep
<1>4. Typed BY <1>1, <1>2, <1>3 DEF Typed
<1>5. Locked BY DEF Locked, LockStep, StopStep
<1>6. Roles BY DEF Roles, Changing, Initializing, Quitting, Stopping, Thread
<1>7. NoOrphan /\ Dead BY DEF NoOrphan, Dead
<1>8. QED BY <1>4, <1>5, <1>6, <1>7 DEF Base

\* The calls into a workspace.
LEMMA CallBase ==
  ASSUME Base, NEW t \in Thread, CallBegin(t) \/ Admission(t) \/ CallNext(t)
  PROVE  Base'
<1> USE ThreadAssumption, DesktopAssumption
     DEF Base, Typed, Steps, CallStep, StopStep, LockStep, Locked, Changing, Initializing, Quitting, Roles,
         NoOrphan, Dead, Gen, Stopping, Thread, At, Goto, Leave, published, flags, workspaces, threads
<1>1. CASE CallBegin(t)
  <2>1. Typed' BY <1>1 DEF CallBegin, Admitted
  <2>2. Locked' BY <1>1 DEF CallBegin, Admitted
  <2>3. Roles' BY <1>1 DEF CallBegin, Admitted
  <2>4. NoOrphan' BY <1>1 DEF CallBegin, Admitted
  <2>5. Dead' BY <1>1 DEF CallBegin, Admitted
  <2>6. QED BY <2>1, <2>2, <2>3, <2>4, <2>5
<1>2. CASE Admission(t) BY <1>2 DEF Admission, Touched
<1>3. CASE CallEnter(t)
  <2>1. Typed'
    <3> HIDE DEF Typed, Locked, Roles, NoOrphan, Dead
    <3>1. QED BY <1>3, CallTyped DEF Base
  <2>2. Locked' BY <1>3 DEF CallEnter
  <2>3. Roles' BY SMTT(60), <1>3 DEF CallEnter
  <2>4. NoOrphan'
    <3>1. /\ ~Stopping(t) /\ UNCHANGED <<live, current>>
          /\ \A u \in Thread \ {t} : pc'[u] = pc[u] /\ target'[u] = target[u]
      BY <1>3 DEF CallEnter
    <3> HIDE DEF Typed, Locked, Roles, NoOrphan, Dead, Stopping
    <3>2. QED BY <3>1, NoneOrphaned DEF Base
  <2>5. Dead' BY <1>3 DEF CallEnter
  <2>6. QED BY <2>1, <2>2, <2>3, <2>4, <2>5
<1>4. CASE Launch(t)
  <2>1. Typed'
    <3> HIDE DEF Typed, Locked, Roles, NoOrphan, Dead
    <3>1. QED BY <1>4, CallTyped DEF Base
  <2>2. Locked' BY <1>4 DEF Launch, Touched
  <2>3. Roles' BY <1>4 DEF Launch, Touched
  <2>4. NoOrphan'
    <3>1. /\ ~Stopping(t) /\ UNCHANGED <<live, current>>
          /\ \A u \in Thread \ {t} : pc'[u] = pc[u] /\ target'[u] = target[u]
      BY <1>4 DEF Launch, Touched
    <3> HIDE DEF Typed, Locked, Roles, NoOrphan, Dead, Stopping
    <3>2. QED BY <3>1, NoneOrphaned DEF Base
  <2>5. Dead' BY <1>4 DEF Launch, Touched
  <2>6. QED BY <2>1, <2>2, <2>3, <2>4, <2>5
<1>5. CASE CallEnd(t)
  <2>1. Typed' BY <1>5 DEF CallEnd, Touched
  <2>2. Locked' BY <1>5 DEF CallEnd, Touched
  <2>3. Roles' BY <1>5 DEF CallEnd, Touched
  <2>4. NoOrphan' BY <1>5 DEF CallEnd, Touched
  <2>5. Dead' BY <1>5 DEF CallEnd, Touched
  <2>6. QED BY <2>1, <2>2, <2>3, <2>4, <2>5
<1>6. QED BY <1>1, <1>2, <1>3, <1>4, <1>5 DEF CallNext

\* A confirmation and a terminal end.
LEMMA EndsBase ==
  ASSUME Base, ConfirmationEnds \/ (\E g \in Gen : TerminalEnds(g))
  PROVE  Base'
<1> USE ThreadAssumption, DesktopAssumption
     DEF Base, Typed, Steps, CallStep, StopStep, LockStep, Locked, Changing, Initializing, Quitting, Roles,
         NoOrphan, Dead, Gen, Stopping, Thread, At, Goto, Leave, published, flags, workspaces, threads
<1>1. CASE ConfirmationEnds BY <1>1 DEF ConfirmationEnds
<1>2. CASE \E g \in Gen : TerminalEnds(g) BY <1>2 DEF TerminalEnds, Touched
<1>3. QED BY <1>1, <1>2

\* The shutdown of a workspace, up to its terminals.
LEMMA StopBase ==
  ASSUME Base, NEW t \in Thread, StopNext(t)
  PROVE  Base'
<1> USE ThreadAssumption, DesktopAssumption
     DEF Base, Typed, Steps, CallStep, StopStep, LockStep, Locked, Changing, Initializing, Quitting, Roles,
         NoOrphan, Dead, Gen, Stopping, Thread, At, Goto, Leave, published, flags, workspaces, threads
<1>1. CASE StopGate(t) BY <1>1 DEF StopGate
<1>2. CASE StopDrain(t)
  <2>1. Typed' BY <1>2 DEF StopDrain
  <2>2. Locked' BY <1>2 DEF StopDrain
  <2>3. Roles' BY <1>2 DEF StopDrain
  <2>4. NoOrphan' BY <1>2 DEF StopDrain
  <2>5. Dead' BY <1>2 DEF StopDrain
  <2>6. QED BY <2>1, <2>2, <2>3, <2>4, <2>5
<1>3. QED BY <1>1, <1>2 DEF StopNext

\* An open or a close.
LEMMA ChangeBase ==
  ASSUME Base, NEW t \in Thread, ChangeNext(t)
  PROVE  Base'
<1> USE ThreadAssumption, DesktopAssumption
     DEF Base, Typed, Steps, CallStep, StopStep, LockStep, Locked, Changing, Initializing, Quitting, Roles,
         NoOrphan, Dead, Gen, Stopping, Thread, At, Goto, Leave, published, flags, workspaces, threads
<1>1. CASE ChangeBegin(t)
  <2>1. Typed' BY <1>1 DEF ChangeBegin, Admitted
  <2>2. Locked' BY <1>1 DEF ChangeBegin, Admitted
  <2>3. Roles' BY <1>1 DEF ChangeBegin, Admitted
  <2>4. NoOrphan' BY <1>1 DEF ChangeBegin, Admitted
  <2>5. Dead' BY <1>1 DEF ChangeBegin, Admitted
  <2>6. QED BY <2>1, <2>2, <2>3, <2>4, <2>5
<1>2. CASE ChangeRefused(t)
  <2>1. Typed' BY <1>2 DEF ChangeRefused
  <2>2. Locked' BY <1>2 DEF ChangeRefused
  <2>3. Roles' BY <1>2 DEF ChangeRefused
  <2>4. NoOrphan'
    <3>1. /\ ~Stopping(t) /\ UNCHANGED <<live, current>>
          /\ \A u \in Thread \ {t} : pc'[u] = pc[u] /\ target'[u] = target[u]
      BY <1>2 DEF ChangeRefused
    <3> HIDE DEF Typed, Locked, Roles, NoOrphan, Dead, Stopping
    <3>2. QED BY <3>1, NoneOrphaned DEF Base
  <2>5. Dead' BY <1>2 DEF ChangeRefused
  <2>6. QED BY <2>1, <2>2, <2>3, <2>4, <2>5
<1>3. CASE ChangeLock(t)
  <2>1. Typed' BY <1>3 DEF ChangeLock, Refusing
  <2>2. Locked' BY <1>3 DEF ChangeLock, Refusing
  <2>3. Roles' BY <1>3 DEF ChangeLock, Refusing
  <2>4. NoOrphan'
    <3>1. /\ ~Stopping(t) /\ UNCHANGED <<live, current>>
          /\ \A u \in Thread \ {t} : pc'[u] = pc[u] /\ target'[u] = target[u]
      BY <1>3 DEF ChangeLock
    <3> HIDE DEF Typed, Locked, Roles, NoOrphan, Dead, Stopping
    <3>2. QED BY <3>1, NoneOrphaned DEF Base
  <2>5. Dead' BY <1>3 DEF ChangeLock, Refusing
  <2>6. QED BY <2>1, <2>2, <2>3, <2>4, <2>5
<1>4. CASE ChangeAtOnce(t)
  <2>1. Typed' BY <1>4 DEF ChangeAtOnce, Proceed
  <2>2. Locked' BY <1>4 DEF ChangeAtOnce, Proceed
  <2>3. Roles' BY <1>4 DEF ChangeAtOnce, Proceed
  <2>4. NoOrphan' BY <1>4 DEF ChangeAtOnce, Proceed
  <2>5. Dead' BY <1>4 DEF ChangeAtOnce, Proceed
  <2>6. QED BY <2>1, <2>2, <2>3, <2>4, <2>5
<1>5. CASE Challenge(t)
  <2>1. Typed' BY <1>5 DEF Challenge
  <2>2. Locked' BY <1>5 DEF Challenge
  <2>3. Roles' BY <1>5 DEF Challenge
  <2>4. NoOrphan' BY <1>5 DEF Challenge
  <2>5. Dead' BY <1>5 DEF Challenge
  <2>6. QED BY <2>1, <2>2, <2>3, <2>4, <2>5
<1>6. CASE \E exact \in BOOLEAN : Confirm(t, exact)
  <2>1. Typed'
    <3> HIDE DEF Typed, Roles
    <3>1. QED BY <1>6, ChangeTyped DEF Base
  <2>2. /\ t \in Opener \cup Closer /\ pc[t] = "check" /\ transition = t
        /\ UNCHANGED <<published, flags, workspaces>>
        /\ \A u \in Thread \ {t} : pc'[u] = pc[u] /\ target'[u] = target[u] /\ shown'[u] = shown[u]
    BY <1>6 DEF Confirm, Proceed
  <2>3. \/ transition' = Free /\ pc'[t] = "idle" /\ target'[t] = 0 /\ shown'[t] = 0
        \/ /\ UNCHANGED <<transition, target>>
           /\ pc'[t] = IF t \in Opener THEN "build" ELSE "unpublish"
    BY <1>6 DEF Confirm, Proceed
  <2>4. Locked' BY <2>2, <2>3
  <2>5. Roles'
    <3>1. Changing(t)' BY <2>2, <2>3
    <3>2. \A u \in (Opener \cup Closer) \ {t} : Changing(u)' BY <2>2
    <3>3. \A u \in Initer : Initializing(u)'
      <4> SUFFICES ASSUME NEW u \in Initer PROVE Initializing(u)' OBVIOUS
      <4>1. Initializing(u) OBVIOUS
      <4>2. u # t BY <2>2
      <4> HIDE DEF Typed, Locked, Roles, NoOrphan, Dead
      <4>3. QED BY <2>2, <4>1, <4>2
    <3>4. \A u \in Quitter : Quitting(u)' BY <2>2, <2>3
    <3>5. (\A u \in Poller : pc[u] = "build" => current = 0)' BY <2>2
    <3>6. QED BY <2>2, <3>1, <3>2, <3>3, <3>4, <3>5
  <2>6. NoOrphan' BY <2>2, NoneOrphaned
  <2>7. Dead' BY <2>2
  <2>8. QED BY <2>1, <2>4, <2>5, <2>6, <2>7
<1>7. CASE OpenLoading(t)
  <2>1. Typed' BY <1>7 DEF OpenLoading
  <2>2. Locked' BY <1>7 DEF OpenLoading
  <2>3. Roles' BY <1>7 DEF OpenLoading
  <2>4. NoOrphan' BY <1>7 DEF OpenLoading
  <2>5. Dead' BY <1>7 DEF OpenLoading
  <2>6. QED BY <2>1, <2>2, <2>3, <2>4, <2>5
<1>8. CASE OpenPublish(t)
  <2>1. Typed'
    <3> HIDE DEF Typed, Locked, Roles, NoOrphan, Dead
    <3>1. QED BY <1>8, ChangeTyped DEF Base
  <2>2. Locked' BY <1>8 DEF OpenPublish, Publish
  <2>3. Roles' BY <1>8 DEF OpenPublish, Publish
  <2>4. NoOrphan' BY <1>8 DEF OpenPublish, Publish
  <2>5. Dead' BY <1>8 DEF OpenPublish, Publish
  <2>6. QED BY <2>1, <2>2, <2>3, <2>4, <2>5
<1>9. CASE OpenFails(t)
  <2>1. Typed' BY <1>9 DEF OpenFails
  <2>2. Locked' BY <1>9 DEF OpenFails
  <2>3. Roles' BY <1>9 DEF OpenFails
  <2>4. NoOrphan' BY <1>9 DEF OpenFails
  <2>5. Dead' BY <1>9 DEF OpenFails
  <2>6. QED BY <2>1, <2>2, <2>3, <2>4, <2>5
<1>10. CASE OpenStopped(t)
  <2>1. Typed' BY <1>10 DEF OpenStopped, Stopped
  <2>2. Locked' BY <1>10 DEF OpenStopped, Stopped
  <2>3. Roles' BY <1>10 DEF OpenStopped, Stopped
  <2>4. NoOrphan' BY <1>10 DEF OpenStopped, Stopped
  <2>5. Dead' BY <1>10 DEF OpenStopped, Stopped
  <2>6. QED BY <2>1, <2>2, <2>3, <2>4, <2>5
<1>11. CASE CloseUnpublish(t)
  <2>1. Typed' BY <1>11 DEF CloseUnpublish
  <2>2. Locked' BY <1>11 DEF CloseUnpublish
  <2>3. Roles' BY <1>11 DEF CloseUnpublish
  <2>4. NoOrphan' BY <1>11 DEF CloseUnpublish
  <2>5. Dead' BY <1>11 DEF CloseUnpublish
  <2>6. QED BY <2>1, <2>2, <2>3, <2>4, <2>5
<1>12. CASE CloseStopped(t)
  <2>1. Typed' BY <1>12 DEF CloseStopped, Stopped
  <2>2. Locked' BY <1>12 DEF CloseStopped, Stopped
  <2>3. Roles' BY <1>12 DEF CloseStopped, Stopped
  <2>4. NoOrphan' BY <1>12 DEF CloseStopped, Stopped
  <2>5. Dead' BY <1>12 DEF CloseStopped, Stopped
  <2>6. QED BY <2>1, <2>2, <2>3, <2>4, <2>5
<1>13. CASE ChangeUnlock(t)
  <2>1. Typed' BY <1>13 DEF ChangeUnlock
  <2>2. Locked' BY <1>13 DEF ChangeUnlock
  <2>3. Roles' BY <1>13 DEF ChangeUnlock
  <2>4. NoOrphan'
    <3>1. /\ ~Stopping(t) /\ UNCHANGED <<live, current>>
          /\ \A u \in Thread \ {t} : pc'[u] = pc[u] /\ target'[u] = target[u]
      BY <1>13 DEF ChangeUnlock
    <3> HIDE DEF Typed, Locked, Roles, NoOrphan, Dead, Stopping
    <3>2. QED BY <3>1, NoneOrphaned DEF Base
  <2>5. Dead' BY <1>13 DEF ChangeUnlock
  <2>6. QED BY <2>1, <2>2, <2>3, <2>4, <2>5
<1>14. CASE ChangeEnd(t)
  <2>1. Typed' BY <1>14 DEF ChangeEnd
  <2>2. Locked' BY <1>14 DEF ChangeEnd
  <2>3. Roles' BY <1>14 DEF ChangeEnd
  <2>4. NoOrphan' BY <1>14 DEF ChangeEnd
  <2>5. Dead' BY <1>14 DEF ChangeEnd
  <2>6. QED BY <2>1, <2>2, <2>3, <2>4, <2>5
<1>15. QED BY <1>1, <1>2, <1>3, <1>4, <1>5, <1>6, <1>7, <1>8, <1>9, <1>10, <1>11, <1>12, <1>13, <1>14 DEF ChangeNext

\* An initialization.
LEMMA InitializeBase ==
  ASSUME Base, NEW t \in Thread, InitNext(t)
  PROVE  Base'
<1> USE ThreadAssumption, DesktopAssumption
     DEF Base, Typed, Steps, CallStep, StopStep, LockStep, Locked, Changing, Initializing, Quitting, Roles,
         NoOrphan, Dead, Gen, Stopping, Thread, At, Goto, Leave, published, flags, workspaces, threads
<1>1. CASE InitFence(t)
  <2>1. Typed' BY <1>1 DEF InitFence, Admitted
  <2>2. Locked' BY <1>1 DEF InitFence, Admitted
  <2>3. Roles' BY <1>1 DEF InitFence, Admitted
  <2>4. NoOrphan'
    <3>1. /\ ~Stopping(t) /\ UNCHANGED <<live, current>>
          /\ \A u \in Thread \ {t} : pc'[u] = pc[u] /\ target'[u] = target[u]
      BY <1>1 DEF InitFence
    <3> HIDE DEF Typed, Locked, Roles, NoOrphan, Dead, Stopping
    <3>2. QED BY <3>1, NoneOrphaned DEF Base
  <2>5. Dead' BY <1>1 DEF InitFence, Admitted
  <2>6. QED BY <2>1, <2>2, <2>3, <2>4, <2>5
<1>2. CASE InitDrained(t)
  <2>1. Typed' BY <1>2 DEF InitDrained
  <2>2. Locked' BY <1>2 DEF InitDrained
  <2>3. Roles' BY <1>2 DEF InitDrained
  <2>4. NoOrphan'
    <3>1. /\ ~Stopping(t) /\ UNCHANGED <<live, current>>
          /\ \A u \in Thread \ {t} : pc'[u] = pc[u] /\ target'[u] = target[u]
      BY <1>2 DEF InitDrained
    <3> HIDE DEF Typed, Locked, Roles, NoOrphan, Dead, Stopping
    <3>2. QED BY <3>1, NoneOrphaned DEF Base
  <2>5. Dead' BY <1>2 DEF InitDrained
  <2>6. QED BY <2>1, <2>2, <2>3, <2>4, <2>5
<1>3. CASE InitGivesUp(t)
  <2>1. Typed'
    <3> HIDE DEF Typed, Locked, Roles, NoOrphan, Dead
    <3>1. QED BY <1>3, OthersTyped DEF Base
  <2>2. Locked' BY <1>3 DEF InitGivesUp
  <2>3. Roles' BY <1>3 DEF InitGivesUp
  <2>4. NoOrphan' BY <1>3 DEF InitGivesUp
  <2>5. Dead' BY <1>3 DEF InitGivesUp
  <2>6. QED BY <2>1, <2>2, <2>3, <2>4, <2>5
<1>4. CASE InitLock(t) BY <1>4 DEF InitLock, MayInitialize
<1>5. CASE InitFails(t)
  <2>1. Typed' BY <1>5 DEF InitFails
  <2>2. Locked' BY <1>5 DEF InitFails
  <2>3. Roles' BY <1>5 DEF InitFails
  <2>4. NoOrphan'
    <3>1. /\ ~Stopping(t) /\ UNCHANGED <<live, current>>
          /\ \A u \in Thread \ {t} : pc'[u] = pc[u] /\ target'[u] = target[u]
      BY <1>5 DEF InitFails
    <3> HIDE DEF Typed, Locked, Roles, NoOrphan, Dead, Stopping
    <3>2. QED BY <3>1, NoneOrphaned DEF Base
  <2>5. Dead' BY <1>5 DEF InitFails
  <2>6. QED BY <2>1, <2>2, <2>3, <2>4, <2>5
<1>6. CASE InitPublish(t)
  <2>1. Typed' BY <1>6 DEF InitPublish, Publish
  <2>2. Locked' BY <1>6 DEF InitPublish, Publish
  <2>3. Roles' BY <1>6 DEF InitPublish, Publish
  <2>4. NoOrphan' BY SMTT(60), <1>6 DEF InitPublish, Publish
  <2>5. Dead' BY <1>6 DEF InitPublish, Publish
  <2>6. QED BY <2>1, <2>2, <2>3, <2>4, <2>5
<1>7. CASE InitFinish(t)
  <2>1. Typed'
    <3> HIDE DEF Typed, Locked, Roles, NoOrphan, Dead
    <3>1. QED BY <1>7, OthersTyped DEF Base
  <2>2. Locked' BY <1>7 DEF InitFinish
  <2>3. Roles' BY <1>7 DEF InitFinish
  <2>4. NoOrphan' BY <1>7, NoneOrphaned DEF InitFinish
  <2>5. Dead' BY <1>7 DEF InitFinish
  <2>6. QED BY <2>1, <2>2, <2>3, <2>4, <2>5
<1>8. QED BY <1>1, <1>2, <1>3, <1>4, <1>5, <1>6, <1>7 DEF InitNext

\* A status poll that binds a finished initialization.
LEMMA PollBase ==
  ASSUME Base, NEW t \in Thread, PollNext(t)
  PROVE  Base'
<1> USE ThreadAssumption, DesktopAssumption
     DEF Base, Typed, Steps, CallStep, StopStep, LockStep, Locked, Changing, Initializing, Quitting, Roles,
         NoOrphan, Dead, Gen, Stopping, Thread, At, Goto, Leave, published, flags, workspaces, threads
<1>1. CASE PollBegin(t)
  <2>1. Typed' BY <1>1 DEF PollBegin, Admitted
  <2>2. Locked' BY <1>1 DEF PollBegin, Admitted
  <2>3. Roles' BY <1>1 DEF PollBegin, Admitted
  <2>4. NoOrphan' BY <1>1 DEF PollBegin, Admitted
  <2>5. Dead' BY <1>1 DEF PollBegin, Admitted
  <2>6. QED BY <2>1, <2>2, <2>3, <2>4, <2>5
<1>2. CASE PollLock(t)
  <2>1. Typed'
    <3> HIDE DEF Typed, Locked, Roles, NoOrphan, Dead
    <3>1. QED BY <1>2, OthersTyped DEF Base
  <2>2. Locked' BY <1>2 DEF PollLock
  <2>3. Roles' BY <1>2 DEF PollLock
  <2>4. NoOrphan' BY <1>2 DEF PollLock
  <2>5. Dead' BY <1>2 DEF PollLock
  <2>6. QED BY <2>1, <2>2, <2>3, <2>4, <2>5
<1>3. CASE PollPublish(t)
  <2>1. Typed' BY <1>3 DEF PollPublish, Publish
  <2>2. Locked' BY <1>3 DEF PollPublish, Publish
  <2>3. Roles' BY <1>3 DEF PollPublish, Publish
  <2>4. NoOrphan'
    <3>1. current' = generation + 1 /\ current = 0 /\ live' = [live EXCEPT ![generation + 1] = TRUE]
      BY <1>3 DEF PollPublish, Publish
    <3>2. \A u \in Thread : ~Stopping(u) BY <1>3 DEF PollPublish
    <3>3. \A g \in Gen : ~live[g] BY <3>1, <3>2
    <3>4. QED BY <3>1, <3>3
  <2>5. Dead' BY <1>3 DEF PollPublish, Publish
  <2>6. QED BY <2>1, <2>2, <2>3, <2>4, <2>5
<1>4. CASE PollFails(t)
  <2>1. Typed' BY <1>4 DEF PollFails
  <2>2. Locked' BY <1>4 DEF PollFails
  <2>3. Roles' BY <1>4 DEF PollFails
  <2>4. NoOrphan'
    <3>1. /\ ~Stopping(t) /\ UNCHANGED <<live, current>>
          /\ \A u \in Thread \ {t} : pc'[u] = pc[u] /\ target'[u] = target[u]
      BY <1>4 DEF PollFails
    <3> HIDE DEF Typed, Locked, Roles, NoOrphan, Dead, Stopping
    <3>2. QED BY <3>1, NoneOrphaned DEF Base
  <2>5. Dead' BY <1>4 DEF PollFails
  <2>6. QED BY <2>1, <2>2, <2>3, <2>4, <2>5
<1>5. CASE PollEnd(t) BY SMTT(60), <1>5 DEF PollEnd
<1>6. QED BY <1>1, <1>2, <1>3, <1>4, <1>5 DEF PollNext

\* The shutdown of the coordinator.
LEMMA QuitBase ==
  ASSUME Base, NEW t \in Thread, QuitNext(t)
  PROVE  Base'
<1> USE ThreadAssumption, DesktopAssumption
     DEF Base, Typed, Steps, CallStep, StopStep, LockStep, Locked, Changing, Initializing, Quitting, Roles,
         NoOrphan, Dead, Gen, Stopping, Thread, At, Goto, Leave, published, flags, workspaces, threads
<1>1. CASE QuitBegin(t)
  <2>1. Typed'
    <3> HIDE DEF Typed, Locked, Roles, NoOrphan, Dead
    <3>1. QED BY <1>1, OthersTyped DEF Base
  <2>2. Locked' BY <1>1 DEF QuitBegin, MayQuit
  <2>3. Roles' BY <1>1 DEF QuitBegin, MayQuit
  <2>4. NoOrphan' BY <1>1 DEF QuitBegin, MayQuit
  <2>5. Dead' BY <1>1 DEF QuitBegin, MayQuit
  <2>6. QED BY <2>1, <2>2, <2>3, <2>4, <2>5
<1>2. CASE QuitDrained(t)
  <2>1. Typed' BY <1>2 DEF QuitDrained, Calls, Leased
  <2>2. Locked' BY <1>2 DEF QuitDrained, Calls, Leased
  <2>3. Roles' BY <1>2 DEF QuitDrained, Calls, Leased
  <2>4. NoOrphan' BY <1>2 DEF QuitDrained, Calls, Leased
  <2>5. Dead' BY <1>2 DEF QuitDrained, Calls, Leased
  <2>6. QED BY <2>1, <2>2, <2>3, <2>4, <2>5
<1>3. CASE QuitRefused(t)
  <2>1. Typed'
    <3> HIDE DEF Typed, Locked, Roles, NoOrphan, Dead
    <3>1. QED BY <1>3, OthersTyped DEF Base
  <2>2. Locked' BY <1>3 DEF QuitRefused
  <2>3. Roles' BY <1>3 DEF QuitRefused
  <2>4. NoOrphan' BY <1>3 DEF QuitRefused
  <2>5. Dead' BY <1>3 DEF QuitRefused
  <2>6. QED BY <2>1, <2>2, <2>3, <2>4, <2>5
<1>4. CASE QuitLock(t) BY <1>4 DEF QuitLock
<1>5. CASE QuitStopped(t) BY <1>5 DEF QuitStopped, Stopped
<1>6. CASE QuitCleanup(t) BY <1>6 DEF QuitCleanup, Stopped
<1>7. CASE QuitEnd(t) BY SMTT(60), <1>7 DEF QuitEnd
<1>8. QED BY <1>1, <1>2, <1>3, <1>4, <1>5, <1>6, <1>7 DEF QuitNext

LEMMA BaseNext == Base /\ [Next]_vars => Base'
<1> SUFFICES ASSUME Base, [Next]_vars PROVE Base' OBVIOUS
<1>1. CASE UNCHANGED vars
  BY <1>1 DEF vars, published, flags, workspaces, threads, Base, Typed, Steps, Locked, Roles,
              Changing, Initializing, Quitting, Stopping, NoOrphan, Dead
<1>2. CASE Next
  BY <1>2, CallBase, EndsBase, StopBase, ChangeBase, InitializeBase, PollBase, QuitBase DEF Next
<1>3. QED BY <1>1, <1>2

-----------------------------------------------------------------------------
(* What was shown bounds what is stopped *)

\* The steps of the threads that are no callers: no call goes on meanwhile, and
\* no terminal appears.
Calm(t) ==
  /\ t \notin Caller
  /\ \A k \in Thread \ {t} : pc'[k] = pc[k] /\ target'[k] = target[k] /\ shown'[k] = shown[k]
  /\ \A g \in Gen : terminals'[g] \in Nat /\ terminals'[g] <= terminals[g]

LEMMA CalmSteps ==
  ASSUME Base, NEW t \in Thread,
         ChangeNext(t) \/ InitNext(t) \/ PollNext(t) \/ QuitNext(t) \/ StopNext(t)
  PROVE  Calm(t)
<1>1. /\ DOMAIN pc = Thread /\ DOMAIN target = Thread /\ DOMAIN shown = Thread
      /\ terminals \in [Gen -> Nat] /\ Steps(t)
  BY DEF Base, Typed
<1>2. t \notin Caller
  BY <1>1, ThreadAssumption
     DEF Steps, CallStep, StopStep, ChangeNext, InitNext, PollNext, QuitNext, StopNext, ChangeBegin,
         ChangeRefused, ChangeLock, ChangeAtOnce, Challenge, Confirm, OpenLoading, OpenPublish,
         OpenFails, OpenStopped, CloseUnpublish, CloseStopped, ChangeUnlock, ChangeEnd, InitFence,
         InitDrained, InitGivesUp, InitLock, InitFails, InitPublish, InitFinish, PollBegin, PollLock,
         PollPublish, PollFails, PollEnd, QuitBegin, QuitDrained, QuitRefused, QuitLock, QuitStopped,
         QuitCleanup, QuitEnd, StopGate, StopDrain, At
<1>3. \/ UNCHANGED terminals
      \/ terminals' = [terminals EXCEPT ![target[t]] = 0]
  BY DEF ChangeNext, InitNext, PollNext, QuitNext, StopNext, ChangeBegin,
         ChangeRefused, ChangeLock, ChangeAtOnce, Challenge, Confirm, OpenLoading, OpenPublish,
         OpenFails, OpenStopped, CloseUnpublish, CloseStopped, ChangeUnlock, ChangeEnd, InitFence,
         InitDrained, InitGivesUp, InitLock, InitFails, InitPublish, InitFinish, PollBegin, PollLock,
         PollPublish, PollFails, PollEnd, QuitBegin, QuitDrained, QuitRefused, QuitLock, QuitStopped,
         QuitCleanup, QuitEnd, StopGate, StopDrain, workspaces, Stopped
<1>4. \A g \in Gen : terminals'[g] \in Nat /\ terminals'[g] <= terminals[g]
  BY <1>1, <1>3
<1>5. CASE ChangeNext(t)
  BY <1>1, <1>2, <1>4, <1>5
     DEF Calm, Goto, Leave, threads, ChangeNext, ChangeBegin, ChangeRefused, ChangeLock,
         ChangeAtOnce, Challenge, Confirm, Proceed, OpenLoading, OpenPublish, OpenFails, OpenStopped,
         CloseUnpublish, CloseStopped, ChangeUnlock, ChangeEnd
<1>6. CASE InitNext(t)
  BY <1>1, <1>2, <1>4, <1>6
     DEF Calm, Goto, Leave, threads, InitNext, InitFence, InitDrained, InitGivesUp, InitLock,
         InitFails, InitPublish, InitFinish
<1>7. CASE PollNext(t)
  BY <1>1, <1>2, <1>4, <1>7
     DEF Calm, Goto, Leave, threads, PollNext, PollBegin, PollLock, PollPublish, PollFails, PollEnd
<1>8. CASE QuitNext(t)
  BY <1>1, <1>2, <1>4, <1>8
     DEF Calm, Goto, Leave, threads, QuitNext, QuitBegin, QuitDrained, QuitRefused, QuitLock,
         QuitStopped, QuitCleanup, QuitEnd
<1>9. CASE StopNext(t)
  BY <1>1, <1>2, <1>4, <1>9 DEF Calm, Goto, threads, StopNext, StopGate, StopDrain
<1>10. QED BY <1>5, <1>6, <1>7, <1>8, <1>9

\* What runs in a workspace and what is admitted to it does not get more.
NoMore(g) ==
  /\ terminals[g] + Coming(g) \in Nat /\ terminals'[g] + Coming(g)' \in Nat
  /\ terminals'[g] + Coming(g)' <= terminals[g] + Coming(g)

LEMMA FewerComers ==
  ASSUME Typed, Typed', NEW g \in Gen, Comers(g)' \subseteq Comers(g), terminals'[g] <= terminals[g]
  PROVE  NoMore(g)
<1>1. g \in 0..MaxGen BY DesktopAssumption DEF Gen
<1>2. IsFiniteSet(Comers(g)) /\ Coming(g) \in Nat BY <1>1, ActiveCounts
<1>3. Cardinality(Comers(g)') <= Cardinality(Comers(g)) /\ Cardinality(Comers(g)') \in Nat
  BY <1>2, FS_Subset, FS_CardinalityType
<1>4. Coming(g) = Cardinality(Comers(g)) /\ Coming(g)' = Cardinality(Comers(g)')
  BY DEF Coming, Comers
<1>5. terminals[g] \in Nat /\ terminals'[g] \in Nat BY DEF Typed
<1>6. QED BY <1>2, <1>3, <1>4, <1>5 DEF NoMore

LEMMA CalmNoMore ==
  ASSUME Base, Base', NEW t \in Thread, Calm(t), NEW g \in Gen
  PROVE  NoMore(g)
<1>1. Comers(g)' = Comers(g) BY DEF Calm, Comers, At, Thread
<1>2. QED BY <1>1, FewerComers DEF Base, Calm

\* A launch turns an admission into a terminal.
LEMMA LaunchNoMore ==
  ASSUME Base, Base', NEW t \in Thread, Launch(t), NEW g \in Gen
  PROVE  NoMore(g)
<1>1. /\ t \in Caller /\ pc[t] = "admitted" /\ pc'[t] = "launched" /\ target' = target
      /\ \A k \in Thread \ {t} : pc'[k] = pc[k]
  BY DEF Launch, At, Goto, Base, Typed
<1>2. CASE g # target[t]
  <2>1. Comers(g)' = Comers(g) BY <1>1, <1>2 DEF Comers, At, Thread
  <2>2. terminals'[g] = terminals[g] BY <1>2 DEF Launch, Base, Typed
  <2>3. terminals[g] \in Nat BY DEF Base, Typed
  <2>4. QED BY <2>1, <2>2, <2>3, FewerComers DEF Base
<1>3. CASE g = target[t]
  <2>1. t \in Comers(g) /\ Comers(g)' = Comers(g) \ {t} BY <1>1, <1>3 DEF Comers, At, Thread
  <2>2. g \in 0..MaxGen BY DesktopAssumption DEF Gen
  <2>3. IsFiniteSet(Comers(g)) /\ Coming(g) \in Nat BY <2>2, ActiveCounts DEF Base
  <2>4. Cardinality(Comers(g)') = Cardinality(Comers(g)) - 1 BY <2>1, <2>3, FS_RemoveElement
  <2>5. Coming(g) = Cardinality(Comers(g)) /\ Coming(g)' = Cardinality(Comers(g)')
    BY DEF Coming, Comers
  <2>6. \/ terminals' = [terminals EXCEPT ![g] = @ + 1]
        \/ terminals' = [terminals EXCEPT ![g] = @]
    BY <1>3 DEF Launch
  <2>7. terminals[g] \in Nat /\ terminals'[g] \in {terminals[g], terminals[g] + 1}
    BY <2>6 DEF Base, Typed
  <2>8. Cardinality(Comers(g)') \in Nat BY <2>1, <2>3, FS_Subset, FS_CardinalityType
  <2>9. QED BY <2>3, <2>4, <2>5, <2>7, <2>8 DEF NoMore
<1>4. QED BY <1>2, <1>3

\* What a confirmation has shown stays the bound: an open or a close goes on only
\* with what it counted, or shows nothing because there is nothing.
LEMMA ChangeBounds ==
  ASSUME Base, Base', NEW t \in Opener \cup Closer, Bounded(t), ChangeNext(t) \/ StopNext(t)
  PROVE  Bounded(t)'
<1> DEFINE Phase == {"build", "publish", "unpublish"} \cup StopStep
<1>1. t \in Thread BY DEF Thread
<1>2. SUFFICES ASSUME pc'[t] \in Phase, target'[t] # 0
               PROVE  (terminals[target[t]] + Coming(target[t]))' <= shown'[t]
  BY DEF Bounded
<1>3. /\ DOMAIN pc = Thread /\ target \in [Thread -> 0..MaxGen] /\ shown \in [Thread -> Nat]
      /\ pc[t] = "check" => shown[t] = 0
  BY DEF Base, Typed, Roles, Changing
<1>4. /\ target'[t] = target[t]
      /\ \/ pc[t] \in Phase /\ shown'[t] = shown[t]
         \/ shown'[t] = Active(target[t])
  <2>1. CASE StopNext(t)
    BY <1>1, <1>2, <1>3, <2>1 DEF StopNext, StopGate, StopDrain, At, Goto, StopStep
  <2>2. CASE ChangeAtOnce(t) BY <1>1, <1>2, <1>3, <2>2 DEF ChangeAtOnce, At
  <2>3. CASE \E exact \in BOOLEAN : Confirm(t, exact)
    BY <1>1, <1>2, <1>3, <2>3 DEF Confirm, Valid, Leave, Goto, StopStep
  <2>4. CASE ChangeNext(t) /\ ~ChangeAtOnce(t) /\ ~\E exact \in BOOLEAN : Confirm(t, exact)
    BY <1>1, <1>2, <1>3, <2>4
       DEF ChangeNext, ChangeBegin, ChangeRefused, ChangeLock, Challenge, OpenLoading, OpenPublish,
           OpenFails, OpenStopped, CloseUnpublish, CloseStopped, ChangeUnlock, ChangeEnd, Stopped,
           At, Goto, Leave, StopStep
  <2>5. QED BY <2>1, <2>2, <2>3, <2>4
<1>5. PICK g \in Gen : g = target[t] /\ g = target'[t]
  BY <1>1, <1>2, <1>3, <1>4, DesktopAssumption DEF Gen
<1>6. NoMore(g)
  <2>1. Calm(t) BY <1>1, CalmSteps
  <2>2. QED BY <1>1, <2>1, CalmNoMore
<1>7. terminals[g] + Coming(g) <= shown'[t]
  <2>1. CASE pc[t] \in Phase /\ shown'[t] = shown[t] BY <1>2, <1>4, <1>5, <2>1 DEF Bounded
  <2>2. CASE shown'[t] = Active(target[t])
    <3>1. g \in 0..MaxGen /\ g # 0 BY DesktopAssumption DEF Gen
    <3>2. terminals[g] + Coming(g) <= Active(g) BY <3>1, ActiveCounts DEF Base
    <3>3. shown'[t] = Active(g) BY <1>5, <2>2
    <3>4. QED BY <3>2, <3>3
  <2>3. QED BY <1>4, <2>1, <2>2
<1>8. (terminals[target[t]] + Coming(target[t]))' = terminals'[g] + Coming(g)'
  BY <1>5 DEF Coming
<1>9. shown'[t] \in Nat BY <1>1 DEF Base, Typed
<1> DEFINE Now == terminals[g] + Coming(g)
           Then == terminals'[g] + Coming(g)'
<1>10. Then <= Now /\ Now \in Nat /\ Then \in Nat /\ Now <= shown'[t]
  BY <1>6, <1>7 DEF NoMore
<1> HIDE DEF Now, Then
<1>11. Then <= shown'[t] BY <1>9, <1>10
<1>12. QED BY <1>8, <1>11 DEF Now, Then

\* Whoever stays where it is keeps its bound while nothing more runs.
LEMMA BoundStays ==
  ASSUME Base, Base', NEW u \in Opener \cup Closer, Bounded(u),
         pc'[u] = pc[u], target'[u] = target[u], shown'[u] = shown[u],
         ASSUME NEW g \in Gen, g = target[u],
                pc[u] \in {"build", "publish", "unpublish"} \cup StopStep
         PROVE  NoMore(g)
  PROVE  Bounded(u)'
<1>1. target[u] \in 0..MaxGen /\ shown[u] \in Nat BY DEF Base, Typed, Thread
<1>2. CASE ~(pc[u] \in {"build", "publish", "unpublish"} \cup StopStep /\ target[u] # 0)
  BY <1>2 DEF Bounded
<1>3. CASE pc[u] \in {"build", "publish", "unpublish"} \cup StopStep /\ target[u] # 0
  <2>1. PICK g \in Gen : g = target[u] BY <1>1, <1>3, DesktopAssumption DEF Gen
  <2>2. NoMore(g) BY <1>3, <2>1
  <2> DEFINE Now == terminals[g] + Coming(g)
             Then == terminals'[g] + Coming(g)'
  <2>3. Then <= Now /\ Now \in Nat /\ Then \in Nat BY <2>2 DEF NoMore
  <2>4. Now <= shown[u] BY <1>3, <2>1 DEF Bounded
  <2>5. (terminals[target[u]] + Coming(target[u]))' = Then BY <2>1 DEF Coming
  <2> HIDE DEF Now, Then
  <2>6. Then <= shown[u] BY <1>1, <2>3, <2>4
  <2>7. QED BY <2>5, <2>6 DEF Bounded
<1>4. QED BY <1>2, <1>3

\* An admission is given only where nobody has fenced the workspace.
LEMMA ShownNext ==
  ASSUME Inv, [Next]_vars
  PROVE  Shown'
<1>1. Base /\ Base' BY BaseNext DEF Inv
<1> SUFFICES ASSUME NEW u \in Opener \cup Closer PROVE Bounded(u)'
  BY DEF Shown
<1>2. u \in Thread /\ Bounded(u) /\ u \notin Caller BY ThreadAssumption DEF Thread, Inv, Shown
<1>3. /\ DOMAIN pc = Thread /\ DOMAIN target = Thread /\ DOMAIN shown = Thread
      /\ terminals \in [Gen -> Nat] /\ target[u] \in 0..MaxGen
  BY <1>1, <1>2 DEF Base, Typed
<1>5. CASE UNCHANGED vars
  BY <1>2, <1>5 DEF Bounded, Coming, At, vars, workspaces, threads
<1>6. CASE ConfirmationEnds
  BY <1>2, <1>6 DEF Bounded, Coming, At, ConfirmationEnds, workspaces, threads
<1>7. CASE \E g \in Gen : TerminalEnds(g)
  <2>1. /\ UNCHANGED threads /\ \A g \in Gen : terminals'[g] \in Nat /\ terminals'[g] <= terminals[g]
    BY <1>3, <1>7 DEF TerminalEnds
  <2>2. \A g \in Gen : Comers(g)' = Comers(g) BY <2>1 DEF Comers, At, threads
  <2>3. \A g \in Gen : NoMore(g) BY <1>1, <2>1, <2>2, FewerComers DEF Base
  <2>4. QED BY <1>1, <1>2, <2>1, <2>3, BoundStays DEF threads
<1>8. ASSUME NEW t \in Thread, CallBegin(t) \/ CallEnter(t) \/ CallEnd(t) PROVE Bounded(u)'
  <2>1. /\ t \in Caller /\ UNCHANGED terminals /\ pc'[t] \in {"idle", "entering", "inside"}
        /\ \A k \in Thread \ {t} : pc'[k] = pc[k] /\ target'[k] = target[k] /\ shown'[k] = shown[k]
    BY <1>3, <1>8 DEF CallBegin, CallEnter, CallEnd, Goto, Leave, workspaces
  <2>2. \A g \in Gen : Comers(g)' \subseteq Comers(g) BY <2>1 DEF Comers, At, Thread
  <2>3. \A g \in Gen : terminals'[g] <= terminals[g] BY <1>3, <2>1
  <2>4. \A g \in Gen : NoMore(g) BY <1>1, <2>2, <2>3, FewerComers DEF Base
  <2>5. QED BY <1>1, <1>2, <2>1, <2>4, BoundStays
<1>9. ASSUME NEW t \in Thread, Admission(t) PROVE Bounded(u)'
  <2>1. /\ t \in Caller /\ UNCHANGED <<terminals, target, shown>> /\ ~Fenced(target[t])
        /\ \A k \in Thread \ {t} : pc'[k] = pc[k]
    BY <1>3, <1>9 DEF Admission, Goto, workspaces
  <2>2. ASSUME NEW g \in Gen, g = target[u],
               pc[u] \in {"build", "publish", "unpublish"} \cup StopStep
        PROVE  NoMore(g)
    <3>1. target[t] # g BY <1>2, <2>1, <2>2 DEF Fenced, Holds, StopStep
    <3>2. Comers(g)' = Comers(g) BY <2>1, <3>1 DEF Comers, At, Thread
    <3>3. terminals'[g] <= terminals[g] BY <1>3, <2>1
    <3>4. QED BY <1>1, <3>2, <3>3, FewerComers DEF Base
  <2>3. QED BY <1>1, <1>2, <2>1, <2>2, BoundStays
<1>10. ASSUME NEW t \in Thread, Launch(t) PROVE Bounded(u)'
  <2>1. t \in Caller /\ pc'[u] = pc[u] /\ UNCHANGED <<target, shown>>
    BY <1>2, <1>3, <1>10 DEF Launch, Goto
  <2>2. \A g \in Gen : NoMore(g) BY <1>1, <1>10, LaunchNoMore
  <2>3. QED BY <1>1, <1>2, <2>1, <2>2, BoundStays
<1>11. ASSUME NEW t \in Thread,
              ChangeNext(t) \/ InitNext(t) \/ PollNext(t) \/ QuitNext(t) \/ StopNext(t)
       PROVE  Bounded(u)'
  <2>1. Calm(t) BY <1>1, <1>11, CalmSteps
  <2>2. CASE u # t
    <3>1. \A g \in Gen : NoMore(g) BY <1>1, <2>1, CalmNoMore
    <3>2. pc'[u] = pc[u] /\ target'[u] = target[u] /\ shown'[u] = shown[u]
      BY <1>2, <2>1, <2>2 DEF Calm
    <3>3. QED BY <1>1, <1>2, <3>1, <3>2, BoundStays
  <2>3. CASE u = t
    <3>1. ChangeNext(t) \/ StopNext(t)
      BY <1>2, <1>11, <2>3, ThreadAssumption
         DEF InitNext, PollNext, QuitNext, InitFence, InitDrained, InitGivesUp, InitLock, InitFails,
             InitPublish, InitFinish, PollBegin, PollLock, PollPublish, PollFails, PollEnd, QuitBegin,
             QuitDrained, QuitRefused, QuitLock, QuitStopped, QuitCleanup, QuitEnd
    <3>2. QED BY <1>1, <1>2, <2>3, <3>1, ChangeBounds
  <2>4. QED BY <2>2, <2>3
<1>12. CASE Next
  BY <1>6, <1>7, <1>8, <1>9, <1>10, <1>11, <1>12 DEF Next, CallNext
<1>13. QED BY <1>5, <1>12

LEMMA InitShown == Init => Shown
BY DEF Init, Shown, Bounded, Thread, StopStep

\* What the invariant says of a coordinator that is down, and of one that stops.
LEMMA InvImplies == Inv => CoordinatorSafe
<1> SUFFICES ASSUME Inv PROVE CoordinatorSafe OBVIOUS
<1>1. NoOrphan BY DEF Inv, Base
<1>2. OnlyShownStops
  BY DEF OnlyShownStops, Inv, Base, Shown, Bounded, Roles, Changing, Stopping, StopStep
<1>3. DownForGood
  <2> SUFFICES ASSUME NEW t \in Quitter, pc[t] = "done"
               PROVE  /\ current = 0 /\ status = "closed"
                      /\ \A g \in Gen : ~live[g] /\ terminals[g] = 0
                      /\ \A u \in Thread \ Quitter : pc[u] = "idle"
    BY DEF DownForGood, At
  <2>1. /\ current = 0 /\ status = "closed"
        /\ \A u \in Thread \ Quitter : pc[u] = "idle"
        /\ \A u \in Quitter : pc[u] # "idle" => u = t
    BY DEF Inv, Base, Roles, Quitting
  <2>2. \A u \in Thread : ~Stopping(u) BY <2>1 DEF Stopping
  <2>3. \A g \in Gen : ~live[g] BY <1>1, <2>1, <2>2 DEF NoOrphan, Gen
  <2>4. \A g \in Gen : terminals[g] = 0 BY <2>3 DEF Inv, Base, Dead
  <2>5. QED BY <2>1, <2>3, <2>4
<1>4. QED BY <1>1, <1>2, <1>3 DEF CoordinatorSafe

\* No interleaving of opens, closes, first initializations, status polls, calls
\* and shutdowns orphans a workspace, stops a terminal that was not shown, or
\* leaves anything running after the shutdown (desktop_runtime.rs).
THEOREM CoordinatorIsSafe == Spec => []CoordinatorSafe
<1>1. Init => Inv BY InitBase, InitShown DEF Inv
<1>2. Inv /\ [Next]_vars => Inv' BY BaseNext, ShownNext DEF Inv
<1>3. QED BY <1>1, <1>2, InvImplies, PTL DEF Spec
-----------------------------------------------------------------------------
(* The commands of an open workspace *)

\* The plan of a target has not been deleted or moved away by this workspace.
Stands(link) == link # NoTarget => plan[link.plan] # "removed"

\* The types of the state and of the locals of each kind of thread.
State == {"none", "running", "ended", "exited"}
Entry == [state : State, link : Target, rev : Nat]
Task == [plan : Plan \cup {0}, status : Status, edit : Nat]
Resource == [kind : {"terminal", "agent"}, id : Session, rev : Nat]
Offer == [from : Task, to : Status, shown : SUBSET Resource, fresh : BOOLEAN]

LaunchJobs == [kind : {"launch"}, target : Target, agent : BOOLEAN]
LinkJobs ==
  [kind : {"link"}, session : Session, previous : Entry, next : Entry, paired : BOOLEAN]
MoveJobs ==
  [kind : {"move", "first", "confirmed"}, scope : {"task"}, from : Task, to : Status,
   plan : Plan \cup {0}, fresh : BOOLEAN, terminals : SUBSET Resource, shown : SUBSET Resource]
DeleteJobs ==
  [kind : {"delete", "moveout", "issue"}, scope : {"task", "plan"}, plan : Plan,
   terminals : SUBSET Resource, shown : Nat]

\* The steps under the transition, and the threads that move or delete.
Held == {"locked", "prepared", "terminal", "fenced", "read", "looked", "sessions", "recounted"}
Chooser == Mover \cup Deleter

Shapes ==
  /\ plan \in [Plan -> {"here", "removed", "lost"}] /\ others \in [Plan -> Nat]
  /\ task \in Task
  /\ session \in [Session -> Entry] /\ run \in [Session -> Entry]
  /\ holder \in Command \cup {Nobody} /\ challenges \in Seq(Offer)
  /\ DOMAIN at = Command /\ DOMAIN job = Command

\* The steps of each kind of thread, and what its locals are at them.
LaunchPace(t) ==
  /\ at[t] \in {"idle", "admitted", "locked"}
  /\ at[t] # "idle" =>
       /\ job[t] \in LaunchJobs /\ Stands(job[t].target)
       /\ ~job[t].agent => job[t].target = NoTarget
LinkPace(t) ==
  /\ at[t] \in {"idle", "validated", "prepared", "terminal"}
  /\ at[t] # "idle" =>
       job[t] \in LinkJobs /\ job[t].next.state = "running" /\ job[t].next.rev # 0
ChoosePace(t) ==
  /\ at[t] \in {"idle", "first", "fenced", "read", "looked", "sessions", "recounted"}
  /\ at[t] \in {"first", "read"} => t \in Mover /\ job[t] \in MoveJobs
  /\ at[t] \in {"looked", "sessions"} => job[t] \in MoveJobs \cup DeleteJobs
  /\ at[t] = "recounted" => job[t] \in DeleteJobs
  /\ at[t] \in {"looked", "sessions", "recounted"} /\ job[t] \in DeleteJobs =>
       (job[t].kind # "issue" => job[t].scope = "plan")
Paces ==
  /\ \A t \in Launcher : LaunchPace(t)
  /\ \A t \in Linker : LinkPace(t)
  /\ \A t \in Chooser : ChoosePace(t)

\* The transition is held by the one thread that is at a step under it.
OneHolds == \A t \in Command : holder = t <=> at[t] \in Held

\* Nobody launches while a mover or deleter looks.
Quiet ==
  \A t \in Chooser : at[t] \in {"read", "looked", "sessions", "recounted"} =>
    \A u \in Launcher : at[u] = "idle"

\* What a link under way knows of the two halves it changes.
Halves(t) ==
  LET j == job[t]
  IN /\ at[t] \in {"prepared", "terminal"} =>
          /\ j.paired <=> run[j.session].state # "none"
          /\ j.paired => run[j.session].link = j.previous.link /\ run[j.session].rev = j.previous.rev
                         /\ Stands(j.next.link)
     /\ at[t] = "terminal" =>
          session[j.session].link = j.next.link /\ session[j.session].rev = j.next.rev

\* A run is linked, and as its terminal is unless a link is between the two halves.
Agrees(s) == run[s].link = session[s].link /\ run[s].rev = session[s].rev
Pairs ==
  \A s \in Session :
    /\ session[s].state = "none" => run[s].state = "none"
    /\ run[s].state # "none" =>
         /\ run[s].rev # 0
         /\ Agrees(s) \/ \E t \in Linker : at[t] = "terminal" /\ job[t].session = s

\* What a mover and a deleter have read of the task and the resources still bounds
\* them, and a challenge offers a move of a task as it was.
Earlier(from) == from.plan # 0 /\ from.edit <= task.edit
Seen(t) ==
  /\ at[t] \in {"first", "read", "looked", "sessions"} /\ job[t] \in MoveJobs =>
       /\ Earlier(job[t].from)
       /\ at[t] \in {"looked", "sessions"} /\ task = job[t].from => job[t].plan = task.plan
  /\ at[t] = "sessions" => Terminals(job[t].scope, job[t].plan) \subseteq job[t].terminals
  /\ at[t] = "recounted" => job[t].kind = "delete" /\ Runs("plan", job[t].plan) = {}
Offers == \A i \in 1..Len(challenges) : Earlier(challenges[i].from)

\* The inductive invariant.
WorkInv ==
  /\ Shapes /\ Paces /\ OneHolds /\ Quiet /\ (\A t \in Linker : Halves(t)) /\ Pairs
  /\ (\A t \in Chooser : Seen(t)) /\ Offers /\ RunsNeverDangle

\* The task is as it was, or was written to, or has lost its plan.
Later ==
  \/ task' = task
  \/ task'.edit > task.edit
  \/ task'.plan = 0 /\ task'.edit = task.edit

\* A task that was read is told from the task as it is now.
LEMMA EarlierStays ==
  ASSUME Shapes, Shapes', Later, NEW from \in Task, Earlier(from)
  PROVE  from.edit <= task'.edit /\ (task' = from => task' = task)
BY DEF Shapes, Later, Earlier, Task

\* What a thread does by itself disturbs no other thread: nothing but its own step
\* and the lock have changed, or it had the lock, or nobody had it.
LEMMA ThreadStep ==
  ASSUME WorkInv, NEW t \in Command \cup {Nobody}, Shapes', Later,
         \A u \in Command \ {t} : at'[u] = at[u] /\ job'[u] = job[u],
         \/ holder' = holder
         \/ holder = Nobody /\ holder' = t
         \/ holder = t /\ holder' = Nobody,
         t \in Command => (holder' = t <=> at'[t] \in Held),
         UNCHANGED <<session, run>> \/ holder \in {t, Nobody},
         \/ \A link \in Target : Stands(link) => Stands(link)'
         \/ t \in Chooser /\ holder = t /\ (\A u \in Launcher : at[u] = "idle"),
         t \in Launcher => LaunchPace(t)' /\ (at[t] = "idle" => at'[t] = "idle" \/ ~Fence),
         t \in Linker => LinkPace(t)' /\ Halves(t)',
         t \in Chooser => /\ ChoosePace(t)' /\ Seen(t)'
                          /\ at'[t] \in {"read", "looked", "sessions", "recounted"} =>
                               \A u \in Launcher : at[u] = "idle",
         Pairs', Offers', RunsNeverDangle'
  PROVE  WorkInv'
<1>1. \A u \in Command : u # t => at'[u] = at[u] /\ job'[u] = job[u] OBVIOUS
<1>2. /\ Launcher \subseteq Command /\ Linker \subseteq Command /\ Chooser \subseteq Command
      /\ Nobody \notin Command
      /\ Launcher \cap Linker = {} /\ Launcher \cap Chooser = {} /\ Linker \cap Chooser = {}
  BY CommandAssumption DEF Command, Chooser
<1>3. OneHolds'
  BY <1>1, <1>2 DEF WorkInv, OneHolds
<1>4. ASSUME NEW u \in Launcher PROVE LaunchPace(u)'
  <2>1. CASE u = t BY <2>1
  <2>2. CASE u # t
    <3>1. LaunchPace(u) /\ at'[u] = at[u] /\ job'[u] = job[u]
      BY <1>1, <1>2, <2>2 DEF WorkInv, Paces
    <3>2. CASE at[u] = "idle" BY <3>1, <3>2 DEF LaunchPace
    <3>3. CASE at[u] # "idle"
      <4>1. job[u].target \in Target BY <3>1, <3>3 DEF LaunchPace, LaunchJobs
      <4>2. Stands(job[u].target)' BY <3>1, <3>3, <4>1 DEF LaunchPace, Stands
      <4>3. QED BY <3>1, <3>3, <4>2 DEF LaunchPace, LaunchJobs
    <3>4. QED BY <3>2, <3>3
  <2>3. QED BY <2>1, <2>2
<1>5. ASSUME NEW u \in Linker PROVE LinkPace(u)' /\ Halves(u)'
  <2>1. CASE u = t BY <2>1
  <2>2. CASE u # t
    <3>1. LinkPace(u) /\ Halves(u) /\ at'[u] = at[u] /\ job'[u] = job[u]
      BY <1>1, <1>2, <2>2 DEF WorkInv, Paces
    <3>2. LinkPace(u)' BY <3>1 DEF LinkPace, LinkJobs
    <3>3. CASE at[u] \in {"prepared", "terminal"}
      <4>1. holder = u BY <1>2, <3>3 DEF WorkInv, OneHolds, Held
      <4>2. holder \notin {t, Nobody} BY <1>2, <2>2, <4>1
      <4>3. UNCHANGED <<session, run>> BY <4>2
      <4>4. job[u] \in LinkJobs BY <3>1, <3>3 DEF LinkPace
      <4>5. job[u].next.link \in Target BY <4>4 DEF LinkJobs, Entry
      <4>6. Stands(job[u].next.link) => Stands(job[u].next.link)'
        BY <3>1, <4>1, <4>2, <4>5 DEF Stands
      <4>7. QED BY <3>1, <3>2, <4>3, <4>6 DEF Halves, Stands
    <3>4. QED BY <3>1, <3>2, <3>3 DEF Halves
  <2>3. QED BY <2>1, <2>2
<1>6. ASSUME NEW u \in Chooser PROVE ChoosePace(u)' /\ Seen(u)'
  <2>1. CASE u = t BY <2>1
  <2>2. CASE u # t
    <3>1. ChoosePace(u) /\ Seen(u) /\ at'[u] = at[u] /\ job'[u] = job[u]
      BY <1>1, <1>2, <2>2 DEF WorkInv, Paces
    <3>2. ChoosePace(u)' BY <3>1 DEF ChoosePace, MoveJobs, DeleteJobs
    <3>3. ASSUME at[u] \in {"first", "read", "looked", "sessions"}, job[u] \in MoveJobs
          PROVE  /\ Earlier(job[u].from)'
                 /\ at[u] \in {"looked", "sessions"} /\ task' = job[u].from
                      => job[u].plan = task'.plan
      <4>1. /\ Earlier(job[u].from) /\ job[u].from \in Task
            /\ at[u] \in {"looked", "sessions"} /\ task = job[u].from => job[u].plan = task.plan
        BY <3>1, <3>3 DEF Seen, MoveJobs
      <4>2. Earlier(job[u].from)' /\ (task' = job[u].from => task' = task)
        <5>1. Shapes BY DEF WorkInv
        <5>2. job[u].from.edit <= task'.edit /\ (task' = job[u].from => task' = task)
          BY <4>1, <5>1, EarlierStays
        <5>3. QED BY <3>1, <4>1, <5>2 DEF Earlier
      <4>3. QED BY <4>1, <4>2
    <3>4. CASE at[u] \in {"sessions", "recounted"}
      <4>1. holder = u BY <1>2, <3>4 DEF WorkInv, OneHolds, Held, Chooser
      <4>2. UNCHANGED <<session, run>> BY <1>2, <2>2, <4>1
      <4>3. /\ Terminals(job[u].scope, job[u].plan)' = Terminals(job[u].scope, job[u].plan)
            /\ Runs("plan", job[u].plan)' = Runs("plan", job[u].plan)
        BY <3>1, <4>2 DEF Terminals, Runs, Linked, Covers
      <4>4. QED BY <3>1, <3>2, <3>3, <4>3 DEF Seen, Earlier
    <3>5. CASE at[u] \notin {"sessions", "recounted"}
      BY <3>1, <3>2, <3>3, <3>5 DEF Seen, Earlier
    <3>6. QED BY <3>4, <3>5
  <2>3. QED BY <2>1, <2>2
<1>7. Quiet'
  <2> SUFFICES ASSUME NEW c \in Chooser, at'[c] \in {"read", "looked", "sessions", "recounted"},
                      NEW u \in Launcher
               PROVE  at'[u] = "idle"
    BY DEF Quiet
  <2>1. CASE c = t BY <1>1, <1>2, <2>1
  <2>2. CASE c # t
    <3>1. at[c] = at'[c] BY <1>1, <1>2, <2>2
    <3>2. at[u] = "idle" /\ holder = c
      BY <3>1, <1>2 DEF WorkInv, Quiet, OneHolds, Held
    <3>3. Fence BY <3>2 DEF Fence, Chooser
    <3>4. QED BY <1>1, <1>2, <3>2, <3>3
  <2>3. QED BY <2>1, <2>2
<1>8. QED BY <1>3, <1>4, <1>5, <1>6, <1>7 DEF WorkInv, Paces

\* The challenges that a change of a resource marks are the same otherwise.
LEMMA OffersChanged ==
  ASSUME challenges \in Seq(Offer), Offers, Changed, task' = task
  PROVE  challenges' \in Seq(Offer) /\ Offers'
<1>1. Len(challenges) \in Nat /\ \A i \in 1..Len(challenges) : challenges[i] \in Offer OBVIOUS
<1>2. \A i \in 1..Len(challenges) : [challenges[i] EXCEPT !.fresh = FALSE] \in Offer
  BY <1>1 DEF Offer
<1>3. challenges' = [i \in 1..Len(challenges) |-> [challenges[i] EXCEPT !.fresh = FALSE]]
  BY DEF Changed
<1>4. challenges' \in Seq(Offer) /\ Len(challenges') = Len(challenges) BY <1>1, <1>2, <1>3
<1>5. \A i \in 1..Len(challenges) : challenges'[i].from = challenges[i].from
  BY <1>1, <1>3 DEF Offer
<1>6. QED BY <1>4, <1>5 DEF Offers, Earlier

\* A step that moves no task, terminal or run.
LEMMA OwnStep ==
  ASSUME WorkInv, NEW t \in Command, UNCHANGED <<project, session, run>>,
         challenges' \in Seq(Offer), Offers', DOMAIN at' = Command, DOMAIN job' = Command,
         \A u \in Command \ {t} : at'[u] = at[u] /\ job'[u] = job[u], at[t] # "terminal",
         \/ holder' = holder
         \/ holder = Nobody /\ holder' = t
         \/ holder = t /\ holder' = Nobody,
         holder' = t <=> at'[t] \in Held,
         t \in Launcher => LaunchPace(t)' /\ (at[t] = "idle" => at'[t] = "idle" \/ ~Fence),
         t \in Linker => LinkPace(t)' /\ Halves(t)',
         t \in Chooser => /\ ChoosePace(t)' /\ Seen(t)'
                          /\ at'[t] \in {"read", "looked", "sessions", "recounted"} =>
                               \A u \in Launcher : at[u] = "idle"
  PROVE  WorkInv'
<1>1. Shapes' BY DEF WorkInv, Shapes, project
<1>2. Later BY DEF Later, project
<1>3. \A link \in Target : Stands(link) => Stands(link)' BY DEF Stands, project
<1>4. Pairs'
  <2>1. \A u \in Linker : at[u] = "terminal" => at'[u] = "terminal" /\ job'[u] = job[u]
    BY DEF Command
  <2>2. QED BY <2>1 DEF WorkInv, Pairs, Agrees
<1>5. RunsNeverDangle' BY DEF WorkInv, RunsNeverDangle, project
<1>6. QED BY <1>1, <1>2, <1>3, <1>4, <1>5, ThreadStep

\* Which step a thread is at tells what it runs.
LEMMA RoleOf ==
  ASSUME WorkInv, NEW t \in Command
  PROVE  /\ t \in Launcher => LaunchPace(t) /\ t \notin Linker /\ t \notin Chooser
         /\ t \in Linker => LinkPace(t) /\ Halves(t) /\ t \notin Launcher /\ t \notin Chooser
         /\ t \in Chooser => ChoosePace(t) /\ Seen(t) /\ t \notin Launcher /\ t \notin Linker
         /\ t \in Launcher \/ t \in Linker \/ t \in Chooser
         /\ t # Nobody /\ (holder = t <=> at[t] \in Held)
BY CommandAssumption DEF WorkInv, Paces, OneHolds, Command, Chooser

\* The steps of a launch up to the creation of its terminal.
LEMMA LaunchSteps ==
  ASSUME WorkInv, NEW t \in Command,
         \/ \E link \in Target, agent \in BOOLEAN : LaunchAdmit(t, link, agent)
         \/ LaunchLock(t) \/ LaunchFails(t)
  PROVE  WorkInv'
<1>1. /\ Shapes /\ Offers /\ t \in Launcher /\ LaunchPace(t) /\ t \notin Linker
      /\ t \notin Chooser /\ t # Nobody /\ (holder = t <=> at[t] \in Held)
  BY RoleOf DEF WorkInv, LaunchAdmit, LaunchLock, LaunchFails
<1>2. ASSUME NEW link \in Target, NEW agent \in BOOLEAN, LaunchAdmit(t, link, agent)
      PROVE  WorkInv'
  <2>1. challenges' \in Seq(Offer) /\ Offers'
    BY <1>1, <1>2, OffersChanged DEF LaunchAdmit, Shapes, project
  <2>2. /\ at[t] = "idle" /\ at'[t] = "admitted" /\ ~Fence
        /\ job'[t] = [kind |-> "launch", target |-> link, agent |-> agent]
        /\ \A u \in Command \ {t} : at'[u] = at[u] /\ job'[u] = job[u]
        /\ DOMAIN at' = Command /\ DOMAIN job' = Command
    BY <1>1, <1>2 DEF LaunchAdmit, Step, Work, Shapes
  <2>3. LaunchPace(t)'
    <3>1. Stands(link)' BY <1>2 DEF LaunchAdmit, ValidTarget, Exists, Stands, project
    <3>2. ~agent => link = NoTarget BY <1>2 DEF LaunchAdmit
    <3>3. QED BY <2>2, <3>1, <3>2 DEF LaunchPace, LaunchJobs, Stands
  <2>4. UNCHANGED <<project, session, run, holder>> BY <1>2 DEF LaunchAdmit
  <2>5. at'[t] \notin Held /\ at[t] \notin Held BY <2>2 DEF Held
  <2>6. QED BY <1>1, <2>1, <2>2, <2>3, <2>4, <2>5, OwnStep
<1>3. CASE LaunchLock(t)
  <2>1. challenges' \in Seq(Offer) /\ Offers'
    BY <1>1, <1>3 DEF LaunchLock, Shapes, project, Offers, Earlier
  <2>2. /\ at[t] = "admitted" /\ at'[t] = "locked" /\ holder = Nobody /\ holder' = t
        /\ \A u \in Command \ {t} : at'[u] = at[u]
        /\ DOMAIN at' = Command /\ job' = job /\ UNCHANGED <<project, session, run>>
    BY <1>1, <1>3 DEF LaunchLock, Step, Acquire, Shapes
  <2>3. LaunchPace(t)' BY <1>1, <2>2 DEF LaunchPace, LaunchJobs, Stands, project
  <2>4. DOMAIN job' = Command BY <1>1, <2>2 DEF Shapes
  <2>5. at'[t] \in Held BY <2>2 DEF Held
  <2>6. QED BY <1>1, <2>1, <2>2, <2>3, <2>4, <2>5, OwnStep
<1>4. CASE LaunchFails(t)
  <2>1. challenges' \in Seq(Offer) /\ Offers'
    BY <1>1, <1>4, OffersChanged DEF LaunchFails, Shapes, project
  <2>2. /\ at[t] = "locked" /\ at'[t] = "idle" /\ holder = t /\ holder' = Nobody
        /\ \A u \in Command \ {t} : at'[u] = at[u] /\ job'[u] = job[u]
        /\ DOMAIN at' = Command /\ DOMAIN job' = Command /\ UNCHANGED <<project, session, run>>
    BY <1>1, <1>4 DEF LaunchFails, Release, Finish, Work, Shapes
  <2>3. LaunchPace(t)' BY <2>2 DEF LaunchPace
  <2>4. at'[t] \notin Held BY <2>2 DEF Held
  <2>5. QED BY <1>1, <2>1, <2>2, <2>3, <2>4, OwnStep
<1>5. QED BY <1>2, <1>3, <1>4

\* The steps of a link that change neither of its halves.
LEMMA LinkSteps ==
  ASSUME WorkInv, NEW t \in Command,
         \/ \E s \in Session, link \in Target : LinkValidate(t, s, link)
         \/ LinkPrepare(t) \/ LinkRefused(t) \/ LinkStale(t)
  PROVE  WorkInv'
<1>1. /\ Shapes /\ Offers /\ t \in Linker /\ LinkPace(t) /\ Halves(t) /\ t \notin Launcher
      /\ t \notin Chooser /\ t # Nobody /\ (holder = t <=> at[t] \in Held)
  BY RoleOf DEF WorkInv, LinkValidate, LinkPrepare, LinkRefused, LinkStale, LinkPace, ChoosePace,
                LaunchPace
<1>2. /\ challenges' \in Seq(Offer) /\ Offers' /\ UNCHANGED <<project, session, run>>
      /\ \A u \in Command \ {t} : at'[u] = at[u] /\ job'[u] = job[u]
      /\ DOMAIN at' = Command /\ DOMAIN job' = Command
  BY <1>1 DEF LinkValidate, LinkPrepare, LinkRefused, LinkStale, Step, Work, Finish, Release,
              Shapes, Offers, Earlier, project
<1>3. CASE \E s \in Session, link \in Target : LinkValidate(t, s, link)
  <2>1. PICK s \in Session, link \in Target : LinkValidate(t, s, link) BY <1>3
  <2>2. /\ at[t] = "idle" /\ at'[t] = "validated" /\ holder' = holder
        /\ job'[t] = [kind |-> "link", session |-> s, previous |-> session[s],
                      next |-> [state |-> "running", link |-> link, rev |-> session[s].rev + 1],
                      paired |-> FALSE]
    BY <1>1, <2>1 DEF LinkValidate, Step, Work, Shapes
  <2>3. session[s] \in Entry BY <1>1 DEF Shapes
  <2>4. session[s].rev + 1 \in Nat /\ session[s].rev + 1 # 0 BY <2>3 DEF Entry
  <2>5. [state |-> "running", link |-> link, rev |-> session[s].rev + 1] \in Entry
    BY <2>4 DEF Entry, State
  <2>6. LinkPace(t)' /\ Halves(t)' BY <2>2, <2>3, <2>4, <2>5 DEF LinkPace, LinkJobs, Halves
  <2>7. at'[t] \notin Held /\ at[t] \notin Held BY <2>2 DEF Held
  <2>8. QED BY <1>1, <1>2, <2>2, <2>6, <2>7, OwnStep
<1>4. CASE LinkPrepare(t)
  <2>1. /\ at[t] = "validated" /\ at'[t] = "prepared" /\ holder = Nobody /\ holder' = t
        /\ job'[t] = [job[t] EXCEPT !.paired = run[job[t].session].state # "none"]
        /\ Prepared(t)
    BY <1>1, <1>4 DEF LinkPrepare, Step, Work, Acquire, Shapes
  <2>2. job[t] \in LinkJobs /\ job[t].next.state = "running" /\ job[t].next.rev # 0
    BY <1>1, <2>1 DEF LinkPace
  <2>3. LinkPace(t)' BY <2>1, <2>2 DEF LinkPace, LinkJobs
  <2>4. Halves(t)'
    BY <1>2, <2>1, <2>2 DEF Halves, LinkJobs, Prepared, ValidTarget, Exists, Stands, project
  <2>5. at'[t] \in Held BY <2>1 DEF Held
  <2>6. QED BY <1>1, <1>2, <2>1, <2>3, <2>4, <2>5, OwnStep
<1>5. CASE LinkRefused(t) \/ LinkStale(t)
  <2>1. /\ at[t] # "terminal" /\ at'[t] = "idle"
        /\ (holder' = holder /\ at[t] \notin Held) \/ (holder = t /\ holder' = Nobody)
    BY <1>1, <1>5 DEF LinkRefused, LinkStale, Finish, Release, Shapes, Held
  <2>2. LinkPace(t)' /\ Halves(t)' BY <2>1 DEF LinkPace, Halves
  <2>3. at'[t] \notin Held BY <2>1 DEF Held
  <2>4. QED BY <1>1, <1>2, <2>1, <2>2, <2>3, OwnStep
<1>6. QED BY <1>3, <1>4, <1>5

\* The steps that moves and deletes have in common.
LEMMA FenceSteps ==
  ASSUME WorkInv, NEW t \in Command, FenceBegin(t) \/ FenceRetry(t) \/ ReadSessions(t)
  PROVE  WorkInv'
<1>1. /\ Shapes /\ Offers /\ Quiet /\ t \in Chooser /\ ChoosePace(t) /\ Seen(t)
      /\ t \notin Launcher /\ t \notin Linker /\ t # Nobody /\ (holder = t <=> at[t] \in Held)
  BY RoleOf DEF WorkInv, FenceBegin, FenceRetry, ReadSessions, Step, LinkPace, LaunchPace, Chooser
<1>2. /\ challenges' \in Seq(Offer) /\ Offers' /\ UNCHANGED <<project, session, run>>
      /\ \A u \in Command \ {t} : at'[u] = at[u] /\ job'[u] = job[u]
      /\ DOMAIN at' = Command /\ DOMAIN job' = Command
  BY <1>1 DEF FenceBegin, FenceRetry, ReadSessions, Step, Work, Finish, Release,
              Shapes, Offers, Earlier, project
<1>3. CASE FenceBegin(t)
  <2>1. /\ at[t] = "idle" /\ at'[t] = "fenced" /\ holder = Nobody /\ holder' = t /\ job' = job
    BY <1>1, <1>3 DEF FenceBegin, Step, Acquire, Shapes
  <2>2. ChoosePace(t)' /\ Seen(t)' BY <1>1, <2>1 DEF ChoosePace, Seen
  <2>3. at'[t] \in Held BY <2>1 DEF Held
  <2>4. QED BY <1>1, <1>2, <2>1, <2>2, <2>3, OwnStep
<1>4. CASE FenceRetry(t)
  <2>1. /\ at[t] = "fenced" /\ at'[t] = "idle" /\ holder = t /\ holder' = Nobody
        /\ job'[t] = NoJob
    BY <1>1, <1>4 DEF FenceRetry, Release, Finish, Work, Shapes
  <2>2. ChoosePace(t)' /\ Seen(t)'
    BY <1>1, <2>1 DEF ChoosePace, Seen, NoJob, DeleteJobs
  <2>3. at'[t] \notin Held BY <2>1 DEF Held
  <2>4. QED BY <1>1, <1>2, <2>1, <2>2, <2>3, OwnStep
<1>5. CASE ReadSessions(t)
  <2>1. /\ at[t] = "looked" /\ at'[t] = "sessions" /\ holder' = holder
        /\ job'[t] = [job[t] EXCEPT !.terminals = Terminals(job[t].scope, job[t].plan)]
    BY <1>1, <1>5 DEF ReadSessions, Step, Work, Shapes
  <2>2. Terminals(job[t].scope, job[t].plan) \in SUBSET Resource
    BY <1>1 DEF Terminals, Linked, Resource, Shapes, Entry
  <2>3. job[t] \in MoveJobs \cup DeleteJobs BY <1>1, <2>1 DEF ChoosePace
  <2>4. /\ job'[t] \in MoveJobs <=> job[t] \in MoveJobs
        /\ job'[t] \in DeleteJobs <=> job[t] \in DeleteJobs
        /\ job'[t].kind = job[t].kind /\ job'[t].scope = job[t].scope
        /\ job'[t].plan = job[t].plan
        /\ job'[t].terminals = Terminals(job[t].scope, job[t].plan)
        /\ job[t] \in MoveJobs => job'[t].from = job[t].from
    BY <2>1, <2>2, <2>3 DEF MoveJobs, DeleteJobs
  <2>5. ChoosePace(t)' BY <1>1, <2>1, <2>3, <2>4 DEF ChoosePace
  <2>6. Terminals(job[t].scope, job[t].plan)' = Terminals(job[t].scope, job[t].plan)
    BY <1>2, <2>4 DEF Terminals, Linked, Covers
  <2>7. Seen(t)'
    BY <1>1, <1>2, <2>1, <2>3, <2>4, <2>6 DEF Seen, Earlier, project
  <2>8. at'[t] \in Held /\ at[t] \in Held BY <2>1 DEF Held
  <2>9. \A u \in Launcher : at[u] = "idle" BY <1>1, <2>1 DEF Quiet
  <2>10. QED BY <1>1, <1>2, <2>1, <2>5, <2>7, <2>8, <2>9, OwnStep
<1>6. QED BY <1>3, <1>4, <1>5

\* What a thread that moves or deletes is known to be at.
LEMMA ChooserRole ==
  ASSUME WorkInv, NEW t \in Command,
         t \in Chooser \/ at[t] \in {"fenced", "first", "read", "looked", "sessions", "recounted"}
  PROVE  /\ Shapes /\ Offers /\ Quiet /\ t \in Chooser /\ ChoosePace(t) /\ Seen(t)
         /\ t \notin Launcher /\ t \notin Linker /\ t # Nobody /\ (holder = t <=> at[t] \in Held)
BY RoleOf DEF WorkInv, LinkPace, LaunchPace

\* Giving the transition up leaves nothing to know.
LEMMA Released ==
  ASSUME WorkInv, NEW t \in Command, UNCHANGED <<project, session, run>>,
         challenges' \in Seq(Offer), Offers', t \in Chooser, Release(t)
  PROVE  WorkInv'
<1>1. /\ Shapes /\ t \notin Launcher /\ t \notin Linker /\ t # Nobody /\ ChoosePace(t)
  BY ChooserRole
<1>2. /\ at'[t] = "idle" /\ holder = t /\ holder' = Nobody /\ job'[t] = NoJob
      /\ \A u \in Command \ {t} : at'[u] = at[u] /\ job'[u] = job[u]
      /\ DOMAIN at' = Command /\ DOMAIN job' = Command
  BY <1>1 DEF Release, Finish, Work, Shapes
<1>3. ChoosePace(t)' /\ Seen(t)' BY <1>2 DEF ChoosePace, Seen, NoJob, DeleteJobs
<1>4. at'[t] \notin Held /\ at[t] # "terminal" BY <1>1, <1>2 DEF Held, ChoosePace
<1>5. QED BY <1>1, <1>2, <1>3, <1>4, OwnStep

\* A challenge that is used up, or that makes room for another, is not offered again.
LEMMA OffersLess ==
  ASSUME challenges \in Seq(Offer), Offers, task' = task, NEW i \in 1..Len(challenges),
         challenges' = [k \in 1..Len(challenges) - 1 |-> challenges[IF k < i THEN k ELSE k + 1]]
  PROVE  challenges' \in Seq(Offer) /\ Offers'
<1>1. Len(challenges) \in Nat /\ \A k \in 1..Len(challenges) : challenges[k] \in Offer OBVIOUS
<1>2. \A k \in 1..Len(challenges) - 1 : (IF k < i THEN k ELSE k + 1) \in 1..Len(challenges)
  BY <1>1
<1>3. challenges' \in Seq(Offer) /\ Len(challenges') = Len(challenges) - 1 BY <1>1, <1>2
<1>4. QED BY <1>1, <1>2, <1>3 DEF Offers, Earlier

\* Nor is the oldest one when it goes.
LEMMA OffersTail ==
  ASSUME challenges \in Seq(Offer), Offers, challenges # <<>>
  PROVE  /\ Tail(challenges) \in Seq(Offer)
         /\ \A i \in 1..Len(Tail(challenges)) : Earlier(Tail(challenges)[i].from)
BY DEF Offers

\* The steps of a move up to the reading of the resources.
LEMMA MoveSteps ==
  ASSUME WorkInv, NEW t \in Command,
         \/ \E to \in Status : MoveRead(t, to)
         \/ FirstRead(t) \/ FirstLock(t) \/ MoveLook(t)
  PROVE  WorkInv'
<1>1. at[t] \in {"idle", "first", "fenced", "read"} /\ t \in Mover
  BY DEF MoveRead, FirstRead, FirstLock, MoveLook, Ready, Step
<1>2. /\ Shapes /\ Offers /\ Quiet /\ t \in Chooser /\ ChoosePace(t) /\ Seen(t)
      /\ t \notin Launcher /\ t \notin Linker /\ t # Nobody /\ (holder = t <=> at[t] \in Held)
  BY <1>1, ChooserRole DEF Chooser
<1>3. /\ challenges' \in Seq(Offer) /\ Offers' /\ UNCHANGED <<project, session, run>>
      /\ \A u \in Command \ {t} : at'[u] = at[u] /\ job'[u] = job[u]
      /\ DOMAIN at' = Command /\ DOMAIN job' = Command
  BY <1>2 DEF MoveRead, FirstRead, FirstLock, MoveLook, Ready, Step, Work,
              Shapes, Offers, Earlier, project
<1>4. task \in Task /\ task.edit <= task.edit BY <1>2 DEF Shapes, Task
<1>5. CASE \E to \in Status : MoveRead(t, to)
  <2>1. PICK to \in Status : MoveRead(t, to) BY <1>5
  <2>2. /\ at[t] = "fenced" /\ at'[t] = "read" /\ holder' = holder /\ task.plan # 0
        /\ job'[t] = MoveJob("move", task, to) /\ NoAdmission
    BY <1>2, <2>1 DEF MoveRead, Ready, Step, Work, Shapes
  <2>3. job'[t] \in MoveJobs /\ job'[t] \notin DeleteJobs /\ job'[t].from = task
    BY <1>4, <2>2 DEF MoveJob, MoveJobs, DeleteJobs
  <2>4. ChoosePace(t)' BY <1>1, <2>2, <2>3 DEF ChoosePace
  <2>5. Seen(t)' BY <1>3, <1>4, <2>2, <2>3 DEF Seen, Earlier, project
  <2>6. \A u \in Launcher : at[u] = "idle" BY <2>2 DEF NoAdmission, Admissions
  <2>7. at'[t] \in Held /\ at[t] \in Held BY <2>2 DEF Held
  <2>8. QED BY <1>2, <1>3, <2>2, <2>4, <2>5, <2>6, <2>7, OwnStep
<1>6. CASE FirstRead(t)
  <2>1. /\ at[t] = "idle" /\ at'[t] = "first" /\ holder' = holder /\ task.plan # 0
        /\ job'[t] = MoveJob("first", task, "doing")
    BY <1>2, <1>6 DEF FirstRead, Step, Work, Shapes
  <2>2. job'[t] \in MoveJobs /\ job'[t] \notin DeleteJobs /\ job'[t].from = task
    BY <1>4, <2>1 DEF MoveJob, MoveJobs, DeleteJobs, Status
  <2>3. ChoosePace(t)' BY <1>1, <2>1, <2>2 DEF ChoosePace
  <2>4. Seen(t)' BY <1>3, <1>4, <2>1, <2>2 DEF Seen, Earlier, project
  <2>5. at'[t] \notin Held /\ at[t] \notin Held BY <2>1 DEF Held
  <2>6. QED BY <1>2, <1>3, <2>1, <2>3, <2>4, <2>5, OwnStep
<1>7. CASE FirstLock(t)
  <2>1. /\ at[t] = "first" /\ at'[t] = "read" /\ holder = Nobody /\ holder' = t
        /\ job' = job /\ NoAdmission
    BY <1>2, <1>7 DEF FirstLock, Step, Acquire, Shapes
  <2>2. ChoosePace(t)' BY <1>2, <2>1 DEF ChoosePace
  <2>3. Seen(t)' BY <1>2, <1>3, <2>1 DEF Seen, Earlier, project
  <2>4. \A u \in Launcher : at[u] = "idle" BY <2>1 DEF NoAdmission, Admissions
  <2>5. at'[t] \in Held BY <2>1 DEF Held
  <2>6. QED BY <1>2, <1>3, <2>1, <2>2, <2>3, <2>4, <2>5, OwnStep
<1>8. CASE MoveLook(t)
  <2>1. /\ at[t] = "read" /\ at'[t] = "looked" /\ holder' = holder
        /\ job'[t] = [job[t] EXCEPT !.plan = task.plan, !.fresh = @ \/ job[t].kind # "confirmed"]
    BY <1>2, <1>8 DEF MoveLook, Step, Work, Shapes
  <2>2. job[t] \in MoveJobs BY <1>2, <2>1 DEF ChoosePace
  <2>3. task.plan \in Plan \cup {0} BY <1>4 DEF Task
  <2>4. /\ job'[t] \in MoveJobs /\ job'[t] \notin DeleteJobs
        /\ job'[t].from = job[t].from /\ job'[t].plan = task.plan
    BY <2>1, <2>2, <2>3 DEF MoveJobs, DeleteJobs
  <2>5. ChoosePace(t)' BY <2>1, <2>4 DEF ChoosePace
  <2>6. Seen(t)' BY <1>2, <1>3, <2>1, <2>2, <2>4 DEF Seen, Earlier, project
  <2>7. \A u \in Launcher : at[u] = "idle" BY <1>2, <2>1 DEF Quiet
  <2>8. at'[t] \in Held /\ at[t] \in Held BY <2>1 DEF Held
  <2>9. QED BY <1>2, <1>3, <2>1, <2>5, <2>6, <2>7, <2>8, OwnStep
<1>9. QED BY <1>5, <1>6, <1>7, <1>8

\* The use, the refusal and the issue of a challenge.
LEMMA ConfirmSteps ==
  ASSUME WorkInv, NEW t \in Command,
         \/ \E i \in 1..Len(challenges) : MoveConfirm(t, i)
         \/ MoveRefused(t) \/ MoveChallenge(t)
  PROVE  WorkInv'
<1>1. at[t] \in {"fenced", "sessions"}
  BY DEF MoveConfirm, MoveRefused, MoveChallenge, Moving
<1>2. /\ Shapes /\ Offers /\ Quiet /\ t \in Chooser /\ ChoosePace(t) /\ Seen(t)
      /\ t \notin Launcher /\ t \notin Linker /\ t # Nobody /\ (holder = t <=> at[t] \in Held)
  BY <1>1, ChooserRole
<1>3. challenges \in Seq(Offer) BY <1>2 DEF Shapes
<1>4. CASE \E i \in 1..Len(challenges) : MoveConfirm(t, i)
  <2>1. PICK i \in 1..Len(challenges) : MoveConfirm(t, i) BY <1>4
  <2>2. /\ UNCHANGED <<project, session, run>> /\ t \in Mover /\ at[t] = "fenced" /\ NoAdmission
        /\ challenges' = [k \in 1..Len(challenges) - 1 |->
                            challenges[IF k < i THEN k ELSE k + 1]]
    BY <2>1 DEF MoveConfirm
  <2>3. challenges' \in Seq(Offer) /\ Offers' BY <1>2, <1>3, <2>2, OffersLess DEF project
  <2>4. CASE Release(t) BY <1>2, <2>2, <2>3, <2>4, Released
  <2>5. CASE ~Release(t)
    <3>1. /\ at'[t] = "read" /\ holder' = holder
          /\ job'[t] = [MoveJob("confirmed", challenges[i].from, challenges[i].to)
                          EXCEPT !.shown = challenges[i].shown]
          /\ \A u \in Command \ {t} : at'[u] = at[u] /\ job'[u] = job[u]
          /\ DOMAIN at' = Command /\ DOMAIN job' = Command
      BY <1>2, <2>1, <2>5 DEF MoveConfirm, Step, Work, Shapes
    <3>2. challenges[i] \in Offer /\ Earlier(challenges[i].from) BY <1>2, <1>3 DEF Offers
    <3>3. /\ job'[t] \in MoveJobs /\ job'[t] \notin DeleteJobs
          /\ job'[t].from = challenges[i].from
      BY <3>1, <3>2 DEF MoveJob, MoveJobs, DeleteJobs, Offer
    <3>4. ChoosePace(t)' BY <2>2, <3>1, <3>3 DEF ChoosePace
    <3>5. Seen(t)' BY <2>2, <3>1, <3>2, <3>3 DEF Seen, Earlier, project
    <3>6. \A u \in Launcher : at[u] = "idle" BY <2>2 DEF NoAdmission, Admissions
    <3>7. at'[t] \in Held /\ at[t] \in Held BY <2>2, <3>1 DEF Held
    <3>8. QED BY <1>2, <2>2, <2>3, <3>1, <3>4, <3>5, <3>6, <3>7, OwnStep
  <2>6. QED BY <2>4, <2>5
<1>5. CASE MoveRefused(t)
  <2>1. /\ UNCHANGED <<project, session, run>> /\ Release(t)
        /\ challenges' \in Seq(Offer) /\ Offers'
    BY <1>2, <1>3, <1>5 DEF MoveRefused, Offers, Earlier, project
  <2>2. QED BY <1>2, <2>1, Released
<1>6. CASE MoveChallenge(t)
  <2> DEFINE c == [from |-> job[t].from, to |-> job[t].to, shown |-> Resources(t),
                   fresh |-> job[t].fresh]
             room == IF Len(challenges) < ChallengeLimit THEN challenges ELSE Tail(challenges)
  <2>1. /\ UNCHANGED <<project, session, run>> /\ Release(t) /\ challenges' = Append(room, c)
        /\ at[t] = "sessions" /\ job[t].kind = "move"
    BY <1>6 DEF MoveChallenge, Moving
  <2>2. job[t] \in MoveJobs /\ Earlier(job[t].from)
    <3>1. job[t] \in MoveJobs BY <1>2, <2>1 DEF ChoosePace, DeleteJobs
    <3>2. QED BY <1>2, <2>1, <3>1 DEF Seen
  <2>3. c \in Offer
    <3>1. Runs(job[t].scope, job[t].plan) \in SUBSET Resource
      BY <1>2 DEF Runs, Linked, Resource, Shapes, Entry
    <3>2. Resources(t) \in SUBSET Resource BY <2>2, <3>1 DEF Resources, MoveJobs
    <3>3. QED BY <2>2, <3>2 DEF MoveJobs, Offer
  <2>4. c.from = job[t].from OBVIOUS
  <2>5. room \in Seq(Offer) /\ \A i \in 1..Len(room) : Earlier(room[i].from)
    <3>1. CASE Len(challenges) < ChallengeLimit BY <1>2, <1>3, <3>1 DEF Offers
    <3>2. CASE ~(Len(challenges) < ChallengeLimit)
      <4>1. challenges # <<>> BY <1>3, <3>2, CommandAssumption
      <4>2. QED BY <1>2, <1>3, <3>2, <4>1, OffersTail
    <3>3. QED BY <3>1, <3>2
  <2> HIDE DEF c, room
  <2>6. challenges' \in Seq(Offer) BY <2>1, <2>3, <2>5
  <2>7. \A i \in 1..Len(challenges') : Earlier(challenges'[i].from)
    BY <2>1, <2>2, <2>3, <2>4, <2>5
  <2>8. Offers' BY <2>1, <2>7 DEF Offers, Earlier, project
  <2>9. QED BY <1>2, <2>1, <2>6, <2>8, Released
<1>7. QED BY <1>4, <1>5, <1>6

\* The steps of a delete that delete nothing.
LEMMA DeleteSteps ==
  ASSUME WorkInv, NEW t \in Command,
         \/ \E kind \in {"delete", "moveout", "issue"}, p \in Plan, n \in 0..MaxOther + 1 :
              DeleteLook(t, kind, p, n)
         \/ DeleteRefused(t) \/ DeleteRecount(t) \/ DeleteStale(t) \/ DeleteLost(t)
  PROVE  WorkInv'
<1>1. at[t] \in {"fenced", "sessions", "recounted"}
  BY DEF DeleteLook, DeleteRefused, DeleteRecount, DeleteStale, DeleteLost, Releasing, Ready
<1>2. /\ Shapes /\ Offers /\ Quiet /\ t \in Chooser /\ ChoosePace(t) /\ Seen(t)
      /\ t \notin Launcher /\ t \notin Linker /\ t # Nobody /\ (holder = t <=> at[t] \in Held)
  BY <1>1, ChooserRole
<1>3. /\ challenges' \in Seq(Offer) /\ Offers' /\ UNCHANGED <<project, session, run>>
  BY <1>2 DEF DeleteLook, DeleteRefused, DeleteRecount, DeleteStale, DeleteLost,
              Shapes, Offers, Earlier, project
<1>4. CASE \E kind \in {"delete", "moveout", "issue"}, p \in Plan, n \in 0..MaxOther + 1 :
             DeleteLook(t, kind, p, n)
  <2>1. PICK kind \in {"delete", "moveout", "issue"}, p \in Plan, n \in 0..MaxOther + 1 :
               DeleteLook(t, kind, p, n)
    BY <1>4
  <2>2. /\ at[t] = "fenced" /\ at'[t] = "looked" /\ holder' = holder /\ NoAdmission
        /\ job'[t] = ReleaseJob(kind, p, n)
        /\ \A u \in Command \ {t} : at'[u] = at[u] /\ job'[u] = job[u]
        /\ DOMAIN at' = Command /\ DOMAIN job' = Command
    BY <1>2, <2>1 DEF DeleteLook, Ready, Step, Work, Shapes
  <2>3. n \in Nat BY CommandAssumption
  <2>4. /\ job'[t] \in DeleteJobs /\ job'[t] \notin MoveJobs
        /\ job'[t].kind # "issue" => job'[t].scope = "plan"
    BY <2>2, <2>3 DEF ReleaseJob, DeleteJobs, MoveJobs
  <2>5. ChoosePace(t)' /\ Seen(t)' BY <2>2, <2>4 DEF ChoosePace, Seen
  <2>6. \A u \in Launcher : at[u] = "idle" BY <2>2 DEF NoAdmission, Admissions
  <2>7. at'[t] \in Held /\ at[t] \in Held BY <2>2 DEF Held
  <2>8. QED BY <1>2, <1>3, <2>2, <2>5, <2>6, <2>7, OwnStep
<1>5. CASE DeleteRefused(t) \/ DeleteStale(t) \/ DeleteLost(t)
  <2>1. Release(t) BY <1>5 DEF DeleteRefused, DeleteStale, DeleteLost
  <2>2. QED BY <1>2, <1>3, <2>1, Released
<1>6. CASE DeleteRecount(t)
  <2>1. /\ at[t] = "sessions" /\ at'[t] = "recounted" /\ holder' = holder /\ job' = job
        /\ job[t].kind = "delete" /\ Resources(t) = {}
        /\ \A u \in Command \ {t} : at'[u] = at[u]
        /\ DOMAIN at' = Command
    BY <1>2, <1>6 DEF DeleteRecount, Releasing, Step, Shapes
  <2>2. job[t] \in DeleteJobs /\ job[t].scope = "plan"
    BY <1>2, <2>1 DEF ChoosePace, MoveJobs
  <2>3. Runs("plan", job[t].plan) = {} BY <2>1, <2>2 DEF Resources
  <2>4. Runs("plan", job[t].plan)' = {} BY <1>3, <2>1, <2>3 DEF Runs, Linked, Covers
  <2>5. ChoosePace(t)' /\ Seen(t)' BY <2>1, <2>2, <2>4 DEF ChoosePace, Seen
  <2>6. \A u \in Launcher : at[u] = "idle" BY <1>2, <2>1 DEF Quiet
  <2>7. at'[t] \in Held /\ at[t] \in Held BY <2>1 DEF Held
  <2>8. DOMAIN job' = Command BY <1>2, <2>1 DEF Shapes
  <2>9. QED BY <1>2, <1>3, <2>1, <2>5, <2>6, <2>7, <2>8, OwnStep
<1>7. QED BY <1>4, <1>5, <1>6

\* A terminal and its run begin, or are rolled back, both at once.
LEMMA LaunchEnds ==
  ASSUME WorkInv, NEW t \in Command, NEW s \in Session,
         LaunchCreate(t, s) \/ LaunchRolledBack(t, s)
  PROVE  WorkInv'
<1>1. /\ Shapes /\ Offers /\ Pairs /\ RunsNeverDangle /\ t \in Launcher /\ LaunchPace(t)
      /\ t \notin Linker /\ t \notin Chooser /\ t # Nobody /\ (holder = t <=> at[t] \in Held)
  BY RoleOf DEF WorkInv, LaunchCreate, LaunchRolledBack
<1>2. /\ UNCHANGED project /\ Changed
      /\ session[s] \in Entry /\ run[s] \in Entry
  BY <1>1 DEF LaunchCreate, LaunchRolledBack, Shapes
<1>3. challenges' \in Seq(Offer) /\ Offers' BY <1>1, <1>2, OffersChanged DEF Shapes, project
<1>4. Later /\ \A link \in Target : Stands(link) => Stands(link)'
  BY <1>2 DEF Later, Stands, project
<1>5. CASE LaunchCreate(t, s)
  <2> DEFINE entry == [state |-> "running", link |-> job[t].target,
                       rev |-> IF job[t].agent THEN 1 ELSE 0]
  <2>1. /\ at[t] = "locked" /\ at'[t] = "idle" /\ holder = t /\ holder' = Nobody
        /\ \A u \in Command \ {t} : at'[u] = at[u] /\ job'[u] = job[u]
        /\ DOMAIN at' = Command /\ DOMAIN job' = Command
        /\ session[s].state = "none"
        /\ session' = [session EXCEPT ![s] = entry]
        /\ run' = IF job[t].agent THEN [run EXCEPT ![s] = entry] ELSE run
    BY <1>1, <1>5 DEF LaunchCreate, Launched, Release, Finish, Work, Shapes
  <2>2. /\ job[t].target \in Target /\ Stands(job[t].target) /\ job[t].agent \in BOOLEAN
    BY <1>1, <2>1 DEF LaunchPace, LaunchJobs
  <2>3. entry \in Entry BY <2>2 DEF Entry, State
  <2>4. entry.state = "running" /\ entry.link = job[t].target /\ (job[t].agent => entry.rev = 1)
    OBVIOUS
  <2> HIDE DEF entry
  <2>5. Shapes'
    BY <1>1, <1>2, <1>3, <2>1, <2>3, CommandAssumption DEF Shapes, project
  <2>6. Pairs'
    <3>1. \A u \in Linker : at[u] = "terminal" => at'[u] = "terminal" /\ job'[u] = job[u]
      BY <1>1, <2>1 DEF Command
    <3>2. run[s].state = "none" BY <1>1, <2>1 DEF Pairs
    <3>3. ASSUME NEW r \in Session, r # s PROVE session'[r] = session[r] /\ run'[r] = run[r]
      BY <1>1, <2>1, <3>3 DEF Shapes
    <3>4. /\ session'[s] = entry
          /\ run'[s] = IF job[t].agent THEN entry ELSE run[s]
      BY <1>1, <2>1 DEF Shapes
    <3>5. QED BY <1>1, <2>4, <3>1, <3>2, <3>3, <3>4 DEF Pairs, Agrees
  <2>7. RunsNeverDangle'
    <3>1. \A r \in Session : run'[r] = run[r] \/ run'[r] = entry BY <1>1, <2>1 DEF Shapes
    <3>2. QED BY <1>1, <1>2, <2>2, <2>4, <3>1 DEF RunsNeverDangle, Stands, project
  <2>8. LaunchPace(t)' BY <2>1 DEF LaunchPace
  <2>9. at'[t] \notin Held /\ at[t] # "idle" BY <2>1 DEF Held
  <2>10. QED BY <1>1, <1>3, <1>4, <2>1, <2>5, <2>6, <2>7, <2>8, <2>9, ThreadStep
<1>6. CASE LaunchRolledBack(t, s)
  <2>1. /\ at[t] = "idle" /\ holder = Nobody /\ UNCHANGED <<holder, local>>
        /\ session' = [session EXCEPT ![s].state = "ended"]
        /\ run' = [run EXCEPT ![s].state = "none"]
    BY <1>6 DEF LaunchRolledBack
  <2>2. /\ session'[s] = [session[s] EXCEPT !.state = "ended"]
        /\ run'[s] = [run[s] EXCEPT !.state = "none"]
        /\ \A r \in Session : r # s => session'[r] = session[r] /\ run'[r] = run[r]
    BY <1>1, <2>1 DEF Shapes
  <2>3. session'[s] \in Entry /\ run'[s] \in Entry /\ run'[s].state = "none"
        /\ session'[s].state = "ended"
    BY <1>2, <2>2 DEF Entry, State
  <2>4. Shapes'
    BY <1>1, <1>2, <1>3, <2>1, <2>2, <2>3 DEF Shapes, project, local
  <2>5. Pairs' BY <1>1, <2>1, <2>2, <2>3 DEF Pairs, Agrees, local
  <2>6. RunsNeverDangle' BY <1>1, <1>2, <2>2, <2>3 DEF RunsNeverDangle, project
  <2>7. LaunchPace(t)' BY <2>1 DEF LaunchPace, local
  <2>8. /\ at'[t] = "idle" /\ \A u \in Command : at'[u] = at[u] /\ job'[u] = job[u]
    BY <2>1 DEF local
  <2>9. at'[t] \notin Held /\ at[t] \notin Held BY <2>1, <2>8 DEF Held
  <2>10. QED BY <1>1, <1>3, <1>4, <2>1, <2>4, <2>5, <2>6, <2>7, <2>8, <2>9, ThreadStep
<1>7. QED BY <1>5, <1>6

\* The halves of a link change one after the other.
LEMMA LinkCommits ==
  ASSUME WorkInv, NEW t \in Command, LinkTerminal(t) \/ LinkRun(t) \/ LinkRunFails(t)
  PROVE  WorkInv'
<1> DEFINE j == job[t]
<1>1. at[t] \in {"prepared", "terminal"} BY DEF LinkTerminal, LinkRun, LinkRunFails, Step
<1>2. /\ Shapes /\ Offers /\ Pairs /\ RunsNeverDangle /\ t \in Linker /\ LinkPace(t) /\ Halves(t)
      /\ t \notin Launcher /\ t \notin Chooser /\ t # Nobody /\ holder = t
  BY <1>1, RoleOf DEF WorkInv, LaunchPace, ChoosePace, Held
<1>3. /\ j \in LinkJobs /\ j.next.rev # 0
      /\ j.previous \in Entry /\ j.next \in Entry /\ j.session \in Session
  BY <1>1, <1>2 DEF LinkPace, LinkJobs
<1>4. PICK s \in Session : s = j.session /\ session[s] \in Entry /\ run[s] \in Entry
  BY <1>2, <1>3 DEF Shapes
<1>5. \A u \in Linker : u # t => at[u] # "terminal"
  BY <1>2 DEF WorkInv, OneHolds, Held, Command
<1>6. /\ UNCHANGED project
      /\ \A u \in Command \ {t} : at'[u] = at[u] /\ job'[u] = job[u]
      /\ DOMAIN at' = Command /\ DOMAIN job' = Command
  BY <1>2 DEF LinkTerminal, LinkRun, LinkRunFails, Step, Release, Finish, Work, Shapes
<1>7. challenges' \in Seq(Offer) /\ Offers'
  BY <1>2, <1>6, OffersChanged
     DEF LinkTerminal, LinkRun, LinkRunFails, Shapes, project, Offers, Earlier
<1>8. Later /\ \A link \in Target : Stands(link) => Stands(link)'
  BY <1>6 DEF Later, Stands, project
<1>9. CASE LinkTerminal(t)
  <2>1. /\ at[t] = "prepared" /\ at'[t] = "terminal" /\ holder' = t /\ job' = job /\ run' = run
        /\ session[s] = j.previous /\ session' = [session EXCEPT ![s] = j.next]
    BY <1>2, <1>4, <1>9 DEF LinkTerminal, Step, Shapes
  <2>2. /\ session'[s] = j.next /\ \A r \in Session : r # s => session'[r] = session[r]
    BY <1>2, <1>3, <1>4, <2>1 DEF Shapes
  <2>3. Shapes' BY <1>2, <1>3, <1>6, <1>7, <2>1 DEF Shapes, project
  <2>4. Pairs'
    <3>1. j.next.state = "running" BY <1>1, <1>2 DEF LinkPace
    <3>2. \A u \in Linker : at[u] # "terminal" BY <1>5, <2>1
    <3>3. t \in Linker /\ at'[t] = "terminal" /\ job'[t].session = s BY <1>2, <1>4, <2>1
    <3>4. ASSUME NEW r \in Session, r # s, run[r].state # "none" PROVE Agrees(r)'
      BY <1>2, <2>1, <2>2, <3>2, <3>4 DEF Pairs, Agrees
    <3>5. QED BY <1>2, <2>1, <2>2, <3>1, <3>3, <3>4 DEF Pairs
  <2>5. RunsNeverDangle' BY <1>2, <1>6, <2>1 DEF RunsNeverDangle, project
  <2>6. LinkPace(t)' BY <1>1, <1>2, <2>1 DEF LinkPace, LinkJobs
  <2>7. Halves(t)'
    BY <1>1, <1>2, <1>3, <1>4, <1>6, <2>1, <2>2 DEF Halves, Stands, project
  <2>8. at'[t] \in Held BY <2>1 DEF Held
  <2>9. QED BY <1>2, <1>6, <1>7, <1>8, <2>1, <2>3, <2>4, <2>5, <2>6, <2>7, <2>8, ThreadStep
<1>10. CASE LinkRun(t) \/ LinkRunFails(t)
  <2>1. /\ at[t] = "terminal" /\ at'[t] = "idle" /\ holder' = Nobody
    BY <1>2, <1>10 DEF LinkRun, LinkRunFails, Release, Finish, Shapes
  <2>2. /\ session[s].link = j.next.link /\ session[s].rev = j.next.rev
        /\ j.paired <=> run[s].state # "none"
        /\ j.paired => run[s].link = j.previous.link /\ run[s].rev = j.previous.rev
                        /\ Stands(j.next.link)
    BY <1>2, <1>4, <2>1 DEF Halves
  <2>3. LinkPace(t)' /\ Halves(t)' BY <2>1 DEF LinkPace, Halves
  <2>4. at'[t] \notin Held BY <2>1 DEF Held
  <2>5. CASE LinkRun(t)
    <3>1. /\ session' = session /\ run'[s].state = run[s].state /\ run'[s] \in Entry
          /\ run[s].state # "none" => run'[s].link = j.next.link /\ run'[s].rev = j.next.rev
          /\ \A r \in Session : r # s => run'[r] = run[r]
      <4>1. session' = session BY <2>5 DEF LinkRun
      <4>2. CASE j.paired
        <5>1. run' = [run EXCEPT ![s].link = j.next.link, ![s].rev = j.next.rev]
          BY <1>4, <2>5, <4>2 DEF LinkRun
        <5>2. run'[s] = [run[s] EXCEPT !.link = j.next.link, !.rev = j.next.rev]
          BY <1>2, <1>3, <1>4, <5>1 DEF Shapes
        <5>3. QED BY <1>2, <1>3, <1>4, <4>1, <5>1, <5>2 DEF Shapes, Entry
      <4>3. CASE ~j.paired
        <5>1. run' = run BY <2>5, <4>3 DEF LinkRun
        <5>2. QED BY <1>4, <2>2, <4>1, <4>3, <5>1
      <4>4. QED BY <4>2, <4>3
    <3>2. Shapes'
      <4>1. run' \in [Session -> Entry]
        <5>1. run' = [r \in Session |-> run'[r]]
          BY <1>2, <2>5 DEF LinkRun, Shapes
        <5>2. QED BY <1>2, <3>1, <5>1 DEF Shapes
      <4>2. QED BY <1>2, <1>6, <1>7, <2>1, <3>1, <4>1 DEF Shapes, project
    <3>3. Pairs'
      <4>1. ASSUME NEW r \in Session, r # s, run[r].state # "none" PROVE Agrees(r)'
        BY <1>2, <1>4, <1>5, <3>1, <4>1 DEF Pairs, Agrees
      <4>2. QED BY <1>2, <1>3, <2>2, <3>1, <4>1 DEF Pairs, Agrees
    <3>4. RunsNeverDangle'
      BY <1>2, <1>6, <2>2, <3>1 DEF RunsNeverDangle, Stands, project
    <3>5. QED BY <1>2, <1>6, <1>7, <1>8, <2>1, <2>3, <2>4, <3>2, <3>3, <3>4, ThreadStep
  <2>6. CASE LinkRunFails(t)
    <3>1. /\ run' = run /\ j.paired
          /\ session' = [session EXCEPT ![s].link = j.previous.link, ![s].rev = j.previous.rev]
      BY <1>4, <2>6 DEF LinkRunFails, Undone
    <3>2. /\ session'[s] = [session[s] EXCEPT !.link = j.previous.link, !.rev = j.previous.rev]
          /\ \A r \in Session : r # s => session'[r] = session[r]
      BY <1>2, <1>3, <1>4, <3>1 DEF Shapes
    <3>3. /\ session'[s] \in Entry /\ session'[s].state = session[s].state
          /\ session'[s].link = j.previous.link /\ session'[s].rev = j.previous.rev
      BY <1>3, <1>4, <3>2 DEF Entry
    <3>4. Shapes'
      BY <1>2, <1>6, <1>7, <2>1, <3>1, <3>2, <3>3 DEF Shapes, project
    <3>5. Pairs'
      <4> run' = run BY <3>1
      <4>1. ASSUME NEW r \in Session, r # s, run[r].state # "none" PROVE Agrees(r)'
        BY <1>2, <1>4, <1>5, <3>2, <4>1 DEF Pairs, Agrees
      <4>2. Agrees(s)' BY <2>2, <3>1, <3>3 DEF Agrees
      <4>3. \A r \in Session : session'[r].state = session[r].state
        BY <1>4, <3>2, <3>3
      <4>4. \A r \in Session : run[r].state # "none" => Agrees(r)'
        BY <4>1, <4>2
      <4>5. QED BY <1>2, <4>3, <4>4 DEF Pairs
    <3>6. RunsNeverDangle' BY <1>2, <1>6, <3>1 DEF RunsNeverDangle, project
    <3>7. QED BY <1>2, <1>6, <1>7, <1>8, <2>1, <2>3, <2>4, <3>4, <3>5, <3>6, ThreadStep
  <2>7. QED BY <1>10, <2>5, <2>6
<1>11. QED BY <1>9, <1>10

\* A challenge stays of a task as it was, whatever becomes of the task.
LEMMA OffersLater ==
  ASSUME Shapes, task' \in Task, Later, Offers, challenges' = challenges
  PROVE  Offers'
<1>1. ASSUME NEW i \in 1..Len(challenges) PROVE Earlier(challenges[i].from)'
  <2>1. challenges[i] \in Offer BY DEF Shapes
  <2>2. challenges[i].from \in Task /\ Earlier(challenges[i].from) BY <2>1 DEF Offer, Offers
  <2>3. QED BY <2>2 DEF Shapes, Later, Earlier, Task
<1>2. QED BY <1>1 DEF Offers, Earlier

\* A step that changes no half and ends no link keeps the pairs.
LEMMA PairsKept ==
  ASSUME Pairs, UNCHANGED <<session, run>>,
         \A u \in Linker : at[u] = "terminal" => at'[u] = "terminal" /\ job'[u] = job[u]
  PROVE  Pairs'
BY DEF Pairs, Agrees

\* A write to the task is told by its time.
LEMMA Written ==
  ASSUME Shapes, NEW p \in Plan \cup {0}, NEW to \in Status,
         task' = [plan |-> p, status |-> to, edit |-> task.edit + 1]
  PROVE  task' \in Task /\ task'.edit > task.edit
<1>1. task.edit \in Nat BY DEF Shapes, Task
<1>2. task.edit + 1 \in Nat /\ task.edit + 1 > task.edit BY <1>1
<1>3. QED BY <1>2 DEF Task

\* The task is moved, on the board or to another plan.
LEMMA TaskSteps ==
  ASSUME WorkInv, NEW t \in Command, MoveCommit(t) \/ \E q \in Plan : IssueMove(t, q)
  PROVE  WorkInv'
<1>1. at[t] = "sessions" BY DEF MoveCommit, IssueMove, Moving, Releasing
<1>2. /\ Shapes /\ Offers /\ Quiet /\ t \in Chooser /\ ChoosePace(t) /\ Seen(t)
      /\ t \notin Launcher /\ t \notin Linker /\ t # Nobody /\ holder = t
  BY <1>1, ChooserRole DEF Held
<1>3. /\ at'[t] = "idle" /\ holder' = Nobody /\ job'[t] = NoJob
      /\ \A u \in Command \ {t} : at'[u] = at[u] /\ job'[u] = job[u]
      /\ DOMAIN at' = Command /\ DOMAIN job' = Command
      /\ UNCHANGED <<plan, others, session, run, challenges>>
  BY <1>2 DEF MoveCommit, IssueMove, Release, Finish, Work, Shapes
<1>4. task' \in Task /\ task'.edit > task.edit
  <2>1. task \in Task BY <1>2 DEF Shapes
  <2>2. CASE MoveCommit(t)
    <3>1. task' = [task EXCEPT !.status = job[t].to, !.edit = @ + 1] /\ Moving(t)
      BY <2>2 DEF MoveCommit
    <3>2. job[t] \in MoveJobs BY <1>1, <1>2, <3>1 DEF Moving, ChoosePace, DeleteJobs
    <3>3. job[t].to \in Status BY <3>2 DEF MoveJobs
    <3>4. /\ task.plan \in Plan \cup {0}
          /\ task' = [plan |-> task.plan, status |-> job[t].to, edit |-> task.edit + 1]
      BY <2>1, <3>1 DEF Task
    <3>5. QED BY <1>2, <3>3, <3>4, Written
  <2>3. CASE \E q \in Plan : IssueMove(t, q)
    <3>1. PICK q \in Plan : task' = [task EXCEPT !.plan = q, !.edit = @ + 1]
      BY <2>3 DEF IssueMove
    <3>2. /\ task.status \in Status
          /\ task' = [plan |-> q, status |-> task.status, edit |-> task.edit + 1]
      BY <2>1, <3>1 DEF Task
    <3>3. QED BY <1>2, <3>2, Written
  <2>4. QED BY <2>2, <2>3
<1>5. Later BY <1>4 DEF Later
<1>6. Shapes' BY <1>2, <1>3, <1>4 DEF Shapes
<1>7. Offers' BY <1>2, <1>3, <1>4, <1>5, OffersLater
<1>8. Pairs'
  <2>1. \A u \in Linker : at[u] = "terminal" => at'[u] = "terminal" /\ job'[u] = job[u]
    BY <1>2, <1>3 DEF Command
  <2>2. QED BY <1>3, <2>1, PairsKept DEF WorkInv
<1>9. RunsNeverDangle' /\ \A link \in Target : Stands(link) => Stands(link)'
  BY <1>3 DEF WorkInv, RunsNeverDangle, Stands
<1>10. ChoosePace(t)' /\ Seen(t)' BY <1>3 DEF ChoosePace, Seen, NoJob, DeleteJobs
<1>11. at'[t] \notin Held BY <1>3 DEF Held
<1>12. QED BY <1>2, <1>3, <1>5, <1>6, <1>7, <1>8, <1>9, <1>10, <1>11, ThreadStep

\* What becomes of the task when a plan goes.
LEMMA PlanGoes ==
  ASSUME Shapes, NEW p \in Plan, NEW how \in {"removed", "lost"}, WithoutPlan(p, how)
  PROVE  /\ plan' \in [Plan -> {"here", "removed", "lost"}] /\ others' \in [Plan -> Nat]
         /\ task' \in Task /\ Later /\ plan'[p] = how
         /\ \A q \in Plan : q # p => plan'[q] = plan[q]
<1>1. task \in Task BY DEF Shapes
<1>2. task' = task \/ task' = [task EXCEPT !.plan = 0] BY DEF WithoutPlan
<1>3. task' \in Task /\ Later BY <1>1, <1>2 DEF Task, Later
<1>4. QED BY <1>3 DEF WithoutPlan, Shapes

\* The plan goes: no run is linked to it, no launch is admitted, no link is prepared.
LEMMA DeleteCommits ==
  ASSUME WorkInv, NEW t \in Command, DeleteCommit(t)
  PROVE  WorkInv'
<1>1. at[t] \in {"sessions", "recounted"} BY DEF DeleteCommit, Releasing
<1>2. /\ Shapes /\ Offers /\ Quiet /\ t \in Chooser /\ ChoosePace(t) /\ Seen(t)
      /\ t \notin Launcher /\ t \notin Linker /\ t # Nobody /\ holder = t
  BY <1>1, ChooserRole DEF Held
<1>3. /\ at'[t] = "idle" /\ holder' = Nobody /\ job'[t] = NoJob
      /\ \A u \in Command \ {t} : at'[u] = at[u] /\ job'[u] = job[u]
      /\ DOMAIN at' = Command /\ DOMAIN job' = Command
      /\ UNCHANGED <<session, run, challenges>> /\ WithoutPlan(job[t].plan, "removed")
  BY <1>2 DEF DeleteCommit, Release, Finish, Work, Shapes
<1>4. /\ job[t].plan \in Plan /\ Runs("plan", job[t].plan) = {}
  <2>1. CASE at[t] = "recounted" BY <1>2, <2>1 DEF ChoosePace, Seen, DeleteJobs
  <2>2. CASE at[t] = "sessions"
    <3>1. job[t].kind = "moveout" /\ Resources(t) = {} BY <2>2 DEF DeleteCommit
    <3>2. job[t] \in DeleteJobs /\ job[t].scope = "plan"
      BY <1>2, <2>2, <3>1 DEF ChoosePace, MoveJobs
    <3>3. QED BY <3>1, <3>2 DEF Resources, DeleteJobs
  <2>3. QED BY <1>1, <2>1, <2>2
<1>5. PICK p \in Plan : p = job[t].plan BY <1>4
<1>6. /\ plan' \in [Plan -> {"here", "removed", "lost"}] /\ others' \in [Plan -> Nat]
      /\ task' \in Task /\ Later /\ \A q \in Plan : q # p => plan'[q] = plan[q]
  BY <1>2, <1>3, <1>5, PlanGoes
<1>7. Shapes' BY <1>2, <1>3, <1>6 DEF Shapes
<1>8. Offers' BY <1>2, <1>3, <1>6, OffersLater
<1>9. Pairs'
  <2>1. \A u \in Linker : at[u] = "terminal" => at'[u] = "terminal" /\ job'[u] = job[u]
    BY <1>2, <1>3 DEF Command
  <2>2. QED BY <1>3, <2>1, PairsKept DEF WorkInv
<1>10. RunsNeverDangle'
  <2> SUFFICES ASSUME NEW s \in Session, run[s].state = "running", run[s].link # NoTarget
               PROVE  plan'[run[s].link.plan] # "removed"
    BY <1>3 DEF RunsNeverDangle
  <2>1. run[s] \in Entry /\ run[s].rev # 0 /\ plan[run[s].link.plan] # "removed"
    BY <1>2 DEF WorkInv, Shapes, Pairs, RunsNeverDangle
  <2>2. run[s].link.plan \in Plan BY <2>1 DEF Entry, Target
  <2>3. run[s].link.plan # p
    <3>1. \A r \in Session : ~(run[r].state = "running" /\ run[r].rev # 0 /\ run[r].link.plan = p)
      BY <1>4, <1>5 DEF Runs, Linked, Covers
    <3>2. QED BY <2>1, <3>1
  <2>4. QED BY <1>6, <2>1, <2>2, <2>3
<1>11. \A u \in Launcher : at[u] = "idle" BY <1>1, <1>2 DEF Quiet
<1>12. ChoosePace(t)' /\ Seen(t)' BY <1>3 DEF ChoosePace, Seen, NoJob, DeleteJobs
<1>13. at'[t] \notin Held BY <1>3 DEF Held
<1>14. QED BY <1>2, <1>3, <1>6, <1>7, <1>8, <1>9, <1>10, <1>11, <1>12, <1>13, ThreadStep

\* What challenges and other processes do.
LEMMA OtherSteps ==
  ASSUME WorkInv, ChallengeExpires \/ OthersWrite
  PROVE  WorkInv'
<1>1. /\ Shapes /\ Offers /\ Pairs /\ RunsNeverDangle /\ UNCHANGED <<session, run, holder, local>>
  BY DEF WorkInv, ChallengeExpires, OthersWrite
<1>2. Pairs' BY <1>1 DEF Pairs, Agrees, local
<1>3. /\ plan' \in [Plan -> {"here", "removed", "lost"}] /\ others' \in [Plan -> Nat]
      /\ task' \in Task /\ Later /\ \A q \in Plan : plan'[q] = "removed" => plan[q] = "removed"
  <2>1. CASE UNCHANGED project BY <1>1, <2>1 DEF Shapes, Later, project
  <2>2. CASE \E to \in Status : task' = [task EXCEPT !.status = to, !.edit = @ + 1]
                               /\ UNCHANGED <<plan, others>>
    <3>1. PICK to \in Status : task' = [task EXCEPT !.status = to, !.edit = @ + 1] BY <2>2
    <3>2. /\ task.plan \in Plan \cup {0}
          /\ task' = [plan |-> task.plan, status |-> to, edit |-> task.edit + 1]
      BY <1>1, <3>1 DEF Shapes, Task
    <3>3. task' \in Task /\ task'.edit > task.edit BY <1>1, <3>2, Written
    <3>4. QED BY <1>1, <2>2, <3>3 DEF Shapes, Later
  <2>3. CASE \E p \in Plan : Exists(p) /\ WithoutPlan(p, "lost")
    BY <1>1, <2>3, PlanGoes
  <2>4. CASE \E p \in Plan : others' = [others EXCEPT ![p] = @ + 1] /\ UNCHANGED <<plan, task>>
    <3>1. others' \in [Plan -> Nat] BY <1>1, <2>4 DEF Shapes
    <3>2. QED BY <1>1, <2>4, <3>1 DEF Shapes, Later
  <2>5. QED BY <2>1, <2>2, <2>3, <2>4 DEF ChallengeExpires, OthersWrite
<1>4. challenges' \in Seq(Offer) /\ Offers'
  <2>1. CASE ChallengeExpires
    <3>1. challenges' = Tail(challenges) /\ task' = task /\ challenges # <<>>
      BY <2>1 DEF ChallengeExpires, project
    <3>2. QED BY <1>1, <3>1, OffersTail DEF Shapes, Offers, Earlier
  <2>2. CASE OthersWrite
    <3>1. challenges' = challenges BY <2>2 DEF OthersWrite
    <3>2. QED BY <1>1, <1>3, <3>1, OffersLater DEF Shapes
  <2>3. QED BY <2>1, <2>2
<1>5. Shapes' BY <1>1, <1>3, <1>4 DEF Shapes, local
<1>6. \A link \in Target : Stands(link) => Stands(link)' BY <1>3 DEF Stands, Target
<1>7. RunsNeverDangle'
  <2>1. \A s \in Session : run[s].link \in Target BY <1>1 DEF Shapes, Entry
  <2>2. QED BY <1>1, <1>6, <2>1 DEF RunsNeverDangle, Stands
<1>8. \A u \in Command : at'[u] = at[u] /\ job'[u] = job[u] BY <1>1 DEF local
<1>9. /\ Nobody \notin Command /\ Nobody \notin Launcher /\ Nobody \notin Linker
      /\ Nobody \notin Chooser
  BY CommandAssumption DEF Command, Chooser
<1>10. QED BY <1>1, <1>2, <1>3, <1>4, <1>5, <1>6, <1>7, <1>8, <1>9, ThreadStep

\* A resource that comes or goes is told to the moves under way, and changes no more
\* of what a thread has read.
LEMMA JobsKept ==
  ASSUME Shapes, ChangedWhile, NEW t \in Command
  PROVE  /\ DOMAIN job' = Command
         /\ job[t] \in LaunchJobs \cup LinkJobs \cup DeleteJobs => job'[t] = job[t]
         /\ job[t] \in MoveJobs =>
              /\ job'[t] \in MoveJobs /\ job'[t].kind = job[t].kind /\ job'[t].from = job[t].from
              /\ job'[t].plan = job[t].plan /\ job'[t].scope = job[t].scope
              /\ job'[t].terminals = job[t].terminals
<1>1. /\ DOMAIN job' = Command
      /\ job'[t] = IF "fresh" \in DOMAIN job[t] THEN [job[t] EXCEPT !.fresh = FALSE] ELSE job[t]
  BY DEF ChangedWhile
<1>2. CASE job[t] \in LaunchJobs \cup LinkJobs \cup DeleteJobs
  <2>1. "fresh" \notin DOMAIN job[t] BY <1>2 DEF LaunchJobs, LinkJobs, DeleteJobs
  <2>2. job[t] \notin MoveJobs BY <2>1 DEF MoveJobs
  <2>3. QED BY <1>1, <2>1, <2>2
<1>3. CASE job[t] \in MoveJobs
  <2>1. "fresh" \in DOMAIN job[t] BY <1>3 DEF MoveJobs
  <2>2. job[t] \notin LaunchJobs \cup LinkJobs \cup DeleteJobs
    BY <1>3 DEF MoveJobs, LaunchJobs, LinkJobs, DeleteJobs
  <2>3. job'[t] = [job[t] EXCEPT !.fresh = FALSE] BY <1>1, <2>1
  <2>4. QED BY <1>1, <1>3, <2>2, <2>3 DEF MoveJobs
<1>4. QED BY <1>1, <1>2, <1>3

\* A terminal ends, a run exits.
LEMMA EndSteps ==
  ASSUME WorkInv, NEW s \in Session, SessionEnds(s) \/ RunExits(s)
  PROVE  WorkInv'
<1> DEFINE Fades(of, after) ==
      \A r \in Session :
        /\ after[r].link = of[r].link /\ after[r].rev = of[r].rev
        /\ after[r].state = "none" <=> of[r].state = "none"
        /\ after[r].state = "running" => of[r].state = "running"
<1>1. /\ Shapes /\ Offers /\ UNCHANGED <<project, holder, at>> /\ ChangedWhile /\ Changed
  BY DEF WorkInv, SessionEnds, RunExits, ChangedWhile
<1>2. /\ session' \in [Session -> Entry] /\ run' \in [Session -> Entry]
      /\ Fades(session, session') /\ Fades(run, run')
  <2>1. CASE SessionEnds(s)
    <3>1. session[s].state = "running" /\ session' = [session EXCEPT ![s].state = "ended"]
          /\ run' = run
      BY <2>1 DEF SessionEnds
    <3>2. session[s] \in Entry BY <1>1 DEF Shapes
    <3>3. session'[s] = [session[s] EXCEPT !.state = "ended"]
          /\ \A r \in Session : r # s => session'[r] = session[r]
      BY <1>1, <3>1 DEF Shapes
    <3>4. /\ session'[s] \in Entry /\ session'[s].state = "ended"
          /\ session'[s].link = session[s].link /\ session'[s].rev = session[s].rev
      BY <3>2, <3>3 DEF Entry, State
    <3>5. session' \in [Session -> Entry] BY <1>1, <3>1, <3>3, <3>4 DEF Shapes
    <3>6. Fades(session, session') BY <3>1, <3>3, <3>4
    <3>7. QED BY <1>1, <3>1, <3>5, <3>6 DEF Shapes
  <2>2. CASE RunExits(s)
    <3>1. run[s].state = "running" /\ run' = [run EXCEPT ![s].state = "exited"]
          /\ session' = session
      BY <2>2 DEF RunExits
    <3>2. run[s] \in Entry BY <1>1 DEF Shapes
    <3>3. run'[s] = [run[s] EXCEPT !.state = "exited"]
          /\ \A r \in Session : r # s => run'[r] = run[r]
      BY <1>1, <3>1 DEF Shapes
    <3>4. /\ run'[s] \in Entry /\ run'[s].state = "exited"
          /\ run'[s].link = run[s].link /\ run'[s].rev = run[s].rev
      BY <3>2, <3>3 DEF Entry, State
    <3>5. run' \in [Session -> Entry] BY <1>1, <3>1, <3>3, <3>4 DEF Shapes
    <3>6. Fades(run, run') BY <3>1, <3>3, <3>4
    <3>7. QED BY <1>1, <3>1, <3>5, <3>6 DEF Shapes
  <2>3. QED BY <2>1, <2>2
<1>3. /\ DOMAIN job' = Command
      /\ \A t \in Command :
           /\ job[t] \in LaunchJobs \cup LinkJobs \cup DeleteJobs => job'[t] = job[t]
           /\ job[t] \in MoveJobs =>
                /\ job'[t] \in MoveJobs /\ job'[t].kind = job[t].kind
                /\ job'[t].from = job[t].from /\ job'[t].plan = job[t].plan
                /\ job'[t].scope = job[t].scope /\ job'[t].terminals = job[t].terminals
  BY <1>1, JobsKept DEF ChangedWhile
<1>4. challenges' \in Seq(Offer) /\ Offers' BY <1>1, OffersChanged DEF Shapes, project
<1>5. Shapes' BY <1>1, <1>2, <1>3, <1>4 DEF Shapes, project
<1>6. /\ Launcher \subseteq Command /\ Linker \subseteq Command /\ Chooser \subseteq Command
  BY DEF Command, Chooser
<1>7. OneHolds' /\ Quiet' BY <1>1 DEF WorkInv, OneHolds, Quiet
<1>8. ASSUME NEW t \in Launcher PROVE LaunchPace(t)'
  <2>1. LaunchPace(t) BY DEF WorkInv, Paces
  <2>2. CASE at[t] = "idle" BY <1>1, <2>2 DEF LaunchPace
  <2>3. CASE at[t] # "idle"
    <3>1. job'[t] = job[t] BY <1>3, <1>6, <2>1, <2>3 DEF LaunchPace
    <3>2. QED BY <1>1, <2>1, <3>1 DEF LaunchPace, Stands, project
  <2>4. QED BY <2>2, <2>3
<1>9. ASSUME NEW t \in Linker PROVE LinkPace(t)' /\ Halves(t)'
  <2>1. LinkPace(t) /\ Halves(t) BY DEF WorkInv, Paces
  <2>2. CASE at[t] = "idle" BY <1>1, <2>2 DEF LinkPace, Halves
  <2>3. CASE at[t] # "idle"
    <3>1. job'[t] = job[t] /\ job[t] \in LinkJobs BY <1>3, <1>6, <2>1, <2>3 DEF LinkPace
    <3>2. LinkPace(t)' BY <1>1, <2>1, <3>1 DEF LinkPace
    <3>3. job[t].session \in Session BY <3>1 DEF LinkJobs
    <3>4. Halves(t)' BY <1>1, <1>2, <2>1, <3>1, <3>3 DEF Halves, Stands, project
    <3>5. QED BY <3>2, <3>4
  <2>4. QED BY <2>2, <2>3
<1>10. ASSUME NEW t \in Chooser PROVE ChoosePace(t)' /\ Seen(t)'
  <2>1. ChoosePace(t) /\ Seen(t) /\ t \in Command BY <1>6 DEF WorkInv, Paces
  <2>2. CASE at[t] \in {"idle", "fenced"} BY <1>1, <2>2 DEF ChoosePace, Seen
  <2>3. CASE at[t] \notin {"idle", "fenced"}
    <3>1. job[t] \in MoveJobs \cup DeleteJobs BY <2>1, <2>3 DEF ChoosePace
    <3>2. /\ job'[t] \in MoveJobs <=> job[t] \in MoveJobs
          /\ job'[t] \in DeleteJobs <=> job[t] \in DeleteJobs
          /\ job'[t].kind = job[t].kind /\ job'[t].scope = job[t].scope
          /\ job'[t].plan = job[t].plan /\ job'[t].terminals = job[t].terminals
          /\ job[t] \in MoveJobs => job'[t].from = job[t].from
      <4>1. CASE job[t] \in DeleteJobs BY <1>3, <2>1, <4>1
      <4>2. CASE job[t] \in MoveJobs
        <5>1. job[t] \notin DeleteJobs /\ (job'[t] \in MoveJobs => job'[t] \notin DeleteJobs)
          BY <4>2 DEF MoveJobs, DeleteJobs
        <5>2. QED BY <1>3, <2>1, <4>2, <5>1
      <4>3. QED BY <3>1, <4>1, <4>2
    <3>3. ChoosePace(t)' BY <1>1, <2>1, <3>2 DEF ChoosePace
    <3>4. /\ Terminals(job[t].scope, job[t].plan)' \subseteq Terminals(job[t].scope, job[t].plan)
          /\ Runs("plan", job[t].plan)' \subseteq Runs("plan", job[t].plan)
      BY <1>2, <3>2 DEF Terminals, Runs, Linked, Covers
    <3>5. Seen(t)' BY <1>1, <2>1, <3>2, <3>4 DEF Seen, Earlier, project
    <3>6. QED BY <3>3, <3>5
  <2>4. QED BY <2>2, <2>3
<1>11. Pairs'
  <2> SUFFICES ASSUME NEW r \in Session
               PROVE  /\ session'[r].state = "none" => run'[r].state = "none"
                      /\ run'[r].state # "none" =>
                           /\ run'[r].rev # 0
                           /\ Agrees(r)' \/ \E t \in Linker : at'[t] = "terminal" /\ job'[t].session = r
    BY DEF Pairs
  <2>1. /\ session[r].state = "none" => run[r].state = "none"
        /\ run[r].state # "none" =>
             /\ run[r].rev # 0
             /\ Agrees(r) \/ \E t \in Linker : at[t] = "terminal" /\ job[t].session = r
    BY DEF WorkInv, Pairs
  <2>2. \A t \in Linker : at[t] = "terminal" => job'[t] = job[t]
    BY <1>3, <1>6 DEF WorkInv, Paces, LinkPace
  <2>3. QED BY <1>1, <1>2, <2>1, <2>2 DEF Agrees
<1>12. RunsNeverDangle' BY <1>1, <1>2 DEF WorkInv, RunsNeverDangle, project
<1>13. QED BY <1>4, <1>5, <1>7, <1>8, <1>9, <1>10, <1>11, <1>12 DEF WorkInv, Paces

\* The invariant holds at first, is kept by every step, and says what is wanted.
LEMMA InitWork == RInit => WorkInv
<1> SUFFICES ASSUME RInit PROVE WorkInv OBVIOUS
<1>1. NoTarget \in Target /\ 0 \in Nat /\ 1 \in Plan BY DEF Target, Plan
<1>2. [state |-> "none", link |-> NoTarget, rev |-> 0] \in Entry BY <1>1 DEF Entry, State
<1>3. [plan |-> 1, status |-> "todo", edit |-> 0] \in Task BY <1>1 DEF Task, Status
<1>4. challenges \in Seq(Offer) /\ Len(challenges) = 0 BY DEF RInit
<1>5. /\ \A s \in Session : session[s].state = "none" /\ run[s].state = "none"
      /\ \A t \in Command : at[t] = "idle" /\ holder # t
  BY CommandAssumption DEF RInit
<1>6. Shapes BY <1>2, <1>3, <1>4 DEF RInit, Shapes
<1>7. OneHolds BY <1>5 DEF OneHolds, Held
<1>8. /\ Launcher \subseteq Command /\ Linker \subseteq Command /\ Chooser \subseteq Command
  BY DEF Command, Chooser
<1>9. Paces /\ Quiet
  BY <1>5, <1>8 DEF Paces, LaunchPace, LinkPace, ChoosePace, Quiet
<1>10. (\A t \in Linker : Halves(t)) /\ (\A t \in Chooser : Seen(t))
  BY <1>5, <1>8 DEF Halves, Seen
<1>11. Pairs /\ Offers /\ RunsNeverDangle
  BY <1>4, <1>5 DEF Pairs, Offers, RunsNeverDangle
<1>12. QED BY <1>6, <1>7, <1>9, <1>10, <1>11 DEF WorkInv

LEMMA NextWork == WorkInv /\ [RNext]_rvars => WorkInv'
<1> SUFFICES ASSUME WorkInv, [RNext]_rvars PROVE WorkInv' OBVIOUS
<1>1. CASE ChallengeExpires \/ OthersWrite BY <1>1, OtherSteps
<1>2. CASE \E s \in Session : SessionEnds(s) \/ RunExits(s) BY <1>2, EndSteps
<1>3. ASSUME NEW t \in Command, LaunchNext(t) PROVE WorkInv'
  BY <1>3, LaunchSteps, LaunchEnds DEF LaunchNext
<1>4. ASSUME NEW t \in Command, LinkNext(t) PROVE WorkInv'
  BY <1>4, LinkSteps, LinkCommits DEF LinkNext
<1>5. ASSUME NEW t \in Command, FenceBegin(t) \/ FenceRetry(t) \/ ReadSessions(t) PROVE WorkInv'
  BY <1>5, FenceSteps
<1>6. ASSUME NEW t \in Command, MoveNext(t) PROVE WorkInv'
  BY <1>6, MoveSteps, ConfirmSteps, TaskSteps DEF MoveNext
<1>7. ASSUME NEW t \in Command, DeleteNext(t) PROVE WorkInv'
  BY <1>7, DeleteSteps, DeleteCommits, TaskSteps DEF DeleteNext
<1>8. CASE UNCHANGED rvars
  <2> USE <1>8 DEF rvars, project, local
  <2>1. Shapes' /\ OneHolds' /\ Quiet' /\ RunsNeverDangle'
    BY DEF WorkInv, Shapes, OneHolds, Quiet, RunsNeverDangle
  <2>2. Paces' BY DEF WorkInv, Paces, LaunchPace, LinkPace, ChoosePace, Stands
  <2>3. (\A t \in Linker : Halves(t))' BY DEF WorkInv, Halves, Stands
  <2>4. Pairs' /\ Offers' BY DEF WorkInv, Pairs, Agrees, Offers, Earlier
  <2>5. (\A t \in Chooser : Seen(t))'
    BY DEF WorkInv, Seen, Earlier, Terminals, Runs, Linked, Covers
  <2>6. QED BY <2>1, <2>2, <2>3, <2>4, <2>5 DEF WorkInv
<1>9. QED BY <1>1, <1>2, <1>3, <1>4, <1>5, <1>6, <1>7, <1>8 DEF RNext

LEMMA WorkIsSafe == WorkInv => WorkspaceSafe
<1> SUFFICES ASSUME WorkInv, holder = Nobody PROVE PairAgrees
  BY DEF WorkInv, WorkspaceSafe, PairAgrees
<1>1. \A t \in Linker : at[t] # "terminal"
  BY CommandAssumption DEF WorkInv, OneHolds, Held, Command
<1>2. QED BY <1>1 DEF WorkInv, Pairs, Agrees, PairAgrees

LEMMA AlwaysWork == RSpec => []WorkInv
BY InitWork, NextWork, PTL DEF RSpec

\* No agent runs for a plan that this workspace has deleted or moved away, and a
\* terminal and its run name the same target whenever nobody is changing them,
\* whoever launches, links, moves and deletes at the same time.
THEOREM WorkspaceIsSafe == RSpec => []WorkspaceSafe
<1>1. QED BY AlwaysWork, WorkIsSafe, PTL

\* What moves a task from the step at which a mover has read the resources is the
\* commit of its move.
LEMMA OnlyCommits ==
  ASSUME WorkInv, RNext, NEW t \in Mover, task'.status # task.status,
         at[t] = "sessions", at'[t] = "idle"
  PROVE  MoveCommit(t)
<1>1. /\ Shapes /\ t \in Command BY DEF WorkInv, Command
<1>2. ~UNCHANGED at BY DEF WorkInv
<1>3. ~UNCHANGED task OBVIOUS
<1>4. \A p \in Plan : \A how \in {"removed", "lost"} : ~WithoutPlan(p, how)
  BY <1>1 DEF WithoutPlan, Shapes, Task
<1>5. PICK u \in Command : MoveNext(u) \/ DeleteNext(u)
  BY <1>2, <1>3 DEF RNext, ChallengeExpires, OthersWrite, local, project, SessionEnds, RunExits,
    LaunchNext, LaunchAdmit, LaunchLock, LaunchFails, LaunchCreate, LaunchRolledBack,
    LinkNext, LinkValidate, LinkPrepare, LinkRefused, LinkTerminal, LinkStale, LinkRun,
    LinkRunFails, FenceBegin, FenceRetry, ReadSessions
<1>6. MoveCommit(u)
  <2>1. CASE MoveNext(u)
    BY <1>3, <2>1 DEF MoveNext, MoveRead, MoveConfirm, FirstRead, FirstLock, MoveLook, MoveRefused,
       MoveChallenge, project
  <2>2. ~DeleteNext(u)
    <3>1. ~DeleteCommit(u)
      <4>1. SUFFICES ASSUME DeleteCommit(u) PROVE FALSE OBVIOUS
      <4>2. WithoutPlan(job[u].plan, "removed") BY <4>1 DEF DeleteCommit
      <4>3. QED BY <1>1, <4>2 DEF WithoutPlan, Shapes, Task
    <3>2. \A q \in Plan : ~IssueMove(u, q) BY <1>1 DEF IssueMove, Shapes, Task
    <3>3. QED BY <1>3, <3>1, <3>2 DEF DeleteNext, DeleteLook, DeleteRefused, DeleteRecount,
                DeleteStale, DeleteLost, project
  <2>3. QED BY <1>5, <2>1, <2>2
<1>7. u = t BY <1>1, <1>6 DEF MoveCommit, Release, Finish, Shapes
<1>8. QED BY <1>6, <1>7

\* A move is committed only past what was shown.
LEMMA MovesAsShown == WorkInv /\ [RNext]_rvars => [MovesShown]_rvars
<1> SUFFICES ASSUME WorkInv, RNext, NEW t \in Mover, task'.status # task.status,
                    at[t] = "sessions", at'[t] = "idle"
             PROVE  Terminals("task", task.plan) \cup Runs("task", task.plan) \subseteq
                      (IF job[t].kind = "confirmed" THEN job[t].shown ELSE {})
  BY DEF MovesShown
<1>1. MoveCommit(t) BY OnlyCommits
<1>2. Moving(t) /\ MayMove(t) /\ task = job[t].from BY <1>1 DEF MoveCommit
<1>3. ChoosePace(t) /\ Seen(t) BY DEF WorkInv, Paces, Chooser
<1>4. job[t] \in MoveJobs BY <1>2, <1>3 DEF Moving, ChoosePace, DeleteJobs
<1>5. job[t].scope = "task" /\ job[t].plan = task.plan BY <1>2, <1>3, <1>4 DEF Seen, MoveJobs
<1>6. Terminals("task", task.plan) \subseteq job[t].terminals BY <1>3, <1>5 DEF Seen
<1>7. Resources(t) = job[t].terminals \cup Runs("task", task.plan) BY <1>5 DEF Resources
<1>8. QED BY <1>2, <1>6, <1>7 DEF MayMove, AsShown

\* Whatever comes and goes while the dialog is up, and whoever else writes to the
\* task, the board moves it past no terminal and no agent that the user was not shown.
THEOREM MovesAreShown == RSpec => MovesOnlyShown
<1>1. QED BY AlwaysWork, MovesAsShown, PTL DEF RSpec, MovesOnlyShown

-----------------------------------------------------------------------------
(* What the agents of a workspace agree on *)

\* The types of the records and of the requests, by what they ask for.
Lifetime == [life : Nat, assoc : Nat]
Lifetimes == [source : Lifetime, target : Lifetime]
Handoff == [s : Run, t : Run, pair : Lifetimes, expired : BOOLEAN]
Workflow ==
  [r : Run, seen : Lifetime, claim : BOOLEAN, rev : Nat, approved : BOOLEAN, expired : BOOLEAN]

OwnCall == [op : {"own"}, at : {"insert"}, r : Worker, take : BOOLEAN, seen : Lifetime]
TreeCall == [op : {"tree"}, at : {"recheck", "insert", "release"}, r : Worker, seen : Lifetime]
SendCall == [op : {"send"}, at : {"recheck", "insert"}, s : Run, t : Run, seen : Lifetimes]
AckCall == [op : {"ack"}, at : {"recheck", "take", "drop", "taken"}, h : Nat, rec : Handoff]
PrepareCall ==
  [op : {"prepare"}, at : {"epoch", "recheck", "grant"}, id : {0},
   r : Run, seen : Lifetime, claim : BOOLEAN, rev : Nat]
ApproveCall ==
  [op : {"approve"}, at : {"run", "epoch", "recheck", "grant", "consume"}, id : Nat, rec : Workflow,
   r : Run, seen : Lifetime, claim : BOOLEAN, rev : Nat]
ViewCall == [op : {"view"}, at : {"show"}, live : SUBSET Run, seen : [Run -> Lifetime]]

RunsTyped ==
  /\ runs \in [Run -> [live : BOOLEAN, life : Nat, assoc : Nat, kept : BOOLEAN]]
  /\ changes \in 0..MaxChange /\ closed \in BOOLEAN /\ given \in 0..MaxId
  /\ treeRev \in [Run -> 0..MaxTree]

\* An inbox holds records with ids that were given out, and not too many.
Box(recs, Rec, top) ==
  /\ recs \in [DOMAIN recs -> Rec] /\ DOMAIN recs \subseteq 1..top
  /\ Cardinality(DOMAIN recs) <= InboxLimit
Boxes ==
  /\ Box(handoffs, Handoff, given) /\ Box(workflows, Workflow, given)
  /\ DOMAIN handoffs \cap DOMAIN workflows = {}
  /\ closed => DOMAIN workflows = {}

\* A handoff that was taken is gone, and its id is not given out again.
AckRight(c) ==
  /\ calls[c] \in AckCall /\ calls[c].h \in 1..given
  /\ calls[c].at = "taken" => calls[c].h \notin DOMAIN handoffs

\* An approval knows what its proposal was made of, and grants only that.
ApproveRight(c) ==
  /\ calls[c] \in ApproveCall /\ calls[c].id \in 1..given /\ calls[c].r = calls[c].rec.r
  /\ calls[c].id \in DOMAIN workflows => SameCapture(workflows[calls[c].id], calls[c].rec)
  /\ calls[c].at = "grant" => SameCapture(calls[c], calls[c].rec)

CallRight(c) ==
  \/ calls[c] = NoCall \/ AckRight(c) \/ ApproveRight(c)
  \/ calls[c] \in OwnCall \cup TreeCall \cup SendCall \cup PrepareCall \cup ViewCall

\* The inductive invariant.
CoordInv ==
  /\ RunsTyped /\ Boxes /\ DOMAIN calls = Requester
  /\ (\A c \in Requester : CallRight(c)) /\ AcknowledgedOnce

\* Records that are dropped leave a smaller inbox.
LEMMA BoxLess ==
  ASSUME NEW recs, NEW Rec, NEW top \in Nat, Box(recs, Rec, top), NEW gone
  PROVE  /\ Box(Without(recs, gone), Rec, top)
         /\ DOMAIN Without(recs, gone) \subseteq DOMAIN recs
         /\ \A i \in DOMAIN Without(recs, gone) : Without(recs, gone)[i] = recs[i]
         /\ \A i \in DOMAIN recs : i \notin gone => i \in DOMAIN Without(recs, gone)
<1> DEFINE left == Without(recs, gone)
<1>1. /\ DOMAIN left = DOMAIN recs \ gone
      /\ left = [i \in DOMAIN left |-> recs[i]]
      /\ \A i \in DOMAIN left : left[i] = recs[i] /\ recs[i] \in Rec
  BY DEF Without, Box
<1>2. left \in [DOMAIN left -> Rec] BY <1>1, Zenon
<1>3. IsFiniteSet(1..top) BY FS_Interval
<1>4. IsFiniteSet(DOMAIN recs) BY <1>3, FS_Subset DEF Box
<1>5. /\ Cardinality(DOMAIN left) <= Cardinality(DOMAIN recs)
      /\ Cardinality(DOMAIN left) \in Nat /\ Cardinality(DOMAIN recs) \in Nat
  BY <1>1, <1>4, FS_Subset, FS_CardinalityType
<1>6. Cardinality(DOMAIN left) <= InboxLimit
  BY <1>5, CoordinationAssumption DEF Box
<1>7. QED BY <1>1, <1>2, <1>6 DEF Box

\* What is pruned is what has expired.
LEMMA BoxPruned ==
  ASSUME NEW recs, NEW Rec, NEW top \in Nat, Box(recs, Rec, top)
  PROVE  /\ Box(Pruned(recs), Rec, top)
         /\ DOMAIN Pruned(recs) \subseteq DOMAIN recs
         /\ \A i \in DOMAIN Pruned(recs) : Pruned(recs)[i] = recs[i] /\ ~recs[i].expired
         /\ \A i \in DOMAIN recs : ~recs[i].expired => i \in DOMAIN Pruned(recs)
<1> DEFINE gone == {i \in DOMAIN recs : recs[i].expired}
<1>1. /\ Box(Without(recs, gone), Rec, top)
      /\ DOMAIN Without(recs, gone) \subseteq DOMAIN recs
      /\ \A i \in DOMAIN Without(recs, gone) : Without(recs, gone)[i] = recs[i]
      /\ \A i \in DOMAIN recs : i \notin gone => i \in DOMAIN Without(recs, gone)
  <2> HIDE DEF gone
  <2>1. QED BY BoxLess
<1>2. \A i \in DOMAIN Without(recs, gone) : i \in DOMAIN recs /\ i \notin gone BY DEF Without
<1>3. QED BY <1>1, <1>2 DEF Pruned

\* A record with the next id fits while the inbox is not full.
LEMMA BoxMore ==
  ASSUME NEW recs, NEW Rec, NEW top \in Nat, Box(recs, Rec, top), NEW rec \in Rec,
         ~(Cardinality(DOMAIN recs) >= InboxLimit)
  PROVE  /\ Box(With(recs, top + 1, rec), Rec, top + 1)
         /\ DOMAIN With(recs, top + 1, rec) = DOMAIN recs \cup {top + 1}
         /\ \A i \in DOMAIN recs : With(recs, top + 1, rec)[i] = recs[i]
<1> DEFINE more == With(recs, top + 1, rec)
<1>1. top + 1 \notin DOMAIN recs BY DEF Box
<1>2. /\ DOMAIN more = DOMAIN recs \cup {top + 1}
      /\ more = [i \in DOMAIN more |-> IF i = top + 1 THEN rec ELSE recs[i]]
  BY DEF With
<1>3. \A i \in DOMAIN recs : more[i] = recs[i] BY <1>1, <1>2
<1>4. more \in [DOMAIN more -> Rec]
  <2>1. \A i \in DOMAIN more : (IF i = top + 1 THEN rec ELSE recs[i]) \in Rec BY <1>2 DEF Box
  <2>2. QED BY <1>2, <2>1, Zenon
<1>5. IsFiniteSet(1..top) BY FS_Interval
<1>6. IsFiniteSet(DOMAIN recs) BY <1>5, FS_Subset DEF Box
<1>7. /\ Cardinality(DOMAIN more) = Cardinality(DOMAIN recs) + 1
      /\ Cardinality(DOMAIN recs) \in Nat
  BY <1>1, <1>2, <1>6, FS_AddElement, FS_CardinalityType
<1>8. Cardinality(DOMAIN more) <= InboxLimit BY <1>7, CoordinationAssumption
<1>9. DOMAIN more \subseteq 1..(top + 1) BY <1>2 DEF Box
<1>10. QED BY <1>2, <1>3, <1>4, <1>8, <1>9 DEF Box

\* Ids are given out once, and a record stays what it was captured from.
Growing ==
  /\ given' \in given..MaxId
  /\ DOMAIN handoffs' \subseteq DOMAIN handoffs \cup (given + 1)..given'
  /\ DOMAIN workflows' \subseteq DOMAIN workflows \cup (given + 1)..given'
  /\ \A w \in DOMAIN workflows \cap DOMAIN workflows' : SameCapture(workflows'[w], workflows[w])

\* So what a request knows stays right while others are at it.
LEMMA StaysRight ==
  ASSUME CoordInv, Growing, NEW c \in Requester, CallRight(c), calls'[c] = calls[c]
  PROVE  CallRight(c)'
<1>1. given \in Nat /\ given' \in Nat /\ given <= given' BY DEF CoordInv, RunsTyped, Growing
<1>2. ASSUME AckRight(c) PROVE AckRight(c)'
  BY <1>1, <1>2 DEF AckRight, Growing
<1>3. ASSUME ApproveRight(c) PROVE ApproveRight(c)'
  <2> DEFINE call == calls[c]
  <2>1. call.id \in 1..given BY <1>3 DEF ApproveRight
  <2>2. ASSUME call.id \in DOMAIN workflows' PROVE SameCapture(workflows'[call.id], call.rec)
    <3>1. call.id \in DOMAIN workflows BY <1>1, <2>1, <2>2 DEF Growing
    <3>2. /\ SameCapture(workflows[call.id], call.rec)
          /\ SameCapture(workflows'[call.id], workflows[call.id])
      BY <1>3, <2>2, <3>1 DEF ApproveRight, Growing
    <3>3. QED BY <3>2 DEF SameCapture
  <2>3. call.id \in 1..given' BY <1>1, <2>1
  <2>4. QED BY <1>3, <2>2, <2>3 DEF ApproveRight, SameCapture
<1>4. QED BY <1>2, <1>3 DEF CallRight

\* A step outside of any request.
LEMMA OuterStep ==
  ASSUME CoordInv, RunsTyped', Boxes', Growing, calls' = calls
  PROVE  CoordInv'
<1>1. \A c \in Requester : CallRight(c)' BY StaysRight DEF CoordInv
<1>2. AcknowledgedOnce' BY DEF CoordInv, AcknowledgedOnce, IsAt
<1>3. QED BY <1>1, <1>2 DEF CoordInv

\* A step of one request.
LEMMA RequestStep ==
  ASSUME CoordInv, RunsTyped', Boxes', Growing, NEW c \in Requester, NEW call,
         calls' = [calls EXCEPT ![c] = call], CallRight(c)',
         call # NoCall /\ call.op = "ack" /\ call.at = "taken" => call.h \in DOMAIN handoffs
  PROVE  CoordInv'
<1>1. /\ DOMAIN calls' = Requester /\ calls'[c] = call
      /\ \A u \in Requester : u # c => calls'[u] = calls[u]
  BY DEF CoordInv
<1>2. ASSUME NEW u \in Requester PROVE CallRight(u)'
  <2>1. CASE u = c BY <2>1
  <2>2. CASE u # c BY <1>1, <2>2, StaysRight DEF CoordInv
  <2>3. QED BY <2>1, <2>2
<1>3. AcknowledgedOnce'
  <2>1. ASSUME NEW u \in Requester, u # c, IsAt(u, "ack", "taken"), call # NoCall,
               call.op = "ack", call.at = "taken"
        PROVE  calls[u].h # call.h
    <3>1. CallRight(u) /\ calls[u] # NoCall /\ calls[u].op = "ack" /\ calls[u].at = "taken"
      BY <2>1 DEF CoordInv, IsAt
    <3>2. AckRight(u)
      BY <3>1 DEF CallRight, ApproveRight, OwnCall, TreeCall, SendCall, PrepareCall, ViewCall,
                  ApproveCall
    <3>3. QED BY <2>1, <3>1, <3>2 DEF AckRight
  <2>2. ASSUME NEW u \in Requester, NEW v \in Requester, u # v,
               IsAt(u, "ack", "taken")', IsAt(v, "ack", "taken")'
        PROVE  calls'[u].h # calls'[v].h
    <3>1. CASE u = c BY <1>1, <2>1, <2>2, <3>1 DEF IsAt
    <3>2. CASE v = c BY <1>1, <2>1, <2>2, <3>2 DEF IsAt
    <3>3. CASE u # c /\ v # c
      BY <1>1, <2>2, <3>3 DEF IsAt, CoordInv, AcknowledgedOnce
    <3>4. QED BY <3>1, <3>2, <3>3
  <2>3. QED BY <2>2 DEF AcknowledgedOnce
<1>4. QED BY <1>1, <1>2, <1>3 DEF CoordInv

\* A step that leaves the inboxes alone.
LEMMA BoxesStay ==
  ASSUME CoordInv, UNCHANGED <<closed, handoffs, workflows, given>>
  PROVE  Boxes' /\ Growing
BY CoordinationAssumption DEF CoordInv, Boxes, RunsTyped, Growing, SameCapture

\* What is read of a run.
LEMMA EpochTyped ==
  ASSUME RunsTyped, NEW r \in Run
  PROVE  Epoch(r) \in Lifetime /\ Exact(r) \in BOOLEAN
BY DEF RunsTyped, Epoch, Assoc, Lifetime, Exact

\* The request of a kind.
LEMMA KindOf ==
  ASSUME CoordInv, NEW c \in Requester, calls[c] # NoCall
  PROVE  /\ calls[c].op = "own" => calls[c] \in OwnCall
         /\ calls[c].op = "tree" => calls[c] \in TreeCall
         /\ calls[c].op = "send" => calls[c] \in SendCall
         /\ calls[c].op = "ack" => AckRight(c)
         /\ calls[c].op = "prepare" => calls[c] \in PrepareCall
         /\ calls[c].op = "approve" => ApproveRight(c)
         /\ calls[c].op = "view" => calls[c] \in ViewCall
<1>1. CallRight(c) BY DEF CoordInv
<1>2. CASE calls[c] \in OwnCall BY <1>2 DEF OwnCall
<1>3. CASE calls[c] \in TreeCall BY <1>3 DEF TreeCall
<1>4. CASE calls[c] \in SendCall BY <1>4 DEF SendCall
<1>5. CASE AckRight(c) BY <1>5 DEF AckRight, AckCall
<1>6. CASE calls[c] \in PrepareCall BY <1>6 DEF PrepareCall
<1>7. CASE ApproveRight(c) BY <1>7 DEF ApproveRight, ApproveCall
<1>8. CASE calls[c] \in ViewCall BY <1>8 DEF ViewCall
<1>9. QED BY <1>1, <1>2, <1>3, <1>4, <1>5, <1>6, <1>7, <1>8 DEF CallRight

\* A request that ends.
LEMMA EndStep ==
  ASSUME CoordInv, RunsTyped', Boxes', Growing, NEW c \in Requester, Ends(c)
  PROVE  CoordInv'
<1>1. calls' = [calls EXCEPT ![c] = NoCall] BY DEF Ends
<1>2. calls'[c] = NoCall BY <1>1 DEF CoordInv
<1>3. CallRight(c)' BY <1>2 DEF CallRight
<1>4. QED BY <1>1, <1>3, RequestStep

\* A request other than an acknowledgement that begins or goes on.
LEMMA RequestOn ==
  ASSUME CoordInv, RunsTyped', Boxes', Growing, NEW c \in Requester, NEW call,
         calls' = [calls EXCEPT ![c] = call],
         call \in OwnCall \cup TreeCall \cup SendCall \cup PrepareCall \cup ViewCall
  PROVE  CoordInv'
<1>1. calls'[c] = call BY DEF CoordInv
<1>2. CallRight(c)' BY <1>1 DEF CallRight
<1>3. call.op # "ack" BY DEF OwnCall, TreeCall, SendCall, PrepareCall, ViewCall
<1>4. QED BY <1>2, <1>3, RequestStep

\* A run that changes, a record that expires or is dismissed, and the shutdown.
LEMMA OuterSteps ==
  ASSUME CoordInv, RunChange \/ (\E i \in Id : Expire(i) \/ Dismiss(i)) \/ Shutdown
  PROVE  CoordInv'
<1>1. given \in Nat /\ MaxId \in Nat /\ given <= MaxId
  BY CoordinationAssumption DEF CoordInv, RunsTyped
<1>2. CASE RunChange
  <2>1. Boxes' /\ Growing
    BY <1>2, BoxesStay DEF RunChange, Relive, Associate, Retarget, records
  <2>2. RunsTyped'
    <3>1. PICK r \in Run : Relive(r) \/ Associate(r) \/ Retarget(r) BY <1>2 DEF RunChange
    <3>2. /\ changes < MaxChange /\ changes' = changes + 1
          /\ UNCHANGED <<closed, given, treeRev>>
      BY <3>1 DEF Relive, Associate, Retarget, records
    <3>3. runs' \in [Run -> [live : BOOLEAN, life : Nat, assoc : Nat, kept : BOOLEAN]]
      <4>1. CASE Relive(r) BY <4>1 DEF Relive, CoordInv, RunsTyped
      <4>2. CASE Associate(r)
        <5>1. runs[r] \in [live : BOOLEAN, life : Nat, assoc : Nat, kept : BOOLEAN]
          BY DEF CoordInv, RunsTyped
        <5>2. runs \in [Run -> [live : BOOLEAN, life : Nat, assoc : Nat, kept : BOOLEAN]]
          BY DEF CoordInv, RunsTyped
        <5> DEFINE mid == [runs EXCEPT ![r].assoc = @ + 1]
        <5>3. mid \in [Run -> [live : BOOLEAN, life : Nat, assoc : Nat, kept : BOOLEAN]]
          BY <5>2
        <5>4. runs' = [mid EXCEPT ![r].kept = TRUE] BY <4>2 DEF Associate
        <5> HIDE DEF mid
        <5>5. QED BY <5>3, <5>4
      <4>3. CASE Retarget(r) BY <4>3 DEF Retarget, CoordInv, RunsTyped
      <4>4. QED BY <3>1, <4>1, <4>2, <4>3
    <3>4. changes' \in 0..MaxChange BY <3>2, CoordinationAssumption DEF CoordInv, RunsTyped
    <3>5. QED BY <3>2, <3>3, <3>4 DEF CoordInv, RunsTyped
  <2>3. calls' = calls BY <1>2 DEF RunChange, Relive, Associate, Retarget
  <2>4. QED BY <2>1, <2>2, <2>3, OuterStep
<1>3. ASSUME NEW i \in Id, Expire(i) PROVE CoordInv'
  <2>1. UNCHANGED <<runs, changes, closed, treeRev, given, calls>> BY <1>3 DEF Expire
  <2>2. RunsTyped' BY <2>1 DEF CoordInv, RunsTyped
  <2>3. CASE i \in DOMAIN handoffs /\ handoffs' = [handoffs EXCEPT ![i].expired = TRUE] /\ UNCHANGED workflows
    <3>1. DOMAIN handoffs' = DOMAIN handoffs BY <2>3
    <3>2. handoffs' \in [DOMAIN handoffs -> Handoff] BY <2>3 DEF CoordInv, Boxes, Box, Handoff
    <3>3. Boxes' BY <2>1, <2>3, <3>1, <3>2 DEF CoordInv, Boxes, Box
    <3>4. Growing
      <4>1. given' = given /\ DOMAIN handoffs' = DOMAIN handoffs /\ workflows' = workflows
        BY <2>1, <2>3, <3>1
      <4>2. QED BY <1>1, <4>1 DEF Growing, SameCapture
    <3>5. QED BY <2>1, <2>2, <3>3, <3>4, OuterStep
  <2>4. CASE i \in DOMAIN workflows /\ workflows' = [workflows EXCEPT ![i].expired = TRUE] /\ UNCHANGED handoffs
    <3>1. DOMAIN workflows' = DOMAIN workflows BY <2>4
    <3>2. workflows' \in [DOMAIN workflows -> Workflow] BY <2>4 DEF CoordInv, Boxes, Box, Workflow
    <3>3. Boxes' BY <2>1, <2>4, <3>1, <3>2 DEF CoordInv, Boxes, Box
    <3>4. \A w \in DOMAIN workflows : SameCapture(workflows'[w], workflows[w])
      BY <2>4 DEF SameCapture, CoordInv, Boxes, Box, Workflow
    <3>5. Growing
      <4>1. given' = given /\ DOMAIN workflows' = DOMAIN workflows /\ handoffs' = handoffs
        BY <2>1, <2>4, <3>1
      <4>2. QED BY <1>1, <3>4, <4>1 DEF Growing
    <3>6. QED BY <2>1, <2>2, <3>3, <3>5, OuterStep
  <2>5. QED BY <1>3, <2>3, <2>4 DEF Expire
<1>4. ASSUME NEW w \in Id, Dismiss(w) PROVE CoordInv'
  <2>1. UNCHANGED <<runs, changes, closed, treeRev, handoffs, given, calls>> BY <1>4 DEF Dismiss
  <2>2. RunsTyped' BY <2>1 DEF CoordInv, RunsTyped
  <2> DEFINE left == Pruned(workflows)
  <2>3. Box(workflows, Workflow, given) BY DEF CoordInv, Boxes
  <2>4. /\ Box(left, Workflow, given) /\ DOMAIN left \subseteq DOMAIN workflows
        /\ \A i \in DOMAIN left : left[i] = workflows[i]
    BY <1>1, <2>3, BoxPruned
  <2>5. workflows' = Without(left, {w}) BY <1>4 DEF Dismiss
  <2>6. /\ Box(workflows', Workflow, given) /\ DOMAIN workflows' \subseteq DOMAIN left
        /\ \A i \in DOMAIN workflows' : workflows'[i] = left[i]
    <3> HIDE DEF left
    <3>1. QED BY <1>1, <2>4, <2>5, BoxLess
  <2>7. Boxes'
    <3>1. Box(workflows, Workflow, given)' BY <2>1, <2>6
    <3>2. Box(handoffs, Handoff, given)' BY <2>1 DEF CoordInv, Boxes
    <3>3. QED BY <2>1, <2>4, <2>6, <3>1, <3>2 DEF CoordInv, Boxes
  <2>8. Growing BY <1>1, <2>1, <2>4, <2>6 DEF Growing, SameCapture
  <2>9. QED BY <2>1, <2>2, <2>7, <2>8, OuterStep
<1>5. CASE Shutdown
  <2>1. /\ closed' = TRUE /\ handoffs' = <<>> /\ workflows' = <<>>
        /\ treeRev' = [r \in Run |-> 0] /\ UNCHANGED <<runs, changes, given, calls>>
    BY <1>5 DEF Shutdown
  <2>2. RunsTyped' BY <2>1, CoordinationAssumption DEF CoordInv, RunsTyped
  <2>3. DOMAIN handoffs' = {} /\ DOMAIN workflows' = {} BY <2>1
  <2>4. Boxes'
    <3>1. Cardinality({}) = 0 BY FS_EmptySet
    <3>2. handoffs' \in [{} -> Handoff] /\ workflows' \in [{} -> Workflow] BY <2>1
    <3>3. QED BY <2>1, <2>3, <3>1, <3>2, CoordinationAssumption DEF Boxes, Box
  <2>5. Growing BY <1>1, <2>1, <2>3 DEF Growing
  <2>6. QED BY <2>1, <2>2, <2>4, <2>5, OuterStep
<1>6. QED BY <1>2, <1>3, <1>4, <1>5

\* Claims on tasks and worktrees.
LEMMA ClaimSteps ==
  ASSUME CoordInv, NEW c \in Requester, ClaimStep(c)
  PROVE  CoordInv'
<1> USE DEF IsAt
<1>1. Boxes' /\ Growing
  BY BoxesStay DEF ClaimStep, BeginOwn, BeginTree, FinishOwn, RecheckTree, InsertTree,
    ReleaseTree, records
<1>2. RunsTyped'
  <2>1. CASE InsertTree(c)
    <3> DEFINE r == calls[c].r
    <3>1. /\ treeRev[r] < MaxTree /\ treeRev' = [treeRev EXCEPT ![r] = treeRev[r] + 1]
          /\ UNCHANGED <<runs, changes, closed, given>>
      BY <2>1 DEF InsertTree
    <3> HIDE DEF r
    <3>2. treeRev \in [Run -> 0..MaxTree] /\ MaxTree \in Nat
      BY CoordinationAssumption DEF CoordInv, RunsTyped
    <3>3. ASSUME NEW u \in Run PROVE treeRev'[u] \in 0..MaxTree
      <4>1. CASE u = r BY <3>1, <3>2, <4>1
      <4>2. CASE u # r BY <3>1, <3>2, <4>2
      <4>3. QED BY <4>1, <4>2
    <3>4. treeRev' \in [Run -> 0..MaxTree] BY <3>1, <3>2, <3>3
    <3>5. QED BY <3>1, <3>4 DEF CoordInv, RunsTyped
  <2>2. CASE ReleaseTree(c)
    BY <2>2, CoordinationAssumption DEF CoordInv, RunsTyped, ReleaseTree
  <2>3. CASE UNCHANGED <<runs, changes, closed, given, treeRev>>
    BY <2>3 DEF CoordInv, RunsTyped
  <2>4. QED
    BY <2>1, <2>2, <2>3 DEF ClaimStep, BeginOwn, BeginTree, FinishOwn, RecheckTree, records
<1>3. \A r \in Worker : r \in Run /\ Epoch(r) \in Lifetime
  BY EpochTyped, CoordinationAssumption DEF CoordInv
<1>4. ASSUME NEW r \in Worker, NEW take \in BOOLEAN, BeginOwn(c, r, take) PROVE CoordInv'
  <2> DEFINE call == [op |-> "own", at |-> "insert", r |-> r, take |-> take, seen |-> Epoch(r)]
  <2>1. call \in OwnCall BY <1>3 DEF OwnCall
  <2>2. calls' = [calls EXCEPT ![c] = call] BY <1>4 DEF BeginOwn, Begin
  <2> HIDE DEF call
  <2>3. QED BY <1>1, <1>2, <2>1, <2>2, RequestOn
<1>5. ASSUME NEW r \in Worker, NEW take \in BOOLEAN, BeginTree(c, r, take) PROVE CoordInv'
  <2> DEFINE call == [op |-> "tree", at |-> IF take THEN "recheck" ELSE "release", r |-> r, seen |-> Epoch(r)]
  <2>1. call \in TreeCall BY <1>3 DEF TreeCall
  <2>2. calls' = [calls EXCEPT ![c] = call] BY <1>5 DEF BeginTree, Begin
  <2> HIDE DEF call
  <2>3. QED BY <1>1, <1>2, <2>1, <2>2, RequestOn
<1>6. CASE FinishOwn(c) \/ InsertTree(c) \/ ReleaseTree(c)
  BY <1>1, <1>2, <1>6, EndStep DEF FinishOwn, InsertTree, ReleaseTree
<1>7. CASE RecheckTree(c)
  <2>1. CASE Ends(c) BY <1>1, <1>2, <2>1, EndStep
  <2>2. CASE Goes(c, "insert")
    <3> DEFINE call == [calls[c] EXCEPT !.at = "insert"]
    <3>1. calls[c] \in TreeCall BY <1>7, KindOf DEF RecheckTree
    <3>2. call \in TreeCall BY <3>1 DEF TreeCall
    <3>3. calls' = [calls EXCEPT ![c] = call] BY <2>2 DEF Goes
    <3> HIDE DEF call
    <3>4. QED BY <1>1, <1>2, <3>2, <3>3, RequestOn
  <2>3. QED BY <1>7, <2>1, <2>2 DEF RecheckTree
<1>8. QED BY <1>4, <1>5, <1>6, <1>7 DEF ClaimStep

\* Inboxes that only lose records, or whose records change but for the capture.
LEMMA LessBoxes ==
  ASSUME CoordInv, UNCHANGED <<closed, given>>,
         Box(handoffs', Handoff, given), DOMAIN handoffs' \subseteq DOMAIN handoffs,
         Box(workflows', Workflow, given), DOMAIN workflows' \subseteq DOMAIN workflows,
         \A w \in DOMAIN workflows' : SameCapture(workflows'[w], workflows[w])
  PROVE  Boxes' /\ Growing
<1>1. given \in Nat /\ MaxId \in Nat /\ given <= MaxId
  BY CoordinationAssumption DEF CoordInv, RunsTyped
<1>2. Growing BY <1>1 DEF Growing
<1>3. Boxes' BY DEF CoordInv, Boxes
<1>4. QED BY <1>2, <1>3

\* The inboxes as they are.
LEMMA BoxesNow ==
  ASSUME CoordInv
  PROVE  /\ given \in Nat /\ Box(handoffs, Handoff, given) /\ Box(workflows, Workflow, given)
         /\ \A w \in DOMAIN workflows : SameCapture(workflows[w], workflows[w])
BY DEF CoordInv, RunsTyped, Boxes, SameCapture

\* A step that changes nothing of the runs.
LEMMA RunsStay ==
  ASSUME CoordInv, UNCHANGED <<runs, changes, closed, treeRev, given>>
  PROVE  RunsTyped'
BY DEF CoordInv, RunsTyped

\* A handoff is sent, looked at and acknowledged.
LEMMA SendSteps ==
  ASSUME CoordInv, NEW c \in Requester,
         (\E s, t \in Run : BeginSend(c, s, t)) \/ RecheckSend(c) \/ InsertHandoff(c)
  PROVE  CoordInv'
<1> USE DEF IsAt
<1>1. ASSUME NEW s \in Run, NEW t \in Run, BeginSend(c, s, t) PROVE CoordInv'
  <2> DEFINE call == [op |-> "send", at |-> "recheck", s |-> s, t |-> t, seen |-> Pair(s, t)]
  <2>1. UNCHANGED <<runs, changes, closed, records>> BY <1>1 DEF BeginSend
  <2>2. Boxes' /\ Growing /\ RunsTyped' BY <2>1, BoxesStay, RunsStay DEF records
  <2>3. Epoch(s) \in Lifetime /\ Epoch(t) \in Lifetime BY EpochTyped DEF CoordInv
  <2>4. call \in SendCall BY <2>3 DEF SendCall, Pair, Lifetimes
  <2>5. calls' = [calls EXCEPT ![c] = call] BY <1>1 DEF BeginSend, Begin
  <2> HIDE DEF call
  <2>6. QED BY <2>2, <2>4, <2>5, RequestOn
<1>2. CASE RecheckSend(c)
  <2>1. UNCHANGED <<runs, changes, closed, records>> BY <1>2 DEF RecheckSend
  <2>2. Boxes' /\ Growing /\ RunsTyped' BY <2>1, BoxesStay, RunsStay DEF records
  <2>3. CASE Ends(c) BY <2>2, <2>3, EndStep
  <2>4. CASE Goes(c, "insert")
    <3> DEFINE call == [calls[c] EXCEPT !.at = "insert"]
    <3>1. calls[c] \in SendCall BY <1>2, KindOf DEF RecheckSend
    <3>2. call \in SendCall BY <3>1 DEF SendCall
    <3>3. calls' = [calls EXCEPT ![c] = call] BY <2>4 DEF Goes
    <3> HIDE DEF call
    <3>4. QED BY <2>2, <3>2, <3>3, RequestOn
  <2>5. QED BY <1>2, <2>3, <2>4 DEF RecheckSend
<1>3. CASE InsertHandoff(c)
  <2> DEFINE left == Pruned(handoffs)
  <2>1. UNCHANGED <<runs, changes, closed, treeRev, workflows>> /\ Ends(c)
    BY <1>3 DEF InsertHandoff
  <2>2. Box(left, Handoff, given) /\ DOMAIN left \subseteq DOMAIN handoffs
    BY BoxesNow, BoxPruned
  <2>3. CASE handoffs' = left /\ UNCHANGED given
    <3>1. Boxes' /\ Growing BY <2>1, <2>2, <2>3, BoxesNow, LessBoxes
    <3>2. RunsTyped' BY <2>1, <2>3, RunsStay
    <3>3. QED BY <2>1, <3>1, <3>2, EndStep
  <2>4. CASE ~(Cardinality(DOMAIN left) >= InboxLimit)
    <3> DEFINE rec == [s |-> calls[c].s, t |-> calls[c].t, pair |-> calls[c].seen, expired |-> FALSE]
    <3>1. given < MaxId /\ given' = given + 1 /\ handoffs' = With(left, given + 1, rec)
      BY <1>3, <2>4 DEF InsertHandoff
    <3>2. calls[c] \in SendCall BY <1>3, KindOf DEF InsertHandoff
    <3>3. rec \in Handoff BY <3>2 DEF SendCall, Handoff
    <3>4. given \in Nat /\ MaxId \in Nat BY CoordinationAssumption DEF CoordInv, RunsTyped
    <3>5. Box(handoffs', Handoff, given + 1) /\ DOMAIN handoffs' = DOMAIN left \cup {given + 1}
      <4> HIDE DEF left, rec
      <4>1. QED BY <2>2, <2>4, <3>1, <3>3, <3>4, BoxMore
    <3>6. RunsTyped' BY <2>1, <3>1, <3>4 DEF CoordInv, RunsTyped
    <3>7. Growing
      <4>1. \A w \in DOMAIN workflows' : SameCapture(workflows'[w], workflows[w])
        BY <2>1, BoxesNow
      <4>2. QED BY <2>1, <2>2, <3>1, <3>4, <3>5, <4>1 DEF Growing
    <3>8. DOMAIN workflows \subseteq 1..given /\ (given + 1) \notin 1..given BY <3>4 DEF CoordInv, Boxes, Box
    <3>9. Box(workflows, Workflow, given + 1) BY <3>4, BoxesNow DEF Box
    <3>10. Boxes' BY <2>1, <2>2, <3>1, <3>5, <3>8, <3>9 DEF CoordInv, Boxes
    <3>11. QED BY <2>1, <3>6, <3>7, <3>10, EndStep
  <2>5. QED BY <1>3, <2>3, <2>4 DEF InsertHandoff
<1>4. QED BY <1>1, <1>2, <1>3

LEMMA AcknowledgeSteps ==
  ASSUME CoordInv, NEW c \in Requester,
         \/ \E h \in Id : BeginAcknowledge(c, h)
         \/ RecheckAcknowledge(c) \/ DropHandoff(c) \/ TakeHandoff(c) \/ Acknowledged(c)
  PROVE  CoordInv'
<1> USE DEF IsAt
<1>1. RunsTyped'
  BY RunsStay DEF BeginAcknowledge, RecheckAcknowledge, DropHandoff, TakeHandoff, Acknowledged, records
<1>2. /\ given \in Nat /\ Box(handoffs, Handoff, given) /\ DOMAIN handoffs \subseteq 1..given
      /\ DOMAIN calls = Requester
  BY BoxesNow DEF Box, CoordInv
<1>3. ASSUME NEW gone, handoffs' = Without(handoffs, gone), UNCHANGED <<closed, workflows, given>>
      PROVE  Boxes' /\ Growing
  BY <1>3, BoxesNow, BoxLess, LessBoxes
<1>4. ASSUME NEW h \in Id, BeginAcknowledge(c, h) PROVE CoordInv'
  <2> DEFINE call == [op |-> "ack", at |-> "recheck", h |-> h, rec |-> handoffs[h]]
  <2>1. /\ h \in DOMAIN Pruned(handoffs) /\ handoffs' = Pruned(handoffs)
        /\ calls' = [calls EXCEPT ![c] = call]
        /\ UNCHANGED <<closed, workflows, given>>
    BY <1>4 DEF BeginAcknowledge, Begin
  <2>2. Boxes' /\ Growing BY <1>3, <2>1 DEF Pruned
  <2>3. h \in DOMAIN handoffs BY <1>2, <2>1, BoxPruned
  <2>4. h \in 1..given /\ handoffs[h] \in Handoff BY <1>2, <2>3 DEF Box
  <2>5. call \in AckCall BY <2>4 DEF AckCall
  <2>6. calls'[c] = call BY <1>2, <2>1
  <2>7. AckRight(c)' BY <2>1, <2>4, <2>5, <2>6 DEF AckRight
  <2>8. CallRight(c)' BY <2>7 DEF CallRight
  <2>9. call.at # "taken" OBVIOUS
  <2> HIDE DEF call
  <2>10. QED BY <1>1, <2>1, <2>2, <2>8, <2>9, RequestStep
<1>5. CASE RecheckAcknowledge(c)
  <2>1. UNCHANGED <<closed, handoffs, workflows, given>> BY <1>5 DEF RecheckAcknowledge, records
  <2>2. Boxes' /\ Growing BY <2>1, BoxesStay
  <2>3. AckRight(c) BY <1>5, KindOf DEF RecheckAcknowledge
  <2>4. PICK step \in {"take", "drop"} : Goes(c, step) BY <1>5 DEF RecheckAcknowledge
  <2> DEFINE call == [calls[c] EXCEPT !.at = step]
  <2>5. /\ call \in AckCall /\ call.h = calls[c].h /\ call.at # "taken"
    BY <2>3 DEF AckRight, AckCall
  <2>6. calls' = [calls EXCEPT ![c] = call] BY <2>4 DEF Goes
  <2> HIDE DEF call
  <2>7. calls'[c] = call BY <1>2, <2>6
  <2>8. AckRight(c)' BY <2>1, <2>3, <2>5, <2>7 DEF AckRight
  <2>9. CallRight(c)' BY <2>8 DEF CallRight
  <2>10. QED BY <1>1, <2>2, <2>5, <2>6, <2>9, RequestStep
<1>6. CASE DropHandoff(c)
  <2>1. Boxes' /\ Growing BY <1>3, <1>6 DEF DropHandoff
  <2>2. QED BY <1>1, <1>6, <2>1, EndStep DEF DropHandoff
<1>7. CASE TakeHandoff(c)
  <2>1. Boxes' /\ Growing BY <1>3, <1>7 DEF TakeHandoff
  <2>2. CASE calls[c].h \in DOMAIN handoffs
    <3>1. AckRight(c) BY <1>7, KindOf DEF TakeHandoff
    <3>2. /\ Goes(c, "taken") /\ handoffs' = Without(handoffs, {calls[c].h}) /\ given' = given
      BY <1>7, <2>2 DEF TakeHandoff
    <3> DEFINE call == [calls[c] EXCEPT !.at = "taken"]
    <3>3. call \in AckCall /\ call.h = calls[c].h BY <3>1 DEF AckRight, AckCall
    <3>4. calls' = [calls EXCEPT ![c] = call] BY <3>2 DEF Goes
    <3> HIDE DEF call
    <3>5. calls'[c] = call BY <1>2, <3>4
    <3>6. calls[c].h \notin DOMAIN handoffs' BY <3>2 DEF Without
    <3>7. AckRight(c)' BY <3>1, <3>2, <3>3, <3>5, <3>6 DEF AckRight
    <3>8. CallRight(c)' BY <3>7 DEF CallRight
    <3>9. QED BY <1>1, <2>1, <2>2, <3>3, <3>4, <3>8, RequestStep
  <2>3. CASE calls[c].h \notin DOMAIN handoffs
    BY <1>1, <1>7, <2>1, <2>3, EndStep DEF TakeHandoff
  <2>4. QED BY <2>2, <2>3
<1>8. CASE Acknowledged(c)
  <2>1. Boxes' /\ Growing BY <1>8, BoxesStay DEF Acknowledged, records
  <2>2. QED BY <1>1, <1>8, <2>1, EndStep DEF Acknowledged
<1>9. QED BY <1>4, <1>5, <1>6, <1>7, <1>8

\* An approval goes on with the proposal that it began with.
LEMMA ApproveOn ==
  ASSUME CoordInv, RunsTyped', Boxes', Growing, NEW c \in Requester, ApproveRight(c),
         NEW call \in ApproveCall, calls' = [calls EXCEPT ![c] = call],
         call.id = calls[c].id, call.rec = calls[c].rec, call.r = calls[c].r,
         call.at = "grant" => SameCapture(call, call.rec)
  PROVE  CoordInv'
<1>1. given \in Nat /\ given' \in Nat /\ given <= given' BY DEF CoordInv, RunsTyped, Growing
<1>2. calls'[c] = call BY DEF CoordInv
<1>3. call.id \in 1..given /\ call.id \in 1..given' BY <1>1 DEF ApproveRight
<1>4. ASSUME call.id \in DOMAIN workflows' PROVE SameCapture(workflows'[call.id], call.rec)
  <2>1. call.id \in DOMAIN workflows BY <1>1, <1>3, <1>4 DEF Growing
  <2>2. /\ SameCapture(workflows[call.id], call.rec)
        /\ SameCapture(workflows'[call.id], workflows[call.id])
    BY <1>4, <2>1 DEF ApproveRight, Growing
  <2>3. QED BY <2>2 DEF SameCapture
<1>5. call.r = call.rec.r BY DEF ApproveRight
<1>6. ApproveRight(c)'
  BY <1>2, <1>3, <1>4, <1>5 DEF ApproveRight, SameCapture
<1>7. CallRight(c)' BY <1>6 DEF CallRight
<1>8. call.op # "ack" BY DEF ApproveCall
<1>9. QED BY <1>7, <1>8, RequestStep

\* An approval that has failed goes on to drop its proposal.
LEMMA ConsumeNext ==
  ASSUME CoordInv, RunsTyped', Boxes', Growing, NEW c \in Requester, ApproveRight(c),
         Goes(c, "consume")
  PROVE  CoordInv'
<1> DEFINE call == [calls[c] EXCEPT !.at = "consume"]
<1>1. /\ call \in ApproveCall /\ call.id = calls[c].id /\ call.rec = calls[c].rec
      /\ call.r = calls[c].r /\ call.at # "grant"
  BY DEF ApproveRight, ApproveCall
<1>2. calls' = [calls EXCEPT ![c] = call] BY DEF Goes
<1> HIDE DEF call
<1>3. QED BY <1>1, <1>2, ApproveOn

LEMMA FailSteps ==
  ASSUME CoordInv, RunsTyped', Boxes', Growing, NEW c \in Requester, calls[c] # NoCall,
         calls[c].op \in {"prepare", "approve"}, Fails(c)
  PROVE  CoordInv'
<1>1. CASE calls[c].op = "prepare" BY <1>1, EndStep DEF Fails
<1>2. CASE calls[c].op = "approve"
  <2>1. ApproveRight(c) /\ Goes(c, "consume") BY <1>2, KindOf DEF Fails
  <2>2. QED BY <2>1, ConsumeNext
<1>3. QED BY <1>1, <1>2

\* The run, its worktree and git are captured.
LEMMA CaptureSteps ==
  ASSUME CoordInv, NEW c \in Requester,
         \/ \E r \in Worker : BeginPrepare(c, r)
         \/ LookAtRun(c) \/ CaptureEpoch(c) \/ CaptureRecheck(c)
  PROVE  CoordInv'
<1> USE DEF IsAt, CaptureAt
<1>1. Boxes' /\ Growing
  BY BoxesStay DEF BeginPrepare, LookAtRun, CaptureEpoch, CaptureRecheck, records
<1>2. DOMAIN calls = Requester /\ RunsTyped BY DEF CoordInv
<1>3. ASSUME NEW r \in Worker, BeginPrepare(c, r) PROVE CoordInv'
  <2> DEFINE call == [op |-> "prepare", at |-> "epoch", id |-> 0, r |-> r, seen |-> Epoch(r),
                      claim |-> FALSE, rev |-> 0]
  <2>1. RunsTyped' BY <1>3, RunsStay DEF BeginPrepare, records
  <2>2. r \in Run /\ Epoch(r) \in Lifetime BY <1>2, EpochTyped, CoordinationAssumption
  <2>3. call \in PrepareCall BY <2>2 DEF PrepareCall
  <2>4. calls' = [calls EXCEPT ![c] = call] BY <1>3 DEF BeginPrepare, Begin
  <2> HIDE DEF call
  <2>5. QED BY <1>1, <2>1, <2>3, <2>4, RequestOn
<1>4. CASE LookAtRun(c)
  <2>1. RunsTyped' BY <1>4, RunsStay DEF LookAtRun, records
  <2>2. ApproveRight(c) BY <1>4, KindOf DEF LookAtRun
  <2>3. CASE Fails(c) BY <1>1, <1>4, <2>1, <2>3, FailSteps DEF LookAtRun
  <2>4. CASE calls' = [calls EXCEPT ![c].seen = Epoch(calls[c].r), ![c].at = "epoch"]
    <3> DEFINE call == [calls[c] EXCEPT !.seen = Epoch(calls[c].r), !.at = "epoch"]
    <3>1. calls[c] \in ApproveCall /\ calls[c].r \in Run BY <2>2 DEF ApproveRight, ApproveCall
    <3>2. Epoch(calls[c].r) \in Lifetime BY <1>2, <3>1, EpochTyped
    <3>3. /\ call \in ApproveCall /\ call.id = calls[c].id /\ call.rec = calls[c].rec
          /\ call.r = calls[c].r /\ call.at # "grant"
      BY <3>1, <3>2 DEF ApproveCall
    <3>4. calls' = [calls EXCEPT ![c] = call]
      <4> DEFINE mid == [calls EXCEPT ![c].seen = Epoch(calls[c].r)]
      <4>1. mid = [calls EXCEPT ![c] = [calls[c] EXCEPT !.seen = Epoch(calls[c].r)]] OBVIOUS
      <4>2. calls' = [mid EXCEPT ![c].at = "epoch"] BY <2>4
      <4>3. mid[c] = [calls[c] EXCEPT !.seen = Epoch(calls[c].r)] BY <1>2, <4>1
      <4>4. calls' = [mid EXCEPT ![c] = call] BY <4>2, <4>3
      <4>5. QED BY <4>1, <4>4
    <3> HIDE DEF call
    <3>5. QED BY <1>1, <2>1, <2>2, <3>3, <3>4, ApproveOn
  <2>5. QED BY <1>4, <2>3, <2>4 DEF LookAtRun
<1>5. CASE CaptureEpoch(c)
  <2> DEFINE r == calls[c].r
             call == [calls[c] EXCEPT !.claim = (tree[r] # NoClaim), !.rev = treeRev[r], !.at = "recheck"]
  <2>1. calls[c].op \in {"prepare", "approve"} /\ calls[c] # NoCall BY <1>5 DEF CaptureEpoch
  <2>2. calls[c] \in PrepareCall \/ (ApproveRight(c) /\ calls[c] \in ApproveCall)
    BY <2>1, KindOf DEF ApproveRight
  <2>3. r \in Run BY <2>2 DEF PrepareCall, ApproveCall
  <2>4. CASE Fails(c) /\ treeRev[r] < MaxTree /\ treeRev' = [treeRev EXCEPT ![r] = @ + 1]
    <3>1. RunsTyped'
      BY <1>5, <2>3, <2>4, CoordinationAssumption DEF CoordInv, RunsTyped, CaptureEpoch
    <3>2. QED BY <1>1, <2>1, <2>4, <3>1, FailSteps
  <2>5. CASE /\ calls' = [calls EXCEPT ![c].claim = (tree[r] # NoClaim), ![c].rev = treeRev[r],
                                       ![c].at = "recheck"]
             /\ UNCHANGED treeRev
    <3>1. RunsTyped' BY <1>5, <2>5, RunsStay DEF CaptureEpoch
    <3>2. calls' = [calls EXCEPT ![c] = call] BY <1>2, <2>5
    <3>3. treeRev[r] \in Nat /\ (tree[r] # NoClaim) \in BOOLEAN
      BY <1>2, <2>3, CoordinationAssumption DEF RunsTyped
    <3>4. CASE calls[c] \in PrepareCall
      <4>1. call \in PrepareCall BY <3>3, <3>4 DEF PrepareCall
      <4> HIDE DEF call
      <4>2. QED BY <1>1, <3>1, <3>2, <4>1, RequestOn
    <3>5. CASE ApproveRight(c) /\ calls[c] \in ApproveCall
      <4>1. /\ call \in ApproveCall /\ call.id = calls[c].id /\ call.rec = calls[c].rec
            /\ call.r = calls[c].r /\ call.at # "grant"
        BY <3>3, <3>5 DEF ApproveCall
      <4> HIDE DEF call
      <4>2. QED BY <1>1, <3>1, <3>2, <3>5, <4>1, ApproveOn
    <3>6. QED BY <2>2, <3>4, <3>5
  <2>6. QED BY <1>5, <2>4, <2>5 DEF CaptureEpoch
<1>6. CASE CaptureRecheck(c)
  <2>1. RunsTyped' BY <1>6, RunsStay DEF CaptureRecheck, records
  <2>2. calls[c].op \in {"prepare", "approve"} /\ calls[c] # NoCall BY <1>6 DEF CaptureRecheck
  <2>3. CASE Fails(c) BY <1>1, <2>1, <2>2, <2>3, FailSteps
  <2>4. CASE Goes(c, "grant") /\ (calls[c].op = "approve" => SameCapture(calls[c], calls[c].rec))
    <3> DEFINE call == [calls[c] EXCEPT !.at = "grant"]
    <3>1. calls' = [calls EXCEPT ![c] = call] BY <2>4 DEF Goes
    <3>2. CASE calls[c].op = "prepare"
      <4>1. calls[c] \in PrepareCall BY <2>2, <3>2, KindOf
      <4>2. call \in PrepareCall BY <4>1 DEF PrepareCall
      <4> HIDE DEF call
      <4>3. QED BY <1>1, <2>1, <3>1, <4>2, RequestOn
    <3>3. CASE calls[c].op = "approve"
      <4>1. ApproveRight(c) /\ calls[c] \in ApproveCall BY <2>2, <3>3, KindOf DEF ApproveRight
      <4>2. /\ call \in ApproveCall /\ call.id = calls[c].id /\ call.rec = calls[c].rec
            /\ call.r = calls[c].r /\ call.seen = calls[c].seen
            /\ call.claim = calls[c].claim /\ call.rev = calls[c].rev
        BY <4>1 DEF ApproveCall
      <4>3. SameCapture(call, call.rec) BY <2>4, <3>3, <4>2 DEF SameCapture
      <4> HIDE DEF call
      <4>4. QED BY <1>1, <2>1, <3>1, <4>1, <4>2, <4>3, ApproveOn
    <3>4. QED BY <2>2, <3>2, <3>3
  <2>5. QED BY <1>6, <2>3, <2>4 DEF CaptureRecheck
<1>7. QED BY <1>3, <1>4, <1>5, <1>6

\* Workflows are proposed, approved, and dropped when an approval fails.
LEMMA GrantSteps ==
  ASSUME CoordInv, NEW c \in Requester, GrantPreparation(c)
  PROVE  CoordInv'
<1> USE DEF IsAt
<1> DEFINE call == calls[c]
           left == Pruned(workflows)
<1>1. UNCHANGED <<runs, changes, closed, treeRev, handoffs>> /\ Ends(c) BY DEF GrantPreparation
<1>2. /\ given \in Nat /\ MaxId \in Nat /\ Box(handoffs, Handoff, given)
      /\ Box(workflows, Workflow, given)
  BY BoxesNow, CoordinationAssumption
<1>3. Box(left, Workflow, given) /\ DOMAIN left \subseteq DOMAIN workflows
      /\ \A w \in DOMAIN left : left[w] = workflows[w]
  BY <1>2, BoxPruned
<1>4. CASE UNCHANGED <<workflows, given>>
  <2>1. Boxes' /\ Growing BY <1>1, <1>4, BoxesStay
  <2>2. RunsTyped' BY <1>1, <1>4, RunsStay
  <2>3. QED BY <1>1, <2>1, <2>2, EndStep
<1>5. CASE workflows' = left /\ UNCHANGED given
  <2>1. \A w \in DOMAIN workflows' : SameCapture(workflows'[w], workflows[w])
    BY <1>3, <1>5 DEF SameCapture
  <2>2. Boxes' /\ Growing BY <1>1, <1>2, <1>3, <1>5, <2>1, LessBoxes
  <2>3. RunsTyped' BY <1>1, <1>5, RunsStay
  <2>4. QED BY <1>1, <2>2, <2>3, EndStep
<1>6. CASE /\ ~closed /\ ~(Cardinality(DOMAIN left) >= InboxLimit)
           /\ given < MaxId /\ given' = given + 1
           /\ workflows' = With(left, given + 1, Proposal(call))
  <2>1. call \in PrepareCall BY KindOf DEF GrantPreparation
  <2>2. Proposal(call) \in Workflow BY <2>1 DEF PrepareCall, Proposal, Workflow
  <2>3. /\ Box(workflows', Workflow, given + 1) /\ DOMAIN workflows' = DOMAIN left \cup {given + 1}
        /\ \A w \in DOMAIN left : workflows'[w] = left[w]
    <3> DEFINE rec == Proposal(call)
    <3>1. workflows' = With(left, given + 1, rec) /\ rec \in Workflow BY <1>6, <2>2
    <3>2. ~(Cardinality(DOMAIN left) >= InboxLimit) /\ Box(left, Workflow, given)
      BY <1>3, <1>6
    <3> HIDE DEF left, call, rec
    <3>3. /\ Box(With(left, given + 1, rec), Workflow, given + 1)
          /\ DOMAIN With(left, given + 1, rec) = DOMAIN left \cup {given + 1}
          /\ \A w \in DOMAIN left : With(left, given + 1, rec)[w] = left[w]
      <4>1. given \in Nat BY <1>2
      <4>2. rec \in Workflow BY <3>1
      <4>3. QED BY <3>2, <4>1, <4>2, BoxMore
    <3>4. QED BY <3>1, <3>3
  <2>4. RunsTyped' BY <1>1, <1>2, <1>6 DEF CoordInv, RunsTyped
  <2>5. \A w \in DOMAIN workflows : w # given + 1 BY <1>2 DEF Box
  <2>6. Growing
    <3>1. \A w \in DOMAIN workflows \cap DOMAIN workflows' : SameCapture(workflows'[w], workflows[w])
      BY <1>3, <2>3, <2>5 DEF SameCapture
    <3>2. QED BY <1>1, <1>2, <1>3, <1>6, <2>3, <3>1 DEF Growing
  <2>7. DOMAIN handoffs \subseteq 1..given /\ (given + 1) \notin 1..given BY <1>2 DEF Box
  <2>8. Box(handoffs, Handoff, given + 1) BY <1>2 DEF Box
  <2>9. Boxes' BY <1>1, <1>3, <1>6, <2>3, <2>7, <2>8 DEF CoordInv, Boxes
  <2>10. QED BY <1>1, <2>4, <2>6, <2>9, EndStep
<1>7. QED BY <1>4, <1>5, <1>6 DEF GrantPreparation

\* What an approval leaves of the workflows: fewer, and none is another than it was.
LEMMA ApprovalLess ==
  ASSUME CoordInv, NEW gone, NEW ws,
         ws = Without(workflows, gone) \/ ws = Pruned(workflows)
  PROVE  /\ Box(ws, Workflow, given) /\ DOMAIN ws \subseteq DOMAIN workflows
         /\ \A w \in DOMAIN ws : ws[w] = workflows[w] /\ SameCapture(ws[w], workflows[w])
<1>1. given \in Nat /\ Box(workflows, Workflow, given) BY BoxesNow
<1>2. CASE ws = Without(workflows, gone) BY <1>1, <1>2, BoxLess DEF SameCapture
<1>3. CASE ws = Pruned(workflows) BY <1>1, <1>3, BoxPruned DEF SameCapture
<1>4. QED BY <1>2, <1>3

LEMMA ApproveSteps ==
  ASSUME CoordInv, NEW c \in Requester,
         (\E w \in Id : BeginApprove(c, w)) \/ GrantApproval(c) \/ Consume(c)
  PROVE  CoordInv'
<1> USE DEF IsAt
<1>1. RunsTyped' BY RunsStay DEF BeginApprove, GrantApproval, Consume
<1>2. /\ given \in Nat /\ Box(handoffs, Handoff, given) /\ Box(workflows, Workflow, given)
      /\ DOMAIN calls = Requester
      /\ UNCHANGED <<closed, given, handoffs>>
  BY BoxesNow DEF CoordInv, BeginApprove, GrantApproval, Consume
<1>3. ASSUME NEW gone, workflows' = Without(workflows, gone) \/ workflows' = Pruned(workflows)
      PROVE  Boxes' /\ Growing
  <2>1. /\ Box(workflows', Workflow, given) /\ DOMAIN workflows' \subseteq DOMAIN workflows
        /\ \A w \in DOMAIN workflows' : SameCapture(workflows'[w], workflows[w])
    BY <1>3, ApprovalLess
  <2>2. QED BY <1>2, <2>1, LessBoxes
<1>4. ASSUME NEW w \in Id, BeginApprove(c, w) PROVE CoordInv'
  <2> DEFINE call == [op |-> "approve", at |-> "run", id |-> w, rec |-> workflows[w],
                      r |-> workflows[w].r, seen |-> workflows[w].seen, claim |-> FALSE, rev |-> 0]
  <2>1. /\ w \in DOMAIN Pruned(workflows) /\ workflows' = Pruned(workflows)
        /\ calls' = [calls EXCEPT ![c] = call]
    BY <1>4 DEF BeginApprove, Begin
  <2>2. Boxes' /\ Growing BY <1>3, <2>1
  <2>3. w \in DOMAIN workflows /\ workflows'[w] = workflows[w]
    BY <1>2, <2>1, BoxPruned
  <2>4. w \in 1..given /\ workflows[w] \in Workflow BY <1>2, <2>3 DEF Box
  <2>5. call \in ApproveCall BY <2>4 DEF ApproveCall, Workflow
  <2>6. calls'[c] = call BY <1>2, <2>1
  <2>7. ApproveRight(c)' BY <1>2, <2>3, <2>4, <2>5, <2>6 DEF ApproveRight, SameCapture
  <2>8. CallRight(c)' BY <2>7 DEF CallRight
  <2>9. call.op # "ack" OBVIOUS
  <2> HIDE DEF call
  <2>10. QED BY <1>1, <2>1, <2>2, <2>8, <2>9, RequestStep
<1>5. CASE GrantApproval(c)
  <2> DEFINE w == calls[c].id
             left == Pruned(workflows)
  <2>1. ApproveRight(c) BY <1>5, KindOf DEF GrantApproval
  <2>2. CASE UNCHANGED workflows /\ Goes(c, "consume")
    <3>1. Boxes' /\ Growing BY <1>2, <2>2, BoxesStay
    <3>2. QED BY <1>1, <2>1, <2>2, <3>1, ConsumeNext
  <2>3. CASE (workflows' = Without(workflows, {w}) \/ workflows' = left) /\ Goes(c, "consume")
    <3>1. Boxes' /\ Growing
      <4> HIDE DEF w
      <4>1. QED BY <1>3, <2>3
    <3>2. QED BY <1>1, <2>1, <2>3, <3>1, ConsumeNext
  <2>4. CASE w \in DOMAIN left /\ workflows' = [left EXCEPT ![w].approved = TRUE] /\ Ends(c)
    <3>1. /\ Box(left, Workflow, given) /\ DOMAIN left \subseteq DOMAIN workflows
          /\ \A i \in DOMAIN left : left[i] = workflows[i]
      BY ApprovalLess
    <3> HIDE DEF left, w
    <3>2. left \in [DOMAIN left -> Workflow] BY <3>1 DEF Box
    <3>3. /\ DOMAIN workflows' = DOMAIN left /\ workflows' \in [DOMAIN left -> Workflow]
          /\ \A i \in DOMAIN left : SameCapture(workflows'[i], left[i])
      BY <2>4, <3>2 DEF Workflow, SameCapture
    <3>4. Box(workflows', Workflow, given) BY <3>1, <3>3 DEF Box
    <3>5. \A i \in DOMAIN workflows' : SameCapture(workflows'[i], workflows[i])
      BY <3>1, <3>3
    <3>6. Boxes' /\ Growing BY <1>2, <3>1, <3>3, <3>4, <3>5, LessBoxes
    <3>7. QED BY <1>1, <2>4, <3>6, EndStep
  <2>5. QED BY <1>5, <2>2, <2>3, <2>4 DEF GrantApproval
<1>6. CASE Consume(c)
  <2>1. Boxes' /\ Growing BY <1>3, <1>6 DEF Consume
  <2>2. QED BY <1>1, <1>6, <2>1, EndStep DEF Consume
<1>7. QED BY <1>4, <1>5, <1>6

\* The projection that users see.
LEMMA ViewSteps ==
  ASSUME CoordInv, NEW c \in Requester, BeginView(c) \/ Show(c)
  PROVE  CoordInv'
<1> USE DEF IsAt
<1>1. CASE BeginView(c)
  <2> DEFINE call == [op |-> "view", at |-> "show", live |-> {r \in Run : Exact(r)},
                      seen |-> [r \in Run |-> Epoch(r)]]
  <2>1. UNCHANGED <<runs, changes, closed, records>> BY <1>1 DEF BeginView
  <2>2. Boxes' /\ Growing /\ RunsTyped' BY <2>1, BoxesStay, RunsStay DEF records
  <2>3. \A r \in Run : Epoch(r) \in Lifetime BY EpochTyped DEF CoordInv
  <2>4. call \in ViewCall BY <2>3 DEF ViewCall
  <2>5. calls' = [calls EXCEPT ![c] = call] BY <1>1 DEF BeginView, Begin
  <2> HIDE DEF call
  <2>6. QED BY <2>2, <2>4, <2>5, RequestOn
<1>2. CASE Show(c)
  <2>1. UNCHANGED <<runs, changes, closed, treeRev, given>> /\ Ends(c) /\ Projected(calls[c])
    BY <1>2 DEF Show
  <2>2. RunsTyped' BY <2>1, RunsStay
  <2>3. PICK lost, stale : /\ handoffs' = Without(Pruned(handoffs), lost)
                           /\ workflows' = Without(Pruned(workflows), stale)
    BY <2>1 DEF Projected
  <2> DEFINE hs == Pruned(handoffs)
             ws == Pruned(workflows)
  <2>4. given \in Nat /\ Box(handoffs, Handoff, given) /\ Box(workflows, Workflow, given)
    BY BoxesNow
  <2>5. /\ Box(hs, Handoff, given) /\ DOMAIN hs \subseteq DOMAIN handoffs
        /\ Box(ws, Workflow, given) /\ DOMAIN ws \subseteq DOMAIN workflows
        /\ \A w \in DOMAIN ws : ws[w] = workflows[w]
    BY <2>4, BoxPruned
  <2>6. /\ Box(handoffs', Handoff, given) /\ DOMAIN handoffs' \subseteq DOMAIN hs
        /\ Box(workflows', Workflow, given) /\ DOMAIN workflows' \subseteq DOMAIN ws
        /\ \A w \in DOMAIN workflows' : workflows'[w] = ws[w]
    <3> HIDE DEF hs, ws
    <3>1. handoffs' = Without(hs, lost) /\ workflows' = Without(ws, stale) BY <2>3 DEF hs, ws
    <3>2. QED BY <2>4, <2>5, <3>1, BoxLess
  <2>7. \A w \in DOMAIN workflows' : SameCapture(workflows'[w], workflows[w])
    BY <2>5, <2>6 DEF SameCapture
  <2>8. Boxes' /\ Growing BY <2>1, <2>5, <2>6, <2>7, LessBoxes
  <2>9. QED BY <2>1, <2>2, <2>8, EndStep
<1>3. QED BY <1>1, <1>2

LEMMA InitCoord == CInit => CoordInv
<1> SUFFICES ASSUME CInit PROVE CoordInv OBVIOUS
<1>1. RunsTyped
  <2>1. runs \in [Run -> [live : BOOLEAN, life : Nat, assoc : Nat, kept : BOOLEAN]]
    BY DEF CInit
  <2>2. treeRev \in [Run -> 0..MaxTree] BY CoordinationAssumption DEF CInit
  <2>3. changes = 0 /\ closed = FALSE /\ given = 0 BY DEF CInit
  <2>4. changes \in 0..MaxChange BY <2>3, CoordinationAssumption
  <2>5. given \in 0..MaxId BY <2>3, CoordinationAssumption
  <2>6. closed \in BOOLEAN BY <2>3
  <2>7. QED BY <2>1, <2>2, <2>4, <2>5, <2>6 DEF RunsTyped
<1>2. Boxes
  <2>1. Cardinality({}) = 0 BY FS_EmptySet
  <2>2. /\ DOMAIN handoffs = {} /\ DOMAIN workflows = {}
        /\ handoffs \in [{} -> Handoff] /\ workflows \in [{} -> Workflow]
    BY DEF CInit
  <2>3. QED BY <2>1, <2>2, CoordinationAssumption DEF Boxes, Box
<1>3. /\ DOMAIN calls = Requester /\ \A c \in Requester : calls[c] = NoCall BY DEF CInit
<1>4. QED BY <1>1, <1>2, <1>3 DEF CoordInv, CallRight, AcknowledgedOnce, IsAt

LEMMA CoordNext == CoordInv /\ [CNext]_cvars => CoordInv'
<1> SUFFICES ASSUME CoordInv, [CNext]_cvars PROVE CoordInv' OBVIOUS
<1>1. CASE UNCHANGED cvars
  <2>1. UNCHANGED <<runs, changes, closed, treeRev, handoffs, workflows, given, calls>>
    BY <1>1 DEF cvars, records
  <2>2. QED BY <2>1, BoxesStay, RunsStay, OuterStep
<1>2. CASE RunChange \/ (\E i \in Id : Expire(i) \/ Dismiss(i)) \/ Shutdown
  BY <1>2, OuterSteps
<1>3. ASSUME NEW c \in Requester, ClaimStep(c) PROVE CoordInv' BY <1>3, ClaimSteps
<1>4. ASSUME NEW c \in Requester, HandoffStep(c) PROVE CoordInv'
  BY <1>4, SendSteps, AcknowledgeSteps DEF HandoffStep
<1>5. ASSUME NEW c \in Requester, WorkflowStep(c) PROVE CoordInv'
  BY <1>5, CaptureSteps, GrantSteps, ApproveSteps DEF WorkflowStep
<1>6. ASSUME NEW c \in Requester, BeginView(c) \/ Show(c) PROVE CoordInv' BY <1>6, ViewSteps
<1>7. QED BY <1>1, <1>2, <1>3, <1>4, <1>5, <1>6 DEF CNext

LEMMA CoordImplies == CoordInv => CoordinationSafe
<1> SUFFICES ASSUME CoordInv PROVE CoordinationSafe OBVIOUS
<1>1. TypeOK BY DEF CoordInv, RunsTyped, Boxes, Box, TypeOK
<1>2. ClosedForWorkflows
  <2>1. ASSUME DOMAIN workflows = {} PROVE workflows = <<>>
    BY <2>1 DEF CoordInv, Boxes, Box
  <2>2. QED BY <2>1 DEF CoordInv, Boxes, ClosedForWorkflows
<1>3. QED BY <1>1, <1>2 DEF CoordInv, CoordinationSafe

\* A step that approves nothing, and drops nothing for a request that approves.
LEMMA NothingApproved ==
  ASSUME \A w \in DOMAIN workflows \cap DOMAIN workflows' :
           workflows'[w].approved = workflows[w].approved,
         \A c \in Requester : calls'[c] # calls[c] =>
           calls[c] = NoCall \/ calls[c].op # "approve"
  PROVE  ApprovesFresh /\ KeepsApproved
<1>1. ApprovesFresh BY DEF ApprovesFresh
<1>2. KeepsApproved BY DEF KeepsApproved
<1>3. QED BY <1>1, <1>2

LEMMA StayingApproved == ASSUME UNCHANGED workflows PROVE ApprovesFresh /\ KeepsApproved
<1>1. ApprovesFresh BY DEF ApprovesFresh
<1>2. KeepsApproved BY DEF KeepsApproved
<1>3. QED BY <1>1, <1>2

LEMMA GrantApproved ==
  ASSUME CoordInv, NEW c \in Requester, GrantApproval(c)
  PROVE  ApprovesFresh /\ KeepsApproved
<1> DEFINE call == calls[c]
           w == call.id
           left == Pruned(workflows)
<1>1. ApproveRight(c) /\ call.at = "grant" BY KindOf DEF GrantApproval, IsAt
<1>2. /\ SameCapture(call, call.rec)
      /\ w \in DOMAIN workflows => SameCapture(workflows[w], call.rec)
  BY <1>1 DEF ApproveRight
<1>3. w \in DOMAIN workflows => SameCapture(call, workflows[w]) BY <1>2 DEF SameCapture
<1>4. CASE UNCHANGED workflows BY <1>4, StayingApproved
<1>5. CASE /\ closed \/ ~EpochMatches(call.r, call)
           /\ workflows' = Without(workflows, {w})
  <2>1. /\ \A u \in DOMAIN workflows' : workflows'[u] = workflows[u]
        /\ \A u \in DOMAIN workflows : u \notin DOMAIN workflows' => u = w
    BY <1>5 DEF Without
  <2>2. ApprovesFresh BY <2>1 DEF ApprovesFresh
  <2>3. w \in DOMAIN workflows => closed \/ ~EpochMatches(workflows[w].r, workflows[w])
    BY <1>3, <1>5 DEF SameCapture, EpochMatches
  <2>4. KeepsApproved BY <2>1, <2>3 DEF KeepsApproved
  <2>5. QED BY <2>2, <2>4
<1>6. ASSUME workflows' = left PROVE ApprovesFresh /\ KeepsApproved
  <2>1. /\ \A u \in DOMAIN workflows' : workflows'[u] = workflows[u]
        /\ \A u \in DOMAIN workflows : u \notin DOMAIN workflows' => workflows[u].expired
    BY <1>6, BoxesNow, BoxPruned
  <2>2. QED BY <2>1 DEF ApprovesFresh, KeepsApproved
<1>7. CASE /\ ValidCapture(call) /\ ~closed /\ EpochMatches(call.r, call)
           /\ w \in DOMAIN left /\ workflows' = [left EXCEPT ![w].approved = TRUE]
  <2>1. /\ DOMAIN left \subseteq DOMAIN workflows
        /\ \A u \in DOMAIN left : left[u] = workflows[u] /\ ~workflows[u].expired
        /\ \A u \in DOMAIN workflows : ~workflows[u].expired => u \in DOMAIN left
    BY BoxesNow, BoxPruned
  <2>2. DOMAIN workflows' = DOMAIN left /\ \A u \in DOMAIN left : u # w => workflows'[u] = left[u]
    BY <1>7
  <2>3. /\ ~workflows[w].expired /\ runs[workflows[w].r].live
        /\ Epoch(workflows[w].r) = workflows[w].seen
        /\ EpochMatches(workflows[w].r, workflows[w])
    BY <1>3, <1>7, <2>1 DEF ValidCapture, Exact, SameCapture, EpochMatches
  <2>4. ApprovesFresh
    <3> SUFFICES ASSUME NEW u \in DOMAIN workflows \cap DOMAIN workflows',
                        ~workflows[u].approved, workflows'[u].approved
                 PROVE  /\ ~closed /\ ~workflows[u].expired
                        /\ runs[workflows[u].r].live /\ Epoch(workflows[u].r) = workflows[u].seen
                        /\ treeRev[workflows[u].r] = workflows[u].rev
                        /\ (tree[workflows[u].r] # NoClaim) = workflows[u].claim
      BY DEF ApprovesFresh
    <3>1. u = w BY <2>1, <2>2
    <3>2. QED BY <1>7, <2>3, <3>1 DEF EpochMatches
  <2>5. KeepsApproved BY <2>1, <2>2 DEF KeepsApproved
  <2>6. QED BY <2>4, <2>5
<1>8. QED BY <1>4, <1>5, <1>6, <1>7 DEF GrantApproval

LEMMA ConsumeApproved ==
  ASSUME CoordInv, NEW c \in Requester, Consume(c)
  PROVE  ApprovesFresh /\ KeepsApproved
<1>1. /\ \A u \in DOMAIN workflows' : workflows'[u] = workflows[u]
      /\ \A u \in DOMAIN workflows : u \notin DOMAIN workflows' => ~workflows[u].approved
  BY DEF Consume, Without
<1>2. QED BY <1>1 DEF ApprovesFresh, KeepsApproved

\* A request that drops what has expired, or is of another epoch than it has seen.
LEMMA OthersApproved ==
  ASSUME CoordInv, NEW c \in Requester,
         (\E w \in Id : BeginApprove(c, w)) \/ GrantPreparation(c) \/ Show(c)
  PROVE  ApprovesFresh /\ KeepsApproved
<1> USE DEF IsAt
<1>1. \A u \in Requester : u # c => calls'[u] = calls[u]
  BY DEF BeginApprove, GrantPreparation, Show, Begin, Ends, CoordInv
<1>2. calls[c] = NoCall \/ calls[c].op # "approve"
  BY DEF BeginApprove, GrantPreparation, Show, Begin
<1>3. \A w \in DOMAIN workflows \cap DOMAIN workflows' :
        workflows'[w].approved = workflows[w].approved
  <2>1. /\ given \in Nat /\ Box(workflows, Workflow, given)
        /\ \A w \in DOMAIN Pruned(workflows) : Pruned(workflows)[w] = workflows[w]
        /\ DOMAIN Pruned(workflows) \subseteq DOMAIN workflows
    BY BoxesNow, BoxPruned
  <2>2. CASE workflows' = workflows \/ workflows' = Pruned(workflows) BY <2>1, <2>2
  <2>3. ASSUME NEW rec, workflows' = With(Pruned(workflows), given + 1, rec)
        PROVE  \A w \in DOMAIN workflows \cap DOMAIN workflows' : workflows'[w] = workflows[w]
    <3>1. \A w \in DOMAIN workflows : w # given + 1 BY <2>1 DEF Box
    <3>2. QED BY <2>1, <2>3, <3>1 DEF With
  <2>4. ASSUME NEW gone, workflows' = Without(Pruned(workflows), gone)
        PROVE  \A w \in DOMAIN workflows \cap DOMAIN workflows' : workflows'[w] = workflows[w]
    BY <2>1, <2>4 DEF Without
  <2>5. QED BY <2>2, <2>3, <2>4 DEF BeginApprove, GrantPreparation, Show, Projected
<1>4. QED BY <1>1, <1>2, <1>3, NothingApproved

LEMMA ApprovedNext == CoordInv /\ [CNext]_cvars => ApprovesFresh /\ KeepsApproved
<1> SUFFICES ASSUME CoordInv, [CNext]_cvars PROVE ApprovesFresh /\ KeepsApproved OBVIOUS
<1>1. CASE UNCHANGED cvars BY <1>1, StayingApproved DEF cvars, records
<1>2. CASE RunChange
  BY <1>2, StayingApproved DEF RunChange, Relive, Associate, Retarget, records
<1>3. ASSUME NEW i \in Id, Expire(i) \/ Dismiss(i) PROVE ApprovesFresh /\ KeepsApproved
  <2>1. calls' = calls BY <1>3 DEF Expire, Dismiss
  <2>2. \A w \in DOMAIN workflows \cap DOMAIN workflows' :
          workflows'[w].approved = workflows[w].approved
    <3>1. CASE Expire(i)
      <4>1. CASE UNCHANGED workflows BY <4>1
      <4>2. CASE i \in DOMAIN workflows /\ workflows' = [workflows EXCEPT ![i].expired = TRUE]
        <5>1. workflows[i] \in Workflow BY <4>2, BoxesNow DEF Box
        <5>2. workflows'[i].approved = workflows[i].approved BY <4>2, <5>1 DEF Workflow
        <5>3. \A w \in DOMAIN workflows : w # i => workflows'[w] = workflows[w] BY <4>2
        <5>4. QED BY <5>2, <5>3
      <4>3. QED BY <3>1, <4>1, <4>2 DEF Expire
    <3>2. CASE Dismiss(i)
      <4>1. \A w \in DOMAIN Pruned(workflows) : Pruned(workflows)[w] = workflows[w]
        BY BoxesNow, BoxPruned
      <4>2. QED BY <3>2, <4>1 DEF Dismiss, Without
    <3>3. QED BY <1>3, <3>1, <3>2
  <2>3. QED BY <2>1, <2>2, NothingApproved
<1>4. CASE Shutdown
  <2>1. calls' = calls /\ DOMAIN workflows' = {} BY <1>4 DEF Shutdown
  <2>2. QED BY <2>1, NothingApproved
<1>5. ASSUME NEW c \in Requester, ClaimStep(c) \/ HandoffStep(c) PROVE ApprovesFresh /\ KeepsApproved
  <2>1. CASE ClaimStep(c)
    BY <2>1, StayingApproved DEF ClaimStep, BeginOwn, BeginTree, FinishOwn, RecheckTree,
      InsertTree, ReleaseTree, records
  <2>2. CASE HandoffStep(c)
    BY <2>2, StayingApproved DEF HandoffStep, BeginSend, BeginAcknowledge, RecheckSend,
      InsertHandoff, RecheckAcknowledge, DropHandoff, TakeHandoff, Acknowledged, records
  <2>3. QED BY <1>5, <2>1, <2>2
<1>6. ASSUME NEW c \in Requester, WorkflowStep(c) PROVE ApprovesFresh /\ KeepsApproved
  <2>1. CASE (\E r \in Worker : BeginPrepare(c, r)) \/ LookAtRun(c) \/ CaptureEpoch(c) \/ CaptureRecheck(c)
    BY <2>1, StayingApproved DEF BeginPrepare, LookAtRun, CaptureEpoch, CaptureRecheck, records
  <2>2. CASE (\E w \in Id : BeginApprove(c, w)) \/ GrantPreparation(c) BY <2>2, OthersApproved
  <2>3. CASE GrantApproval(c) BY <2>3, GrantApproved
  <2>4. CASE Consume(c) BY <2>4, ConsumeApproved
  <2>5. QED BY <1>6, <2>1, <2>2, <2>3, <2>4 DEF WorkflowStep
<1>7. ASSUME NEW c \in Requester, BeginView(c) \/ Show(c) PROVE ApprovesFresh /\ KeepsApproved
  <2>1. CASE BeginView(c) BY <2>1, StayingApproved DEF BeginView, records
  <2>2. CASE Show(c) BY <2>2, OthersApproved
  <2>3. QED BY <1>7, <2>1, <2>2
<1>8. QED BY <1>1, <1>2, <1>3, <1>4, <1>5, <1>6, <1>7 DEF CNext

\* CoordinationSafe: for any number of runs and requests, two requests never both hear
\* that they have acknowledged a handoff, the inboxes stay within their limit, and
\* nothing is proposed to a coordinator that was shut down.
THEOREM CoordinationIsSafe == CSpec => []CoordinationSafe
<1>1. CSpec => []CoordInv BY InitCoord, CoordNext, PTL DEF CSpec
<1>2. QED BY <1>1, CoordImplies, PTL

\* ApprovalsRight: a workflow is approved only while its run, association and worktree are
\* still those of the proposal, and an approval that fails takes back no other.
THEOREM ApprovalsAreRight == CSpec => ApprovalsRight
<1>1. CSpec => []CoordInv BY InitCoord, CoordNext, PTL DEF CSpec
<1>2. CoordInv /\ [CNext]_cvars => [ApprovesFresh /\ KeepsApproved]_cvars BY ApprovedNext
<1>3. QED BY <1>1, <1>2, PTL DEF CSpec, ApprovalsRight
=============================================================================
