---------------------------- MODULE DesktopRuntime ----------------------------
(***************************************************************************)
(* The desktop coordinator: which project workspace is open, who may call  *)
(* into it, and how it is opened, closed, replaced, first initialized and  *)
(* shut down while calls are under way and terminals run in it.            *)
(*                                                                         *)
(* Workspaces are named by their generation.  A caller's call stands for   *)
(* every command of the workspace; the ones that launch a terminal take an *)
(* admission first.  A revision that is only compared for equality with    *)
(* the one a confirmation was issued for is the flag "fresh" of the        *)
(* confirmation, which every change of a resource clears.                  *)
(***************************************************************************)
EXTENDS Integers, FiniteSets

CONSTANTS
  Opener, Closer, Caller, Initer, Poller, Quitter, \* the threads, by what they run
  MaxGen,      \* generations built
  MaxTerminal, \* terminals running at a time
  Faults       \* what may fail: build, bind, init, late (a drain), cleanup

Thread == Opener \cup Closer \cup Caller \cup Initer \cup Poller \cup Quitter

Free == "free"

ASSUME DesktopAssumption ==
  /\ MaxGen \in Nat \ {0} /\ MaxTerminal \in Nat
  /\ Faults \subseteq {"build", "bind", "init", "late", "cleanup"}
\* A thread runs one kind of command.
ASSUME ThreadAssumption ==
  /\ Opener \cap (Closer \cup Caller \cup Initer \cup Poller \cup Quitter) = {}
  /\ Closer \cap (Caller \cup Initer \cup Poller \cup Quitter) = {}
  /\ Caller \cap (Initer \cup Poller \cup Quitter) = {}
  /\ Initer \cap (Poller \cup Quitter) = {} /\ Poller \cap Quitter = {}
  /\ Free \notin Thread /\ IsFiniteSet(Caller)

VARIABLES
  status, generation, current,    \* the published state; 0: no workspace
  shutting, retry, changing,      \* shutting_down, shutdown_retry, authority_changing
  confirmation,                   \* the challenge that waits for its token
  transition,                     \* who holds the transition lock
  terminals, gate, live,          \* of each workspace: terminals, call gate, not yet shut down
  pc, target, shown               \* of each thread: its step, its workspace, what was confirmed

published == <<status, generation, current>>
flags == <<shutting, retry, changing>>
workspaces == <<terminals, gate, live>>
threads == <<pc, target, shown>>
vars == <<published, flags, confirmation, transition, workspaces, threads>>

Gen == 1..MaxGen
None == [action |-> "none"]

Init ==
  /\ status \in {"welcome", "open"}
  /\ generation = IF status = "open" THEN 1 ELSE 0
  /\ current = generation
  /\ shutting = FALSE /\ retry = FALSE /\ changing = FALSE
  /\ confirmation = None /\ transition = Free
  /\ terminals = [g \in Gen |-> 0] /\ gate = [g \in Gen |-> "open"]
  /\ live = [g \in Gen |-> g = current]
  /\ pc = [t \in Thread |-> "idle"] /\ target = [t \in Thread |-> 0]
  /\ shown = [t \in Thread |-> 0]
-----------------------------------------------------------------------------
(* Leases, fences and resources *)

At(t, step) == pc[t] = step

\* The steps of each kind of thread that hold a native-action or call lease.
Leased(t) ==
  \/ t \in Opener \cup Closer \cup Poller /\ pc[t] # "idle"
  \/ t \in Caller /\ pc[t] # "idle"
Calls == {t \in Thread : Leased(t)}

\* begin_native_action.
Admitted == ~shutting /\ ~changing

\* A resource fence is held by a challenge and by the change under way.
Holds(t, g) == t \in Opener \cup Closer /\ target[t] = g /\ pc[t] \notin {"idle", "lock"}
Fenced(g) ==
  \/ confirmation # None /\ confirmation.generation = g
  \/ \E t \in Thread : Holds(t, g)

Coming(g) == Cardinality({t \in Caller : At(t, "admitted") /\ target[t] = g})
Pending(g) == Cardinality({t \in Caller : pc[t] \in {"admitted", "launched"} /\ target[t] = g})
Active(g) == IF g = 0 THEN 0 ELSE terminals[g] + Pending(g)
\* Whatever changes a resource of g makes a challenge for it stale.
Touched(g) ==
  confirmation' = IF confirmation # None /\ confirmation.generation = g
                    THEN [confirmation EXCEPT !.fresh = FALSE] ELSE confirmation
Goto(t, step) == pc' = [pc EXCEPT ![t] = step]
Leave(t) ==
  /\ Goto(t, "idle") /\ target' = [target EXCEPT ![t] = 0] /\ shown' = [shown EXCEPT ![t] = 0]
-----------------------------------------------------------------------------
(* Calls into the workspace *)

CallBegin(t) ==
  /\ t \in Caller /\ At(t, "idle") /\ Admitted /\ status = "open" /\ current # 0
  /\ Goto(t, "entering") /\ target' = [target EXCEPT ![t] = current]
  /\ UNCHANGED <<published, flags, confirmation, transition, workspaces, shown>>

\* begin_workspace_call, then begin_resource_admission for a launch.
CallEnter(t) ==
  /\ t \in Caller /\ At(t, "entering")
  /\ IF gate[target[t]] = "open"
       THEN Goto(t, "inside") /\ UNCHANGED <<target, shown>>
       ELSE Leave(t)
  /\ UNCHANGED <<published, flags, confirmation, transition, workspaces>>

Admission(t) ==
  /\ t \in Caller /\ At(t, "inside") /\ ~Fenced(target[t])
  /\ terminals[target[t]] < MaxTerminal
  /\ Goto(t, "admitted") /\ Touched(target[t])
  /\ UNCHANGED <<published, flags, transition, workspaces, target, shown>>

\* The launch succeeds unless the terminals have been shut down meanwhile.
Launch(t) ==
  /\ t \in Caller /\ At(t, "admitted")
  /\ LET g == target[t] IN
       /\ terminals' = [terminals EXCEPT ![g] = IF live[g] THEN @ + 1 ELSE @]
       /\ Touched(g)
  /\ Goto(t, "launched")
  /\ UNCHANGED <<published, flags, transition, gate, live, target, shown>>

CallEnd(t) ==
  /\ t \in Caller /\ pc[t] \in {"inside", "launched"}
  /\ IF At(t, "launched") THEN Touched(target[t]) ELSE UNCHANGED confirmation
  /\ Leave(t)
  /\ UNCHANGED <<published, flags, transition, workspaces>>

\* A terminal is closed or its program exits: no call, no admission.
TerminalEnds(g) ==
  /\ terminals[g] > 0 /\ terminals' = [terminals EXCEPT ![g] = @ - 1]
  /\ Touched(g)
  /\ UNCHANGED <<published, flags, transition, gate, live, threads>>
-----------------------------------------------------------------------------
(* BoundDesktopWorkspace::shutdown, by whoever replaces or closes it *)

Stopping(t) == pc[t] \in {"stop", "drainCalls", "stopTerminals"}

StopGate(t) ==
  /\ At(t, "stop") /\ gate' = [gate EXCEPT ![target[t]] = "closing"]
  /\ Goto(t, "drainCalls")
  /\ UNCHANGED <<published, flags, confirmation, transition, terminals, live, target, shown>>

Inside(g) == {t \in Caller : target[t] = g /\ pc[t] \in {"inside", "admitted", "launched"}}
StopDrain(t) ==
  /\ At(t, "drainCalls") /\ (Inside(target[t]) = {} \/ "late" \in Faults)
  /\ Goto(t, "stopTerminals")
  /\ UNCHANGED <<published, flags, confirmation, transition, workspaces, target, shown>>

\* What is left of the workspace is shut down, whether or not it drained.
Stopped(t) ==
  /\ At(t, "stopTerminals")
  /\ terminals' = [terminals EXCEPT ![target[t]] = 0]
  /\ live' = [live EXCEPT ![target[t]] = FALSE]
StopNext(t) == StopGate(t) \/ StopDrain(t)
-----------------------------------------------------------------------------
(* open_project and close_project *)

ChangeBegin(t) ==
  /\ t \in Opener \cup Closer /\ At(t, "idle") /\ Admitted
  /\ Goto(t, "lock")
  /\ UNCHANGED <<published, flags, confirmation, transition, workspaces, target, shown>>

\* Under the transition lock: not shutting down, and no authority change for an
\* open.  A close without a workspace has nothing to do.
Refusing(t) == shutting \/ (t \in Opener /\ changing) \/ (t \in Closer /\ current = 0)

ChangeRefused(t) ==
  /\ t \in Opener \cup Closer /\ At(t, "lock") /\ transition = Free /\ Refusing(t)
  /\ Leave(t)
  /\ UNCHANGED <<published, flags, confirmation, transition, workspaces>>

ChangeLock(t) ==
  /\ t \in Opener \cup Closer /\ At(t, "lock") /\ transition = Free /\ ~Refusing(t)
  /\ transition' = t
  /\ target' = [target EXCEPT ![t] = current] /\ Goto(t, "check")
  /\ UNCHANGED <<published, flags, confirmation, workspaces, shown>>

Action(t) == IF t \in Opener THEN "open" ELSE "close"
Valid(t) ==
  /\ confirmation # None /\ confirmation.action = Action(t)
  /\ confirmation.generation = generation /\ confirmation.fresh
  /\ confirmation.active = Active(target[t])

Proceed(t) == Goto(t, IF t \in Opener THEN "build" ELSE "unpublish")

\* Nothing runs: no confirmation is needed, and none is used up.
ChangeAtOnce(t) ==
  /\ t \in Opener \cup Closer /\ At(t, "check") /\ Active(target[t]) = 0
  /\ Proceed(t)
  /\ UNCHANGED <<published, flags, confirmation, transition, workspaces, target, shown>>

\* Without a token the resources are shown and a challenge is issued.
Challenge(t) ==
  /\ t \in Opener \cup Closer /\ At(t, "check") /\ Active(target[t]) > 0
  /\ confirmation' = [action |-> Action(t), generation |-> generation, fresh |-> TRUE,
                      active |-> Active(target[t])]
  /\ transition' = Free /\ Leave(t)
  /\ UNCHANGED <<published, flags, workspaces>>

\* With a token the challenge is used up, and the change goes on if it is the
\* one that was shown and nothing has changed.
Confirm(t, exact) ==
  /\ t \in Opener \cup Closer /\ At(t, "check") /\ Active(target[t]) > 0
  /\ confirmation' = None
  /\ IF exact /\ Valid(t)
       THEN /\ shown' = [shown EXCEPT ![t] = confirmation.active]
            /\ Proceed(t) /\ UNCHANGED <<target, transition>>
       ELSE Leave(t) /\ transition' = Free
  /\ UNCHANGED <<published, flags, workspaces>>

\* The dialog is cancelled, or its time is over.
ConfirmationEnds ==
  /\ confirmation # None /\ confirmation' = None
  /\ UNCHANGED <<published, flags, transition, workspaces, threads>>

OpenLoading(t) ==
  /\ t \in Opener /\ At(t, "build") /\ generation < MaxGen
  /\ status' = "loading" /\ Goto(t, "publish")
  /\ UNCHANGED <<generation, current, flags, confirmation, transition, workspaces, target, shown>>

Publish(g) ==
  /\ current' = g /\ generation' = g /\ status' = "open"
  /\ live' = [live EXCEPT ![g] = TRUE]

OpenPublish(t) ==
  /\ t \in Opener /\ At(t, "publish")
  /\ Publish(generation + 1) /\ confirmation' = None
  /\ Goto(t, IF target[t] = 0 THEN "end" ELSE "stop")
  /\ UNCHANGED <<flags, transition, terminals, gate, target, shown>>

OpenFails(t) ==
  /\ t \in Opener /\ At(t, "publish") /\ "build" \in Faults
  /\ status' = IF target[t] # 0 THEN "open" ELSE "error"
  /\ Goto(t, "end")
  /\ UNCHANGED <<generation, current, flags, confirmation, transition, workspaces, target, shown>>

OpenStopped(t) ==
  /\ t \in Opener /\ Stopped(t) /\ Goto(t, "end")
  /\ UNCHANGED <<published, flags, confirmation, transition, gate, target, shown>>

CloseUnpublish(t) ==
  /\ t \in Closer /\ At(t, "unpublish")
  /\ status' = "loading" /\ current' = 0 /\ confirmation' = None /\ Goto(t, "stop")
  /\ UNCHANGED <<generation, flags, transition, workspaces, target, shown>>

CloseStopped(t) ==
  /\ t \in Closer /\ Stopped(t) /\ status' = "welcome" /\ Goto(t, "end")
  /\ UNCHANGED <<generation, current, flags, confirmation, transition, gate, target, shown>>

\* The transition lock and the fence, then the lease.
ChangeUnlock(t) ==
  /\ t \in Opener \cup Closer /\ At(t, "end") /\ transition = t /\ transition' = Free
  /\ target' = [target EXCEPT ![t] = 0] /\ Goto(t, "unlease")
  /\ UNCHANGED <<published, flags, confirmation, workspaces, shown>>

ChangeEnd(t) ==
  /\ t \in Opener \cup Closer /\ At(t, "unlease") /\ Leave(t)
  /\ UNCHANGED <<published, flags, confirmation, transition, workspaces>>
-----------------------------------------------------------------------------
(* initialize_project *)

InitFence(t) ==
  /\ t \in Initer /\ At(t, "idle") /\ Admitted /\ current = 0
  /\ changing' = TRUE /\ status' = "loading" /\ Goto(t, "drain")
  /\ UNCHANGED <<generation, current, shutting, retry, confirmation, transition, workspaces,
                 target, shown>>

InitDrained(t) ==
  /\ t \in Initer /\ At(t, "drain") /\ Calls = {} /\ Goto(t, "lock")
  /\ UNCHANGED <<published, flags, confirmation, transition, workspaces, target, shown>>

InitGivesUp(t) ==
  /\ t \in Initer /\ At(t, "drain") /\ Calls # {} /\ "late" \in Faults
  /\ changing' = FALSE /\ status' = "error" /\ Leave(t)
  /\ UNCHANGED <<generation, current, shutting, retry, confirmation, transition, workspaces>>

\* Faulty: the look before the drain is trusted.
MayInitializeUnseen == TRUE
\* A workspace published during the drain is left alone.
MayInitialize == current = 0

InitLock(t) ==
  /\ t \in Initer /\ At(t, "lock") /\ transition = Free
  /\ transition' = t /\ Goto(t, IF MayInitialize THEN "build" ELSE "fail")
  /\ UNCHANGED <<published, flags, confirmation, workspaces, target, shown>>

\* initialize, build, mark_desktop_bound: any of them fails, or needs recovery.
InitFails(t) ==
  /\ t \in Initer /\ At(t, "build") /\ Faults \cap {"init", "build", "bind"} # {}
  /\ Goto(t, "fail")
  /\ UNCHANGED <<published, flags, confirmation, transition, workspaces, target, shown>>

InitPublish(t) ==
  /\ t \in Initer /\ At(t, "build") /\ generation < MaxGen
  /\ Publish(generation + 1) /\ Goto(t, "finish")
  /\ UNCHANGED <<flags, confirmation, transition, terminals, gate, target, shown>>

InitFinish(t) ==
  /\ t \in Initer /\ pc[t] \in {"fail", "finish"}
  /\ changing' = FALSE /\ transition' = Free
  /\ status' = IF At(t, "finish") THEN status ELSE IF current = 0 THEN "error" ELSE "open"
  /\ Leave(t)
  /\ UNCHANGED <<generation, current, shutting, retry, confirmation, workspaces>>
-----------------------------------------------------------------------------
(* initialization_status: a finished initialization is bound when asked for *)

PollBegin(t) ==
  /\ t \in Poller /\ At(t, "idle") /\ Admitted /\ Goto(t, "lock")
  /\ UNCHANGED <<published, flags, confirmation, transition, workspaces, target, shown>>

PollLock(t) ==
  /\ t \in Poller /\ At(t, "lock") /\ transition = Free
  /\ IF shutting \/ current # 0 THEN Leave(t) /\ UNCHANGED <<transition, status>>
     ELSE /\ transition' = t /\ status' = "loading" /\ Goto(t, "build")
          /\ UNCHANGED <<target, shown>>
  /\ UNCHANGED <<generation, current, flags, confirmation, workspaces>>

PollPublish(t) ==
  /\ t \in Poller /\ At(t, "build") /\ generation < MaxGen
  /\ Publish(generation + 1) /\ Goto(t, "end")
  /\ UNCHANGED <<flags, confirmation, transition, terminals, gate, target, shown>>

PollFails(t) ==
  /\ t \in Poller /\ At(t, "build") /\ "build" \in Faults
  /\ status' = "error" /\ Goto(t, "end")
  /\ UNCHANGED <<generation, current, flags, confirmation, transition, workspaces, target, shown>>

PollEnd(t) ==
  /\ t \in Poller /\ At(t, "end") /\ transition' = Free /\ Leave(t)
  /\ UNCHANGED <<published, flags, confirmation, workspaces>>
-----------------------------------------------------------------------------
(* begin_shutdown *)

MayQuit == ~changing /\ (~shutting \/ retry)

QuitBegin(t) ==
  /\ t \in Quitter /\ At(t, "idle") /\ MayQuit /\ ~(shutting /\ current = 0)
  /\ shutting' = TRUE /\ retry' = FALSE /\ confirmation' = None /\ Goto(t, "drain")
  /\ UNCHANGED <<published, changing, transition, workspaces, target, shown>>

QuitDrained(t) ==
  /\ t \in Quitter /\ At(t, "drain") /\ Calls = {} /\ Goto(t, "lock")
  /\ UNCHANGED <<published, flags, confirmation, transition, workspaces, target, shown>>

\* The calls did not finish in time, or the update service refuses.
QuitRefused(t) ==
  /\ t \in Quitter /\ At(t, "drain") /\ "late" \in Faults
  /\ shutting' = FALSE /\ Leave(t)
  /\ UNCHANGED <<published, retry, changing, confirmation, transition, workspaces>>

QuitLock(t) ==
  /\ t \in Quitter /\ At(t, "lock") /\ transition = Free /\ transition' = t
  /\ target' = [target EXCEPT ![t] = current]
  /\ Goto(t, IF current = 0 THEN "end" ELSE "stop")
  /\ UNCHANGED <<published, flags, confirmation, workspaces, shown>>

QuitStopped(t) ==
  /\ t \in Quitter /\ Stopped(t)
  /\ Goto(t, "end")
  /\ UNCHANGED <<published, flags, confirmation, transition, gate, target, shown>>

\* A cleanup that reports an error keeps the workspace for a retry.
QuitCleanup(t) ==
  /\ t \in Quitter /\ Stopped(t) /\ "cleanup" \in Faults
  /\ retry' = TRUE /\ transition' = Free /\ Leave(t)
  /\ UNCHANGED <<published, shutting, changing, confirmation, gate>>

QuitEnd(t) ==
  /\ t \in Quitter /\ At(t, "end")
  /\ current' = 0 /\ status' = "closed" /\ transition' = Free
  /\ Goto(t, "done") /\ target' = [target EXCEPT ![t] = 0]
  /\ UNCHANGED <<generation, flags, confirmation, workspaces, shown>>
-----------------------------------------------------------------------------
CallNext(t) == CallEnter(t) \/ Launch(t) \/ CallEnd(t)
ChangeNext(t) ==
  \/ ChangeBegin(t) \/ ChangeRefused(t) \/ ChangeLock(t) \/ ChangeAtOnce(t) \/ Challenge(t)
  \/ (\E exact \in BOOLEAN : Confirm(t, exact))
  \/ OpenLoading(t) \/ OpenPublish(t) \/ OpenFails(t) \/ OpenStopped(t)
  \/ CloseUnpublish(t) \/ CloseStopped(t) \/ ChangeUnlock(t) \/ ChangeEnd(t)
InitNext(t) ==
  \/ InitFence(t) \/ InitDrained(t) \/ InitGivesUp(t) \/ InitLock(t) \/ InitFails(t)
  \/ InitPublish(t) \/ InitFinish(t)
PollNext(t) ==
  \/ PollBegin(t) \/ PollLock(t) \/ PollPublish(t) \/ PollFails(t) \/ PollEnd(t)
QuitNext(t) ==
  \/ QuitBegin(t) \/ QuitDrained(t) \/ QuitRefused(t) \/ QuitLock(t) \/ QuitStopped(t)
  \/ QuitCleanup(t) \/ QuitEnd(t)

Next ==
  \/ ConfirmationEnds \/ (\E g \in Gen : TerminalEnds(g))
  \/ \E t \in Thread :
       \/ CallBegin(t) \/ Admission(t) \/ CallNext(t)
       \/ ChangeNext(t) \/ InitNext(t) \/ PollNext(t) \/ QuitNext(t) \/ StopNext(t)

Spec == Init /\ [][Next]_vars
-----------------------------------------------------------------------------
\* A workspace that runs is the published one, or somebody is about to shut it
\* down: no interleaving of opens, initializations and status polls publishes a
\* workspace over another whose terminals and agents nobody could stop any more
\* (open_project, initialize_project, bind_completed_initialization_locked).
NoOrphan ==
  \A g \in Gen : live[g] => g = current \/ \E t \in Thread : target[t] = g /\ Stopping(t)

\* Opening another project or closing this one stops no terminal that was not
\* among those the user was shown and confirmed, also when terminals are
\* launched and closed while the dialog is up (confirmed, fence_resource_admission).
OnlyShownStops ==
  \A t \in Opener \cup Closer :
    Stopping(t) => terminals[target[t]] + Coming(target[t]) <= shown[t]

\* Once the shutdown has ended no workspace runs, nobody is inside and nobody
\* can come in any more (begin_shutdown).
DownForGood ==
  (\E t \in Quitter : At(t, "done")) =>
    /\ current = 0 /\ status = "closed"
    /\ \A g \in Gen : ~live[g] /\ terminals[g] = 0
    /\ \A t \in Thread \ Quitter : At(t, "idle")

\* The status that the window shows and that admits calls agrees with the
\* workspace there is, whenever nobody is in the middle of changing it
\* (RuntimeState).
StatusAgrees ==
  transition = Free /\ ~changing /\ ~shutting => (status = "open" <=> current # 0)

\* The coordinator at large: no workspace is lost sight of, no terminal stops
\* that was not shown, and a shutdown is for good.
CoordinatorSafe == NoOrphan /\ OnlyShownStops /\ DownForGood
=============================================================================
