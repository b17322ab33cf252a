-------------------------- MODULE TerminalRuntime --------------------------
(***************************************************************************)
(* The terminals of one workspace generation: the runtime that launches    *)
(* them with an identity of their own, the manager that keeps them, the    *)
(* registry that knows the agent runs in them, two monitors for each, and  *)
(* the shutdown of it all.  A launch takes many steps, each of which may   *)
(* fail and is then undone, and the manager lists a session long before    *)
(* its launch is over, so that it may be closed at any of them.            *)
(*                                                                         *)
(* A session is here only what it is to others: running, exited or closed  *)
(* (TerminalSession has the rest).  Every step between two locks is an     *)
(* action.                                                                 *)
(***************************************************************************)
EXTENDS Integers, FiniteSets, TLC

CONSTANTS
  Session,  \* the sessions ever launched
  Linked,   \* those among them launched for a plan or a task
  Faults    \* what may fail: spawn, register, bind, mint

VARIABLES
  gateClosed, cancelled, \* the runtime's gate, and the token of its monitors
  admissionClosed,       \* the manager's
  down, managerDown,     \* how far the two shutdowns are
  place,                 \* where the manager keeps each session
  proc,                  \* what each session is
  token,                 \* the event token of each
  run,                   \* what the registry has of each
  creator, closer, undoer, \* the operations on each: create, close, rollback
  exits, leases          \* the monitors of each: monitor_exit, monitor_attachment

shutting == <<gateClosed, cancelled, admissionClosed, down, managerDown>>
operations == <<creator, closer, undoer>>
monitors == <<exits, leases>>
vars == <<shutting, place, proc, token, run, operations, monitors>>

Init ==
  /\ gateClosed = FALSE /\ cancelled = FALSE /\ admissionClosed = FALSE
  /\ down = "no" /\ managerDown = "no"
  /\ place = [s \in Session |-> "none"] /\ proc = [s \in Session |-> "none"]
  /\ token = [s \in Session |-> "none"] /\ run = [s \in Session |-> "none"]
  /\ creator = [s \in Session |-> "idle"]
  /\ closer = [s \in Session |-> "idle"] /\ undoer = [s \in Session |-> "idle"]
  /\ exits = [s \in Session |-> "off"] /\ leases = [s \in Session |-> "off"]

\* Faulty: a launch that has succeeded keeps its operation.
IdleLeaky == {"idle", "ended"}
Idle == {"idle", "ended", "ready"}
Operations ==
  {s \in Session : creator[s] \notin Idle \/ closer[s] \notin Idle \/ undoer[s] \notin Idle}
Creates == {s \in Session : creator[s] = "spawn"}

\* Faulty: an operation begins while the runtime is closing.
BeginAlways == TRUE
\* RuntimeGate: an operation begins unless the runtime is closing.
Begin == ~gateClosed
Step(pc, s, from, to) == pc[s] = from /\ pc' = [pc EXCEPT ![s] = to]
-----------------------------------------------------------------------------
(* The identity of a terminal *)

\* A token is known to the registry by its run once it is bound to one.
Revoked(t) == IF t = "none" THEN t ELSE "revoked"
RevokePending(s) == token' = [token EXCEPT ![s] = Revoked(@)]
RevokeSession(s) == token' = [token EXCEPT ![s] = IF @ = "bound" THEN "revoked" ELSE @]
\* rollback_linked_terminal takes the record of a linked run out.
RemoveLinked(s) ==
  run' = [run EXCEPT ![s] = IF s \in Linked /\ @ # "none" THEN "removed" ELSE @]

ProcessExits(s) ==
  /\ proc[s] = "running" /\ proc' = [proc EXCEPT ![s] = "exited"]
  /\ UNCHANGED <<shutting, place, token, run, operations, monitors>>
-----------------------------------------------------------------------------
(* create_inner *)

Create(s) ==
  /\ Begin /\ Step(creator, s, "idle", "admit")
  /\ token' = [token EXCEPT ![s] = "issued"]
  /\ UNCHANGED <<shutting, place, proc, run, closer, undoer, monitors>>

Admit(s) ==
  /\ ~admissionClosed /\ Step(creator, s, "admit", "spawn")
  /\ UNCHANGED <<shutting, place, proc, token, run, closer, undoer, monitors>>

\* The session starts, and is listed unless the manager has closed meanwhile.
Spawn(s) ==
  /\ ~admissionClosed
  /\ Step(creator, s, "spawn", IF s \in Linked THEN "associate" ELSE "register")
  /\ place' = [place EXCEPT ![s] = "listed"] /\ proc' = [proc EXCEPT ![s] = "running"]
  /\ UNCHANGED <<shutting, token, run, closer, undoer, monitors>>

\* The manager has closed, before it counted the launch or while the session was
\* started; or the session does not start.
SpawnFails(s) ==
  /\ creator[s] \in {"admit", "spawn"}
  /\ admissionClosed \/ (creator[s] = "spawn" /\ "spawn" \in Faults)
  /\ creator' = [creator EXCEPT ![s] = "ended"]
  /\ proc' = [proc EXCEPT ![s] = IF creator[s] = "spawn" THEN "closed" ELSE @]
  /\ RevokePending(s)
  /\ UNCHANGED <<shutting, place, run, closer, undoer, monitors>>

\* associate_session wants a session that is listed and running.
Associate(s) ==
  /\ Step(creator, s, "associate",
          IF place[s] = "listed" /\ proc[s] = "running" THEN "register" ELSE "revoke")
  /\ UNCHANGED <<shutting, place, proc, token, run, closer, undoer, monitors>>

Register(s) ==
  /\ Step(creator, s, "register", "bind")
  /\ run' = [run EXCEPT ![s] = "active"]
  /\ UNCHANGED <<shutting, place, proc, token, closer, undoer, monitors>>

BindToken(s) ==
  /\ Step(creator, s, "bind", "mint")
  /\ token' = [token EXCEPT ![s] = "bound"]
  /\ UNCHANGED <<shutting, place, proc, run, closer, undoer, monitors>>

\* A run whose token cannot be bound is taken back, a linked one with the rest.
BindFails(s) ==
  /\ \/ "register" \in Faults /\ Step(creator, s, "register", "revoke") /\ UNCHANGED run
     \/ /\ "bind" \in Faults /\ Step(creator, s, "bind", "revoke")
        /\ run' = [run EXCEPT ![s] = IF s \in Linked THEN @ ELSE "removed"]
  /\ UNCHANGED <<shutting, place, proc, token, closer, undoer, monitors>>

\* mint_stream_ticket; then the monitors watch the session.
Mint(s) ==
  /\ place[s] = "listed" /\ Step(creator, s, "mint", "ready")
  /\ exits' = [exits EXCEPT ![s] = "wait"] /\ leases' = [leases EXCEPT ![s] = "wait"]
  /\ UNCHANGED <<shutting, place, proc, token, run, closer, undoer>>

MintFails(s) ==
  /\ place[s] # "listed" \/ "mint" \in Faults
  /\ Step(creator, s, "mint", "revoke")
  /\ UNCHANGED <<shutting, place, proc, token, run, closer, undoer, monitors>>

\* What a failed launch leaves is undone: tokens first, the run, the session.
UndoRevoke(s) ==
  /\ Step(creator, s, "revoke", "remove") /\ RevokePending(s)
  /\ UNCHANGED <<shutting, place, proc, run, closer, undoer, monitors>>

UndoRun(s) ==
  /\ Step(creator, s, "remove", "close") /\ RemoveLinked(s)
  /\ UNCHANGED <<shutting, place, proc, token, closer, undoer, monitors>>

\* close_session: out of the listing, then closed, then out of closing.
Unlist(s) == place' = [place EXCEPT ![s] = IF @ = "listed" THEN "closing" ELSE @]
CloseTarget(s) == IF place[s] = "listed" THEN "closing" ELSE "ended"
Closed(s) ==
  /\ proc' = [proc EXCEPT ![s] = "closed"]
  /\ place' = [place EXCEPT ![s] = "gone"]

UndoUnlist(s) ==
  /\ creator[s] = "close" /\ creator' = [creator EXCEPT ![s] = CloseTarget(s)]
  /\ Unlist(s)
  /\ UNCHANGED <<shutting, proc, token, run, closer, undoer, monitors>>

UndoClose(s) ==
  /\ Step(creator, s, "closing", "ended") /\ Closed(s)
  /\ UNCHANGED <<shutting, token, run, closer, undoer, monitors>>
-----------------------------------------------------------------------------
(* close, and the two rollbacks of a linked launch *)

CloseRequest(s) ==
  /\ Begin /\ place[s] # "none" /\ Step(closer, s, "idle", "unlist")
  /\ RevokeSession(s)
  /\ UNCHANGED <<shutting, place, proc, run, creator, undoer, monitors>>

CloseUnlist(s) ==
  /\ closer[s] = "unlist" /\ closer' = [closer EXCEPT ![s] = CloseTarget(s)]
  /\ Unlist(s)
  /\ UNCHANGED <<shutting, proc, token, run, creator, undoer, monitors>>

CloseFinish(s) ==
  /\ Step(closer, s, "closing", "ended") /\ Closed(s)
  /\ UNCHANGED <<shutting, token, run, creator, undoer, monitors>>

\* rollback_linked, and rollback_failed_linked when the launch is not confirmed.
Rollback(s) ==
  /\ Begin /\ s \in Linked /\ creator[s] = "ready" /\ run[s] \in {"active", "exited"}
  /\ Step(undoer, s, "idle", "unlist") /\ RevokeSession(s)
  /\ UNCHANGED <<shutting, place, proc, run, creator, closer, monitors>>

RollbackUnlist(s) ==
  /\ undoer[s] = "unlist"
  /\ undoer' = [undoer EXCEPT ![s] = IF place[s] = "listed" THEN "closing" ELSE "remove"]
  /\ Unlist(s)
  /\ UNCHANGED <<shutting, proc, token, run, creator, closer, monitors>>

RollbackClose(s) ==
  /\ Step(undoer, s, "closing", "remove") /\ Closed(s)
  /\ UNCHANGED <<shutting, token, run, creator, closer, monitors>>

RollbackRemove(s) ==
  /\ Step(undoer, s, "remove", "ended") /\ RemoveLinked(s)
  /\ UNCHANGED <<shutting, place, proc, token, creator, closer, monitors>>
-----------------------------------------------------------------------------
(* The monitors *)

ExitSeen(s) ==
  /\ proc[s] \in {"exited", "closed"}
  /\ exits[s] = "wait"
  /\ exits' = [exits EXCEPT ![s] = IF cancelled THEN "done" ELSE "record"]
  /\ IF cancelled THEN UNCHANGED token ELSE RevokeSession(s)
  /\ UNCHANGED <<shutting, place, proc, run, operations, leases>>

RecordExit(s) ==
  /\ Step(exits, s, "record", "done")
  /\ run' = [run EXCEPT ![s] = IF @ = "active" THEN "exited" ELSE @]
  /\ UNCHANGED <<shutting, place, proc, token, operations, leases>>

LeaseEnds(s) ==
  /\ cancelled \/ proc[s] = "closed"
  /\ Step(leases, s, "wait", "done")
  /\ UNCHANGED <<shutting, place, proc, token, run, operations, exits>>

LeaseExpires(s) ==
  /\ proc[s] # "closed" /\ Step(leases, s, "wait", "unlist")
  /\ RevokeSession(s)
  /\ UNCHANGED <<shutting, place, proc, run, operations, exits>>

LeaseUnlist(s) ==
  /\ leases[s] = "unlist"
  /\ leases' = [leases EXCEPT ![s] = IF place[s] = "listed" THEN "closing" ELSE "done"]
  /\ Unlist(s)
  /\ UNCHANGED <<shutting, proc, token, run, operations, exits>>

LeaseClose(s) ==
  /\ Step(leases, s, "closing", "done") /\ Closed(s)
  /\ UNCHANGED <<shutting, token, run, operations, exits>>
-----------------------------------------------------------------------------
(* Shutdown *)

CloseGate ==
  /\ down = "no" /\ down' = "drain" /\ gateClosed' = TRUE
  /\ UNCHANGED <<cancelled, admissionClosed, managerDown, place, proc, token, run, operations,
                 monitors>>

Drained == Operations = {}
DrainGate ==
  /\ down = "drain" /\ Drained /\ down' = "revoke" /\ cancelled' = TRUE
  /\ UNCHANGED <<gateClosed, admissionClosed, managerDown, place, proc, token, run, operations,
                 monitors>>

\* lifecycle_session_ids, then each is revoked.
RevokeAll ==
  /\ down = "revoke" /\ down' = "manager"
  /\ token' = [s \in Session |->
                 IF place[s] \in {"listed", "closing"} /\ token[s] = "bound" THEN "revoked"
                 ELSE token[s]]
  /\ admissionClosed' = TRUE /\ managerDown' = "creates"
  /\ UNCHANGED <<gateClosed, cancelled, place, proc, run, operations, monitors>>

\* The manager waits for its creates, takes all sessions and closes them.
TakeSessions ==
  /\ managerDown = "creates" /\ Creates = {} /\ managerDown' = "close"
  /\ place' = [s \in Session |-> IF place[s] \in {"listed", "closing"} THEN "taken" ELSE place[s]]
  /\ UNCHANGED <<gateClosed, cancelled, admissionClosed, down, proc, token, run, operations,
                 monitors>>

CloseTaken(s) ==
  /\ managerDown = "close" /\ place[s] = "taken"
  /\ Closed(s)
  /\ UNCHANGED <<shutting, token, run, operations, monitors>>

ManagerDone ==
  /\ managerDown = "close" /\ \A s \in Session : place[s] # "taken"
  /\ managerDown' = "done" /\ down' = "join"
  /\ UNCHANGED <<gateClosed, cancelled, admissionClosed, place, proc, token, run, operations,
                 monitors>>

JoinMonitors ==
  /\ down = "join" /\ down' = "done"
  /\ \A s \in Session : exits[s] \in {"off", "done"} /\ leases[s] \in {"off", "done"}
  /\ UNCHANGED <<gateClosed, cancelled, admissionClosed, managerDown, place, proc, token, run,
                 operations, monitors>>
-----------------------------------------------------------------------------
CreateNext(s) ==
  \/ Admit(s) \/ Spawn(s) \/ SpawnFails(s) \/ Associate(s) \/ Register(s)
  \/ BindToken(s) \/ BindFails(s) \/ Mint(s) \/ MintFails(s)
  \/ UndoRevoke(s) \/ UndoRun(s) \/ UndoUnlist(s) \/ UndoClose(s)
CloseNext(s) == CloseUnlist(s) \/ CloseFinish(s)
RollbackNext(s) == RollbackUnlist(s) \/ RollbackClose(s) \/ RollbackRemove(s)
ExitNext(s) == ExitSeen(s) \/ RecordExit(s)
LeaseNext(s) == LeaseEnds(s) \/ LeaseUnlist(s) \/ LeaseClose(s)
DownNext ==
  \/ DrainGate \/ RevokeAll \/ TakeSessions \/ ManagerDone \/ JoinMonitors
  \/ \E s \in Session : CloseTaken(s)

Next ==
  \/ CloseGate \/ DownNext
  \/ \E s \in Session :
       \/ ProcessExits(s) \/ Create(s) \/ CloseRequest(s) \/ Rollback(s) \/ LeaseExpires(s)
       \/ CreateNext(s) \/ CloseNext(s) \/ RollbackNext(s) \/ ExitNext(s) \/ LeaseNext(s)

\* Whoever has begun goes on: operations, monitors and the shutdown.  No more is
\* assumed than that one of them does, as each has an end.
Going ==
  \/ DownNext
  \/ \E s \in Session :
       CreateNext(s) \/ CloseNext(s) \/ RollbackNext(s) \/ ExitNext(s) \/ LeaseNext(s)
Fairness == WF_vars(Going)

Spec == Init /\ [][Next]_vars /\ Fairness
-----------------------------------------------------------------------------
\* When the shutdown of the runtime has ended, nothing of any launch is left:
\* no process, no operation and no monitor, and no session that still runs is
\* able to speak (shutdown).
ShutdownComplete ==
  down = "done" =>
    /\ Operations = {}
    /\ \A s \in Session :
         /\ proc[s] \in {"none", "closed"}
         /\ place[s] \in {"none", "gone"}
         /\ exits[s] # "wait" /\ leases[s] # "wait"

\* A session that has been closed by whoever cannot speak any more, once its
\* launch and its exit monitor are through with it (create_inner, close_session,
\* monitor_exit).  A shutdown cuts the exit monitor off; the registry, which is
\* shut down next, then drops every token (AgentRegistry).
ClosedIsMute ==
  \A s \in Session :
    place[s] = "gone" /\ creator[s] \in Idle /\ exits[s] # "wait" /\ ~cancelled
      => token[s] = "revoked"

\* A linked launch that is undone leaves no run behind, at whatever step it
\* failed or its session was closed by somebody else (remove_linked_session).
UndoneLeavesNothing ==
  \A s \in Session \cap Linked : creator[s] = "ended" => run[s] \in {"none", "removed"}

\* The shutdown ends, whatever launches, closes and monitors are under way.
ShutdownEnds == down = "drain" ~> down = "done"

\* The runtime at large: a shutdown is complete, a closed session is mute and a
\* launch that is undone leaves nothing.
RuntimeSafe == ShutdownComplete /\ ClosedIsMute /\ UndoneLeavesNothing
=============================================================================
