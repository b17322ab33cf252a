--------------------------- MODULE ServiceProofs ----------------------------
(***************************************************************************)
(* The parts of the desktop that serve its terminals, its agents and its   *)
(* stores are safe for any number of launches, loops, commands, requests,  *)
(* threads and files.  They share no state, and each has an invariant of   *)
(* its own:                                                                *)
(*                                                                         *)
(*   TerminalRuntime - what a launch's creator has done so far to the      *)
(*     session, its token and its run, and that what a shutdown has waited *)
(*     for stays so (Inv);                                                 *)
(*   McpTransport - the slot is held by the one thread that waits, and a   *)
(*     line is open exactly while it is answered (McpInv);                 *)
(*   GitRunner - the permits that are out are the pipes not yet released,  *)
(*     and what is kept of the output is all of it while the budget lasts  *)
(*     (GitInv);                                                           *)
(*   AgentService - the stages of the owner of a generation, the requests  *)
(*     that it still has to answer and what is due to their senders        *)
(*     (ServiceInv);                                                       *)
(*   StoreFile - whoever has just locked a file is alone with it, and a    *)
(*     file is a copy of another one as long as its writer waits           *)
(*     (FilesInv).                                                         *)
(***************************************************************************)
EXTENDS TerminalRuntime, McpTransport, GitRunner, AgentService, StoreFile, FiniteSetTheorems,
  SequenceTheorems, TLAPS

-----------------------------------------------------------------------------
(* The terminals of a workspace *)

CreatorStep == {"idle", "admit", "spawn", "associate", "register", "bind", "mint", "ready",
                "revoke", "remove", "close", "closing", "ended"}
ExitStep == {"off", "wait", "record", "done"}
LeaseStep == {"off", "wait", "unlist", "closing", "done"}

\* The types of the state.
Typed ==
  /\ gateClosed \in BOOLEAN /\ cancelled \in BOOLEAN /\ admissionClosed \in BOOLEAN
  /\ down \in {"no", "drain", "revoke", "manager", "join", "done"}
  /\ managerDown \in {"no", "creates", "close", "done"}
  /\ place \in [Session -> {"none", "listed", "closing", "taken", "gone"}]
  /\ proc \in [Session -> {"none", "running", "exited", "closed"}]
  /\ token \in [Session -> {"none", "issued", "bound", "revoked"}]
  /\ run \in [Session -> {"none", "active", "exited", "removed"}]
  /\ creator \in [Session -> CreatorStep]
  /\ closer \in [Session -> {"idle", "unlist", "closing", "ended"}]
  /\ undoer \in [Session -> {"idle", "unlist", "closing", "remove", "ended"}]
  /\ exits \in [Session -> ExitStep] /\ leases \in [Session -> LeaseStep]

\* The flags follow the two shutdowns, and the manager's runs inside the runtime's.
Phases ==
  /\ gateClosed <=> down # "no"
  /\ cancelled <=> down \notin {"no", "drain"}
  /\ admissionClosed <=> managerDown # "no"
  /\ managerDown \in {"creates", "close"} <=> down = "manager"
  /\ managerDown = "done" <=> down \in {"join", "done"}

\* What a launch has done by the step that its creator is at.
Launch(s) ==
  /\ creator[s] \in {"idle", "admit", "spawn"} => place[s] = "none" /\ proc[s] = "none"
  /\ creator[s] \in {"idle", "admit", "spawn", "associate", "register"} => run[s] = "none"
  /\ creator[s] # "idle" => token[s] # "none"
  /\ creator[s] \in {"mint", "ready"} => token[s] \in {"bound", "revoked"}
  /\ creator[s] \in {"remove", "close", "closing", "ended"} => token[s] = "revoked"
  /\ creator[s] \in {"close", "closing", "ended"} /\ s \in Linked => run[s] \in {"none", "removed"}
  /\ creator[s] = "ready" <=> exits[s] # "off"
  /\ exits[s] \in {"record", "done"} /\ ~cancelled => token[s] = "revoked"
  /\ place[s] = "none" =>
       /\ proc[s] \in {"none", "closed"}
       /\ creator[s] # "ready" /\ closer[s] = "idle" /\ undoer[s] = "idle" /\ leases[s] = "off"
  /\ place[s] = "gone" => proc[s] = "closed"

\* What the shutdown has waited for stays so.
Quiet(s) ==
  /\ cancelled => creator[s] \in Idle /\ closer[s] \in Idle /\ undoer[s] \in Idle
  /\ managerDown \in {"close", "done"} => place[s] \notin {"listed", "closing"}
  /\ managerDown = "done" => place[s] # "taken"
  /\ down = "done" => exits[s] \in {"off", "done"} /\ leases[s] \in {"off", "done"}

Inv == Typed /\ Phases /\ \A s \in Session : Launch(s) /\ Quiet(s)

LEMMA InitInv == Init => Inv
<1> SUFFICES ASSUME Init PROVE Inv OBVIOUS
<1> USE DEF Init, CreatorStep, ExitStep, LeaseStep
<1>1. Typed BY DEF Typed
<1>2. Phases BY DEF Phases
<1>3. \A s \in Session : Launch(s) BY DEF Launch
<1>4. \A s \in Session : Quiet(s) BY DEF Quiet, Idle
<1>5. QED BY <1>1, <1>2, <1>3, <1>4 DEF Inv

LEMMA InvImplies == Inv => RuntimeSafe
<1> SUFFICES ASSUME Inv PROVE RuntimeSafe OBVIOUS
<1> USE DEF Inv, Typed, Phases, Launch, Quiet
<1>1. ShutdownComplete BY DEF ShutdownComplete, Operations
<1>2. ClosedIsMute BY DEF ClosedIsMute, Idle, ExitStep, CreatorStep
<1>3. UndoneLeavesNothing BY DEF UndoneLeavesNothing
<1>4. QED BY <1>1, <1>2, <1>3 DEF RuntimeSafe

LEMMA CreateInv == ASSUME Inv, NEW s \in Session, Create(s) \/ CreateNext(s) PROVE Inv'
<1> USE DEF Inv, Typed, CreatorStep, ExitStep, LeaseStep, Phases, Launch, Quiet, Idle, Step, shutting,
            operations, monitors
<1>1. CASE Create(s) BY <1>1 DEF Create, Begin
<1>2. CASE Admit(s) BY <1>2 DEF Admit
<1>3. CASE Spawn(s) BY <1>3 DEF Spawn
<1>4. CASE SpawnFails(s) BY <1>4 DEF SpawnFails, RevokePending, Revoked
<1>5. CASE Associate(s) BY <1>5 DEF Associate
<1>6. CASE Register(s) BY <1>6 DEF Register
<1>7. CASE BindToken(s) BY <1>7 DEF BindToken
<1>8. CASE BindFails(s) BY <1>8 DEF BindFails
<1>9. CASE Mint(s) BY <1>9 DEF Mint
<1>10. CASE MintFails(s) BY <1>10 DEF MintFails
<1>11. CASE UndoRevoke(s) BY <1>11 DEF UndoRevoke, RevokePending, Revoked
<1>12. CASE UndoRun(s) BY <1>12 DEF UndoRun, RemoveLinked
<1>13. CASE UndoUnlist(s) BY <1>13 DEF UndoUnlist, Unlist, CloseTarget
<1>14. CASE UndoClose(s) BY <1>14 DEF UndoClose, Closed
<1>15. QED BY <1>1, <1>2, <1>3, <1>4, <1>5, <1>6, <1>7, <1>8, <1>9, <1>10, <1>11, <1>12,
              <1>13, <1>14 DEF CreateNext

LEMMA CloseInv == ASSUME Inv, NEW s \in Session, CloseRequest(s) \/ CloseNext(s) PROVE Inv'
<1> USE DEF Inv, Typed, CreatorStep, ExitStep, LeaseStep, Phases, Launch, Quiet, Idle, Step,
            shutting, operations, monitors
<1>1. CASE CloseRequest(s) BY <1>1 DEF CloseRequest, Begin, RevokeSession
<1>2. CASE CloseUnlist(s) BY <1>2 DEF CloseUnlist, CloseTarget, Unlist
<1>3. CASE CloseFinish(s) BY <1>3 DEF CloseFinish, Closed
<1>4. QED BY <1>1, <1>2, <1>3 DEF CloseNext

LEMMA RollbackInv == ASSUME Inv, NEW s \in Session, Rollback(s) \/ RollbackNext(s) PROVE Inv'
<1> USE DEF Inv, Typed, CreatorStep, ExitStep, LeaseStep, Phases, Launch, Quiet, Idle, Step,
            shutting, operations, monitors
<1>1. CASE Rollback(s) BY <1>1 DEF Rollback, Begin, RevokeSession
<1>2. CASE RollbackUnlist(s) BY <1>2 DEF RollbackUnlist, Unlist
<1>3. CASE RollbackClose(s) BY <1>3 DEF RollbackClose, Closed
<1>4. CASE RollbackRemove(s) BY <1>4 DEF RollbackRemove, RemoveLinked
<1>5. QED BY <1>1, <1>2, <1>3, <1>4 DEF RollbackNext

LEMMA MonitorInv ==
  ASSUME Inv, NEW s \in Session, ProcessExits(s) \/ ExitNext(s) \/ LeaseExpires(s) \/ LeaseNext(s)
  PROVE Inv'
<1> USE DEF Inv, Typed, CreatorStep, ExitStep, LeaseStep, Phases, Launch, Quiet, Idle, Step,
            shutting, operations, monitors
<1>1. CASE ProcessExits(s) BY <1>1 DEF ProcessExits
<1>2. CASE ExitSeen(s) BY <1>2 DEF ExitSeen, RevokeSession
<1>3. CASE RecordExit(s) BY <1>3 DEF RecordExit
<1>4. CASE LeaseExpires(s) BY <1>4 DEF LeaseExpires, RevokeSession
<1>5. CASE LeaseEnds(s) BY <1>5 DEF LeaseEnds
<1>6. CASE LeaseUnlist(s) BY <1>6 DEF LeaseUnlist, Unlist
<1>7. CASE LeaseClose(s) BY <1>7 DEF LeaseClose, Closed
<1>8. QED BY <1>1, <1>2, <1>3, <1>4, <1>5, <1>6, <1>7 DEF ExitNext, LeaseNext

LEMMA DownInv == ASSUME Inv, CloseGate \/ DownNext PROVE Inv'
<1> USE DEF Inv, Typed, CreatorStep, ExitStep, LeaseStep, Phases, Launch, Quiet, Idle,
            shutting, operations, monitors
<1>1. CASE CloseGate BY <1>1 DEF CloseGate
<1>2. CASE DrainGate BY <1>2 DEF DrainGate, Drained, Operations
<1>3. CASE RevokeAll BY <1>3 DEF RevokeAll
<1>4. CASE TakeSessions BY <1>4 DEF TakeSessions
<1>5. CASE ManagerDone BY <1>5 DEF ManagerDone
<1>6. CASE JoinMonitors BY <1>6 DEF JoinMonitors
<1>7. CASE \E s \in Session : CloseTaken(s) BY <1>7 DEF CloseTaken, Closed
<1>8. QED BY <1>1, <1>2, <1>3, <1>4, <1>5, <1>6, <1>7 DEF DownNext

LEMMA InvNext == Inv /\ [Next]_vars => Inv'
<1> SUFFICES ASSUME Inv, [Next]_vars PROVE Inv' OBVIOUS
<1>1. CASE UNCHANGED vars
  BY <1>1 DEF vars, shutting, operations, monitors, Inv, Typed, Phases, Launch, Quiet
<1>2. CASE Next BY <1>2, CreateInv, CloseInv, RollbackInv, MonitorInv, DownInv DEF Next
<1>3. QED BY <1>1, <1>2

\* Whatever launches, closes, rollbacks, exits and shutdowns interleave: the
\* shutdown leaves nothing behind, a session that was closed cannot speak, and
\* a linked launch that was undone leaves no run (create_inner, close_session,
\* rollback_linked_terminal, shutdown).
THEOREM RuntimeIsSafe == Spec => []RuntimeSafe
<1>1. Inv /\ [][Next]_vars => []Inv BY InvNext, PTL
<1>2. QED BY <1>1, InitInv, InvImplies, PTL DEF Spec

-----------------------------------------------------------------------------
(* The transport of the planning server *)

LoopPlace == {"none", "waiting", "serving", "answering"} \cup LoopEnded
LoopsTyped ==
  /\ loop \in [Loops -> [at : LoopPlace, cancelled : BOOLEAN, initialized : BOOLEAN]]
  /\ thread \in [Loops -> {"none", "reading", "sending", "ended"}]
  /\ called \in [Loops -> BOOLEAN] /\ unanswered \in [Loops -> {0, 1}]

\* The slot is held by the thread that waits for input or for room, and by no other.
SlotIsHeld ==
  /\ slot = {l \in Loops : thread[l] \in {"reading", "sending"}}
  /\ \A l, k \in slot : l = k

\* A line is open exactly while it is answered, or the loop ended over it.
LinesOpen ==
  \A l \in Loops :
    /\ loop[l].at \in {"none", "waiting", "serving", "complete"} => unanswered[l] = 0
    /\ loop[l].at = "answering" => unanswered[l] = 1
    /\ called[l] => loop[l].initialized

McpInv == LoopsTyped /\ SlotIsHeld /\ LinesOpen

LEMMA McpInitInv == McpInit => McpInv
  BY DEF McpInit, McpInv, LoopsTyped, SlotIsHeld, LinesOpen, LoopPlace, LoopEnded

LEMMA McpStep ==
  ASSUME McpInv, McpNext
  PROVE  McpInv'
<1> USE DEF McpInv, LoopsTyped, LoopPlace, LoopEnded
<1> PICK l \in Loops :
      \/ Serve(l) \/ CancelLoop(l) \/ AcquireSlot(l) \/ Stop(l) \/ NextLine(l) \/ Answer(l)
      \/ ReadLine(l) \/ SendLine(l)
  BY DEF McpNext
<1>1. CASE Serve(l)
  BY <1>1 DEF Serve, LoopMoves, SlotIsHeld, LinesOpen
<1>2. CASE CancelLoop(l)
  <2>1. LoopsTyped'
    BY <1>2 DEF CancelLoop
  <2>2. \A k \in Loops : loop'[k].at = loop[k].at /\ loop'[k].initialized = loop[k].initialized
    BY <1>2 DEF CancelLoop
  <2>3. LinesOpen'
    BY <1>2, <2>2 DEF CancelLoop, LinesOpen
  <2>4. SlotIsHeld'
    BY <1>2 DEF CancelLoop, SlotIsHeld
  <2> QED BY <2>1, <2>3, <2>4
<1>3. CASE AcquireSlot(l)
  <2>1. LoopsTyped'
    BY <1>3 DEF AcquireSlot, LoopMoves
  <2>2. PICK to \in {"serving", "cancelled", "failed"} : loop' = [loop EXCEPT ![l].at = to]
    BY <1>3 DEF AcquireSlot, LoopMoves
  <2>3. LinesOpen'
    BY <1>3, <2>2 DEF AcquireSlot, LinesOpen
  <2>4. SlotIsHeld'
    BY <1>3 DEF AcquireSlot, SlotIsHeld
  <2> QED BY <2>1, <2>3, <2>4
<1>4. CASE Stop(l)
  BY <1>4 DEF Stop, Ends, LoopMoves, SlotIsHeld, LinesOpen
<1>5. CASE NextLine(l)
  <2> DEFINE line == Head(queue[l])
  <2>1. SlotIsHeld' 
    BY <1>5 DEF NextLine, Ends, SlotIsHeld
  <2>2. CASE line \in {"eof", "error"}
    BY <1>5, <2>1, <2>2 DEF NextLine, Ends, LoopMoves, LinesOpen
  <2>3. CASE line \notin {"eof", "error"}
    <3>1. /\ loop' = [loop EXCEPT ![l].at = IF Wants(line) THEN "answering" ELSE @,
                                  ![l].initialized = @ \/ line = "initialize"]
          /\ called' = IF line = "call" /\ loop[l].initialized
                       THEN [called EXCEPT ![l] = TRUE] ELSE called
          /\ unanswered' = IF Wants(line) THEN [unanswered EXCEPT ![l] = @ + 1] ELSE unanswered
          /\ thread' = thread /\ loop[l].at = "serving" /\ unanswered[l] = 0
      BY <1>5, <2>3 DEF NextLine, LinesOpen
    <3>2. LoopsTyped'
      <4>1. loop' \in [Loops -> [at : LoopPlace, cancelled : BOOLEAN, initialized : BOOLEAN]]
        <5> DEFINE at == IF Wants(line) THEN "answering" ELSE loop[l].at
                   init == loop[l].initialized \/ line = "initialize"
              new == [loop[l] EXCEPT !.at = at, !.initialized = init]
        <5>1. at \in LoopPlace /\ init \in BOOLEAN
          OBVIOUS
        <5>2. loop' = [loop EXCEPT ![l] = new]
          BY <3>1
        <5>3. loop[l] \in [at : LoopPlace, cancelled : BOOLEAN, initialized : BOOLEAN]
          OBVIOUS
        <5> HIDE DEF at, init
        <5>4. new \in [at : LoopPlace, cancelled : BOOLEAN, initialized : BOOLEAN]
          BY <5>1, <5>3
        <5> HIDE DEF new
        <5> QED BY <5>2, <5>4
      <4>2. called' \in [Loops -> BOOLEAN] /\ unanswered' \in [Loops -> {0, 1}]
        BY <3>1
      <4> QED BY <3>1, <4>1, <4>2
    <3>3. LinesOpen'
      BY <3>1 DEF LinesOpen
    <3> QED BY <2>1, <3>2, <3>3
  <2> QED BY <2>2, <2>3
<1>6. CASE Answer(l)
  <2>1. SlotIsHeld' /\ loop[l].at = "answering" /\ unanswered[l] = 1
    BY <1>6 DEF Answer, Ends, SlotIsHeld, LinesOpen
  <2>2. LoopsTyped' /\ LinesOpen'
    BY SMTT(30), <1>6, <2>1 DEF Answer, Ends, LoopMoves, LinesOpen
  <2> QED BY <2>1, <2>2
<1>7. CASE ReadLine(l)
  BY <1>7 DEF ReadLine, SlotIsHeld, LinesOpen
<1>8. CASE SendLine(l)
  <2>1. LoopsTyped' /\ LinesOpen'
    BY <1>8 DEF SendLine, LinesOpen
  <2>2. SlotIsHeld'
    BY <1>8 DEF SendLine, SlotIsHeld
  <2> QED BY <2>1, <2>2
<1> QED BY <1>1, <1>2, <1>3, <1>4, <1>5, <1>6, <1>7, <1>8

LEMMA McpInvSafe == McpInv => McpSafe
<1> SUFFICES ASSUME McpInv PROVE OneReader /\ Answered
  BY DEF McpSafe
<1>1. Cardinality(slot) <= 1
  <2>1. CASE slot = {}
    BY <2>1, FS_EmptySet
  <2>2. CASE slot # {}
    <3> PICK l \in slot : slot = {l}
      BY <2>2 DEF McpInv, SlotIsHeld
    <3> QED BY FS_Singleton
  <2> QED BY <2>1, <2>2
<1>2. OneReader
  BY <1>1 DEF OneReader, McpInv, SlotIsHeld
<1>3. Answered
  BY DEF Answered, McpInv, LoopsTyped, LinesOpen
<1> QED BY <1>2, <1>3

\* However often loops are cancelled and begun again, at most one thread waits for
\* input, and every line that wants an answer has it before the next one is looked at.
THEOREM TransportIsSafe == McpSpec => []McpSafe
<1>1. McpInv /\ [McpNext]_mcpvars => McpInv'
  <2> SUFFICES ASSUME McpInv, [McpNext]_mcpvars PROVE McpInv'
    OBVIOUS
  <2>1. CASE McpNext
    BY <2>1, McpStep
  <2>2. CASE UNCHANGED mcpvars
    BY <2>2 DEF mcpvars, McpInv, LoopsTyped, SlotIsHeld, LinesOpen
  <2> QED BY <2>1, <2>2
<1> QED BY <1>1, McpInitInv, McpInvSafe, PTL DEF McpSpec

-----------------------------------------------------------------------------
(* One git command *)

PipeType == [reader : {"none", "reading", "eof", "error"}, released : BOOLEAN, reads : Nat]
CommandType ==
  [pc : {"idle", "spawned", "permitted", "polling", "joining", "judging", "done"},
   cancelled : BOOLEAN, child : {"none", "running", "exited", "reaped"},
   exit : {"none", "ok", "bad", "killed"}, kid : {"none", "group", "away"},
   pipe : [Pipe -> PipeType], remaining : Nat, exceeded : BOOLEAN, kept : Nat,
   ended : {"none", "cancelled", "limit", "timeout", "wait"}, drained : BOOLEAN,
   result : {"none", "ok", "cancelled", "failed", "limit", "timeout"}]

\* What is kept of a command's output is all of it, as long as the budget lasts.
Budgeted(v) ==
  /\ v.kept + v.remaining <= OutputLimit
  /\ ~v.exceeded => v.kept = v.pipe["stdout"].reads

\* The child is there from its spawn until it is reaped, and a reader that saw the end
\* of its pipe saw that nobody holds it any more.
Parented(v) ==
  /\ v.pc = "idle" => /\ v.child = "none" /\ v.kid = "none"
                      /\ \A p \in Pipe : v.pipe[p].reader = "none"
  /\ v.pc \in {"spawned", "permitted"} => v.pipe["stderr"].reader = "none"
  /\ v.pc \in {"spawned", "permitted", "polling"} => v.child \in {"running", "exited"}
  /\ v.pc \in {"joining", "judging"} => v.child = "reaped"
  /\ v.pc = "done" => v.child \in {"none", "reaped"}
  /\ \A p \in Pipe : v.pipe[p].reader = "eof" => v.child # "running" /\ v.kid = "none"
  /\ v.pc \in {"joining", "judging", "done"} /\ v.kid = "group" =>
       \E p \in Pipe : v.pipe[p].reader = "error"

\* Permits are out from their acquisition until the readers are joined, and what is
\* answered as the output was drained to its end.
Answering(v) ==
  /\ v.pc \in {"idle", "spawned", "judging", "done"} =>
       \A p \in Pipe : v.pipe[p].released
  /\ v.pc = "judging" /\ v.drained => \A p \in Pipe : v.pipe[p].reader = "eof"
  /\ v.result = "ok" =>
       /\ v.pc = "done" /\ ~v.exceeded /\ v.exit = "ok"
       /\ \A p \in Pipe : v.pipe[p].reader = "eof"

CommandInv(v) == v \in CommandType /\ Budgeted(v) /\ Parented(v) /\ Answering(v)

Out == {x \in Commands \X Pipe : ~cmd[x[1]].pipe[x[2]].released}

GitInv ==
  /\ \A c \in Commands : CommandInv(cmd[c])
  /\ cmd \in [Commands -> CommandType]
  /\ active \in 0..ReaderLimit /\ IsFiniteSet(Out) /\ active = Cardinality(Out)
-----------------------------------------------------------------------------
\* A command that returns: all of its permits are back, and nobody is left but by a
\* pipe that could not be read.
LEMMA Returned ==
  ASSUME NEW v, v \in CommandType, \A p \in Pipe : v.pipe[p].released,
         v.child \in {"none", "reaped"},
         \A p \in Pipe : v.pipe[p].reader = "eof" => v.kid = "none",
         v.kid = "group" => \E p \in Pipe : v.pipe[p].reader = "error",
         NEW r \in {"cancelled", "failed", "limit", "timeout"}
  PROVE  CommandInv(Finish(v, r)) /\ \A p \in Pipe : Finish(v, r).pipe[p].released
<1> DEFINE w == Finish(v, r)
<1>1. w = [NoCommand EXCEPT !.pc = "done", !.result = r, !.child = v.child, !.kid = v.kid,
                            !.pipe = [p \in Pipe |-> [v.pipe[p] EXCEPT !.reads = 0]]]
  BY DEF Finish
<1>2. [p \in Pipe |-> [v.pipe[p] EXCEPT !.reads = 0]] \in [Pipe -> PipeType]
  BY DEF CommandType, PipeType
<1>3. w \in CommandType
  <2>1. w = [pc |-> "done", cancelled |-> FALSE, child |-> v.child, exit |-> "none",
             kid |-> v.kid, pipe |-> [p \in Pipe |-> [v.pipe[p] EXCEPT !.reads = 0]],
             remaining |-> OutputLimit, exceeded |-> FALSE, kept |-> 0, ended |-> "none",
             drained |-> FALSE, result |-> r]
    BY <1>1 DEF NoCommand
  <2> QED BY <2>1, <1>2, RunnerBounds DEF CommandType
<1>4. /\ w.pc = "done" /\ w.result = r /\ w.child = v.child /\ w.kid = v.kid
      /\ w.kept = 0 /\ w.remaining = OutputLimit /\ ~w.exceeded
      /\ w.pipe = [p \in Pipe |-> [v.pipe[p] EXCEPT !.reads = 0]]
  BY <1>1 DEF NoCommand
<1>5. \A p \in Pipe : /\ w.pipe[p].reader = v.pipe[p].reader /\ w.pipe[p].released
                      /\ w.pipe[p].reads = 0
  BY <1>4 DEF CommandType, PipeType
<1>6. Budgeted(w)
  BY <1>4, <1>5, RunnerBounds DEF Budgeted, Pipe
<1>7. Parented(w)
  BY <1>4, <1>5 DEF Parented
<1>8. Answering(w)
  BY <1>4, <1>5 DEF Answering
<1> HIDE DEF w
<1> QED BY <1>3, <1>5, <1>6, <1>7, <1>8 DEF CommandInv, w

\* The group is killed and its leader waited for.
LEMMA Reaping ==
  ASSUME NEW v, v \in CommandType
  PROVE  /\ Killed(v) \in CommandType
         /\ Killed(v).child = "reaped" /\ Killed(v).kid # "group"
         /\ v.kid = "none" => Killed(v).kid = "none"
         /\ Killed(v).pipe = v.pipe /\ Killed(v).kept = v.kept
         /\ Killed(v).remaining = v.remaining /\ Killed(v).exceeded = v.exceeded
         /\ Killed(v).result = v.result /\ Killed(v).drained = v.drained
<1>1. Killed(v) \in CommandType
  <2> DEFINE e == IF v.child = "running" THEN "killed" ELSE v.exit
             k == IF v.kid = "group" THEN "none" ELSE v.kid
  <2>1. e \in {"none", "ok", "bad", "killed"} /\ k \in {"none", "group", "away"}
    BY DEF CommandType
  <2>2. Killed(v) = [v EXCEPT !.child = "reaped", !.exit = e, !.kid = k]
    BY DEF Killed
  <2> HIDE DEF e, k
  <2> QED BY ZenonT(40), <2>1, <2>2 DEF CommandType
<1> QED BY <1>1 DEF Killed, CommandType


LEMMA HeldAt ==
  ASSUME NEW v, NEW p
  PROVE  Held(v, {p}) = IF v.pipe[p].released THEN 0 ELSE 1
<1>1. CASE v.pipe[p].released
  <2>1. {q \in {p} : ~v.pipe[q].released} = {}
    BY <1>1
  <2> QED BY <1>1, <2>1, FS_EmptySet DEF Held
<1>2. CASE ~v.pipe[p].released
  <2>1. {q \in {p} : ~v.pipe[q].released} = {p}
    BY <1>2
  <2> QED BY <1>2, <2>1, FS_Singleton DEF Held
<1> QED BY <1>1, <1>2

LEMMA HeldAtBoth ==
  ASSUME NEW v
  PROVE  Held(v, Pipe) = Held(v, {"stdout"}) + Held(v, {"stderr"})
<1> DEFINE S == {p \in {"stdout"} : ~v.pipe[p].released}
           T == {p \in {"stderr"} : ~v.pipe[p].released}
<1>1. {p \in Pipe : ~v.pipe[p].released} = S \cup T /\ Held(v, {"stdout"}) = Cardinality(S)
  BY DEF Pipe, Held
<1>2. IsFiniteSet(S)
  <2>1. S = {} \/ S = {"stdout"}
    OBVIOUS
  <2> HIDE DEF S
  <2> QED BY <2>1, FS_EmptySet, FS_Singleton
<1>3. CASE v.pipe["stderr"].released
  <2>1. S \cup T = S
    BY <1>3
  <2>2. Cardinality(S) \in Nat
    BY <1>2, FS_CardinalityType
  <2>3. Held(v, Pipe) = Cardinality(S)
    BY <1>1, <2>1 DEF Held
  <2>4. Held(v, {"stderr"}) = 0
    BY <1>3, HeldAt
  <2> HIDE DEF S
  <2> QED BY <1>1, <2>2, <2>3, <2>4
<1>4. CASE ~v.pipe["stderr"].released
  <2>1. S \cup T = S \cup {"stderr"} /\ "stderr" \notin S
    BY <1>4
  <2>2. Cardinality(S \cup {"stderr"}) = Cardinality(S) + 1
    BY <1>2, <2>1, FS_AddElement
  <2>3. Held(v, Pipe) = Cardinality(S \cup {"stderr"})
    BY <1>1, <2>1 DEF Held
  <2> QED BY <1>1, <1>4, <2>2, <2>3, HeldAt
<1> QED BY <1>3, <1>4

\* Whoever gives places back subtracts as many as it gives, so the counter is right.
LEMMA PlacesGivenBack ==
  ASSUME GitInv, NEW c \in Commands, NEW w, cmd' = [cmd EXCEPT ![c] = w],
         NEW ps \in {Pipe, {"stdout"}, {"stderr"}},
         \A p \in Pipe : w.pipe[p].released <=> cmd[c].pipe[p].released \/ p \in ps,
         active' = active - Held(cmd[c], ps)
  PROVE  active' \in 0..ReaderLimit /\ IsFiniteSet(Out') /\ active' = Cardinality(Out')
<1> DEFINE Of(p) == IF cmd[c].pipe[p].released THEN 0 ELSE 1
<1>1. ASSUME NEW p \in Pipe, NEW S, IsFiniteSet(S), <<c, p>> \in S <=> ~cmd[c].pipe[p].released
      PROVE  /\ IsFiniteSet(S \ {<<c, p>>})
             /\ Cardinality(S \ {<<c, p>>}) = Cardinality(S) - Of(p)
  <2>1. Cardinality(S) \in Nat
    BY <1>1, FS_CardinalityType
  <2>2. \A x : /\ IsFiniteSet(S \ {x})
               /\ Cardinality(S \ {x}) = IF x \in S THEN Cardinality(S) - 1 ELSE Cardinality(S)
    BY <1>1, FS_RemoveElement
  <2>3. CASE cmd[c].pipe[p].released
    <3>1. Of(p) = 0 /\ <<c, p>> \notin S
      BY <1>1, <2>3
    <3>2. IsFiniteSet(S \ {<<c, p>>}) /\ Cardinality(S \ {<<c, p>>}) = Cardinality(S)
      BY <2>2, <3>1, Zenon
    <3> HIDE DEF Of
    <3> QED BY <2>1, <3>1, <3>2
  <2>4. CASE ~cmd[c].pipe[p].released
    BY <1>1, <2>1, <2>2, <2>4
  <2> QED BY <2>3, <2>4
<1>2. \A p \in Pipe : <<c, p>> \in Out <=> ~cmd[c].pipe[p].released
  BY DEF Out
<1>3. Out' = Out \ {<<c, p>> : p \in ps}
  <2>1. \A d \in Commands, p \in Pipe :
          cmd'[d].pipe[p].released <=> cmd[d].pipe[p].released \/ (d = c /\ p \in ps)
    BY DEF GitInv
  <2>2. \A x \in Commands \X Pipe : x \in Out' <=> x \in Out /\ x \notin {<<c, p>> : p \in ps}
    BY <2>1 DEF Out
  <2>3. Out' \subseteq Commands \X Pipe /\ Out \subseteq Commands \X Pipe
    BY DEF Out
  <2> QED BY <2>2, <2>3
<1>4. active \in Nat /\ IsFiniteSet(Out) /\ active = Cardinality(Out)
  BY RunnerBounds DEF GitInv
<1>5. IsFiniteSet(Out') /\ active' = Cardinality(Out')
  <2>1. CASE ps # Pipe
    <3>1. PICK p \in Pipe : ps = {p}
      BY <2>1 DEF Pipe
    <3>2. Out' = Out \ {<<c, p>>}
      BY <1>3, <3>1
    <3>3. Held(cmd[c], ps) = Of(p)
      BY <3>1, HeldAt
    <3> QED BY <1>1, <1>2, <1>4, <3>2, <3>3
  <2>2. CASE ps = Pipe
    <3> DEFINE S == Out \ {<<c, "stdout">>}
    <3>1. Out' = S \ {<<c, "stderr">>}
      BY <1>3, <2>2 DEF Pipe
    <3>2. Held(cmd[c], ps) = Of("stdout") + Of("stderr")
      BY <2>2, HeldAt, HeldAtBoth
    <3>3. IsFiniteSet(S) /\ Cardinality(S) = active - Of("stdout")
      BY <1>1, <1>2, <1>4 DEF Pipe
    <3>4. <<c, "stderr">> \in S <=> ~cmd[c].pipe["stderr"].released
      BY <1>2 DEF Pipe
    <3>5. IsFiniteSet(Out') /\ Cardinality(Out') = Cardinality(S) - Of("stderr")
      BY <1>1, <3>1, <3>3, <3>4 DEF Pipe
    <3> QED BY <1>4, <3>2, <3>3, <3>5
  <2> QED BY <2>1, <2>2
<1>6. active' \in Nat /\ active' <= active
  <2>1. Held(cmd[c], ps) \in Nat
    <3>1. \A p : Held(cmd[c], {p}) \in {0, 1}
      <4> TAKE p
      <4> QED BY HeldAt
    <3>2. Held(cmd[c], Pipe) \in Nat
      <4>1. Held(cmd[c], {"stdout"}) \in {0, 1} /\ Held(cmd[c], {"stderr"}) \in {0, 1}
        BY <3>1
      <4> QED BY <4>1, HeldAtBoth
    <3>3. ps = Pipe \/ \E p : ps = {p}
      OBVIOUS
    <3>4. \A p : Held(cmd[c], {p}) \in Nat
      BY <3>1
    <3> QED BY <3>2, <3>3, <3>4, Zenon
  <2> QED BY <1>4, <1>5, <2>1, FS_CardinalityType
<1> QED BY <1>5, <1>6, RunnerBounds DEF GitInv

LEMMA PlacesKeptUp ==
  ASSUME GitInv, NEW c \in Commands, NEW w, cmd' = [cmd EXCEPT ![c] = w],
         \A p \in Pipe : w.pipe[p].released <=> cmd[c].pipe[p].released,
         active' = active
  PROVE  active' \in 0..ReaderLimit /\ IsFiniteSet(Out') /\ active' = Cardinality(Out')
<1>1. \A d \in Commands, p \in Pipe : cmd'[d].pipe[p].released <=> cmd[d].pipe[p].released
  BY DEF GitInv
<1>2. Out' = Out
  BY <1>1 DEF Out
<1> QED BY <1>2 DEF GitInv

LEMMA PlacesTaken ==
  ASSUME GitInv, NEW c \in Commands, NEW w, cmd' = [cmd EXCEPT ![c] = w],
         \A p \in Pipe : cmd[c].pipe[p].released /\ ~w.pipe[p].released,
         active' = active + 2, active + 2 <= ReaderLimit
  PROVE  active' \in 0..ReaderLimit /\ IsFiniteSet(Out') /\ active' = Cardinality(Out')
<1> DEFINE x == <<c, "stdout">>
           y == <<c, "stderr">>
<1>1. x \notin Out /\ y \notin Out /\ x # y
  BY DEF Out, Pipe
<1>2. Out' = (Out \cup {x}) \cup {y}
  <2>1. \A d \in Commands, p \in Pipe :
          ~cmd'[d].pipe[p].released <=> ~cmd[d].pipe[p].released \/ d = c
    BY DEF GitInv
  <2>2. \A z \in Commands \X Pipe : z \in Out' <=> z \in Out \/ z \in {x, y}
    BY <2>1 DEF Out, Pipe
  <2>3. x \in Commands \X Pipe /\ y \in Commands \X Pipe
    BY DEF Pipe
  <2>4. Out' \subseteq Commands \X Pipe /\ Out \subseteq Commands \X Pipe
    BY DEF Out
  <2> HIDE DEF x, y
  <2> QED BY <2>2, <2>3, <2>4
<1>3. active \in Nat /\ IsFiniteSet(Out) /\ active = Cardinality(Out)
  BY RunnerBounds DEF GitInv
<1> HIDE DEF x, y
<1>4. IsFiniteSet(Out \cup {x}) /\ Cardinality(Out \cup {x}) = active + 1
  BY <1>1, <1>3, FS_AddElement
<1>5. y \notin Out \cup {x}
  BY <1>1
<1>6. IsFiniteSet(Out') /\ Cardinality(Out') = active + 1 + 1
  BY <1>2, <1>4, <1>5, FS_AddElement
<1> QED BY <1>3, <1>6, RunnerBounds

\* What one command does leaves the others as they are.
LEMMA OneCommand ==
  ASSUME GitInv, NEW c \in Commands, NEW w, cmd' = [cmd EXCEPT ![c] = w], CommandInv(w),
         active' \in 0..ReaderLimit /\ IsFiniteSet(Out') /\ active' = Cardinality(Out')
  PROVE  GitInv'
<1>1. \A d \in Commands : cmd'[d] = IF d = c THEN w ELSE cmd[d]
  BY DEF GitInv
<1>2. \A d \in Commands : CommandInv(cmd'[d])
  BY <1>1 DEF GitInv
<1>3. w \in CommandType
  BY DEF CommandInv
<1> QED BY <1>2, <1>3 DEF GitInv

LEMMA GitStep ==
  ASSUME GitInv, GitNext
  PROVE  GitInv'
<1> PICK c \in Commands :
      \/ SpawnChild(c) \/ Acquire(c) \/ StartOut(c) \/ StartErr(c)
      \/ (\E p \in Pipe : Reads(c, p) \/ ReaderEnds(c, p))
      \/ Poll(c) \/ Join(c) \/ Judge(c) \/ ChildExits(c) \/ KidEnds(c) \/ CancelCommand(c)
  BY DEF GitNext
<1> DEFINE v == cmd[c]
<1>0. v \in CommandType /\ Budgeted(v) /\ Parented(v) /\ Answering(v)
  BY DEF GitInv, CommandInv
<1>same. ASSUME NEW w, CommandInv(w), w.pipe = v.pipe, Set(c, w), UNCHANGED active
         PROVE  GitInv'
  <2>1. cmd' = [cmd EXCEPT ![c] = w]
    BY <1>same DEF Set
  <2>2. \A p \in Pipe : w.pipe[p].released <=> cmd[c].pipe[p].released
    BY <1>same
  <2> QED BY <1>same, <2>1, <2>2, PlacesKeptUp, OneCommand
<1>all. ASSUME NEW w, CommandInv(w), \A p \in Pipe : w.pipe[p].released <=> v.pipe[p].released,
               Set(c, w), UNCHANGED active
         PROVE  GitInv'
  <2>1. cmd' = [cmd EXCEPT ![c] = w]
    BY <1>all DEF Set
  <2> QED BY <1>all, <2>1, PlacesKeptUp, OneCommand
<1>1. CASE SpawnChild(c)
  <2>1. ASSUME NEW r \in {"cancelled", "failed"}, Set(c, Finish(v, r))
        PROVE  GitInv'
    <3>1. CommandInv(Finish(v, r)) /\ \A p \in Pipe : v.pipe[p].released /\ Finish(v, r).pipe[p].released
      BY <1>0, <1>1, Returned DEF SpawnChild, Parented, Answering
    <3> QED BY <1>1, <1>all, <2>1, <3>1 DEF SpawnChild
  <2>2. ASSUME NEW kid \in {"none", "group", "away"},
               Set(c, [v EXCEPT !.pc = "spawned", !.child = "running", !.kid = kid])
        PROVE  GitInv'
    <3> DEFINE w == [v EXCEPT !.pc = "spawned", !.child = "running", !.kid = kid]
    <3>1. v.pc = "idle"
      BY <1>1 DEF SpawnChild
    <3>2. w \in CommandType /\ w.pipe = v.pipe
      BY ZenonT(40), <1>0 DEF CommandType
    <3>3. Budgeted(w)
      BY <1>0, <3>1 DEF CommandType, Budgeted
    <3>4. w.pc = "spawned" /\ w.child = "running" /\ w.pipe = v.pipe
      BY <1>0 DEF CommandType
    <3>5. Answering(w)
      BY <1>0, <3>1 DEF CommandType, Answering
    <3>8. Parented(w)
      <4>1. \A p \in Pipe : w.pipe[p].reader = "none"
        BY <1>0, <3>1, <3>4 DEF Parented
      <4> HIDE DEF w
      <4> QED BY <3>4, <4>1 DEF Parented, Pipe
    <3>6. CommandInv(w)
      BY <3>2, <3>3, <3>5, <3>8 DEF CommandInv
    <3> HIDE DEF w
    <3>7. Set(c, w)
      BY <2>2 DEF w
    <3> QED BY <1>1, <1>same, <3>2, <3>6, <3>7 DEF SpawnChild
  <2> QED BY <1>1, <2>1, <2>2 DEF SpawnChild
<1>back. ASSUME NEW w, CommandInv(w), NEW ps \in {Pipe, {"stdout"}, {"stderr"}}, Set(c, w),
                \A p \in Pipe : w.pipe[p].released <=> v.pipe[p].released \/ p \in ps,
                active' = active - Held(v, ps)
         PROVE  GitInv'
  <2>1. cmd' = [cmd EXCEPT ![c] = w]
    BY <1>back DEF Set
  <2>2. active' \in 0..ReaderLimit /\ IsFiniteSet(Out') /\ active' = Cardinality(Out')
    BY <1>back, <2>1, PlacesGivenBack
  <2> QED BY <1>back, <2>1, <2>2, OneCommand
\* What a release makes of a command.
<1>rel. ASSUME NEW u, u \in CommandType, NEW ps
        PROVE  /\ Release(u, ps) \in CommandType
               /\ Release(u, ps).pc = u.pc /\ Release(u, ps).child = u.child
               /\ Release(u, ps).kid = u.kid /\ Release(u, ps).exit = u.exit
               /\ Release(u, ps).kept = u.kept /\ Release(u, ps).remaining = u.remaining
               /\ Release(u, ps).exceeded = u.exceeded /\ Release(u, ps).result = u.result
               /\ Release(u, ps).drained = u.drained
               /\ \A p \in Pipe :
                    /\ Release(u, ps).pipe[p].reader = u.pipe[p].reader
                    /\ Release(u, ps).pipe[p].reads = u.pipe[p].reads
                    /\ Release(u, ps).pipe[p].released <=> u.pipe[p].released \/ p \in ps
  <2> DEFINE q == [p \in Pipe |-> [u.pipe[p] EXCEPT !.released = @ \/ p \in ps]]
  <2>1. ASSUME NEW p \in Pipe
        PROVE  /\ q[p] \in PipeType
               /\ q[p].reader = u.pipe[p].reader /\ q[p].reads = u.pipe[p].reads
               /\ q[p].released <=> u.pipe[p].released \/ p \in ps
    <3>1. u.pipe[p] \in PipeType
      BY <1>rel DEF CommandType
    <3> DEFINE b == u.pipe[p].released \/ p \in ps
    <3>2. q[p] = [u.pipe[p] EXCEPT !.released = b] /\ b \in BOOLEAN
      OBVIOUS
    <3> HIDE DEF b, q
    <3>3. /\ q[p] \in PipeType
          /\ q[p].reader = u.pipe[p].reader /\ q[p].reads = u.pipe[p].reads
          /\ q[p].released = b
      BY <3>1, <3>2 DEF PipeType
    <3> QED BY <3>3 DEF b
  <2>2. Release(u, ps) = [u EXCEPT !.pipe = q]
    BY DEF Release
  <2>3. q \in [Pipe -> PipeType]
    BY <2>1
  <2> HIDE DEF q
  <2> QED BY <1>rel, <2>1, <2>2, <2>3 DEF CommandType
<1>eof. \A p \in Pipe : v.pipe[p].reader = "eof" => v.kid = "none" /\ v.child # "running"
  BY <1>0 DEF Parented
<1>2. CASE Acquire(c)
  <2>0. v.pc = "spawned" /\ \A p \in Pipe : v.pipe[p].released
    BY <1>0, <1>2 DEF Acquire, Answering
  <2>1. CASE active + 2 > ReaderLimit
    <3> DEFINE w == Finish(Killed(v), "failed")
    <3>1. CommandInv(w) /\ \A p \in Pipe : w.pipe[p].released
      BY <1>0, <1>eof, <2>0, Reaping, Returned
    <3>2. Set(c, w) /\ UNCHANGED active
      BY <1>2, <2>1 DEF Acquire
    <3> HIDE DEF w
    <3> QED BY <1>all, <2>0, <3>1, <3>2
  <2>2. CASE ~(active + 2 > ReaderLimit)
    <3> DEFINE q == [p \in Pipe |-> [v.pipe[p] EXCEPT !.released = FALSE]]
               w == [v EXCEPT !.pc = "permitted", !.pipe = q]
    <3>1. active' = active + 2 /\ active + 2 <= ReaderLimit /\ cmd' = [cmd EXCEPT ![c] = w]
      <4>1. active \in Nat
        BY RunnerBounds DEF GitInv
      <4> QED BY <1>2, <2>2, <4>1, RunnerBounds DEF Acquire, Set
    <3>2. q \in [Pipe -> PipeType]
          /\ \A p \in Pipe : ~q[p].released /\ q[p].reader = v.pipe[p].reader
                             /\ q[p].reads = v.pipe[p].reads
      <4> SUFFICES ASSUME NEW p \in Pipe
                   PROVE  q[p] \in PipeType /\ ~q[p].released
                          /\ q[p].reader = v.pipe[p].reader /\ q[p].reads = v.pipe[p].reads
        OBVIOUS
      <4>1. v.pipe[p] \in PipeType
        BY <1>0 DEF CommandType
      <4> QED BY <4>1 DEF PipeType
    <3> HIDE DEF q
    <3>3. w \in CommandType /\ w.pc = "permitted" /\ w.pipe = q
      BY <1>0, <3>2 DEF CommandType
    <3>4. Budgeted(w) /\ Parented(w) /\ Answering(w)
      BY <1>0, <2>0, <3>2 DEF CommandType, Budgeted, Parented, Answering, Pipe
    <3>5. CommandInv(w)
      BY <3>3, <3>4 DEF CommandInv
    <3> HIDE DEF w
    <3> QED BY <2>0, <3>1, <3>2, <3>3, <3>5, PlacesTaken, OneCommand
  <2> QED BY <2>1, <2>2
<1>fail. ASSUME Set(c, Finish(Release(Killed(v), Pipe), "failed")), active' = active - Held(v, Pipe)
         PROVE  GitInv'
  <2> DEFINE u == Release(Killed(v), Pipe)
             w == Finish(u, "failed")
  <2>1. /\ u \in CommandType /\ u.child = "reaped" /\ u.kid # "group"
        /\ \A p \in Pipe : u.pipe[p].released /\ (u.pipe[p].reader = "eof" => u.kid = "none")
    BY <1>0, <1>eof, <1>rel, Reaping
  <2> HIDE DEF u
  <2>2. CommandInv(w) /\ \A p \in Pipe : w.pipe[p].released
    BY <2>1, Returned
  <2>3. Set(c, w)
    BY <1>fail DEF u
  <2> HIDE DEF w
  <2> QED BY <1>back, <1>fail, <2>2, <2>3
\* A thread that begins to read a pipe.
<1>read. ASSUME NEW p \in Pipe, v.pipe[p].reader = "none", v.pc = "permitted",
                NEW pc \in {"permitted", "polling"}, UNCHANGED active,
                pc = "polling" \/ p # "stderr",
                Set(c, [v EXCEPT !.pipe[p].reader = "reading", !.pc = pc])
         PROVE  GitInv'
  <2> DEFINE q == [v.pipe EXCEPT ![p].reader = "reading"]
             w == [v EXCEPT !.pipe = q, !.pc = pc]
  <2>1. q \in [Pipe -> PipeType]
        /\ \A o \in Pipe : /\ q[o].released = v.pipe[o].released /\ q[o].reads = v.pipe[o].reads
                           /\ q[o].reader = IF o = p THEN "reading" ELSE v.pipe[o].reader
    BY <1>0 DEF CommandType, PipeType
  <2>2. Set(c, w)
    BY <1>read
  <2> HIDE DEF q
  <2>3. w \in CommandType /\ w.pc = pc /\ w.pipe = q
    BY <1>0, <2>1 DEF CommandType
  <2>4. Budgeted(w) /\ Parented(w) /\ Answering(w)
    BY <1>0, <1>read, <2>1 DEF CommandType, Budgeted, Parented, Answering, Pipe
  <2>5. CommandInv(w) /\ \A o \in Pipe : w.pipe[o].released <=> v.pipe[o].released
    BY <2>1, <2>3, <2>4 DEF CommandInv
  <2> HIDE DEF w
  <2> QED BY <1>all, <1>read, <2>2, <2>5
<1>3. CASE StartOut(c)
  BY <1>3, <1>fail, <1>read DEF StartOut, Pipe
<1>4. CASE StartErr(c)
  <2>1. v.pipe["stderr"].reader = "none"
    BY <1>0, <1>4 DEF StartErr, Parented
  <2> QED BY <1>4, <1>fail, <1>read, <2>1 DEF StartErr, Pipe
<1>5. ASSUME NEW p \in Pipe, Reads(c, p)
      PROVE  GitInv'
  <2> DEFINE room == v.remaining > 0
             q == [v.pipe EXCEPT ![p].reads = v.pipe[p].reads + 1]
             rest == IF room THEN v.remaining - 1 ELSE v.remaining
             kept == IF room /\ p = "stdout" THEN v.kept + 1 ELSE v.kept
             over == v.exceeded \/ ~room
             w == [v EXCEPT !.pipe = q, !.remaining = rest, !.kept = kept, !.exceeded = over]
  <2>1. v.pc # "done" /\ v.pipe[p].reader = "reading" /\ UNCHANGED active /\ Set(c, w)
    BY <1>5 DEF Reads
  <2>2. q \in [Pipe -> PipeType]
        /\ \A o \in Pipe : /\ q[o].released = v.pipe[o].released
                           /\ q[o].reader = v.pipe[o].reader
                           /\ q[o].reads = IF o = p THEN v.pipe[o].reads + 1 ELSE v.pipe[o].reads
    BY <1>0 DEF CommandType, PipeType
  <2>3. v.remaining \in Nat /\ v.kept \in Nat /\ v.pipe["stdout"].reads \in Nat
    BY <1>0 DEF CommandType, PipeType, Pipe
  <2>4. rest \in Nat /\ kept \in Nat /\ over \in BOOLEAN /\ kept + rest <= v.kept + v.remaining
    BY <2>3
  <2>5. kept + rest <= OutputLimit /\ (~over => kept = q["stdout"].reads)
    BY <1>0, <2>2, <2>3, <2>4, RunnerBounds DEF Budgeted, Pipe
  <2> HIDE DEF q, rest, kept, over
  <2>6. /\ w \in CommandType /\ w.pipe = q /\ w.pc = v.pc /\ w.child = v.child
        /\ w.kid = v.kid /\ w.result = v.result /\ w.drained = v.drained
        /\ w.kept = kept /\ w.remaining = rest /\ w.exceeded = over
    BY <1>0, <2>2, <2>4 DEF CommandType
  <2> HIDE DEF w
  <2>7. Budgeted(w)
    BY <2>5, <2>6 DEF Budgeted
  <2>8. Parented(w)
    BY <1>0, <2>2, <2>6 DEF Parented, Pipe
  <2>9. Answering(w)
    BY <1>0, <2>1, <2>2, <2>6 DEF Answering
  <2>10. CommandInv(w) /\ \A o \in Pipe : w.pipe[o].released <=> v.pipe[o].released
    BY <2>2, <2>6, <2>7, <2>8, <2>9 DEF CommandInv
  <2> QED BY <1>all, <2>1, <2>10
<1>6. ASSUME NEW p \in Pipe, ReaderEnds(c, p)
      PROVE  GitInv'
  <2>1. PICK e \in {"eof", "error"} :
          /\ e = "eof" => ~Holding(v)
          /\ Set(c, [Release(v, {p}) EXCEPT !.pipe[p].reader = e])
    BY <1>6 DEF ReaderEnds
  <2>2. v.pipe[p].reader = "reading" /\ active' = active - Held(v, {p})
    BY <1>6 DEF ReaderEnds
  <2> DEFINE u == Release(v, {p})
             q == [u.pipe EXCEPT ![p].reader = e]
             w == [u EXCEPT !.pipe = q]
  <2>3. /\ u \in CommandType /\ u.pc = v.pc /\ u.child = v.child /\ u.kid = v.kid
        /\ u.exit = v.exit /\ u.kept = v.kept /\ u.remaining = v.remaining
        /\ u.exceeded = v.exceeded /\ u.result = v.result /\ u.drained = v.drained
        /\ \A o \in Pipe : /\ u.pipe[o].reader = v.pipe[o].reader
                           /\ u.pipe[o].reads = v.pipe[o].reads
                           /\ u.pipe[o].released <=> v.pipe[o].released \/ o \in {p}
    BY <1>0, <1>rel
  <2>4. Set(c, w)
    BY <2>1
  <2> HIDE DEF u
  <2>5. q \in [Pipe -> PipeType]
        /\ \A o \in Pipe : /\ q[o].reader = IF o = p THEN e ELSE u.pipe[o].reader
                           /\ q[o].reads = u.pipe[o].reads
                           /\ q[o].released = u.pipe[o].released
    BY <2>3 DEF CommandType, PipeType
  <2> HIDE DEF q
  <2>6. /\ w \in CommandType /\ w.pipe = q /\ w.pc = v.pc /\ w.child = v.child
        /\ w.kid = v.kid /\ w.exit = v.exit /\ w.kept = v.kept
        /\ w.remaining = v.remaining /\ w.exceeded = v.exceeded
        /\ w.result = v.result /\ w.drained = v.drained
    BY <2>3, <2>5 DEF CommandType
  <2> HIDE DEF w
  <2>7. Budgeted(w)
    BY <1>0, <2>3, <2>5, <2>6 DEF Budgeted, Pipe
  <2>8. Parented(w)
    BY <1>0, <2>1, <2>2, <2>3, <2>5, <2>6 DEF Parented, Holding, Pipe
  <2>9. Answering(w)
    BY <1>0, <2>2, <2>3, <2>5, <2>6 DEF Answering
  <2>10. CommandInv(w) /\ \A o \in Pipe : w.pipe[o].released <=> v.pipe[o].released \/ o \in {p}
    BY <2>3, <2>5, <2>6, <2>7, <2>8, <2>9 DEF CommandInv
  <2>11. {p} \in {Pipe, {"stdout"}, {"stderr"}}
    BY DEF Pipe
  <2> QED BY <1>back, <2>2, <2>4, <2>10, <2>11
<1>7. CASE Poll(c)
  <2>0. v.pc = "polling" /\ UNCHANGED active
    BY <1>7 DEF Poll
  <2>1. ASSUME NEW why \in {"cancelled", "limit", "timeout", "wait"}, Set(c, Reaped(v, why))
        PROVE  GitInv'
    <3> DEFINE u == Killed(v)
               w == [u EXCEPT !.pc = "joining", !.ended = why]
    <3>1. /\ u \in CommandType /\ u.child = "reaped" /\ u.kid # "group"
          /\ (v.kid = "none" => u.kid = "none") /\ u.pipe = v.pipe /\ u.kept = v.kept
          /\ u.remaining = v.remaining /\ u.exceeded = v.exceeded
          /\ u.result = v.result /\ u.drained = v.drained
      BY <1>0, Reaping
    <3>2. Set(c, w)
      BY <2>1 DEF Reaped
    <3> HIDE DEF u
    <3>3. /\ w \in CommandType /\ w.pc = "joining" /\ w.child = "reaped" /\ w.kid = u.kid
          /\ w.pipe = v.pipe /\ w.kept = v.kept /\ w.remaining = v.remaining
          /\ w.exceeded = v.exceeded /\ w.result = v.result
      BY <3>1 DEF CommandType
    <3> HIDE DEF w
    <3>4. Budgeted(w) /\ Answering(w)
      BY <1>0, <2>0, <3>3 DEF Budgeted, Answering
    <3>5. Parented(w)
      BY <1>eof, <3>1, <3>3 DEF Parented
    <3>6. CommandInv(w)
      BY <3>3, <3>4, <3>5 DEF CommandInv
    <3> QED BY <1>same, <2>0, <3>2, <3>3, <3>6
  <2>2. ASSUME \A p \in Pipe : v.pipe[p].reader \in {"eof", "error"},
               Set(c, [v EXCEPT !.pc = "joining", !.child = "reaped"])
        PROVE  GitInv'
    <3> DEFINE w == [v EXCEPT !.pc = "joining", !.child = "reaped"]
    <3>1. Set(c, w)
      BY <2>2
    <3>2. /\ w \in CommandType /\ w.pc = "joining" /\ w.child = "reaped" /\ w.kid = v.kid
          /\ w.pipe = v.pipe /\ w.kept = v.kept /\ w.remaining = v.remaining
          /\ w.exceeded = v.exceeded /\ w.result = v.result
      BY <1>0 DEF CommandType
    <3> HIDE DEF w
    <3>3. Budgeted(w) /\ Answering(w)
      BY <1>0, <2>0, <3>2 DEF Budgeted, Answering
    <3>4. Parented(w)
      BY <1>eof, <2>2, <3>2 DEF Parented, Pipe
    <3>5. CommandInv(w)
      BY <3>2, <3>3, <3>4 DEF CommandInv
    <3> QED BY <1>same, <2>0, <3>1, <3>2, <3>5
  <2> QED BY <1>7, <2>1, <2>2 DEF Poll
<1>8. CASE Join(c)
  <2> DEFINE u == Release(v, Pipe)
             d == \A p \in Pipe : v.pipe[p].reader = "eof"
             w == [u EXCEPT !.pc = "judging", !.drained = d]
  <2>1. v.pc = "joining" /\ Set(c, w) /\ active' = active - Held(v, Pipe)
    BY <1>8 DEF Join
  <2>2. /\ u \in CommandType /\ u.child = v.child /\ u.kid = v.kid
        /\ u.kept = v.kept /\ u.remaining = v.remaining
        /\ u.exceeded = v.exceeded /\ u.result = v.result
        /\ \A o \in Pipe : /\ u.pipe[o].reader = v.pipe[o].reader
                           /\ u.pipe[o].reads = v.pipe[o].reads
                           /\ u.pipe[o].released
    BY <1>0, <1>rel
  <2>3. d \in BOOLEAN /\ (d => \A p \in Pipe : u.pipe[p].reader = "eof")
    BY <2>2
  <2> HIDE DEF u, d
  <2>4. /\ w \in CommandType /\ w.pc = "judging" /\ w.drained = d /\ w.pipe = u.pipe
        /\ w.child = v.child /\ w.kid = v.kid /\ w.kept = v.kept
        /\ w.remaining = v.remaining /\ w.exceeded = v.exceeded /\ w.result = v.result
    BY <2>2, <2>3 DEF CommandType
  <2> HIDE DEF w
  <2>5. Budgeted(w)
    BY <1>0, <2>2, <2>4 DEF Budgeted, Pipe
  <2>6. Parented(w)
    BY <1>0, <2>1, <2>2, <2>4 DEF Parented
  <2>7. Answering(w)
    BY <1>0, <2>1, <2>2, <2>3, <2>4 DEF Answering
  <2>8. CommandInv(w) /\ \A p \in Pipe : w.pipe[p].released <=> v.pipe[p].released \/ p \in Pipe
    BY <2>2, <2>4, <2>5, <2>6, <2>7 DEF CommandInv
  <2> QED BY <1>back, <2>1, <2>8
<1>9. CASE Judge(c)
  <2>0. v.pc = "judging" /\ UNCHANGED active /\ \A p \in Pipe : v.pipe[p].released
    BY <1>0, <1>9 DEF Judge, Answering
  <2>1. ASSUME NEW r \in {"cancelled", "timeout", "limit", "failed"}, Set(c, Finish(v, r))
        PROVE  GitInv'
    <3> DEFINE w == Finish(v, r)
    <3>1. CommandInv(w) /\ \A p \in Pipe : w.pipe[p].released
      BY <1>0, <1>eof, <2>0, Returned DEF Parented
    <3> HIDE DEF w
    <3>2. Set(c, w)
      BY <2>1 DEF w
    <3> QED BY <1>all, <2>0, <3>1, <3>2
  <2>2. ASSUME ~v.exceeded, v.drained, v.exit = "ok", Set(c, Finish(v, "ok"))
        PROVE  GitInv'
    <3> DEFINE w == [v EXCEPT !.pc = "done", !.result = "ok"]
    <3>1. Set(c, w)
      BY <2>2 DEF Finish
    <3>2. /\ w \in CommandType /\ w.pc = "done" /\ w.result = "ok" /\ w.child = v.child
          /\ w.kid = v.kid /\ w.pipe = v.pipe /\ w.kept = v.kept /\ w.exit = v.exit
          /\ w.remaining = v.remaining /\ w.exceeded = v.exceeded
      BY ZenonT(40), <1>0 DEF CommandType
    <3> HIDE DEF w
    <3>3. Budgeted(w) /\ Answering(w)
      BY <1>0, <2>0, <2>2, <3>2 DEF Budgeted, Answering
    <3>4. Parented(w)
      BY <1>0, <2>0, <3>2 DEF Parented
    <3>5. CommandInv(w)
      BY <3>2, <3>3, <3>4 DEF CommandInv
    <3> QED BY <1>same, <2>0, <3>1, <3>2, <3>5
  <2> QED BY <1>9, <2>1, <2>2 DEF Judge
<1>10. CASE ChildExits(c)
  <2>0. v.child = "running" /\ UNCHANGED active
    BY <1>10 DEF ChildExits
  <2>1. PICK e \in {"ok", "bad"} : Set(c, [v EXCEPT !.child = "exited", !.exit = e])
    BY <1>10 DEF ChildExits
  <2> DEFINE w == [v EXCEPT !.child = "exited", !.exit = e]
  <2>2. /\ w \in CommandType /\ w.pc = v.pc /\ w.child = "exited" /\ w.kid = v.kid
        /\ w.pipe = v.pipe /\ w.kept = v.kept /\ w.remaining = v.remaining
        /\ w.exceeded = v.exceeded /\ w.result = v.result /\ w.drained = v.drained
    BY <1>0 DEF CommandType
  <2>3. Set(c, w)
    BY <2>1
  <2> HIDE DEF w
  <2>4. Parented(w)
    BY <1>0, <2>0, <2>2 DEF Parented, CommandType
  <2>5. Budgeted(w) /\ Answering(w)
    BY <1>0, <2>0, <2>2 DEF Budgeted, Answering, Parented
  <2>6. CommandInv(w)
    BY <2>2, <2>4, <2>5 DEF CommandInv
  <2> QED BY <1>same, <2>0, <2>2, <2>3, <2>6
<1>11. CASE KidEnds(c)
  <2> DEFINE w == [v EXCEPT !.kid = "none"]
  <2>1. UNCHANGED active /\ Set(c, w)
    BY <1>11 DEF KidEnds
  <2>2. /\ w \in CommandType /\ w.pc = v.pc /\ w.child = v.child /\ w.kid = "none"
        /\ w.pipe = v.pipe /\ w.kept = v.kept /\ w.remaining = v.remaining /\ w.exit = v.exit
        /\ w.exceeded = v.exceeded /\ w.result = v.result /\ w.drained = v.drained
    BY <1>0 DEF CommandType
  <2> HIDE DEF w
  <2>3. Parented(w)
    BY <1>0, <2>2 DEF Parented
  <2>4. Budgeted(w) /\ Answering(w)
    BY <1>0, <2>2 DEF Budgeted, Answering
  <2>5. CommandInv(w)
    BY <2>2, <2>3, <2>4 DEF CommandInv
  <2> QED BY <1>same, <2>1, <2>2, <2>5
<1>12. CASE CancelCommand(c)
  <2> DEFINE w == [v EXCEPT !.cancelled = TRUE]
  <2>1. UNCHANGED active /\ Set(c, w)
    BY <1>12 DEF CancelCommand
  <2>2. /\ w \in CommandType /\ w.pc = v.pc /\ w.child = v.child /\ w.kid = v.kid
        /\ w.pipe = v.pipe /\ w.kept = v.kept /\ w.remaining = v.remaining /\ w.exit = v.exit
        /\ w.exceeded = v.exceeded /\ w.result = v.result /\ w.drained = v.drained
    BY <1>0 DEF CommandType
  <2> HIDE DEF w
  <2>3. Parented(w)
    BY <1>0, <2>2 DEF Parented
  <2>4. Budgeted(w) /\ Answering(w)
    BY <1>0, <2>2 DEF Budgeted, Answering
  <2>5. CommandInv(w)
    BY <2>2, <2>3, <2>4 DEF CommandInv
  <2> QED BY <1>same, <2>1, <2>2, <2>5
<1> QED BY <1>1, <1>2, <1>3, <1>4, <1>5, <1>6, <1>7, <1>8, <1>9, <1>10, <1>11, <1>12

LEMMA GitBegins == GitInit => GitInv
<1> SUFFICES ASSUME GitInit
             PROVE  GitInv
  OBVIOUS
<1>1. NoCommand \in CommandType
  BY RunnerBounds DEF NoCommand, NoPipe, CommandType, PipeType
<1>2. CommandInv(NoCommand)
  <2>1. Budgeted(NoCommand)
    BY RunnerBounds DEF Budgeted, NoCommand, NoPipe, Pipe
  <2>2. Parented(NoCommand)
    BY DEF Parented, NoCommand, NoPipe
  <2>3. Answering(NoCommand)
    BY DEF Answering, NoCommand, NoPipe
  <2> QED BY <1>1, <2>1, <2>2, <2>3 DEF CommandInv
<1>3. \A p \in Pipe : NoCommand.pipe[p].released
  BY DEF NoCommand, NoPipe
<1>4. \A c \in Commands : cmd[c] = NoCommand
  BY DEF GitInit
<1>5. Out = {}
  BY <1>3, <1>4 DEF Out
<1>6. IsFiniteSet(Out) /\ Cardinality(Out) = 0
  BY <1>5, FS_EmptySet
<1>7. active = 0 /\ cmd \in [Commands -> CommandType]
  BY <1>1 DEF GitInit
<1> QED BY <1>2, <1>4, <1>6, <1>7, RunnerBounds DEF GitInv

LEMMA GitInvSafe == GitInv => RunnerSafe
<1> SUFFICES ASSUME GitInv
             PROVE  RunnerSafe
  OBVIOUS
<1>0. \A c \in Commands :
        cmd[c] \in CommandType /\ Budgeted(cmd[c]) /\ Parented(cmd[c]) /\ Answering(cmd[c])
  BY DEF GitInv, CommandInv
<1>1. TypeOK
  BY <1>0 DEF TypeOK, GitInv, CommandType, PipeType, Budgeted
<1>2. PlacesComeBack
  <2>1. ASSUME NEW c \in Commands, cmd[c].pc = "done"
        PROVE  Held(cmd[c], Pipe) = 0
    <3>1. {p \in Pipe : ~cmd[c].pipe[p].released} = {}
      BY <1>0, <2>1 DEF Answering
    <3> QED BY <3>1, FS_EmptySet DEF Held
  <2> QED BY <2>1 DEF PlacesComeBack, GitInv, Out
<1>3. OkIsWhole
  BY <1>0 DEF OkIsWhole, Answering, Budgeted
<1>4. NothingLeftRunning
  <2>1. ASSUME NEW c \in Commands, cmd[c].pc = "done"
        PROVE  /\ cmd[c].child \in {"none", "reaped"}
               /\ cmd[c].kid = "group" =>
                    cmd[c].result # "ok" /\ \E p \in Pipe : cmd[c].pipe[p].reader = "error"
    BY <1>0, <2>1 DEF Parented, Answering
  <2> QED BY <2>1 DEF NothingLeftRunning
<1> QED BY <1>1, <1>2, <1>3, <1>4 DEF RunnerSafe

\* A git command, whatever of it fails, is left in any order: its permits come back, what
\* is answered as its output is all of it, and none of its processes is left running.
THEOREM RunnerIsSafe == GitSpec => []RunnerSafe
<1>1. GitInv /\ [GitNext]_gitvars => GitInv'
  <2> SUFFICES ASSUME GitInv, [GitNext]_gitvars
               PROVE  GitInv'
    OBVIOUS
  <2>1. CASE UNCHANGED gitvars
    BY <2>1 DEF gitvars, GitInv, Out
  <2> QED BY <2>1, GitStep
<1> QED BY <1>1, GitBegins, GitInvSafe, PTL DEF GitSpec

-----------------------------------------------------------------------------
(* The owner of the services of agents *)

Stages == {"none", "starting", "open", "operations", "server", "registry", "finished", "failed"}
OwnerType ==
  [at : Stages, http : {"none", "up", "stopping", "ended", "joined"},
   registry : {"none", "open", "closed"}, call : {"none", "begun", "send", "end"},
   failed : BOOLEAN]
RequestType == {NoRequest} \cup [gen : Gen, at : {"body", "bind", "wait", "send"}]

Alive(o) == o.http \in {"up", "stopping", "ended"}
Winding(o) == o.at \in {"operations", "server", "registry", "finished"}

\* What the stage of a generation says of its server, its calls and its registry.
Staged(o) ==
  /\ o.at = "none" => o.http = "none"
  /\ o.at # "none" => o.http # "none"
  /\ o.at = "starting" => o.http = "up"
  /\ o.at \in {"none", "starting"} => o.call = "none"
  /\ o.at \in {"open", "operations"} => Alive(o)
  /\ o.at = "server" => o.http # "up"
  /\ o.at \in {"server", "registry", "finished"} /\ ~o.failed => o.call = "none"
  /\ o.at \in {"registry", "finished"} /\ ~o.failed => o.http = "joined"
  /\ o.at = "finished" => o.registry = "closed"

\* Generations start one after the other, and only the last one may be starting.
OwnersRight ==
  /\ owner \in [Gen -> OwnerType]
  /\ \A g \in Gen : Staged(owner[g])
  /\ \A g \in Gen : owner[g].at # "none" =>
       \A h \in 1..(g - 1) : owner[h].at \notin {"none", "starting"}

WaitersOf(g) == {q \in RequestsOf(g) : requests[q].at = "wait"}

\* Whoever serves a request has a server, and every request that waits for its token
\* has one of the places.
RequestsRight ==
  /\ requests \in [Slot -> RequestType] /\ waits \in [Gen -> Nat]
  /\ \A g \in Gen : owner[g].http \notin {"up", "stopping"} \/ owner[g].at = "starting" =>
       RequestsOf(g) = {} /\ waits[g] = 0
  /\ \A g \in Gen : /\ IsFiniteSet(WaitersOf(g)) /\ Cardinality(WaitersOf(g)) <= waits[g]
                    /\ waits[g] <= WaitSlots

NewsTyped ==
  /\ channel \in [Gen -> Nat] /\ untold \in [Gen -> BOOLEAN] /\ watcher \in [Gen -> BOOLEAN]
  /\ descriptor \in 0..MaxGen

ServiceInv ==
  OwnersRight /\ RequestsRight /\ NewsTyped /\ DescriptorRight /\ ChangeTold
-----------------------------------------------------------------------------
LEMMA ServiceBegins == ServiceInit => ServiceInv
<1> SUFFICES ASSUME ServiceInit
             PROVE  ServiceInv
  OBVIOUS
<1>1. OwnersRight
  BY DEF ServiceInit, OwnersRight, OwnerType, Stages, Staged, Alive
<1>2. RequestsRight
  <2>1. \A g \in Gen : RequestsOf(g) = {}
    BY DEF ServiceInit, RequestsOf, NoRequest, Gen
  <2>2. \A g \in Gen : WaitersOf(g) = {}
    BY <2>1 DEF WaitersOf
  <2>3. requests \in [Slot -> RequestType] /\ waits \in [Gen -> Nat] /\ \A g \in Gen : waits[g] = 0
    BY DEF ServiceInit, RequestType
  <2> QED BY <2>1, <2>2, <2>3, FS_EmptySet, ServiceBounds DEF RequestsRight
<1>3. NewsTyped
  BY ServiceBounds DEF ServiceInit, NewsTyped
<1>4. DescriptorRight
  BY DEF ServiceInit, DescriptorRight, Closing
<1>5. ChangeTold
  BY DEF ServiceInit, ChangeTold
<1> QED BY <1>1, <1>2, <1>3, <1>4, <1>5 DEF ServiceInv

\* An owner that has started goes on: nothing of it comes to life again, and the
\* descriptor is only taken from a server that is gone.
LEMMA OwnerGoesOn ==
  ASSUME ServiceInv, NEW g \in Gen, NEW w \in OwnerType, owner' = [owner EXCEPT ![g] = w],
         owner[g].at \notin {"none", "starting"}, w.at \notin {"none", "starting"}, Staged(w),
         Alive(w) => Alive(owner[g]) /\ descriptor' = descriptor,
         descriptor' \in {descriptor, Removed(g)},
         Winding(w) /\ w.http = "joined" => descriptor' # g
  PROVE  OwnersRight' /\ DescriptorRight' /\ descriptor' \in 0..MaxGen
<1>0. /\ \A h \in Gen : owner'[h] = IF h = g THEN w ELSE owner[h]
      /\ owner' \in [Gen -> OwnerType]
      /\ \A h \in Gen : owner'[h].at \in {"none", "starting"} <=> owner[h].at \in {"none", "starting"}
      /\ \A h \in Gen : owner'[h].at = "none" <=> owner[h].at = "none"
  BY DEF ServiceInv, OwnersRight
<1>1. OwnersRight'
  <2>1. \A h \in Gen : Staged(owner'[h])
    BY <1>0 DEF ServiceInv, OwnersRight
  <2>2. ASSUME NEW h \in Gen, owner'[h].at # "none", NEW i \in 1..(h - 1)
        PROVE  owner'[i].at \notin {"none", "starting"}
    <3>1. i \in Gen /\ owner[h].at # "none"
      BY <1>0, <2>2, ServiceBounds DEF Gen
    <3>2. owner[i].at \notin {"none", "starting"}
      BY <3>1 DEF ServiceInv, OwnersRight
    <3> QED BY <1>0, <3>1, <3>2
  <2> QED BY <1>0, <2>1, <2>2 DEF OwnersRight
<1>2. DescriptorRight'
  <2> SUFFICES ASSUME NEW h \in Gen
               PROVE  /\ Winding(owner'[h]) /\ owner'[h].http = "joined" => descriptor' # h
                      /\ owner'[h].at # "starting" /\ Alive(owner'[h])
                         /\ (\A i \in (h + 1)..MaxGen : owner'[i].at \in {"none", "starting"})
                         => descriptor' = h
    BY DEF DescriptorRight, Closing, Winding, Alive
  <2>1. /\ Winding(owner[h]) /\ owner[h].http = "joined" => descriptor # h
        /\ owner[h].at # "starting" /\ Alive(owner[h])
           /\ (\A i \in (h + 1)..MaxGen : owner[i].at \in {"none", "starting"})
           => descriptor = h
    BY DEF ServiceInv, DescriptorRight, Closing, Winding, Alive
  <2>2. h \in Nat /\ h >= 1 /\ g \in Nat /\ g >= 1
    BY ServiceBounds DEF Gen
  <2>3. descriptor' = descriptor \/ (descriptor' = 0 /\ descriptor = g)
    BY DEF Removed
  <2>4. \A i \in (h + 1)..MaxGen : i \in Gen
    BY <2>2, ServiceBounds DEF Gen
  <2>5. CASE h = g
    <3>1. owner'[h] = w
      BY <1>0, <2>5
    <3>2. ASSUME Alive(w), \A i \in (h + 1)..MaxGen : owner'[i].at \in {"none", "starting"}
          PROVE  descriptor' = h
      BY <1>0, <2>1, <2>4, <2>5, <3>2
    <3> QED BY <2>5, <3>1, <3>2
  <2>6. CASE h # g
    <3>1. owner'[h] = owner[h]
      BY <1>0, <2>6
    <3>2. ASSUME \A i \in (h + 1)..MaxGen : owner'[i].at \in {"none", "starting"}
          PROVE  \A i \in (h + 1)..MaxGen : owner[i].at \in {"none", "starting"}
      BY <1>0, <2>4, <3>2
    <3> QED BY <2>1, <2>2, <2>3, <2>6, <3>1, <3>2
  <2> QED BY <2>5, <2>6
<1>3. descriptor' \in 0..MaxGen
  BY ServiceBounds DEF ServiceInv, NewsTyped, Removed
<1> QED BY <1>1, <1>2, <1>3

\* Its requests go on, unless its server is gone, and then there were none.
LEMMA RequestsGoOn ==
  ASSUME ServiceInv, NEW g \in Gen, NEW w \in OwnerType, owner' = [owner EXCEPT ![g] = w],
         (w.http \in {"up", "stopping"} /\ w.at # "starting")
         \/ owner[g].http \notin {"up", "stopping"} \/ owner[g].at = "starting"
         \/ (RequestsOf(g) = {} /\ waits[g] = 0),
         UNCHANGED <<requests, waits>>
  PROVE  RequestsRight'
<1>1. \A h \in Gen : owner'[h] = IF h = g THEN w ELSE owner[h]
  BY DEF ServiceInv, OwnersRight
<1>2. \A h : RequestsOf(h)' = RequestsOf(h) /\ WaitersOf(h)' = WaitersOf(h)
  BY DEF RequestsOf, WaitersOf
<1>3. ASSUME NEW h \in Gen, owner'[h].http \notin {"up", "stopping"} \/ owner'[h].at = "starting"
      PROVE  RequestsOf(h) = {} /\ waits[h] = 0
  BY <1>1, <1>3 DEF ServiceInv, RequestsRight
<1> QED BY <1>2, <1>3 DEF ServiceInv, RequestsRight

\* What is told of the changes of a generation, as long as nothing touches it.
LEMMA NewsKept ==
  ASSUME ServiceInv, NEW g \in Gen, NEW w \in OwnerType, owner' = [owner EXCEPT ![g] = w],
         Winding(owner[g]) => Winding(w), owner[g].call = "send" => w.call = "send",
         UNCHANGED <<requests, channel, untold, watcher>>
  PROVE  ChangeTold'
<1>1. \A h \in Gen : owner'[h] = IF h = g THEN w ELSE owner[h]
  BY DEF ServiceInv, OwnersRight
<1>2. \A h : RequestsOf(h)' = RequestsOf(h)
  BY DEF RequestsOf
<1> QED BY <1>1, <1>2 DEF ServiceInv, ChangeTold, Closing, Winding
-----------------------------------------------------------------------------
\* Steps of an owner that touch neither its requests nor what is told of its changes.
LEMMA OwnerStepQuiet ==
  ASSUME ServiceInv, NEW g \in Gen, NEW w \in OwnerType, owner' = [owner EXCEPT ![g] = w],
         owner[g].at \notin {"none", "starting"}, w.at \notin {"none", "starting"}, Staged(w),
         Alive(w) => Alive(owner[g]) /\ descriptor' = descriptor,
         descriptor' \in {descriptor, Removed(g)},
         Winding(w) /\ w.http = "joined" => descriptor' # g,
         w.http \in {"up", "stopping"} \/ owner[g].http \notin {"up", "stopping"}
         \/ (RequestsOf(g) = {} /\ waits[g] = 0),
         Winding(owner[g]) => Winding(w), owner[g].call = "send" => w.call = "send",
         UNCHANGED <<requests, waits, channel, untold, watcher>>
  PROVE  ServiceInv'
<1>1. OwnersRight' /\ DescriptorRight' /\ descriptor' \in 0..MaxGen
  BY OwnerGoesOn
<1>2. RequestsRight'
  BY RequestsGoOn
<1>3. ChangeTold'
  BY NewsKept
<1> QED BY <1>1, <1>2, <1>3 DEF ServiceInv, NewsTyped

\* What a step that leaves the owners and the descriptor alone has to show.
LEMMA OwnersKeep ==
  ASSUME ServiceInv, UNCHANGED <<owner, descriptor>>
  PROVE  OwnersRight' /\ DescriptorRight' /\ descriptor' \in 0..MaxGen
<1>1. OwnersRight'
  BY DEF ServiceInv, OwnersRight
<1>2. DescriptorRight'
  BY DEF ServiceInv, DescriptorRight, Closing
<1> QED BY <1>1, <1>2 DEF ServiceInv, NewsTyped

\* The start of a generation, and how its descriptor is published or not.
LEMMA StartingStep ==
  ASSUME ServiceInv, NEW g \in Gen, StartServer(g) \/ Publish(g) \/ PublishFails(g)
  PROVE  ServiceInv'
<1>0. PICK w \in OwnerType :
        /\ owner' = [owner EXCEPT ![g] = w] /\ Staged(w) /\ w.call = owner[g].call
        /\ \/ /\ owner[g].at = "none" /\ w.at = "starting" /\ UNCHANGED descriptor
              /\ \A h \in 1..(g - 1) : owner[h].at \notin {"none", "starting"}
           \/ owner[g].at = "starting" /\ w.at = "open" /\ descriptor' = g
           \/ /\ owner[g].at = "starting" /\ w.at = "failed" /\ w.http = "joined"
              /\ descriptor' \in {descriptor, 0, g}
  <2>0. owner[g] \in OwnerType /\ owner \in [Gen -> OwnerType] /\ Staged(owner[g])
    BY DEF ServiceInv, OwnersRight
  <2>1. CASE StartServer(g)
    <3> DEFINE w == [owner[g] EXCEPT !.at = "starting", !.http = "up", !.registry = "open"]
    <3>1. /\ w \in OwnerType /\ Staged(w) /\ w.call = owner[g].call /\ w.at = "starting"
          /\ owner' = [owner EXCEPT ![g] = w]
      BY <2>0, <2>1 DEF StartServer, OwnerType, Stages, Staged, Alive
    <3> HIDE DEF w
    <3> QED BY <2>1, <3>1 DEF StartServer
  <2>2. CASE Publish(g)
    <3> DEFINE w == [owner[g] EXCEPT !.at = "open"]
    <3>1. /\ w \in OwnerType /\ Staged(w) /\ w.call = owner[g].call /\ w.at = "open"
          /\ owner' = [owner EXCEPT ![g] = w]
      BY <2>0, <2>2 DEF Publish, Moves, OwnerType, Stages, Staged, Alive
    <3> HIDE DEF w
    <3> QED BY <2>2, <3>1 DEF Publish
  <2>3. CASE PublishFails(g)
    <3> DEFINE w == [owner[g] EXCEPT !.at = "failed", !.http = "joined", !.registry = "closed"]
    <3>1. /\ w \in OwnerType /\ Staged(w) /\ w.call = owner[g].call /\ w.at = "failed"
          /\ w.http = "joined" /\ owner' = [owner EXCEPT ![g] = w]
      BY <2>0, <2>3 DEF PublishFails, OwnerType, Stages, Staged, Alive
    <3> HIDE DEF w
    <3> QED BY <2>3, <3>1 DEF PublishFails
  <2> QED BY <2>1, <2>2, <2>3
<1>1. \A h \in Gen : owner'[h] = IF h = g THEN w ELSE owner[h]
  BY <1>0 DEF ServiceInv, OwnersRight
<1>2. UNCHANGED <<requests, waits, channel, untold, watcher>>
  BY DEF StartServer, Publish, PublishFails
<1>3. g \in Nat /\ g >= 1 /\ MaxGen \in Nat
  BY ServiceBounds DEF Gen
<1>4. OwnersRight'
  <2>1. \A h \in Gen : Staged(owner'[h])
    BY <1>0, <1>1 DEF ServiceInv, OwnersRight
  <2>2. ASSUME NEW h \in Gen, owner'[h].at # "none", NEW i \in 1..(h - 1)
        PROVE  owner'[i].at \notin {"none", "starting"}
    <3>1. i \in Gen /\ h # i /\ i < h
      BY ServiceBounds DEF Gen
    <3>2. CASE h = g
      <4>1. owner[i].at \notin {"none", "starting"}
        BY <1>0, <2>2, <3>2 DEF ServiceInv, OwnersRight
      <4> QED BY <1>1, <3>1, <3>2, <4>1
    <3>3. CASE h # g
      <4>1. owner[h].at # "none"
        BY <1>1, <2>2, <3>3
      <4>2. owner[i].at \notin {"none", "starting"}
        BY <4>1 DEF ServiceInv, OwnersRight
      <4>3. i # g
        BY <1>0, <4>2
      <4> QED BY <1>1, <3>1, <4>2, <4>3
    <3> QED BY <3>2, <3>3
  <2>3. owner' \in [Gen -> OwnerType]
    BY <1>0 DEF ServiceInv, OwnersRight
  <2> QED BY <2>1, <2>2, <2>3 DEF OwnersRight
<1>5. DescriptorRight'
  <2> SUFFICES ASSUME NEW h \in Gen
               PROVE  /\ Winding(owner'[h]) /\ owner'[h].http = "joined" => descriptor' # h
                      /\ owner'[h].at # "starting" /\ Alive(owner'[h])
                         /\ (\A i \in (h + 1)..MaxGen : owner'[i].at \in {"none", "starting"})
                         => descriptor' = h
    BY DEF DescriptorRight, Closing, Winding, Alive
  <2>1. /\ Winding(owner[h]) /\ owner[h].http = "joined" => descriptor # h
        /\ owner[h].at # "starting" /\ Alive(owner[h])
           /\ (\A i \in (h + 1)..MaxGen : owner[i].at \in {"none", "starting"})
           => descriptor = h
    BY DEF ServiceInv, DescriptorRight, Closing, Winding, Alive
  <2>2. h \in Nat /\ h >= 1 /\ \A i \in (h + 1)..MaxGen : i \in Gen
    BY ServiceBounds DEF Gen
  <2>3. CASE h = g
    BY <1>0, <1>1, <2>3 DEF Alive, Winding
  <2>4. CASE h # g
    <3>1. owner'[h] = owner[h]
      BY <1>1, <2>4
    <3>2. Winding(owner'[h]) /\ owner'[h].http = "joined" => descriptor' # h
      BY <1>0, <2>1, <2>2, <2>4, <3>1
    <3>3. ASSUME owner[h].at # "starting", Alive(owner[h]),
                 \A i \in (h + 1)..MaxGen : owner'[i].at \in {"none", "starting"}
          PROVE  descriptor' = h
      <4>1. CASE w.at = "starting"
        <5>1. owner[g].at = "none" /\ UNCHANGED descriptor
          BY <1>0, <4>1
        <5>2. \A i \in (h + 1)..MaxGen : owner[i].at \in {"none", "starting"}
          BY <1>1, <2>2, <3>3, <5>1
        <5> QED BY <2>1, <3>3, <5>1, <5>2
      <4>2. CASE w.at # "starting"
        <5>1. owner[g].at = "starting" /\ w.at \notin {"none", "starting"}
          BY <1>0, <4>2
        <5>2. g \notin (h + 1)..MaxGen
          BY <1>1, <3>3, <5>1
        <5>3. g \in 1..(h - 1)
          BY <1>3, <2>2, <2>4, <5>2 DEF Gen
        <5>4. owner[h].at # "none"
          BY <3>3 DEF ServiceInv, OwnersRight, Staged, Alive
        <5> QED BY <5>1, <5>3, <5>4 DEF ServiceInv, OwnersRight
      <4> QED BY <4>1, <4>2
    <3> QED BY <3>1, <3>2, <3>3
  <2> QED BY <2>3, <2>4
<1>6. RequestsRight'
  <2>1. owner[g].http \notin {"up", "stopping"} \/ owner[g].at = "starting"
    BY <1>0 DEF ServiceInv, OwnersRight, Staged
  <2> QED BY <1>0, <1>2, <2>1, RequestsGoOn
<1>7. ChangeTold'
  <2>1. ~Winding(owner[g])
    BY <1>0 DEF Winding
  <2> QED BY <1>0, <1>2, <2>1, NewsKept
<1>8. NewsTyped'
  BY <1>0, <1>2, <1>3 DEF ServiceInv, NewsTyped, Gen
<1> QED BY <1>4, <1>5, <1>6, <1>7, <1>8 DEF ServiceInv

-----------------------------------------------------------------------------
\* The steps of an owner that has started.
LEMMA OwnerStep ==
  ASSUME ServiceInv, NEW g \in Gen, OwnerNext(g)
  PROVE  ServiceInv'
<1>0. owner[g] \in OwnerType /\ Staged(owner[g]) /\ owner \in [Gen -> OwnerType]
  BY DEF ServiceInv, OwnersRight
<1>desc. Winding(owner[g]) /\ owner[g].http = "joined" => descriptor # g
  BY DEF ServiceInv, DescriptorRight, Closing, Winding
<1>gone. Removed(g) # g
  BY ServiceBounds DEF Removed, Gen
<1>1. CASE StartServer(g) \/ Publish(g) \/ PublishFails(g)
  BY <1>1, StartingStep
<1>2. CASE BeginCall(g)
  <2> DEFINE w == [owner[g] EXCEPT !.call = "begun"]
  <2>1. w \in OwnerType /\ owner' = [owner EXCEPT ![g] = w]
    BY <1>0, <1>2 DEF BeginCall, Moves, Fails, OwnerType, Stages
  <2>2. Staged(w) /\ (Winding(owner[g]) => Winding(w)) /\ (Alive(w) => Alive(owner[g]) /\ descriptor' = descriptor)
    BY <1>0, <1>2 DEF BeginCall, Moves, Fails, OwnerType, Staged, Alive, Winding
  <2>3. Winding(w) /\ w.http = "joined" => descriptor' # g
    BY <1>0, <1>desc, <1>gone, <1>2 DEF BeginCall, Fails, OwnerType, Winding, Staged, Alive
  <2>4. /\ w.at \notin {"none", "starting"} /\ owner[g].at \notin {"none", "starting"}
        /\ owner[g].call = "send" => w.call = "send"
        /\ \/ w.http \in {"up", "stopping"} \/ owner[g].http \notin {"up", "stopping"}
           \/ (RequestsOf(g) = {} /\ waits[g] = 0)
    BY <1>0, <1>2 DEF BeginCall, Fails, OwnerType, Staged
  <2>5. descriptor' \in {descriptor, Removed(g)} /\ UNCHANGED <<requests, waits, channel, untold, watcher>>
    BY <1>2 DEF BeginCall, Fails
  <2> HIDE DEF w
  <2> QED BY <2>1, <2>2, <2>3, <2>4, <2>5, OwnerStepQuiet
<1>3. CASE EndCall(g)
  <2> DEFINE w == [owner[g] EXCEPT !.call = "none"]
  <2>1. w \in OwnerType /\ owner' = [owner EXCEPT ![g] = w]
    BY <1>0, <1>3 DEF EndCall, Moves, Fails, OwnerType, Stages
  <2>2. Staged(w) /\ (Winding(owner[g]) => Winding(w)) /\ (Alive(w) => Alive(owner[g]) /\ descriptor' = descriptor)
    BY <1>0, <1>3 DEF EndCall, Moves, Fails, OwnerType, Staged, Alive, Winding
  <2>3. Winding(w) /\ w.http = "joined" => descriptor' # g
    BY <1>0, <1>desc, <1>gone, <1>3 DEF EndCall, Fails, OwnerType, Winding, Staged, Alive
  <2>4. /\ w.at \notin {"none", "starting"} /\ owner[g].at \notin {"none", "starting"}
        /\ owner[g].call = "send" => w.call = "send"
        /\ \/ w.http \in {"up", "stopping"} \/ owner[g].http \notin {"up", "stopping"}
           \/ (RequestsOf(g) = {} /\ waits[g] = 0)
    BY <1>0, <1>3 DEF EndCall, Fails, OwnerType, Staged
  <2>5. descriptor' \in {descriptor, Removed(g)} /\ UNCHANGED <<requests, waits, channel, untold, watcher>>
    BY <1>3 DEF EndCall, Fails
  <2> HIDE DEF w
  <2> QED BY <2>1, <2>2, <2>3, <2>4, <2>5, OwnerStepQuiet
<1>4. CASE ServerEnds(g)
  <2> DEFINE w == [owner[g] EXCEPT !.http = "ended"]
  <2>1. w \in OwnerType /\ owner' = [owner EXCEPT ![g] = w]
    BY <1>0, <1>4 DEF ServerEnds, Moves, Fails, OwnerType, Stages
  <2>2. Staged(w) /\ (Winding(owner[g]) => Winding(w)) /\ (Alive(w) => Alive(owner[g]) /\ descriptor' = descriptor)
    BY <1>0, <1>4 DEF ServerEnds, Moves, Fails, OwnerType, Staged, Alive, Winding
  <2>3. Winding(w) /\ w.http = "joined" => descriptor' # g
    BY <1>0, <1>desc, <1>gone, <1>4 DEF ServerEnds, Fails, OwnerType, Winding, Staged, Alive
  <2>4. /\ w.at \notin {"none", "starting"} /\ owner[g].at \notin {"none", "starting"}
        /\ owner[g].call = "send" => w.call = "send"
        /\ \/ w.http \in {"up", "stopping"} \/ owner[g].http \notin {"up", "stopping"}
           \/ (RequestsOf(g) = {} /\ waits[g] = 0)
    BY <1>0, <1>4 DEF ServerEnds, Fails, OwnerType, Staged
  <2>5. descriptor' \in {descriptor, Removed(g)} /\ UNCHANGED <<requests, waits, channel, untold, watcher>>
    BY <1>4 DEF ServerEnds, Fails
  <2> HIDE DEF w
  <2> QED BY <2>1, <2>2, <2>3, <2>4, <2>5, OwnerStepQuiet
<1>5. CASE CallsEnded(g)
  <2> DEFINE f == owner[g].failed \/ owner[g].call # "none"
             h == IF owner[g].http = "up" THEN "stopping" ELSE owner[g].http
             w == [owner[g] EXCEPT !.at = "server", !.failed = f, !.http = h]
  <2>0. /\ f \in BOOLEAN /\ h \in {"stopping", "ended"} /\ (~f => owner[g].call = "none")
        /\ (owner[g].http = "ended" <=> h = "ended")
    BY <1>0, <1>5 DEF CallsEnded, OwnerType, Staged, Alive
  <2>1. owner' = [owner EXCEPT ![g] = w]
    BY <1>0, <1>5 DEF CallsEnded
  <2> HIDE DEF f, h
  <2>2. w \in OwnerType /\ w.at = "server" /\ w.http = h /\ w.call = owner[g].call /\ w.failed = f
    BY <1>0, <2>0 DEF OwnerType, Stages
  <2>3. Staged(w) /\ Winding(w)
    BY <2>0, <2>2 DEF Staged, Alive, Winding
  <2>4. Alive(owner[g]) /\ owner[g].at = "operations"
    BY <1>0, <1>5 DEF CallsEnded, Staged
  <2> HIDE DEF w
  <2> QED BY <1>5, <2>0, <2>1, <2>2, <2>3, <2>4, OwnerStepQuiet DEF CallsEnded, Alive
<1>6. CASE ServerJoined(g)
  <2> DEFINE w == [owner[g] EXCEPT !.at = "registry", !.http = "joined"]
  <2>1. w \in OwnerType /\ owner' = [owner EXCEPT ![g] = w]
    BY <1>0, <1>6 DEF ServerJoined, Moves, Fails, OwnerType, Stages
  <2>2. Staged(w) /\ (Winding(owner[g]) => Winding(w)) /\ (Alive(w) => Alive(owner[g]) /\ descriptor' = descriptor)
    BY <1>0, <1>6 DEF ServerJoined, Moves, Fails, OwnerType, Staged, Alive, Winding
  <2>3. Winding(w) /\ w.http = "joined" => descriptor' # g
    BY <1>0, <1>desc, <1>gone, <1>6 DEF ServerJoined, Fails, OwnerType, Winding, Staged, Alive
  <2>4. /\ w.at \notin {"none", "starting"} /\ owner[g].at \notin {"none", "starting"}
        /\ owner[g].call = "send" => w.call = "send"
        /\ \/ w.http \in {"up", "stopping"} \/ owner[g].http \notin {"up", "stopping"}
           \/ (RequestsOf(g) = {} /\ waits[g] = 0)
    BY <1>0, <1>6 DEF ServerJoined, Fails, OwnerType, Staged
  <2>5. descriptor' \in {descriptor, Removed(g)} /\ UNCHANGED <<requests, waits, channel, untold, watcher>>
    BY <1>6 DEF ServerJoined, Fails
  <2> HIDE DEF w
  <2> QED BY <2>1, <2>2, <2>3, <2>4, <2>5, OwnerStepQuiet
<1>7. CASE ServerTimesOut(g)
  <2> DEFINE w == [owner[g] EXCEPT !.at = "registry", !.failed = TRUE]
  <2>1. w \in OwnerType /\ owner' = [owner EXCEPT ![g] = w]
    BY <1>0, <1>7 DEF ServerTimesOut, Moves, Fails, OwnerType, Stages
  <2>2. Staged(w) /\ (Winding(owner[g]) => Winding(w)) /\ (Alive(w) => Alive(owner[g]) /\ descriptor' = descriptor)
    BY <1>0, <1>7 DEF ServerTimesOut, Moves, Fails, OwnerType, Staged, Alive, Winding
  <2>3. Winding(w) /\ w.http = "joined" => descriptor' # g
    BY <1>0, <1>desc, <1>gone, <1>7 DEF ServerTimesOut, Fails, OwnerType, Winding, Staged, Alive
  <2>4. /\ w.at \notin {"none", "starting"} /\ owner[g].at \notin {"none", "starting"}
        /\ owner[g].call = "send" => w.call = "send"
        /\ \/ w.http \in {"up", "stopping"} \/ owner[g].http \notin {"up", "stopping"}
           \/ (RequestsOf(g) = {} /\ waits[g] = 0)
    BY <1>0, <1>7 DEF ServerTimesOut, Fails, OwnerType, Staged
  <2>5. descriptor' \in {descriptor, Removed(g)} /\ UNCHANGED <<requests, waits, channel, untold, watcher>>
    BY <1>7 DEF ServerTimesOut, Fails
  <2> HIDE DEF w
  <2> QED BY <2>1, <2>2, <2>3, <2>4, <2>5, OwnerStepQuiet
<1>8. CASE RegistryCloses(g)
  <2> DEFINE w == [owner[g] EXCEPT !.at = "finished", !.registry = "closed"]
  <2>1. w \in OwnerType /\ owner' = [owner EXCEPT ![g] = w]
    BY <1>0, <1>8 DEF RegistryCloses, Moves, Fails, OwnerType, Stages
  <2>2. Staged(w) /\ (Winding(owner[g]) => Winding(w)) /\ (Alive(w) => Alive(owner[g]) /\ descriptor' = descriptor)
    BY <1>0, <1>8 DEF RegistryCloses, Moves, Fails, OwnerType, Staged, Alive, Winding
  <2>3. Winding(w) /\ w.http = "joined" => descriptor' # g
    BY <1>0, <1>desc, <1>gone, <1>8 DEF RegistryCloses, Fails, OwnerType, Winding, Staged, Alive
  <2>4. /\ w.at \notin {"none", "starting"} /\ owner[g].at \notin {"none", "starting"}
        /\ owner[g].call = "send" => w.call = "send"
        /\ \/ w.http \in {"up", "stopping"} \/ owner[g].http \notin {"up", "stopping"}
           \/ (RequestsOf(g) = {} /\ waits[g] = 0)
    BY <1>0, <1>8 DEF RegistryCloses, Fails, OwnerType, Staged
  <2>5. descriptor' \in {descriptor, Removed(g)} /\ UNCHANGED <<requests, waits, channel, untold, watcher>>
    BY <1>8 DEF RegistryCloses, Fails
  <2> HIDE DEF w
  <2> QED BY <2>1, <2>2, <2>3, <2>4, <2>5, OwnerStepQuiet
<1>9. CASE DropOwner(g)
  <2> DEFINE w == [owner[g] EXCEPT !.http = "joined"]
  <2>1. w \in OwnerType /\ owner' = [owner EXCEPT ![g] = w]
    BY <1>0, <1>9 DEF DropOwner, Moves, Fails, OwnerType, Stages
  <2>2. Staged(w) /\ (Winding(owner[g]) => Winding(w)) /\ (Alive(w) => Alive(owner[g]) /\ descriptor' = descriptor)
    BY <1>0, <1>9 DEF DropOwner, Moves, Fails, OwnerType, Staged, Alive, Winding
  <2>3. Winding(w) /\ w.http = "joined" => descriptor' # g
    BY <1>0, <1>desc, <1>gone, <1>9 DEF DropOwner, Fails, OwnerType, Winding, Staged, Alive
  <2>4. /\ w.at \notin {"none", "starting"} /\ owner[g].at \notin {"none", "starting"}
        /\ owner[g].call = "send" => w.call = "send"
        /\ \/ w.http \in {"up", "stopping"} \/ owner[g].http \notin {"up", "stopping"}
           \/ (RequestsOf(g) = {} /\ waits[g] = 0)
    BY <1>0, <1>9 DEF DropOwner, Fails, OwnerType, Staged
  <2>5. descriptor' \in {descriptor, Removed(g)} /\ UNCHANGED <<requests, waits, channel, untold, watcher>>
    BY <1>9 DEF DropOwner, Fails
  <2> HIDE DEF w
  <2> QED BY <2>1, <2>2, <2>3, <2>4, <2>5, OwnerStepQuiet
<1>10. CASE CallChanges(g) \/ CallSends(g)
  <2>1. PICK c \in {"send", "end"} :
          /\ owner' = [owner EXCEPT ![g].call = c]
          /\ c = "send" => CallChanges(g)
          /\ c = "end" => CallSends(g)
    BY <1>10 DEF CallChanges, CallSends
  <2> DEFINE w == [owner[g] EXCEPT !.call = c]
  <2>2. /\ w \in OwnerType /\ owner' = [owner EXCEPT ![g] = w] /\ owner[g].call # "none"
        /\ w.at = owner[g].at /\ w.http = owner[g].http /\ w.call = c
        /\ w.failed = owner[g].failed /\ w.registry = owner[g].registry
    BY <1>0, <1>10, <2>1 DEF CallChanges, CallSends, OwnerType
  <2> HIDE DEF w
  <2>3. Staged(w) /\ owner[g].at \notin {"none", "starting"}
    BY <1>0, <2>2 DEF Staged, Alive
  <2>4. /\ Alive(w) <=> Alive(owner[g])
        /\ Winding(w) <=> Winding(owner[g])
    BY <2>2 DEF Alive, Winding
  <2>5. UNCHANGED <<descriptor, requests, waits, watcher>>
    BY <1>10 DEF CallChanges, CallSends
  <2>6. Winding(w) /\ w.http = "joined" => descriptor # g
    BY <1>desc, <2>2, <2>4
  <2>7. OwnersRight' /\ DescriptorRight' /\ descriptor' \in 0..MaxGen
    BY <2>2, <2>3, <2>4, <2>5, <2>6, OwnerGoesOn
  <2>8. RequestsRight'
    BY <1>0, <2>2, <2>3, <2>5, RequestsGoOn
  <2>9. NewsTyped' /\ ChangeTold'
    <3>0. /\ \A h \in Gen : owner'[h] = IF h = g THEN w ELSE owner[h]
          /\ \A h \in Gen : Closing(h)' <=> Closing(h)
          /\ \A h \in Gen : RequestsOf(h)' = RequestsOf(h)
      BY <1>0, <2>2, <2>5 DEF RequestsOf, Closing
    <3>1. CASE c = "send"
      <4>1. untold' = [untold EXCEPT ![g] = ~Closing(g)] /\ UNCHANGED channel
        BY <2>1, <3>1 DEF CallChanges, Changes
      <4>2. NewsTyped'
        BY <2>5, <2>7, <4>1 DEF ServiceInv, NewsTyped, Closing
      <4>3. \A h \in Gen : h # g => untold'[h] = untold[h]
        BY <4>1 DEF ServiceInv, NewsTyped
      <4>4. ChangeTold'
        BY <2>2, <2>5, <3>0, <3>1, <4>1, <4>3 DEF ServiceInv, ChangeTold
      <4> QED BY <4>2, <4>4
    <3>2. CASE c = "end"
      <4>1. Sent(g) /\ UNCHANGED untold
        BY <2>1, <3>2 DEF CallSends
      <4>2. /\ channel' \in [Gen -> Nat]
            /\ \A h \in Gen : channel'[h] >= channel[h]
            /\ ~Closing(g) => channel'[g] > 0
        BY <4>1, ServiceBounds DEF ServiceInv, NewsTyped, Sent
      <4>3. NewsTyped'
        BY <2>5, <2>7, <4>1, <4>2 DEF ServiceInv, NewsTyped
      <4>4. \A h \in Gen : channel[h] > 0 => channel'[h] > 0
        BY <4>2 DEF ServiceInv, NewsTyped
      <4>5. ChangeTold'
        BY <2>2, <2>5, <3>0, <4>1, <4>2, <4>4 DEF ServiceInv, ChangeTold
      <4> QED BY <4>3, <4>5
    <3> QED BY <3>1, <3>2
  <2> QED BY <2>7, <2>8, <2>9 DEF ServiceInv
<1>11. CASE Drain(g) \/ Tell(g)
  <2>1. UNCHANGED <<owner, descriptor, requests, waits>>
    BY <1>11 DEF Drain, Tell
  <2>2. OwnersRight' /\ DescriptorRight' /\ descriptor' \in 0..MaxGen
    BY <2>1, OwnersKeep
  <2>3. RequestsRight'
    BY <2>1 DEF ServiceInv, RequestsRight, RequestsOf, WaitersOf
  <2>4. NewsTyped'
    <3>1. /\ channel \in [Gen -> Nat] /\ untold \in [Gen -> BOOLEAN] /\ watcher \in [Gen -> BOOLEAN]
      BY DEF ServiceInv, NewsTyped
    <3>2. CASE Drain(g)
      BY <2>2, <3>1, <3>2 DEF NewsTyped, Drain
    <3>3. CASE Tell(g)
      BY <2>2, <3>1, <3>3 DEF NewsTyped, Tell
    <3> QED BY <1>11, <3>2, <3>3
  <2>5. ChangeTold'
    BY <1>11, <2>1 DEF ServiceInv, NewsTyped, ChangeTold, RequestsOf, Closing, Drain, Tell
  <2> QED BY <2>2, <2>3, <2>4, <2>5 DEF ServiceInv
<1>12. CASE OrphanEnds(g)
  <2>1. UNCHANGED <<owner, descriptor, requests, channel, untold, watcher>>
    BY <1>12 DEF OrphanEnds
  <2>2. OwnersRight' /\ DescriptorRight' /\ descriptor' \in 0..MaxGen
    BY <2>1, OwnersKeep
  <2>3. RequestsRight'
    <3>1. \A h : RequestsOf(h)' = RequestsOf(h) /\ WaitersOf(h)' = WaitersOf(h)
      BY <2>1 DEF RequestsOf, WaitersOf
    <3>2. /\ waits[g] \in Nat /\ waits[g] > Cardinality(WaitersOf(g))
          /\ IsFiniteSet(WaitersOf(g)) /\ Cardinality(WaitersOf(g)) \in Nat
      BY <1>12, FS_CardinalityType DEF OrphanEnds, WaitersOf, ServiceInv, RequestsRight
    <3>3. /\ waits' \in [Gen -> Nat] /\ \A h \in Gen : h # g => waits'[h] = waits[h]
          /\ waits'[g] = waits[g] - 1 /\ waits[g] # 0 /\ Cardinality(WaitersOf(g)) <= waits'[g]
          /\ waits'[g] <= WaitSlots
      BY <1>12, <3>2, ServiceBounds DEF OrphanEnds, ServiceInv, RequestsRight
    <3> QED BY <2>1, <3>1, <3>3 DEF ServiceInv, RequestsRight
  <2>4. NewsTyped' /\ ChangeTold'
    BY <2>1 DEF ServiceInv, NewsTyped, ChangeTold, RequestsOf, Closing
  <2> QED BY <2>2, <2>3, <2>4 DEF ServiceInv
<1>13. CASE AcceptFails(g)
  <2> DEFINE w == [owner[g] EXCEPT !.http = "stopping"]
  <2>1. /\ w \in OwnerType /\ owner' = [owner EXCEPT ![g] = w] /\ Staged(w)
        /\ w.at = "open" /\ w.http = "stopping" /\ w.call = owner[g].call
        /\ owner[g].at = "open" /\ owner[g].http = "up"
    BY <1>0, <1>13 DEF AcceptFails, OwnerType, Staged, Alive
  <2> HIDE DEF w
  <2>2. UNCHANGED <<descriptor, waits, channel, untold, watcher>>
    BY <1>13 DEF AcceptFails
  <2>3. OwnersRight' /\ DescriptorRight' /\ descriptor' \in 0..MaxGen
    BY <2>1, <2>2, OwnerGoesOn DEF Alive, Winding
  <2>4. \A h \in Gen : owner'[h] = IF h = g THEN w ELSE owner[h]
    BY <1>0, <2>1
  <2>5. /\ requests' \in [Slot -> RequestType]
        /\ \A q \in Slot : requests'[q] = IF requests[q].gen = g THEN NoRequest ELSE requests[q]
    BY <1>13 DEF AcceptFails, RequestsOf, ServiceInv, RequestsRight, RequestType
  <2>6. /\ RequestsOf(g)' = {} /\ WaitersOf(g)' = {}
        /\ \A h \in Gen : h # g => RequestsOf(h)' = RequestsOf(h) /\ WaitersOf(h)' = WaitersOf(h)
    <3>1. \A h \in Gen : h # 0
      BY DEF Gen
    <3>2. RequestsOf(g)' = {}
      BY <2>5, <3>1 DEF RequestsOf, NoRequest
    <3>3. \A h \in Gen : h # g => RequestsOf(h)' = RequestsOf(h)
      BY <2>5, <3>1 DEF RequestsOf, NoRequest
    <3>4. ASSUME NEW h \in Gen, h # g
          PROVE  WaitersOf(h)' = WaitersOf(h)
      <4>1. \A q \in RequestsOf(h) : requests'[q] = requests[q]
        BY <2>5, <3>4 DEF RequestsOf
      <4> QED BY <3>3, <3>4, <4>1 DEF WaitersOf
    <3> QED BY <3>2, <3>3, <3>4 DEF WaitersOf
  <2>7. RequestsRight'
    <3>1. \A h \in Gen : waits[h] \in Nat
      BY DEF ServiceInv, RequestsRight
    <3>2. \A h \in Gen : /\ IsFiniteSet(WaitersOf(h)') /\ Cardinality(WaitersOf(h)') <= waits[h]
                         /\ waits[h] <= WaitSlots
      BY SMTT(30), <2>6, <3>1, FS_EmptySet DEF ServiceInv, RequestsRight
    <3>3. \A h \in Gen : owner'[h].http \notin {"up", "stopping"} \/ owner'[h].at = "starting" =>
                         RequestsOf(h)' = {} /\ waits[h] = 0
      BY <2>1, <2>4, <2>6 DEF ServiceInv, RequestsRight
    <3> QED BY <2>2, <2>5, <3>2, <3>3 DEF ServiceInv, RequestsRight
  <2>8. NewsTyped'
    BY <2>2 DEF ServiceInv, NewsTyped
  <2>9. ChangeTold'
    <3>1. \A q \in RequestsOf(g) : requests[q].at # "send"
      BY <1>13 DEF AcceptFails
    <3>2. \A h \in Gen : h # g => \A q \in RequestsOf(h) : requests'[q] = requests[q]
      BY <2>5 DEF RequestsOf
    <3> QED BY <2>1, <2>2, <2>4, <2>6, <3>1, <3>2 DEF ServiceInv, ChangeTold, Closing
  <2> QED BY <2>3, <2>7, <2>8, <2>9 DEF ServiceInv
<1>14. CASE Shutdown(g)
  <2> DEFINE w == [owner[g] EXCEPT !.at = "operations"]
  <2>1. /\ w \in OwnerType /\ owner' = [owner EXCEPT ![g] = w] /\ Staged(w) /\ Winding(w)
        /\ w.at = "operations" /\ w.http = owner[g].http /\ owner[g].at = "open" /\ Alive(w)
        /\ Alive(owner[g])
    BY <1>0, <1>14 DEF Shutdown, Moves, OwnerType, Stages, Staged, Alive, Winding
  <2> HIDE DEF w
  <2>2. UNCHANGED <<descriptor, requests, waits>>
    BY <1>14 DEF Shutdown
  <2>3. OwnersRight' /\ DescriptorRight' /\ descriptor' \in 0..MaxGen
    BY <2>1, <2>2, OwnerGoesOn DEF Alive
  <2>4. RequestsRight'
    BY <2>1, <2>2, RequestsGoOn
  <2>5. NewsTyped'
    BY <1>14, <2>3 DEF Shutdown, ServiceInv, NewsTyped
  <2>6. ChangeTold'
    <3>1. \A h \in Gen : h # g => /\ owner'[h] = owner[h] /\ channel'[h] = channel[h]
                                  /\ untold'[h] = untold[h] /\ watcher'[h] = watcher[h]
      BY <1>0, <1>14, <2>1 DEF Shutdown, ServiceInv, NewsTyped
    <3>2. untold'[g] = FALSE
      BY <1>14 DEF Shutdown, ServiceInv, NewsTyped
    <3>3. \A h : RequestsOf(h)' = RequestsOf(h)
      BY <2>2 DEF RequestsOf
    <3> QED BY <2>2, <3>1, <3>2, <3>3 DEF ServiceInv, ChangeTold, Closing
  <2> QED BY <2>3, <2>4, <2>5, <2>6 DEF ServiceInv
<1> QED BY <1>1, <1>2, <1>3, <1>4, <1>5, <1>6, <1>7, <1>8, <1>9, <1>10, <1>11, <1>12, <1>13,
           <1>14 DEF OwnerNext

\* A request that comes to another place of its service.
LEMMA RequestsMove ==
  ASSUME ServiceInv, NEW q \in Slot, NEW g \in Gen, NEW r \in RequestType,
         requests' = [requests EXCEPT ![q] = r], UNCHANGED <<owner, descriptor>>,
         requests[q].gen = g \/ (requests[q] = NoRequest /\ owner[g].http = "up"
                                /\ owner[g].at # "starting"),
         r.gen = g \/ r = NoRequest,
         \/ UNCHANGED waits
         \/ /\ waits' = [waits EXCEPT ![g] = waits[g] + 1] /\ waits[g] < WaitSlots
         \/ /\ waits' = [waits EXCEPT ![g] = waits[g] - 1] /\ requests[q].at = "wait"
            /\ r.at # "wait",
         requests[q].at # "wait" /\ r.at = "wait" => waits' = [waits EXCEPT ![g] = waits[g] + 1]
  PROVE  RequestsRight' /\ (\A h \in Gen : h # g => RequestsOf(h)' = RequestsOf(h))
<1>0. /\ requests' \in [Slot -> RequestType]
      /\ \A p \in Slot : requests'[p] = IF p = q THEN r ELSE requests[p]
  BY DEF ServiceInv, RequestsRight
<1>1. \A h \in Gen : h # g => RequestsOf(h)' = RequestsOf(h)
  <2>1. \A h \in Gen : h # 0
    BY DEF Gen
  <2> QED BY <1>0, <2>1 DEF RequestsOf, NoRequest
<1>2. \A h \in Gen : h # g => WaitersOf(h)' = WaitersOf(h)
  <2> SUFFICES ASSUME NEW h \in Gen, h # g
               PROVE  WaitersOf(h)' = WaitersOf(h)
    OBVIOUS
  <2>1. q \notin RequestsOf(h)
    BY DEF RequestsOf, NoRequest, Gen
  <2>2. \A p \in RequestsOf(h) : requests'[p] = requests[p]
    BY <1>0, <2>1 DEF RequestsOf
  <2> QED BY <1>1, <2>2 DEF WaitersOf
<1>3. /\ owner[g].http \in {"up", "stopping"} /\ owner[g].at # "starting"
  <2>1. CASE requests[q].gen = g
    <3>1. q \in RequestsOf(g)
      BY <2>1 DEF RequestsOf
    <3> QED BY <3>1 DEF ServiceInv, RequestsRight
  <2> QED BY <2>1
<1>4. /\ waits[g] \in Nat /\ IsFiniteSet(WaitersOf(g)) /\ waits[g] <= WaitSlots
      /\ Cardinality(WaitersOf(g)) \in Nat /\ Cardinality(WaitersOf(g)) <= waits[g]
  BY FS_CardinalityType DEF ServiceInv, RequestsRight
<1>5. WaitersOf(g)' = IF r.at = "wait" THEN WaitersOf(g) \cup {q} ELSE WaitersOf(g) \ {q}
  <2>1. r.at = "wait" => r.gen = g
    BY DEF NoRequest
  <2>2. \A p \in Slot : p \in WaitersOf(g)' <=> IF p = q THEN r.at = "wait" ELSE p \in WaitersOf(g)
    BY <1>0, <2>1 DEF WaitersOf, RequestsOf
  <2>3. WaitersOf(g)' \subseteq Slot /\ WaitersOf(g) \subseteq Slot
    BY DEF WaitersOf, RequestsOf
  <2> QED BY <2>2, <2>3
<1>6. q \in WaitersOf(g) <=> requests[q].at = "wait"
  BY DEF WaitersOf, RequestsOf, NoRequest
<1>7. /\ waits' \in [Gen -> Nat] /\ (\A h \in Gen : h # g => waits'[h] = waits[h])
      /\ waits'[g] <= WaitSlots
      /\ IsFiniteSet(WaitersOf(g)') /\ Cardinality(WaitersOf(g)') <= waits'[g]
  <2>1. /\ IsFiniteSet(WaitersOf(g) \cup {q})
        /\ Cardinality(WaitersOf(g) \cup {q}) = IF q \in WaitersOf(g) THEN Cardinality(WaitersOf(g))
                                                 ELSE Cardinality(WaitersOf(g)) + 1
    BY <1>4, FS_AddElement
  <2>2. /\ IsFiniteSet(WaitersOf(g) \ {q})
        /\ Cardinality(WaitersOf(g) \ {q}) = IF q \in WaitersOf(g) THEN Cardinality(WaitersOf(g)) - 1
                                              ELSE Cardinality(WaitersOf(g))
    BY <1>4, FS_RemoveElement
  <2>3. waits \in [Gen -> Nat]
    BY DEF ServiceInv, RequestsRight
  <2>4. q \in WaitersOf(g) => Cardinality(WaitersOf(g)) # 0
    BY <1>4, FS_EmptySet
  <2>5. CASE UNCHANGED waits
    <3>1. r.at = "wait" => q \in WaitersOf(g)
      <4>1. waits' # [waits EXCEPT ![g] = waits[g] + 1]
        BY <1>4, <2>3, <2>5
      <4> QED BY <1>6, <4>1
    <3> QED BY <1>4, <1>5, <2>1, <2>2, <2>3, <2>5, <3>1
  <2>6. CASE waits' = [waits EXCEPT ![g] = waits[g] + 1] /\ waits[g] < WaitSlots
    BY <1>4, <1>5, <2>1, <2>2, <2>3, <2>6, ServiceBounds
  <2>7. CASE /\ waits' = [waits EXCEPT ![g] = waits[g] - 1] /\ requests[q].at = "wait"
             /\ r.at # "wait"
    <3>1. q \in WaitersOf(g) /\ WaitersOf(g)' = WaitersOf(g) \ {q} /\ waits[g] >= 1
      BY <1>4, <1>5, <1>6, <2>4, <2>7
    <3>2. waits' \in [Gen -> Nat] /\ waits'[g] = waits[g] - 1
      BY <1>4, <2>3, <2>7, <3>1
    <3> QED BY <1>4, <2>2, <2>3, <2>7, <3>1, <3>2, ServiceBounds
  <2> QED BY <2>5, <2>6, <2>7
<1>8. \A h \in Gen : IsFiniteSet(WaitersOf(h)') /\ Cardinality(WaitersOf(h)') <= waits'[h]
                    /\ waits'[h] <= WaitSlots
  BY <1>2, <1>7 DEF ServiceInv, RequestsRight
<1>9. \A h \in Gen : owner'[h].http \notin {"up", "stopping"} \/ owner'[h].at = "starting" =>
                    RequestsOf(h)' = {} /\ waits'[h] = 0
  BY <1>1, <1>3, <1>7 DEF ServiceInv, RequestsRight
<1> QED BY <1>0, <1>1, <1>7, <1>8, <1>9 DEF RequestsRight

\* The steps of the requests.
LEMMA RequestStep ==
  ASSUME ServiceInv, NEW q \in Slot, RequestNext(q)
  PROVE  ServiceInv'
<1>0. PICK g \in Gen, r \in RequestType :
        /\ requests' = [requests EXCEPT ![q] = r]
        /\ requests[q].gen = g \/ (requests[q] = NoRequest /\ owner[g].http = "up"
                                   /\ owner[g].at # "starting")
        /\ r.gen = g \/ r = NoRequest
        /\ \/ UNCHANGED waits
           \/ /\ waits' = [waits EXCEPT ![g] = waits[g] + 1] /\ waits[g] < WaitSlots
           \/ /\ waits' = [waits EXCEPT ![g] = waits[g] - 1] /\ requests[q].at = "wait"
              /\ r.at # "wait"
        /\ requests[q].at # "wait" /\ r.at = "wait" => waits' = [waits EXCEPT ![g] = waits[g] + 1]
        /\ \/ UNCHANGED <<channel, untold>> /\ requests[q].at # "send"
           \/ Changes(g) /\ UNCHANGED channel /\ r.gen = g /\ r.at = "send"
           \/ Sent(g) /\ UNCHANGED untold
  <2>0. requests \in [Slot -> RequestType] /\ NoRequest \in RequestType
    BY DEF ServiceInv, RequestsRight, RequestType
  <2> DEFINE g == requests[q].gen
             To(x) == [requests[q] EXCEPT !.at = x]
  <2>1. ASSUME requests[q] # NoRequest
        PROVE  /\ g \in Gen
               /\ \A x \in {"body", "bind", "wait", "send"} :
                    To(x) \in RequestType /\ To(x).gen = g /\ To(x).at = x
    BY <2>0, <2>1 DEF RequestType
  <2>2. NoRequest.at = "none"
    BY DEF NoRequest
  <2>3. CASE \E h \in Gen : Accept(q, h)
    <3>1. PICK h \in Gen, at \in {"body", "bind"} :
            /\ requests' = [requests EXCEPT ![q] = [gen |-> h, at |-> at]]
            /\ owner[h].http = "up" /\ owner[h].at # "starting" /\ requests[q] = NoRequest
            /\ UNCHANGED <<waits, channel, untold>>
      BY <2>3 DEF Accept
    <3> DEFINE r == [gen |-> h, at |-> at]
    <3>2. r \in RequestType /\ r.gen = h /\ r.at # "wait" /\ requests[q].at # "send"
      BY <2>2, <3>1 DEF RequestType
    <3> HIDE DEF r
    <3>3. requests' = [requests EXCEPT ![q] = r]
      BY <3>1 DEF r
    <3> QED BY <3>1, <3>2, <3>3
  <2>4. CASE WaitForToken(q)
    BY <2>0, <2>1, <2>2, <2>4 DEF WaitForToken, Goes, EndRequest
  <2>5. CASE WaitEnds(q)
    BY <2>0, <2>1, <2>2, <2>5 DEF WaitEnds, Goes, EndRequest
  <2>6. CASE Commit(q)
    BY <2>0, <2>1, <2>2, <2>6 DEF Commit, Goes, EndRequest
  <2>7. CASE Send(q)
    BY <2>0, <2>1, <2>2, <2>7 DEF Send, EndRequest
  <2>8. CASE Dropped(q)
    BY <2>0, <2>1, <2>2, <2>8 DEF Dropped, Waiting, EndRequest
  <2> QED BY <2>3, <2>4, <2>5, <2>6, <2>7, <2>8 DEF RequestNext
<1>1. UNCHANGED <<owner, descriptor, watcher>>
  BY DEF RequestNext, Accept, WaitForToken, WaitEnds, Commit, Send, Dropped
<1>2. OwnersRight' /\ DescriptorRight' /\ descriptor' \in 0..MaxGen
  BY <1>1, OwnersKeep
<1>3. RequestsRight' /\ (\A h \in Gen : h # g => RequestsOf(h)' = RequestsOf(h))
  BY <1>0, <1>1, RequestsMove
<1>4. NewsTyped'
  <2>1. /\ channel \in [Gen -> Nat] /\ untold \in [Gen -> BOOLEAN] /\ watcher \in [Gen -> BOOLEAN]
    BY DEF ServiceInv, NewsTyped
  <2>2. channel' \in [Gen -> Nat]
    BY <1>0, <2>1, ServiceBounds DEF Sent
  <2>3. untold' \in [Gen -> BOOLEAN]
    <3>1. CASE Changes(g)
      <4> DEFINE b == ~Closing(g)
      <4>1. untold' = [untold EXCEPT ![g] = b] /\ b \in BOOLEAN
        BY <3>1 DEF Changes, Closing
      <4> HIDE DEF b
      <4> QED BY <2>1, <4>1
    <3> QED BY <1>0, <2>1, <3>1
  <2> QED BY <1>1, <1>2, <2>1, <2>2, <2>3 DEF NewsTyped
<1>5. ChangeTold'
  <2> SUFFICES ASSUME NEW h \in Gen, untold'[h], ~Closing(h)'
               PROVE  \/ channel'[h] > 0 \/ watcher'[h] \/ owner'[h].call = "send"
                      \/ \E p \in RequestsOf(h)' : requests'[p].at = "send"
    BY DEF ChangeTold
  <2>0. /\ requests \in [Slot -> RequestType] /\ ~Closing(h)
        /\ \A p \in Slot : requests'[p] = IF p = q THEN r ELSE requests[p]
    BY <1>0, <1>1 DEF ServiceInv, RequestsRight, Closing
  <2>1. ASSUME untold[h], channel'[h] >= channel[h], requests[q].gen # h \/ requests[q].at # "send"
        PROVE  \/ channel'[h] > 0 \/ watcher'[h] \/ owner'[h].call = "send"
               \/ \E p \in RequestsOf(h)' : requests'[p].at = "send"
    <3>1. \/ channel[h] > 0 \/ watcher[h] \/ owner[h].call = "send"
          \/ \E p \in RequestsOf(h) : requests[p].at = "send"
      BY <2>0, <2>1 DEF ServiceInv, ChangeTold
    <3>2. channel[h] \in Nat /\ channel'[h] \in Nat
      BY <1>4 DEF ServiceInv, NewsTyped
    <3>3. CASE \E p \in RequestsOf(h) : requests[p].at = "send"
      <4>1. PICK p \in Slot : requests[p].gen = h /\ requests[p].at = "send"
        BY <3>3 DEF RequestsOf
      <4>2. requests'[p] = requests[p]
        BY <2>0, <2>1, <4>1
      <4> QED BY <4>1, <4>2 DEF RequestsOf
    <3> QED BY <1>1, <2>1, <3>1, <3>2, <3>3
  <2>2. CASE UNCHANGED <<channel, untold>> /\ requests[q].at # "send"
    BY <1>4, <2>1, <2>2 DEF NewsTyped
  <2>3. CASE Changes(g) /\ UNCHANGED channel /\ r.gen = g /\ r.at = "send"
    <3>1. CASE h = g
      BY <2>0, <2>3, <3>1 DEF RequestsOf
    <3>2. CASE h # g
      <4>1. untold[h]
        BY <2>3, <3>2 DEF Changes, ServiceInv, NewsTyped
      <4>2. requests[q].gen # h
        BY <1>0, <3>2 DEF NoRequest, Gen
      <4>3. channel'[h] >= channel[h]
        BY <2>3 DEF ServiceInv, NewsTyped
      <4> QED BY <2>1, <4>1, <4>2, <4>3
    <3> QED BY <3>1, <3>2
  <2>4. CASE Sent(g) /\ UNCHANGED untold
    <3>1. CASE h = g
      BY <2>0, <2>4, <3>1, ServiceBounds DEF Sent, ServiceInv, NewsTyped
    <3>2. CASE h # g
      <4>1. untold[h] /\ channel'[h] >= channel[h]
        BY <2>4, <3>2 DEF Sent, ServiceInv, NewsTyped
      <4>2. requests[q].gen # h
        BY <1>0, <3>2 DEF NoRequest, Gen
      <4> QED BY <2>1, <4>1, <4>2
    <3> QED BY <3>1, <3>2
  <2> QED BY <1>0, <2>2, <2>3, <2>4
<1> QED BY <1>2, <1>3, <1>4, <1>5 DEF ServiceInv

LEMMA ServiceInvSafe == ServiceInv => ServiceSafe
<1> SUFFICES ASSUME ServiceInv
             PROVE  ServiceSafe
  OBVIOUS
<1>1. PlacesKept
  BY DEF PlacesKept, ServiceInv, RequestsRight
<1>2. NothingLeft
  <2> SUFFICES ASSUME NEW g \in Gen, owner[g].at = "finished", ~owner[g].failed
               PROVE  /\ owner[g].call = "none" /\ RequestsOf(g) = {} /\ waits[g] = 0
                      /\ owner[g].http = "joined" /\ owner[g].registry = "closed"
                      /\ descriptor # g
    BY DEF NothingLeft
  <2>1. owner[g].call = "none" /\ owner[g].http = "joined" /\ owner[g].registry = "closed"
    BY DEF ServiceInv, OwnersRight, Staged
  <2>2. RequestsOf(g) = {} /\ waits[g] = 0
    BY <2>1 DEF ServiceInv, RequestsRight
  <2>3. descriptor # g
    BY <2>1 DEF ServiceInv, DescriptorRight, Closing
  <2> QED BY <2>1, <2>2, <2>3
<1> QED BY <1>1, <1>2 DEF ServiceSafe, ServiceInv

\* Generations of one project that overlap, with however many requests: tools find the
\* server of the last one, a change of the registry is told however full the channel is,
\* and a shutdown that reports no failure leaves nothing behind.
THEOREM ServiceIsSafe == ServiceSpec => []ServiceSafe
<1>1. ServiceInv /\ [ServiceNext]_servicevars => ServiceInv'
  <2> SUFFICES ASSUME ServiceInv, [ServiceNext]_servicevars
               PROVE  ServiceInv'
    OBVIOUS
  <2>1. CASE UNCHANGED servicevars
    <3>1. UNCHANGED <<owner, descriptor, requests, waits, channel, untold, watcher>>
      BY <2>1 DEF servicevars
    <3>2. OwnersRight' /\ DescriptorRight' /\ descriptor' \in 0..MaxGen
      BY <3>1, OwnersKeep
    <3>3. RequestsRight'
      BY <3>1 DEF ServiceInv, RequestsRight, RequestsOf, WaitersOf
    <3>4. NewsTyped' /\ ChangeTold'
      BY <3>1 DEF ServiceInv, NewsTyped, ChangeTold, RequestsOf, Closing
    <3> QED BY <3>2, <3>3, <3>4 DEF ServiceInv
  <2> QED BY <2>1, OwnerStep, RequestStep DEF ServiceNext
<1> QED BY <1>1, ServiceBegins, ServiceInvSafe, PTL DEF ServiceSpec

-----------------------------------------------------------------------------
(* The file of a store *)

FileType ==
  [ready : BOOLEAN, bound : Places \cup {Nothing}, applied : Seq(Workers), torn : BOOLEAN]
DoingType ==
  [pc : {"idle", "opened", "probing", "probed", "locked", "ready", "created", "initialized",
         "checked", "committed", "copying", "copied"},
   goal : {"write", "backup", "rebind", "create", Nothing}, at : Places \cup {Nothing},
   file : Nat \cup {Nothing}, copy : Nat \cup {Nothing}, source : Nat \cup {Nothing}]

Alone(d) == d.pc \in {"locked", "initialized"}
Copies(d) == d.pc \in {"copying", "copied"}
Holds(d) == Alone(d) \/ Copies(d) \/ d.pc \in {"ready", "checked", "committed"}
Wrote(f) == {f.applied[i] : i \in DOMAIN f.applied}

FilesTyped ==
  /\ process \in [Workers -> Processes] /\ asked \subseteq Workers
  /\ files \in Seq(FileType) /\ Len(files) <= MaxFiles
  /\ doing \in [Workers -> DoingType]
  /\ writer \in [1..MaxFiles -> Workers \cup {Nothing}]
  /\ names \in [Places \cup {"backup"} -> Nat \cup {Nothing}]
  /\ \A p \in Places \cup {"backup"} : names[p] # Nothing => names[p] \in 1..Len(files)

\* Whoever uses a store has its file locked, and whoever has just locked it is alone.
HoldersRight ==
  /\ held \in [1..MaxFiles -> OpenStore \cup {Nothing}]
  /\ \A t \in Workers : doing[t].pc # "idle" => doing[t].file \in 1..Len(files) /\ doing[t].at \in Places
  /\ \A t \in Workers : Holds(doing[t]) =>
       /\ held[doing[t].file] \in OpenStore /\ t \in held[doing[t].file].users
       /\ held[doing[t].file].proc = process[t]
  /\ \A t \in Workers : Alone(doing[t]) =>
       /\ ~held[doing[t].file].listed
       /\ \A u \in Workers : u # t /\ Holds(doing[u]) => doing[u].file # doing[t].file

\* While a store is copied nobody writes it, and nobody knows the copy.
CopiesRight ==
  \A t \in Workers : Copies(doing[t]) =>
    /\ writer[doing[t].file] = t /\ doing[t].copy \in 1..Len(files)
    /\ \A u \in Workers : doing[u].pc # "idle" => doing[u].file # doing[t].copy
    /\ \A u \in Workers : u # t /\ Copies(doing[u]) => doing[u].copy # doing[t].copy
    /\ \A p \in Places \cup {"backup"} : names[p] # Nothing => names[p] # doing[t].copy
    /\ doing[t].pc = "copying" => files[doing[t].copy] = files[doing[t].file]

\* A thread that still asks for a write has written nothing, unless it is about to learn it.
WritesRight ==
  /\ \A t \in Workers : doing[t].pc # "idle" /\ doing[t].goal = "write" => t \notin asked
  /\ \A t \in Workers : doing[t].pc \in {"checked", "committed"} => doing[t].goal = "write"
  /\ \A f \in 1..Len(files) :
       /\ ~files[f].torn /\ IsFiniteSet(Wrote(files[f]))
       /\ Cardinality(Wrote(files[f])) = Len(files[f].applied)
       /\ \A x \in Wrote(files[f]) : x \in asked \/ doing[x].pc = "committed"

FilesInv == FilesTyped /\ HoldersRight /\ CopiesRight /\ WritesRight
-----------------------------------------------------------------------------
LEMMA FilesBegin == SFInit => FilesInv
<1> SUFFICES ASSUME SFInit
             PROVE  FilesInv
  OBVIOUS
<1>1. Resting \in DoingType /\ Resting.pc = "idle"
  BY DEF Resting, DoingType
<1>2. \A t \in Workers : doing[t].pc = "idle"
  BY <1>1 DEF SFInit
<1>3. files = <<>> /\ Len(files) = 0
  BY DEF SFInit
<1>4. FilesTyped
  BY <1>1, <1>3, FileBounds DEF SFInit, FilesTyped
<1>5. HoldersRight
  BY <1>2 DEF SFInit, HoldersRight, Holds, Alone, Copies
<1>6. CopiesRight
  BY <1>2 DEF CopiesRight, Copies
<1>7. WritesRight
  BY <1>2, <1>3 DEF WritesRight
<1> QED BY <1>4, <1>5, <1>6, <1>7 DEF FilesInv

\* A thread that locks a file, uses it and lets it go, as far as the locks are concerned.
LEMMA HoldersGoOn ==
  ASSUME FilesInv, NEW t \in Workers, NEW w \in DoingType, doing' = [doing EXCEPT ![t] = w],
         UNCHANGED process, Len(files') \in Nat, Len(files) <= Len(files'),
         w.pc # "idle" => w.file \in 1..Len(files') /\ w.at \in Places, Len(files') <= MaxFiles,
         \/ /\ UNCHANGED held
            /\ Holds(w) => Holds(doing[t]) /\ w.file = doing[t].file
            /\ Alone(w) => Alone(doing[t])
         \/ LetGo(doing[t].file, t) /\ Holds(doing[t]) /\ ~Holds(w)
         \/ /\ w.file \in 1..Len(files) /\ Take(w.file, t) /\ ~Alone(w) /\ ~Holds(doing[t])
            /\ held[w.file] # Nothing /\ held[w.file].listed /\ held[w.file].proc = process[t]
         \/ /\ Open(t, FALSE) /\ held[doing[t].file] = Nothing /\ w.file = doing[t].file
            /\ ~Holds(doing[t]) /\ doing[t].pc # "idle"
         \/ /\ Alone(doing[t]) /\ ~Alone(w) /\ w.file = doing[t].file
            /\ \E b \in BOOLEAN : held' = [held EXCEPT ![doing[t].file].listed = b]
  PROVE  HoldersRight'
<1>0. /\ held \in [1..MaxFiles -> OpenStore \cup {Nothing}]
      /\ process \in [Workers -> Processes] /\ Len(files) \in Nat
      /\ \A u \in Workers : doing'[u] = IF u = t THEN w ELSE doing[u]
      /\ \A u \in Workers : doing[u].pc # "idle" => doing[u].file \in 1..Len(files) /\ doing[u].at \in Places
      /\ \A f \in 1..Len(files) : f \in 1..MaxFiles
      /\ doing[t].pc # "idle" => doing[t].file \in 1..MaxFiles
  BY FileBounds DEF FilesInv, FilesTyped, HoldersRight
<1>1. \A u \in Workers : Holds(doing[u]) =>
        /\ held[doing[u].file] \in OpenStore /\ u \in held[doing[u].file].users
        /\ held[doing[u].file].proc = process[u] /\ doing[u].file \in 1..MaxFiles
  BY <1>0 DEF FilesInv, HoldersRight, Holds, Alone, Copies
<1>2. \A u \in Workers : Alone(doing[u]) =>
        /\ ~held[doing[u].file].listed
        /\ \A v \in Workers : v # u /\ Holds(doing[v]) => doing[v].file # doing[u].file
  BY DEF FilesInv, HoldersRight
<1>3. \A u \in Workers : doing'[u].pc # "idle" => doing'[u].file \in 1..Len(files') /\ doing'[u].at \in Places
  BY <1>0
<1>4. \A d : Alone(d) => Holds(d)
  BY DEF Holds
<1>5. CASE /\ UNCHANGED held
           /\ Holds(w) => Holds(doing[t]) /\ w.file = doing[t].file
           /\ Alone(w) => Alone(doing[t])
  <2>1. \A u \in Workers : /\ Holds(doing'[u]) => Holds(doing[u]) /\ doing'[u].file = doing[u].file
                           /\ Alone(doing'[u]) => Alone(doing[u])
    BY <1>0, <1>5
  <2>2. \A u \in Workers : Holds(doing'[u]) =>
          /\ held'[doing'[u].file] \in OpenStore /\ u \in held'[doing'[u].file].users
          /\ held'[doing'[u].file].proc = process'[u]
    BY <1>1, <1>5, <2>1
  <2>3. ASSUME NEW u \in Workers, Alone(doing'[u])
        PROVE  /\ ~held'[doing'[u].file].listed
               /\ \A v \in Workers : v # u /\ Holds(doing'[v]) => doing'[v].file # doing'[u].file
    <3>0. Holds(doing'[u])
      BY <2>3 DEF Holds
    <3>1. doing'[u].file = doing[u].file /\ Alone(doing[u])
      BY <2>1, <2>3, <3>0
    <3> QED BY <1>2, <1>5, <2>1, <3>1
  <2> QED BY <1>0, <1>3, <1>5, <2>2, <2>3 DEF HoldersRight
<1>6. CASE LetGo(doing[t].file, t) /\ Holds(doing[t]) /\ ~Holds(w)
  <2> DEFINE f == doing[t].file
  <2>1. /\ f \in 1..MaxFiles /\ held[f] \in OpenStore /\ t \in held[f].users
        /\ \A g \in 1..MaxFiles : g # f => held'[g] = held[g]
        /\ held'[f] = IF held[f].users = {t} THEN Nothing ELSE [held[f] EXCEPT !.users = @ \ {t}]
    BY <1>0, <1>1, <1>6 DEF LetGo
  <2>2. held' \in [1..MaxFiles -> OpenStore \cup {Nothing}]
    BY <1>0, <1>6, <2>1 DEF LetGo, OpenStore
  <2>3. ASSUME NEW u \in Workers, u # t, Holds(doing[u])
        PROVE  /\ held'[doing[u].file] \in OpenStore /\ u \in held'[doing[u].file].users
               /\ held'[doing[u].file].proc = process[u]
               /\ held'[doing[u].file].listed = held[doing[u].file].listed
    <3>1. CASE doing[u].file = f
      <4>1. held[f].users # {t}
        BY <1>1, <2>3, <3>1
      <4>2. held'[f] = [held[f] EXCEPT !.users = @ \ {t}]
        BY <2>1, <4>1
      <4> HIDE DEF f
      <4> QED BY <1>1, <2>1, <2>3, <3>1, <4>2 DEF OpenStore
    <3>2. CASE doing[u].file # f
      BY <1>1, <2>1, <2>3, <3>2
    <3> QED BY <3>1, <3>2
  <2> QED BY SMTT(30), <1>0, <1>2, <1>3, <1>4, <1>6, <2>2, <2>3 DEF HoldersRight
<1>7. CASE /\ w.file \in 1..Len(files) /\ Take(w.file, t) /\ ~Alone(w) /\ ~Holds(doing[t])
           /\ held[w.file] # Nothing /\ held[w.file].listed /\ held[w.file].proc = process[t]
  <2> DEFINE f == w.file
             h == [held[f] EXCEPT !.users = @ \cup {t}]
  <2>1. f \in 1..MaxFiles /\ held[f] \in OpenStore
    BY <1>0, <1>7
  <2>2. /\ \A g \in 1..MaxFiles : g # f => held'[g] = held[g]
        /\ held'[f] = h
    BY <1>0, <1>7, <2>1 DEF Take
  <2>3. /\ h \in OpenStore /\ h.users = held[f].users \cup {t} /\ h.proc = held[f].proc
        /\ h.listed = held[f].listed
    BY <2>1 DEF OpenStore
  <2>4. held' = [held EXCEPT ![f] = h]
    BY <1>7 DEF Take
  <2> HIDE DEF h, f
  <2>5. held' \in [1..MaxFiles -> OpenStore \cup {Nothing}]
    BY <1>0, <2>3, <2>4
  <2>6. ASSUME NEW u \in Workers, Holds(doing'[u])
        PROVE  /\ held'[doing'[u].file] \in OpenStore /\ u \in held'[doing'[u].file].users
               /\ held'[doing'[u].file].proc = process'[u]
    <3>1. CASE u = t
      BY <1>0, <1>7, <2>2, <2>3, <3>1 DEF f
    <3>2. CASE u # t
      BY <1>0, <1>1, <2>1, <2>2, <2>3, <2>6, <3>2
    <3> QED BY <3>1, <3>2
  <2>7. ASSUME NEW u \in Workers, Alone(doing'[u])
        PROVE  /\ ~held'[doing'[u].file].listed
               /\ \A v \in Workers : v # u /\ Holds(doing'[v]) => doing'[v].file # doing'[u].file
    <3>1. u # t /\ doing'[u] = doing[u] /\ Alone(doing[u])
      BY <1>0, <1>7, <2>7
    <3>2. ~held[doing[u].file].listed /\ doing[u].file # f
      BY <1>2, <1>7, <3>1 DEF f
    <3>3. held'[doing[u].file] = held[doing[u].file]
      BY <1>1, <1>4, <2>2, <3>1, <3>2
    <3> QED BY <1>0, <1>2, <1>7, <3>1, <3>2, <3>3 DEF f
  <2> QED BY <1>3, <2>5, <2>6, <2>7 DEF HoldersRight
<1>8. CASE /\ Open(t, FALSE) /\ held[doing[t].file] = Nothing /\ w.file = doing[t].file
           /\ ~Holds(doing[t]) /\ doing[t].pc # "idle"
  <2> DEFINE f == doing[t].file
             h == [proc |-> process[t], place |-> doing[t].at, users |-> {t}, listed |-> FALSE]
  <2>1. f \in 1..MaxFiles
    BY <1>0, <1>8
  <2>2. h \in OpenStore /\ t \in h.users /\ h.proc = process[t] /\ ~h.listed
    BY <1>0, <1>8 DEF OpenStore
  <2>3. held' = [held EXCEPT ![f] = h]
    BY <1>8 DEF Open
  <2>4. \A u \in Workers : Holds(doing[u]) => doing[u].file # f
    BY <1>1, <1>8, FileBounds
  <2> HIDE DEF f, h
  <2>5. /\ held' \in [1..MaxFiles -> OpenStore \cup {Nothing}]
        /\ held'[f] = h /\ \A g \in 1..MaxFiles : g # f => held'[g] = held[g]
    BY <1>0, <2>1, <2>2, <2>3
  <2>6. ASSUME NEW u \in Workers, u # t, Holds(doing[u])
        PROVE  held'[doing[u].file] = held[doing[u].file]
    BY <1>1, <2>4, <2>5, <2>6
  <2>7. w.file = f
    BY <1>8 DEF f
  <2>8. \A u \in Workers : Holds(doing'[u]) =>
          /\ held'[doing'[u].file] \in OpenStore /\ u \in held'[doing'[u].file].users
          /\ held'[doing'[u].file].proc = process'[u]
    BY <1>0, <1>1, <2>2, <2>5, <2>6, <2>7
  <2>9. ASSUME NEW u \in Workers, Alone(doing'[u])
        PROVE  /\ ~held'[doing'[u].file].listed
               /\ \A v \in Workers : v # u /\ Holds(doing'[v]) => doing'[v].file # doing'[u].file
    <3>1. CASE u = t
      BY <1>0, <2>2, <2>4, <2>5, <2>7, <3>1
    <3>2. CASE u # t
      BY <1>0, <1>2, <1>4, <2>4, <2>6, <2>7, <2>9, <3>2
    <3> QED BY <3>1, <3>2
  <2> QED BY <1>3, <2>5, <2>8, <2>9 DEF HoldersRight
<1>9. CASE /\ Alone(doing[t]) /\ ~Alone(w) /\ w.file = doing[t].file
           /\ \E b \in BOOLEAN : held' = [held EXCEPT ![doing[t].file].listed = b]
  <2> DEFINE f == doing[t].file
  <2>1. PICK b \in BOOLEAN : held' = [held EXCEPT ![f].listed = b]
    BY <1>9
  <2> DEFINE h == [held[f] EXCEPT !.listed = b]
  <2>2. /\ f \in 1..MaxFiles /\ held[f] \in OpenStore /\ t \in held[f].users
        /\ held[f].proc = process[t]
    BY <1>1, <1>4, <1>9
  <2>3. held' = [held EXCEPT ![f] = h]
    BY <2>1
  <2>4. h \in OpenStore /\ h.users = held[f].users /\ h.proc = held[f].proc
    BY <2>2 DEF OpenStore
  <2>5. \A u \in Workers : u # t /\ Holds(doing[u]) => doing[u].file # f
    BY <1>2, <1>9
  <2> HIDE DEF f, h
  <2>6. /\ held' \in [1..MaxFiles -> OpenStore \cup {Nothing}]
        /\ held'[f] = h /\ \A g \in 1..MaxFiles : g # f => held'[g] = held[g]
    BY <1>0, <2>2, <2>3, <2>4
  <2>7. \A u \in Workers : u # t /\ Holds(doing[u]) => held'[doing[u].file] = held[doing[u].file]
    BY <1>1, <2>5, <2>6
  <2>8. w.file = f
    BY <1>9 DEF f
  <2>9. \A u \in Workers : Holds(doing'[u]) =>
          /\ held'[doing'[u].file] \in OpenStore /\ u \in held'[doing'[u].file].users
          /\ held'[doing'[u].file].proc = process'[u]
    BY <1>0, <1>1, <2>2, <2>4, <2>6, <2>7, <2>8
  <2>10. ASSUME NEW u \in Workers, Alone(doing'[u])
         PROVE  /\ ~held'[doing'[u].file].listed
                /\ \A v \in Workers : v # u /\ Holds(doing'[v]) => doing'[v].file # doing'[u].file
    <3>1. u # t /\ doing'[u] = doing[u]
      BY <1>0, <1>9, <2>10
    <3> QED BY <1>0, <1>2, <1>4, <2>5, <2>7, <2>8, <2>10, <3>1
  <2> QED BY <1>3, <2>6, <2>9, <2>10 DEF HoldersRight
<1> QED BY <1>5, <1>6, <1>7, <1>8, <1>9

\* The copies that others make, when a thread goes on that begins none.
LEMMA CopiesGoOn ==
  ASSUME FilesInv, NEW t \in Workers, NEW w \in DoingType, doing' = [doing EXCEPT ![t] = w],
         Len(files') \in Nat, Len(files) <= Len(files'),
         Copies(w) => /\ Copies(doing[t]) /\ w.copy = doing[t].copy /\ w.file = doing[t].file
                      /\ writer'[w.file] = t
                      /\ w.pc = "copying" => files'[w.copy] = files'[w.file],
         w.pc # "idle" => \/ doing[t].pc # "idle" /\ w.file = doing[t].file
                          \/ w.file = Len(files) + 1
                          \/ \E p \in Places \cup {"backup"} : names[p] # Nothing /\ w.file = names[p],
         \A u \in Workers : u # t /\ Copies(doing[u]) =>
            /\ writer'[doing[u].file] = writer[doing[u].file]
            /\ files'[doing[u].copy] = files[doing[u].copy]
            /\ files'[doing[u].file] = files[doing[u].file],
         \A p \in Places \cup {"backup"} : names'[p] # Nothing =>
            \/ names'[p] = names[p] \/ names'[p] = Len(files) + 1
            \/ Copies(doing[t]) /\ ~Copies(w) /\ names'[p] = doing[t].copy
  PROVE  CopiesRight'
<1>0. /\ \A u \in Workers : doing'[u] = IF u = t THEN w ELSE doing[u]
      /\ Len(files) \in Nat
  BY DEF FilesInv, FilesTyped
<1>1. \A u \in Workers : Copies(doing[u]) =>
        /\ writer[doing[u].file] = u /\ doing[u].copy \in 1..Len(files)
        /\ \A v \in Workers : doing[v].pc # "idle" => doing[v].file # doing[u].copy
        /\ \A v \in Workers : v # u /\ Copies(doing[v]) => doing[v].copy # doing[u].copy
        /\ \A p \in Places \cup {"backup"} : names[p] # Nothing => names[p] # doing[u].copy
        /\ doing[u].pc = "copying" => files[doing[u].copy] = files[doing[u].file]
  BY DEF FilesInv, CopiesRight
<1>2. \A d : Copies(d) => d.pc # "idle"
  BY DEF Copies
<1> SUFFICES ASSUME NEW u \in Workers, Copies(doing'[u])
             PROVE  /\ writer'[doing'[u].file] = u /\ doing'[u].copy \in 1..Len(files')
                    /\ \A v \in Workers : doing'[v].pc # "idle" => doing'[v].file # doing'[u].copy
                    /\ \A v \in Workers : v # u /\ Copies(doing'[v]) => doing'[v].copy # doing'[u].copy
                    /\ \A p \in Places \cup {"backup"} : names'[p] # Nothing => names'[p] # doing'[u].copy
                    /\ doing'[u].pc = "copying" => files'[doing'[u].copy] = files'[doing'[u].file]
  BY DEF CopiesRight
<1>3. /\ Copies(doing[u]) /\ doing'[u].copy = doing[u].copy /\ doing'[u].file = doing[u].file
      /\ doing[u].copy \in 1..Len(files) /\ doing[u].copy # Len(files) + 1
  BY <1>0, <1>1
<1>4. writer'[doing'[u].file] = u /\ (doing'[u].pc = "copying" => files'[doing'[u].copy] = files'[doing'[u].file])
  <2>1. CASE u = t
    BY <1>0, <2>1
  <2>2. CASE u # t
    BY <1>0, <1>1, <1>3, <2>2
  <2> QED BY <2>1, <2>2
<1>5. ASSUME NEW v \in Workers, doing'[v].pc # "idle"
      PROVE  doing'[v].file # doing'[u].copy
  BY <1>0, <1>1, <1>3, <1>5
<1>6. ASSUME NEW v \in Workers, v # u, Copies(doing'[v])
      PROVE  doing'[v].copy # doing'[u].copy
  BY <1>0, <1>1, <1>3, <1>6
<1>7. ASSUME NEW p \in Places \cup {"backup"}, names'[p] # Nothing
      PROVE  names'[p] # doing'[u].copy
  <2>1. CASE Copies(doing[t]) /\ ~Copies(w) /\ names'[p] = doing[t].copy
    <3>1. u # t
      BY <1>0, <2>1
    <3> QED BY <1>1, <1>3, <2>1, <3>1
  <2>2. CASE names'[p] = names[p] \/ names'[p] = Len(files) + 1
    BY <1>1, <1>3, <1>7, <2>2
  <2> QED BY <1>7, <2>1, <2>2
<1> QED BY <1>0, <1>3, <1>4, <1>5, <1>6, <1>7

\* What the files hold of the writes, when a thread goes on that writes nothing.
LEMMA WritesGoOn ==
  ASSUME FilesInv, NEW t \in Workers, NEW w \in DoingType, doing' = [doing EXCEPT ![t] = w],
         UNCHANGED asked, doing[t].pc # "committed",
         w.pc # "idle" /\ w.goal = "write" => t \notin asked,
         w.pc \in {"checked", "committed"} => w.goal = "write",
         \A f \in 1..Len(files') : /\ ~files'[f].torn
                                  /\ \/ files'[f].applied = <<>>
                                     \/ \E g \in 1..Len(files) : files'[f].applied = files[g].applied
  PROVE  WritesRight'
<1>0. \A u \in Workers : doing'[u] = IF u = t THEN w ELSE doing[u]
  BY DEF FilesInv, FilesTyped
<1>1. ASSUME NEW f \in 1..Len(files')
      PROVE  /\ ~files'[f].torn /\ IsFiniteSet(Wrote(files'[f]))
             /\ Cardinality(Wrote(files'[f])) = Len(files'[f].applied)
             /\ \A x \in Wrote(files'[f]) : x \in asked' \/ doing'[x].pc = "committed"
  <2>1. CASE files'[f].applied = <<>>
    <3>1. Wrote(files'[f]) = {} /\ Len(files'[f].applied) = 0
      BY <2>1 DEF Wrote
    <3> QED BY <3>1, FS_EmptySet
  <2>2. CASE \E g \in 1..Len(files) : files'[f].applied = files[g].applied
    <3>1. PICK g \in 1..Len(files) : files'[f].applied = files[g].applied
      BY <2>2
    <3>2. Wrote(files'[f]) = Wrote(files[g])
      BY <3>1 DEF Wrote
    <3>3. \A x \in Wrote(files[g]) : x \in Workers
      <4>1. files[g] \in FileType
        BY DEF FilesInv, FilesTyped
      <4>2. files[g].applied \in Seq(Workers)
        BY <4>1 DEF FileType
      <4>3. \A i \in DOMAIN files[g].applied : files[g].applied[i] \in Workers
        BY <4>2
      <4> QED BY <4>3 DEF Wrote
    <3>4. ASSUME NEW x \in Wrote(files[g])
          PROVE  x \in asked' \/ doing'[x].pc = "committed"
      <4>1. x \in Workers
        BY <3>3
      <4>2. x \in asked \/ doing[x].pc = "committed"
        BY DEF FilesInv, WritesRight
      <4> QED BY <1>0, <4>1, <4>2
    <3> QED BY <3>1, <3>2, <3>4 DEF FilesInv, WritesRight
  <2> QED BY <2>1, <2>2
<1>2. \A u \in Workers : doing'[u].pc # "idle" /\ doing'[u].goal = "write" => u \notin asked'
  BY <1>0 DEF FilesInv, WritesRight
<1>3. \A u \in Workers : doing'[u].pc \in {"checked", "committed"} => doing'[u].goal = "write"
  BY <1>0 DEF FilesInv, WritesRight
<1> QED BY <1>1, <1>2, <1>3 DEF WritesRight

\* A thread that goes on and changes neither a file nor a name.
LEMMA ThreadGoesOn ==
  ASSUME FilesInv, NEW t \in Workers, NEW w \in DoingType, doing' = [doing EXCEPT ![t] = w],
         UNCHANGED <<process, names, files, writer, asked>>,
         HoldersRight', doing[t].pc # "committed", ~Copies(w),
         w.pc # "idle" /\ w.goal = "write" => t \notin asked,
         w.pc \in {"checked", "committed"} => w.goal = "write",
         w.pc # "idle" => \/ doing[t].pc # "idle" /\ w.file = doing[t].file
                          \/ \E p \in Places \cup {"backup"} : names[p] # Nothing /\ w.file = names[p]
  PROVE  FilesInv'
<1>1. FilesTyped'
  BY DEF FilesInv, FilesTyped
<1>2. Len(files) \in Nat
  BY DEF FilesInv, FilesTyped
<1>3. CopiesRight'
  <2>1. /\ Len(files') = Len(files)
        /\ w.pc # "idle" => \/ doing[t].pc # "idle" /\ w.file = doing[t].file
                            \/ w.file = Len(files) + 1
                            \/ \E p \in Places \cup {"backup"} : names[p] # Nothing /\ w.file = names[p]
    OBVIOUS
  <2>2. \A u \in Workers : u # t /\ Copies(doing[u]) =>
            /\ writer'[doing[u].file] = writer[doing[u].file]
            /\ files'[doing[u].copy] = files[doing[u].copy]
            /\ files'[doing[u].file] = files[doing[u].file]
    OBVIOUS
  <2>3. \A p \in Places \cup {"backup"} : names'[p] # Nothing => names'[p] = names[p]
    OBVIOUS
  <2>4. Len(files') \in Nat /\ Len(files) <= Len(files')
    BY <1>2
  <2>5. \A p \in Places \cup {"backup"} : names'[p] # Nothing =>
            \/ names'[p] = names[p] \/ names'[p] = Len(files) + 1
            \/ Copies(doing[t]) /\ ~Copies(w) /\ names'[p] = doing[t].copy
    BY <2>3
  <2> QED BY <2>1, <2>2, <2>4, <2>5, CopiesGoOn
<1>4. WritesRight'
  <2>1. \A f \in 1..Len(files') : ~files'[f].torn /\ \E g \in 1..Len(files) : files'[f].applied = files[g].applied
    BY DEF FilesInv, WritesRight
  <2> QED BY <2>1, WritesGoOn
<1> QED BY <1>1, <1>3, <1>4 DEF FilesInv

LEMMA GotoIs ==
  ASSUME FilesInv, NEW t \in Workers,
         NEW pc \in {"idle", "opened", "probing", "probed", "locked", "ready", "created",
                     "initialized", "checked", "committed", "copying", "copied"}
  PROVE  \E w \in DoingType :
           /\ w.pc = pc /\ w.goal = doing[t].goal /\ w.at = doing[t].at
           /\ w.file = doing[t].file /\ w.copy = doing[t].copy /\ w.source = doing[t].source
           /\ Goto(t, pc) => doing' = [doing EXCEPT ![t] = w]
<1> DEFINE w == [doing[t] EXCEPT !.pc = pc]
<1>1. doing[t] \in DoingType
  BY DEF FilesInv, FilesTyped
<1>2. w \in DoingType
  BY <1>1 DEF DoingType
<1>3. /\ w.pc = pc /\ w.goal = doing[t].goal /\ w.at = doing[t].at
      /\ w.file = doing[t].file /\ w.copy = doing[t].copy /\ w.source = doing[t].source
  BY <1>1 DEF DoingType
<1>4. Goto(t, pc) => doing' = [doing EXCEPT ![t] = w]
  BY DEF Goto
<1> HIDE DEF w
<1> QED BY <1>2, <1>3, <1>4

LEMMA RestIs == Resting \in DoingType /\ Resting.pc = "idle" /\ ~Holds(Resting) /\ ~Copies(Resting) /\ ~Alone(Resting)
BY DEF Resting, DoingType, Holds, Copies, Alone

\* A thread that is done, or gives up.
LEMMA RestStep ==
  ASSUME FilesInv, NEW t \in Workers, Rest(t), doing[t].pc # "committed",
         UNCHANGED <<process, names, files, writer, asked>>,
         UNCHANGED held \/ (LetGo(doing[t].file, t) /\ Holds(doing[t]))
  PROVE  FilesInv'
<1>1. doing' = [doing EXCEPT ![t] = Resting]
  BY DEF Rest
<1>2. Len(files) \in Nat /\ Len(files) <= MaxFiles
  BY DEF FilesInv, FilesTyped
<1>3. HoldersRight'
  <2>1. UNCHANGED process /\ Len(files') \in Nat /\ Len(files) <= Len(files') /\ Len(files') <= MaxFiles
    BY <1>2
  <2> QED BY <1>1, <2>1, RestIs, HoldersGoOn
<1> QED BY <1>1, <1>3, RestIs, ThreadGoesOn

\* A thread that goes on with its file.
LEMMA GotoStep ==
  ASSUME FilesInv, NEW t \in Workers,
         NEW pc \in {"probing", "probed", "locked", "ready", "checked"}, Goto(t, pc),
         doing[t].pc \notin {"idle", "committed"}, pc = "checked" => doing[t].goal = "write",
         UNCHANGED <<process, names, files, writer, asked>>,
         \/ /\ UNCHANGED held /\ pc # "locked" /\ (pc \in {"ready", "checked"} => Holds(doing[t]))
         \/ /\ Open(t, FALSE) /\ held[doing[t].file] = Nothing /\ ~Holds(doing[t])
         \/ /\ Alone(doing[t]) /\ pc = "ready"
            /\ \E b \in BOOLEAN : held' = [held EXCEPT ![doing[t].file].listed = b]
  PROVE  FilesInv'
<1>1. PICK w \in DoingType :
           /\ w.pc = pc /\ w.goal = doing[t].goal /\ w.at = doing[t].at
           /\ w.file = doing[t].file /\ doing' = [doing EXCEPT ![t] = w]
  BY GotoIs
<1>2. /\ ~Copies(w) /\ (Holds(w) => pc \in {"locked", "ready", "checked"})
      /\ (Alone(w) <=> pc = "locked")
  BY <1>1 DEF Copies, Holds, Alone
<1>3. /\ Len(files) \in Nat /\ Len(files) <= MaxFiles
      /\ doing[t].file \in 1..Len(files) /\ doing[t].at \in Places
  BY DEF FilesInv, FilesTyped, HoldersRight
<1>4. HoldersRight'
  <2>1. /\ UNCHANGED process /\ Len(files') \in Nat /\ Len(files) <= Len(files') /\ Len(files') <= MaxFiles
        /\ w.file \in 1..Len(files') /\ w.at \in Places
    BY <1>1, <1>3
  <2>2. \A d : Alone(d) => Holds(d)
    BY DEF Holds
  <2>3. CASE UNCHANGED held /\ pc # "locked" /\ (pc \in {"ready", "checked"} => Holds(doing[t]))
    <3>1. (Holds(w) => Holds(doing[t]) /\ w.file = doing[t].file) /\ (Alone(w) => Alone(doing[t]))
      BY <1>1, <1>2, <2>3
    <3> QED BY <1>1, <2>1, <2>3, <3>1, HoldersGoOn
  <2>4. CASE Open(t, FALSE) /\ held[doing[t].file] = Nothing /\ ~Holds(doing[t])
    BY <1>1, <2>1, <2>4, HoldersGoOn
  <2>5. CASE /\ Alone(doing[t]) /\ pc = "ready"
             /\ \E b \in BOOLEAN : held' = [held EXCEPT ![doing[t].file].listed = b]
    <3>1. ~Alone(w)
      BY <1>2, <2>5
    <3> QED BY <1>1, <2>1, <2>5, <3>1, HoldersGoOn
  <2> QED BY <2>3, <2>4, <2>5
<1>5. w.pc # "idle" /\ w.goal = "write" => t \notin asked
  BY <1>1 DEF FilesInv, WritesRight
<1> QED BY <1>1, <1>2, <1>4, <1>5, ThreadGoesOn

LEMMA NothingChanges ==
  ASSUME FilesInv, UNCHANGED <<process, names, files, held, writer, doing, asked>>
  PROVE  FilesInv'
BY DEF FilesInv, FilesTyped, HoldersRight, CopiesRight, WritesRight

\* Opening and closing.
LEMMA OpenStep ==
  ASSUME FilesInv, NEW t \in Workers, NEW home \in Places,
         NEW goal \in {"write", "backup", "rebind"}, OpenBegin(t, goal, home)
  PROVE  FilesInv'
<1> DEFINE open == IF goal = "rebind" THEN {} ELSE Shared(t, home)
           First(f, pc) == [Resting EXCEPT !.pc = pc, !.goal = goal, !.at = home, !.file = f]
<1>0. /\ UNCHANGED <<process, names, files, writer, asked>> /\ doing[t].pc = "idle"
      /\ (goal = "write" => t \notin asked) /\ names[home] # Nothing /\ names[home] \in 1..Len(files)
      /\ Len(files) \in Nat /\ Len(files) <= MaxFiles
  BY DEF OpenBegin, BeginOp, FilesInv, FilesTyped
<1>idle. ~Holds(doing[t])
  BY <1>0 DEF Holds, Alone, Copies
<1>1. ASSUME NEW f \in 1..Len(files), NEW pc \in {"opened", "ready"}
      PROVE  /\ First(f, pc) \in DoingType /\ First(f, pc).pc = pc /\ First(f, pc).goal = goal
             /\ First(f, pc).at = home /\ First(f, pc).file = f
             /\ ~Copies(First(f, pc)) /\ ~Alone(First(f, pc))
             /\ (Holds(First(f, pc)) <=> pc = "ready")
  <2>1. f \in Nat
    BY <1>0
  <2>2. /\ First(f, pc) \in DoingType /\ First(f, pc).pc = pc /\ First(f, pc).goal = goal
        /\ First(f, pc).at = home /\ First(f, pc).file = f
    BY <2>1, RestIs DEF DoingType
  <2> HIDE DEF First
  <2> QED BY <2>2 DEF Copies, Alone, Holds
<1> HIDE DEF First
<1>2. ASSUME NEW f \in 1..Len(files), NEW pc \in {"opened", "ready"}, HoldersRight', names[home] = f,
             doing' = [doing EXCEPT ![t] = First(f, pc)]
      PROVE  FilesInv'
  <2> DEFINE w == First(f, pc)
  <2>1. /\ w \in DoingType /\ w.pc = pc /\ w.goal = goal /\ w.file = f /\ ~Copies(w)
        /\ doing' = [doing EXCEPT ![t] = w]
    BY <1>1, <1>2
  <2> HIDE DEF w
  <2>2. \E p \in Places \cup {"backup"} : names[p] # Nothing /\ w.file = names[p]
    BY <1>0, <1>2, <2>1
  <2> QED BY <1>0, <1>2, <2>1, <2>2, ThreadGoesOn
<1>3. ASSUME NEW f \in 1..Len(files), NEW pc \in {"opened", "ready"},
             doing' = [doing EXCEPT ![t] = First(f, pc)],
             \/ UNCHANGED held /\ pc = "opened"
             \/ Take(f, t) /\ held[f] # Nothing /\ held[f].listed /\ held[f].proc = process[t] /\ pc = "ready"
      PROVE  HoldersRight'
  <2> DEFINE w == First(f, pc)
  <2>1. /\ w \in DoingType /\ w.pc = pc /\ w.goal = goal /\ w.file = f /\ w.at = home /\ ~Alone(w)
        /\ doing' = [doing EXCEPT ![t] = w] /\ (Holds(w) <=> pc = "ready")
    BY <1>1, <1>3
  <2> HIDE DEF w
  <2>2. /\ UNCHANGED process /\ Len(files') \in Nat /\ Len(files) <= Len(files') /\ Len(files') <= MaxFiles
        /\ w.file \in 1..Len(files') /\ w.file \in 1..Len(files)
    BY <1>0, <2>1
  <2>3. CASE UNCHANGED held /\ pc = "opened"
    <3>1. ~Holds(w)
      BY <2>1, <2>3
    <3> QED BY <2>1, <2>2, <2>3, <3>1, HoldersGoOn
  <2>4. CASE Take(f, t) /\ held[f] # Nothing /\ held[f].listed /\ held[f].proc = process[t] /\ pc = "ready"
    <3>1. /\ Take(w.file, t) /\ held[w.file] # Nothing /\ held[w.file].listed
          /\ held[w.file].proc = process[t]
      BY <2>1, <2>4
    <3> QED BY <1>idle, <2>1, <2>2, <3>1, HoldersGoOn
  <2> QED BY <1>3, <2>3, <2>4
<1> USE DEF First
<1>4. CASE open = {}
  <2>1. doing' = [doing EXCEPT ![t] = First(names[home], "opened")] /\ UNCHANGED held
    BY <1>4 DEF OpenBegin
  <2>2. HoldersRight'
    BY <1>0, <1>3, <2>1
  <2> QED BY <1>0, <1>2, <2>1, <2>2
<1>5. CASE open # {}
  <2> DEFINE f == CHOOSE x \in open : TRUE
  <2>1. f \in Shared(t, home)
    BY <1>5
  <2>2. f \in 1..Len(files) /\ held[f] # Nothing /\ held[f].proc = process[t] /\ held[f].listed
    BY <2>1 DEF Shared, FilesInv, FilesTyped
  <2>3. CASE names[home] = f /\ files[f].bound = home
    <3>1. doing' = [doing EXCEPT ![t] = First(f, "ready")] /\ Take(f, t)
      BY <1>5, <2>3 DEF OpenBegin
    <3>2. HoldersRight'
      BY <1>3, <2>2, <3>1
    <3> QED BY <1>2, <2>2, <2>3, <3>1, <3>2
  <2>4. CASE ~(names[home] = f /\ files[f].bound = home)
    <3>1. UNCHANGED <<doing, held>>
      BY <1>5, <2>4 DEF OpenBegin
    <3> QED BY <1>0, <3>1, NothingChanges
  <2> QED BY <2>3, <2>4
<1> QED BY <1>4, <1>5

LEMMA UseStep ==
  ASSUME FilesInv, NEW t \in Workers,
         Probe(t) \/ Probed(t) \/ LockForWriting(t) \/ OpenEnd(t) \/ Close(t) \/ CheckWrite(t)
  PROVE  FilesInv'
<1>0. UNCHANGED <<process, names, files, writer, asked>>
  BY DEF Probe, Probed, LockForWriting, OpenEnd, Close, CheckWrite
<1>1. CASE Probe(t)
  <2>1. doing[t].pc = "opened" /\ UNCHANGED held /\ (Goto(t, "probing") \/ Rest(t))
    BY <1>1 DEF Probe
  <2> QED BY <1>0, <2>1, RestStep, GotoStep
<1>2. CASE Probed(t)
  <2>1. doing[t].pc = "probing" /\ UNCHANGED held /\ (Goto(t, "probed") \/ Rest(t))
    BY <1>2 DEF Probed
  <2> QED BY <1>0, <2>1, RestStep, GotoStep
<1>3. CASE LockForWriting(t)
  <2>1. doing[t].pc = "probed" /\ ~Holds(doing[t])
    BY <1>3 DEF LockForWriting, Holds, Alone, Copies
  <2>2. \/ Open(t, FALSE) /\ Goto(t, "locked") /\ held[doing[t].file] = Nothing
        \/ UNCHANGED held /\ Rest(t)
    BY <1>3 DEF LockForWriting, Lockable
  <2> QED BY <1>0, <2>1, <2>2, RestStep, GotoStep
<1>4. CASE OpenEnd(t)
  <2>1. doing[t].pc = "locked" /\ Holds(doing[t]) /\ Alone(doing[t])
    BY <1>4 DEF OpenEnd, Holds, Alone
  <2>2. \/ /\ held' = [held EXCEPT ![doing[t].file].listed = doing[t].goal # "rebind"]
           /\ Goto(t, "ready")
        \/ LetGo(doing[t].file, t) /\ Rest(t)
    BY <1>4 DEF OpenEnd
  <2>3. (doing[t].goal # "rebind") \in BOOLEAN
    OBVIOUS
  <2> QED BY <1>0, <2>1, <2>2, <2>3, RestStep, GotoStep
<1>5. CASE Close(t)
  <2>1. doing[t].pc = "ready" /\ Holds(doing[t]) /\ LetGo(doing[t].file, t) /\ Rest(t)
    BY <1>5 DEF Close, Holds
  <2> QED BY <1>0, <2>1, RestStep
<1>6. CASE CheckWrite(t)
  <2>1. /\ doing[t].pc = "ready" /\ Holds(doing[t]) /\ doing[t].goal = "write"
        /\ Goto(t, "checked") /\ UNCHANGED held
    BY <1>6 DEF CheckWrite, Holds
  <2> QED BY <1>0, <2>1, GotoStep
<1> QED BY <1>1, <1>2, <1>3, <1>4, <1>5, <1>6

-----------------------------------------------------------------------------
\* A thread that is alone with its file, or that nobody keeps from writing, does not
\* touch what another thread copies.
LEMMA NotCopied ==
  ASSUME FilesInv, NEW t \in Workers, doing[t].pc # "idle",
         Alone(doing[t]) \/ writer[doing[t].file] = Nothing \/ held[doing[t].file] = Nothing
         \/ writer[doing[t].file] = t
  PROVE  \A u \in Workers : u # t /\ Copies(doing[u]) =>
           doing[u].file # doing[t].file /\ doing[u].copy # doing[t].file
<1> SUFFICES ASSUME NEW u \in Workers, u # t, Copies(doing[u])
             PROVE  doing[u].file # doing[t].file /\ doing[u].copy # doing[t].file
  OBVIOUS
<1>1. writer[doing[u].file] = u /\ doing[t].file # doing[u].copy /\ Holds(doing[u])
  BY DEF FilesInv, CopiesRight, Holds
<1>2. held[doing[u].file] # Nothing
  BY <1>1, FileBounds DEF FilesInv, HoldersRight
<1>3. Alone(doing[t]) => doing[u].file # doing[t].file
  BY <1>1 DEF FilesInv, HoldersRight
<1> QED BY <1>1, <1>2, <1>3, FileBounds

\* What one thread makes of one file.
LEMMA OneFile ==
  ASSUME FilesInv, NEW t \in Workers, NEW f \in 1..Len(files), NEW g \in FileType,
         files' = [files EXCEPT ![f] = g]
  PROVE  /\ files' \in Seq(FileType) /\ Len(files') = Len(files) /\ Len(files') \in Nat
         /\ files[f] \in FileType
         /\ \A i \in 1..Len(files) : files'[i] = IF i = f THEN g ELSE files[i]
BY ExceptSeq DEF FilesInv, FilesTyped

\* A file that is initialised or bound to a place.
LEMMA FileStep ==
  ASSUME FilesInv, NEW t \in Workers, NEW w \in DoingType, doing' = [doing EXCEPT ![t] = w],
         UNCHANGED <<process, names, writer, asked>>, doing[t].pc \notin {"idle", "committed"},
         NEW g \in FileType, files' = [files EXCEPT ![doing[t].file] = g],
         g.applied = files[doing[t].file].applied, ~g.torn,
         HoldersRight', ~Copies(w), w.pc \notin {"checked", "committed"},
         w.pc # "idle" => w.file = doing[t].file /\ w.goal = doing[t].goal,
         Alone(doing[t]) \/ writer[doing[t].file] = Nothing \/ held[doing[t].file] = Nothing
  PROVE  FilesInv'
<1>0. doing[t].file \in 1..Len(files) /\ Len(files) \in Nat
  BY DEF FilesInv, FilesTyped, HoldersRight
<1>1. /\ files' \in Seq(FileType) /\ Len(files') = Len(files) /\ Len(files') \in Nat
      /\ \A i \in 1..Len(files) : files'[i] = IF i = doing[t].file THEN g ELSE files[i]
  BY <1>0, OneFile
<1>2. FilesTyped'
  BY <1>1 DEF FilesInv, FilesTyped
<1>3. CopiesRight'
  <2>1. \A u \in Workers : u # t /\ Copies(doing[u]) =>
            /\ writer'[doing[u].file] = writer[doing[u].file]
            /\ files'[doing[u].copy] = files[doing[u].copy]
            /\ files'[doing[u].file] = files[doing[u].file]
    <3> SUFFICES ASSUME NEW u \in Workers, u # t, Copies(doing[u])
                 PROVE  /\ files'[doing[u].copy] = files[doing[u].copy]
                        /\ files'[doing[u].file] = files[doing[u].file]
      OBVIOUS
    <3>1. doing[u].file # doing[t].file /\ doing[u].copy # doing[t].file
      BY NotCopied
    <3>2. doing[u].copy \in 1..Len(files) /\ doing[u].file \in 1..Len(files)
      BY DEF FilesInv, CopiesRight, HoldersRight, Copies
    <3> QED BY <1>1, <3>1, <3>2
  <2>2. \A p \in Places \cup {"backup"} : names'[p] # Nothing =>
            \/ names'[p] = names[p] \/ names'[p] = Len(files) + 1
            \/ Copies(doing[t]) /\ ~Copies(w) /\ names'[p] = doing[t].copy
    OBVIOUS
  <2>3. w.pc # "idle" =>  \/ doing[t].pc # "idle" /\ w.file = doing[t].file
                          \/ w.file = Len(files) + 1
                          \/ \E p \in Places \cup {"backup"} : names[p] # Nothing /\ w.file = names[p]
    OBVIOUS
  <2>4. Len(files') \in Nat /\ Len(files) <= Len(files')
    BY <1>0, <1>1
  <2> QED BY <2>1, <2>2, <2>3, <2>4, CopiesGoOn
<1>4. WritesRight'
  <2>1. \A f \in 1..Len(files') : /\ ~files'[f].torn
                                  /\ \E h \in 1..Len(files) : files'[f].applied = files[h].applied
    BY <1>0, <1>1 DEF FilesInv, WritesRight
  <2>2. w.pc # "idle" /\ w.goal = "write" => t \notin asked
    BY DEF FilesInv, WritesRight
  <2> QED BY <2>1, <2>2, WritesGoOn
<1> QED BY <1>2, <1>3, <1>4 DEF FilesInv

\* Creating a store, from the lock of its file on, and relocating it.
LEMMA BindStep ==
  ASSUME FilesInv, NEW t \in Workers, Initialize(t) \/ Activate(t) \/ Rebind(t)
  PROVE  FilesInv'
<1> DEFINE f == doing[t].file
<1>0. /\ UNCHANGED <<process, names, writer, asked>> /\ doing[t].pc \notin {"idle", "committed"}
      /\ f \in 1..Len(files) /\ doing[t].at \in Places /\ Len(files) \in Nat /\ Len(files) <= MaxFiles
      /\ files[f] \in FileType /\ ~files[f].torn
  <2>1. UNCHANGED <<process, names, writer, asked>> /\ doing[t].pc \notin {"idle", "committed"}
    BY DEF Initialize, Activate, Rebind
  <2>2. f \in 1..Len(files) /\ doing[t].at \in Places /\ files \in Seq(FileType) /\ Len(files) <= MaxFiles
    BY <2>1 DEF FilesInv, FilesTyped, HoldersRight
  <2> QED BY <2>1, <2>2 DEF FilesInv, WritesRight
<1>1. ASSUME NEW w \in DoingType, doing' = [doing EXCEPT ![t] = w], NEW g \in FileType,
             files' = [files EXCEPT ![f] = g], g.applied = files[f].applied, ~g.torn,
             HoldersRight', ~Copies(w), w.pc \notin {"checked", "committed"},
             w.pc # "idle" => w.file = f /\ w.goal = doing[t].goal,
             Alone(doing[t]) \/ writer[f] = Nothing \/ held[f] = Nothing
      PROVE  FilesInv'
  BY <1>0, <1>1, FileStep
<1>2. ASSUME NEW w \in DoingType, doing' = [doing EXCEPT ![t] = w], NEW g \in FileType,
             files' = [files EXCEPT ![f] = g], w.pc # "idle" => w.file = f /\ w.at = doing[t].at
      PROVE  /\ Len(files') \in Nat /\ Len(files) <= Len(files') /\ Len(files') <= MaxFiles
             /\ UNCHANGED process /\ (w.pc # "idle" => w.file \in 1..Len(files') /\ w.at \in Places)
  <2>1. Len(files') = Len(files)
    BY <1>0, <1>2, OneFile
  <2> QED BY <1>0, <1>2, <2>1
<1> HIDE DEF f
<1>3. CASE Initialize(t)
  <2>1. CASE Named(t) /\ Lockable(f)
    <3> DEFINE g == [files[f] EXCEPT !.ready = TRUE]
    <3>1. PICK w \in DoingType :
            /\ w.pc = "initialized" /\ w.goal = doing[t].goal /\ w.at = doing[t].at
            /\ w.file = f /\ doing' = [doing EXCEPT ![t] = w]
      BY <1>3, <2>1, GotoIs DEF Initialize, f
    <3>2. g \in FileType /\ g.applied = files[f].applied /\ ~g.torn
      BY <1>0 DEF FileType
    <3>3. /\ files' = [files EXCEPT ![f] = g] /\ Open(t, FALSE) /\ held[f] = Nothing
          /\ doing[t].pc = "created"
      BY <1>3, <2>1 DEF Initialize, Lockable, f
    <3> HIDE DEF g
    <3>4. ~Holds(doing[t]) /\ ~Copies(w)
      BY <3>1, <3>3 DEF Holds, Alone, Copies
    <3>5. HoldersRight'
      BY <1>2, <3>1, <3>2, <3>3, <3>4, HoldersGoOn DEF f
    <3> QED BY <1>1, <3>1, <3>2, <3>3, <3>4, <3>5
  <2>2. CASE ~(Named(t) /\ Lockable(f))
    <3>1. Rest(t) /\ UNCHANGED <<held, files>>
      BY <1>3, <2>2 DEF Initialize, f
    <3> QED BY <1>0, <3>1, RestStep
  <2> QED BY <2>1, <2>2
<1>4. CASE Activate(t)
  <2>0. doing[t].pc = "initialized" /\ Alone(doing[t]) /\ Holds(doing[t])
    BY <1>4 DEF Activate, Alone, Holds
  <2>1. CASE Named(t)
    <3> DEFINE g == [files[f] EXCEPT !.bound = doing[t].at]
    <3>1. PICK w \in DoingType :
            /\ w.pc = "ready" /\ w.goal = doing[t].goal /\ w.at = doing[t].at
            /\ w.file = f /\ doing' = [doing EXCEPT ![t] = w]
      BY <1>4, <2>1, GotoIs DEF Activate, f
    <3>2. g \in FileType /\ g.applied = files[f].applied /\ ~g.torn
      BY <1>0 DEF FileType
    <3>3. files' = [files EXCEPT ![f] = g] /\ held' = [held EXCEPT ![f].listed = TRUE]
      BY <1>4, <2>1 DEF Activate, f
    <3> HIDE DEF g
    <3>4. ~Alone(w) /\ ~Copies(w)
      BY <3>1 DEF Alone, Copies
    <3>5. \E b \in BOOLEAN : held' = [held EXCEPT ![f].listed = b]
      BY <3>3
    <3>6. HoldersRight'
      BY <1>2, <2>0, <3>1, <3>2, <3>3, <3>4, <3>5, HoldersGoOn DEF f
    <3> QED BY <1>1, <2>0, <3>1, <3>2, <3>3, <3>4, <3>6
  <2>2. CASE ~Named(t)
    <3>1. Rest(t) /\ LetGo(doing[t].file, t) /\ UNCHANGED files
      BY <1>4, <2>2 DEF Activate
    <3> QED BY <1>0, <2>0, <3>1, RestStep
  <2> QED BY <2>1, <2>2
<1>5. CASE Rebind(t)
  <2>0. /\ doing[t].pc = "ready" /\ Holds(doing[t]) /\ writer[f] = Nothing
        /\ LetGo(doing[t].file, t) /\ Rest(t) /\ doing' = [doing EXCEPT ![t] = Resting]
    BY <1>5 DEF Rebind, Rest, Holds, f
  <2>1. CASE Named(t)
    <3> DEFINE g == [files[f] EXCEPT !.bound = doing[t].at]
    <3>1. g \in FileType /\ g.applied = files[f].applied /\ ~g.torn
      BY <1>0 DEF FileType
    <3>2. files' = [files EXCEPT ![f] = g]
      BY <1>5, <2>1 DEF Rebind, f
    <3> HIDE DEF g
    <3>3. HoldersRight'
      BY <1>2, <2>0, <3>1, <3>2, RestIs, HoldersGoOn
    <3> QED BY <1>1, <2>0, <3>1, <3>2, <3>3, RestIs
  <2>2. CASE ~Named(t)
    <3>1. UNCHANGED files
      BY <1>5, <2>2 DEF Rebind
    <3> QED BY <1>0, <2>0, <3>1, RestStep
  <2> QED BY <2>1, <2>2
<1> QED BY <1>3, <1>4, <1>5

\* Writing.
LEMMA WriteStep ==
  ASSUME FilesInv, NEW t \in Workers, CommitWrite(t)
  PROVE  FilesInv'
<1> DEFINE f == doing[t].file
           g == [files[f] EXCEPT !.applied = Append(@, t)]
<1>0. /\ UNCHANGED <<process, names, held, writer, asked>> /\ doing[t].pc = "checked"
      /\ f \in 1..Len(files) /\ doing[t].at \in Places /\ Len(files) \in Nat /\ Len(files) <= MaxFiles
      /\ files[f] \in FileType /\ ~files[f].torn /\ writer[f] = Nothing
      /\ doing[t].goal = "write" /\ t \notin asked
  BY DEF CommitWrite, MayCommit, FilesInv, FilesTyped, HoldersRight, WritesRight
<1>hold. Holds(doing[t])
  BY <1>0 DEF Holds
<1>1. CASE UNCHANGED files /\ Goto(t, "ready")
  BY <1>0, <1>1, <1>hold, GotoStep
<1>2. CASE files' = [files EXCEPT ![f].applied = Append(@, t)] /\ Goto(t, "committed")
  <2>1. PICK w \in DoingType :
          /\ w.pc = "committed" /\ w.goal = doing[t].goal /\ w.at = doing[t].at
          /\ w.file = f /\ doing' = [doing EXCEPT ![t] = w]
    BY <1>2, GotoIs
  <2>2. files[f].applied \in Seq(Workers)
    BY <1>0 DEF FileType
  <2>3. /\ Append(files[f].applied, t) \in Seq(Workers)
        /\ Len(Append(files[f].applied, t)) = Len(files[f].applied) + 1
        /\ \A i \in 1..Len(files[f].applied) : Append(files[f].applied, t)[i] = files[f].applied[i]
        /\ Append(files[f].applied, t)[Len(files[f].applied) + 1] = t
        /\ Len(files[f].applied) \in Nat
    <3> DEFINE old == files[f].applied
    <3>1. old \in Seq(Workers)
      BY <2>2
    <3> HIDE DEF old
    <3>2. /\ Append(old, t) \in Seq(Workers) /\ Len(Append(old, t)) = Len(old) + 1
          /\ \A i \in 1..Len(old) : Append(old, t)[i] = old[i]
          /\ Append(old, t)[Len(old) + 1] = t /\ Len(old) \in Nat
      BY <3>1, AppendProperties
    <3> QED BY <3>2 DEF old
  <2>4. g \in FileType /\ g.applied = Append(files[f].applied, t) /\ g.torn = files[f].torn
    BY <1>0, <2>3 DEF FileType
  <2>5. files' = [files EXCEPT ![f] = g]
    BY <1>2
  <2>6. Wrote(g) = Wrote(files[f]) \cup {t}
    <3>1. DOMAIN files[f].applied = 1..Len(files[f].applied)
          /\ DOMAIN Append(files[f].applied, t) = 1..(Len(files[f].applied) + 1)
      BY <2>2, <2>3
    <3>2. \A i \in 1..(Len(files[f].applied) + 1) :
            i \in 1..Len(files[f].applied) \/ i = Len(files[f].applied) + 1
      BY <2>3
    <3> DEFINE old == files[f].applied
               new == Append(old, t)
               n == Len(old)
    <3>3. Wrote(g) = {new[i] : i \in 1..(n + 1)}
      BY <2>4, <3>1 DEF Wrote
    <3>4. Wrote(files[f]) = {old[i] : i \in 1..n}
      BY <3>1 DEF Wrote
    <3>5. \A i \in 1..n : new[i] = old[i] /\ i \in 1..(n + 1)
      BY <2>3
    <3>6. new[n + 1] = t /\ n + 1 \in 1..(n + 1) /\ \A i \in 1..(n + 1) : i \in 1..n \/ i = n + 1
      BY <2>3, <3>2
    <3> HIDE DEF old, new, n, g, f
    <3> QED BY <3>3, <3>4, <3>5, <3>6
  <2> HIDE DEF g
  <2>7. /\ files' \in Seq(FileType) /\ Len(files') = Len(files) /\ Len(files') \in Nat
        /\ \A i \in 1..Len(files) : files'[i] = IF i = f THEN g ELSE files[i]
    BY <1>0, <2>4, <2>5, OneFile
  <2>8. FilesTyped'
    BY <1>0, <2>1, <2>7 DEF FilesInv, FilesTyped
  <2>9. HoldersRight'
    <3>1. Len(files') \in Nat /\ Len(files) <= Len(files') /\ Len(files') <= MaxFiles
          /\ w.file \in 1..Len(files') /\ w.at \in Places /\ ~Alone(w)
      BY <1>0, <2>1, <2>7 DEF Alone
    <3> QED BY <1>0, <1>hold, <2>1, <3>1, HoldersGoOn
  <2>10. CopiesRight'
    <3>1. \A u \in Workers : u # t /\ Copies(doing[u]) =>
              /\ writer'[doing[u].file] = writer[doing[u].file]
              /\ files'[doing[u].copy] = files[doing[u].copy]
              /\ files'[doing[u].file] = files[doing[u].file]
      <4> SUFFICES ASSUME NEW u \in Workers, u # t, Copies(doing[u])
                   PROVE  /\ files'[doing[u].copy] = files[doing[u].copy]
                          /\ files'[doing[u].file] = files[doing[u].file]
        BY <1>0
      <4>1. doing[u].file # f /\ doing[u].copy # f
        BY <1>0, NotCopied
      <4>2. doing[u].copy \in 1..Len(files) /\ doing[u].file \in 1..Len(files)
        BY DEF FilesInv, CopiesRight, HoldersRight, Copies
      <4> QED BY <2>7, <4>1, <4>2
    <3>2. \A p \in Places \cup {"backup"} : names'[p] # Nothing =>
              \/ names'[p] = names[p] \/ names'[p] = Len(files) + 1
              \/ Copies(doing[t]) /\ ~Copies(w) /\ names'[p] = doing[t].copy
      BY <1>0
    <3>3. Len(files') \in Nat /\ Len(files) <= Len(files') /\ ~Copies(w)
          /\ doing[t].pc # "idle" /\ w.file = doing[t].file
      BY <1>0, <2>1, <2>7 DEF Copies
    <3> QED BY <2>1, <3>1, <3>2, <3>3, CopiesGoOn
  <2>11. WritesRight'
    <3>0. \A u \in Workers : doing'[u] = IF u = t THEN w ELSE doing[u]
      BY <2>1 DEF FilesInv, FilesTyped
    <3>1. t \notin Wrote(files[f])
      BY <1>0 DEF FilesInv, WritesRight
    <3>2. /\ IsFiniteSet(Wrote(g)) /\ Cardinality(Wrote(g)) = Len(g.applied) /\ ~g.torn
      <4>1. IsFiniteSet(Wrote(files[f])) /\ Cardinality(Wrote(files[f])) = Len(files[f].applied)
        BY <1>0 DEF FilesInv, WritesRight
      <4> QED BY ZenonT(40), <1>0, <2>3, <2>4, <2>6, <3>1, <4>1, FS_AddElement
    <3>3. \A x \in asked \cup {u \in Workers : doing[u].pc = "committed"} \cup {t} :
            x \in asked' \/ doing'[x].pc = "committed"
      BY <1>0, <2>1, <3>0
    <3>4. ASSUME NEW i \in 1..Len(files), NEW x \in Wrote(files[i])
          PROVE  x \in asked \cup {u \in Workers : doing[u].pc = "committed"}
      <4>1. files[i] \in FileType
        BY DEF FilesInv, FilesTyped
      <4>2. files[i].applied \in Seq(Workers)
        BY <4>1 DEF FileType
      <4>3. \A j \in DOMAIN files[i].applied : files[i].applied[j] \in Workers
        BY <4>2
      <4>4. x \in Workers
        BY <4>3 DEF Wrote
      <4> QED BY <4>4 DEF FilesInv, WritesRight
    <3>5. ASSUME NEW i \in 1..Len(files')
          PROVE  /\ ~files'[i].torn /\ IsFiniteSet(Wrote(files'[i]))
                 /\ Cardinality(Wrote(files'[i])) = Len(files'[i].applied)
                 /\ \A x \in Wrote(files'[i]) : x \in asked' \/ doing'[x].pc = "committed"
      <4>1. CASE i = f
        <5>1. files'[i] = g
          BY <1>0, <2>7, <4>1
        <5>2. \A x \in Wrote(g) : x \in asked' \/ doing'[x].pc = "committed"
          BY <1>0, <2>6, <3>3, <3>4
        <5> QED BY <3>2, <5>1, <5>2
      <4>2. CASE i # f
        <5>1. files'[i] = files[i] /\ i \in 1..Len(files)
          BY <2>7, <4>2
        <5> QED BY <3>3, <3>4, <5>1 DEF FilesInv, WritesRight
      <4> QED BY <4>1, <4>2
    <3>6. /\ \A u \in Workers : doing'[u].pc # "idle" /\ doing'[u].goal = "write" => u \notin asked'
          /\ \A u \in Workers : doing'[u].pc \in {"checked", "committed"} => doing'[u].goal = "write"
      BY <1>0, <2>1, <3>0 DEF FilesInv, WritesRight
    <3> QED BY <3>5, <3>6 DEF WritesRight
  <2> QED BY <2>8, <2>9, <2>10, <2>11 DEF FilesInv
<1> QED BY <1>1, <1>2 DEF CommitWrite

LEMMA RecheckStep ==
  ASSUME FilesInv, NEW t \in Workers, Recheck(t)
  PROVE  FilesInv'
<1>0. /\ UNCHANGED <<process, names, files, writer>> /\ asked' = asked \cup {t}
      /\ doing[t].pc = "committed" /\ LetGo(doing[t].file, t)
      /\ doing' = [doing EXCEPT ![t] = Resting] /\ Holds(doing[t])
      /\ Len(files) \in Nat /\ Len(files) <= MaxFiles
  BY DEF Recheck, Acknowledged, Rest, Holds, FilesInv, FilesTyped
<1>1. FilesTyped'
  BY <1>0, RestIs DEF FilesInv, FilesTyped
<1>2. HoldersRight'
  <2>1. UNCHANGED process /\ Len(files') \in Nat /\ Len(files) <= Len(files') /\ Len(files') <= MaxFiles
    BY <1>0
  <2> QED BY <1>0, <2>1, RestIs, HoldersGoOn
<1>3. CopiesRight'
  <2>1. \A u \in Workers : u # t /\ Copies(doing[u]) =>
            /\ writer'[doing[u].file] = writer[doing[u].file]
            /\ files'[doing[u].copy] = files[doing[u].copy]
            /\ files'[doing[u].file] = files[doing[u].file]
    BY <1>0
  <2>2. \A p \in Places \cup {"backup"} : names'[p] # Nothing =>
            \/ names'[p] = names[p] \/ names'[p] = Len(files) + 1
            \/ Copies(doing[t]) /\ ~Copies(Resting) /\ names'[p] = doing[t].copy
    BY <1>0
  <2>3. Len(files') \in Nat /\ Len(files) <= Len(files')
    BY <1>0
  <2> QED BY <1>0, <2>1, <2>2, <2>3, RestIs, CopiesGoOn
<1>4. WritesRight'
  <2>1. \A u \in Workers : doing'[u] = IF u = t THEN Resting ELSE doing[u]
    BY <1>0 DEF FilesInv, FilesTyped
  <2>2. \A x : /\ x \in asked \/ doing[x].pc = "committed"
               /\ x \in Workers \/ x \in asked
               => x \in asked' \/ doing'[x].pc = "committed"
    BY <1>0, <2>1
  <2>3. ASSUME NEW f \in 1..Len(files), NEW x \in Wrote(files[f])
        PROVE  x \in Workers /\ (x \in asked \/ doing[x].pc = "committed")
    <3>1. files[f] \in FileType
      BY DEF FilesInv, FilesTyped
    <3>2. files[f].applied \in Seq(Workers)
      BY <3>1 DEF FileType
    <3>3. \A i \in DOMAIN files[f].applied : files[f].applied[i] \in Workers
      BY <3>2
    <3> QED BY <3>3 DEF Wrote, FilesInv, WritesRight
  <2> QED BY <1>0, <2>1, <2>2, <2>3, RestIs DEF FilesInv, WritesRight
<1> QED BY <1>1, <1>2, <1>3, <1>4 DEF FilesInv

\* A file that comes to be.
LEMMA NewOne ==
  ASSUME FilesInv, NEW g \in FileType, NewFile(g), Len(files) < MaxFiles
  PROVE  /\ files' \in Seq(FileType) /\ Len(files') = Len(files) + 1 /\ Len(files') <= MaxFiles
         /\ Len(files) \in Nat /\ Len(files') \in Nat
         /\ \A i \in 1..Len(files) : files'[i] = files[i] /\ i \in 1..Len(files')
         /\ files'[Len(files) + 1] = g /\ Len(files) + 1 \in 1..Len(files')
         /\ \A i \in 1..Len(files') : i \in 1..Len(files) \/ i = Len(files) + 1
<1>1. files \in Seq(FileType) /\ Len(files) \in Nat
  BY DEF FilesInv, FilesTyped
<1>2. /\ Append(files, g) \in Seq(FileType) /\ Len(Append(files, g)) = Len(files) + 1
      /\ \A i \in 1..Len(files) : Append(files, g)[i] = files[i]
      /\ Append(files, g)[Len(files) + 1] = g
  BY <1>1, AppendProperties
<1> QED BY <1>1, <1>2, FileBounds DEF NewFile

LEMMA CreateStep ==
  ASSUME FilesInv, NEW t \in Workers, NEW home \in Places, CreateFile(t, home)
  PROVE  FilesInv'
<1> DEFINE n == Len(files) + 1
           w == [Resting EXCEPT !.pc = "created", !.goal = "create", !.at = home, !.file = n]
<1>0. /\ UNCHANGED <<process, held, writer, asked>> /\ doing[t].pc = "idle"
      /\ NewFile(Raw) /\ Len(files) < MaxFiles /\ names' = [names EXCEPT ![home] = n]
      /\ doing' = [doing EXCEPT ![t] = w] /\ Len(files) \in Nat
  BY DEF CreateFile, BeginOp, FilesInv, FilesTyped
<1>1. Raw \in FileType /\ Raw.applied = <<>> /\ ~Raw.torn
  BY DEF Raw, FileType
<1>2. /\ files' \in Seq(FileType) /\ Len(files') = n /\ Len(files') <= MaxFiles
      /\ Len(files') \in Nat /\ n \in 1..Len(files')
      /\ \A i \in 1..Len(files) : files'[i] = files[i] /\ i \in 1..Len(files')
      /\ files'[n] = Raw /\ \A i \in 1..Len(files') : i \in 1..Len(files) \/ i = n
  BY <1>0, <1>1, NewOne
<1>3. /\ w \in DoingType /\ w.pc = "created" /\ w.at = home /\ w.file = n /\ w.goal = "create"
      /\ ~Holds(w) /\ ~Alone(w) /\ ~Copies(w)
  <2>0. n \in Nat
    BY <1>0
  <2> HIDE DEF n
  <2>1. w \in DoingType /\ w.pc = "created" /\ w.at = home /\ w.file = n /\ w.goal = "create"
    BY <2>0, RestIs DEF DoingType
  <2> HIDE DEF w
  <2> QED BY <2>1 DEF Holds, Alone, Copies
<1> HIDE DEF w
<1>4. FilesTyped'
  <2>1. \A p \in Places \cup {"backup"} : names'[p] = IF p = home THEN n ELSE names[p]
    BY <1>0 DEF FilesInv, FilesTyped
  <2>2. \A p \in Places \cup {"backup"} : names'[p] # Nothing => names'[p] \in 1..Len(files')
    BY <1>2, <2>1 DEF FilesInv, FilesTyped
  <2> QED BY <1>0, <1>2, <1>3, <2>2 DEF FilesInv, FilesTyped
<1>5. HoldersRight'
  <2>1. /\ UNCHANGED process /\ UNCHANGED held /\ Len(files') \in Nat /\ Len(files) <= Len(files')
        /\ Len(files') <= MaxFiles /\ w.file \in 1..Len(files') /\ w.at \in Places
    BY <1>0, <1>2, <1>3
  <2> QED BY <1>0, <1>3, <2>1, HoldersGoOn
<1>6. CopiesRight'
  <2>1. \A u \in Workers : u # t /\ Copies(doing[u]) =>
            /\ writer'[doing[u].file] = writer[doing[u].file]
            /\ files'[doing[u].copy] = files[doing[u].copy]
            /\ files'[doing[u].file] = files[doing[u].file]
    BY <1>0, <1>2 DEF FilesInv, CopiesRight, HoldersRight, Copies
  <2>2. \A p \in Places \cup {"backup"} : names'[p] # Nothing =>
            \/ names'[p] = names[p] \/ names'[p] = n
            \/ Copies(doing[t]) /\ ~Copies(w) /\ names'[p] = doing[t].copy
    BY <1>0 DEF FilesInv, FilesTyped
  <2>3. /\ Len(files') \in Nat /\ Len(files) <= Len(files') /\ w.file = Len(files) + 1
        /\ ~Copies(w) /\ w \in DoingType /\ doing' = [doing EXCEPT ![t] = w]
    BY <1>0, <1>2, <1>3
  <2> QED BY <2>1, <2>2, <2>3, CopiesGoOn
<1>7. WritesRight'
  <2>1. \A f \in 1..Len(files') : /\ ~files'[f].torn
                                  /\ \/ files'[f].applied = <<>>
                                     \/ \E g \in 1..Len(files) : files'[f].applied = files[g].applied
    BY <1>1, <1>2 DEF FilesInv, WritesRight
  <2> QED BY <1>0, <1>3, <2>1, WritesGoOn
<1> QED BY <1>4, <1>5, <1>6, <1>7 DEF FilesInv

\* The first and the last bytes of a backup, and its name.
LEMMA CopyBeginStep ==
  ASSUME FilesInv, NEW t \in Workers, CopyBegin(t)
  PROVE  FilesInv'
<1> DEFINE n == Len(files) + 1
           f == doing[t].file
           w == [doing[t] EXCEPT !.pc = "copying", !.copy = n, !.source = names[doing[t].at]]
<1>0. /\ UNCHANGED <<process, names, held, asked>> /\ doing[t].pc = "ready"
      /\ NewFile(files[f]) /\ Len(files) < MaxFiles /\ writer[f] = Nothing
      /\ writer' = [writer EXCEPT ![f] = t] /\ doing' = [doing EXCEPT ![t] = w]
      /\ Len(files) \in Nat /\ doing[t] \in DoingType /\ doing[t].at \in Places
      /\ f \in 1..Len(files) /\ f \in 1..MaxFiles
  <2>1. doing[t].pc = "ready" /\ doing[t] \in DoingType
    BY DEF CopyBegin, FilesInv, FilesTyped
  <2>2. doing' = [doing EXCEPT ![t] = w]
    BY DEF CopyBegin, FilesInv, FilesTyped
  <2>3. f \in 1..Len(files) /\ doing[t].at \in Places /\ Len(files) \in Nat /\ Len(files) <= MaxFiles
    BY <2>1 DEF FilesInv, FilesTyped, HoldersRight
  <2>4. /\ UNCHANGED <<process, names, held, asked>> /\ NewFile(files[f]) /\ Len(files) < MaxFiles
        /\ writer[f] = Nothing /\ writer' = [writer EXCEPT ![f] = t]
    BY DEF CopyBegin
  <2> HIDE DEF w, f
  <2> QED BY <2>1, <2>2, <2>3, <2>4, FileBounds
<1>1. files[f] \in FileType
  BY <1>0 DEF FilesInv, FilesTyped
<1>2. /\ files' \in Seq(FileType) /\ Len(files') = n /\ Len(files') <= MaxFiles
      /\ Len(files') \in Nat /\ n \in 1..Len(files') /\ n \notin 1..Len(files)
      /\ \A i \in 1..Len(files) : files'[i] = files[i] /\ i \in 1..Len(files')
      /\ files'[n] = files[f] /\ \A i \in 1..Len(files') : i \in 1..Len(files) \/ i = n
  BY <1>0, <1>1, NewOne
<1>3. /\ w \in DoingType /\ w.pc = "copying" /\ w.at = doing[t].at /\ w.file = f /\ w.copy = n
      /\ w.goal = doing[t].goal /\ Holds(w) /\ ~Alone(w) /\ Copies(w) /\ Holds(doing[t])
  <2>1. names[doing[t].at] \in Nat \cup {Nothing}
    BY <1>0 DEF FilesInv, FilesTyped
  <2>2. /\ w \in DoingType /\ w.pc = "copying" /\ w.at = doing[t].at /\ w.file = f /\ w.copy = n
        /\ w.goal = doing[t].goal
    <3>1. doing[t] \in DoingType /\ n \in Nat
      BY <1>0
    <3> HIDE DEF n
    <3> QED BY <2>1, <3>1 DEF DoingType
  <2> HIDE DEF w
  <2> QED BY <1>0, <2>2 DEF Holds, Alone, Copies
<1> HIDE DEF w
<1>4. FilesTyped'
  <2>1. writer' \in [1..MaxFiles -> Workers \cup {Nothing}]
    BY <1>0 DEF FilesInv, FilesTyped
  <2> QED BY <1>0, <1>2, <1>3, <2>1 DEF FilesInv, FilesTyped
<1>5. HoldersRight'
  <2>1. /\ UNCHANGED process /\ UNCHANGED held /\ Len(files') \in Nat /\ Len(files) <= Len(files')
        /\ Len(files') <= MaxFiles /\ w.file \in 1..Len(files') /\ w.at \in Places
    BY <1>0, <1>2, <1>3
  <2> QED BY <1>0, <1>3, <2>1, HoldersGoOn
<1>6. CopiesRight'
  <2>0. /\ \A u \in Workers : doing'[u] = IF u = t THEN w ELSE doing[u]
        /\ \A i \in 1..MaxFiles : writer'[i] = IF i = f THEN t ELSE writer[i]
    BY <1>0 DEF FilesInv, FilesTyped
  <2>1. ASSUME NEW u \in Workers, u # t, Copies(doing[u])
        PROVE  /\ writer'[doing[u].file] = u /\ doing[u].copy \in 1..Len(files) /\ doing[u].copy # n
               /\ files'[doing[u].copy] = files[doing[u].copy]
               /\ files'[doing[u].file] = files[doing[u].file]
    <3>1. writer[doing[u].file] = u /\ doing[u].copy \in 1..Len(files)
      BY <2>1 DEF FilesInv, CopiesRight
    <3>2. doing[u].file \in 1..Len(files) /\ doing[u].file \in 1..MaxFiles
      BY <1>0, <2>1, FileBounds DEF FilesInv, HoldersRight, Copies
    <3>3. doing[u].file # f
      BY <1>0, <3>1, FileBounds
    <3> QED BY <1>2, <2>0, <3>1, <3>2, <3>3
  <2>2. ASSUME NEW u \in Workers, doing'[u].pc # "idle"
        PROVE  doing'[u].file # n
    <3>1. doing'[u].file = doing[u].file /\ doing[u].pc # "idle"
      BY <1>0, <1>3, <2>0, <2>2
    <3>2. doing[u].file \in 1..Len(files)
      BY <3>1 DEF FilesInv, HoldersRight
    <3> QED BY <1>2, <3>1, <3>2
  <2>3. \A p \in Places \cup {"backup"} : names[p] # Nothing => names[p] # n
    BY <1>2 DEF FilesInv, FilesTyped
  <2>4. writer'[f] = t
    BY <1>0, <2>0
  <2> HIDE DEF n, f
  <2> SUFFICES ASSUME NEW u \in Workers, Copies(doing'[u])
               PROVE  /\ writer'[doing'[u].file] = u /\ doing'[u].copy \in 1..Len(files')
                      /\ \A v \in Workers : doing'[v].pc # "idle" => doing'[v].file # doing'[u].copy
                      /\ \A v \in Workers : v # u /\ Copies(doing'[v]) => doing'[v].copy # doing'[u].copy
                      /\ \A p \in Places \cup {"backup"} : names'[p] # Nothing => names'[p] # doing'[u].copy
                      /\ doing'[u].pc = "copying" => files'[doing'[u].copy] = files'[doing'[u].file]
    BY DEF CopiesRight
  <2>5. CASE u = t
    <3>1. doing'[u] = w
      BY <2>0, <2>5
    <3>2. ASSUME NEW v \in Workers, v # u, Copies(doing'[v])
          PROVE  doing'[v].copy # n
      BY <2>0, <2>1, <2>5, <3>2
    <3>3. files'[n] = files'[f]
      BY <1>0, <1>2 DEF f
    <3> QED BY <1>0, <1>2, <1>3, <2>2, <2>3, <2>4, <2>5, <3>1, <3>2, <3>3
  <2>6. CASE u # t
    <3>1. doing'[u] = doing[u] /\ Copies(doing[u])
      BY <2>0, <2>6
    <3>2. /\ \A v \in Workers : doing[v].pc # "idle" => doing[v].file # doing[u].copy
          /\ \A v \in Workers : v # u /\ Copies(doing[v]) => doing[v].copy # doing[u].copy
          /\ \A p \in Places \cup {"backup"} : names[p] # Nothing => names[p] # doing[u].copy
          /\ doing[u].pc = "copying" => files[doing[u].copy] = files[doing[u].file]
      BY <3>1 DEF FilesInv, CopiesRight
    <3>3. \A v \in Workers : doing'[v].pc # "idle" => doing[v].pc # "idle" /\ doing'[v].file = doing[v].file
      BY <1>0, <1>3, <2>0 DEF f
    <3>4. ASSUME NEW v \in Workers, v # u, Copies(doing'[v])
          PROVE  doing'[v].copy # doing[u].copy
      BY <1>3, <2>0, <2>1, <2>6, <3>1, <3>2, <3>4
    <3> QED BY <1>0, <1>2, <2>1, <2>6, <3>1, <3>2, <3>3, <3>4
  <2> QED BY <2>5, <2>6
<1>7. WritesRight'
  <2>1. \A i \in 1..Len(files') : /\ ~files'[i].torn
                                  /\ \E g \in 1..Len(files) : files'[i].applied = files[g].applied
    BY <1>0, <1>2 DEF FilesInv, WritesRight
  <2>2. w.pc # "idle" /\ w.goal = "write" => t \notin asked
    BY <1>0, <1>3 DEF FilesInv, WritesRight
  <2> QED BY <1>0, <1>3, <2>1, <2>2, WritesGoOn
<1> QED BY <1>4, <1>5, <1>6, <1>7 DEF FilesInv

LEMMA CopyEndStep ==
  ASSUME FilesInv, NEW t \in Workers, CopyEnd(t)
  PROVE  FilesInv'
<1> DEFINE f == doing[t].copy
           b == files[doing[t].file] # files[f]
           g == [files[f] EXCEPT !.torn = b]
<1>0. /\ UNCHANGED <<process, names, held, writer, asked>> /\ doing[t].pc = "copying"
      /\ Copies(doing[t]) /\ Holds(doing[t]) /\ files' = [files EXCEPT ![f] = g]
      /\ Goto(t, "copied") /\ Len(files) \in Nat /\ Len(files) <= MaxFiles
  BY DEF CopyEnd, Copies, Holds, FilesInv, FilesTyped
<1>1. /\ writer[doing[t].file] = t /\ f \in 1..Len(files) /\ b = FALSE
      /\ doing[t].file \in 1..Len(files) /\ doing[t].at \in Places
      /\ doing[t].goal = "write" => t \notin asked
  BY <1>0 DEF FilesInv, CopiesRight, HoldersRight, WritesRight
<1>2. files[f] \in FileType /\ ~files[f].torn
  BY <1>1 DEF FilesInv, FilesTyped, WritesRight
<1>3. g \in FileType /\ g.applied = files[f].applied /\ ~g.torn
  <2> HIDE DEF b
  <2> QED BY <1>1, <1>2 DEF FileType
<1> HIDE DEF g, b
<1>4. /\ files' \in Seq(FileType) /\ Len(files') = Len(files) /\ Len(files') \in Nat
      /\ \A i \in 1..Len(files) : files'[i] = IF i = f THEN g ELSE files[i]
  BY <1>0, <1>1, <1>3, OneFile
<1>5. PICK w \in DoingType :
        /\ w.pc = "copied" /\ w.goal = doing[t].goal /\ w.at = doing[t].at
        /\ w.file = doing[t].file /\ w.copy = f /\ doing' = [doing EXCEPT ![t] = w]
  BY <1>0, GotoIs
<1>6. ~Alone(w) /\ Copies(w)
  BY <1>5 DEF Alone, Copies
<1>7. FilesTyped'
  BY <1>0, <1>4, <1>5 DEF FilesInv, FilesTyped
<1>8. HoldersRight'
  <2>1. /\ UNCHANGED process /\ UNCHANGED held /\ Len(files') \in Nat /\ Len(files) <= Len(files')
        /\ Len(files') <= MaxFiles /\ w.file \in 1..Len(files') /\ w.at \in Places
    BY <1>0, <1>1, <1>4, <1>5
  <2> QED BY <1>0, <1>5, <1>6, <2>1, HoldersGoOn
<1>9. CopiesRight'
  <2>1. ASSUME NEW u \in Workers, u # t, Copies(doing[u])
        PROVE  /\ writer'[doing[u].file] = writer[doing[u].file]
               /\ files'[doing[u].copy] = files[doing[u].copy]
               /\ files'[doing[u].file] = files[doing[u].file]
    <3>1. doing[u].copy # f /\ doing[u].copy \in 1..Len(files)
      BY <1>0, <2>1 DEF FilesInv, CopiesRight
    <3>2. doing[u].file # f /\ doing[u].file \in 1..Len(files)
      BY <1>0, <2>1 DEF FilesInv, CopiesRight, HoldersRight, Copies
    <3> QED BY <1>0, <1>4, <3>1, <3>2
  <2>2. \A p \in Places \cup {"backup"} : names'[p] # Nothing =>
            \/ names'[p] = names[p] \/ names'[p] = Len(files) + 1
            \/ Copies(doing[t]) /\ ~Copies(w) /\ names'[p] = doing[t].copy
    BY <1>0
  <2>3. /\ Len(files') \in Nat /\ Len(files) <= Len(files') /\ w.file = doing[t].file
        /\ Copies(doing[t]) /\ doing[t].pc # "idle" /\ w.copy = doing[t].copy
        /\ writer'[w.file] = t /\ w.pc # "copying"
    BY <1>0, <1>1, <1>4, <1>5
  <2> QED BY <1>5, <2>1, <2>2, <2>3, CopiesGoOn
<1>10. WritesRight'
  <2>1. \A i \in 1..Len(files') : /\ ~files'[i].torn
                                  /\ \E h \in 1..Len(files) : files'[i].applied = files[h].applied
    BY <1>1, <1>3, <1>4 DEF FilesInv, WritesRight
  <2> QED BY <1>0, <1>1, <1>5, <2>1, WritesGoOn
<1> QED BY <1>7, <1>8, <1>9, <1>10 DEF FilesInv

LEMMA PublishStep ==
  ASSUME FilesInv, NEW t \in Workers, PublishBackup(t)
  PROVE  FilesInv'
<1> DEFINE f == doing[t].file
<1>0. /\ UNCHANGED <<process, files, asked>> /\ doing[t].pc = "copied" /\ Copies(doing[t])
      /\ Holds(doing[t]) /\ writer' = [writer EXCEPT ![f] = Nothing] /\ LetGo(f, t)
      /\ doing' = [doing EXCEPT ![t] = Resting] /\ Len(files) \in Nat /\ Len(files) <= MaxFiles
      /\ \/ names' = [names EXCEPT !["backup"] = doing[t].copy]
         \/ UNCHANGED names
  BY DEF PublishBackup, Rest, Copies, Holds, FilesInv, FilesTyped
<1>1. writer[f] = t /\ doing[t].copy \in 1..Len(files) /\ doing[t].copy \in Nat
  BY <1>0 DEF FilesInv, CopiesRight
<1>2. \A p \in Places \cup {"backup"} :
        names'[p] = names[p] \/ (p = "backup" /\ names'[p] = doing[t].copy)
  BY <1>0 DEF FilesInv, FilesTyped
<1>3. FilesTyped'
  <2>1. writer' \in [1..MaxFiles -> Workers \cup {Nothing}]
    BY <1>0 DEF FilesInv, FilesTyped
  <2>2. names' \in [Places \cup {"backup"} -> Nat \cup {Nothing}]
    BY <1>0, <1>1 DEF FilesInv, FilesTyped
  <2>3. \A p \in Places \cup {"backup"} : names'[p] # Nothing => names'[p] \in 1..Len(files')
    BY <1>0, <1>1, <1>2 DEF FilesInv, FilesTyped
  <2> QED BY <1>0, <2>1, <2>2, <2>3, RestIs DEF FilesInv, FilesTyped
<1>4. HoldersRight'
  <2>1. UNCHANGED process /\ Len(files') \in Nat /\ Len(files) <= Len(files') /\ Len(files') <= MaxFiles
    BY <1>0
  <2> QED BY <1>0, <2>1, RestIs, HoldersGoOn
<1>5. CopiesRight'
  <2>1. ASSUME NEW u \in Workers, u # t, Copies(doing[u])
        PROVE  /\ writer'[doing[u].file] = writer[doing[u].file]
               /\ files'[doing[u].copy] = files[doing[u].copy]
               /\ files'[doing[u].file] = files[doing[u].file]
    <3>1. writer[doing[u].file] = u
      BY <2>1 DEF FilesInv, CopiesRight
    <3>2. doing[u].file # f
      BY <1>1, <2>1, <3>1
    <3> QED BY <1>0, <3>2 DEF FilesInv, FilesTyped
  <2>2. \A p \in Places \cup {"backup"} : names'[p] # Nothing =>
            \/ names'[p] = names[p] \/ names'[p] = Len(files) + 1
            \/ Copies(doing[t]) /\ ~Copies(Resting) /\ names'[p] = doing[t].copy
    BY <1>0, <1>2, RestIs
  <2>3. Len(files') \in Nat /\ Len(files) <= Len(files')
    BY <1>0
  <2> QED BY <1>0, <2>1, <2>2, <2>3, RestIs, CopiesGoOn
<1>6. WritesRight'
  <2>1. \A i \in 1..Len(files') : /\ ~files'[i].torn
                                  /\ \E h \in 1..Len(files) : files'[i].applied = files[h].applied
    BY <1>0 DEF FilesInv, WritesRight
  <2> QED BY <1>0, <2>1, RestIs, WritesGoOn
<1> QED BY <1>3, <1>4, <1>5, <1>6 DEF FilesInv

\* What others do to the files.
LEMMA MoveStep ==
  ASSUME FilesInv, NEW from \in Places, NEW to \in Places, Move(from, to)
  PROVE  FilesInv'
<1>0. /\ UNCHANGED <<process, files, held, writer, doing, asked>>
      /\ names[from] # Nothing /\ names[to] = Nothing
      /\ names' = [names EXCEPT ![from] = Nothing, ![to] = names[from]]
  BY DEF Move
<1>1. /\ names' \in [Places \cup {"backup"} -> Nat \cup {Nothing}]
      /\ \A p \in Places \cup {"backup"} : names'[p] # Nothing =>
           names'[p] = names[p] \/ names'[p] = names[from]
  BY <1>0 DEF FilesInv, FilesTyped
<1>2. \A p \in Places \cup {"backup"} : names'[p] # Nothing =>
        \E q \in Places \cup {"backup"} : names[q] # Nothing /\ names'[p] = names[q]
  BY <1>0, <1>1
<1>3. FilesTyped'
  BY <1>0, <1>1, <1>2 DEF FilesInv, FilesTyped
<1>4. HoldersRight' /\ WritesRight'
  BY <1>0 DEF FilesInv, HoldersRight, WritesRight
<1>5. CopiesRight'
  <2>1. \A t \in Workers : Copies(doing[t]) =>
          \A q \in Places \cup {"backup"} : names'[q] # Nothing => names'[q] # doing[t].copy
    BY <1>2 DEF FilesInv, CopiesRight
  <2>2. files' = files /\ writer' = writer /\ doing' = doing
    BY <1>0
  <2> SUFFICES ASSUME NEW t \in Workers, Copies(doing[t])
               PROVE  /\ writer[doing[t].file] = t /\ doing[t].copy \in 1..Len(files)
                      /\ \A u \in Workers : doing[u].pc # "idle" => doing[u].file # doing[t].copy
                      /\ \A u \in Workers : u # t /\ Copies(doing[u]) => doing[u].copy # doing[t].copy
                      /\ \A q \in Places \cup {"backup"} : names'[q] # Nothing => names'[q] # doing[t].copy
                      /\ doing[t].pc = "copying" => files[doing[t].copy] = files[doing[t].file]
    BY <2>2 DEF CopiesRight
  <2> QED BY <2>1 DEF FilesInv, CopiesRight
<1> QED BY <1>3, <1>4, <1>5 DEF FilesInv

LEMMA CopyFileStep ==
  ASSUME FilesInv, NEW from \in Places, NEW to \in Places, CopyFile(from, to)
  PROVE  FilesInv'
<1> DEFINE n == Len(files) + 1
           g == files[names[from]]
<1>0. /\ UNCHANGED <<process, held, writer, doing, asked>> /\ Len(files) < MaxFiles
      /\ NewFile(g) /\ names' = [names EXCEPT ![to] = n]
      /\ names[from] \in 1..Len(files) /\ g \in FileType
  BY DEF CopyFile, FilesInv, FilesTyped
<1>1. /\ files' \in Seq(FileType) /\ Len(files') = n /\ Len(files') <= MaxFiles /\ n \in Nat
      /\ n \in 1..Len(files') /\ n \notin 1..Len(files)
      /\ \A i \in 1..Len(files) : files'[i] = files[i] /\ i \in 1..Len(files')
      /\ files'[n] = g /\ \A i \in 1..Len(files') : i \in 1..Len(files) \/ i = n
  BY <1>0, NewOne
<1>2. /\ names' \in [Places \cup {"backup"} -> Nat \cup {Nothing}]
      /\ \A p \in Places \cup {"backup"} : names'[p] = names[p] \/ names'[p] = n
  BY <1>0, <1>1 DEF FilesInv, FilesTyped
<1> HIDE DEF n
<1>3. FilesTyped'
  BY <1>0, <1>1, <1>2 DEF FilesInv, FilesTyped
<1>4. HoldersRight'
  BY <1>0, <1>1 DEF FilesInv, HoldersRight
<1>5. CopiesRight'
  <2> SUFFICES ASSUME NEW u \in Workers, Copies(doing[u])
               PROVE  /\ writer[doing[u].file] = u /\ doing[u].copy \in 1..Len(files')
                      /\ \A v \in Workers : doing[v].pc # "idle" => doing[v].file # doing[u].copy
                      /\ \A v \in Workers : v # u /\ Copies(doing[v]) => doing[v].copy # doing[u].copy
                      /\ \A p \in Places \cup {"backup"} : names'[p] # Nothing => names'[p] # doing[u].copy
                      /\ doing[u].pc = "copying" => files'[doing[u].copy] = files'[doing[u].file]
    BY <1>0 DEF CopiesRight
  <2>1. /\ writer[doing[u].file] = u /\ doing[u].copy \in 1..Len(files)
        /\ \A v \in Workers : doing[v].pc # "idle" => doing[v].file # doing[u].copy
        /\ \A v \in Workers : v # u /\ Copies(doing[v]) => doing[v].copy # doing[u].copy
        /\ \A p \in Places \cup {"backup"} : names[p] # Nothing => names[p] # doing[u].copy
        /\ doing[u].pc = "copying" => files[doing[u].copy] = files[doing[u].file]
        /\ doing[u].file \in 1..Len(files)
    BY DEF FilesInv, CopiesRight, HoldersRight, Copies
  <2> QED BY <1>1, <1>2, <2>1
<1>6. WritesRight'
  <2>1. ASSUME NEW i \in 1..Len(files')
        PROVE  \E h \in 1..Len(files) : files'[i] = files[h]
    BY <1>0, <1>1
  <2> QED BY <1>0, <2>1 DEF FilesInv, WritesRight
<1> QED BY <1>3, <1>4, <1>5, <1>6 DEF FilesInv

LEMMA KillStep ==
  ASSUME FilesInv, NEW p \in Processes, Kill(p)
  PROVE  FilesInv'
<1> DEFINE own == {t \in Workers : process[t] = p}
<1>0. /\ UNCHANGED <<process, names, files>>
      /\ doing' = [t \in Workers |-> IF t \in own THEN Resting ELSE doing[t]]
      /\ asked' = asked \cup {t \in own : doing[t].goal = "write"}
      /\ held' = [f \in DOMAIN held |-> IF held[f] # Nothing /\ held[f].proc = p THEN Nothing ELSE held[f]]
      /\ writer' = [f \in DOMAIN writer |-> IF writer[f] \in own THEN Nothing ELSE writer[f]]
  BY DEF Kill
<1>1. /\ doing' \in [Workers -> DoingType]
      /\ \A t \in Workers : /\ process[t] = p => doing'[t] = Resting
                            /\ process[t] # p => doing'[t] = doing[t]
  BY <1>0, RestIs DEF FilesInv, FilesTyped
<1>2. /\ writer' \in [1..MaxFiles -> Workers \cup {Nothing}]
      /\ \A f \in 1..MaxFiles, t \in Workers :
           writer[f] = t /\ process[t] # p => writer'[f] = t
  BY <1>0 DEF FilesInv, FilesTyped
<1>3. /\ held' \in [1..MaxFiles -> OpenStore \cup {Nothing}]
      /\ \A f \in 1..MaxFiles : held[f] \in OpenStore /\ held[f].proc # p => held'[f] = held[f]
  BY <1>0 DEF FilesInv, HoldersRight
<1>4. Len(files) \in Nat /\ \A i \in 1..Len(files) : i \in 1..MaxFiles
  BY FileBounds DEF FilesInv, FilesTyped
<1>5. FilesTyped'
  BY <1>0, <1>1, <1>2 DEF FilesInv, FilesTyped
<1>6. HoldersRight'
  <2>1. ASSUME NEW t \in Workers, doing'[t].pc # "idle" \/ Holds(doing'[t]) \/ Alone(doing'[t])
        PROVE  process[t] # p /\ doing'[t] = doing[t]
    BY <1>1, <2>1, RestIs
  <2>2. ASSUME NEW t \in Workers, Holds(doing'[t])
        PROVE  held'[doing[t].file] = held[doing[t].file]
    <3>1. doing'[t] = doing[t] /\ process[t] # p
      BY <2>1, <2>2
    <3>2. doing[t].pc # "idle"
      BY <2>2, <3>1 DEF Holds, Alone, Copies
    <3>3. held[doing[t].file] \in OpenStore /\ held[doing[t].file].proc # p /\ doing[t].file \in 1..MaxFiles
      BY <1>4, <2>2, <3>1, <3>2 DEF FilesInv, HoldersRight
    <3> QED BY <1>3, <3>3
  <2>3. \A d : Alone(d) => Holds(d)
    BY DEF Holds
  <2>4. \A t \in Workers : doing'[t].pc # "idle" => doing'[t].file \in 1..Len(files') /\ doing'[t].at \in Places
    BY <1>0, <2>1 DEF FilesInv, HoldersRight
  <2>5. \A t \in Workers : Holds(doing'[t]) =>
          /\ held'[doing'[t].file] \in OpenStore /\ t \in held'[doing'[t].file].users
          /\ held'[doing'[t].file].proc = process'[t]
    BY <1>0, <2>1, <2>2 DEF FilesInv, HoldersRight
  <2>6. ASSUME NEW t \in Workers, Alone(doing'[t])
        PROVE  /\ ~held'[doing'[t].file].listed
               /\ \A u \in Workers : u # t /\ Holds(doing'[u]) => doing'[u].file # doing'[t].file
    <3>1. doing'[t] = doing[t] /\ held'[doing[t].file] = held[doing[t].file]
      BY <2>1, <2>2, <2>3, <2>6
    <3> QED BY <2>1, <2>6, <3>1 DEF FilesInv, HoldersRight
  <2> QED BY <1>3, <2>4, <2>5, <2>6 DEF HoldersRight
<1>7. CopiesRight'
  <2>1. ASSUME NEW t \in Workers, doing'[t].pc # "idle" \/ Copies(doing'[t])
        PROVE  process[t] # p /\ doing'[t] = doing[t]
    BY <1>1, <2>1, RestIs
  <2>2. ASSUME NEW t \in Workers, Copies(doing'[t])
        PROVE  writer'[doing[t].file] = t
    <3>1. doing'[t] = doing[t] /\ process[t] # p
      BY <2>1, <2>2
    <3>2. writer[doing[t].file] = t /\ doing[t].file \in 1..MaxFiles
      BY <1>4, <2>2, <3>1 DEF FilesInv, CopiesRight, HoldersRight, Copies
    <3> QED BY <1>2, <3>1, <3>2
  <2> QED BY <1>0, <2>1, <2>2 DEF FilesInv, CopiesRight
<1>8. WritesRight'
  <2>1. \A t \in Workers : doing'[t].pc # "idle" /\ doing'[t].goal = "write" => t \notin asked'
    BY <1>0, <1>1, RestIs DEF FilesInv, WritesRight
  <2>2. \A t \in Workers : doing'[t].pc \in {"checked", "committed"} => doing'[t].goal = "write"
    BY <1>1, RestIs DEF FilesInv, WritesRight
  <2>3. ASSUME NEW f \in 1..Len(files), NEW x \in Wrote(files[f])
        PROVE  x \in asked' \/ doing'[x].pc = "committed"
    <3>1. files[f] \in FileType
      BY DEF FilesInv, FilesTyped
    <3>2. files[f].applied \in Seq(Workers)
      BY <3>1 DEF FileType
    <3>3. \A i \in DOMAIN files[f].applied : files[f].applied[i] \in Workers
      BY <3>2
    <3>4. x \in Workers /\ (x \in asked \/ doing[x].pc = "committed")
      BY <3>3 DEF Wrote, FilesInv, WritesRight
    <3>5. doing[x].pc = "committed" => doing[x].goal = "write"
      BY <3>4 DEF FilesInv, WritesRight
    <3> QED BY <1>0, <1>1, <3>4, <3>5
  <2> QED BY <1>0, <2>1, <2>2, <2>3 DEF FilesInv, WritesRight
<1> QED BY <1>5, <1>6, <1>7, <1>8 DEF FilesInv

LEMMA FilesInvSafe == FilesInv => FilesSafe
<1> SUFFICES ASSUME FilesInv
             PROVE  FilesSafe
  OBVIOUS
<1>1. files \in Seq(FileType) /\ DOMAIN files = 1..Len(files)
  BY DEF FilesInv, FilesTyped
<1>2. AppliedOnce
  BY <1>1 DEF AppliedOnce, FilesInv, WritesRight, Wrote
<1>3. BackupWhole
  BY DEF BackupWhole, FilesInv, FilesTyped, WritesRight
<1> QED BY <1>2, <1>3 DEF FilesSafe

\* The files of a store that is opened, written, relocated and copied by any threads of any
\* processes, while files are moved and copied under them and processes are killed: no write
\* is in a file twice, and a backup is a store as it was at one moment.
THEOREM FilesAreSafe == SFSpec => []FilesSafe
<1>1. FilesInv /\ [SFNext]_sfvars => FilesInv'
  <2> SUFFICES ASSUME FilesInv, [SFNext]_sfvars
               PROVE  FilesInv'
    OBVIOUS
  <2>1. CASE UNCHANGED sfvars
    BY <2>1, NothingChanges DEF sfvars
  <2>2. ASSUME NEW t \in Workers,
               \/ Probe(t) \/ Probed(t) \/ LockForWriting(t) \/ OpenEnd(t) \/ Close(t)
               \/ Initialize(t) \/ Activate(t)
               \/ CheckWrite(t) \/ CommitWrite(t) \/ Recheck(t) \/ Rebind(t)
               \/ CopyBegin(t) \/ CopyEnd(t) \/ PublishBackup(t)
        PROVE  FilesInv'
    BY <2>2, UseStep, BindStep, WriteStep, RecheckStep, CopyBeginStep, CopyEndStep, PublishStep
  <2> QED BY <2>1, <2>2, CreateStep, OpenStep, MoveStep, CopyFileStep, KillStep DEF SFNext
<1> QED BY <1>1, FilesBegin, FilesInvSafe, PTL DEF SFSpec
=============================================================================
