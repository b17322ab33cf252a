-------------------------- MODULE TerminalSession --------------------------
(***************************************************************************)
(* One terminal: a shell on a PTY, the two threads that own it (one reads  *)
(* its output, one waits for its exit), the renderer that claims its       *)
(* output stream, loses its connection and claims it again, and those that *)
(* close it: its creator when the launch fails, a request, the monitor of  *)
(* the re-claim window, and the shutdown of the manager.                   *)
(*                                                                         *)
(* Every step between two holds of the session's mutex is an action.  The  *)
(* output is a sequence of numbered chunks, of which the replay ring keeps *)
(* the newest Cap.  Time is left out: what is bounded by a timeout may end *)
(* at any moment, a grace period may be over at any moment.                *)
(***************************************************************************)
EXTENDS Integers, FiniteSets, TLC

CONSTANTS
  Conn, NoOne, \* the stream connections, and none
  Closer,     \* those that close: a subset of create, request, reclaim, shutdown
  Forced,     \* the closers that close with force
  MaxOut,     \* bound on the chunks the shell writes
  Cap,        \* the capacity of the replay ring
  MaxMint,    \* bound on the tickets
  Faults      \* what may go wrong: spawn, read, kill, stall, wait

ASSUME SessionAssumption ==
  /\ Closer \subseteq {"create", "request", "reclaim", "shutdown"}
  /\ NoOne \notin Conn /\ Forced \subseteq Closer
  /\ MaxOut \in Nat /\ Cap \in Nat \ {0} /\ MaxMint \in Nat
  /\ Faults \subseteq {"spawn", "read", "kill", "stall", "wait"}

VARIABLES
  place,     \* where the manager keeps the session
  inner,     \* the fields behind the mutex
  closing,   \* the flag that tells a blocked delivery to give up
  os,        \* the leader, its background jobs, and whether reads are cancelled
  produced,  \* the end of the replay ring
  reader, waiter, \* the two threads
  ticket,    \* the live ticket, 0 if none, and the sequence its URL carries
  minted,
  conn,      \* the connections
  pane,      \* the renderer: its connection, the chunks it counts, the one it last drew
  closer     \* those that close

output == <<produced, reader>>
stream == <<ticket, minted, conn, pane>>
vars == <<place, inner, closing, os, output, waiter, stream, closer>>

State == {"starting", "running", "exited", "closing", "closed", "failed"}
NoHold == [unit |-> 0, lease |-> 0]
NoConn == [at |-> "none", lease |-> 0, next |-> 0, upto |-> 0, queue |-> 0]

Oldest == IF produced > Cap THEN produced - Cap ELSE 0
Clamp(seq, lo, hi) == IF seq > hi THEN hi ELSE IF seq < lo THEN lo ELSE seq

Init ==
  /\ place = "new" /\ closing = FALSE /\ produced = 0
  /\ inner = [state |-> "starting", process |-> FALSE, reaped |-> FALSE, exitDone |-> FALSE,
              procClosed |-> FALSE, outputDone |-> FALSE, attached |-> FALSE, lease |-> 0,
              sender |-> 0, expired |-> FALSE, closeStarted |-> FALSE, closeDone |-> FALSE,
              failed |-> FALSE]
  /\ os = [leader |-> FALSE, jobs |-> FALSE, cancelled |-> FALSE]
  /\ reader = [at |-> "off", hold |-> NoHold] /\ waiter = "off"
  /\ ticket = [id |-> 0, from |-> 0] /\ minted = 0
  /\ conn = [c \in Conn |-> NoConn]
  /\ pane = [on |-> NoOne, count |-> 0, last |-> 0]
  /\ closer = [c \in Closer |-> "idle"]
-----------------------------------------------------------------------------
(* The launch *)

\* The manager lists a session that has started.
Start ==
  /\ place = "new" /\ place' = "listed"
  /\ inner' = [inner EXCEPT !.state = "running", !.process = TRUE]
  /\ os' = [os EXCEPT !.leader = TRUE]
  /\ reader' = [reader EXCEPT !.at = "read"] /\ waiter' = "wait"
  /\ UNCHANGED <<closing, produced, stream, closer>>

\* The PTY does not start, or one of the threads does not.
StartFails ==
  /\ place = "new" /\ place' = "failed" /\ "spawn" \in Faults
  /\ \/ inner' = [inner EXCEPT !.state = "failed"] /\ UNCHANGED <<closing, os, reader>>
     \/ /\ inner' = [inner EXCEPT !.state = "failed", !.process = TRUE, !.exitDone = TRUE,
                                  !.procClosed = TRUE]
        /\ closing' = TRUE /\ os' = [os EXCEPT !.cancelled = TRUE]
        /\ \E at \in {"off", "read"} : reader' = [reader EXCEPT !.at = at]
  /\ UNCHANGED <<produced, waiter, stream, closer>>
-----------------------------------------------------------------------------
(* The processes of the terminal *)

LeaderExits ==
  /\ os.leader /\ os' = [os EXCEPT !.leader = FALSE]
  /\ UNCHANGED <<place, inner, closing, output, waiter, stream, closer>>

JobStarts ==
  /\ os.leader /\ ~os.jobs /\ os' = [os EXCEPT !.jobs = TRUE]
  /\ UNCHANGED <<place, inner, closing, output, waiter, stream, closer>>

JobsExit ==
  /\ os.jobs /\ os' = [os EXCEPT !.jobs = FALSE]
  /\ UNCHANGED <<place, inner, closing, output, waiter, stream, closer>>

\* SIGKILL to the session, swept until nothing of it is left.
Killed(o) == [o EXCEPT !.leader = FALSE, !.jobs = FALSE]
KillOutcome(o) == {Killed(o)} \union (IF "kill" \in Faults THEN {o} ELSE {})
\* PtyProcess::close: the sweep, then the reader is woken up.
PtyClosed(o) == {[k EXCEPT !.cancelled = TRUE] : k \in KillOutcome(o)}
-----------------------------------------------------------------------------
(* The reading thread: read_output, deliver_output, deliver_chunk *)

Read ==
  /\ reader.at = "read" /\ ~os.cancelled /\ produced < MaxOut
  /\ produced' = produced + 1
  /\ reader' = IF inner.attached /\ inner.sender # 0
               THEN [at |-> "deliver", hold |-> [unit |-> produced + 1, lease |-> inner.sender]]
               ELSE reader
  /\ UNCHANGED <<place, inner, closing, os, waiter, stream, closer>>

Receiver(lease) == {c \in Conn : conn[c].at = "open" /\ conn[c].lease = lease}

Deliver ==
  /\ reader.at = "deliver"
  /\ \E c \in Receiver(reader.hold.lease) :
       /\ conn[c].queue = 0
       /\ conn' = [conn EXCEPT ![c].queue = reader.hold.unit]
  /\ reader' = [at |-> "read", hold |-> NoHold]
  /\ UNCHANGED <<place, inner, closing, os, produced, waiter, ticket, minted, pane, closer>>

\* The receiver is gone; or its queue stays full too long, or until the session closes.
DropChunk ==
  /\ reader.at = "deliver"
  /\ \A c \in Receiver(reader.hold.lease) :
       conn[c].queue # 0 /\ (closing \/ "stall" \in Faults)
  /\ reader' = [at |-> "read", hold |-> NoHold]
  /\ UNCHANGED <<place, inner, closing, os, produced, waiter, stream, closer>>

ReaderEnds ==
  /\ reader.at = "read"
  /\ os.cancelled \/ ~(os.leader \/ os.jobs)
  /\ reader' = [reader EXCEPT !.at = "done"]
  /\ inner' = [inner EXCEPT !.outputDone = TRUE, !.sender = 0]
  /\ UNCHANGED <<place, closing, os, produced, waiter, stream, closer>>

ReadFails ==
  /\ reader.at = "read" /\ "read" \in Faults
  /\ reader' = [reader EXCEPT !.at = "kill"]
  /\ inner' = [inner EXCEPT !.state = IF @ = "running" THEN "failed" ELSE @]
  /\ UNCHANGED <<place, closing, os, produced, waiter, stream, closer>>

ReadKills ==
  /\ reader.at = "kill"
  /\ os' \in KillOutcome(os)
  /\ reader' = [reader EXCEPT !.at = "done"]
  /\ inner' = [inner EXCEPT !.outputDone = TRUE, !.sender = 0]
  /\ UNCHANGED <<place, closing, produced, waiter, stream, closer>>
-----------------------------------------------------------------------------
(* The waiting thread: wait_for_exit *)

WaiterStep(from, to) == waiter = from /\ waiter' = to

Reap ==
  /\ WaiterStep("wait", "drain")
  /\ ~os.leader
  /\ inner' = [inner EXCEPT !.reaped = TRUE]
  /\ UNCHANGED <<place, closing, os, output, stream, closer>>

Drained ==
  /\ waiter \in {"drain", "late"} /\ waiter' = "record"
  /\ reader.at = "done"
  /\ UNCHANGED <<place, inner, closing, os, output, stream, closer>>

\* The drain window passes: the PTY is closed, unless someone else closes it.
DrainTimeout ==
  /\ waiter = "drain" /\ reader.at # "done"
  /\ waiter' = IF inner.procClosed THEN "late" ELSE "cancel"
  /\ closing' = TRUE /\ inner' = [inner EXCEPT !.procClosed = TRUE]
  /\ UNCHANGED <<place, os, output, stream, closer>>

DrainCloses ==
  /\ WaiterStep("cancel", "late")
  /\ os' \in PtyClosed(os)
  /\ UNCHANGED <<place, inner, closing, output, stream, closer>>

LateTimeout ==
  /\ WaiterStep("late", "record")
  /\ reader.at # "done"
  /\ UNCHANGED <<place, inner, closing, os, output, stream, closer>>

RecordExit ==
  /\ WaiterStep("record", "close")
  /\ \E result \in {"exited"} \union (IF "wait" \in Faults THEN {"failed"} ELSE {}) :
       inner' = [inner EXCEPT !.exitDone = TRUE, !.state = IF @ = "running" THEN result ELSE @]
  /\ UNCHANGED <<place, closing, os, output, stream, closer>>

WaiterClaims ==
  /\ WaiterStep("close", IF inner.procClosed THEN "done" ELSE "sweep")
  /\ inner' = [inner EXCEPT !.procClosed = TRUE]
  /\ UNCHANGED <<place, closing, os, output, stream, closer>>

WaiterSweeps ==
  /\ WaiterStep("sweep", "done")
  /\ os' \in PtyClosed(os)
  /\ UNCHANGED <<place, inner, closing, output, stream, closer>>
-----------------------------------------------------------------------------
(* The renderer *)

\* mint_stream_ticket: a new ticket replaces the one before; the pane goes on
\* from the sequence that it is told.
Mint ==
  /\ place = "listed" /\ minted < MaxMint /\ minted' = minted + 1
  /\ pane.on = NoOne
  /\ LET from == Clamp(pane.count, Oldest, produced) IN
       /\ ticket' = [id |-> minted + 1, from |-> from]
       /\ pane' = [pane EXCEPT !.count = from, !.last = IF from = pane.count THEN @ ELSE from]
  /\ UNCHANGED <<place, inner, closing, os, output, waiter, conn, closer>>

MayAttachLate ==
  /\ ~inner.attached
  /\ inner.state \notin {"failed", "closed"}
MayAttach ==
  /\ ~inner.attached /\ ~inner.expired
  /\ inner.state \notin {"failed", "closed"}

\* The reader has ended: nobody would send, and nobody would end the stream.
NewSenderAlways == inner.lease + 1
NewSender == IF inner.outputDone THEN 0 ELSE inner.lease + 1

Told(c, resumed) ==
  pane' = IF resumed = ticket.from THEN [pane EXCEPT !.on = c]
          ELSE [on |-> c, count |-> resumed, last |-> resumed]

\* attach_with_ticket: only what is granted burns the ticket.  The gap since
\* the mint, if there is one, is told before the replay.
Attach(c) ==
  /\ conn[c].at = "none" /\ place = "listed"
  /\ ticket.id # 0 /\ MayAttach /\ ticket.from <= produced
  /\ LET resumed == IF ticket.from > Oldest THEN ticket.from ELSE Oldest IN
       /\ conn' = [conn EXCEPT ![c] = [at |-> "open", lease |-> inner.lease + 1,
                                       next |-> resumed + 1, upto |-> produced, queue |-> 0]]
       /\ Told(c, resumed)
  /\ inner' = [inner EXCEPT !.attached = TRUE, !.lease = @ + 1,
                            !.sender = NewSender]
  /\ ticket' = [ticket EXCEPT !.id = 0]
  /\ UNCHANGED <<place, closing, os, output, waiter, minted, closer>>

\* What is sent is drawn if the pane still listens to this connection.
Draw(c, unit) ==
  pane' = IF pane.on = c THEN [pane EXCEPT !.count = @ + 1, !.last = unit] ELSE pane

SendReplay(c) ==
  /\ conn[c].at = "open" /\ conn[c].next <= conn[c].upto
  /\ conn' = [conn EXCEPT ![c].next = @ + 1]
  /\ Draw(c, conn[c].next)
  /\ UNCHANGED <<place, inner, closing, os, output, waiter, ticket, minted, closer>>

SendLive(c) ==
  /\ conn[c].at = "open" /\ conn[c].next > conn[c].upto /\ conn[c].queue # 0
  /\ conn' = [conn EXCEPT ![c].queue = 0]
  /\ Draw(c, conn[c].queue)
  /\ UNCHANGED <<place, inner, closing, os, output, waiter, ticket, minted, closer>>

\* Nobody can send any more: the stream is closed after what is queued.
StreamEnds(c) ==
  /\ conn[c].at = "open" /\ conn[c].next > conn[c].upto /\ conn[c].queue = 0
  /\ conn[c].lease \notin {inner.sender, reader.hold.lease}
  /\ conn' = [conn EXCEPT ![c].at = "ended"]
  /\ UNCHANGED <<place, inner, closing, os, output, waiter, ticket, minted, pane, closer>>

\* The pane loses its connection; the server notices later.
PaneLeaves(c) ==
  /\ pane.on = c /\ pane' = [pane EXCEPT !.on = NoOne]
  /\ UNCHANGED <<place, inner, closing, os, output, waiter, ticket, minted, conn, closer>>

\* The WebSocket handshake fails, a write or a pong is late, or the client is gone.
Disconnect(c) ==
  /\ conn[c].at = "open"
  /\ conn' = [conn EXCEPT ![c].at = "ended", ![c].queue = 0]
  /\ UNCHANGED <<place, inner, closing, os, output, waiter, ticket, minted, pane, closer>>

ReleaseOutput(lease) ==
  inner' = IF inner.attached /\ inner.lease = lease
           THEN [inner EXCEPT !.attached = FALSE, !.lease = @ + 1, !.sender = 0]
           ELSE inner

Release(c) ==
  /\ conn[c].at = "ended"
  /\ conn' = [conn EXCEPT ![c] = [NoConn EXCEPT !.at = "released"]]
  /\ ReleaseOutput(conn[c].lease)
  /\ UNCHANGED <<place, closing, os, output, waiter, ticket, minted, pane, closer>>
-----------------------------------------------------------------------------
(* Closing *)

\* reclaim_window_expiry_wins
Expire ==
  /\ "reclaim" \in Closer
  /\ ~inner.attached /\ ~inner.expired
  /\ inner.state \notin {"starting", "closing", "closed"}
  /\ inner' = [inner EXCEPT !.expired = TRUE]
  /\ UNCHANGED <<place, closing, os, output, waiter, stream, closer>>

\* Who may close, and where that leaves the session in the manager.
Unlisted(c) ==
  CASE c = "create"   -> place = "failed" /\ place' = "gone"
    [] c = "request"  -> place = "listed" /\ place' = "closing"
    [] c = "reclaim"  -> place = "listed" /\ inner.expired /\ place' = "closing"
    [] c = "shutdown" -> place \in {"listed", "closing"} /\ place' = "gone"

Closes(c) == closer[c] = "idle" /\ Unlisted(c)
CloserStep(c, from, to) == closer[c] = from /\ closer' = [closer EXCEPT ![c] = to]

CloseUnstarted(c) ==
  /\ Closes(c) /\ ~inner.closeStarted
  /\ inner.state \in {"starting", "failed"} /\ ~inner.process
  /\ inner' = [inner EXCEPT !.closeStarted = TRUE, !.state = "closed", !.closeDone = TRUE]
  /\ closer' = [closer EXCEPT ![c] = "answered"]
  /\ UNCHANGED <<closing, os, output, waiter, stream>>

BeginClose(c) ==
  /\ Closes(c) /\ ~inner.closeStarted /\ inner.process
  /\ inner' = [inner EXCEPT !.closeStarted = TRUE, !.state = IF @ = "exited" THEN @ ELSE "closing"]
  /\ closing' = TRUE
  /\ closer' = [closer EXCEPT ![c] = IF inner.procClosed THEN "exit" ELSE "stop"]
  /\ UNCHANGED <<os, output, waiter, stream>>

JoinClose(c) ==
  /\ Closes(c) /\ inner.closeStarted
  /\ closer' = [closer EXCEPT ![c] = "await"]
  /\ UNCHANGED <<inner, closing, os, output, waiter, stream>>

Gone == inner.reaped /\ ~os.jobs

\* stop_process_tree after SIGTERM: all of it is gone within the grace period,
\* or what is left is killed.
TreeStops(c) ==
  /\ CloserStep(c, "stop", "exit")
  /\ c \notin Forced /\ Gone
  /\ UNCHANGED <<place, inner, closing, os, output, waiter, stream>>

TreeKilled(c) ==
  /\ CloserStep(c, "stop", "exit")
  /\ os' \in KillOutcome(os)
  /\ inner' = [inner EXCEPT !.failed = @ \/ os' # Killed(os)]
  /\ UNCHANGED <<place, closing, output, waiter, stream>>

ExitSeen(c) ==
  /\ CloserStep(c, "exit", "close")
  /\ inner.exitDone
  /\ UNCHANGED <<place, inner, closing, os, output, waiter, stream>>

ExitTimeout(c) ==
  /\ CloserStep(c, "exit", "close")
  /\ ~inner.exitDone /\ inner' = [inner EXCEPT !.failed = TRUE]
  /\ UNCHANGED <<place, closing, os, output, waiter, stream>>

CloseProcess(c) ==
  /\ CloserStep(c, "close", "join")
  /\ IF inner.procClosed THEN UNCHANGED <<os, inner>>
     ELSE /\ os' \in PtyClosed(os)
          /\ inner' = [inner EXCEPT !.procClosed = TRUE,
                                    !.failed = @ \/ os'.leader \/ os'.jobs]
  /\ UNCHANGED <<place, closing, output, waiter, stream>>

\* The threads are joined, or left behind if they do not end in time.
Joined ==
  \/ reader.at \in {"off", "done"} /\ waiter \in {"off", "done"}
  \/ ~inner.exitDone

FinishClose(c) ==
  /\ CloserStep(c, "join", "answered")
  /\ Joined
  /\ inner' = [inner EXCEPT !.state = "closed", !.closeDone = TRUE, !.sender = 0]
  /\ UNCHANGED <<place, closing, os, output, waiter, stream>>

CloseAnswered(c) ==
  /\ CloserStep(c, "await", "answered")
  /\ inner.closeDone
  /\ UNCHANGED <<place, inner, closing, os, output, waiter, stream>>
-----------------------------------------------------------------------------
ReaderNext == Read \/ Deliver \/ DropChunk \/ ReaderEnds \/ ReadFails \/ ReadKills
WaiterNext ==
  \/ Reap \/ Drained \/ DrainTimeout \/ DrainCloses \/ LateTimeout \/ RecordExit
  \/ WaiterClaims \/ WaiterSweeps
ConnNext(c) ==
  Attach(c) \/ SendReplay(c) \/ SendLive(c) \/ StreamEnds(c)
            \/ Disconnect(c) \/ Release(c) \/ PaneLeaves(c)
CloserNext(c) ==
  \/ CloseUnstarted(c) \/ BeginClose(c) \/ JoinClose(c) \/ TreeStops(c) \/ TreeKilled(c)
  \/ ExitSeen(c) \/ ExitTimeout(c) \/ CloseProcess(c) \/ FinishClose(c) \/ CloseAnswered(c)

Next ==
  \/ Start \/ StartFails \/ LeaderExits \/ JobStarts \/ JobsExit
  \/ ReaderNext \/ WaiterNext
  \/ Mint \/ Expire
  \/ \E c \in Conn : ConnNext(c)
  \/ \E c \in Closer : CloserNext(c)

\* Threads run, connections that have ended are released, the monitor of the
\* re-claim window checks again, and a close that has begun goes on.
Fairness ==
  /\ WF_vars(ReaderNext) /\ WF_vars(WaiterNext) /\ WF_vars(Expire)
  /\ \A c \in Conn :
       /\ WF_vars(SendReplay(c) \/ SendLive(c) \/ StreamEnds(c)) /\ WF_vars(Release(c))
       /\ WF_vars(pane.on # c /\ Disconnect(c))
  /\ \A c \in Closer : WF_vars(c \in {"create", "reclaim"} /\ CloserNext(c))
  /\ \A c \in Closer : WF_vars(closer[c] # "idle" /\ CloserNext(c))

Spec == Init /\ [][Next]_vars /\ Fairness
-----------------------------------------------------------------------------
\* Whether a session is closed because nobody came back, or somebody comes
\* back, is decided once: whoever attaches after the window has been found
\* expired would be given a session that is being closed
\* (reclaim_window_expiry_wins, attach_locked).
ReclaimFinal == inner.expired => ~inner.attached

\* The sequence that a pane claims its output from, the bytes it has drawn, is
\* the sequence of what it drew last, through lost connections, replays and
\* gaps, until the session closes (ReplayRing, mint_stream_ticket).
ResumesExactly == pane.count = pane.last \/ closing

\* A close that reports no error leaves no process of the terminal behind, no
\* background job either, however the exit, the drain window, the grace
\* period and the other closers interleave (close, stop_process_tree).
CleanClose ==
  inner.closeDone /\ ~inner.failed /\ inner.process => ~os.leader /\ ~os.jobs

\* A terminal whose pane has left, or whose output has ended and that nobody
\* mints a ticket for any more, is closed in the end, whether the server
\* noticed that the pane is gone or not (attach_locked, monitor_attachment).
Abandoned ==
  place # "new" /\ (pane.on = NoOne \/ (ticket.id = 0 /\ inner.outputDone))
AbandonedCloses == <>[]Abandoned => <>(inner.state = "closed")

\* A session at large: its reclaim, its stream and its close.
TerminalSafe == ReclaimFinal /\ ResumesExactly /\ CleanClose
=============================================================================
