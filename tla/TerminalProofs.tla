--------------------------- MODULE TerminalProofs ---------------------------
(***************************************************************************)
(* What TLAPS proves of one terminal: the decision about the re-claim      *)
(* window is final; a pane that comes back goes on where it stopped; a     *)
(* close that reports no error leaves no process behind; and what is       *)
(* written back from it is written once, and where the user was shown.     *)
(***************************************************************************)
EXTENDS TerminalSession, MemoryWriteback, FiniteSetTheorems, TLAPS
-----------------------------------------------------------------------------
(* The inductive invariant *)

\* The types, in the groups that steps change together.
SessionTyped ==
  /\ DOMAIN inner = {"state", "process", "reaped", "exitDone", "procClosed", "outputDone",
                     "attached", "lease", "sender", "expired", "closeStarted", "closeDone",
                     "failed"}
  /\ inner.lease \in Nat /\ inner.sender \in Nat
  /\ inner.process \in BOOLEAN /\ inner.procClosed \in BOOLEAN /\ inner.attached \in BOOLEAN
  /\ inner.exitDone \in BOOLEAN /\ inner.expired \in BOOLEAN /\ inner.closeDone \in BOOLEAN
  /\ inner.failed \in BOOLEAN
Processes == [leader : BOOLEAN, jobs : BOOLEAN, cancelled : BOOLEAN]
OutputTyped ==
  /\ closing \in BOOLEAN /\ produced \in Nat
  /\ os \in Processes
  /\ reader \in [at : {"off", "read", "deliver", "kill", "done"},
                 hold : [unit : Nat, lease : Nat]]
Connection == [at : {"none", "open", "ended", "released"}, lease : Nat, next : Nat, upto : Nat,
               queue : Nat]
ConnTyped == conn \in [Conn -> Connection]
Panes == [on : Conn \cup {NoOne}, count : Nat, last : Nat]
PaneTyped ==
  /\ ticket \in [id : Nat, from : Nat] /\ minted \in Nat
  /\ pane \in Panes
CloserTyped ==
  closer \in [Closer -> {"idle", "stop", "exit", "close", "join", "await", "answered"}]
Typed == SessionTyped /\ OutputTyped /\ ConnTyped /\ PaneTyped /\ CloserTyped

\* A terminal whose process was closed and whose waiter is not still about to do so has
\* no process left; a close past its wait for the exit has seen it or says that it failed.
Stopped == ~os.leader /\ ~os.jobs
Closed ==
  /\ place = "new" => ~inner.process /\ ~inner.procClosed /\ ~inner.closeDone /\ Stopped
                      /\ waiter = "off" /\ \A c \in Closer : closer[c] = "idle"
  /\ inner.procClosed /\ waiter \notin {"cancel", "sweep"} => Stopped
  /\ \A c \in Closer :
       /\ closer[c] \in {"close", "join"} => inner.exitDone \/ inner.failed
       /\ closer[c] = "join" => inner.procClosed

\* A lease belongs to one connection at most, and the sender to the newest.
Leased ==
  /\ place = "new" => reader.at = "off"
  /\ inner.sender # 0 => inner.attached /\ inner.sender = inner.lease
  /\ reader.hold.lease <= inner.lease
  /\ reader.at = "deliver" => reader.hold.lease > 0 /\ reader.hold.unit = produced
  /\ \A c \in Conn :
       /\ conn[c].lease <= inner.lease
       /\ conn[c].at = "open" => conn[c].lease > 0 /\ conn[c].next <= conn[c].upto + 1
  /\ \A c, d \in Conn :
       conn[c].at = "open" /\ conn[d].at = "open" /\ conn[c].lease = conn[d].lease => c = d

\* The chunks on their way from the ring to the pane: those it has drawn or will draw
\* from the replay, the one in the queue, and the one that the reader holds.
Holds(c) == reader.at = "deliver" /\ reader.hold.lease = conn[c].lease
Drawn(c) == IF conn[c].next <= conn[c].upto THEN conn[c].upto ELSE pane.count
InFlight(c) ==
  (IF conn[c].queue # 0 THEN 1 ELSE 0) + (IF Holds(c) THEN 1 ELSE 0)
Flows(c) ==
  /\ conn[c].next <= conn[c].upto => pane.count = conn[c].next - 1
  /\ conn[c].queue # 0 => conn[c].queue = Drawn(c) + 1
  /\ inner.sender = conn[c].lease \/ Holds(c) => produced = Drawn(c) + InFlight(c)
Resumed ==
  /\ ticket.id # 0 => pane.on = NoOne /\ ticket.from = pane.count
  /\ ~closing => /\ pane.count = pane.last
                 /\ \A c \in Conn : pane.on = c /\ conn[c].at = "open" => Flows(c)

-----------------------------------------------------------------------------
(* Steps *)

\* A kill leaves nothing behind unless it fails, and starts nothing when it fails.
LEMMA KillEnds ==
  ASSUME NEW o \in Processes, NEW k \in KillOutcome(o) \cup PtyClosed(o)
  PROVE  /\ k \in Processes /\ (k.leader => o.leader) /\ (k.jobs => o.jobs)
         /\ "kill" \notin Faults => ~k.leader /\ ~k.jobs
<1>1. /\ Killed(o) \in Processes /\ ~Killed(o).leader /\ ~Killed(o).jobs
  BY DEF Killed, Processes
<1>2. ASSUME NEW q \in KillOutcome(o)
      PROVE  /\ q \in Processes /\ (q.leader => o.leader) /\ (q.jobs => o.jobs)
             /\ "kill" \notin Faults => ~q.leader /\ ~q.jobs
  BY <1>1, <1>2 DEF KillOutcome
<1>3. CASE k \in KillOutcome(o) BY <1>2, <1>3
<1>4. CASE k \in PtyClosed(o)
  <2>1. PICK q \in KillOutcome(o) : k = [q EXCEPT !.cancelled = TRUE]
    BY <1>4 DEF PtyClosed
  <2>2. q \in Processes
    BY <1>2
  <2>3. /\ k \in Processes /\ k.leader = q.leader /\ k.jobs = q.jobs
    BY <2>1, <2>2 DEF Processes
  <2> QED BY <1>2, <2>3
<1> QED BY <1>3, <1>4

\* What every step leaves of the session's own fields, of its output, of the connections,
\* of the pane and of those that close is again what it should be.
LEMMA SessionTypedStep ==
  ASSUME SessionTyped, [Next]_vars PROVE SessionTyped'
<1> USE SessionAssumption DEF output, stream, SessionTyped
<1>1. CASE Start BY <1>1 DEF Start
<1>2. CASE StartFails BY <1>2 DEF StartFails
<1>3. CASE LeaderExits BY <1>3 DEF LeaderExits
<1>4. CASE JobStarts BY <1>4 DEF JobStarts
<1>5. CASE JobsExit BY <1>5 DEF JobsExit
<1>6. CASE Read BY <1>6 DEF Read
<1>7. CASE Deliver BY <1>7 DEF Deliver, Receiver
<1>8. CASE DropChunk BY <1>8 DEF DropChunk, Receiver
<1>9. CASE ReaderEnds BY <1>9 DEF ReaderEnds
<1>10. CASE ReadFails BY <1>10 DEF ReadFails
<1>11. CASE ReadKills BY <1>11 DEF ReadKills, KillOutcome, Killed
<1>12. CASE Reap BY <1>12 DEF Reap, WaiterStep
<1>13. CASE Drained BY <1>13 DEF Drained
<1>14. CASE DrainTimeout BY <1>14 DEF DrainTimeout
<1>15. CASE DrainCloses BY <1>15 DEF DrainCloses, PtyClosed, KillOutcome, Killed, WaiterStep
<1>16. CASE LateTimeout BY <1>16 DEF LateTimeout, WaiterStep
<1>17. CASE RecordExit BY <1>17 DEF RecordExit, WaiterStep
<1>18. CASE WaiterClaims BY <1>18 DEF WaiterClaims, WaiterStep
<1>19. CASE WaiterSweeps BY <1>19 DEF WaiterSweeps, PtyClosed, KillOutcome, Killed, WaiterStep
<1>20. CASE Mint BY <1>20 DEF Mint, Clamp, Oldest
<1>21. CASE Expire BY <1>21 DEF Expire
<1>22. ASSUME NEW c \in Conn, Attach(c) PROVE SessionTyped'
  BY <1>22 DEF Attach, MayAttach, NewSender, Told, Oldest
<1>23. ASSUME NEW c \in Conn, SendReplay(c) PROVE SessionTyped' BY <1>23 DEF SendReplay, Draw
<1>24. ASSUME NEW c \in Conn, SendLive(c) PROVE SessionTyped' BY <1>24 DEF SendLive, Draw
<1>25. ASSUME NEW c \in Conn, StreamEnds(c) PROVE SessionTyped' BY <1>25 DEF StreamEnds
<1>26. ASSUME NEW c \in Conn, Disconnect(c) PROVE SessionTyped' BY <1>26 DEF Disconnect
<1>27. ASSUME NEW c \in Conn, Release(c) PROVE SessionTyped'
  <2>1. CASE inner.attached /\ inner.lease = conn[c].lease
    BY <1>27, <2>1 DEF Release, ReleaseOutput
  <2>2. CASE ~(inner.attached /\ inner.lease = conn[c].lease)
    BY <1>27, <2>2 DEF Release, ReleaseOutput
  <2> QED BY <2>1, <2>2
<1>28. ASSUME NEW c \in Conn, PaneLeaves(c) PROVE SessionTyped' BY <1>28 DEF PaneLeaves
<1>29. ASSUME NEW c \in Closer, CloseUnstarted(c) PROVE SessionTyped'
  BY <1>29 DEF CloseUnstarted, Closes, Unlisted
<1>30. ASSUME NEW c \in Closer, BeginClose(c) PROVE SessionTyped'
  BY <1>30 DEF BeginClose, Closes, Unlisted
<1>31. ASSUME NEW c \in Closer, JoinClose(c) PROVE SessionTyped'
  BY <1>31 DEF JoinClose, Closes, Unlisted
<1>32. ASSUME NEW c \in Closer, TreeStops(c) PROVE SessionTyped'
  BY <1>32 DEF TreeStops, CloserStep
<1>33. ASSUME NEW c \in Closer, TreeKilled(c) PROVE SessionTyped'
  BY <1>33 DEF TreeKilled, KillOutcome, Killed, CloserStep
<1>34. ASSUME NEW c \in Closer, ExitSeen(c) PROVE SessionTyped'
  BY <1>34 DEF ExitSeen, CloserStep
<1>35. ASSUME NEW c \in Closer, ExitTimeout(c) PROVE SessionTyped'
  BY <1>35 DEF ExitTimeout, CloserStep
<1>36. ASSUME NEW c \in Closer, CloseProcess(c) PROVE SessionTyped'
  <2>1. CASE inner.procClosed BY <1>36, <2>1 DEF CloseProcess
  <2>2. CASE ~inner.procClosed
    <3>1. PICK b \in BOOLEAN : inner' = [inner EXCEPT !.procClosed = TRUE, !.failed = b]
      BY <1>36, <2>2, Zenon DEF CloseProcess
    <3> QED BY <3>1
  <2> QED BY <2>1, <2>2
<1>37. ASSUME NEW c \in Closer, FinishClose(c) PROVE SessionTyped'
  BY <1>37 DEF FinishClose, CloserStep
<1>38. ASSUME NEW c \in Closer, CloseAnswered(c) PROVE SessionTyped'
  BY <1>38 DEF CloseAnswered, CloserStep
<1>39. CASE UNCHANGED vars BY <1>39 DEF vars, output, stream
<1> QED BY <1>1, <1>2, <1>3, <1>4, <1>5, <1>6, <1>7, <1>8, <1>9, <1>10, <1>11, <1>12,
    <1>13, <1>14, <1>15, <1>16, <1>17, <1>18, <1>19, <1>20, <1>21, <1>22, <1>23, <1>24,
    <1>25, <1>26, <1>27, <1>28, <1>29, <1>30, <1>31, <1>32, <1>33, <1>34, <1>35, <1>36,
    <1>37, <1>38, <1>39
  DEF Next, ReaderNext, WaiterNext, ConnNext, CloserNext

LEMMA OutputTypedStep ==
  ASSUME SessionTyped, OutputTyped, [Next]_vars PROVE OutputTyped'
<1> USE SessionAssumption DEF output, stream, SessionTyped, OutputTyped, NoHold
<1>1. CASE Start BY <1>1 DEF Start, Processes
<1>2. CASE StartFails
  <2>1. os' \in Processes
    <3>1. UNCHANGED os \/ os' = [os EXCEPT !.cancelled = TRUE] BY <1>2, Zenon DEF StartFails
    <3>2. os \in Processes OBVIOUS
    <3>3. [os EXCEPT !.cancelled = TRUE] \in Processes BY <3>2 DEF Processes
    <3> QED BY <3>1, <3>2, <3>3
  <2>2. closing' \in BOOLEAN /\ produced' = produced
    BY <1>2 DEF StartFails
  <2>3. UNCHANGED reader \/ \E at \in {"off", "read"} : reader' = [reader EXCEPT !.at = at]
    BY <1>2 DEF StartFails
  <2> QED BY <2>1, <2>2, <2>3
<1>3. CASE LeaderExits BY <1>3 DEF LeaderExits, Processes
<1>4. CASE JobStarts BY <1>4 DEF JobStarts, Processes
<1>5. CASE JobsExit BY <1>5 DEF JobsExit, Processes
<1>6. CASE Read BY <1>6 DEF Read
<1>7. CASE Deliver BY <1>7 DEF Deliver, Receiver
<1>8. CASE DropChunk BY <1>8 DEF DropChunk, Receiver
<1>9. CASE ReaderEnds BY <1>9 DEF ReaderEnds
<1>10. CASE ReadFails BY <1>10 DEF ReadFails
<1>11. CASE ReadKills
  <2>1. os' \in Processes
    BY <1>11, KillEnds DEF ReadKills
  <2> QED BY <1>11, <2>1 DEF ReadKills
<1>12. CASE Reap BY <1>12 DEF Reap, WaiterStep
<1>13. CASE Drained BY <1>13 DEF Drained
<1>14. CASE DrainTimeout BY <1>14 DEF DrainTimeout
<1>15. CASE DrainCloses
  <2>1. os' \in Processes
    BY <1>15, KillEnds DEF DrainCloses, WaiterStep
  <2> QED BY <1>15, <2>1 DEF DrainCloses, WaiterStep
<1>16. CASE LateTimeout BY <1>16 DEF LateTimeout, WaiterStep
<1>17. CASE RecordExit BY <1>17 DEF RecordExit, WaiterStep
<1>18. CASE WaiterClaims BY <1>18 DEF WaiterClaims, WaiterStep
<1>19. CASE WaiterSweeps
  <2>1. os' \in Processes
    BY <1>19, KillEnds DEF WaiterSweeps, WaiterStep
  <2> QED BY <1>19, <2>1 DEF WaiterSweeps, WaiterStep
<1>20. CASE Mint BY <1>20 DEF Mint, Clamp, Oldest
<1>21. CASE Expire BY <1>21 DEF Expire
<1>22. ASSUME NEW c \in Conn, Attach(c) PROVE OutputTyped'
  BY <1>22 DEF Attach, MayAttach, NewSender, Told, Oldest
<1>23. ASSUME NEW c \in Conn, SendReplay(c) PROVE OutputTyped' BY <1>23 DEF SendReplay, Draw
<1>24. ASSUME NEW c \in Conn, SendLive(c) PROVE OutputTyped' BY <1>24 DEF SendLive, Draw
<1>25. ASSUME NEW c \in Conn, StreamEnds(c) PROVE OutputTyped' BY <1>25 DEF StreamEnds
<1>26. ASSUME NEW c \in Conn, Disconnect(c) PROVE OutputTyped' BY <1>26 DEF Disconnect
<1>27. ASSUME NEW c \in Conn, Release(c) PROVE OutputTyped' BY <1>27 DEF Release, ReleaseOutput
<1>28. ASSUME NEW c \in Conn, PaneLeaves(c) PROVE OutputTyped' BY <1>28 DEF PaneLeaves
<1>29. ASSUME NEW c \in Closer, CloseUnstarted(c) PROVE OutputTyped'
  BY <1>29 DEF CloseUnstarted, Closes, Unlisted
<1>30. ASSUME NEW c \in Closer, BeginClose(c) PROVE OutputTyped'
  BY <1>30 DEF BeginClose, Closes, Unlisted
<1>31. ASSUME NEW c \in Closer, JoinClose(c) PROVE OutputTyped'
  BY <1>31 DEF JoinClose, Closes, Unlisted
<1>32. ASSUME NEW c \in Closer, TreeStops(c) PROVE OutputTyped'
  BY <1>32 DEF TreeStops, CloserStep
<1>33. ASSUME NEW c \in Closer, TreeKilled(c) PROVE OutputTyped'
  <2>1. os' \in Processes
    BY <1>33, KillEnds DEF TreeKilled, CloserStep
  <2> QED BY <1>33, <2>1 DEF TreeKilled, CloserStep
<1>34. ASSUME NEW c \in Closer, ExitSeen(c) PROVE OutputTyped'
  BY <1>34 DEF ExitSeen, CloserStep
<1>35. ASSUME NEW c \in Closer, ExitTimeout(c) PROVE OutputTyped'
  BY <1>35 DEF ExitTimeout, CloserStep
<1>36. ASSUME NEW c \in Closer, CloseProcess(c) PROVE OutputTyped'
  <2>1. os' \in Processes
    BY <1>36, KillEnds DEF CloseProcess
  <2> QED BY <1>36, <2>1 DEF CloseProcess, CloserStep
<1>37. ASSUME NEW c \in Closer, FinishClose(c) PROVE OutputTyped'
  BY <1>37 DEF FinishClose, CloserStep
<1>38. ASSUME NEW c \in Closer, CloseAnswered(c) PROVE OutputTyped'
  BY <1>38 DEF CloseAnswered, CloserStep
<1>39. CASE UNCHANGED vars BY <1>39 DEF vars, output, stream
<1> QED BY <1>1, <1>2, <1>3, <1>4, <1>5, <1>6, <1>7, <1>8, <1>9, <1>10, <1>11, <1>12,
    <1>13, <1>14, <1>15, <1>16, <1>17, <1>18, <1>19, <1>20, <1>21, <1>22, <1>23, <1>24,
    <1>25, <1>26, <1>27, <1>28, <1>29, <1>30, <1>31, <1>32, <1>33, <1>34, <1>35, <1>36,
    <1>37, <1>38, <1>39
  DEF Next, ReaderNext, WaiterNext, ConnNext, CloserNext

LEMMA ConnTypedStep ==
  ASSUME SessionTyped, OutputTyped, ConnTyped, PaneTyped, [Next]_vars PROVE ConnTyped'
<1> USE SessionAssumption
    DEF output, stream, SessionTyped, OutputTyped, ConnTyped, PaneTyped, NoConn, Connection
<1>1. CASE Start BY <1>1 DEF Start
<1>2. CASE StartFails BY <1>2 DEF StartFails
<1>3. CASE LeaderExits BY <1>3 DEF LeaderExits
<1>4. CASE JobStarts BY <1>4 DEF JobStarts
<1>5. CASE JobsExit BY <1>5 DEF JobsExit
<1>6. CASE Read BY <1>6 DEF Read
<1>7. CASE Deliver BY <1>7 DEF Deliver, Receiver
<1>8. CASE DropChunk BY <1>8 DEF DropChunk, Receiver
<1>9. CASE ReaderEnds BY <1>9 DEF ReaderEnds
<1>10. CASE ReadFails BY <1>10 DEF ReadFails
<1>11. CASE ReadKills BY <1>11 DEF ReadKills, KillOutcome, Killed
<1>12. CASE Reap BY <1>12 DEF Reap, WaiterStep
<1>13. CASE Drained BY <1>13 DEF Drained
<1>14. CASE DrainTimeout BY <1>14 DEF DrainTimeout
<1>15. CASE DrainCloses BY <1>15 DEF DrainCloses, PtyClosed, KillOutcome, Killed, WaiterStep
<1>16. CASE LateTimeout BY <1>16 DEF LateTimeout, WaiterStep
<1>17. CASE RecordExit BY <1>17 DEF RecordExit, WaiterStep
<1>18. CASE WaiterClaims BY <1>18 DEF WaiterClaims, WaiterStep
<1>19. CASE WaiterSweeps BY <1>19 DEF WaiterSweeps, PtyClosed, KillOutcome, Killed, WaiterStep
<1>20. CASE Mint BY <1>20 DEF Mint, Clamp, Oldest
<1>21. CASE Expire BY <1>21 DEF Expire
<1>22. ASSUME NEW c \in Conn, Attach(c) PROVE ConnTyped'
  BY <1>22 DEF Attach, MayAttach, NewSender, Told, Oldest
<1>23. ASSUME NEW c \in Conn, SendReplay(c) PROVE ConnTyped' BY <1>23 DEF SendReplay, Draw
<1>24. ASSUME NEW c \in Conn, SendLive(c) PROVE ConnTyped' BY <1>24 DEF SendLive, Draw
<1>25. ASSUME NEW c \in Conn, StreamEnds(c) PROVE ConnTyped' BY <1>25 DEF StreamEnds
<1>26. ASSUME NEW c \in Conn, Disconnect(c) PROVE ConnTyped'
  <2>0. conn[c] \in Connection
    BY <1>26
  <2>1. [conn[c] EXCEPT !.at = "ended", !.queue = 0] \in Connection
    BY <2>0 DEF Connection
  <2>2. conn' = [conn EXCEPT ![c] = [conn[c] EXCEPT !.at = "ended", !.queue = 0]]
    BY <1>26 DEF Disconnect
  <2> QED BY <2>1, <2>2
<1>27. ASSUME NEW c \in Conn, Release(c) PROVE ConnTyped' BY <1>27 DEF Release, ReleaseOutput
<1>28. ASSUME NEW c \in Conn, PaneLeaves(c) PROVE ConnTyped' BY <1>28 DEF PaneLeaves
<1>29. ASSUME NEW c \in Closer, CloseUnstarted(c) PROVE ConnTyped'
  BY <1>29 DEF CloseUnstarted, Closes, Unlisted
<1>30. ASSUME NEW c \in Closer, BeginClose(c) PROVE ConnTyped'
  BY <1>30 DEF BeginClose, Closes, Unlisted
<1>31. ASSUME NEW c \in Closer, JoinClose(c) PROVE ConnTyped'
  BY <1>31 DEF JoinClose, Closes, Unlisted
<1>32. ASSUME NEW c \in Closer, TreeStops(c) PROVE ConnTyped'
  BY <1>32 DEF TreeStops, CloserStep
<1>33. ASSUME NEW c \in Closer, TreeKilled(c) PROVE ConnTyped'
  BY <1>33 DEF TreeKilled, KillOutcome, Killed, CloserStep
<1>34. ASSUME NEW c \in Closer, ExitSeen(c) PROVE ConnTyped' BY <1>34 DEF ExitSeen, CloserStep
<1>35. ASSUME NEW c \in Closer, ExitTimeout(c) PROVE ConnTyped'
  BY <1>35 DEF ExitTimeout, CloserStep
<1>36. ASSUME NEW c \in Closer, CloseProcess(c) PROVE ConnTyped'
  BY <1>36 DEF CloseProcess, PtyClosed, KillOutcome, Killed, CloserStep
<1>37. ASSUME NEW c \in Closer, FinishClose(c) PROVE ConnTyped'
  BY <1>37 DEF FinishClose, CloserStep
<1>38. ASSUME NEW c \in Closer, CloseAnswered(c) PROVE ConnTyped'
  BY <1>38 DEF CloseAnswered, CloserStep
<1>39. CASE UNCHANGED vars BY <1>39 DEF vars, output, stream
<1> QED BY <1>1, <1>2, <1>3, <1>4, <1>5, <1>6, <1>7, <1>8, <1>9, <1>10, <1>11, <1>12,
    <1>13, <1>14, <1>15, <1>16, <1>17, <1>18, <1>19, <1>20, <1>21, <1>22, <1>23, <1>24,
    <1>25, <1>26, <1>27, <1>28, <1>29, <1>30, <1>31, <1>32, <1>33, <1>34, <1>35, <1>36,
    <1>37, <1>38, <1>39
  DEF Next, ReaderNext, WaiterNext, ConnNext, CloserNext

\* A pane that draws stays one.
LEMMA PaneMoves ==
  ASSUME NEW p \in Panes, NEW m \in Nat, NEW n \in Nat
  PROVE  [p EXCEPT !.count = m, !.last = n] \in Panes
BY DEF Panes

LEMMA PaneTypedStep ==
  ASSUME OutputTyped, ConnTyped, PaneTyped, [Next]_vars PROVE PaneTyped'
<1> USE SessionAssumption DEF output, stream, OutputTyped, ConnTyped, PaneTyped
<1>1. CASE Start BY <1>1 DEF Start
<1>2. CASE StartFails BY <1>2 DEF StartFails
<1>3. CASE LeaderExits BY <1>3 DEF LeaderExits
<1>4. CASE JobStarts BY <1>4 DEF JobStarts
<1>5. CASE JobsExit BY <1>5 DEF JobsExit
<1>6. CASE Read BY <1>6 DEF Read
<1>7. CASE Deliver BY <1>7 DEF Deliver, Receiver
<1>8. CASE DropChunk BY <1>8 DEF DropChunk, Receiver
<1>9. CASE ReaderEnds BY <1>9 DEF ReaderEnds
<1>10. CASE ReadFails BY <1>10 DEF ReadFails
<1>11. CASE ReadKills BY <1>11 DEF ReadKills, KillOutcome, Killed
<1>12. CASE Reap BY <1>12 DEF Reap, WaiterStep
<1>13. CASE Drained BY <1>13 DEF Drained
<1>14. CASE DrainTimeout BY <1>14 DEF DrainTimeout
<1>15. CASE DrainCloses BY <1>15 DEF DrainCloses, PtyClosed, KillOutcome, Killed, WaiterStep
<1>16. CASE LateTimeout BY <1>16 DEF LateTimeout, WaiterStep
<1>17. CASE RecordExit BY <1>17 DEF RecordExit, WaiterStep
<1>18. CASE WaiterClaims BY <1>18 DEF WaiterClaims, WaiterStep
<1>19. CASE WaiterSweeps BY <1>19 DEF WaiterSweeps, PtyClosed, KillOutcome, Killed, WaiterStep
<1>20. CASE Mint
  <2>1. Clamp(pane.count, Oldest, produced) \in Nat
    <3>1. Oldest \in Nat
      BY DEF Oldest
    <3>2. pane.count \in Nat
      BY DEF Panes
    <3> QED BY <3>1, <3>2 DEF Clamp
  <2>2. PICK from \in Nat :
           /\ ticket' = [id |-> minted + 1, from |-> from] /\ minted' = minted + 1
           /\ pane' = [pane EXCEPT !.count = from,
                                   !.last = IF from = pane.count THEN pane.last ELSE from]
    BY <1>20, <2>1 DEF Mint
  <2>0. pane \in Panes
    OBVIOUS
  <2>3. PICK last \in Nat : pane' = [pane EXCEPT !.count = from, !.last = last]
    BY <2>0, <2>2 DEF Panes
  <2>4. pane' \in Panes
    BY <2>0, <2>3, PaneMoves
  <2> QED BY <2>2, <2>4
<1>21. CASE Expire BY <1>21 DEF Expire
<1>22. ASSUME NEW c \in Conn, Attach(c) PROVE PaneTyped'
  <2>1. UNCHANGED minted /\ ticket' \in [id : Nat, from : Nat] BY <1>22 DEF Attach
  <2>2. \/ pane' = [pane EXCEPT !.on = c]
        \/ pane' = [on |-> c, count |-> ticket.from, last |-> ticket.from]
        \/ pane' = [on |-> c, count |-> Oldest, last |-> Oldest]
    BY <1>22 DEF Attach, Told
  <2>3. Oldest \in Nat
    BY DEF Oldest
  <2> QED BY <2>1, <2>2, <2>3 DEF Panes
<1>23. ASSUME NEW c \in Conn, SendReplay(c) PROVE PaneTyped'
  <2>1. conn[c].next \in Nat /\ conn[c].queue \in Nat
    BY <1>23 DEF Connection
  <2>2. UNCHANGED <<ticket, minted>> BY <1>23 DEF SendReplay
  <2>3. pane' = pane
        \/ \E unit \in Nat : pane' = [pane EXCEPT !.count = pane.count + 1, !.last = unit]
    BY <1>23, <2>1 DEF SendReplay, Draw
  <2>4. pane \in Panes /\ pane.count + 1 \in Nat
    BY DEF Panes
  <2>5. CASE pane' = pane BY <2>2, <2>5
  <2>6. ASSUME NEW m \in Nat, NEW unit \in Nat, m = pane.count + 1,
               pane' = [pane EXCEPT !.count = m, !.last = unit]
        PROVE  PaneTyped'
    <3>1. pane' \in Panes
      BY <2>4, <2>6, PaneMoves
    <3> QED BY <2>2, <3>1
  <2> QED BY <2>3, <2>4, <2>5, <2>6
<1>24. ASSUME NEW c \in Conn, SendLive(c) PROVE PaneTyped'
  <2>1. conn[c].next \in Nat /\ conn[c].queue \in Nat
    BY <1>24 DEF Connection
  <2>2. UNCHANGED <<ticket, minted>> BY <1>24 DEF SendLive
  <2>3. pane' = pane
        \/ \E unit \in Nat : pane' = [pane EXCEPT !.count = pane.count + 1, !.last = unit]
    BY <1>24, <2>1 DEF SendLive, Draw
  <2>4. pane \in Panes /\ pane.count + 1 \in Nat
    BY DEF Panes
  <2>5. CASE pane' = pane BY <2>2, <2>5
  <2>6. ASSUME NEW m \in Nat, NEW unit \in Nat, m = pane.count + 1,
               pane' = [pane EXCEPT !.count = m, !.last = unit]
        PROVE  PaneTyped'
    <3>1. pane' \in Panes
      BY <2>4, <2>6, PaneMoves
    <3> QED BY <2>2, <3>1
  <2> QED BY <2>3, <2>4, <2>5, <2>6
<1>25. ASSUME NEW c \in Conn, StreamEnds(c) PROVE PaneTyped' BY <1>25 DEF StreamEnds
<1>26. ASSUME NEW c \in Conn, Disconnect(c) PROVE PaneTyped' BY <1>26 DEF Disconnect
<1>27. ASSUME NEW c \in Conn, Release(c) PROVE PaneTyped' BY <1>27 DEF Release, ReleaseOutput
<1>28. ASSUME NEW c \in Conn, PaneLeaves(c) PROVE PaneTyped' BY <1>28 DEF PaneLeaves, Panes
<1>29. ASSUME NEW c \in Closer, CloseUnstarted(c) PROVE PaneTyped'
  BY <1>29 DEF CloseUnstarted, Closes, Unlisted
<1>30. ASSUME NEW c \in Closer, BeginClose(c) PROVE PaneTyped'
  BY <1>30 DEF BeginClose, Closes, Unlisted
<1>31. ASSUME NEW c \in Closer, JoinClose(c) PROVE PaneTyped'
  BY <1>31 DEF JoinClose, Closes, Unlisted
<1>32. ASSUME NEW c \in Closer, TreeStops(c) PROVE PaneTyped'
  BY <1>32 DEF TreeStops, CloserStep
<1>33. ASSUME NEW c \in Closer, TreeKilled(c) PROVE PaneTyped'
  BY <1>33 DEF TreeKilled, KillOutcome, Killed, CloserStep
<1>34. ASSUME NEW c \in Closer, ExitSeen(c) PROVE PaneTyped' BY <1>34 DEF ExitSeen, CloserStep
<1>35. ASSUME NEW c \in Closer, ExitTimeout(c) PROVE PaneTyped'
  BY <1>35 DEF ExitTimeout, CloserStep
<1>36. ASSUME NEW c \in Closer, CloseProcess(c) PROVE PaneTyped'
  BY <1>36 DEF CloseProcess, PtyClosed, KillOutcome, Killed, CloserStep
<1>37. ASSUME NEW c \in Closer, FinishClose(c) PROVE PaneTyped'
  BY <1>37 DEF FinishClose, CloserStep
<1>38. ASSUME NEW c \in Closer, CloseAnswered(c) PROVE PaneTyped'
  BY <1>38 DEF CloseAnswered, CloserStep
<1>39. CASE UNCHANGED vars BY <1>39 DEF vars, output, stream
<1> QED BY <1>1, <1>2, <1>3, <1>4, <1>5, <1>6, <1>7, <1>8, <1>9, <1>10, <1>11, <1>12,
    <1>13, <1>14, <1>15, <1>16, <1>17, <1>18, <1>19, <1>20, <1>21, <1>22, <1>23, <1>24,
    <1>25, <1>26, <1>27, <1>28, <1>29, <1>30, <1>31, <1>32, <1>33, <1>34, <1>35, <1>36,
    <1>37, <1>38, <1>39
  DEF Next, ReaderNext, WaiterNext, ConnNext, CloserNext

LEMMA CloserTypedStep ==
  ASSUME CloserTyped, [Next]_vars PROVE CloserTyped'
<1> USE SessionAssumption DEF output, stream, CloserTyped
<1>1. CASE Start BY <1>1 DEF Start
<1>2. CASE StartFails BY <1>2 DEF StartFails
<1>3. CASE LeaderExits BY <1>3 DEF LeaderExits
<1>4. CASE JobStarts BY <1>4 DEF JobStarts
<1>5. CASE JobsExit BY <1>5 DEF JobsExit
<1>6. CASE Read BY <1>6 DEF Read
<1>7. CASE Deliver BY <1>7 DEF Deliver, Receiver
<1>8. CASE DropChunk BY <1>8 DEF DropChunk, Receiver
<1>9. CASE ReaderEnds BY <1>9 DEF ReaderEnds
<1>10. CASE ReadFails BY <1>10 DEF ReadFails
<1>11. CASE ReadKills BY <1>11 DEF ReadKills, KillOutcome, Killed
<1>12. CASE Reap BY <1>12 DEF Reap, WaiterStep
<1>13. CASE Drained BY <1>13 DEF Drained
<1>14. CASE DrainTimeout BY <1>14 DEF DrainTimeout
<1>15. CASE DrainCloses BY <1>15 DEF DrainCloses, PtyClosed, KillOutcome, Killed, WaiterStep
<1>16. CASE LateTimeout BY <1>16 DEF LateTimeout, WaiterStep
<1>17. CASE RecordExit BY <1>17 DEF RecordExit, WaiterStep
<1>18. CASE WaiterClaims BY <1>18 DEF WaiterClaims, WaiterStep
<1>19. CASE WaiterSweeps BY <1>19 DEF WaiterSweeps, PtyClosed, KillOutcome, Killed, WaiterStep
<1>20. CASE Mint BY <1>20 DEF Mint, Clamp, Oldest
<1>21. CASE Expire BY <1>21 DEF Expire
<1>22. ASSUME NEW c \in Conn, Attach(c) PROVE CloserTyped'
  BY <1>22 DEF Attach, MayAttach, NewSender, Told, Oldest
<1>23. ASSUME NEW c \in Conn, SendReplay(c) PROVE CloserTyped' BY <1>23 DEF SendReplay, Draw
<1>24. ASSUME NEW c \in Conn, SendLive(c) PROVE CloserTyped' BY <1>24 DEF SendLive, Draw
<1>25. ASSUME NEW c \in Conn, StreamEnds(c) PROVE CloserTyped' BY <1>25 DEF StreamEnds
<1>26. ASSUME NEW c \in Conn, Disconnect(c) PROVE CloserTyped' BY <1>26 DEF Disconnect
<1>27. ASSUME NEW c \in Conn, Release(c) PROVE CloserTyped' BY <1>27 DEF Release, ReleaseOutput
<1>28. ASSUME NEW c \in Conn, PaneLeaves(c) PROVE CloserTyped' BY <1>28 DEF PaneLeaves
<1>29. ASSUME NEW c \in Closer, CloseUnstarted(c) PROVE CloserTyped'
  BY <1>29 DEF CloseUnstarted, Closes, Unlisted
<1>30. ASSUME NEW c \in Closer, BeginClose(c) PROVE CloserTyped'
  BY <1>30 DEF BeginClose, Closes, Unlisted
<1>31. ASSUME NEW c \in Closer, JoinClose(c) PROVE CloserTyped'
  BY <1>31 DEF JoinClose, Closes, Unlisted
<1>32. ASSUME NEW c \in Closer, TreeStops(c) PROVE CloserTyped'
  BY <1>32 DEF TreeStops, CloserStep
<1>33. ASSUME NEW c \in Closer, TreeKilled(c) PROVE CloserTyped'
  BY <1>33 DEF TreeKilled, KillOutcome, Killed, CloserStep
<1>34. ASSUME NEW c \in Closer, ExitSeen(c) PROVE CloserTyped'
  BY <1>34 DEF ExitSeen, CloserStep
<1>35. ASSUME NEW c \in Closer, ExitTimeout(c) PROVE CloserTyped'
  BY <1>35 DEF ExitTimeout, CloserStep
<1>36. ASSUME NEW c \in Closer, CloseProcess(c) PROVE CloserTyped'
  BY <1>36 DEF CloseProcess, PtyClosed, KillOutcome, Killed, CloserStep
<1>37. ASSUME NEW c \in Closer, FinishClose(c) PROVE CloserTyped'
  BY <1>37 DEF FinishClose, CloserStep
<1>38. ASSUME NEW c \in Closer, CloseAnswered(c) PROVE CloserTyped'
  BY <1>38 DEF CloseAnswered, CloserStep
<1>39. CASE UNCHANGED vars BY <1>39 DEF vars, output, stream
<1> QED BY <1>1, <1>2, <1>3, <1>4, <1>5, <1>6, <1>7, <1>8, <1>9, <1>10, <1>11, <1>12,
    <1>13, <1>14, <1>15, <1>16, <1>17, <1>18, <1>19, <1>20, <1>21, <1>22, <1>23, <1>24,
    <1>25, <1>26, <1>27, <1>28, <1>29, <1>30, <1>31, <1>32, <1>33, <1>34, <1>35, <1>36,
    <1>37, <1>38, <1>39
  DEF Next, ReaderNext, WaiterNext, ConnNext, CloserNext

\* Without failing kills every step keeps the argument about closing: whoever claims the
\* process also kills it, before a close that waits for the claimer reports.
LEMMA ClosedStep ==
  ASSUME SessionTyped, OutputTyped, CloserTyped, Closed, CleanClose,
         "kill" \notin Faults, [Next]_vars PROVE Closed' /\ CleanClose'
<1> USE SessionAssumption DEF output, stream, SessionTyped, OutputTyped, CloserTyped, Closed,
        CleanClose, Stopped, Processes
<1>1. CASE Start BY <1>1 DEF Start
<1>2. CASE StartFails BY <1>2 DEF StartFails
<1>3. CASE LeaderExits BY <1>3 DEF LeaderExits
<1>4. CASE JobStarts BY <1>4 DEF JobStarts
<1>5. CASE JobsExit BY <1>5 DEF JobsExit
<1>6. CASE Read BY <1>6 DEF Read
<1>7. CASE Deliver BY <1>7 DEF Deliver, Receiver
<1>8. CASE DropChunk BY <1>8 DEF DropChunk, Receiver
<1>9. CASE ReaderEnds BY <1>9 DEF ReaderEnds
<1>10. CASE ReadFails BY <1>10 DEF ReadFails
<1>11. CASE ReadKills BY <1>11, KillEnds DEF ReadKills, Processes
<1>12. CASE Reap BY <1>12 DEF Reap, WaiterStep
<1>13. CASE Drained BY <1>13 DEF Drained
<1>14. CASE DrainTimeout BY <1>14 DEF DrainTimeout
<1>15. CASE DrainCloses BY <1>15, KillEnds DEF DrainCloses, WaiterStep, Processes
<1>16. CASE LateTimeout BY <1>16 DEF LateTimeout, WaiterStep
<1>17. CASE RecordExit BY <1>17 DEF RecordExit, WaiterStep
<1>18. CASE WaiterClaims
  <2>1. UNCHANGED <<place, os, closer>> /\ waiter = "close"
    BY <1>18 DEF WaiterClaims, WaiterStep
  <2>2. inner' = [inner EXCEPT !.procClosed = TRUE] /\ waiter' # "cancel"
    BY <1>18 DEF WaiterClaims, WaiterStep
  <2>3. waiter' = "sweep" \/ inner.procClosed
    BY <1>18 DEF WaiterClaims, WaiterStep
  <2>4. place # "new"
    BY <1>18 DEF WaiterClaims, WaiterStep
  <2> QED BY <2>1, <2>2, <2>3, <2>4
<1>19. CASE WaiterSweeps BY <1>19, KillEnds DEF WaiterSweeps, WaiterStep, Processes
<1>20. CASE Mint BY <1>20 DEF Mint, Clamp, Oldest
<1>21. CASE Expire BY <1>21 DEF Expire
<1>22. ASSUME NEW c \in Conn, Attach(c) PROVE Closed' /\ CleanClose'
  BY <1>22 DEF Attach, MayAttach, NewSender, Told, Oldest
<1>23. ASSUME NEW c \in Conn, SendReplay(c) PROVE Closed' /\ CleanClose'
  BY <1>23 DEF SendReplay, Draw
<1>24. ASSUME NEW c \in Conn, SendLive(c) PROVE Closed' /\ CleanClose'
  BY <1>24 DEF SendLive, Draw
<1>25. ASSUME NEW c \in Conn, StreamEnds(c) PROVE Closed' /\ CleanClose'
  BY <1>25 DEF StreamEnds
<1>26. ASSUME NEW c \in Conn, Disconnect(c) PROVE Closed' /\ CleanClose'
  BY <1>26 DEF Disconnect
<1>27. ASSUME NEW c \in Conn, Release(c) PROVE Closed' /\ CleanClose'
  BY <1>27 DEF Release, ReleaseOutput
<1>28. ASSUME NEW c \in Conn, PaneLeaves(c) PROVE Closed' /\ CleanClose'
  BY <1>28 DEF PaneLeaves
<1>29. ASSUME NEW c \in Closer, CloseUnstarted(c) PROVE Closed' /\ CleanClose'
  <2>1. UNCHANGED <<os, waiter>> /\ closer' = [closer EXCEPT ![c] = "answered"]
    BY <1>29 DEF CloseUnstarted
  <2>2. place # "new" /\ place' # "new"
    BY <1>29 DEF CloseUnstarted, Closes, Unlisted
  <2>3. /\ ~inner'.process /\ inner'.procClosed = inner.procClosed
        /\ inner'.exitDone = inner.exitDone /\ inner'.failed = inner.failed
    BY <1>29 DEF CloseUnstarted
  <2> QED BY <2>1, <2>2, <2>3
<1>30. ASSUME NEW c \in Closer, BeginClose(c) PROVE Closed' /\ CleanClose'
  <2>1. /\ UNCHANGED <<os, waiter>>
        /\ \E at \in {"exit", "stop"} : closer' = [closer EXCEPT ![c] = at]
    BY <1>30 DEF BeginClose
  <2>2. place # "new" /\ place' # "new" BY <1>30 DEF BeginClose, Closes, Unlisted
  <2>3. UNCHANGED <<inner.process, inner.procClosed, inner.exitDone, inner.failed, inner.closeDone>>
    BY <1>30 DEF BeginClose
  <2> QED BY <2>1, <2>2, <2>3
<1>31. ASSUME NEW c \in Closer, JoinClose(c) PROVE Closed' /\ CleanClose'
  <2>1. UNCHANGED <<inner, os, waiter>> /\ closer' = [closer EXCEPT ![c] = "await"]
    BY <1>31 DEF JoinClose
  <2>2. place # "new" /\ place' # "new"
    BY <1>31 DEF JoinClose, Closes, Unlisted
  <2> QED BY <2>1, <2>2
<1>32. ASSUME NEW c \in Closer, TreeStops(c) PROVE Closed' /\ CleanClose'
  BY <1>32 DEF TreeStops, CloserStep
<1>33. ASSUME NEW c \in Closer, TreeKilled(c) PROVE Closed' /\ CleanClose'
  BY <1>33, KillEnds DEF TreeKilled, CloserStep, Processes
<1>34. ASSUME NEW c \in Closer, ExitSeen(c) PROVE Closed' /\ CleanClose'
  BY <1>34 DEF ExitSeen, CloserStep
<1>35. ASSUME NEW c \in Closer, ExitTimeout(c) PROVE Closed' /\ CleanClose'
  BY <1>35 DEF ExitTimeout, CloserStep
<1>36. ASSUME NEW c \in Closer, CloseProcess(c) PROVE Closed' /\ CleanClose'
  <2>1. closer[c] = "close" /\ closer' = [closer EXCEPT ![c] = "join"]
    BY <1>36 DEF CloseProcess, CloserStep
  <2>2. UNCHANGED <<place, waiter>> /\ place # "new" BY <1>36, <2>1 DEF CloseProcess
  <2>3. CASE inner.procClosed
    <3>1. UNCHANGED <<os, inner>> BY <1>36, <2>3 DEF CloseProcess
    <3> QED BY <2>1, <2>2, <2>3, <3>1
  <2>4. CASE ~inner.procClosed
    <3>1. os' \in PtyClosed(os)
      BY <1>36, <2>4 DEF CloseProcess
    <3>2. Stopped'
      BY <3>1, KillEnds
    <3>3. PICK b : /\ inner' = [inner EXCEPT !.procClosed = TRUE, !.failed = b]
                   /\ inner.failed => b
      BY <1>36, <2>4, Zenon DEF CloseProcess
    <3>4. /\ inner'.procClosed /\ inner'.exitDone = inner.exitDone
          /\ inner.failed => inner'.failed
      BY <3>3
    <3> QED BY <2>1, <2>2, <3>2, <3>4
  <2> QED BY <2>3, <2>4
<1>37. ASSUME NEW c \in Closer, FinishClose(c) PROVE Closed' /\ CleanClose'
  <2>1. (inner.exitDone \/ inner.failed) /\ inner.procClosed
    BY <1>37 DEF FinishClose, CloserStep
  <2>2. UNCHANGED <<place, os, waiter>> BY <1>37 DEF FinishClose
  <2>3. /\ inner'.process = inner.process /\ inner'.procClosed = inner.procClosed
        /\ inner'.exitDone = inner.exitDone /\ inner'.failed = inner.failed
    BY <1>37 DEF FinishClose
  <2>4. \A d \in Closer : closer'[d] = closer[d] \/ closer'[d] = "answered"
    BY <1>37 DEF FinishClose, CloserStep
  <2>5. inner.failed \/ Stopped
    BY <2>1, <1>37 DEF FinishClose, Joined
  <2>6. place # "new"
    BY <1>37 DEF FinishClose, CloserStep
  <2>7. Closed'
    BY <2>2, <2>3, <2>4, <2>6
  <2>8. CleanClose'
    BY <2>2, <2>3, <2>5
  <2> QED BY <2>7, <2>8
<1>38. ASSUME NEW c \in Closer, CloseAnswered(c) PROVE Closed' /\ CleanClose'
  BY <1>38 DEF CloseAnswered, CloserStep
<1>39. CASE UNCHANGED vars BY <1>39 DEF vars, output, stream
<1> QED BY <1>1, <1>2, <1>3, <1>4, <1>5, <1>6, <1>7, <1>8, <1>9, <1>10, <1>11, <1>12,
    <1>13, <1>14, <1>15, <1>16, <1>17, <1>18, <1>19, <1>20, <1>21, <1>22, <1>23, <1>24,
    <1>25, <1>26, <1>27, <1>28, <1>29, <1>30, <1>31, <1>32, <1>33, <1>34, <1>35, <1>36,
    <1>37, <1>38, <1>39
  DEF Next, ReaderNext, WaiterNext, ConnNext, CloserNext

\* Every step keeps one connection to a lease.
LEMMA LeasedStep ==
  ASSUME SessionTyped, OutputTyped, ConnTyped, PaneTyped, Leased, [Next]_vars PROVE Leased'
<1> USE SessionAssumption DEF output, stream, SessionTyped, OutputTyped, ConnTyped,
        Connection, Leased, NoHold, NoConn
<1>1. CASE Start BY <1>1 DEF Start
<1>2. CASE StartFails
  <2>1. UNCHANGED <<produced, conn>> /\ place' = "failed" BY <1>2 DEF StartFails
  <2>2. UNCHANGED reader \/ \E at \in {"off", "read"} : reader' = [reader EXCEPT !.at = at]
    BY <1>2 DEF StartFails
  <2>3. reader'.hold = reader.hold /\ (reader'.at = "deliver" => reader.at = "deliver")
    BY <2>2
  <2>4. \/ inner' = [inner EXCEPT !.state = "failed"]
        \/ inner' = [inner EXCEPT !.state = "failed", !.process = TRUE, !.exitDone = TRUE,
                                  !.procClosed = TRUE]
    BY <1>2, Zenon DEF StartFails
  <2>5. CASE inner' = [inner EXCEPT !.state = "failed"] BY <2>1, <2>3, <2>5
  <2>6. CASE inner' = [inner EXCEPT !.state = "failed", !.process = TRUE, !.exitDone = TRUE,
                                    !.procClosed = TRUE]
    <3>1. UNCHANGED <<inner.lease, inner.sender, inner.attached>> BY <2>6
    <3> QED BY <2>1, <2>3, <3>1
  <2> QED BY <2>4, <2>5, <2>6
<1>3. CASE LeaderExits BY <1>3 DEF LeaderExits
<1>4. CASE JobStarts BY <1>4 DEF JobStarts
<1>5. CASE JobsExit BY <1>5 DEF JobsExit
<1>6. CASE Read BY <1>6 DEF Read
<1>7. CASE Deliver BY <1>7 DEF Deliver, Receiver
<1>8. CASE DropChunk BY <1>8 DEF DropChunk, Receiver
<1>9. CASE ReaderEnds BY <1>9 DEF ReaderEnds
<1>10. CASE ReadFails BY <1>10 DEF ReadFails
<1>11. CASE ReadKills BY <1>11 DEF ReadKills, KillOutcome, Killed
<1>12. CASE Reap BY <1>12 DEF Reap, WaiterStep
<1>13. CASE Drained BY <1>13 DEF Drained
<1>14. CASE DrainTimeout BY <1>14 DEF DrainTimeout
<1>15. CASE DrainCloses BY <1>15 DEF DrainCloses, PtyClosed, KillOutcome, Killed, WaiterStep
<1>16. CASE LateTimeout BY <1>16 DEF LateTimeout, WaiterStep
<1>17. CASE RecordExit BY <1>17 DEF RecordExit, WaiterStep
<1>18. CASE WaiterClaims BY <1>18 DEF WaiterClaims, WaiterStep
<1>19. CASE WaiterSweeps BY <1>19 DEF WaiterSweeps, PtyClosed, KillOutcome, Killed, WaiterStep
<1>20. CASE Mint BY <1>20 DEF Mint, Clamp, Oldest
<1>21. CASE Expire BY <1>21 DEF Expire
<1>22. ASSUME NEW c \in Conn, Attach(c) PROVE Leased'
  <2> DEFINE resumed == IF ticket.from > Oldest THEN ticket.from ELSE Oldest
  <2>0. resumed \in Nat /\ resumed <= produced
    BY <1>22 DEF Attach, Oldest, PaneTyped
  <2>1. conn' = [conn EXCEPT ![c] = [at |-> "open", lease |-> inner.lease + 1,
                                    next |-> resumed + 1, upto |-> produced, queue |-> 0]]
    BY <1>22, Zenon DEF Attach
  <2>2. /\ inner'.attached /\ inner'.lease = inner.lease + 1
        /\ inner'.sender \in {0, inner.lease + 1}
    BY <1>22 DEF Attach, NewSender
  <2>3. UNCHANGED <<place, reader, produced>> BY <1>22 DEF Attach
  <2>4. \A d \in Conn \ {c} : conn'[d] = conn[d]
    BY <2>1
  <2> HIDE DEF resumed
  <2>5. /\ conn'[c].at = "open" /\ conn'[c].lease = inner.lease + 1
        /\ conn'[c].next <= conn'[c].upto + 1
    BY <2>0, <2>1
  <2> QED BY <2>2, <2>3, <2>4, <2>5
<1>23. ASSUME NEW c \in Conn, SendReplay(c) PROVE Leased' BY <1>23 DEF SendReplay, Draw
<1>24. ASSUME NEW c \in Conn, SendLive(c) PROVE Leased' BY <1>24 DEF SendLive, Draw
<1>25. ASSUME NEW c \in Conn, StreamEnds(c) PROVE Leased' BY <1>25 DEF StreamEnds
<1>26. ASSUME NEW c \in Conn, Disconnect(c) PROVE Leased' BY <1>26 DEF Disconnect
<1>27. ASSUME NEW c \in Conn, Release(c) PROVE Leased' BY <1>27 DEF Release, ReleaseOutput
<1>28. ASSUME NEW c \in Conn, PaneLeaves(c) PROVE Leased' BY <1>28 DEF PaneLeaves
<1>29. ASSUME NEW c \in Closer, CloseUnstarted(c) PROVE Leased'
  <2>1. UNCHANGED <<reader, produced, conn>> /\ place' # "new"
    BY <1>29 DEF CloseUnstarted, Closes, Unlisted
  <2>2. UNCHANGED <<inner.lease, inner.sender, inner.attached>> BY <1>29 DEF CloseUnstarted
  <2> QED BY <2>1, <2>2
<1>30. ASSUME NEW c \in Closer, BeginClose(c) PROVE Leased'
  <2>1. UNCHANGED <<reader, produced, conn>> /\ place' # "new"
    BY <1>30 DEF BeginClose, Closes, Unlisted
  <2>2. UNCHANGED <<inner.lease, inner.sender, inner.attached>> BY <1>30 DEF BeginClose
  <2> QED BY <2>1, <2>2
<1>31. ASSUME NEW c \in Closer, JoinClose(c) PROVE Leased'
  <2>1. UNCHANGED <<reader, produced, conn>> /\ place' # "new"
    BY <1>31 DEF JoinClose, Closes, Unlisted
  <2>2. UNCHANGED <<inner.lease, inner.sender, inner.attached>> BY <1>31 DEF JoinClose
  <2> QED BY <2>1, <2>2
<1>32. ASSUME NEW c \in Closer, TreeStops(c) PROVE Leased' BY <1>32 DEF TreeStops, CloserStep
<1>33. ASSUME NEW c \in Closer, TreeKilled(c) PROVE Leased'
  BY <1>33 DEF TreeKilled, KillOutcome, Killed, CloserStep
<1>34. ASSUME NEW c \in Closer, ExitSeen(c) PROVE Leased' BY <1>34 DEF ExitSeen, CloserStep
<1>35. ASSUME NEW c \in Closer, ExitTimeout(c) PROVE Leased'
  BY <1>35 DEF ExitTimeout, CloserStep
<1>36. ASSUME NEW c \in Closer, CloseProcess(c) PROVE Leased'
  <2>1. UNCHANGED <<place, reader, produced, conn>> BY <1>36 DEF CloseProcess
  <2>2. CASE inner.procClosed BY <1>36, <2>1, <2>2 DEF CloseProcess
  <2>3. CASE ~inner.procClosed
    <3>1. PICK b : inner' = [inner EXCEPT !.procClosed = TRUE, !.failed = b]
      BY <1>36, <2>3, Zenon DEF CloseProcess
    <3>2. UNCHANGED <<inner.lease, inner.sender, inner.attached>> BY <3>1
    <3> QED BY <2>1, <3>2
  <2> QED BY <2>2, <2>3
<1>37. ASSUME NEW c \in Closer, FinishClose(c) PROVE Leased'
  BY <1>37 DEF FinishClose, CloserStep
<1>38. ASSUME NEW c \in Closer, CloseAnswered(c) PROVE Leased'
  BY <1>38 DEF CloseAnswered, CloserStep
<1>39. CASE UNCHANGED vars BY <1>39 DEF vars, output, stream
<1> QED BY <1>1, <1>2, <1>3, <1>4, <1>5, <1>6, <1>7, <1>8, <1>9, <1>10, <1>11, <1>12,
    <1>13, <1>14, <1>15, <1>16, <1>17, <1>18, <1>19, <1>20, <1>21, <1>22, <1>23, <1>24,
    <1>25, <1>26, <1>27, <1>28, <1>29, <1>30, <1>31, <1>32, <1>33, <1>34, <1>35, <1>36,
    <1>37, <1>38, <1>39
  DEF Next, ReaderNext, WaiterNext, ConnNext, CloserNext

\* Without stalls every step keeps the count of what is on its way to the pane: a chunk is
\* numbered when it is read, and is dropped only where nobody of this lease listens.
LEMMA ResumedStep ==
  ASSUME SessionTyped, OutputTyped, ConnTyped, PaneTyped, Leased, Resumed,
         "stall" \notin Faults, [Next]_vars PROVE Resumed'
<1> USE SessionAssumption DEF output, stream, SessionTyped, OutputTyped, ConnTyped,
        Connection, PaneTyped, Panes, Leased, Resumed, Flows, Drawn, InFlight, Holds, NoHold, NoConn
<1>1. CASE Start BY <1>1 DEF Start
<1>2. CASE StartFails BY <1>2 DEF StartFails
<1>3. CASE LeaderExits BY <1>3 DEF LeaderExits
<1>4. CASE JobStarts BY <1>4 DEF JobStarts
<1>5. CASE JobsExit BY <1>5 DEF JobsExit
<1>6. CASE Read BY <1>6 DEF Read
<1>7. CASE Deliver BY <1>7 DEF Deliver, Receiver
<1>8. CASE DropChunk BY <1>8 DEF DropChunk, Receiver
<1>9. CASE ReaderEnds BY <1>9 DEF ReaderEnds
<1>10. CASE ReadFails BY <1>10 DEF ReadFails
<1>11. CASE ReadKills BY <1>11 DEF ReadKills, KillOutcome, Killed
<1>12. CASE Reap BY <1>12 DEF Reap, WaiterStep
<1>13. CASE Drained BY <1>13 DEF Drained
<1>14. CASE DrainTimeout BY <1>14 DEF DrainTimeout
<1>15. CASE DrainCloses BY <1>15 DEF DrainCloses, PtyClosed, KillOutcome, Killed, WaiterStep
<1>16. CASE LateTimeout BY <1>16 DEF LateTimeout, WaiterStep
<1>17. CASE RecordExit BY <1>17 DEF RecordExit, WaiterStep
<1>18. CASE WaiterClaims BY <1>18 DEF WaiterClaims, WaiterStep
<1>19. CASE WaiterSweeps BY <1>19 DEF WaiterSweeps, PtyClosed, KillOutcome, Killed, WaiterStep
<1>20. CASE Mint BY <1>20 DEF Mint, Clamp, Oldest
<1>21. CASE Expire BY <1>21 DEF Expire
<1>22. ASSUME NEW c \in Conn, Attach(c) PROVE Resumed'
  <2> DEFINE resumed == IF ticket.from > Oldest THEN ticket.from ELSE Oldest
  <2>0. resumed \in Nat /\ resumed <= produced
    BY <1>22 DEF Attach, Oldest
  <2>1. conn' = [conn EXCEPT ![c] = [at |-> "open", lease |-> inner.lease + 1,
                                    next |-> resumed + 1, upto |-> produced, queue |-> 0]]
    BY <1>22, Zenon DEF Attach
  <2>2. pane' = IF resumed = ticket.from THEN [pane EXCEPT !.on = c]
                ELSE [on |-> c, count |-> resumed, last |-> resumed]
    BY <1>22, Zenon DEF Attach, Told
  <2>3. ticket'.id = 0 /\ UNCHANGED <<closing, reader, produced>>
    BY <1>22 DEF Attach
  <2>4. ticket.from = pane.count
    BY <1>22 DEF Attach
  <2> HIDE DEF resumed
  <2>5. pane'.on = c /\ pane'.count = resumed /\ (~closing => pane'.last = pane'.count)
    BY <2>0, <2>2, <2>4
  <2>6. ~Holds(c)'
    BY <2>1, <2>3
  <2>7. /\ conn'[c].next = resumed + 1 /\ conn'[c].upto = produced /\ conn'[c].queue = 0
    BY <2>1
  <2>8. Flows(c)'
    BY <2>0, <2>3, <2>5, <2>6, <2>7
  <2>9. \A d \in Conn : pane'.on = d => d = c
    BY <2>5
  <2> QED BY <2>3, <2>5, <2>8, <2>9
<1>23. ASSUME NEW c \in Conn, SendReplay(c) PROVE Resumed'
  BY <1>23, SMTT(60) DEF SendReplay, Draw
<1>24. ASSUME NEW c \in Conn, SendLive(c) PROVE Resumed' BY <1>24 DEF SendLive, Draw
<1>25. ASSUME NEW c \in Conn, StreamEnds(c) PROVE Resumed' BY <1>25 DEF StreamEnds
<1>26. ASSUME NEW c \in Conn, Disconnect(c) PROVE Resumed' BY <1>26 DEF Disconnect
<1>27. ASSUME NEW c \in Conn, Release(c) PROVE Resumed' BY <1>27 DEF Release, ReleaseOutput
<1>28. ASSUME NEW c \in Conn, PaneLeaves(c) PROVE Resumed' BY <1>28 DEF PaneLeaves
<1>29. ASSUME NEW c \in Closer, CloseUnstarted(c) PROVE Resumed'
  BY <1>29 DEF CloseUnstarted, Closes, Unlisted
<1>30. ASSUME NEW c \in Closer, BeginClose(c) PROVE Resumed'
  BY <1>30 DEF BeginClose, Closes, Unlisted
<1>31. ASSUME NEW c \in Closer, JoinClose(c) PROVE Resumed'
  BY <1>31 DEF JoinClose, Closes, Unlisted
<1>32. ASSUME NEW c \in Closer, TreeStops(c) PROVE Resumed' BY <1>32 DEF TreeStops, CloserStep
<1>33. ASSUME NEW c \in Closer, TreeKilled(c) PROVE Resumed'
  BY <1>33 DEF TreeKilled, KillOutcome, Killed, CloserStep
<1>34. ASSUME NEW c \in Closer, ExitSeen(c) PROVE Resumed' BY <1>34 DEF ExitSeen, CloserStep
<1>35. ASSUME NEW c \in Closer, ExitTimeout(c) PROVE Resumed'
  BY <1>35 DEF ExitTimeout, CloserStep
<1>36. ASSUME NEW c \in Closer, CloseProcess(c) PROVE Resumed'
  <2>1. UNCHANGED <<closing, reader, produced, conn, ticket, pane>> BY <1>36 DEF CloseProcess
  <2>2. inner'.sender = inner.sender
    <3>1. CASE inner.procClosed BY <1>36, <3>1 DEF CloseProcess
    <3>2. CASE ~inner.procClosed
      <4>1. PICK b : inner' = [inner EXCEPT !.procClosed = TRUE, !.failed = b]
        BY <1>36, <3>2, Zenon DEF CloseProcess
      <4> QED BY <4>1
    <3> QED BY <3>1, <3>2
  <2> QED BY <2>1, <2>2
<1>37. ASSUME NEW c \in Closer, FinishClose(c) PROVE Resumed'
  BY <1>37 DEF FinishClose, CloserStep
<1>38. ASSUME NEW c \in Closer, CloseAnswered(c) PROVE Resumed'
  BY <1>38 DEF CloseAnswered, CloserStep
<1>39. CASE UNCHANGED vars BY <1>39 DEF vars, output, stream
<1> QED BY <1>1, <1>2, <1>3, <1>4, <1>5, <1>6, <1>7, <1>8, <1>9, <1>10, <1>11, <1>12,
    <1>13, <1>14, <1>15, <1>16, <1>17, <1>18, <1>19, <1>20, <1>21, <1>22, <1>23, <1>24,
    <1>25, <1>26, <1>27, <1>28, <1>29, <1>30, <1>31, <1>32, <1>33, <1>34, <1>35, <1>36,
    <1>37, <1>38, <1>39
  DEF Next, ReaderNext, WaiterNext, ConnNext, CloserNext

\* Expiring looks for an attachment, and attaching for the expiry.
LEMMA ReclaimStep ==
  ASSUME SessionTyped, ReclaimFinal, [Next]_vars PROVE ReclaimFinal'
<1> USE SessionAssumption DEF output, stream, SessionTyped, ReclaimFinal
<1>1. CASE Start BY <1>1 DEF Start
<1>2. CASE StartFails
  <2>1. \/ inner' = [inner EXCEPT !.state = "failed"]
        \/ inner' = [inner EXCEPT !.state = "failed", !.process = TRUE, !.exitDone = TRUE,
                                  !.procClosed = TRUE]
    BY <1>2, Zenon DEF StartFails
  <2> QED BY <2>1
<1>3. CASE LeaderExits BY <1>3 DEF LeaderExits
<1>4. CASE JobStarts BY <1>4 DEF JobStarts
<1>5. CASE JobsExit BY <1>5 DEF JobsExit
<1>6. CASE Read BY <1>6 DEF Read
<1>7. CASE Deliver BY <1>7 DEF Deliver, Receiver
<1>8. CASE DropChunk BY <1>8 DEF DropChunk, Receiver
<1>9. CASE ReaderEnds BY <1>9 DEF ReaderEnds
<1>10. CASE ReadFails BY <1>10 DEF ReadFails
<1>11. CASE ReadKills BY <1>11 DEF ReadKills, KillOutcome, Killed
<1>12. CASE Reap BY <1>12 DEF Reap, WaiterStep
<1>13. CASE Drained BY <1>13 DEF Drained
<1>14. CASE DrainTimeout BY <1>14 DEF DrainTimeout
<1>15. CASE DrainCloses BY <1>15 DEF DrainCloses, PtyClosed, KillOutcome, Killed, WaiterStep
<1>16. CASE LateTimeout BY <1>16 DEF LateTimeout, WaiterStep
<1>17. CASE RecordExit BY <1>17 DEF RecordExit, WaiterStep
<1>18. CASE WaiterClaims BY <1>18 DEF WaiterClaims, WaiterStep
<1>19. CASE WaiterSweeps BY <1>19 DEF WaiterSweeps, PtyClosed, KillOutcome, Killed, WaiterStep
<1>20. CASE Mint BY <1>20 DEF Mint, Clamp, Oldest
<1>21. CASE Expire BY <1>21 DEF Expire
<1>22. ASSUME NEW c \in Conn, Attach(c) PROVE ReclaimFinal'
  BY <1>22 DEF Attach, MayAttach, NewSender, Told, Oldest
<1>23. ASSUME NEW c \in Conn, SendReplay(c) PROVE ReclaimFinal' BY <1>23 DEF SendReplay, Draw
<1>24. ASSUME NEW c \in Conn, SendLive(c) PROVE ReclaimFinal' BY <1>24 DEF SendLive, Draw
<1>25. ASSUME NEW c \in Conn, StreamEnds(c) PROVE ReclaimFinal' BY <1>25 DEF StreamEnds
<1>26. ASSUME NEW c \in Conn, Disconnect(c) PROVE ReclaimFinal' BY <1>26 DEF Disconnect
<1>27. ASSUME NEW c \in Conn, Release(c) PROVE ReclaimFinal'
  BY <1>27 DEF Release, ReleaseOutput
<1>28. ASSUME NEW c \in Conn, PaneLeaves(c) PROVE ReclaimFinal' BY <1>28 DEF PaneLeaves
<1>29. ASSUME NEW c \in Closer, CloseUnstarted(c) PROVE ReclaimFinal'
  BY <1>29 DEF CloseUnstarted, Closes, Unlisted
<1>30. ASSUME NEW c \in Closer, BeginClose(c) PROVE ReclaimFinal'
  BY <1>30 DEF BeginClose, Closes, Unlisted
<1>31. ASSUME NEW c \in Closer, JoinClose(c) PROVE ReclaimFinal'
  BY <1>31 DEF JoinClose, Closes, Unlisted
<1>32. ASSUME NEW c \in Closer, TreeStops(c) PROVE ReclaimFinal'
  BY <1>32 DEF TreeStops, CloserStep
<1>33. ASSUME NEW c \in Closer, TreeKilled(c) PROVE ReclaimFinal'
  BY <1>33 DEF TreeKilled, KillOutcome, Killed, CloserStep
<1>34. ASSUME NEW c \in Closer, ExitSeen(c) PROVE ReclaimFinal'
  BY <1>34 DEF ExitSeen, CloserStep
<1>35. ASSUME NEW c \in Closer, ExitTimeout(c) PROVE ReclaimFinal'
  BY <1>35 DEF ExitTimeout, CloserStep
<1>36. ASSUME NEW c \in Closer, CloseProcess(c) PROVE ReclaimFinal'
  <2>1. CASE inner.procClosed BY <1>36, <2>1 DEF CloseProcess
  <2>2. CASE ~inner.procClosed
    <3>1. PICK b : inner' = [inner EXCEPT !.procClosed = TRUE, !.failed = b]
      BY <1>36, <2>2, Zenon DEF CloseProcess
    <3> QED BY <3>1
  <2> QED BY <2>1, <2>2
<1>37. ASSUME NEW c \in Closer, FinishClose(c) PROVE ReclaimFinal'
  BY <1>37 DEF FinishClose, CloserStep
<1>38. ASSUME NEW c \in Closer, CloseAnswered(c) PROVE ReclaimFinal'
  BY <1>38 DEF CloseAnswered, CloserStep
<1>39. CASE UNCHANGED vars BY <1>39 DEF vars, output, stream
<1> QED BY <1>1, <1>2, <1>3, <1>4, <1>5, <1>6, <1>7, <1>8, <1>9, <1>10, <1>11, <1>12,
    <1>13, <1>14, <1>15, <1>16, <1>17, <1>18, <1>19, <1>20, <1>21, <1>22, <1>23, <1>24,
    <1>25, <1>26, <1>27, <1>28, <1>29, <1>30, <1>31, <1>32, <1>33, <1>34, <1>35, <1>36,
    <1>37, <1>38, <1>39
  DEF Next, ReaderNext, WaiterNext, ConnNext, CloserNext

-----------------------------------------------------------------------------
LEMMA TypedStep == ASSUME Typed, [Next]_vars PROVE Typed'
BY SessionTypedStep, OutputTypedStep, ConnTypedStep, PaneTypedStep, CloserTypedStep DEF Typed

LEMMA InitHolds ==
  Init => Typed /\ Closed /\ CleanClose /\ Leased /\ Resumed /\ ReclaimFinal
<1> SUFFICES ASSUME Init PROVE Typed /\ Closed /\ CleanClose /\ Leased /\ Resumed /\ ReclaimFinal
  OBVIOUS
<1> USE SessionAssumption DEF Init, NoHold, NoConn
<1>1. SessionTyped
  BY DEF SessionTyped
<1>2. OutputTyped
  BY DEF OutputTyped, Processes
<1>3. ConnTyped
  BY DEF ConnTyped, Connection
<1>4. PaneTyped
  BY DEF PaneTyped, Panes
<1>5. CloserTyped
  BY DEF CloserTyped
<1>6. Closed /\ CleanClose
  BY DEF Closed, Stopped, CleanClose
<1>7. Leased
  BY DEF Leased
<1>8. Resumed
  BY DEF Resumed
<1>9. ReclaimFinal
  BY DEF ReclaimFinal
<1> QED BY <1>1, <1>2, <1>3, <1>4, <1>5, <1>6, <1>7, <1>8, <1>9 DEF Typed

\* Every behaviour is of the types given above.
LEMMA AlwaysTyped == Spec => []Typed
<1>1. Init => Typed
  BY InitHolds
<1>2. Typed /\ [Next]_vars => Typed'
  BY TypedStep
<1> QED BY <1>1, <1>2, PTL DEF Spec

\* No order of losing and gaining connections, minting, attaching, expiring and closing
\* attaches a renderer to a session that was given up (reclaim_window_expiry_wins).
THEOREM ReclaimIsFinal == Spec => []ReclaimFinal
<1>1. Init => ReclaimFinal
  BY InitHolds
<1>2. Typed /\ ReclaimFinal /\ [Next]_vars => ReclaimFinal'
  BY ReclaimStep DEF Typed
<1> QED BY <1>1, <1>2, AlwaysTyped, PTL DEF Spec

\* As long as SIGKILL does what it promises, a close that reports no error leaves neither
\* the leader nor a job of it behind, for any number of closers and connections and
\* however the waiter, the reader and the closers share the work (PtyProcess::close).
THEOREM CloseIsClean == ASSUME "kill" \notin Faults PROVE Spec => []CleanClose
<1>1. Init => Closed /\ CleanClose
  BY InitHolds
<1>2. Typed /\ Closed /\ CleanClose /\ [Next]_vars => Closed' /\ CleanClose'
  BY ClosedStep DEF Typed
<1> QED BY <1>1, <1>2, AlwaysTyped, PTL DEF Spec

\* As long as the renderer takes a chunk before the delivery gives up, a pane resumes from
\* the chunk it drew last, for any length of the output, any capacity of the ring and any
\* number of lost connections (ReplayRing, deliver_output).
THEOREM OutputResumes == ASSUME "stall" \notin Faults PROVE Spec => []ResumesExactly
<1>1. Init => Leased /\ Resumed
  BY InitHolds
<1>2. Typed /\ Leased /\ Resumed /\ [Next]_vars => Leased' /\ Resumed'
  BY LeasedStep, ResumedStep DEF Typed
<1>3. Typed /\ Resumed => ResumesExactly
  BY DEF Resumed, ResumesExactly
<1> QED BY <1>1, <1>2, <1>3, AlwaysTyped, PTL DEF Spec

\* The three together: what the run checks of two connections and three chunks.
THEOREM TerminalIsSafe ==
  ASSUME "kill" \notin Faults, "stall" \notin Faults PROVE Spec => []TerminalSafe
<1>1. ReclaimFinal /\ ResumesExactly /\ CleanClose => TerminalSafe
  BY DEF TerminalSafe
<1> QED BY <1>1, ReclaimIsFinal, OutputResumes, CloseIsClean, PTL
-----------------------------------------------------------------------------
(* What terminals write back *)

\* The types.
PointedLink == [rev : Nat, at : Pointers]
MemoryDialog ==
  [for : PointedLink, kind : TextKinds, text : Texts, preview : [at : Pointers] \cup {Nil},
   request : Nat \cup {Nil}, busy : Nat \cup {Nil}]
MemoryCall ==
  [n : Nat, rev : Nat, kind : TextKinds, text : Texts, request : Nat, shown : Pointers,
   at : Pointers \cup {Nil}, pc : {"sent", "found", "done"}, answer : {"ok", "error"}]
MemoryEntry ==
  [request : Nat, rev : Nat, kind : TextKinds, text : Texts, at : Pointers, shown : Pointers]
MemTyped ==
  /\ plans \subseteq Plans /\ home \in plans \cup {0}
  /\ written \in Seq(MemoryEntry) /\ receipts \subseteq 1..Len(written)
  /\ link \in [rev : Nat, at : Pointers \cup {Nil}] /\ dialog \in MemoryDialog \cup {Nil}
  /\ calls \subseteq MemoryCall /\ identities \in Nat /\ tries \in Nat

\* What the dialog and a call know of the link is what it still is, or is known to be old.
Following ==
  /\ dialog # Nil => /\ dialog.for.rev <= link.rev
                     /\ dialog.for.rev = link.rev => dialog.for = link
                     /\ dialog.preview # Nil =>
                          /\ dialog.request # Nil
                          /\ dialog.preview.at = Target(dialog.for.at, dialog.kind)
  /\ \A c \in calls :
       /\ c.rev <= link.rev
       /\ c.rev = link.rev /\ link.at # Nil => c.shown = Target(link.at, c.kind)
       /\ c.pc = "found" => c.at = c.shown

\* A request means one place, wherever it turns up.
OnePlace ==
  /\ dialog # Nil /\ dialog.request # Nil =>
       /\ dialog.request <= identities
       /\ \A c \in calls :
            c.request = dialog.request => c.shown = Target(dialog.for.at, dialog.kind)
       /\ \A i \in DOMAIN written :
            written[i].request = dialog.request =>
              written[i].shown = Target(dialog.for.at, dialog.kind)
  /\ \A c \in calls :
       /\ c.request <= identities
       /\ \A d \in calls : c.request = d.request => c.shown = d.shown
       /\ \A i \in DOMAIN written : written[i].request = c.request => written[i].shown = c.shown
  /\ \A i \in DOMAIN written : written[i].request <= identities

\* A write without a receipt is an old one, or its place is gone and does not return.
Receipted ==
  \A i \in DOMAIN written :
    i \in receipts \/ Vanished(written[i].at) \/ Len(written) - i >= Limit

LEMMA StepMoves ==
  ASSUME NEW c, NEW d, Step(c, d)
  PROVE  \A x \in calls' : x \in calls \/ x = d
BY DEF Step

\* An entry is added behind the others.
LEMMA EntryAdded ==
  ASSUME written \in Seq(MemoryEntry), NEW e \in MemoryEntry, written' = Append(written, e)
  PROVE  /\ written' \in Seq(MemoryEntry) /\ Len(written) \in Nat
         /\ Len(written') = Len(written) + 1
         /\ DOMAIN written = 1..Len(written) /\ DOMAIN written' = 1..(Len(written) + 1)
         /\ \A i \in 1..Len(written) : written'[i] = written[i] /\ written[i] \in MemoryEntry
         /\ written'[Len(written) + 1] = e
OBVIOUS

\* A receipt makes room only for those of Limit newer writes.
LEMMA PrunedIsOld ==
  ASSUME NEW n \in Nat, NEW S \in SUBSET (1..n), NEW i \in S, i \notin Pruned(S)
  PROVE  n - i >= Limit
<1>1. IsFiniteSet((i + 1)..n) /\ Cardinality((i + 1)..n) = n - i
  BY FS_Interval, i + 1 \in Int, n \in Int, i \in 1..n
<1>2. \A j \in Newer(S, i) : j \in (i + 1)..n
  <2>1. i \in 1..n /\ \A j \in S : j \in 1..n
    OBVIOUS
  <2> QED BY <2>1 DEF Newer
<1>3. Cardinality(Newer(S, i)) <= n - i /\ Cardinality(Newer(S, i)) \in Nat
  <2>1. Newer(S, i) \in SUBSET ((i + 1)..n)
    BY <1>2
  <2> QED BY <1>1, <2>1, FS_Subset, FS_CardinalityType
<1>4. ~(Cardinality(Newer(S, i)) < Limit)
  BY DEF Pruned
<1> QED BY <1>3, <1>4, MemoryAssumption

LEMMA MemTypedStep == ASSUME MemTyped, Following, [MemNext]_memvars PROVE MemTyped'
<1> USE MemoryAssumption
<1>1. ASSUME OpenDialog PROVE MemTyped'
  <2>1. dialog' \in MemoryDialog
    BY <1>1 DEF OpenDialog, MemTyped, MemoryDialog, PointedLink
  <2> QED BY <1>1, <2>1 DEF OpenDialog, MemTyped
<1>2. ASSUME EditDialog PROVE MemTyped'
  <2>1. dialog' \in MemoryDialog
    BY <1>2 DEF EditDialog, MemTyped, MemoryDialog
  <2> QED BY <1>2, <2>1 DEF EditDialog, MemTyped
<1>3. ASSUME CloseDialog PROVE MemTyped'
  BY <1>3 DEF CloseDialog, MemTyped, UnderWay
<1>4. ASSUME Preview PROVE MemTyped'
  <2>1. dialog \in MemoryDialog /\ link.at \in Pointers /\ StableRequest \in Nat
    BY <1>4 DEF Preview, MemTyped, MemoryDialog, PointedLink, StableRequest
  <2>2. Target(link.at, dialog.kind) \in Pointers
    BY <2>1 DEF Target, Project, Pointers
  <2>3. dialog' \in MemoryDialog /\ identities' \in Nat
    BY <1>4, <2>1, <2>2 DEF Preview, MemTyped, MemoryDialog
  <2> QED BY <1>4, <2>3 DEF Preview, MemTyped
<1>5. ASSUME AskWrite PROVE MemTyped'
  <2>1. dialog \in MemoryDialog /\ dialog.preview \in [at : Pointers] /\ dialog.request \in Nat
    BY <1>5 DEF AskWrite, MemTyped, MemoryDialog, Following
  <2>2. Asks \in MemoryCall
    BY <2>1 DEF Asks, MemoryCall, MemoryDialog, MemTyped, PointedLink
  <2>3. dialog' \in MemoryDialog /\ tries' \in Nat
    BY <1>5, <2>1 DEF AskWrite, MemTyped, MemoryDialog
  <2> QED BY <1>5, <2>2, <2>3 DEF AskWrite, MemTyped
<1>6. ASSUME TransportFails PROVE MemTyped'
  <2>1. dialog' \in MemoryDialog
    BY <1>6 DEF TransportFails, MemTyped, MemoryDialog
  <2> QED BY <1>6, <2>1 DEF TransportFails, MemTyped, UnderWay
<1>7. ASSUME Associate PROVE MemTyped'
  <2>1. link' \in [rev : Nat, at : Pointers \cup {Nil}]
    BY <1>7 DEF Associate, MemTyped
  <2> QED BY <1>7, <2>1 DEF Associate, MemTyped
<1>8. ASSUME MoveTask PROVE MemTyped'
  BY <1>8 DEF MoveTask, MemTyped
<1>9. ASSUME DeletePlan PROVE MemTyped'
  BY <1>9 DEF DeletePlan, MemTyped
<1>10. ASSUME NEW c \in calls, FindsTarget(c) PROVE MemTyped'
  <2>1. c \in MemoryCall
    BY DEF MemTyped
  <2>2. Refused(c) \in MemoryCall
    BY <2>1 DEF Refused, MemoryCall
  <2>3. CASE link.rev = c.rev /\ link.at # Nil /\ Exists(link.at)
    <3>1. Target(link.at, c.kind) \in Pointers
      BY <2>3 DEF Target, Project, Pointers, MemTyped
    <3>2. [c EXCEPT !.at = Target(link.at, c.kind), !.pc = "found"] \in MemoryCall
      BY <2>1, <3>1 DEF MemoryCall
    <3>3. calls' \subseteq MemoryCall
      BY <1>10, <2>3, <3>2, StepMoves DEF FindsTarget, Step, MemTyped
    <3> QED BY <1>10, <3>3 DEF FindsTarget, MemTyped
  <2>4. CASE ~(link.rev = c.rev /\ link.at # Nil /\ Exists(link.at))
    <3>1. calls' \subseteq MemoryCall
      BY <1>10, <2>2, <2>4 DEF FindsTarget, Step, MemTyped
    <3> QED BY <1>10, <3>1 DEF FindsTarget, MemTyped
  <2> QED BY <2>3, <2>4
<1>11. ASSUME NEW c \in calls, WriteMemory(c) PROVE MemTyped'
  <2>1. c \in MemoryCall /\ c.pc = "found" /\ c.at \in Pointers
    BY <1>11 DEF MemTyped, WriteMemory, Following, MemoryCall
  <2>2. Refused(c) \in MemoryCall /\ [c EXCEPT !.pc = "done"] \in MemoryCall
    BY <2>1 DEF Refused, MemoryCall
  <2>3. calls' \subseteq MemoryCall
    BY <1>11, <2>2 DEF WriteMemory, Replay, WriteNew, Step, MemTyped
  <2>4. CASE UNCHANGED <<written, receipts>>
    BY <1>11, <2>3, <2>4 DEF WriteMemory, MemTyped
  <2>5. CASE /\ written' = Append(written, Entry(c))
             /\ receipts' = Pruned(receipts \cup {Len(written')})
    <3>1. Entry(c) \in MemoryEntry
      BY <2>1 DEF Entry, MemoryEntry, MemoryCall
    <3>2. written' \in Seq(MemoryEntry) /\ Len(written) \in Nat /\ Len(written') = Len(written) + 1
      BY <2>5, <3>1, EntryAdded DEF MemTyped
    <3>3. receipts' \subseteq 1..Len(written')
      <4>1. \A i \in receipts' : i \in receipts \/ i = Len(written')
        BY <2>5 DEF Pruned
      <4>2. Len(written) \in Nat /\ Len(written') = Len(written) + 1
        BY <3>2
      <4>3. receipts \subseteq 1..Len(written)
        BY DEF MemTyped
      <4>4. \A i \in receipts : i \in 1..Len(written')
        BY <4>2, <4>3
      <4>5. Len(written') \in 1..Len(written')
        BY <4>2
      <4> QED BY <4>1, <4>4, <4>5
    <3> QED BY <1>11, <2>3, <3>2, <3>3 DEF WriteMemory, MemTyped
  <2> QED BY <1>11, <2>4, <2>5 DEF WriteMemory, Replay, WriteNew
<1>12. ASSUME NEW c \in calls, Reply(c) PROVE MemTyped'
  <2>1. dialog' \in MemoryDialog \cup {Nil}
    BY <1>12 DEF Reply, Awaited, MemTyped, MemoryDialog
  <2> QED BY <1>12, <2>1 DEF Reply, MemTyped
<1>13. CASE UNCHANGED memvars
  BY <1>13 DEF memvars, MemTyped
<1> QED BY <1>1, <1>2, <1>3, <1>4, <1>5, <1>6, <1>7, <1>8, <1>9, <1>10, <1>11, <1>12, <1>13
  DEF MemNext, Handle

LEMMA FollowingStep == ASSUME MemTyped, Following, [MemNext]_memvars PROVE Following'
<1> USE MemoryAssumption
<1>a. /\ dialog # Nil => dialog \in MemoryDialog
      /\ \A c \in calls : c \in MemoryCall
  BY DEF MemTyped
<1>1. ASSUME OpenDialog PROVE Following'
  BY <1>1 DEF OpenDialog, Following, MemTyped, Target
<1>2. ASSUME EditDialog PROVE Following'
  BY <1>2, <1>a DEF EditDialog, Following, MemTyped, Target, MemoryDialog
<1>3. ASSUME CloseDialog PROVE Following'
  BY <1>3 DEF CloseDialog, Following, UnderWay, Target
<1>4. ASSUME Preview PROVE Following'
  <2>1. StableRequest # Nil
    BY <1>4 DEF Preview, StableRequest, MemTyped
  <2>2. /\ dialog'.for = dialog.for /\ dialog'.kind = dialog.kind
        /\ dialog'.preview.at = Target(dialog.for.at, dialog.kind)
        /\ dialog'.request = StableRequest
    BY <1>4, <1>a DEF Preview, MemoryDialog
  <2> QED BY <1>4, <2>1, <2>2 DEF Preview, Following, Target
<1>5. ASSUME AskWrite PROVE Following'
  <2>1. /\ dialog'.for = dialog.for /\ dialog'.kind = dialog.kind
        /\ dialog'.preview = dialog.preview /\ dialog'.request = dialog.request
    BY <1>5, <1>a DEF AskWrite, MemoryDialog
  <2>2. /\ Asks.rev = link.rev /\ Asks.pc = "sent" /\ Asks.kind = dialog.kind
        /\ Asks.shown = Target(link.at, dialog.kind)
    BY <1>5, <1>a DEF AskWrite, Asks, MemoryDialog, Following
  <2>3. \A c \in calls' : c \in calls \/ c = Asks
    BY <1>5 DEF AskWrite
  <2>4. link.rev \in Nat
    BY DEF MemTyped
  <2> QED BY <1>5, <2>1, <2>2, <2>3, <2>4 DEF AskWrite, Following, Target
<1>6. ASSUME TransportFails PROVE Following'
  BY <1>6, <1>a DEF TransportFails, Following, UnderWay, Target, MemoryDialog
<1>7. ASSUME Associate PROVE Following'
  <2>1. link'.rev = link.rev + 1 /\ link.rev \in Nat
    BY <1>7 DEF Associate, MemTyped
  <2>2. /\ dialog # Nil => dialog.for.rev \in Nat
        /\ \A c \in calls : c.rev \in Nat
    BY <1>a DEF MemoryDialog, PointedLink, MemoryCall
  <2> QED BY <1>7, <2>1, <2>2 DEF Associate, Following, Target
<1>8. ASSUME MoveTask \/ DeletePlan PROVE Following'
  BY <1>8 DEF MoveTask, DeletePlan, Following, Target
<1>9. ASSUME NEW c \in calls, NEW d, Step(c, d), d.rev = c.rev, d.shown = c.shown,
             d.kind = c.kind, d.pc = "found" => d.at = d.shown, UNCHANGED <<link, dialog>>
      PROVE  Following'
  BY <1>9, StepMoves DEF Following, Target
<1>10. ASSUME NEW c \in calls, FindsTarget(c) PROVE Following'
  <2>1. CASE link.rev = c.rev /\ link.at # Nil /\ Exists(link.at)
    <3> DEFINE d == [c EXCEPT !.at = Target(link.at, c.kind), !.pc = "found"]
    <3>1. d.rev = c.rev /\ d.shown = c.shown /\ d.kind = c.kind /\ d.at = Target(link.at, c.kind)
      BY <1>a DEF MemoryCall
    <3>2. d.at = d.shown
      BY <2>1, <3>1 DEF Following
    <3>3. Step(c, d) /\ UNCHANGED <<link, dialog>>
      BY <1>10, <2>1 DEF FindsTarget
    <3> QED BY <1>9, <3>1, <3>2, <3>3
  <2>2. CASE ~(link.rev = c.rev /\ link.at # Nil /\ Exists(link.at))
    <3>1. /\ Refused(c).rev = c.rev /\ Refused(c).shown = c.shown /\ Refused(c).kind = c.kind
          /\ Refused(c).pc = "done"
      BY <1>a DEF MemoryCall, Refused
    <3>2. Step(c, Refused(c)) /\ UNCHANGED <<link, dialog>>
      BY <1>10, <2>2 DEF FindsTarget
    <3> QED BY <1>9, <3>1, <3>2
  <2> QED BY <2>1, <2>2
<1>11. ASSUME NEW c \in calls, WriteMemory(c) PROVE Following'
  <2>1. PICK d \in {Refused(c), [c EXCEPT !.pc = "done"]} : Step(c, d)
    BY <1>11 DEF WriteMemory, Replay, WriteNew
  <2>2. d.rev = c.rev /\ d.shown = c.shown /\ d.kind = c.kind /\ d.pc = "done"
    BY <1>a DEF MemoryCall, Refused
  <2> QED BY <1>9, <1>11, <2>1, <2>2 DEF WriteMemory
<1>12. ASSUME NEW c \in calls, Reply(c) PROVE Following'
  <2>1. dialog # Nil /\ dialog \in MemoryDialog
    BY <1>12, <1>a DEF Reply, Awaited
  <2>2. dialog' = Nil \/ dialog' = [dialog EXCEPT !.busy = Nil]
    BY <1>12 DEF Reply
  <2>3. dialog' # Nil =>
          /\ dialog'.for = dialog.for /\ dialog'.kind = dialog.kind
          /\ dialog'.preview = dialog.preview /\ dialog'.request = dialog.request
    BY <2>1, <2>2 DEF MemoryDialog
  <2> QED BY <1>12, <2>1, <2>3 DEF Reply, Following, Target
<1>13. CASE UNCHANGED memvars
  BY <1>13 DEF memvars, Following, Target
<1> QED BY <1>1, <1>2, <1>3, <1>4, <1>5, <1>6, <1>7, <1>8, <1>10, <1>11, <1>12, <1>13
  DEF MemNext, Handle

\* What a step keeps of the calls, when it replaces one of them.
SamePlaces ==
  \A x \in calls' : \E c \in calls : x.request = c.request /\ x.shown = c.shown
LEMMA StepSame ==
  ASSUME MemTyped, NEW c \in calls, FindsTarget(c) \/ WriteMemory(c) \/ Reply(c)
  PROVE  SamePlaces
<1>1. c \in MemoryCall
  BY DEF MemTyped
<1>2. ASSUME NEW d, Step(c, d), d.request = c.request, d.shown = c.shown PROVE SamePlaces
  BY <1>2, StepMoves DEF SamePlaces
<1>3. /\ Refused(c).request = c.request /\ Refused(c).shown = c.shown
      /\ [c EXCEPT !.pc = "done"].request = c.request /\ [c EXCEPT !.pc = "done"].shown = c.shown
  BY <1>1 DEF Refused, MemoryCall
<1>4. CASE FindsTarget(c)
  <2> DEFINE d == [c EXCEPT !.at = Target(link.at, c.kind), !.pc = "found"]
  <2>1. d.request = c.request /\ d.shown = c.shown
    BY <1>1 DEF MemoryCall
  <2>2. Step(c, d) \/ Step(c, Refused(c))
    BY <1>4 DEF FindsTarget
  <2> QED BY <1>2, <1>3, <2>1, <2>2
<1>5. CASE WriteMemory(c)
  <2>1. Step(c, [c EXCEPT !.pc = "done"]) \/ Step(c, Refused(c))
    BY <1>5 DEF WriteMemory, Replay, WriteNew
  <2> QED BY <1>2, <1>3, <2>1
<1>6. CASE Reply(c)
  BY <1>6 DEF Reply, SamePlaces
<1> QED BY <1>4, <1>5, <1>6

\* The request and the place of the dialog, as far as others can have them.
LEMMA OnePlaceStep == ASSUME MemTyped, Following, OnePlace, [MemNext]_memvars PROVE OnePlace'
<1> USE MemoryAssumption
<1>a. /\ dialog # Nil => dialog \in MemoryDialog
      /\ \A c \in calls : c \in MemoryCall
  BY DEF MemTyped
<1>b. identities \in Nat /\ DOMAIN written = 1..Len(written) /\ Len(written) \in Nat
      /\ \A i \in DOMAIN written : written[i] \in MemoryEntry
  BY DEF MemTyped
<1>1. ASSUME OpenDialog PROVE OnePlace'
  BY <1>1 DEF OpenDialog, OnePlace
<1>2. ASSUME EditDialog PROVE OnePlace'
  <2>1. dialog'.request = Nil
    BY <1>2, <1>a DEF EditDialog, MemoryDialog
  <2> QED BY <1>2, <2>1 DEF EditDialog, OnePlace
<1>3. ASSUME CloseDialog PROVE OnePlace'
  BY <1>3 DEF CloseDialog, OnePlace, UnderWay
<1>4. ASSUME Preview PROVE OnePlace'
  <2>1. /\ dialog # Nil /\ dialog'.for = dialog.for /\ dialog'.kind = dialog.kind
        /\ dialog'.request = StableRequest /\ UNCHANGED <<written, calls>>
        /\ Target(dialog.for.at, dialog.kind)' = Target(dialog.for.at, dialog.kind)
    BY <1>4, <1>a DEF Preview, MemoryDialog, Target
  <2>2. CASE dialog.request = Nil
    <3>1. StableRequest = identities + 1 /\ identities' = identities + 1
      BY <1>4, <2>2, <1>b DEF Preview, StableRequest
    <3>2. /\ \A c \in calls : c.request \in Nat /\ c.request <= identities
          /\ \A i \in DOMAIN written :
               written[i].request \in Nat /\ written[i].request <= identities
      BY <1>a, <1>b DEF OnePlace, MemoryCall, MemoryEntry
    <3>3. /\ \A c \in calls : c.request # dialog'.request
          /\ \A i \in DOMAIN written : written[i].request # dialog'.request
      BY <2>1, <3>1, <3>2, <1>b
    <3> QED BY <2>1, <3>1, <3>2, <3>3, <1>b DEF OnePlace
  <2>3. CASE dialog.request # Nil
    <3>1. StableRequest = dialog.request /\ identities' = identities
      BY <1>4, <2>1, <2>3, <1>a, <1>b DEF Preview, StableRequest, OnePlace, MemoryDialog
    <3> QED BY <2>1, <2>3, <3>1 DEF OnePlace
  <2> QED BY <2>2, <2>3
<1>5. ASSUME AskWrite PROVE OnePlace'
  <2>1. /\ dialog # Nil /\ dialog'.for = dialog.for /\ dialog'.kind = dialog.kind
        /\ dialog'.request = dialog.request /\ dialog.request # Nil
        /\ UNCHANGED <<written, identities>>
    BY <1>5, <1>a DEF AskWrite, MemoryDialog, Following
  <2>2. Asks.request = dialog.request /\ Asks.shown = Target(dialog.for.at, dialog.kind)
    BY <1>5 DEF AskWrite, Asks, Following
  <2>3. \A c \in calls' : c \in calls \/ c = Asks
    BY <1>5 DEF AskWrite
  <2>4. Target(dialog.for.at, dialog.kind)' = Target(dialog.for.at, dialog.kind)
    BY <2>1 DEF Target
  <2> QED BY <2>1, <2>2, <2>3, <2>4 DEF OnePlace
<1>6. ASSUME TransportFails PROVE OnePlace'
  <2>1. /\ dialog # Nil /\ dialog'.for = dialog.for /\ dialog'.kind = dialog.kind
        /\ dialog'.request = dialog.request /\ UNCHANGED <<written, identities>>
        /\ calls' \subseteq calls
    BY <1>6, <1>a DEF TransportFails, UnderWay, MemoryDialog
  <2> QED BY <2>1 DEF OnePlace, Target
<1>7. ASSUME Associate \/ MoveTask \/ DeletePlan PROVE OnePlace'
  BY <1>7 DEF Associate, MoveTask, DeletePlan, OnePlace, Target
<1>8. ASSUME NEW c \in calls, FindsTarget(c) PROVE OnePlace'
  <2>1. SamePlaces /\ UNCHANGED <<dialog, written, identities>>
    BY <1>8, StepSame DEF FindsTarget
  <2> QED BY <2>1 DEF SamePlaces, OnePlace, Target
<1>9. ASSUME NEW c \in calls, WriteMemory(c) PROVE OnePlace'
  <2>1. SamePlaces /\ UNCHANGED <<dialog, identities>>
    BY <1>9, StepSame DEF WriteMemory
  <2>2. CASE UNCHANGED written
    BY <2>1, <2>2 DEF SamePlaces, OnePlace, Target
  <2>3. CASE written' = Append(written, Entry(c))
    <3>1. Entry(c) \in MemoryEntry
      BY <1>9, <1>a DEF Entry, MemoryEntry, MemoryCall, WriteMemory, Following
    <3>2. \A i \in DOMAIN written' :
            (i \in DOMAIN written /\ written'[i] = written[i]) \/ written'[i] = Entry(c)
      BY <2>3, <3>1, EntryAdded DEF MemTyped
    <3>3. Entry(c).request = c.request /\ Entry(c).shown = c.shown
      BY DEF Entry
    <3> QED BY <2>1, <3>2, <3>3 DEF SamePlaces, OnePlace, Target
  <2> QED BY <1>9, <2>2, <2>3 DEF WriteMemory, Replay, WriteNew
<1>10. ASSUME NEW c \in calls, Reply(c) PROVE OnePlace'
  <2>1. SamePlaces /\ UNCHANGED <<written, identities>>
    BY <1>10, StepSame DEF Reply
  <2>2. /\ dialog # Nil /\ dialog \in MemoryDialog
        /\ dialog' = Nil \/ dialog' = [dialog EXCEPT !.busy = Nil]
    BY <1>10, <1>a DEF Reply, Awaited
  <2>3. dialog' # Nil => /\ dialog'.for = dialog.for /\ dialog'.kind = dialog.kind
                         /\ dialog'.request = dialog.request
    BY <2>2 DEF MemoryDialog
  <2> QED BY <2>1, <2>2, <2>3 DEF SamePlaces, OnePlace, Target
<1>11. CASE UNCHANGED memvars
  BY <1>11 DEF memvars, OnePlace, Target
<1> QED BY <1>1, <1>2, <1>3, <1>4, <1>5, <1>6, <1>7, <1>8, <1>9, <1>10, <1>11 DEF MemNext, Handle

\* A place that is gone does not return, and no write goes there.
LEMMA VanishedStays ==
  ASSUME MemTyped, [MemNext]_memvars, NEW at \in Pointers, Vanished(at)
  PROVE  Vanished(at)'
<1>1. home = 0 => home' = 0
  BY DEF MemNext, OpenDialog, EditDialog, CloseDialog, Preview, AskWrite, TransportFails, Associate,
    MoveTask, DeletePlan, Handle, FindsTarget, WriteMemory, Reply, memvars
<1>2. plans' \subseteq plans
  BY DEF MemNext, OpenDialog, EditDialog, CloseDialog, Preview, AskWrite, TransportFails, Associate,
    MoveTask, DeletePlan, Handle, FindsTarget, WriteMemory, Reply, memvars
<1> QED BY <1>1, <1>2 DEF Vanished

LEMMA VanishedIsRefused ==
  ASSUME MemTyped, NEW at \in Pointers, Vanished(at) PROVE ~Exists(at)
BY MemoryAssumption DEF MemTyped, Vanished, Exists, Pointers

LEMMA ReceiptedStep ==
  ASSUME MemTyped, Following, OnePlace, Receipted, MemorySafe, [MemNext]_memvars
  PROVE  Receipted' /\ MemorySafe'
<1> USE MemoryAssumption
<1>a. /\ Len(written) \in Nat /\ DOMAIN written = 1..Len(written)
      /\ receipts \subseteq 1..Len(written)
      /\ \A i \in DOMAIN written : written[i] \in MemoryEntry /\ written[i].at \in Pointers
  <2>1. /\ Len(written) \in Nat /\ DOMAIN written = 1..Len(written)
        /\ receipts \subseteq 1..Len(written)
    BY DEF MemTyped
  <2>2. \A i \in DOMAIN written : written[i] \in MemoryEntry
    BY DEF MemTyped
  <2> QED BY <2>1, <2>2 DEF MemoryEntry
<1>1. ASSUME UNCHANGED <<written, receipts>>, ~DeletePlan PROVE Receipted' /\ MemorySafe'
  <2>1. Receipted'
    BY <1>1, <1>a, VanishedStays DEF Receipted
  <2>2. WrittenOnce' /\ AsPreviewed'
    BY <1>1 DEF MemorySafe, WrittenOnce, AsPreviewed
  <2>3. plans' = plans /\ (home' = home \/ home' # 0)
    BY <1>1 DEF MemNext, OpenDialog, EditDialog, CloseDialog, Preview, AskWrite, TransportFails,
      Associate, MoveTask, Handle, FindsTarget, WriteMemory, Reply, memvars, MemTyped
  <2>4. Answerable'
    BY <1>1, <2>3 DEF MemorySafe, Answerable, Vanished
  <2> QED BY <2>1, <2>2, <2>4 DEF MemorySafe
<1>2. ASSUME DeletePlan PROVE Receipted' /\ MemorySafe'
  <2>1. PICK p \in plans : /\ plans' = plans \ {p} /\ home' = IF home = p THEN 0 ELSE home
                           /\ receipts' = {i \in receipts : ~Lost(written[i].at, p)}
    BY <1>2 DEF DeletePlan
  <2>2. written' = written
    BY <1>2 DEF DeletePlan
  <2>3. ASSUME NEW i \in receipts, Lost(written[i].at, p) PROVE Vanished(written[i].at)'
    <3>1. p # 0
      BY DEF MemTyped
    <3> QED BY <2>1, <2>2, <2>3, <3>1 DEF Lost, Vanished
  <2>4. Receipted'
    BY <2>1, <2>2, <2>3, <1>a, VanishedStays DEF Receipted
  <2>5. Answerable'
    <3> SUFFICES ASSUME NEW i \in receipts, ~Lost(written[i].at, p), Vanished(written[i].at)'
                 PROVE  FALSE
      BY <2>1 DEF Answerable
    <3>1. ~Vanished(written[i].at)
      BY DEF MemorySafe, Answerable
    <3> QED BY <2>1, <2>2, <3>1 DEF Lost, Vanished
  <2>6. WrittenOnce' /\ AsPreviewed'
    BY <2>2 DEF MemorySafe, WrittenOnce, AsPreviewed
  <2> QED BY <2>4, <2>5, <2>6 DEF MemorySafe
<1>3. ASSUME NEW c \in calls, WriteMemory(c), ~UNCHANGED <<written, receipts>>
      PROVE  Receipted' /\ MemorySafe'
  <2> DEFINE n == Len(written)
  <2>1. /\ Receipts(c) = {} /\ Exists(c.at) /\ written' = Append(written, Entry(c))
        /\ receipts' = Pruned(receipts \cup {Len(written')})
    BY <1>3 DEF WriteMemory, Replay, WriteNew
  <2>2. c \in MemoryCall /\ c.pc = "found" /\ c.at = c.shown /\ c.at \in Pointers
    BY <1>3 DEF WriteMemory, Following, MemTyped, MemoryCall
  <2>3. Entry(c) \in MemoryEntry
    BY <2>2 DEF Entry, MemoryEntry, MemoryCall
  <2>4. /\ n \in Nat /\ Len(written') = n + 1
        /\ DOMAIN written = 1..n /\ DOMAIN written' = 1..(n + 1)
        /\ \A i \in 1..n : written'[i] = written[i]
        /\ written'[n + 1] = Entry(c)
    BY <2>1, <2>3, EntryAdded DEF MemTyped
  <2>5. ASSUME NEW i \in 1..n, written[i].request = c.request PROVE n - i >= Limit
    <3>1. i \notin receipts
      BY <2>1, <2>5 DEF Receipts
    <3>2. written[i].at = c.at
      BY <2>2, <2>4, <2>5 DEF OnePlace, MemorySafe, AsPreviewed
    <3>3. ~Vanished(c.at)
      BY <2>1, <2>2, VanishedIsRefused
    <3> QED BY <2>4, <3>1, <3>2, <3>3 DEF Receipted
  <2>6. WrittenOnce'
    <3> SUFFICES ASSUME NEW i \in 1..(n + 1), NEW j \in 1..(n + 1), i < j,
                        written'[i].request = written'[j].request
                 PROVE  j - i > Limit
      BY <2>4 DEF WrittenOnce
    <3>1. i \in 1..n
      BY <2>4
    <3>2. CASE j \in 1..n
      BY <2>4, <3>1, <3>2 DEF MemorySafe, WrittenOnce
    <3>3. CASE j = n + 1
      <4>1. written[i].request = c.request
        BY <2>4, <3>1, <3>3 DEF Entry
      <4> QED BY <2>4, <2>5, <3>1, <3>3, <4>1
    <3> QED BY <2>4, <3>2, <3>3
  <2>7. AsPreviewed'
    <3>1. Entry(c).at = Entry(c).shown
      BY <2>2 DEF Entry
    <3>2. \A i \in 1..n : written[i].at = written[i].shown
      BY <2>4 DEF MemorySafe, AsPreviewed
    <3> QED BY <2>4, <3>1, <3>2 DEF AsPreviewed
  <2>8. Receipted'
    <3> SUFFICES ASSUME NEW i \in 1..(n + 1)
                 PROVE  i \in receipts' \/ Vanished(written[i].at)' \/ n + 1 - i >= Limit
      BY <2>4 DEF Receipted
    <3>1. CASE i \in receipts \cup {n + 1}
      <4>1. receipts \cup {n + 1} \in SUBSET (1..(n + 1))
        <5>1. \A x \in receipts : x \in 1..n
          BY <1>a
        <5>2. \A x \in receipts \cup {n + 1} : x \in 1..(n + 1)
          BY <2>4, <5>1
        <5> QED BY <5>2
      <4>2. i \notin receipts' => i \notin Pruned(receipts \cup {n + 1})
        BY <2>1, <2>4
      <4>3. n + 1 \in Nat
        BY <2>4
      <4>4. i \notin receipts' => n + 1 - i >= Limit
        BY <3>1, <4>1, <4>2, <4>3, PrunedIsOld
      <4> QED BY <4>4
    <3>2. CASE i \notin receipts \cup {n + 1}
      <4>1. i \in 1..n /\ (Vanished(written[i].at) \/ n - i >= Limit)
        BY <2>4, <3>2 DEF Receipted
      <4>2. written'[i].at = written[i].at /\ home' = home /\ plans' = plans
        BY <1>3, <2>4, <4>1 DEF WriteMemory
      <4>3. Vanished(written[i].at) => Vanished(written[i].at)'
        BY <4>2 DEF Vanished
      <4> QED BY <2>4, <4>1, <4>3
    <3> QED BY <3>1, <3>2
  <2>9. Answerable'
    <3> SUFFICES ASSUME NEW i \in receipts' PROVE ~Vanished(written[i].at)'
      BY DEF Answerable
    <3>1. UNCHANGED <<plans, home>>
      BY <1>3 DEF WriteMemory
    <3>2. i \in receipts \/ i = n + 1
      BY <2>1, <2>4 DEF Pruned
    <3>3. CASE i \in receipts
      <4>1. i \in 1..n /\ ~Vanished(written[i].at)
        BY <1>a, <3>3 DEF MemorySafe, Answerable
      <4>2. written'[i].at = written[i].at
        BY <2>4, <4>1
      <4> QED BY <3>1, <4>1, <4>2 DEF Vanished
    <3>4. CASE i = n + 1
      <4>1. written'[i].at = c.at /\ ~Vanished(c.at)
        BY <2>1, <2>2, <2>4, <3>4, VanishedIsRefused DEF Entry
      <4> QED BY <3>1, <4>1 DEF Vanished
    <3> QED BY <3>2, <3>3, <3>4
  <2> QED BY <2>6, <2>7, <2>8, <2>9 DEF MemorySafe
<1> QED BY <1>1, <1>2, <1>3 DEF MemNext, OpenDialog, EditDialog, CloseDialog, Preview, AskWrite,
  TransportFails, Associate, MoveTask, Handle, FindsTarget, Reply, memvars

\* However often a call fails on the way and is tried again, however many tries are under
\* way, whatever the user links, edits and deletes meanwhile: a text is written once while
\* its receipt is kept, and where the user was shown, and no receipt outlives its note
\* (write_memory, delete_plan_inner, writeback-controller.ts).
THEOREM MemoryIsSafe == MemSpec => []MemorySafe
<1> DEFINE MemInv == MemTyped /\ Following /\ OnePlace /\ Receipted /\ MemorySafe
<1>1. MemInit => MemInv
  <2> SUFFICES ASSUME MemInit PROVE MemInv
    OBVIOUS
  <2>1. written = <<>> /\ DOMAIN written = {}
    BY DEF MemInit
  <2>2. MemTyped
    BY MemoryAssumption DEF MemInit, MemTyped, Pointers
  <2> QED BY <2>1, <2>2 DEF MemInit, Following, OnePlace, Receipted, MemorySafe,
    WrittenOnce, AsPreviewed, Answerable
<1>2. MemInv /\ [MemNext]_memvars => MemInv'
  BY MemTypedStep, FollowingStep, OnePlaceStep, ReceiptedStep
<1> QED BY <1>1, <1>2, PTL DEF MemSpec
=============================================================================
