----------------------------- MODULE GitRunner -----------------------------
(***************************************************************************)
(* How one git command is run (crates/ptrack-git/src/runner.rs): a child   *)
(* in a process group of its own, two threads that read its pipes into one *)
(* bounded buffer, a caller that polls for cancellation, the output limit  *)
(* and the timeout, and a counter that bounds the reader threads of the    *)
(* whole process.  A process the command started may hold the pipes after  *)
(* the leader is gone, in the group or outside of its reach.               *)
(***************************************************************************)
EXTENDS Integers, FiniteSets

CONSTANTS Commands,    \* calls of Runner::output
          ReaderLimit, \* MAX_READER_THREADS
          OutputLimit, \* max_output_bytes, in reads
          MaxReads     \* bounds what one command writes to a pipe

ASSUME RunnerBounds == ReaderLimit \in Nat /\ OutputLimit \in Nat

VARIABLES cmd,         \* the calls, with what each one started
          active       \* ACTIVE_READER_THREADS

gitvars == <<cmd, active>>

Pipe == {"stdout", "stderr"}

\* A pipe: its reader thread, whether the reader's permit is released, and the reads
\* that were taken from it.
NoPipe == [reader |-> "none", released |-> TRUE, reads |-> 0]

NoCommand == [pc |-> "idle", cancelled |-> FALSE, child |-> "none", exit |-> "none",
              kid |-> "none", pipe |-> [p \in Pipe |-> NoPipe], remaining |-> OutputLimit,
              exceeded |-> FALSE, kept |-> 0, ended |-> "none", drained |-> FALSE,
              result |-> "none"]

GitInit == cmd = [c \in Commands |-> NoCommand] /\ active = 0
-----------------------------------------------------------------------------
Set(c, v) == cmd' = [cmd EXCEPT ![c] = v]

\* The call returns; an error says nothing of what was read.
Finish(v, r) ==
  IF r = "ok" THEN [v EXCEPT !.pc = "done", !.result = r]
  ELSE [NoCommand EXCEPT !.pc = "done", !.result = r, !.child = v.child, !.kid = v.kid,
                         !.pipe = [p \in Pipe |-> [v.pipe[p] EXCEPT !.reads = 0]]]

\* kill_and_reap: the whole group is signalled while the leader is unreaped, so its
\* id cannot name a stranger, and then the leader is waited for.
Killed(v) == [v EXCEPT !.child = "reaped", !.exit = IF v.child = "running" THEN "killed" ELSE @,
                       !.kid = IF @ = "group" THEN "none" ELSE @]

\* A permit gives its place back once, by its thread or by the caller's slot.
Release(v, ps) == [v EXCEPT !.pipe = [p \in Pipe |-> [v.pipe[p] EXCEPT !.released = @ \/ p \in ps]]]
\* Faulty variant: a place is taken back although its permit was.
HeldAll(v, ps) == Cardinality(ps)
Held(v, ps) == Cardinality({p \in ps : ~v.pipe[p].released})

Holding(v) == v.child = "running" \/ v.kid # "none"

\* Runner::output, up to the spawn of the child.
SpawnChild(c) ==
  LET v == cmd[c] IN
  /\ v.pc = "idle" /\ UNCHANGED active
  /\ \/ v.cancelled /\ Set(c, Finish(v, "cancelled"))
     \/ ~v.cancelled /\ Set(c, Finish(v, "failed"))
     \/ /\ ~v.cancelled
        /\ \E kid \in {"none", "group", "away"} :
             Set(c, [v EXCEPT !.pc = "spawned", !.child = "running", !.kid = kid])

\* Two permits or none.
Acquire(c) ==
  LET v == cmd[c] IN
  /\ v.pc = "spawned"
  /\ IF active + 2 > ReaderLimit
     THEN Set(c, Finish(Killed(v), "failed")) /\ UNCHANGED active
     ELSE /\ active' = active + 2
          /\ Set(c, [v EXCEPT !.pc = "permitted",
                              !.pipe = [p \in Pipe |-> [@[p] EXCEPT !.released = FALSE]]])

\* spawn_reader: a thread that cannot be started drops its permit.
StartOut(c) ==
  LET v == cmd[c] IN
  /\ v.pc = "permitted" /\ v.pipe["stdout"].reader = "none"
  /\ \/ /\ Set(c, [v EXCEPT !.pipe["stdout"].reader = "reading"]) /\ UNCHANGED active
     \/ /\ Set(c, Finish(Release(Killed(v), Pipe), "failed"))
        /\ active' = active - Held(v, Pipe)
StartErr(c) ==
  LET v == cmd[c] IN
  /\ v.pc = "permitted" /\ v.pipe["stdout"].reader # "none"
  /\ \/ /\ Set(c, [v EXCEPT !.pipe["stderr"].reader = "reading", !.pc = "polling"])
        /\ UNCHANGED active
     \/ /\ Set(c, Finish(Release(Killed(v), Pipe), "failed"))
        /\ active' = active - Held(v, Pipe)

\* CommandOutput::write: both pipes spend one budget, stdout alone is kept.
Reads(c, p) ==
  LET v == cmd[c]
      room == v.remaining > 0 IN
  /\ v.pc # "done" /\ v.pipe[p].reader = "reading" /\ Holding(v)
  /\ v.pipe[p].reads < MaxReads
  /\ Set(c, [v EXCEPT !.pipe[p].reads = @ + 1,
                      !.remaining = IF room THEN @ - 1 ELSE @,
                      !.kept = IF room /\ p = "stdout" THEN @ + 1 ELSE @,
                      !.exceeded = @ \/ ~room])
  /\ UNCHANGED active

\* The reader's thread ends, and its permit with it.
ReaderEnds(c, p) ==
  LET v == cmd[c] IN
  /\ v.pipe[p].reader = "reading"
  /\ \/ ~Holding(v) /\ Set(c, [Release(v, {p}) EXCEPT !.pipe[p].reader = "eof"])
     \/ Set(c, [Release(v, {p}) EXCEPT !.pipe[p].reader = "error"])
  /\ active' = active - Held(v, {p})

\* What the caller does when it stops waiting for the command.
Reaped(v, why) == [Killed(v) EXCEPT !.pc = "joining", !.ended = why]

\* One turn of the polling loop; the timeout may have passed at any of them.
Poll(c) ==
  LET v == cmd[c]
      read == \A p \in Pipe : v.pipe[p].reader \in {"eof", "error"} IN
  /\ v.pc = "polling" /\ UNCHANGED active
  /\ \/ v.cancelled /\ Set(c, Reaped(v, "cancelled"))
     \/ ~v.cancelled /\ v.exceeded /\ Set(c, Reaped(v, "limit"))
     \/ ~v.cancelled /\ ~v.exceeded /\ Set(c, Reaped(v, "timeout"))
     \/ /\ ~v.cancelled /\ ~v.exceeded /\ read /\ v.child = "exited"
        /\ Set(c, [v EXCEPT !.pc = "joining", !.child = "reaped"])
     \/ ~v.cancelled /\ ~v.exceeded /\ read /\ Set(c, Reaped(v, "wait"))

\* join_readers: a reader that is still blocked after the grace is left behind, and its
\* place is taken back.
Join(c) ==
  LET v == cmd[c] IN
  /\ v.pc = "joining"
  /\ Set(c, [Release(v, Pipe) EXCEPT
               !.pc = "judging", !.drained = \A p \in Pipe : v.pipe[p].reader = "eof"])
  /\ active' = active - Held(v, Pipe)

\* The answer, in the order of its precedence.
Judge(c) ==
  LET v == cmd[c] IN
  /\ v.pc = "judging" /\ UNCHANGED active
  /\ Set(c, Finish(v, IF v.cancelled THEN "cancelled"
                      ELSE IF v.ended = "timeout" THEN "timeout"
                      ELSE IF v.exceeded THEN "limit"
                      ELSE IF v.ended # "none" \/ ~v.drained \/ v.exit # "ok" THEN "failed"
                      ELSE "ok"))

\* The command's own processes, and its token.
ChildExits(c) ==
  /\ cmd[c].child = "running"
  /\ \E e \in {"ok", "bad"} : Set(c, [cmd[c] EXCEPT !.child = "exited", !.exit = e])
  /\ UNCHANGED active
KidEnds(c) ==
  cmd[c].kid # "none" /\ Set(c, [cmd[c] EXCEPT !.kid = "none"]) /\ UNCHANGED active
CancelCommand(c) ==
  /\ ~cmd[c].cancelled /\ cmd[c].pc # "done"
  /\ Set(c, [cmd[c] EXCEPT !.cancelled = TRUE]) /\ UNCHANGED active

GitNext == \E c \in Commands :
  \/ SpawnChild(c) \/ Acquire(c) \/ StartOut(c) \/ StartErr(c)
  \/ (\E p \in Pipe : Reads(c, p) \/ ReaderEnds(c, p))
  \/ Poll(c) \/ Join(c) \/ Judge(c) \/ ChildExits(c) \/ KidEnds(c) \/ CancelCommand(c)
GitSpec == GitInit /\ [][GitNext]_gitvars
-----------------------------------------------------------------------------
(* Properties *)

TypeOK ==
  /\ active \in 0..ReaderLimit
  /\ \A c \in Commands :
       /\ cmd[c].pc \in {"idle", "spawned", "permitted", "polling", "joining", "judging", "done"}
       /\ cmd[c].child \in {"none", "running", "exited", "reaped"}
       /\ cmd[c].kept + cmd[c].remaining <= OutputLimit
       /\ \A p \in Pipe : cmd[c].pipe[p].reader \in {"none", "reading", "eof", "error"}

\* The counter is the number of permits that were not given back, whichever of the
\* thread and the caller came first; a call that was answered keeps none, so a process
\* that holds a pipe for good wedges no later command ("so one descendant that escaped
\* the kill cannot wedge every later git command", runner.rs).
PlacesComeBack ==
  /\ active = Cardinality({x \in Commands \X Pipe : ~cmd[x[1]].pipe[x[2]].released})
  /\ \A c \in Commands : cmd[c].pc = "done" => Held(cmd[c], Pipe) = 0

\* What is answered as the output of a command is all of it: nothing was cut off at the
\* limit, no reader was left behind, and the command itself said it succeeded.
OkIsWhole ==
  \A c \in Commands : cmd[c].result = "ok" =>
    /\ cmd[c].kept = cmd[c].pipe["stdout"].reads /\ cmd[c].exit = "ok"
    /\ \A p \in Pipe : cmd[c].pipe[p].reader = "eof"

\* A call that was answered left no child behind.  One that was cut short, or whose
\* output is used, left no process of its group on its pipes either; only a pipe that
\* could not be read may still have one.
NothingLeftRunning ==
  \A c \in Commands : cmd[c].pc = "done" =>
    /\ cmd[c].child \in {"none", "reaped"}
    /\ cmd[c].kid = "group" =>
         cmd[c].result # "ok" /\ \E p \in Pipe : cmd[c].pipe[p].reader = "error"

\* A git command at large: its places come back, its answer is whole, and it leaves no
\* process behind.
RunnerSafe == TypeOK /\ PlacesComeBack /\ OkIsWhole /\ NothingLeftRunning
=============================================================================
