---------------------------- MODULE GitSnapshot ----------------------------
(***************************************************************************)
(* What the desktop learns from a repository (crates/ptrack-git): a        *)
(* capture of it, its timeline, the tracked paths with their lines, and    *)
(* the check of a chosen worktree.  Each is a sequence of git commands, of *)
(* which some may fail without failing the whole.  The call may be         *)
(* cancelled between any two commands, and the repository may change: what *)
(* a command finds is chosen when it runs.                                 *)
(***************************************************************************)
EXTENDS Integers, Sequences, SequencesExt

CONSTANTS MaxCommands, \* MAX_GIT_COMMANDS
          Shown,       \* the bound of each list (40 commits, 64 worktrees, 500 paths, ...)
          MaxRecords   \* bounds the records of a command's output

VARIABLES read         \* the read in progress

\* The commands of each read, in their order.
Sequence == [capture |-> <<"identity", "worktrees", "status", "remotes", "local", "remote",
                           "log", "divergence", "unpushed", "ignored">>,
             timeline |-> <<"commits", "tags">>,
             tracked |-> <<"files", "lines">>,
             inspect |-> <<"project", "project branch", "selected", "selected branch",
                         "listed">>]

\* What a read has so far: each list with how much of it is shown and how much is not.
NoSnapshot == [state |-> "absent", trees |-> <<0, 0>>, treesIncomplete |-> FALSE,
            upstream |-> "none", paths |-> <<0, 0>>, refs |-> 0, commits |-> 0,
            truncated |-> FALSE, divergence |-> FALSE, unpushed |-> FALSE, extra |-> FALSE]

ReadInit == \E op \in DOMAIN Sequence :
  read = [op |-> op, at |-> 1, used |-> 0, cancelled |-> FALSE, got |-> NoSnapshot,
          result |-> "none"]
-----------------------------------------------------------------------------
(* Parsing *)

\* A commit or a ref may be one that the parser leaves out, and a worktree may be bare.
Log == BoundedSeq({"good", "odd"}, MaxRecords)

Least(m, n) == IF m <= n THEN m ELSE n
Good(records) == Len(SelectSeq(records, LAMBDA r : r = "good"))
First(records, n) == SubSeq(records, 1, Least(Len(records), n))

\* parse_log: git is asked for one commit more than is shown, which says there are more.
WithCommits(g, log) ==
  LET found == Good(First(log, Shown + 1)) IN
  [g EXCEPT !.commits = Least(found, Shown), !.truncated = found > Shown]

\* PathSet::bounded and parse_worktree_list: how many are shown, and how many more there
\* are; a path that cannot be shown is one of the others.
Bounded(showable, others) ==
  <<Least(showable, Shown), showable + others - Least(showable, Shown)>>

\* parse_refs: a name or a tip that cannot be read is left out.
WithRefs(g, refs) == [g EXCEPT !.refs = Least(@ + Good(First(refs, Shown)), Shown)]

WithTrees(g, trees) ==
  LET kept == Bounded(Good(trees), 0) IN
    [g EXCEPT !.trees = kept, !.treesIncomplete = kept[2] > 0]
-----------------------------------------------------------------------------
(* Commands *)

Step == Sequence[read.op][read.at]
Onward(v) ==
  IF v.at = Len(Sequence[v.op]) THEN [v EXCEPT !.result = "ok"] ELSE [v EXCEPT !.at = @ + 1]
AtIgnored(v) == [v EXCEPT !.at = Len(Sequence["capture"])]

\* The divergence of a branch is read only if its upstream was there, and is over when
\* its first query fails.
After(v) ==
  IF Step = "log" /\ v.got.upstream # "there" THEN AtIgnored(v)
  ELSE IF Step = "divergence" /\ ~v.got.divergence THEN AtIgnored(v)
  ELSE Onward(v)

\* ExecutionSession::run counts the commands and the bytes of one read; the tracked paths
\* are read without it.  A token that is cancelled refuses every further command.
Counted == read.op # "tracked"
OverBudget(v) == Counted /\ v.used > MaxCommands
Failures(v) ==
  IF OverBudget(v) THEN {"commands"}
  ELSE IF v.cancelled THEN {"cancelled"}
  ELSE {"failed", "timeout", "limit"} \cup (IF Counted THEN {"bytes"} ELSE {})

Learn(v, g) == read' = After([v EXCEPT !.got = g])
Refuse(v) == read' = [v EXCEPT !.result = "invalid"]

\* A command that git answers.
Answered(v) ==
  /\ ~OverBudget(v) /\ ~v.cancelled
  /\ LET g == v.got IN
     CASE Step = "identity" -> Learn(v, [g EXCEPT !.state = "ready"])
       [] Step = "worktrees" -> \E trees \in Log : Learn(v, WithTrees(g, trees))
       [] Step = "status" -> \E up \in {"none", "gone", "there"}, n \in 0..MaxRecords, odd \in 0..1 :
            Learn(v, [g EXCEPT !.upstream = up, !.paths = Bounded(n, odd)])
       [] Step \in {"local", "remote"} -> \E refs \in Log : Learn(v, WithRefs(g, refs))
       [] Step \in {"log", "commits"} -> \E log \in Log : Learn(v, WithCommits(g, log))
       [] Step = "divergence" -> Learn(v, [g EXCEPT !.divergence = TRUE])
       [] Step = "unpushed" -> Learn(v, [g EXCEPT !.unpushed = TRUE])
       [] Step = "files" -> \E n \in 0..MaxRecords, odd \in 0..1 :
            Learn(v, [g EXCEPT !.paths = Bounded(n, odd)])
       [] Step \in {"tags", "lines"} -> Learn(v, [g EXCEPT !.extra = TRUE])
       [] Step = "listed" -> Learn(v, [g EXCEPT !.state = "ready"])
       [] OTHER -> Learn(v, g)

\* What a parser does not take refuses the whole read; so does a selected path that is
\* of another repository, outside of its worktree, or not listed as one.
Refused(v) ==
  /\ Step \in {"identity", "worktrees", "status", "local", "remote", "divergence", "listed"}
              \cup {"project", "project branch", "selected", "selected branch"}
  /\ ~OverBudget(v) /\ ~v.cancelled /\ Refuse(v)

\* A failure that leaves something out: of git itself, where the read can do without, and
\* whatever it is for the count of ignored paths, the tags and the lines.
Spared(o) ==
  CASE Step \in {"worktrees", "remotes", "log", "divergence", "unpushed", "project branch",
         "selected branch"} ->
         o = "failed"
    [] Step = "ignored" -> o # "cancelled"
    [] Step = "tags" -> o \notin {"commands", "bytes"}
    [] OTHER -> Step = "lines"
Without(v) == IF Step = "worktrees" THEN [v EXCEPT !.got.treesIncomplete = TRUE] ELSE v

\* A folder where git fails is no repository if there is no .git above it.
NoRepository(v) ==
  Step = "identity" /\ "failed" \in Failures(v)
  /\ read' = [v EXCEPT !.result = "ok", !.got.state = "not a repository"]
Fails(v) == \E o \in Failures(v) :
  read' = IF Spared(o) THEN After(Without(v)) ELSE [v EXCEPT !.result = o]

Command ==
  /\ read.result = "none"
  /\ LET v == [read EXCEPT !.used = @ + 1] IN
     Answered(v) \/ Refused(v) \/ NoRepository(v) \/ Fails(v)

Cancel ==
  read.result = "none" /\ ~read.cancelled /\ read' = [read EXCEPT !.cancelled = TRUE]

ReadNext == Command \/ Cancel
ReadSpec == ReadInit /\ [][ReadNext]_read
-----------------------------------------------------------------------------
(* Properties *)

TypeOK ==
  /\ read.op \in DOMAIN Sequence /\ read.at \in 1..Len(Sequence[read.op])
  /\ read.got.commits \in 0..Shown /\ read.got.refs \in 0..Shown /\ read.got.paths[1] \in 0..Shown

\* A capture that was cancelled is not answered with a snapshot, and neither is a worktree
\* accepted: whatever the command that was refused, ignored paths and branches included.
CancelledIsSaid ==
  read.op \in {"capture", "inspect"} /\ read.cancelled => read.result # "ok"

\* The same of every read, as their documentation has it (timeline.rs:51, tracked.rs:48).
CancelledIsAlwaysSaid == read.cancelled => read.result # "ok"

\* The ten commands a capture may need are as many as it may run, so none is refused for
\* its number: neither on the long way through an upstream nor after failures.
WithinBudget == read.result # "commands" /\ (Counted => read.used <= MaxCommands)

\* The parts of one snapshot belong together, although the repository changed between
\* the commands they come from: there is no divergence without the upstream of its
\* status, no unpushed commits without the divergence, nothing of a folder that is no
\* repository; a list of worktrees that is cut says so.
PartsAgree == read.op = "capture" /\ read.result = "ok" =>
  /\ read.got.divergence => read.got.upstream = "there"
  /\ read.got.unpushed => read.got.divergence
  /\ read.got.trees[2] > 0 => read.got.treesIncomplete
  /\ read.got.state = "ready" \/ read.got = [NoSnapshot EXCEPT !.state = "not a repository"]

ReadSafe == TypeOK /\ CancelledIsSaid /\ WithinBudget /\ PartsAgree
=============================================================================
