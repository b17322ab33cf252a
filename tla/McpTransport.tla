---------------------------- MODULE McpTransport ----------------------------
(***************************************************************************)
(* The stdio transport of the planning server.  A serve loop takes lines   *)
(* from a thread that reads the input, which nobody can interrupt while it *)
(* waits for a line.  A cancelled loop returns at once and leaves that     *)
(* thread behind; the thread holds the only reader slot of the process, so *)
(* the next loop waits until the old input has ended.                      *)
(***************************************************************************)
EXTENDS Integers, Sequences, FiniteSets

CONSTANTS
  Loops,     \* bound: the serve loops of the process, numbered
  MaxLines   \* bound: lines of one input

VARIABLES
  loop,      \* loop -> where it is, whether it was cancelled, and initialized
  slot,      \* the reader slot: the loop whose thread holds it, if any
  thread,    \* loop -> none, reading, sending or ended
  hand,      \* loop -> the line its thread has read and not yet sent, or "none"
  queue,     \* loop -> the channel, which takes one line
  lines,     \* loop -> how many lines were read of its input
  called,    \* loop -> a tool was called
  unanswered \* loop -> how many lines were taken and want an answer they lack

mcpvars == <<loop, slot, thread, hand, queue, lines, called, unanswered>>

\* What a line may be; a notification or a blank line wants no answer.
Kinds == {"initialize", "call", "other", "quiet"}
LoopEnded == {"complete", "cancelled", "failed"}

McpInit ==
  /\ loop = [l \in Loops |-> [at |-> "none", cancelled |-> FALSE, initialized |-> FALSE]]
  /\ slot = {}
  /\ thread = [l \in Loops |-> "none"] /\ hand = [l \in Loops |-> "none"] /\ queue = [l \in Loops |-> <<>>]
  /\ lines = [l \in Loops |-> 0]
  /\ called = [l \in Loops |-> FALSE] /\ unanswered = [l \in Loops |-> 0]

LoopMoves(l, to) == loop' = [loop EXCEPT ![l].at = to]

CancelLoop(l) ==
  /\ loop[l].at \notin {"none"} \cup LoopEnded /\ ~loop[l].cancelled
  /\ loop' = [loop EXCEPT ![l].cancelled = TRUE]
  /\ UNCHANGED <<slot, thread, hand, queue, lines, called, unanswered>>

-----------------------------------------------------------------------------
(* The loop *)

Serve(l) ==
  /\ loop[l].at = "none" /\ LoopMoves(l, "waiting")
  /\ UNCHANGED <<slot, thread, hand, queue, lines, called, unanswered>>

\* Waits for the slot, as long as it is not cancelled; a thread that cannot be
\* started gives the slot back.
AcquireSlot(l) ==
  /\ loop[l].at = "waiting"
  /\ IF loop[l].cancelled THEN LoopMoves(l, "cancelled") /\ UNCHANGED <<slot, thread>>
     ELSE /\ slot = {}
          /\ \/ /\ slot' = {l} /\ thread' = [thread EXCEPT ![l] = "reading"]
                /\ LoopMoves(l, "serving")
             \/ LoopMoves(l, "failed") /\ UNCHANGED <<slot, thread>>
  /\ UNCHANGED <<hand, queue, lines, called, unanswered>>

\* Faulty variant: a loop that ends gives the slot back while its thread still reads.
EndsFreeing(l, how) == LoopMoves(l, how) /\ slot' = slot \ {l}
\* The slot stays with the thread.
Ends(l, how) == LoopMoves(l, how) /\ UNCHANGED slot

\* A cancelled loop looks at no more lines.
Stop(l) ==
  /\ loop[l].at \in {"serving", "answering"} /\ loop[l].cancelled
  /\ Ends(l, "cancelled")
  /\ UNCHANGED <<thread, hand, queue, lines, called, unanswered>>

Wants(line) == line # "quiet"

\* A call is made only if the client has initialized the server; it may be
\* cancelled while it runs.
NextLine(l) ==
  /\ loop[l].at = "serving" /\ ~loop[l].cancelled /\ queue[l] # <<>>
  /\ LET line == Head(queue[l]) IN
     /\ queue' = [queue EXCEPT ![l] = Tail(@)]
     /\ CASE line = "eof" -> Ends(l, "complete") /\ UNCHANGED <<called, unanswered>>
          [] line = "error" -> Ends(l, "failed") /\ UNCHANGED <<called, unanswered>>
          [] OTHER ->
               /\ loop' = [loop EXCEPT ![l].at = IF Wants(line) THEN "answering" ELSE @,
                    ![l].initialized = @ \/ line = "initialize"]
               /\ called' = IF line = "call" /\ loop[l].initialized
                            THEN [called EXCEPT ![l] = TRUE] ELSE called
               /\ unanswered' = IF Wants(line) THEN [unanswered EXCEPT ![l] = @ + 1] ELSE unanswered
               /\ UNCHANGED slot
  /\ UNCHANGED <<thread, hand, lines>>

\* The answer is written, or it cannot be.
Answer(l) ==
  /\ loop[l].at = "answering" /\ ~loop[l].cancelled
  /\ \/ /\ LoopMoves(l, "serving")
        /\ unanswered' = [unanswered EXCEPT ![l] = @ - 1]
        /\ UNCHANGED slot
     \/ Ends(l, "failed") /\ UNCHANGED unanswered
  /\ UNCHANGED <<thread, hand, queue, lines, called>>

-----------------------------------------------------------------------------
(* The thread *)

ReadLine(l) ==
  /\ thread[l] = "reading"
  /\ \E kind \in {"eof", "error"} \cup IF lines[l] < MaxLines THEN Kinds ELSE {} :
       hand' = [hand EXCEPT ![l] = kind]
  /\ lines' = [lines EXCEPT ![l] = @ + 1]
  /\ thread' = [thread EXCEPT ![l] = "sending"]
  /\ UNCHANGED <<loop, slot, queue, called, unanswered>>

\* Sends when the channel is empty; a line nobody will take ends the thread,
\* and so does the last one.
SendLine(l) ==
  /\ thread[l] = "sending"
  /\ LET gone == loop[l].at \in LoopEnded
         last == hand[l] \in {"eof", "error"} IN
     /\ gone \/ queue[l] = <<>>
     /\ queue' = IF gone THEN queue ELSE [queue EXCEPT ![l] = Append(@, hand[l])]
     /\ thread' = [thread EXCEPT ![l] = IF gone \/ last THEN "ended" ELSE "reading"]
     /\ slot' = IF gone \/ last THEN {} ELSE slot
  /\ hand' = [hand EXCEPT ![l] = "none"]
  /\ UNCHANGED <<loop, lines, called, unanswered>>

McpNext ==
  \E l \in Loops :
    \/ Serve(l) \/ CancelLoop(l) \/ AcquireSlot(l) \/ Stop(l) \/ NextLine(l) \/ Answer(l)
    \/ ReadLine(l) \/ SendLine(l)

McpSpec == McpInit /\ [][McpNext]_mcpvars
-----------------------------------------------------------------------------
(* Properties *)

\* However often loops are cancelled and begun again, at most one thread waits
\* for input.
OneReader == Cardinality({l \in Loops : thread[l] \in {"reading", "sending"}}) <= 1

\* A line that wants an answer gets it before the next one is looked at; only
\* the line at which a loop was cancelled or failed may go without, even if its
\* tool has run.
Answered ==
  \A l \in Loops :
    /\ unanswered[l] <= 1
    /\ loop[l].at \in {"serving", "complete"} => unanswered[l] = 0
    /\ called[l] => loop[l].initialized

\* The transport at large: one thread waits for input, and lines are answered in turn.
McpSafe == OneReader /\ Answered
=============================================================================
