--------------------------- MODULE MemoryWriteback ---------------------------
(***************************************************************************)
(* What a terminal writes back into the project's memory: a dialog that     *)
(* previews a text at the place its session is linked to and then writes it *)
(* (terminal/writeback-controller.ts), the workspace that asks the session  *)
(* for its link, and the store's transaction, which keeps a receipt of each *)
(* request so that one tried again is answered and not written again.       *)
(*                                                                         *)
(* A call may be reported as failed while it is still on its way.  The      *)
(* project is one and stays open; the limits of a text and the screening    *)
(* for credentials are left out.                                            *)
(***************************************************************************)
EXTENDS Integers, Sequences, FiniteSets

CONSTANTS
  Nil,
  Plans,      \* the plans a session may be linked to
  Home0,      \* the plan of the task for which the session was launched
  TextKinds,  \* "summary" and the kinds of notes
  Texts,
  Links,      \* the pointers a session may be given later
  Limit,      \* MEMORY_WRITEBACK_REPLAY_LIMIT
  MaxRev,     \* bound: revisions of the session's link
  MaxRequest, \* bound: identities of requests
  MaxCalls    \* bound: writes asked for

Pointers == [plan : Plans, task : BOOLEAN] \cup {[plan |-> 0, task |-> FALSE]}
ASSUME MemoryAssumption ==
  /\ 0 \notin Plans /\ Home0 \in Plans /\ Links \subseteq Pointers
  /\ "decision" \in TextKinds /\ Nil \notin Nat \cup Pointers /\ Limit \in Nat

VARIABLES
  plans,     \* the plans that exist
  home,      \* the plan of the task, 0 when it was deleted
  written,   \* what the transactions wrote, in their order
  receipts,  \* the writes whose receipts are stored, by their sequence
  link,      \* the session's link: its revision and its pointer
  dialog,    \* the dialog, Nil when it is closed
  calls,     \* the calls on their way
  identities,  \* how many identities were given out
  tries      \* how many writes were asked for

memvars == <<plans, home, written, receipts, link, dialog, calls, identities, tries>>

Project == [plan |-> 0, task |-> FALSE]

MemInit ==
  /\ plans = Plans /\ home = Home0 /\ written = <<>> /\ receipts = {}
  /\ link = [rev |-> 1, at |-> [plan |-> Home0, task |-> TRUE]] /\ dialog = Nil
  /\ calls = {} /\ identities = 0 /\ tries = 0
-----------------------------------------------------------------------------
(* The dialog *)

\* validate_association_pointer, and where a text of a kind goes.
Exists(p) == p.plan = 0 \/ (p.plan \in plans /\ (p.task => home = p.plan))
Target(p, kind) == IF kind = "summary" THEN Project ELSE p

\* The link is read once, when the dialog opens.
OpenDialog ==
  /\ dialog = Nil /\ link.at # Nil
  /\ \E t \in Texts :
       dialog' = [for |-> link, kind |-> "decision", text |-> t, preview |-> Nil,
                  request |-> Nil, busy |-> Nil]
  /\ UNCHANGED <<plans, home, written, receipts, link, calls, identities, tries>>

\* Another text or kind is another request.
EditDialog ==
  /\ dialog # Nil /\ dialog.busy = Nil
  /\ \E k \in TextKinds, t \in Texts :
       /\ k # dialog.kind \/ t # dialog.text
       /\ dialog' = [dialog EXCEPT !.kind = k, !.text = t, !.preview = Nil, !.request = Nil]
  /\ UNCHANGED <<plans, home, written, receipts, link, calls, identities, tries>>

\* Cancelled when nothing is under way; at any time when the dock goes.
UnderWay == {c \in calls : c.pc # "done"}
CloseDialog ==
  /\ dialog # Nil /\ dialog' = Nil /\ calls' = UnderWay
  /\ UNCHANGED <<plans, home, written, receipts, link, identities, tries>>

\* A preview reads only, and counts only if the link is as it was when it is answered:
\* it is one step.
StableRequest == IF dialog.request = Nil THEN identities + 1 ELSE dialog.request
Preview ==
  /\ dialog # Nil /\ dialog.busy = Nil /\ link = dialog.for /\ Exists(link.at)
  /\ StableRequest <= MaxRequest
  /\ dialog' = [dialog EXCEPT !.preview = [at |-> Target(link.at, dialog.kind)], !.request = StableRequest]
  /\ identities' = IF StableRequest > identities THEN StableRequest ELSE identities
  /\ UNCHANGED <<plans, home, written, receipts, link, calls, tries>>

\* A write names its request; the replacement of a summary was confirmed.
Asks ==
  [n |-> tries + 1, rev |-> dialog.for.rev, kind |-> dialog.kind, text |-> dialog.text,
   request |-> dialog.request, shown |-> dialog.preview.at, at |-> Nil, pc |-> "sent", answer |-> "ok"]
AskWrite ==
  /\ tries < MaxCalls /\ dialog # Nil /\ dialog.busy = Nil /\ dialog.preview # Nil /\ link = dialog.for
  /\ tries' = tries + 1 /\ calls' = calls \cup {Asks} /\ dialog' = [dialog EXCEPT !.busy = tries']
  /\ UNCHANGED <<plans, home, written, receipts, link, identities>>

\* The answer counts for the dialog that waits for it, while the link is as it was:
\* it closes, or stays for another try.
Awaited(c) == dialog # Nil /\ dialog.busy = c.n
Reply(c) ==
  /\ c.pc = "done" /\ Awaited(c) /\ calls' = calls \ {c}
  /\ dialog' = IF link = dialog.for /\ c.answer = "ok" THEN Nil ELSE [dialog EXCEPT !.busy = Nil]
  /\ UNCHANGED <<plans, home, written, receipts, link, identities, tries>>

\* The transport gives up: the call goes on, and nobody waits for it.
TransportFails ==
  /\ dialog # Nil /\ dialog.busy # Nil
  /\ dialog' = [dialog EXCEPT !.busy = Nil] /\ calls' = UnderWay
  /\ UNCHANGED <<plans, home, written, receipts, link, identities, tries>>
-----------------------------------------------------------------------------
(* The workspace and the store *)

\* An answer that nobody waits for is dropped.
Step(c, d) == calls' = (calls \ {c}) \cup (IF d.pc = "done" /\ ~Awaited(c) THEN {} ELSE {d})
Refused(c) == [c EXCEPT !.pc = "done", !.answer = "error"]

\* live_association and the snapshot: where the session's link leads now.
FindsTarget(c) ==
  /\ c.pc = "sent"
  /\ Step(c, IF link.rev = c.rev /\ link.at # Nil /\ Exists(link.at)
             THEN [c EXCEPT !.at = Target(link.at, c.kind), !.pc = "found"] ELSE Refused(c))
  /\ UNCHANGED <<plans, home, written, receipts, link, dialog, identities, tries>>

Digest(c) == [kind |-> c.kind, text |-> c.text, at |-> c.at, rev |-> c.rev]
Receipts(c) == {i \in receipts : written[i].request = c.request}

\* prune_memory_receipts: the oldest ones go.
Newer(rs, i) == {j \in rs : j > i}
PrunedEarly(rs) == {i \in rs : Cardinality(Newer(rs, i)) + 1 < Limit}
Pruned(rs) == {i \in rs : Cardinality(Newer(rs, i)) < Limit}

\* A request that has a receipt is answered with what it wrote.
Replay(c) ==
  /\ \E i \in Receipts(c) :
       Step(c, IF Digest(written[i]) = Digest(c) THEN [c EXCEPT !.pc = "done"] ELSE Refused(c))
  /\ UNCHANGED <<written, receipts>>
Entry(c) ==
  [request |-> c.request, rev |-> c.rev, kind |-> c.kind, text |-> c.text, at |-> c.at,
   shown |-> c.shown]
WriteNew(c) ==
  /\ Receipts(c) = {}
  /\ IF ~Exists(c.at) THEN Step(c, Refused(c)) /\ UNCHANGED <<written, receipts>>
     ELSE /\ written' = Append(written, Entry(c))
          /\ receipts' = Pruned(receipts \cup {Len(written')})
          /\ Step(c, [c EXCEPT !.pc = "done"])
WriteMemory(c) ==
  /\ c.pc = "found"
  /\ Replay(c) \/ WriteNew(c)
  /\ UNCHANGED <<plans, home, link, dialog, identities, tries>>
-----------------------------------------------------------------------------
(* Other commands *)

\* The user links the session elsewhere, or detaches it; its end detaches it too.
Associate ==
  /\ link.rev < MaxRev /\ link.at # Nil
  /\ \E p \in Links \cup {Nil} :
       /\ p # link.at /\ (p # Nil => Exists(p))
       /\ link' = [rev |-> link.rev + 1, at |-> p]
  /\ UNCHANGED <<plans, home, written, receipts, dialog, calls, identities, tries>>

MoveTask ==
  /\ \E p \in plans \ {home} : home # 0 /\ home' = p
  /\ UNCHANGED <<plans, written, receipts, link, dialog, calls, identities, tries>>

\* A plan is deleted with its task, the notes on them and the receipts of those notes.
Lost(at, p) == IF at.task THEN home = p ELSE at.plan = p
DeletePlan ==
  \E p \in plans :
    /\ plans' = plans \ {p} /\ home' = IF home = p THEN 0 ELSE home
    /\ receipts' = {i \in receipts : ~Lost(written[i].at, p)}
    /\ UNCHANGED <<written, link, dialog, calls, identities, tries>>

Handle(c) == FindsTarget(c) \/ WriteMemory(c) \/ Reply(c)
MemNext ==
  \/ OpenDialog \/ EditDialog \/ CloseDialog \/ Preview \/ AskWrite \/ TransportFails
  \/ Associate \/ MoveTask \/ DeletePlan
  \/ \E c \in calls : Handle(c)
MemSpec == MemInit /\ [][MemNext]_memvars
-----------------------------------------------------------------------------
(* What must hold *)

\* A request that is tried again, also while its first try is still under way, is
\* written a second time only when its receipt had to make room for others
\* (write_memory, prune_memory_receipts, stableTerminalWritebackRequestID).
WrittenOnce ==
  \A i, j \in DOMAIN written : i < j /\ written[i].request = written[j].request => j - i > Limit

\* What was written went to the place that the user was shown for it, wherever the
\* session was linked meanwhile (live_association, terminalWritebackStateMatches).
AsPreviewed == \A i \in DOMAIN written : written[i].at = written[i].shown

\* A request that has a receipt can be answered: what it wrote is still there, whatever
\* was deleted since (delete_plan_inner removes the receipts of the notes it deletes).
Vanished(at) == IF at.task THEN home = 0 ELSE at.plan # 0 /\ at.plan \notin plans
Answerable == \A i \in receipts : ~Vanished(written[i].at)

\* All of them.
MemorySafe == WrittenOnce /\ AsPreviewed /\ Answerable
=============================================================================
