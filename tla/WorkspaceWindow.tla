--------------------------- MODULE WorkspaceWindow ---------------------------
(***************************************************************************)
(* The main window of the desktop: the project that it shows, the board it  *)
(* last read, and the calls it waits for while the user opens and closes    *)
(* projects (workspace/controller.ts, workspace-shell.ts,                   *)
(* project-lifecycle.ts, snapshot-controller.ts).                           *)
(*                                                                         *)
(* The epochs of the window's tickets are only compared with the current    *)
(* one: a ticket is the flag "cur", which every transition and every state  *)
(* published without one clear.  A project is the generation it was opened  *)
(* as, a board the revision of the project it was read at.                  *)
(***************************************************************************)
EXTENDS Integers, FiniteSets

CONSTANTS
  None,
  Overlap,   \* how many changes of the project are under way at a time
  MaxFlows,  \* bound: changes of the project asked for
  MaxRev,    \* bound: revisions of a project
  Kinds      \* which changes of a task are made: "mutation", "move"

VARIABLES
  backend,  \* the coordinator's project: status, generation, revision, whether sessions run in it
  w,        \* the window
  flows,    \* the opens and closes under way
  taskcalls,  \* the changes of tasks under way
  rechecks, \* the reads of the coordinator's state under way
  begun     \* how many opens and closes were asked for

winvars == <<backend, w, flows, taskcalls, rechecks, begun>>

State(status, gen) == [status |-> status, gen |-> gen]
Now == State(backend.status, backend.gen)
WinInit ==
  /\ backend = [status |-> "open", gen |-> 1, rev |-> 0, busy |-> TRUE]
  /\ w = [now |-> Now, shown |-> Now, inert |-> FALSE, dialog |-> None, board |-> [gen |-> 1, rev |-> 0],
          read |-> None, queued |-> FALSE, missed |-> FALSE]
  /\ flows = {} /\ taskcalls = {} /\ rechecks = {} /\ begun = 0
-----------------------------------------------------------------------------
(* Snapshots *)

LoadDropping(v, quiet) ==
  IF v.now.status # "open" \/ v.read # None \/ (quiet /\ v.dialog # None) THEN v
  ELSE [v EXCEPT !.read = [gen |-> v.now.gen, cur |-> TRUE, latest |-> TRUE, pc |-> "sent", rev |-> None],
               !.missed = FALSE]

\* loadSnapshot: one read at a time; one that the user waits for is made up for.
Load(v, quiet) ==
  IF v.now.status # "open" THEN v
  ELSE IF v.read # None THEN [v EXCEPT !.queued = @ \/ ~quiet]
  ELSE IF quiet /\ v.dialog # None THEN v
  ELSE [v EXCEPT !.read = [gen |-> v.now.gen, cur |-> TRUE, latest |-> TRUE, pc |-> "sent", rev |-> None],
               !.missed = FALSE]

Finish(v) ==
  LET u == [v EXCEPT !.read = None, !.queued = FALSE] IN
  IF v.queued THEN Load(u, FALSE) ELSE u

ReadHandled ==
  /\ w.read # None /\ w.read.pc = "sent"
  /\ w' = [w EXCEPT !.read.pc = "done",
                    !.read.rev = IF Now = State("open", w.read.gen) THEN backend.rev ELSE None]
  /\ UNCHANGED <<backend, flows, taskcalls, rechecks, begun>>

AcceptsAny(v, r) == r.rev # None /\ v.now.status = "open"

\* WorkspaceController.accepts
Accepts(v, r) == r.latest /\ r.cur /\ r.rev # None /\ v.now = State("open", r.gen)
ReadArrives ==
  /\ w.read # None /\ w.read.pc = "done"
  /\ w' = Finish(IF Accepts(w, w.read)
                 THEN [w EXCEPT !.board = [gen |-> w.read.gen, rev |-> w.read.rev]]
                 ELSE [w EXCEPT !.missed = TRUE])
  /\ UNCHANGED <<backend, flows, taskcalls, rechecks, begun>>

\* The poll, and the events of the runtime.
Poll ==
  /\ w.now.status = "open" /\ w' = Load(w, TRUE)
  /\ UNCHANGED <<backend, flows, taskcalls, rechecks, begun>>

Usable == ~w.inert /\ w.dialog = None
SelectPlan ==
  /\ Usable /\ w.board # None /\ w.now.status = "open" /\ w' = Load(w, FALSE)
  /\ UNCHANGED <<backend, flows, taskcalls, rechecks, begun>>
-----------------------------------------------------------------------------
(* What the window shows *)

Stale(S) == {[x EXCEPT !.cur = FALSE] : x \in S}
StaleRead(v) == IF v.read = None THEN v ELSE [v EXCEPT !.read.cur = FALSE]

\* renderWorkspaceState: another project, or none, drops what was read of the one before.
Render(v, s) ==
  LET u == [v EXCEPT !.shown = s, !.inert = FALSE] IN
  IF s.status = "open" /\ v.shown = s THEN u
  ELSE [u EXCEPT !.board = None, !.queued = FALSE,
                 !.read = IF @ = None THEN @ ELSE [@ EXCEPT !.latest = FALSE]]

Begin(v) ==
  LET u == StaleRead([v EXCEPT !.now.status = "loading"]) IN
  IF v.shown.status = "open" THEN [u EXCEPT !.inert = TRUE] ELSE Render(u, State("loading", v.now.gen))

PublishBackendState(v, s, keepInert) ==
  LET u == Render([v EXCEPT !.now = s], s) IN
  IF s.status = "open" /\ keepInert THEN [u EXCEPT !.inert = TRUE] ELSE Load(u, FALSE)
-----------------------------------------------------------------------------
(* Opening and closing a project *)

Flow(kind) == [n |-> begun + 1, kind |-> kind, pc |-> "chosen", cur |-> FALSE, token |-> FALSE, reply |-> None]
Becomes(f, g) == flows' = (flows \ {f}) \cup {g}

\* The folder is picked and validated while the window stays as it is.
Choose(kind) ==
  /\ Usable /\ w.shown.status # "loading" /\ (kind = "close" => w.now.status = "open")
  /\ begun < MaxFlows /\ Cardinality(flows) < Overlap
  /\ begun' = begun + 1 /\ flows' = flows \cup {Flow(kind)}
  /\ UNCHANGED <<backend, w, taskcalls, rechecks>>

Started(f, token) ==
  /\ flows' = Stale(flows \ {f}) \cup {[f EXCEPT !.pc = "sent", !.cur = TRUE, !.token = token]}
  /\ taskcalls' = Stale(taskcalls) /\ rechecks' = Stale(rechecks)
Start(f) ==
  /\ f.pc = "chosen" /\ Started(f, FALSE) /\ w' = Begin(w)
  /\ UNCHANGED <<backend, begun>>

\* The coordinator asks before it ends what runs in the project.
Answers(f) == [what |-> "done", state |-> IF f.kind = "open" THEN State("open", backend.gen + 1) ELSE State("closed", backend.gen)]
FlowHandled(f) ==
  /\ f.pc = "sent"
  /\ \/ /\ backend.busy /\ ~f.token
        /\ Becomes(f, [f EXCEPT !.pc = "answered", !.reply = [what |-> "confirm", state |-> Now]])
        /\ UNCHANGED backend
     \/ /\ backend.busy => f.token
        /\ f.kind = "close" => backend.status = "open"
        /\ Becomes(f, [f EXCEPT !.pc = "answered", !.reply = Answers(f)])
        /\ \E busy \in BOOLEAN :
             /\ busy => f.kind = "open"
             /\ backend' = [status |-> Answers(f).state.status, gen |-> Answers(f).state.gen, rev |-> 0, busy |-> busy]
     \/ /\ Becomes(f, [f EXCEPT !.pc = "answered", !.reply = [what |-> "error", state |-> Now]])
        /\ UNCHANGED backend
  /\ UNCHANGED <<w, taskcalls, rechecks, begun>>

Recheck(kind) == [kind |-> kind, cur |-> TRUE, pc |-> "sent", reply |-> None]

\* A dialog that replaces another one leaves the other's flow without an answer.
AskUser(f) ==
  /\ w' = [PublishBackendState(w, f.reply.state, TRUE) EXCEPT !.dialog = f.n]
  /\ flows' = {g \in flows \ {f} : g.n # w.dialog} \cup {[f EXCEPT !.pc = "confirm"]}
  /\ UNCHANGED <<taskcalls, rechecks>>
Opened(f) ==
  /\ w' = PublishBackendState(w, f.reply.state, FALSE) /\ flows' = flows \ {f}
  /\ rechecks' = IF f.reply.state.status = "closed" THEN rechecks \cup {Recheck("closed")} ELSE rechecks
  /\ UNCHANGED taskcalls
Abandoned(f) == flows' = flows \ {f} /\ UNCHANGED <<w, taskcalls, rechecks>>
Recovers(f) ==
  /\ flows' = flows \ {f} /\ rechecks' = rechecks \cup {Recheck("recover")}
  /\ UNCHANGED <<w, taskcalls>>
FlowAnswered(f) ==
  /\ f.pc = "answered"
  /\ CASE f.reply.what = "error" -> Recovers(f)
       [] f.reply.what = "confirm" -> IF f.cur THEN AskUser(f) ELSE Abandoned(f)
       [] OTHER -> IF f.cur THEN Opened(f) ELSE Abandoned(f)
  /\ UNCHANGED <<backend, begun>>

Confirm(f) ==
  /\ f.pc = "confirm" /\ w.dialog = f.n
  /\ Started(f, TRUE) /\ w' = Begin([w EXCEPT !.dialog = None])
  /\ UNCHANGED <<backend, begun>>

\* The answer is awaited before the window goes on with what it showed.
Cancel(f) ==
  /\ f.pc = "confirm" /\ w.dialog = f.n
  /\ w' = [w EXCEPT !.dialog = None] /\ Becomes(f, [f EXCEPT !.pc = "cancelled"])
  /\ UNCHANGED <<backend, taskcalls, rechecks, begun>>
CancelEnds(f) ==
  /\ f.pc = "cancelled"
  /\ \/ w' = Render(w, f.reply.state) /\ flows' = flows \ {f} /\ UNCHANGED <<taskcalls, rechecks>>
     \/ Recovers(f)
  /\ UNCHANGED <<backend, begun>>

\* recoverWorkspaceState, and the second look after a close.
RecheckHandled(r) ==
  /\ r.pc = "sent"
  /\ rechecks' = (rechecks \ {r}) \cup {[r EXCEPT !.pc = "done", !.reply = Now]}
  /\ UNCHANGED <<backend, w, flows, taskcalls, begun>>
RecheckArrives(r) ==
  /\ r.pc = "done"
  /\ IF r.kind = "closed" /\ ~r.cur
       THEN rechecks' = rechecks \ {r} /\ UNCHANGED <<w, flows, taskcalls>>
       ELSE /\ rechecks' = Stale(rechecks \ {r}) /\ flows' = Stale(flows) /\ taskcalls' = Stale(taskcalls)
            /\ w' = LET u == Render([StaleRead(w) EXCEPT !.now = r.reply], r.reply) IN
                    IF r.kind = "recover" THEN Load(u, FALSE) ELSE u
  /\ UNCHANGED <<backend, begun>>
-----------------------------------------------------------------------------
(* Changes of tasks *)

\* runMutation: one of a kind at a time; moveTask: one that the window waits for.
Change(kind) ==
  /\ Usable /\ w.board # None /\ w.now.status = "open"
  /\ \A c \in taskcalls : c.kind = kind => kind = "move" /\ ~c.cur
  /\ backend.rev < MaxRev
  /\ taskcalls' = taskcalls \cup {[kind |-> kind, gen |-> w.now.gen, cur |-> TRUE, pc |-> "sent", ok |-> FALSE]}
  /\ UNCHANGED <<backend, w, flows, rechecks, begun>>

ChangeHandled(c) ==
  /\ c.pc = "sent"
  /\ \E ok \in BOOLEAN :
       /\ ok => Now = State("open", c.gen) /\ backend.rev < MaxRev
       /\ taskcalls' = (taskcalls \ {c}) \cup {[c EXCEPT !.pc = "done", !.ok = ok]}
       /\ backend' = IF ok THEN [backend EXCEPT !.rev = @ + 1] ELSE backend
  /\ UNCHANGED <<w, flows, rechecks, begun>>

\* A move that the window still waits for reads the board again once no read is under way.
Current(c) == c.cur /\ w.now = State("open", c.gen)
MutationArrives(c) ==
  /\ c.kind = "mutation" /\ taskcalls' = taskcalls \ {c}
  /\ w' = IF Current(c) THEN Load(w, ~c.ok) ELSE [w EXCEPT !.missed = TRUE]
MoveArrives(c) ==
  /\ c.kind = "move" /\ (Current(c) => w.read = None) /\ taskcalls' = taskcalls \ {c}
  /\ w' = IF Current(c) THEN Load(w, FALSE) ELSE [w EXCEPT !.missed = TRUE]
ChangeArrives(c) ==
  /\ c.pc = "done" /\ (MutationArrives(c) \/ MoveArrives(c))
  /\ UNCHANGED <<backend, flows, rechecks, begun>>

OfFlow(f) == Start(f) \/ FlowHandled(f) \/ FlowAnswered(f) \/ Confirm(f) \/ Cancel(f) \/ CancelEnds(f)
WinNext ==
  \/ ReadHandled \/ ReadArrives \/ Poll \/ SelectPlan
  \/ \E kind \in {"open", "close"} : Choose(kind)
  \/ \E f \in flows : OfFlow(f)
  \/ \E r \in rechecks : RecheckHandled(r) \/ RecheckArrives(r)
  \/ \E kind \in Kinds : Change(kind)
  \/ \E c \in taskcalls : ChangeHandled(c) \/ ChangeArrives(c)
-----------------------------------------------------------------------------
(* What must hold *)

\* The board of a project is never shown under the name of another one (applyView,
\* resetForProjectChange, WorkspaceController.accepts).
BoardOfProject == w.shown.status = "open" /\ w.board # None => w.board.gen = w.shown.gen

AtRest == flows = {} /\ taskcalls = {} /\ rechecks = {} /\ w.read = None

\* A change that was made here is on the board when nothing is under way, unless a
\* read failed or a transition came between (runMutation, RefreshGate.finish).
ChangeShown ==
  AtRest /\ w.board # None /\ ~w.missed /\ Now = State("open", w.board.gen) => w.board.rev = backend.rev

\* When nothing is under way the window shows the project that the desktop has open.
WindowAgrees == AtRest => w.now = Now /\ w.shown = w.now

\* All three.
WindowRight == BoardOfProject /\ ChangeShown /\ WindowAgrees
=============================================================================
