--------------------------- MODULE ScratchpadSync ---------------------------
(***************************************************************************)
(* The project's scratchpad as its windows edit it: each window has a saver *)
(* (terminal/scratchpad.ts) between its text area and the runtime, which    *)
(* stores a note only from a window that names the revision stored last.    *)
(* Reads, writes and copies to the clipboard are answered later, in any     *)
(* order, while the user types on.                                          *)
(*                                                                         *)
(* Typing only adds: a text is the set of the edits in it.  The clipboard   *)
(* strip of the same record and its limits of size are left out.            *)
(***************************************************************************)
EXTENDS Integers, Sequences

CONSTANTS
  Windows,    \* the dock and the detached terminal windows
  Note0,      \* the notes already stored when the project was opened
  MaxTyped,   \* bound: edits of the user
  MaxNotes,   \* bound: notes stored
  Failing     \* which calls may fail: "get", "set", "copy"

VARIABLES
  log,     \* the stored notes, in the order of their revisions
  win,     \* each window's saver and text area
  events,  \* the revisions announced to a window and not yet seen there
  copied,  \* the texts put on the clipboard
  typed    \* how many edits were typed

padvars == <<log, win, events, copied, typed>>

Stored == Len(log)
Note(r) == IF r = 0 THEN {} ELSE log[r]
Revisions == 0..Len(log)
Written == {log[r] : r \in 1..Len(log)}

\* A call: not made, waiting, or answered with a revision.
Call(is, r) == [is |-> is, rev |-> r]
NoCall == Call("none", 0)
Asked == Call("asked", 0)

New ==
  [text |-> {}, rev |-> 0, loaded |-> FALSE, dirty |-> FALSE, sched |-> FALSE, pending |-> FALSE,
   fresh |-> FALSE, gone |-> FALSE, shown |-> {}, focus |-> FALSE,
   pc |-> "idle", sent |-> {}, base |-> 0, set |-> NoCall, load |-> NoCall, reads |-> {}]

PadInit ==
  /\ log = Note0 /\ win = [w \in Windows |-> New] /\ events = [w \in Windows |-> {}]
  /\ copied = {} /\ typed = 0
-----------------------------------------------------------------------------
(* The saver *)

\* markText: what is typed is dirty until it was stored.
Edited(v, text) ==
  [v EXCEPT !.text = text, !.dirty = TRUE, !.fresh = TRUE, !.sched = TRUE,
            !.reads = {[r EXCEPT !.stale = TRUE] : r \in @}]

\* #send: writes the record as it is now; what is typed from here on is fresh.
Send(v) ==
  [v EXCEPT !.pc = "set", !.sent = v.text, !.base = v.rev, !.set = Asked, !.fresh = FALSE, !.pending = FALSE]
Again(v) == IF v.pending THEN Send(v) ELSE [v EXCEPT !.pc = "idle", !.sent = {}, !.base = 0, !.fresh = FALSE]

EnsureLoaded(v) == IF v.loaded \/ v.gone \/ v.load # NoCall THEN v ELSE [v EXCEPT !.load = Asked]

\* save: one write at a time, the first one after the first read.
Save(v) ==
  IF v.pc # "idle" THEN [v EXCEPT !.pending = TRUE]
  ELSE IF v.loaded \/ v.gone THEN Send(v)
  ELSE [EnsureLoaded(v) EXCEPT !.pc = "wait"]

Flush(v) ==
  IF v.sched THEN Save([v EXCEPT !.sched = FALSE])
  ELSE IF v.dirty /\ v.pc = "idle" THEN Save(v) ELSE v

\* #install and applyRecord: the text being typed wins over a stored one, unless
\* the caller says that it is replaced.
Install(v, r, replace) ==
  LET u == [v EXCEPT !.text = Note(r), !.rev = r, !.loaded = TRUE] IN
  IF v.gone THEN [u EXCEPT !.dirty = FALSE]
  ELSE IF ~replace /\ v.focus /\ v.shown # Note(r) THEN Edited(u, v.shown)
  ELSE [u EXCEPT !.shown = Note(r), !.dirty = FALSE]
-----------------------------------------------------------------------------
(* The windows *)

\* A disposed saver at rest is forgotten: what is still on its way to it is dropped.
Closed == [New EXCEPT !.gone = TRUE]
Change(w, v) == win' = [win EXCEPT ![w] = IF v.gone /\ v.pc = "idle" THEN Closed ELSE v]

\* The panel is opened: its record is read once.
OpenPanel(w) ==
  /\ ~win[w].gone /\ ~win[w].loaded /\ win[w].load = NoCall
  /\ Change(w, EnsureLoaded(win[w]))
  /\ UNCHANGED <<log, events, copied, typed>>

Type(w) ==
  /\ ~win[w].gone /\ typed < MaxTyped
  /\ typed' = typed + 1
  /\ LET text == win[w].shown \cup {typed'} IN
     Change(w, [Edited(win[w], text) EXCEPT !.shown = text, !.focus = TRUE])
  /\ UNCHANGED <<log, events, copied>>

\* The debounce, or the longest wait, is over.
Timer(w) ==
  /\ win[w].sched
  /\ Change(w, Flush(win[w]))
  /\ UNCHANGED <<log, events, copied, typed>>

\* The text area loses the focus; a closed or hidden panel flushes too.
Blur(w) ==
  /\ ~win[w].gone /\ win[w].focus
  /\ Change(w, [Flush(win[w]) EXCEPT !.focus = FALSE])
  /\ UNCHANGED <<log, events, copied, typed>>

\* The window closes, or the project is switched.
Dispose(w) ==
  /\ ~win[w].gone
  /\ Change(w, Flush([win[w] EXCEPT !.gone = TRUE, !.reads = {}]))
  /\ events' = [events EXCEPT ![w] = {}]
  /\ UNCHANGED <<log, copied, typed>>

\* Another window stored a note: it is read again unless there is an edit here.
Refresh(w, r) ==
  /\ r \in events[w]
  /\ events' = [events EXCEPT ![w] = @ \ {r}]
  /\ LET v == win[w] IN
     IF ~v.loaded \/ r <= v.rev \/ v.dirty \/ v.pc # "idle" THEN UNCHANGED win
     ELSE Change(w, [v EXCEPT !.reads = @ \cup {[is |-> "asked", rev |-> 0, stale |-> FALSE]}])
  /\ UNCHANGED <<log, copied, typed>>
-----------------------------------------------------------------------------
(* The runtime answers *)

Answers == {Call("ok", Stored)} \cup (IF "get" \in Failing THEN {Call("failed", 0)} ELSE {})

GetForLoad(w) ==
  /\ win[w].load = Asked
  /\ \E a \in Answers : Change(w, [win[w] EXCEPT !.load = a])
  /\ UNCHANGED <<log, events, copied, typed>>

GetForRefresh(w) ==
  /\ \E r \in win[w].reads, a \in Answers :
       /\ r.is = "asked"
       /\ Change(w, [win[w] EXCEPT !.reads = (@ \ {r}) \cup {[is |-> a.is, rev |-> a.rev, stale |-> r.stale]}])
  /\ UNCHANGED <<log, events, copied, typed>>

\* set_scratchpad: only on the revision stored last; then every window is told.
SetScratchpad(w) ==
  LET v == win[w] IN
  /\ v.pc = "set" /\ v.set = Asked
  /\ \/ /\ v.base = Stored /\ Stored < MaxNotes
        /\ log' = Append(log, v.sent)
        /\ Change(w, [v EXCEPT !.set = Call("ok", Len(log'))])
        /\ events' = [u \in Windows |-> IF win[u].gone THEN {} ELSE events[u] \cup {Len(log')}]
     \/ /\ v.base # Stored
        /\ Change(w, [v EXCEPT !.set = Call("conflict", Stored)])
        /\ UNCHANGED <<log, events>>
     \/ /\ "set" \in Failing
        /\ Change(w, [v EXCEPT !.set = Call("failed", 0)])
        /\ UNCHANGED <<log, events>>
  /\ UNCHANGED <<copied, typed>>
-----------------------------------------------------------------------------
(* The answers arrive *)

LoadEnds(w) ==
  LET v == win[w]
      u == [v EXCEPT !.load = NoCall]
      x == IF v.load.is = "ok" THEN Install(u, v.load.rev, FALSE) ELSE u IN
  /\ v.load.is \in {"ok", "failed"}
  /\ Change(w, IF x.pc # "wait" THEN x ELSE IF x.loaded THEN Send(x) ELSE [x EXCEPT !.pc = "idle"])
  /\ UNCHANGED <<log, events, copied, typed>>

StoredAlways(v) == [v EXCEPT !.rev = v.set.rev, !.loaded = TRUE, !.dirty = FALSE]
\* A write that was stored leaves the record clean unless it was edited since.
StoredOk(v) == [v EXCEPT !.rev = v.set.rev, !.loaded = TRUE, !.dirty = @ /\ v.fresh]

SetEnds(w) ==
  LET v == win[w] IN
  /\ v.pc = "set"
  /\ \/ v.set.is = "ok" /\ Change(w, Again([StoredOk(v) EXCEPT !.set = NoCall]))
     \/ v.set.is = "failed" /\ Change(w, Again([v EXCEPT !.set = NoCall]))
     \/ v.set.is = "conflict" /\ Change(w, [v EXCEPT !.pc = "copy", !.sent = v.text])
  /\ UNCHANGED <<log, events, copied, typed>>

\* #recoverConflict: the text goes to the clipboard, then the stored one replaces
\* it; a clipboard that fails does not stop this.
CopyEnds(w) ==
  LET v == win[w] IN
  /\ v.pc = "copy"
  /\ \/ copied' = copied \cup {v.sent}
     \/ "copy" \in Failing /\ UNCHANGED copied
  /\ Change(w, Again([Install(v, v.set.rev, TRUE) EXCEPT !.set = NoCall]))
  /\ UNCHANGED <<log, events, typed>>

\* What was read is dropped when the window moved on meanwhile.
MayRefresh(v, r) == ~v.gone /\ r.is = "ok" /\ ~r.stale /\ ~v.dirty /\ v.pc = "idle" /\ r.rev > v.rev
RefreshEnds(w) ==
  /\ \E r \in win[w].reads :
       /\ r.is # "asked"
       /\ LET v == [win[w] EXCEPT !.reads = @ \ {r}] IN
          Change(w, IF MayRefresh(v, r) THEN Install(v, r.rev, TRUE) ELSE v)
  /\ UNCHANGED <<log, events, copied, typed>>

Window(w) ==
  \/ OpenPanel(w) \/ Type(w) \/ Timer(w) \/ Blur(w) \/ Dispose(w)
  \/ (\E r \in Revisions : Refresh(w, r))
  \/ GetForLoad(w) \/ GetForRefresh(w) \/ SetScratchpad(w)
  \/ LoadEnds(w) \/ SetEnds(w) \/ CopyEnds(w) \/ RefreshEnds(w)
PadNext == \E w \in Windows : Window(w)
PadSpec == PadInit /\ [][PadNext]_padvars
-----------------------------------------------------------------------------
(* Properties *)

\* A window that says "Saved" shows exactly what is stored under the revision it
\* would write on; and what it would write is what it shows.
SavedIsStored ==
  \A w \in Windows : LET v == win[w] IN
    ~v.gone /\ v.loaded => v.shown = v.text /\ (~v.dirty => v.text = Note(v.rev))

\* A window never goes back to an older note, in whatever order the reads that
\* announcements make it start are answered.
GoesOn == \A w \in Windows : ~win'[w].gone => win'[w].rev >= win[w].rev

\* A window's note and what is stored agree, from revision to revision.
NotesRight == [][GoesOn /\ SavedIsStored']_padvars

\* "The user's unsaved text is placed on the system clipboard first so nothing
\* typed is lost" (docs/superpowers/specs/2026-09-17-terminal-scratchpad-design.md:136):
\* as long as no call fails, an edit was stored or copied, is on a screen or is
\* on its way to the store.
Held(v) ==
  (IF v.pc \in {"set", "copy"} THEN v.sent ELSE {})
  \cup (IF v.gone /\ v.pc # "wait" /\ ~v.pending THEN {} ELSE v.text)
NothingTypedLost ==
  \A e \in 1..typed : \/ \E text \in Written \cup copied : e \in text
                      \/ \E w \in Windows : e \in Held(win[w])
=============================================================================
