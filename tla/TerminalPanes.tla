---------------------------- MODULE TerminalPanes ----------------------------
(***************************************************************************)
(* The terminal dock of the web frontend: its panes, the sessions of the     *)
(* backend they show, and the calls under way between the two.               *)
(*                                                                         *)
(* Every tab holds one pane.  A pane changes at the reply of a call it made, *)
(* at the end of a shell, at the loss of its stream and at the close of a    *)
(* window, in any order; a ticket (the pane's epoch at the time of a call)   *)
(* tells a reply that comes too late.  Tickets are numbers no pane and no    *)
(* call uses: the code only compares them.                                   *)
(***************************************************************************)
EXTENDS Integers, Sequences, FiniteSets, SequencesExt, Functions

CONSTANTS
  Panes, None,
  MaxSessions,   \* bound: sessions that are ever created
  MaxActs        \* bound: what the user does

VARIABLES
  pane,       \* what each pane is, or None for a tab that is not there
  shell,      \* session -> what the backend has of it
  exits,      \* exits on their way to this window
  early,      \* exits kept for a pane that is opening
  popped,     \* session -> the pane that keeps its place while a window has it
  endedOut,   \* sessions that ended in a window
  ledger,     \* exits of the sessions that are moving into a window
  windows,    \* sessions that a window holds
  returns,    \* closed windows on their way to this one
  unsettled,    \* sessions to close before another is opened
  calls,      \* calls under way
  refused,    \* sessions whose close has failed
  acts

panevars == <<pane, shell, exits, early, popped, endedOut, ledger, windows, returns, unsettled, calls, refused, acts>>

Sessions == 1 .. MaxSessions
Stopped == [state |-> "closed", session |-> None, epoch |-> 0, closing |-> None, busy |-> FALSE,
            shut |-> None, stream |-> "none"]
Call(kind, p, epoch, s, pc) == [kind |-> kind, pane |-> p, epoch |-> epoch, session |-> s, pc |-> pc, was |-> 0, more |-> {}]
Used(ps, cs) == UNION {{ps[p].epoch, ps[p].shut} : p \in {q \in Panes : ps[q] # None}} \cup UNION {{c.epoch, c.was} : c \in cs}
Fresh(ps, cs) == Min((1 .. 99) \ Used(ps, cs))

There(p) == pane[p] # None
AcceptsAny(c) == There(c.pane)
Accepts(c) == There(c.pane) /\ pane[c.pane].epoch = c.epoch
Opening(ps) == {p \in Panes : ps[p] # None /\ ps[p].state = "opening" /\ ps[p].session = None}
\* pruneEarlyExits: no more exits are kept than panes wait for a session.
Prune(seq, ps) == LET n == Cardinality(Opening(ps)) IN IF Len(seq) <= n THEN seq ELSE SubSeq(seq, Len(seq) - n + 1, Len(seq))
Forget(seq, s) == SelectSeq(seq, LAMBDA x : x # s)

\* releaseLocal, then begin: a pane that starts over under another ticket.
Restarted(p) == [Stopped EXCEPT !.state = "opening", !.epoch = Fresh(pane, calls), !.busy = pane[p].busy]
TornDownKept(p) == [pane[p] EXCEPT !.epoch = Fresh(pane, calls), !.stream = "none"]
\* teardownRuntime: the pane lets go of its session, which lives on.
TornDown(p) == [Stopped EXCEPT !.epoch = Fresh(pane, calls), !.busy = pane[p].busy, !.shut = pane[p].shut]
Show(p, record) == pane' = [pane EXCEPT ![p] = record]
Act == acts < MaxActs /\ acts' = acts + 1

\* CloseTerminal: the end of a live shell is announced to every window.
BackendClose(ss) ==
  LET known == {s \in ss : shell[s] \in {"live", "ended"}} IN
  /\ shell' = [s \in Sessions |-> IF s \in known THEN "closed" ELSE shell[s]]
  /\ exits' = exits \cup {s \in known : shell[s] = "live"}
  /\ windows' = windows \ ss
-----------------------------------------------------------------------------
(* Opening *)

NewTab(p) ==
  /\ Act /\ ~There(p) /\ \A c \in calls : c.pane # p
  /\ Show(p, [Stopped EXCEPT !.epoch = Fresh(pane, calls)])
  /\ UNCHANGED <<shell, exits, early, popped, endedOut, ledger, windows, returns, unsettled, calls, refused>>

Held(p) == \E s \in Sessions : popped[s] = p
Open(p) ==
  /\ Act /\ There(p) /\ pane[p].state = "closed" /\ ~pane[p].busy /\ pane[p].closing = None /\ ~Held(p)
  /\ Show(p, [pane[p] EXCEPT !.busy = TRUE])
  /\ calls' = calls \cup {Call("open", p, 0, None, "retry")}
  /\ UNCHANGED <<shell, exits, early, popped, endedOut, ledger, windows, returns, unsettled, refused>>

\* openTerminal, past retryPending: what could not be closed is closed first,
\* or nothing is opened.
OpenBegin(c) ==
  /\ c \in calls /\ c.kind = "open" /\ c.pc = "retry"
  /\ \E closed \in IF unsettled = {} THEN {{}} ELSE {{}, unsettled} :
       /\ BackendClose(closed)
       /\ unsettled' = unsettled \ closed
       /\ IF unsettled' = {} /\ There(c.pane)
          THEN LET new == Restarted(c.pane) IN
               /\ Show(c.pane, new)
               /\ calls' = (calls \ {c}) \cup {Call("open", c.pane, new.epoch, None, "frame")}
          ELSE /\ calls' = calls \ {c}
               /\ IF There(c.pane) THEN Show(c.pane, [pane[c.pane] EXCEPT !.busy = FALSE]) ELSE UNCHANGED pane
       /\ early' = Prune(IF closed = {} THEN early ELSE SelectSeq(early, LAMBDA s : s \notin closed), pane')
  /\ UNCHANGED <<popped, endedOut, ledger, returns, refused, acts>>

\* The operation of a pane is over: it takes other ones.
Idle(ps, p) == IF ps[p] = None THEN ps ELSE [ps EXCEPT ![p].busy = FALSE]

\* The next frame: the renderer is there and the session is asked for.
OpenFrame(c) ==
  /\ c \in calls /\ c.kind = "open" /\ c.pc = "frame"
  /\ IF Accepts(c)
     THEN /\ Show(c.pane, [pane[c.pane] EXCEPT !.stream = "blank"])
          /\ calls' = (calls \ {c}) \cup {[c EXCEPT !.pc = "create"]}
     ELSE pane' = Idle(pane, c.pane) /\ calls' = calls \ {c}
  /\ UNCHANGED <<shell, exits, early, popped, endedOut, ledger, windows, returns, unsettled, refused, acts>>

CreateTerminal(c) ==
  /\ c \in calls /\ c.kind = "open" /\ c.pc = "create"
  /\ \E s \in {n \in Sessions : shell[n] = "none" /\ \A m \in 1 .. n - 1 : shell[m] # "none"} :
       /\ shell' = [shell EXCEPT ![s] = "live"]
       /\ calls' = (calls \ {c}) \cup {[c EXCEPT !.pc = "created", !.session = s]}
  /\ UNCHANGED <<pane, exits, early, popped, endedOut, ledger, windows, returns, unsettled, refused, acts>>

CreateFails(c) ==
  /\ c \in calls /\ c.kind = "open" /\ c.pc = "create"
  /\ LET torn == IF Accepts(c) THEN [pane EXCEPT ![c.pane] = [TornDown(c.pane) EXCEPT !.state = "failed"]] ELSE pane IN
     /\ pane' = Idle(torn, c.pane)
     /\ early' = Prune(early, pane')
  /\ calls' = calls \ {c}
  /\ UNCHANGED <<shell, exits, popped, endedOut, ledger, windows, returns, unsettled, refused, acts>>

\* lifecycle.close, once per pane: who asks again waits for the same close.
Closing(ps, p, more) ==
  LET ticket == Fresh(ps, calls) IN
  [call |-> [Call("close", p, ticket, ps[p].session, "close") EXCEPT !.was = ps[p].epoch, !.more = more],
   pane |-> [ps EXCEPT ![p] = [@ EXCEPT !.epoch = ticket, !.closing = ps[p].session, !.busy = TRUE, !.shut = ticket]]]

\* attachCreatedSession: a session nobody waits for any more is closed again,
\* or stays unsettled; an exit that came first is handled now.
Created(c) ==
  /\ c \in calls /\ c.kind = "open" /\ c.pc = "created"
  /\ LET s == c.session IN
     IF Accepts(c)
     THEN LET gone == \E i \in DOMAIN early : early[i] = s
              shown == [pane EXCEPT ![c.pane] = [@ EXCEPT !.session = s, !.stream = "joining", !.busy = FALSE,
                                                            !.state = IF gone THEN "exited" ELSE @]] IN
          /\ \E auto \in IF gone THEN BOOLEAN ELSE {FALSE} :
               LET then == Closing(shown, c.pane, {}) IN
               /\ pane' = IF auto THEN Idle(then.pane, c.pane) ELSE shown
               /\ calls' = (calls \ {c}) \cup (IF auto THEN {then.call} ELSE {})
          /\ early' = Prune(Forget(early, s), pane')
          /\ UNCHANGED <<shell, exits, windows, unsettled>>
     ELSE \E closed \in {{}, {s}} :
          /\ BackendClose(closed)
          /\ unsettled' = unsettled \cup ({s} \ closed)
          /\ early' = Forget(early, s)
          /\ pane' = Idle(pane, c.pane) /\ calls' = calls \ {c}
  /\ UNCHANGED <<popped, endedOut, ledger, returns, refused, acts>>
-----------------------------------------------------------------------------
(* Closing *)

Emptied(r) == [Stopped EXCEPT !.epoch = r.epoch, !.shut = r.shut]
\* What follows a close that succeeded: the tab goes, or a shell is started.
After(ps, p, more) ==
  IF "remove" \in more THEN [ps EXCEPT ![p] = None]
  ELSE IF "restart" \in more THEN [ps EXCEPT ![p].busy = TRUE, ![p].shut = None] ELSE ps
Onward(p, more) == IF "restart" \in more /\ "remove" \notin more THEN {Call("open", p, 0, None, "retry")} ELSE {}

ClosePane(p, more) ==
  LET going == {c \in calls : c.kind = "close" /\ c.pane = p /\ c.epoch = pane[p].shut} IN
  IF going # {}
  THEN /\ calls' = {IF c \in going THEN [c EXCEPT !.more = @ \cup more] ELSE c : c \in calls}
       /\ UNCHANGED pane
  ELSE IF pane[p].shut # None   \* closed before: there is nothing to do
  THEN pane' = After(pane, p, more) /\ calls' = calls \cup Onward(p, more)
  ELSE LET begun == Closing(pane, p, more) IN
       IF pane[p].session = None
       THEN /\ pane' = After([begun.pane EXCEPT ![p] = Emptied(begun.pane[p])], p, more)
            /\ calls' = calls \cup Onward(p, more)
       ELSE pane' = begun.pane /\ calls' = calls \cup {begun.call}

UserClose(p) ==
  /\ Act /\ There(p)
  /\ \/ ~pane[p].busy /\ pane[p].closing = None /\ ClosePane(p, {})
     \/ ~pane[p].busy /\ ~Held(p) /\ pane[p].state \in {"running", "exited", "failed"} /\ ClosePane(p, {"restart"})
     \/ ~Held(p) /\ ClosePane(p, {"remove"})
  /\ early' = Prune(early, pane')
  /\ UNCHANGED <<shell, exits, popped, endedOut, ledger, windows, returns, unsettled, refused>>

CloseEnds(c) ==
  /\ c \in calls /\ c.kind = "close"
  /\ LET p == c.pane  s == c.session
         mine == There(p) /\ pane[p].session = s
         left == IF mine THEN Emptied(pane[p])
                 ELSE [Emptied(pane[p]) EXCEPT !.session = pane[p].session, !.stream = pane[p].stream] IN
     /\ BackendClose({s})
     /\ pane' = IF There(p) THEN After([pane EXCEPT ![p] = left], p, c.more) ELSE pane
     /\ calls' = (calls \ {c}) \cup Onward(p, c.more)
     /\ early' = Prune(Forget(early, s), pane')
  /\ UNCHANGED <<popped, endedOut, ledger, returns, unsettled, refused, acts>>

\* rollbackInvalidation: the events of the session are heard again.
CloseFails(c) ==
  /\ c \in calls /\ c.kind = "close" /\ c.session \notin refused
  /\ refused' = refused \cup {c.session}
  /\ LET p == c.pane IN
     pane' = IF ~There(p) THEN pane ELSE
       [pane EXCEPT ![p] = [@ EXCEPT !.epoch = IF @ = c.epoch THEN c.was ELSE @,
                                      !.busy = IF pane[p].closing = c.session THEN FALSE ELSE @,
                                      !.closing = IF @ = c.session THEN None ELSE @,
                                      !.shut = IF @ = c.epoch THEN None ELSE @]]
  /\ calls' = calls \ {c}
  /\ UNCHANGED <<shell, exits, early, popped, endedOut, ledger, windows, returns, unsettled, acts>>
-----------------------------------------------------------------------------
(* Shells, streams and their events *)

Exit(s) ==
  /\ shell[s] = "live"
  /\ shell' = [shell EXCEPT ![s] = "ended"] /\ exits' = exits \cup {s}
  /\ UNCHANGED <<pane, early, popped, endedOut, ledger, windows, returns, unsettled, calls, refused, acts>>

\* The pane that keeps the place of a session in a window may start over.
Released(ps, p) ==
  IF ps[p] = None \/ ps[p].session # None \/ ps[p].state # "closed" \/ ps[p].busy THEN ps
  ELSE [ps EXCEPT ![p].state = "exited"]
Showing(s) == {p \in Panes : There(p) /\ pane[p].session = s}

\* routeTerminalExit and handleExit.
RouteExit(s) ==
  /\ s \in exits /\ exits' = exits \ {s}
  /\ IF s \in DOMAIN ledger
     THEN /\ ledger' = [ledger EXCEPT ![s] = TRUE]
          /\ UNCHANGED <<pane, early, popped, endedOut, calls>>
     ELSE /\ UNCHANGED ledger
          /\ IF popped[s] # None
             THEN /\ pane' = Released(pane, popped[s])
                  /\ popped' = [popped EXCEPT ![s] = None] /\ endedOut' = endedOut \cup {s}
                  /\ early' = Prune(early, pane') /\ UNCHANGED calls
             ELSE /\ UNCHANGED <<popped, endedOut>>
                  /\ \/ /\ Showing(s) = {} /\ UNCHANGED <<pane, calls>>
                        /\ early' = IF Opening(pane) = {} THEN early ELSE Prune(Append(Forget(early, s), s), pane)
                     \/ \E p \in Showing(s) :
                          IF pane[p].closing # None
                          THEN UNCHANGED <<pane, early, calls>>
                          ELSE /\ \E auto \in BOOLEAN :
                                    LET over == [pane EXCEPT ![p].state = "exited"]
                                        then == Closing(over, p, {}) IN
                                    IF auto THEN pane' = then.pane /\ calls' = calls \cup {then.call}
                                    ELSE pane' = over /\ UNCHANGED calls
                               /\ early' = Prune(early, pane')
  /\ UNCHANGED <<shell, windows, returns, unsettled, refused, acts>>

\* connectStream: the stream of a session that had ended is the last one.
Over(s) == shell[s] \in {"ended", "closed"}
Connected(s) == IF Over(s) THEN "final" ELSE "joining"

\* The stream of a pane: an event counts if the pane is not closing.
Streaming(p, at) == There(p) /\ pane[p].stream \in at /\ pane[p].closing = None
StreamOpens(p) ==
  /\ Streaming(p, {"joining", "final"})
  /\ Show(p, [pane[p] EXCEPT !.stream = IF @ = "final" THEN @ ELSE "open", !.state = IF @ = "opening" THEN "running" ELSE @])
  /\ early' = Prune(early, pane')
  /\ UNCHANGED <<shell, exits, popped, endedOut, ledger, windows, returns, unsettled, calls, refused, acts>>

\* streamCloseDisposition: the output has ended, or the stream is asked for again.
Disposition(p) ==
  LET st == pane[p] IN
  IF st.stream = "final" THEN {"ended"}
  ELSE {IF st.state \in {"opening", "running"} THEN "reclaim" ELSE "lost"}
         \cup IF st.stream = "open" /\ Over(st.session) THEN {"ended"} ELSE {}
StreamCloses(p) ==
  /\ Streaming(p, {"joining", "open", "final"})
  /\ \E disposition \in Disposition(p) :
       /\ Show(p, [pane[p] EXCEPT !.stream = "down",
                                   !.state = IF disposition = "ended" /\ @ \in {"opening", "running"} THEN "exited" ELSE @])
       /\ calls' = IF disposition # "reclaim" \/ \E c \in calls : c.kind = "again" /\ c.pane = p /\ Accepts(c) THEN calls
                   ELSE calls \cup {Call("again", p, pane[p].epoch, pane[p].session, "wait")}
  /\ early' = Prune(early, pane')
  /\ UNCHANGED <<shell, exits, popped, endedOut, ledger, windows, returns, unsettled, refused, acts>>

\* reclaimStream: while the pane still owns its session, for some attempts.
Reclaimable(c) ==
  /\ Accepts(c) /\ pane[c.pane].session = c.session /\ pane[c.pane].closing = None
  /\ pane[c.pane].state \in {"opening", "running"}
Reclaim(c) ==
  /\ c \in calls /\ c.kind = "again"
  /\ \/ /\ ~Reclaimable(c)
        /\ calls' = calls \ {c} /\ UNCHANGED pane
     \/ /\ Reclaimable(c) /\ shell[c.session] \in {"live", "ended"}
        /\ Show(c.pane, [pane[c.pane] EXCEPT !.stream = Connected(c.session), !.state = "running"])
        /\ calls' = calls \ {c}
     \/ /\ Reclaimable(c)      \* the attempts are used up
        /\ Show(c.pane, [pane[c.pane] EXCEPT !.state = "failed"])
        /\ calls' = calls \ {c}
  /\ early' = Prune(early, pane')
  /\ UNCHANGED <<shell, exits, popped, endedOut, ledger, windows, returns, unsettled, refused, acts>>
-----------------------------------------------------------------------------
(* Windows *)

\* popOutTab: the pane lets go of its session before the window is opened.
PopOut(p) ==
  /\ Act /\ There(p) /\ pane[p].state = "running" /\ pane[p].session # None
  /\ ~pane[p].busy /\ pane[p].closing = None
  /\ ledger' = [s \in {pane[p].session} |-> FALSE]
  /\ Show(p, [TornDown(p) EXCEPT !.busy = TRUE])
  /\ calls' = calls \cup {Call("window", p, 0, pane[p].session, "open")}
  /\ UNCHANGED <<shell, exits, early, popped, endedOut, windows, returns, unsettled, refused>>

Told(s) == s \in DOMAIN ledger /\ ledger[s]
NoLedger == [s \in {} |-> FALSE]
WindowOpens(c) ==
  /\ c \in calls /\ c.kind = "window" /\ c.pc = "open" /\ shell[c.session] \in {"live", "ended"}
  /\ windows' = windows \cup {c.session}
  /\ LET held == IF There(c.pane) THEN [pane EXCEPT ![c.pane].state = "closed"] ELSE pane IN
     IF Told(c.session)
     THEN /\ pane' = Idle(Released(held, c.pane), c.pane)
          /\ endedOut' = endedOut \cup {c.session} /\ UNCHANGED popped
     ELSE pane' = Idle(held, c.pane) /\ popped' = [popped EXCEPT ![c.session] = c.pane] /\ UNCHANGED endedOut
  /\ ledger' = NoLedger /\ calls' = calls \ {c}
  /\ early' = Prune(early, pane')
  /\ UNCHANGED <<shell, exits, returns, unsettled, refused, acts>>

\* claimSessionIntoPane: under a new ticket, with a new renderer.
Claiming(p, s, pc) == LET new == [Restarted(p) EXCEPT !.stream = "blank"] IN
  /\ Show(p, new)
  /\ calls' = {c \in calls : ~(c.kind = "window" /\ c.session = s)} \cup {Call("claim", p, new.epoch, s, pc)}

\* The window could not be opened: the pane takes its session back.
WindowFails(c) ==
  /\ c \in calls /\ c.kind = "window" /\ c.pc = "open"
  /\ IF There(c.pane)
     THEN Claiming(c.pane, c.session, "reclaim") /\ UNCHANGED ledger
     ELSE calls' = calls \ {c} /\ ledger' = NoLedger /\ UNCHANGED pane
  /\ UNCHANGED <<shell, exits, early, popped, endedOut, windows, returns, unsettled, refused, acts>>

Claim(c) ==
  /\ c \in calls /\ c.kind = "claim"
  /\ \E granted \in {FALSE} \cup {shell[c.session] \in {"live", "ended"}} :
       LET p == c.pane
           back == c.pc = "reclaim"
           shown == IF granted /\ Accepts(c)
                      THEN [pane EXCEPT ![p] = [@ EXCEPT !.session = c.session, !.stream = Connected(c.session)]]
                    ELSE IF granted THEN pane
                    ELSE LET torn == IF Accepts(c) THEN [pane EXCEPT ![p] = TornDown(p)] ELSE pane IN
                         IF back /\ There(p) THEN [torn EXCEPT ![p].state = "failed"] ELSE torn
           told == back /\ Told(c.session) /\ There(p) /\ shown[p].session = c.session /\ shown[p].closing = None
           over == IF told THEN [shown EXCEPT ![p].state = "exited"] ELSE shown IN
       /\ pane' = IF back THEN Idle(over, p) ELSE over
       /\ early' = Prune(early, pane')
  /\ calls' = calls \ {c}
  /\ ledger' = IF c.pc = "reclaim" THEN NoLedger ELSE ledger
  /\ UNCHANGED <<shell, exits, popped, endedOut, windows, returns, unsettled, refused, acts>>

\* The user closes a window; its sessions live on.
CloseWindow(s) ==
  /\ Act /\ s \in windows
  /\ windows' = windows \ {s} /\ returns' = returns \cup {s}
  /\ UNCHANGED <<pane, shell, exits, early, popped, endedOut, ledger, unsettled, calls, refused>>

\* popTerminalBackIn: into the pane that kept the place, if it still does.
PopBackIn(s) ==
  /\ s \in returns /\ returns' = returns \ {s}
  /\ LET p == popped[s] IN
     IF p # None /\ There(p) /\ pane[p].session = None /\ pane[p].state = "closed" /\ ~pane[p].busy
     THEN /\ Claiming(p, s, "return") /\ popped' = [popped EXCEPT ![s] = None]
          /\ UNCHANGED <<shell, exits, endedOut>>
     ELSE /\ UNCHANGED <<pane, calls>>
          /\ IF p = None /\ s \notin endedOut THEN UNCHANGED <<shell, exits, popped, endedOut>>
             ELSE \E closed \in {{}, {s}} :
                    LET known == {x \in closed : shell[x] \in {"live", "ended"}} IN
                    /\ shell' = [x \in Sessions |-> IF x \in known THEN "closed" ELSE shell[x]]
                    /\ exits' = exits \cup {x \in known : shell[x] = "live"}
                    /\ popped' = [popped EXCEPT ![s] = None] /\ endedOut' = endedOut \ {s}
  /\ UNCHANGED <<early, ledger, windows, unsettled, refused, acts>>
-----------------------------------------------------------------------------
PanesInit ==
  /\ pane = [p \in Panes |-> [Stopped EXCEPT !.epoch = 1]] /\ shell = [s \in Sessions |-> "none"]
  /\ exits = {} /\ early = <<>> /\ popped = [s \in Sessions |-> None] /\ endedOut = {} /\ ledger = NoLedger
  /\ windows = {} /\ returns = {} /\ unsettled = {} /\ calls = {} /\ refused = {} /\ acts = 0
PanesNext ==
  \/ \E p \in Panes : NewTab(p) \/ Open(p) \/ UserClose(p) \/ StreamOpens(p) \/ StreamCloses(p) \/ PopOut(p)
  \/ \E c \in calls : OpenBegin(c) \/ OpenFrame(c) \/ CreateTerminal(c) \/ CreateFails(c) \/ Created(c) \/ CloseEnds(c)
                        \/ CloseFails(c) \/ Reclaim(c) \/ WindowOpens(c) \/ WindowFails(c) \/ Claim(c)
  \/ \E s \in Sessions : Exit(s) \/ RouteExit(s) \/ CloseWindow(s) \/ PopBackIn(s)

-----------------------------------------------------------------------------
\* A session is rendered in one place: by a single pane, and by none while a
\* window has it.
OneRenderer ==
  \A s \in Sessions :
    LET shown == {p \in Panes : There(p) /\ pane[p].session = s} IN
    Cardinality(shown) <= 1 /\ (s \in windows => shown = {})

\* A close that is remembered is a close of the session the pane shows now:
\* else the pane would go and leave its shell running.
CloseMeant ==
  \A p \in Panes : There(p) /\ pane[p].session # None /\ pane[p].shut # None =>
    \E c \in calls : c.kind = "close" /\ c.epoch = pane[p].shut /\ c.session = pane[p].session

\* A pane that says its shell runs will hear when it has ended: the exit is on
\* its way or the end of the stream is still to come, unless the exit came
\* while a close that failed was under way.
ExitHeard ==
  \A p \in Panes : There(p) /\ pane[p].session # None /\ pane[p].closing = None =>
    LET s == pane[p].session IN
    pane[p].state \in {"opening", "running"} /\ Over(s) =>
      s \in exits \cup refused \/ pane[p].stream \in {"joining", "open", "final"}
        \/ \E c \in calls : c.kind = "again" /\ c.pane = p /\ Reclaimable(c)

\* A pane that keeps the place of a session in a window hears of its end.
HeldHears ==
  \A s \in Sessions : popped[s] # None /\ Over(s) => s \in exits

\* The panes of a dock at large.
PanesSafe == OneRenderer /\ CloseMeant /\ ExitHeard
=============================================================================
