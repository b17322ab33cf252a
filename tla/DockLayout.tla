------------------------------ MODULE DockLayout ------------------------------
(***************************************************************************)
(* The layout of the terminal dock: its tabs, the tree of panes of each, and *)
(* the copy of both that the browser keeps for the project.                  *)
(*                                                                         *)
(* A tree is the set of the paths from its root: a pane stands at the end of *)
(* one, a split where two part; <<1, 2>> is the second part of the first.    *)
(* Titles, ratios and descriptors are left out: a change of one marks the    *)
(* layout as changed.  Ids are random in the code; here they are the least   *)
(* ones that nothing uses.                                                   *)
(***************************************************************************)
EXTENDS Integers, Sequences, SequencesExt, Functions

CONSTANTS
  None,
  MaxTabs, MaxPanes, MaxDepth,   \* maximumWorkspaceTabs, maximumPanesPerTab, maximumPaneDepth
  MaxDone                        \* bound: what the user does

VARIABLES
  lay,        \* the layout that is shown
  saved,      \* the copy in the browser, or None
  dirty,      \* the scheduler: something is to be written, and timers run
  runtimes,   \* panes the dock keeps a runtime for
  linked,     \* panes whose session an agent launch made
  launches,   \* agent launches whose tab is staged
  closes,     \* closes the user confirmed, whose sessions are being closed
  unwritten,  \* the last write failed
  disposed,
  done

dockvars == <<lay, saved, dirty, runtimes, linked, launches, closes, unwritten, disposed, done>>

PanesOf(tab) == {tab.panes[q] : q \in DOMAIN tab.panes}
SplitsOf(tab) == {tab.splits[q] : q \in DOMAIN tab.splits}
LayPanes(l) == UNION {PanesOf(l.tabs[i]) : i \in DOMAIN l.tabs}
\* collectWorkspaceIds.
IdsOf(l) == IF l = None THEN {} ELSE UNION {{l.tabs[i].id} \cup PanesOf(l.tabs[i]) \cup SplitsOf(l.tabs[i]) : i \in DOMAIN l.tabs}
TabIds(l) == {l.tabs[i].id : i \in DOMAIN l.tabs}
Index(l, id) == CHOOSE i \in DOMAIN l.tabs : l.tabs[i].id = id
NewIds == LET used == IdsOf(lay) \cup IdsOf(saved) \cup runtimes \cup {s.tab : s \in launches} \cup {c.tab : c \in closes} IN
          SelectSeq([k \in 1 .. 30 |-> k], LAMBDA k : k \notin used)

\* firstPaneId: the pane a path ends at when it turns to the first part from here on.
FirstPane(tab, q) == tab.panes[CHOOSE x \in DOMAIN tab.panes : IsPrefix(q, x) /\ \A k \in (Len(q) + 1) .. Len(x) : x[k] = 1]
PathOf(tab, p) == CHOOSE q \in DOMAIN tab.panes : tab.panes[q] = p

\* createWorkspaceTab and createWorkspace.
NewTab(id, p, isLinked) == [id |-> id, panes |-> (<<>> :> p), splits |-> <<>>, focus |-> p, linked |-> isLinked]
Fresh == [tabs |-> <<NewTab(NewIds[1], NewIds[2], FALSE)>>, active |-> NewIds[1]]

\* What validateWorkspace asks of a layout.
Tree(tab) ==
  /\ DOMAIN tab.splits = UNION {{SubSeq(q, 1, n) : n \in 0 .. Len(q) - 1} : q \in DOMAIN tab.panes}
  /\ \A q \in DOMAIN tab.splits : q \notin DOMAIN tab.panes /\ {q \o <<1>>, q \o <<2>>} \subseteq DOMAIN tab.splits \cup DOMAIN tab.panes
IsWorkspace(l) ==
  /\ Len(l.tabs) \in 1 .. MaxTabs /\ l.active \in TabIds(l)
  /\ \A i \in DOMAIN l.tabs : LET tab == l.tabs[i] IN
       /\ Tree(tab) /\ tab.focus \in PanesOf(tab)
       /\ Cardinality(DOMAIN tab.panes) <= MaxPanes /\ \A q \in DOMAIN tab.panes : Len(q) < MaxDepth
  /\ Cardinality(IdsOf(l)) = FoldSeq(LAMBDA t, n : n + 1 + Cardinality(DOMAIN t.panes) + Cardinality(DOMAIN t.splits), 0, l.tabs)
-----------------------------------------------------------------------------
(* The reducer: what each action makes of a layout *)

WithTab(l, tab) == [l EXCEPT !.tabs[Index(l, tab.id)] = tab]
CanCreate(l) == Len(l.tabs) < MaxTabs
CreateTab(l, isLinked) ==
  [tabs |-> Append(l.tabs, NewTab(NewIds[1], NewIds[2], isLinked)), active |-> NewIds[1]]
ReorderTab(l, i, j) == [l EXCEPT !.tabs = InsertAt(RemoveAt(@, i), j, @[i])]

\* cloneNode: every part of the copy has an id of its own, and the copy no link.
DuplicateTab(l, i) ==
  LET from == l.tabs[i]
      ids == SetToSeq(DOMAIN from.panes)
      n == Len(ids)
      panes == [q \in DOMAIN from.panes |-> NewIds[1 + CHOOSE k \in 1 .. n : ids[k] = q]]
      inner == SetToSeq(DOMAIN from.splits)
      copy == [id |-> NewIds[1], panes |-> panes, linked |-> FALSE, focus |-> panes[PathOf(from, from.focus)],
               splits |-> [q \in DOMAIN from.splits |-> NewIds[1 + n + CHOOSE k \in DOMAIN inner : inner[k] = q]]] IN
  [tabs |-> InsertAt(l.tabs, i + 1, copy), active |-> copy.id]

CloseTab(l, id) ==
  LET i == Index(l, id)
      tabs == RemoveAt(l.tabs, i) IN
  [tabs |-> tabs, active |-> IF l.active = id THEN tabs[Min({i, Len(tabs)})].id ELSE l.active]

CanSplit(tab, p) == ~tab.linked /\ Cardinality(DOMAIN tab.panes) < MaxPanes /\ Len(PathOf(tab, p)) + 1 < MaxDepth
SplitPane(tab, p) ==
  LET q == PathOf(tab, p)
      new == NewIds[1] IN
  [tab EXCEPT !.panes = [x \in (DOMAIN @ \ {q}) \cup {q \o <<1>>, q \o <<2>>} |->
                           IF x = q \o <<1>> THEN p ELSE IF x = q \o <<2>> THEN new ELSE @[x]],
              !.splits = (q :> NewIds[2]) @@ @, !.focus = new]

\* removePane: the other part of the split takes its place.
ClosePane(tab, p) ==
  LET q == PathOf(tab, p)
      up == Front(q)
      other == up \o <<3 - Last(q)>>
      moved(f, S) == [x \in {IF IsPrefix(other, y) THEN up \o SubSeq(y, Len(other) + 1, Len(y)) ELSE y : y \in S} |->
                        IF IsPrefix(up, x) THEN f[other \o SubSeq(x, Len(up) + 1, Len(x))] ELSE f[x]] IN
  [tab EXCEPT !.panes = moved(@, DOMAIN @ \ {q}), !.splits = moved(@, DOMAIN @ \ {up}),
              !.focus = IF @ = p THEN FirstPane(tab, other) ELSE @]
-----------------------------------------------------------------------------
(* Writing the layout down *)

\* A tab is staged: nothing is written.
Staged == launches # {}
\* flush: what is due is written, or not when a tab is staged or the browser refuses.
Flush(l, isDirty, staged) ==
  IF ~isDirty \/ staged THEN /\ dirty' = FALSE /\ UNCHANGED <<saved, unwritten>>
  ELSE /\ dirty' = FALSE
       /\ \/ saved' = l /\ unwritten' = FALSE
          \/ UNCHANGED saved /\ unwritten' = TRUE
\* A change that is shown: reconcileWorkspace, then the scheduler is told.
Shown(l, removed) ==
  /\ lay' = l
  /\ runtimes' = (runtimes \ removed) \cup LayPanes(l)
  /\ linked' = linked \ removed
Later == dirty' = TRUE /\ UNCHANGED <<saved, unwritten>>

Act == ~disposed /\ done < MaxDone /\ done' = done + 1
Calls == UNCHANGED <<launches, closes>>
Dispatch(l) == Act /\ Shown(l, {}) /\ Later /\ Calls /\ UNCHANGED disposed

Timer == dirty /\ ~disposed /\ Flush(lay, TRUE, Staged) /\ UNCHANGED <<lay, runtimes, linked, launches, closes, disposed, done>>
\* Another title, profile or ratio; the end of a drag and a hidden document write at once.
Retouch == Act /\ (Later \/ Flush(lay, TRUE, Staged)) /\ UNCHANGED <<lay, runtimes, linked, launches, closes, disposed>>

UserCreates == CanCreate(lay) /\ Dispatch(CreateTab(lay, FALSE))
UserSelects == \E id \in TabIds(lay) \ {lay.active} : Dispatch([lay EXCEPT !.active = id])
UserReorders == \E i, j \in DOMAIN lay.tabs : i # j /\ Dispatch(ReorderTab(lay, i, j))
UserDuplicates == \E i \in DOMAIN lay.tabs : CanCreate(lay) /\ Dispatch(DuplicateTab(lay, i))
UserFocuses ==
  \E i \in DOMAIN lay.tabs : \E p \in PanesOf(lay.tabs[i]) \ {lay.tabs[i].focus} :
    Dispatch([WithTab(lay, [lay.tabs[i] EXCEPT !.focus = p]) EXCEPT !.active = lay.tabs[i].id])
\* Not in a pane that a launch made, nor in a tab that has an association.
UserSplits ==
  \E i \in DOMAIN lay.tabs : \E p \in PanesOf(lay.tabs[i]) \ linked :
    CanSplit(lay.tabs[i], p) /\ Dispatch(WithTab(lay, SplitPane(lay.tabs[i], p)))
\* mutateAssociation: of the selected tab with its only pane; written at once.
UserAssociates ==
  LET tab == lay.tabs[Index(lay, lay.active)] IN
  /\ Act /\ DOMAIN tab.splits = {} /\ tab.id \notin {s.tab : s \in launches}
  /\ LET l == WithTab(lay, [tab EXCEPT !.linked = ~@]) IN Shown(l, {}) /\ Flush(l, TRUE, Staged)
  /\ Calls /\ UNCHANGED disposed
-----------------------------------------------------------------------------
(* Closing: first the sessions, then the layout *)

CloseBegin ==
  /\ Act
  /\ \E i \in DOMAIN lay.tabs :
       \/ closes' = closes \cup {[tab |-> lay.tabs[i].id, panes |-> PanesOf(lay.tabs[i]), kind |-> "tab"]}
       \/ \E p \in PanesOf(lay.tabs[i]) : closes' = closes \cup {[tab |-> lay.tabs[i].id, panes |-> {p}, kind |-> "pane"]}
  /\ UNCHANGED <<lay, saved, dirty, runtimes, linked, launches, unwritten, disposed>>

\* What is closed now: the tab must not be the last one, nor the pane the last of its tab.
Closable(c) ==
  /\ ~disposed /\ c.tab \in TabIds(lay)
  /\ LET tab == lay.tabs[Index(lay, c.tab)] IN
     IF c.kind = "tab" THEN Len(lay.tabs) > 1 ELSE Cardinality(DOMAIN tab.panes) > 1 /\ c.panes \subseteq PanesOf(tab)
Closed(c) ==
  IF c.kind = "tab" THEN CloseTab(lay, c.tab)
  ELSE WithTab(lay, ClosePane(lay.tabs[Index(lay, c.tab)], CHOOSE p \in c.panes : TRUE))
CloseEnds ==
  \E c \in closes :
    /\ closes' = closes \ {c}
    /\ IF Closable(c) THEN Shown(Closed(c), c.panes) /\ Later ELSE UNCHANGED <<lay, runtimes, linked, saved, dirty, unwritten>>
    /\ UNCHANGED <<launches, disposed, done>>
CloseFails == \E c \in closes : closes' = closes \ {c} /\ UNCHANGED <<lay, saved, dirty, runtimes, linked, launches, unwritten, disposed, done>>

\* resetTerminalWorkspace: every session is closed, then all begins anew,
\* unless the layout changed meanwhile.
ResetEnds ==
  /\ Act /\ Shown(Fresh, LayPanes(lay)) /\ dirty' = FALSE
  /\ \/ ~Staged /\ saved' = Fresh /\ unwritten' = FALSE
     \/ saved' = None /\ unwritten' = IF Staged THEN unwritten ELSE TRUE
  /\ Calls /\ UNCHANGED disposed
-----------------------------------------------------------------------------
(* Agent launches: the backend made a session; its tab is staged *)

LaunchCreates ==
  /\ Act /\ launches' = launches \cup {[tab |-> IF CanCreate(lay) THEN NewIds[1] ELSE 0, at |-> IF CanCreate(lay) THEN "attach" ELSE "close"]}
  /\ LET l == IF CanCreate(lay) THEN CreateTab(lay, TRUE) ELSE lay
         isDirty == CanCreate(lay) IN
     /\ Shown(l, {})
     /\ IF Staged \/ ~dirty THEN UNCHANGED <<saved, unwritten>>
        ELSE \/ saved' = lay /\ unwritten' = FALSE
             \/ UNCHANGED saved /\ unwritten' = TRUE
     /\ dirty' = isDirty
  /\ UNCHANGED <<closes, disposed>>

StagedTab(s) == lay.tabs[Index(lay, s.tab)]
ReleaseQuiet(s) == launches' = launches \ {s} /\ UNCHANGED dirty
\* The finally clause: the stage is released, and all is to be written.
Release(s) == launches' = launches \ {s} /\ (IF disposed THEN UNCHANGED dirty ELSE dirty' = TRUE)
LaunchAttaches ==
  \E s \in launches :
    /\ s.at = "attach" /\ ~disposed /\ s.tab \in TabIds(lay) /\ lay.active = s.tab
    /\ linked' = linked \cup PanesOf(StagedTab(s)) /\ Release(s)
    /\ UNCHANGED <<lay, saved, runtimes, closes, unwritten, disposed, done>>
LaunchFails ==
  \E s \in launches :
    /\ s.at = "attach" /\ launches' = (launches \ {s}) \cup {[s EXCEPT !.at = "close"]}
    /\ UNCHANGED <<lay, saved, dirty, runtimes, linked, closes, unwritten, disposed, done>>
\* The session is closed, then the tab; the last tab cannot be.
LaunchRollsBack ==
  \E s \in launches :
    /\ s.at = "close" /\ Release(s)
    /\ IF ~disposed /\ s.tab \in TabIds(lay) /\ Len(lay.tabs) > 1 THEN Shown(CloseTab(lay, s.tab), {StagedTab(s).panes[<<>>]})
       ELSE UNCHANGED <<lay, runtimes, linked>>
    /\ UNCHANGED <<saved, closes, unwritten, disposed, done>>
LaunchCloseFails ==
  \E s \in launches : s.at = "close" /\ Release(s) /\ UNCHANGED <<lay, saved, runtimes, linked, closes, unwritten, disposed, done>>
-----------------------------------------------------------------------------
(* The dock *)

Dispose ==
  /\ ~disposed /\ disposed' = TRUE /\ Flush(lay, dirty, Staged) /\ runtimes' = {} /\ linked' = {}
  /\ UNCHANGED <<lay, launches, closes, done>>
\* A dock is mounted again, after a disposal or after the page was killed.
Mount ==
  /\ done < MaxDone /\ done' = done + 1
  /\ lay' = IF saved = None THEN Fresh ELSE saved
  /\ runtimes' = LayPanes(lay') /\ linked' = {} /\ launches' = {} /\ closes' = {} /\ disposed' = FALSE
  /\ dirty' = FALSE /\ unwritten' = FALSE /\ UNCHANGED saved

DockInit ==
  /\ lay = [tabs |-> <<NewTab(1, 2, FALSE)>>, active |-> 1] /\ saved \in {None, lay}
  /\ dirty = FALSE /\ runtimes = {2} /\ linked = {} /\ launches = {} /\ closes = {}
  /\ unwritten = FALSE /\ disposed = FALSE /\ done = 0
DockNext ==
  \/ Timer \/ Retouch \/ UserCreates \/ UserSelects \/ UserReorders \/ UserDuplicates \/ UserFocuses \/ UserSplits
  \/ UserAssociates \/ CloseBegin \/ CloseEnds \/ CloseFails \/ ResetEnds
  \/ LaunchCreates \/ LaunchAttaches \/ LaunchFails \/ LaunchRollsBack \/ LaunchCloseFails \/ Dispose \/ Mount

-----------------------------------------------------------------------------
\* Whatever the user does and in whatever order closes and launches end, the
\* layout stays one: the reducer's last check (isWorkspace) never has to throw
\* an action away, and what is written can be read again.
LayoutSound == IsWorkspace(lay) /\ (saved # None => IsWorkspace(saved))

\* The tab of a launch is not written down while its session may still be
\* closed again.
StagedNotSaved == \A s \in launches : saved # None => s.tab \notin TabIds(saved)

\* What is shown is written down soon: when it differs from the copy, a timer
\* runs, a stage will start one, or the browser refused.
SavedSoon == ~disposed /\ saved # None /\ saved # lay => dirty \/ Staged \/ unwritten

\* What the dock writes down can be read again, is up to date, and has no tab
\* whose session may yet be taken back.
DockSafe == LayoutSound /\ StagedNotSaved /\ SavedSoon

\* reconcileWorkspace reports a pane that left the layout with its runtime.
NoRuntimeLeft == ~disposed => runtimes \subseteq LayPanes(lay)
=============================================================================
