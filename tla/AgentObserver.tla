---------------------------- MODULE AgentObserver ----------------------------
(***************************************************************************)
(* What the desktop shows of the agents at work: who waits for an answer,  *)
(* who drifts from its task, which runs share a task, which runs of        *)
(* different tasks touch the same path, which commits belong to no task.   *)
(*                                                                         *)
(* No lock covers all that a report is made of.  The reader copies the     *)
(* runs of the registry, then asks the store and the registry once more    *)
(* for each run, then looks at the claims of the coordinator and at the    *)
(* commits the store has linked; agents, users and commands change each of *)
(* these in between.                                                       *)
(*                                                                         *)
(* There is one path and one commit in git, one call is followed, and      *)
(* there are no more runs than a report shows.                             *)
(***************************************************************************)
EXTENDS Integers, Sequences, FiniteSets

CONSTANTS
  None,
  Runs,          \* the registered runs, numbered from 1
  Changing,      \* bound: the runs that others change during the call
  Tasks,
  Retained,      \* how many events of a run the registry retains and a
                 \* report asks for: INTELLIGENCE_EVENTS_PER_RUN
  NotesPerRun,   \* NOTIFICATION_EVENTS_PER_RUN
  MaxChanges     \* bound: changes made by others

VARIABLES
  live,    \* the registry: run -> it is alive
  life,    \* run -> its lifecycle revision
  assoc,   \* run -> its task and the revision of the association, or None
  events,  \* run -> its retained events, each with life and assoc as they were
  kept,    \* the store: the tasks where the associations say they are
  claims,  \* the coordinator: run -> the epoch in which it took its task, or None
  linked,  \* the store has linked the commit to a task
  reader,  \* the call that makes a report
  held,    \* what has held ever since that call began
  seen,    \* what has held at some moment since that call began
  changed  \* how many changes others have made

world == <<live, life, assoc, events, kept, claims, linked>>
observervars == <<world, reader, held, seen, changed>>

Idle == [at |-> "idle", detail |-> FALSE, run |-> 0, epochs |-> <<>>, view |-> <<>>,
         incomplete |-> FALSE, failed |-> FALSE, owned |-> {}, report |-> {}]

Epoch(r) == [life |-> life[r], assoc |-> assoc[r]]
Event(r, sort) == [life |-> life[r], assoc |-> assoc[r], sort |-> sort]
EventSorts == {"waiting", "path", "drift"}

\* A run has been at work for a while, or not, when a call comes.
ObserverInit ==
  /\ live = [r \in Runs |-> TRUE] /\ life = [r \in Runs |-> 1]
  /\ assoc \in [Runs -> {[task |-> t, rev |-> 1] : t \in Tasks}]
  /\ \E sort \in [Runs -> EventSorts \cup {None}] :
       /\ \A r \in Runs \ Changing : sort[r] \in {"path", None}
       /\ events = [r \in Runs |-> IF sort[r] = None THEN <<>> ELSE <<Event(r, sort[r])>>]
       /\ claims = [r \in Runs |-> IF sort[r] = "path" THEN Epoch(r) ELSE None]
  /\ kept = Tasks /\ linked = FALSE
  /\ reader = Idle /\ held = {} /\ seen = {} /\ changed = 0

-----------------------------------------------------------------------------
(* What holds, each fact of one moment *)

LastOf(s) == s[Len(s)]
\* Faulty variant: an event counts as long as its run lives.
CurrentLoosely(e, epoch) == e.life = epoch.life
\* An event counts for an epoch of its run only if it was recorded in it.
Current(e, epoch) == e.life = epoch.life /\ e.assoc = epoch.assoc
Own(r) == SelectSeq(events[r], LAMBDA e : Current(e, Epoch(r)))
Has(s, sort) == \E i \in DOMAIN s : s[i].sort = sort

AtWork(r) == live[r] /\ assoc[r] # None
Facts ==
  {<<"waiting", r, assoc[r]>> : r \in {x \in Runs : Has(Own(x), "waiting")}}
  \cup {<<"waiting", r, None>> : r \in {x \in Runs :
         \E i \in DOMAIN events[x] : events[x][i] = [life |-> life[x], assoc |-> None, sort |-> "waiting"]}}
  \cup {<<"drifting", r, assoc[r]>> : r \in {x \in Runs : AtWork(x) /\ Own(x) # <<>> /\ LastOf(Own(x)).sort = "drift"}}
  \cup {<<"path", r, assoc[r]>> : r \in {x \in Runs : AtWork(x) /\ Has(Own(x), "path")}}
  \cup {<<"claim", r, claims[r].assoc>> : r \in {x \in Runs : claims[x] # None}}
  \cup {<<"shared", t>> : t \in {u \in Tasks : Cardinality({r \in Runs : AtWork(r) /\ assoc[r].task = u}) > 1}}
  \cup {<<"kept", t>> : t \in kept}
  \cup (IF linked THEN {} ELSE {<<"unlinked">>})

\* Facts are gathered only while a call runs.
Gathers ==
  IF reader'.at \in {"idle", "told", "gave up"} THEN held' = {} /\ seen' = {}
  ELSE IF reader.at = "idle" THEN held' = Facts /\ seen' = Facts
  ELSE held' = held \cap Facts' /\ seen' = seen \cup Facts'

-----------------------------------------------------------------------------
(* Changes by others *)

\* Only what changes during a call matters to it.
Change ==
  /\ reader.at \notin {"idle", "told", "gave up"}
  /\ changed < MaxChanges /\ changed' = changed + 1 /\ UNCHANGED reader
  /\ Gathers

Exit(r) ==
  /\ live[r] /\ live' = [live EXCEPT ![r] = FALSE] /\ life' = [life EXCEPT ![r] = @ + 1]
  /\ UNCHANGED <<assoc, events, kept, claims, linked>>
  /\ Change

Associate(r, t) ==
  /\ live[r] /\ t # (IF assoc[r] = None THEN None ELSE assoc[r].task)
  /\ assoc' = [assoc EXCEPT ![r] = IF t = None THEN None ELSE [task |-> t, rev |-> changed + 2]]
  /\ UNCHANGED <<live, life, events, kept, claims, linked>>
  /\ Change

Retain(s) == IF Len(s) > Retained THEN Tail(s) ELSE s
RecordEvent(r, sort) ==
  /\ live[r] /\ events' = [events EXCEPT ![r] = Retain(Append(@, Event(r, sort)))]
  /\ UNCHANGED <<live, life, assoc, kept, claims, linked>>
  /\ Change

Claim(r) ==
  /\ AtWork(r) /\ assoc[r].task \in kept /\ claims[r] # Epoch(r)
  /\ claims' = [claims EXCEPT ![r] = Epoch(r)]
  /\ UNCHANGED <<live, life, assoc, events, kept, linked>>
  /\ Change

Release(r) ==
  /\ claims[r] # None /\ claims[r] = Epoch(r)
  /\ claims' = [claims EXCEPT ![r] = None]
  /\ UNCHANGED <<live, life, assoc, events, kept, linked>>
  /\ Change

\* A task goes to another plan or another project, or comes back.
MoveTask(t) ==
  /\ kept' = IF t \in kept THEN kept \ {t} ELSE kept \cup {t}
  /\ UNCHANGED <<live, life, assoc, events, claims, linked>>
  /\ Change

Link ==
  /\ ~linked /\ linked' = TRUE
  /\ UNCHANGED <<live, life, assoc, events, kept, claims>>
  /\ Change

-----------------------------------------------------------------------------
(* A report: of a whole workspace with a deadline, or of drift alone *)

Reads(next) == reader' = next /\ UNCHANGED <<world, changed>> /\ Gathers

Begin == reader.at = "idle" /\ Reads([Idle EXCEPT !.at = "runs"])

ReadRuns ==
  /\ reader.at = "runs"
  /\ Reads([reader EXCEPT !.at = "store", !.run = 1,
       !.epochs = [r \in Runs |-> [live |-> live[r], life |-> life[r], assoc |-> assoc[r]]],
       !.view = [r \in Runs |-> [assoc |-> None, events |-> <<>>, total |-> 0]]])

\* An association counts if the store has its task where it says.  A store
\* that is busy or fails looks like one that has no such task.
ReadAssociation ==
  /\ reader.at = "store"
  /\ LET a == reader.epochs[reader.run].assoc IN
     \E answered \in BOOLEAN :
       /\ a = None \/ reader.failed => answered  \* bound: one failed read
       /\ Reads([reader EXCEPT !.at = "events", !.failed = @ \/ ~answered,
            !.view[reader.run].assoc = IF answered /\ a # None /\ a.task \in kept THEN a ELSE None])

Latest(s, n) == IF Len(s) > n THEN SubSeq(s, Len(s) - n + 1, Len(s)) ELSE s
\* The events are read with the run as it is by now; if that is in another
\* epoch than the copy, none of them counts.
ReadEvents ==
  /\ reader.at = "events"
  /\ LET r == reader.run
         epoch == [life |-> reader.epochs[r].life, assoc |-> reader.view[r].assoc]
         same == reader.epochs[r] = [live |-> reader.epochs[r].live, life |-> life[r], assoc |-> assoc[r]]
         total == IF same THEN Len(events[r]) ELSE 0 IN
     Reads([reader EXCEPT
       !.at = IF r = Cardinality(Runs) THEN "claims" ELSE "store", !.run = r + 1,
       !.incomplete = @ \/ ~same,
       !.view[r].events = IF same THEN SelectSeq(events[r], LAMBDA e : Current(e, epoch)) ELSE <<>>,
       !.view[r].total = total])

Shown(r) == reader.view[r]
ShownAtWork(r) == reader.epochs[r].live /\ Shown(r).assoc # None
\* A claim counts for the epoch it was made in.
ClaimCurrent(r) == ShownAtWork(r) /\ claims[r] = [life |-> reader.epochs[r].life, assoc |-> Shown(r).assoc]

ReadClaims ==
  /\ reader.at = "claims"
  /\ Reads([reader EXCEPT !.at = "links", !.owned = {r \in Runs : ClaimCurrent(r)}])

Notifications ==
  {<<"waiting", r, Shown(r).assoc>> :
     r \in {x \in Runs : Has(Latest(Shown(x).events, NotesPerRun), "waiting")}}
NotesIncomplete == reader.incomplete \/ \E r \in Runs : Shown(r).total > NotesPerRun

Conflicts ==
  {<<"shared", t>> : t \in {u \in Tasks : Cardinality({r \in Runs : ShownAtWork(r) /\ Shown(r).assoc.task = u}) > 1}}

Drifting ==
  {<<"drifting", r, Shown(r).assoc>> :
     r \in {x \in Runs : ShownAtWork(x) /\ Shown(x).events # <<>> /\ LastOf(Shown(x).events).sort = "drift"}}

\* Live runs that own their tasks and have evidence of the path, if these are
\* runs of two tasks at least.
Overlap ==
  LET with == {r \in reader.owned : Has(Shown(r).events, "path")} IN
  IF Cardinality({Shown(r).assoc.task : r \in with}) > 1
  THEN {<<"overlap", r, Shown(r).assoc>> : r \in with}
  ELSE {}

Unlinked(known) == IF known /\ linked THEN {} ELSE {<<"unlinked">>}

\* A store that fails looks like one that has linked nothing when drift alone
\* is asked for; the report of a workspace fails with it: see GiveUp.
ReadLinks ==
  /\ reader.at = "links"
  /\ \E answered \in BOOLEAN :
       /\ reader.failed => answered
       /\ reader' = [reader EXCEPT !.at = "told", !.failed = @ \/ ~answered,
            !.report = Notifications \cup Conflicts \cup Drifting \cup Overlap \cup Unlinked(answered)]
  /\ UNCHANGED <<world, changed, held, seen>>

\* The deadline passes, the store fails, or the generation closes.
GiveUp ==
  /\ reader.at \in {"runs", "links", "suggest"}
  /\ reader' = [Idle EXCEPT !.at = "gave up"] /\ held' = {} /\ seen' = {} /\ UNCHANGED <<world, changed>>

-----------------------------------------------------------------------------
(* The detail of one run, or a handoff of it *)

\* The run is copied together with its events.
BeginDetail(r) ==
  /\ reader.at = "idle"
  /\ Reads([Idle EXCEPT !.at = "detail", !.detail = TRUE, !.run = r,
       !.epochs = [x \in {r} |-> [live |-> live[r], life |-> life[r], assoc |-> assoc[r]]],
       !.view = [x \in {r} |-> [assoc |-> None, events |-> events[r], total |-> Len(events[r])]]])

DetailEvents(r, shown) ==
  SelectSeq(Shown(r).events, LAMBDA e : Current(e, [life |-> reader.epochs[r].life, assoc |-> shown]))

ReadDetail ==
  /\ reader.at = "detail"
  /\ LET r == reader.run
         a == reader.epochs[r].assoc IN
     \E shown \in {IF a # None /\ a.task \in kept THEN a ELSE None, None} :
       Reads([reader EXCEPT !.at = "suggest", !.view[r].assoc = shown,
         !.view[r].events = DetailEvents(r, shown)])

\* The store names the task, if it is still there, and what was decided on it.
Suggest ==
  /\ reader.at = "suggest"
  /\ LET a == Shown(reader.run).assoc IN
     reader' = [reader EXCEPT !.at = "told", !.report = IF a # None /\ a.task \in kept THEN {<<"kept", a.task>>} ELSE {}]
  /\ UNCHANGED <<world, changed, held, seen>>

-----------------------------------------------------------------------------
OthersNext ==
  \/ \E r \in Changing : Exit(r) \/ Claim(r) \/ Release(r)
  \/ \E r \in Changing, t \in Tasks \cup {None} : Associate(r, t)
  \/ \E r \in Changing, sort \in EventSorts : RecordEvent(r, sort)
  \/ \E t \in Tasks : MoveTask(t)
  \/ Link

ReaderNext ==
  \/ \E r \in Changing : BeginDetail(r)
  \/ ReadDetail \/ Suggest
  \/ Begin \/ ReadRuns \/ ReadAssociation \/ ReadEvents \/ ReadClaims \/ ReadLinks \/ GiveUp

ObserverNext == OthersNext \/ ReaderNext

ObserverSpec == ObserverInit /\ [][ObserverNext]_observervars
-----------------------------------------------------------------------------
(* Properties *)

Told == reader.at = "told"

\* Whatever is reported held at some moment of the call: nobody is said to
\* wait, to drift or to touch a path on evidence of an earlier life or task of
\* its run, and runs that are said to share a task or a path had these tasks.
\* A commit is said to be unlinked wrongly only if the store could not be read.
ReportTrue ==
  Told /\ ~reader.detail => \A f \in reader.report :
    \/ f[1] \in {"waiting", "drifting"} /\ f \in seen
    \/ f[1] = "shared" /\ f \in seen /\ <<"kept", f[2]>> \in seen
    \/ f[1] = "overlap" /\ {<<"path", f[2], f[3]>>, <<"claim", f[2], f[3]>>, <<"kept", f[3].task>>} \subseteq seen
    \/ f[1] = "unlinked" /\ (f \in seen \/ reader.failed)

\* A report that does not say it is incomplete, made without a failed read of
\* the store, leaves out nothing that held throughout the call.
ReportComplete ==
  Told /\ ~reader.detail /\ ~reader.failed /\ ~reader.incomplete =>
    LET lasting(sort) == {f \in held : f[1] = sort /\ (f[3] = None \/ <<"kept", f[3].task>> \in held)}
        touching == {f \in lasting("path") : <<"claim", f[2], f[3]>> \in held} IN
    /\ lasting("drifting") \subseteq reader.report
    /\ NotesIncomplete \/ {f \in lasting("waiting") : \A g \in held : g[1] = "waiting" /\ g[2] = f[2] => g = f} \subseteq reader.report
    /\ \A t \in Tasks : {<<"shared", t>>, <<"kept", t>>} \subseteq held => <<"shared", t>> \in reader.report
    /\ Cardinality({f[3].task : f \in touching}) > 1
         => \A f \in touching : <<"overlap", f[2], f[3]>> \in reader.report
    /\ <<"unlinked">> \in held => <<"unlinked">> \in reader.report

\* The detail of a run, and what is handed over of it, rests on events of the
\* task it is shown with, and suggests that task or none.
DetailRight ==
  Told /\ reader.detail =>
    LET r == reader.run IN
    /\ \A i \in DOMAIN Shown(r).events :
         Shown(r).events[i].assoc = Shown(r).assoc /\ Shown(r).events[i].life = reader.epochs[r].life
    /\ Shown(r).assoc # None => Shown(r).assoc = reader.epochs[r].assoc
    /\ \A f \in reader.report : f[2] = reader.epochs[r].assoc.task

ObserverRight == ReportTrue /\ ReportComplete /\ DetailRight
=============================================================================
