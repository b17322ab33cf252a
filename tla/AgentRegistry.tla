--------------------------- MODULE AgentRegistry ---------------------------
(***************************************************************************)
(* The registry of agent runs of one open project and its history file.    *)
(*                                                                         *)
(* Every operation holds the registry's mutex for its whole body, but for  *)
(* three: reporting an event looks at the caller's authority, lets the     *)
(* mutex go to normalise the payload and commits later; waiting for a      *)
(* token to be bound sleeps on a signal of its own; and the flusher thread *)
(* sleeps between the request of a write and the write.  A sweeper thread  *)
(* expires leases and retries writes.  The history is replaced atomically, *)
(* may fail to be written, may be taken over by a newer version of the     *)
(* program, and is what is left after a crash.                             *)
(*                                                                         *)
(* Times are left out: a lease is late or it is not, and which inactive    *)
(* run is the one to evict is left open.  Run ids and tokens are random,   *)
(* so never used twice: they are numbered.  A fence that keeps new     *)
(* runs out for a while is that none is registered.                        *)
(***************************************************************************)
EXTENDS Integers, Sequences, FiniteSets, FiniteSetsExt

CONSTANTS
  Terminal,    \* terminals that launched runs belong to
  NoCall, External,
  MaxRun, MaxToken, \* bounds on the runs and the event tokens ever made
  MaxRecords,  \* the registry's capacity
  RetainLast,  \* how many events of a run are kept
  MaxSource,   \* bound on the sequence numbers of the reporting adapters
  MaxRev,      \* bound on the lives of a run
  MaxFault     \* bound on failed writes, crashes and takeovers

ASSUME RegistryAssumption ==
  /\ External \notin Terminal
  /\ MaxRun \in Nat /\ MaxToken \in Nat
  /\ MaxRecords \in Nat \ {0} /\ RetainLast \in Nat \ {0}
  /\ MaxSource \in Nat /\ MaxRev \in Nat /\ MaxFault \in Nat

VARIABLES
  runs,     \* the registered runs: their ids -> records
  made, issued, \* how many runs and tokens have been made
  pending,  \* the tokens issued and not yet bound
  bound,    \* the bound tokens -> their runs
  waiting,  \* the tokens somebody waits for
  ready,    \* those of them whose signal was raised
  call,     \* a report of an event between its two critical sections
  phase,    \* "off", "up", "closed", "joined" or "down"
  flush,    \* the flusher: "idle", "debounce", "write" or "stopped"
  asked,    \* a write is asked of the flusher
  dirty, writable, failed, \* persistence_dirty, _writable, _error
  disk,     \* the history file: whether a newer version wrote it, its records
  faults    \* how many faults there have been

Run == 1..MaxRun
Token == 1..MaxToken
NoToken == 0

tokens == <<issued, pending, bound, waiting, ready>>
history == <<dirty, writable, failed, disk, faults>>
flusher == <<flush, asked>>
vars == <<runs, made, tokens, call, phase, flusher, history>>

Active(r) == runs[r].state = "running"
Launched(r) == runs[r].term # External
IsUp == phase # "off"

-----------------------------------------------------------------------------
(* The history file *)

\* What is saved of a record: neither its token, nor its terminal link, nor
\* its revision.
Saved(rs) == [r \in DOMAIN rs |->
  [term |-> rs[r].term, state |-> rs[r].state, events |-> rs[r].events,
   source |-> rs[r].source, host |-> rs[r].host]]

Written(rs) ==
  /\ disk' = [newer |-> FALSE, recs |-> Saved(rs)]
  /\ dirty' = FALSE /\ failed' = FALSE
  /\ UNCHANGED <<writable, faults>>

\* A failure before the rename leaves the old file, one to secure the new
\* file removes it, one to sync the directory leaves it.
WriteFails(rs) ==
  /\ faults < MaxFault /\ faults' = faults + 1
  /\ disk' \in {disk, [newer |-> FALSE, recs |-> <<>>], [newer |-> FALSE, recs |-> Saved(rs)]}
  /\ dirty' = TRUE /\ failed' = TRUE
  /\ UNCHANGED writable

Persist(rs) ==
  IF ~writable THEN UNCHANGED history
  ELSE IF disk.newer
       THEN /\ writable' = FALSE /\ dirty' = FALSE /\ failed' = FALSE
            /\ UNCHANGED <<disk, faults>>
       ELSE Written(rs) \/ WriteFails(rs)

SchedulePersist ==
  /\ IF writable THEN dirty' = TRUE /\ asked' = TRUE ELSE UNCHANGED <<dirty, asked>>
  /\ UNCHANGED <<writable, failed, disk, faults, flush>>

-----------------------------------------------------------------------------
(* Runs *)

Without(rs, gone) == [r \in DOMAIN rs \ gone |-> rs[r]]
Unbound(gone) == [t \in {t \in DOMAIN bound : bound[t] \notin gone} |-> bound[t]]

New(t, linked) ==
  [term |-> t, linked |-> linked, state |-> "running", late |-> FALSE, rev |-> 1,
   token |-> NoToken, events |-> <<>>, source |-> 0, host |-> 0]

\* Registers a launched run on a terminal or an external one; when the
\* registry is full an inactive run makes room or the new one is refused.
Register(r, t, linked) ==
  /\ phase = "up"
  /\ r = made + 1 /\ r \in Run /\ (linked => t # External)
  /\ \E gone \in {{}} \cup {{o} : o \in {o \in DOMAIN runs : ~Active(o)}} :
       /\ gone = {} <=> Cardinality(DOMAIN runs) < MaxRecords
       /\ runs' = [o \in (DOMAIN runs \ gone) \cup {r} |-> IF o = r THEN New(t, linked) ELSE runs[o]]
       /\ bound' = Unbound(gone)
  /\ made' = r
  /\ Persist(runs')
  /\ UNCHANGED <<issued, pending, waiting, ready, call, phase, flusher>>

TakeOut(gone) ==
  /\ IsUp /\ gone # {}
  /\ runs' = Without(runs, gone) /\ bound' = Unbound(gone)
  /\ Persist(runs')
  /\ UNCHANGED <<made, issued, pending, waiting, ready, call, phase, flusher>>

\* A launch that fails takes its run back, by id and terminal.
RollbackLaunched(r, t, linked) ==
  r \in DOMAIN runs /\ Launched(r) /\ runs[r].term = t /\ runs[r].linked = linked /\ TakeOut({r})

RollbackLinkedTerminal(t) ==
  TakeOut({r \in DOMAIN runs : runs[r].linked /\ runs[r].term = t})

\* The lease is refreshed, and a run that was stale begins another life.
Heartbeat(r) ==
  /\ IsUp /\ r \in DOMAIN runs /\ ~Launched(r) /\ runs[r].state # "exited"
  /\ runs[r].rev < MaxRev
  /\ runs' = [runs EXCEPT ![r].late = FALSE, ![r].state = "running",
                          ![r].rev = IF Active(r) THEN @ ELSE @ + 1]
  /\ UNCHANGED <<made, tokens, call, phase, flusher, history>>

\* Faulty variant: leaves the token bound to the run that has ended.
ExitedKeepingToken(gone) ==
  /\ runs' = [r \in DOMAIN runs |->
       IF r \in gone THEN [runs[r] EXCEPT !.state = "exited", !.rev = @ + 1] ELSE runs[r]]
  /\ UNCHANGED bound
Exited(gone) ==
  /\ runs' = [r \in DOMAIN runs |->
       IF r \in gone THEN [runs[r] EXCEPT !.state = "exited", !.rev = @ + 1, !.token = NoToken]
                     ELSE runs[r]]
  /\ bound' = Unbound(gone)

\* The lease holder may report the exit again, the revision counts up again.
ExitExternal(r) ==
  /\ IsUp /\ r \in DOMAIN runs /\ ~Launched(r) /\ runs[r].rev < MaxRev
  /\ Exited({r})
  /\ Persist(runs')
  /\ UNCHANGED <<made, issued, pending, waiting, ready, call, phase, flusher>>

RecordTerminalExit(t) ==
  /\ IsUp /\ \E r \in DOMAIN runs : runs[r].term = t
  /\ Exited({r \in DOMAIN runs : runs[r].term = t /\ runs[r].state # "exited"})
  /\ Persist(runs')
  /\ UNCHANGED <<made, issued, pending, waiting, ready, call, phase, flusher>>

-----------------------------------------------------------------------------
(* Event tokens of launched runs *)

IssueToken(t) ==
  /\ phase = "up"
  /\ t = issued + 1 /\ t \in Token /\ Cardinality(pending) < MaxRecords
  /\ pending' = pending \cup {t} /\ issued' = t
  /\ UNCHANGED <<runs, made, bound, waiting, ready, call, phase, flusher, history>>

BindToken(t, r) ==
  /\ t \in pending /\ r \in DOMAIN runs
  /\ Launched(r) /\ Active(r) /\ runs[r].token = NoToken
  /\ pending' = pending \ {t} /\ ready' = ready \cup (waiting \cap {t})
  /\ bound' = [o \in DOMAIN bound \cup {t} |-> IF o = t THEN r ELSE bound[o]]
  /\ runs' = [runs EXCEPT ![r].token = t]
  /\ UNCHANGED <<made, issued, waiting, call, phase, flusher, history>>

Revoke(gone) ==
  /\ runs' = [r \in DOMAIN runs |->
       IF runs[r].token \in gone THEN [runs[r] EXCEPT !.token = NoToken] ELSE runs[r]]
  /\ bound' = [t \in DOMAIN bound \ gone |-> bound[t]]
  /\ UNCHANGED <<made, issued, waiting, call, phase, flusher, history>>

RevokeToken(t) ==
  /\ t \in pending \cup DOMAIN bound
  /\ pending' = pending \ {t} /\ ready' = ready \cup (waiting \cap {t})
  /\ Revoke({t})

RevokeTerminalTokens(t) ==
  /\ Revoke({runs[r].token : r \in {r \in DOMAIN runs : runs[r].term = t}})
  /\ UNCHANGED <<pending, ready>>

\* Only a pending token is waited for; the signal is taken under the mutex.
Await(t) ==
  /\ t \in pending /\ waiting' = waiting \cup {t}
  /\ UNCHANGED <<runs, made, issued, pending, bound, ready, call, phase, flusher, history>>

\* Awake by the signal or by the timeout.
Awake(t) ==
  /\ t \in waiting /\ waiting' = waiting \ {t} /\ ready' = ready \ {t}
  /\ UNCHANGED <<runs, made, issued, pending, bound, call, phase, flusher, history>>

-----------------------------------------------------------------------------
(* Events *)

\* The run that the caller may report for: by its lease, or by its token.
Authorised(c) ==
  {r \in DOMAIN runs : Active(r) /\ IF c.by = External THEN r = c.run /\ ~Launched(r)
                                    ELSE c.by \in DOMAIN bound /\ bound[c.by] = r}

\* The authority is looked at, then the payload is normalised without mutex.
BeginEvent(by, r, n) ==
  /\ IsUp /\ call = NoCall
  /\ Authorised([by |-> by, run |-> r]) # {}
  /\ call' = [by |-> by, run |-> r, source |-> n]
  /\ UNCHANGED <<runs, made, tokens, phase, flusher, history>>

Retained(s) == SubSeq(s, Len(s) - (IF Len(s) < RetainLast THEN Len(s) ELSE RetainLast) + 1, Len(s))

Event(r) == [source |-> call.source, host |-> runs[r].host + 1, rev |-> runs[r].rev]

\* Refused when the adapter's sequence number is not above the last one.
Accept(r) ==
  IF call.source <= runs[r].source
  THEN UNCHANGED <<runs, flusher, history>>
  ELSE /\ runs' = [runs EXCEPT ![r].events = Retained(Append(@, Event(r))),
                               ![r].host = @ + 1, ![r].source = call.source]
       /\ SchedulePersist

\* Faulty variant: the authority found before the normalisation is trusted.
CommitEventTrusting ==
  /\ IsUp /\ call # NoCall /\ call' = NoCall
  /\ IF call.run \in DOMAIN runs THEN Accept(call.run) ELSE UNCHANGED <<runs, flusher, history>>
  /\ UNCHANGED <<made, tokens, phase>>
CommitEvent ==
  /\ IsUp /\ call # NoCall /\ call' = NoCall
  /\ IF Authorised(call) = {} THEN UNCHANGED <<runs, flusher, history>>
     ELSE \E r \in Authorised(call) : Accept(r)
  /\ UNCHANGED <<made, tokens, phase>>

\* Reading the timeline of a run drops an event that has grown too old.
EventSnapshot(r) ==
  /\ IsUp /\ r \in DOMAIN runs /\ runs[r].events # <<>>
  /\ runs' = [runs EXCEPT ![r].events = Tail(@)]
  /\ SchedulePersist
  /\ UNCHANGED <<made, tokens, call, phase>>

-----------------------------------------------------------------------------
(* The threads *)

\* Time passes: the lease of an external run is overdue.
GrowLate(r) ==
  /\ r \in DOMAIN runs /\ ~Launched(r) /\ Active(r) /\ ~runs[r].late /\ runs[r].rev < MaxRev
  /\ runs' = [runs EXCEPT ![r].late = TRUE]
  /\ UNCHANGED <<made, tokens, call, phase, flusher, history>>

Expired == [r \in DOMAIN runs |->
  IF ~Launched(r) /\ Active(r) /\ runs[r].late
  THEN [runs[r] EXCEPT !.state = "stale", !.rev = @ + 1] ELSE runs[r]]

\* Faulty variant: does not write again what could not be written.
SweepForgetful ==
  /\ phase \in {"up", "closed", "joined"}
  /\ runs' = Expired
  /\ IF runs' # runs THEN Persist(runs') ELSE UNCHANGED history
  /\ UNCHANGED <<made, tokens, call, phase, flusher>>
\* The sweeper, at every tick: also what a snapshot of all runs does.
Sweep ==
  /\ phase \in {"up", "closed", "joined"}
  /\ runs' = Expired
  /\ IF runs' # runs \/ dirty THEN Persist(runs') ELSE UNCHANGED history
  /\ UNCHANGED <<made, tokens, call, phase, flusher>>

\* The flusher: sleeps the debounce time, lowers the request, writes.
FlusherWakes ==
  /\ flush = "idle" /\ asked /\ flush' = "debounce"
  /\ UNCHANGED <<runs, made, tokens, call, phase, asked, history>>
FlusherLowers ==
  /\ flush = "debounce" /\ flush' = "write" /\ asked' = FALSE
  /\ UNCHANGED <<runs, made, tokens, call, phase, history>>
FlusherWrites ==
  /\ flush = "write" /\ flush' = "idle"
  /\ IF dirty THEN Persist(runs) ELSE UNCHANGED history
  /\ UNCHANGED <<runs, made, tokens, call, phase, asked>>

-----------------------------------------------------------------------------
(* Shutdown, crash and start *)

BeginShutdown ==
  /\ phase = "up" /\ phase' = "closed"
  /\ pending' = {} /\ ready' = ready \cup (waiting \cap pending)
  /\ Persist(runs)
  /\ UNCHANGED <<runs, made, issued, bound, waiting, call, flusher>>

\* The flusher is joined, so a write it is at ends first.
StopFlusher ==
  /\ phase = "closed" /\ phase' = "joined"
  /\ flush # "write" /\ flush' = "stopped"
  /\ IF dirty THEN Persist(runs) ELSE UNCHANGED history
  /\ UNCHANGED <<runs, made, tokens, call, asked>>

JoinSweeper ==
  /\ phase = "joined" /\ phase' = "down"
  /\ UNCHANGED <<runs, made, tokens, call, flusher, history>>

Forget ==
  /\ phase' = "off" /\ runs' = <<>> /\ pending' = {} /\ bound' = <<>>
  /\ waiting' = {} /\ ready' = {} /\ call' = NoCall
  /\ flush' = "idle" /\ asked' = FALSE
  /\ dirty' = FALSE /\ writable' = TRUE /\ failed' = FALSE
  /\ UNCHANGED <<made, issued, disk>>

Quit == phase = "down" /\ Forget /\ UNCHANGED faults
Crash == IsUp /\ faults < MaxFault /\ faults' = faults + 1 /\ Forget

\* Another process, of a newer version, writes the history.
TakeOver ==
  /\ faults < MaxFault /\ faults' = faults + 1
  /\ disk' = [newer |-> TRUE, recs |-> <<>>]
  /\ UNCHANGED <<runs, made, tokens, call, phase, flusher, dirty, writable, failed>>

Highest(es, part) == Max({0} \cup {es[i][part] : i \in DOMAIN es})

\* Faulty variant: the sequence number is that of the last event kept.
RestoredByEvents(d) ==
  [term |-> d.term, linked |-> FALSE, token |-> NoToken, late |-> FALSE,
   state |-> IF d.term # External /\ d.state # "exited" THEN "stale" ELSE d.state,
   rev |-> Highest(d.events, "rev") + 1,
   events |-> d.events, host |-> d.host,
   source |-> Highest(d.events, "source")]
\* A launched run that had not exited is stale; the revision is above that
\* of every event kept, so that none counts for the new life.
Restored(d) ==
  [term |-> d.term, linked |-> FALSE, token |-> NoToken, late |-> FALSE,
   state |-> IF d.term # External /\ d.state # "exited" THEN "stale" ELSE d.state,
   rev |-> Highest(d.events, "rev") + 1,
   events |-> Retained(d.events), host |-> d.host, source |-> d.source]

\* A history that cannot be read counts as none.
Start ==
  /\ phase = "off" /\ phase' = "up"
  /\ \/ /\ runs' = [r \in DOMAIN disk.recs |-> Restored(disk.recs[r])]
        /\ dirty' = (~disk.newer /\ disk.recs # <<>>) /\ UNCHANGED faults
     \/ /\ faults < MaxFault /\ faults' = faults + 1
        /\ runs' = <<>> /\ dirty' = FALSE
  /\ writable' = ~disk.newer
  /\ UNCHANGED <<made, tokens, call, flusher, failed, disk>>

-----------------------------------------------------------------------------
Init ==
  /\ runs = <<>> /\ made = 0 /\ issued = 0 /\ pending = {} /\ bound = <<>> /\ waiting = {} /\ ready = {}
  /\ call = NoCall /\ phase = "off" /\ flush = "idle" /\ asked = FALSE
  /\ dirty = FALSE /\ writable = TRUE /\ failed = FALSE
  /\ disk = [newer |-> FALSE, recs |-> <<>>] /\ faults = 0

RunStep(r) ==
  \/ \E t \in Terminal \cup {External}, linked \in BOOLEAN :
       Register(r, t, linked) \/ RollbackLaunched(r, t, linked)
  \/ Heartbeat(r) \/ GrowLate(r) \/ ExitExternal(r) \/ EventSnapshot(r)
  \/ \E t \in Token : BindToken(t, r)
  \/ \E by \in Token \cup {External}, n \in 1..MaxSource : BeginEvent(by, r, n)

TerminalStep(t) == RollbackLinkedTerminal(t) \/ RecordTerminalExit(t) \/ RevokeTerminalTokens(t)
TokenStep(t) == IssueToken(t) \/ RevokeToken(t) \/ Await(t) \/ Awake(t)
FlusherStep == FlusherWakes \/ FlusherLowers \/ FlusherWrites
ShutdownStep == BeginShutdown \/ StopFlusher \/ JoinSweeper

Next ==
  \/ \E r \in Run : RunStep(r)
  \/ \E t \in Terminal : TerminalStep(t)
  \/ \E t \in Token : TokenStep(t)
  \/ CommitEvent
  \/ FlusherStep \/ Sweep \/ ShutdownStep
  \/ Quit \/ Crash \/ TakeOver \/ Start

Spec == Init /\ [][Next]_vars

\* The sweeper keeps ticking while it is there.
FairSpec == Spec /\ WF_vars(Sweep)
-----------------------------------------------------------------------------
(* Properties *)

\* The type of the state.
TypeOK ==
  /\ made \in 0..MaxRun /\ DOMAIN runs \subseteq 1..made /\ Cardinality(DOMAIN runs) <= MaxRecords
  /\ \A r \in DOMAIN runs :
       /\ runs[r].term \in Terminal \cup {External} /\ runs[r].state \in {"running", "stale", "exited"}
       /\ runs[r].token \in Token \cup {NoToken} /\ runs[r].rev \in Nat \ {0}
       /\ Len(runs[r].events) <= RetainLast
  /\ pending \subseteq 1..issued /\ waiting \cup ready \subseteq Token /\ DOMAIN bound \subseteq Token
  /\ phase \in {"off", "up", "closed", "joined", "down"}
  /\ flush \in {"idle", "debounce", "write", "stopped"}

\* A token that is bound has the authority of one run, launched and running,
\* that knows it; a token that waits to be bound has none.
TokenAuthority ==
  /\ DOMAIN bound \cap pending = {}
  /\ \A t \in DOMAIN bound :
       /\ bound[t] \in DOMAIN runs
       /\ Launched(bound[t]) /\ Active(bound[t]) /\ runs[bound[t]].token = t
  /\ \A r \in DOMAIN runs : runs[r].token # NoToken => runs[r].token \in DOMAIN bound

\* Whoever waits for a token that was bound, revoked or cleared has been told.
NoLostWakeup == \A t \in waiting : t \in pending \cup ready

\* The events of a run are in the order in which the host and the adapter
\* numbered them, below what the run will accept next, and of no later life.
Ordered(es, source, host, rev) ==
  /\ \A i, j \in 1..Len(es) :
       i < j => es[i].source < es[j].source /\ es[i].host < es[j].host /\ es[i].rev <= es[j].rev
  /\ \A i \in 1..Len(es) : es[i].source <= source /\ es[i].host <= host /\ es[i].rev <= rev
EventsOrdered ==
  \A r \in DOMAIN runs : Ordered(runs[r].events, runs[r].source, runs[r].host, runs[r].rev)

\* An event is only ever added to a run that is active when it is added,
\* however long before the caller was authenticated.
EventAuthority ==
  [][\A r \in DOMAIN runs \cap DOMAIN runs' :
       runs'[r].host > runs[r].host => Active(r) /\ Authorised(call) = {r}]_vars

\* When a run begins or ends a life, or comes back with the history, no event
\* kept counts as evidence of the new life.
StaleEvidence ==
  [][\A r \in DOMAIN runs' :
       r \notin DOMAIN runs \/ (Active(r) <=> runs'[r].state # "running")
         => \A i \in DOMAIN runs'[r].events : runs'[r].events[i].rev # runs'[r].rev]_vars

\* What the history says was accepted is not accepted again, even after a
\* crash and when the event itself is kept no longer.
NoReplay ==
  [][\A r \in DOMAIN runs \cap DOMAIN disk.recs :
       r \in DOMAIN runs' /\ runs'[r].host > runs[r].host => runs'[r].source > disk.recs[r].source]_vars

\* When the flusher has been stopped without an error, all that was accepted
\* until then is on the disk.
ShutdownSaves ==
  [][phase = "closed" /\ phase' = "joined" /\ ~failed' /\ writable'
       => disk'.newer \/ \A r \in DOMAIN runs' :
            /\ r \in DOMAIN disk'.recs
            /\ disk'.recs[r].source = runs'[r].source /\ disk'.recs[r].events = runs'[r].events]_vars

\* The history of a newer version is never overwritten.
NewerKept == [][disk.newer => disk'.newer]_disk

\* A registry at large: its tokens, its waits and the order of its events.
RegistrySafe == TypeOK /\ TokenAuthority /\ NoLostWakeup /\ EventsOrdered

\* What a step of a registry may never do: add an event without authority, keep
\* evidence of another life, accept again what was accepted, be stopped with
\* something unwritten, or overwrite a newer history.
RegistryHonest == EventAuthority /\ StaleEvidence /\ NoReplay /\ ShutdownSaves /\ NewerKept

\* What has to be written is written, whatever fails, unless the registry ends.
Retried == dirty ~> (~dirty \/ phase \in {"off", "down"})
=============================================================================
