# Verification of ptrack in TLA+

ptrack keeps the plans, tasks, notes, issues and recorded commits of a project in a
typed embedded store that several people, agents and processes share, and gives them a
command line, a terminal dashboard and a desktop application that runs agents in
terminals. This directory models the parts of it that have state worth arguing about,
checks them with TLC on small instances, and proves with TLAPS that the most important of
them are safe for any number of records, threads, connections and failures. Every
definition is translated from the source; `PROJECT.json` maps each one to the lines it
stands for and lists the hazards of the code at the lines where they bite.

    tlc -workers 2 -config store.cfg MCProjectStore     # a run
    tlapm AgentRegistryProofs.tla                       # the proofs of a module

## 1. The system

Paths are below `src/crates/`; the web frontend is below `src/frontend/`.

| Component | State it keeps | Module |
|---|---|---|
| Project store (`ptrack-store/src/project.rs`) | records by id, claims and epochs, id sequences, the active plan | `ProjectStore` |
| Store files and engine (`store.rs`, `redb_backend`) | the file, its locks, its bound path | `StoreFile` |
| Core model and codec (`ptrack-core`) | what builds of different ages keep of a record | `RecordCodec` |
| Command line (`ptrack-cli/src/dispatch.rs`) | a command is several sessions of a store | `WorkGates` |
| Plan copy and move (`ptrack-app/src/service.rs`) | two stores at once | `PlanTransfer` |
| Terminal dashboard (`ptrack-tui`) | a screen over a snapshot | `Dashboard` |
| Desktop coordinator (`desktop_runtime/coordinator.rs`) | the open workspace, admissions, confirmations | `DesktopRuntime` |
| Desktop commands (`desktop_runtime/workspace/`) | challenges, linked terminals and runs | `DesktopResources` |
| Agent runs (`ptrack-agent/src/registry.rs`) | runs, tokens, events, the history file | `AgentRegistry` |
| Agent coordination (`coordination.rs`, `handoff.rs`) | ownership, worktree claims, handoffs, workflows | `AgentCoordination` |
| Agent server (`agent_runtime.rs`, `integration.rs`) | server, descriptor, announcements per generation | `AgentService` |
| Reports on agents (`coordination.rs`) | what one report read, and when | `AgentObserver` |
| Terminal sessions (`ptrack-terminal`) | process, stream, replay ring, tickets, re-claim window | `TerminalSession` |
| Terminal runtime (`terminal_runtime.rs`, `manager.rs`) | launches, tokens, monitors, shutdown | `TerminalRuntime` |
| Update service (`update_runtime.rs`, `staging.rs`) | the active operation, the candidate, stages | `UpdateRuntime` |
| Update installation (`installer.rs`) | target, backup, journal, lock | `UpdateInstall` |
| Active generation (`runtime_binding.rs`, `bootstrap.rs`) | the marker of the databases in use | `ActiveGeneration` |
| Desktop initialization (`authority/`, `journal.rs`) | checkpoints of a first initialization | `DesktopInit` |
| Memory write-back | receipts of what terminals wrote back | `MemoryWriteback` |
| Scratchpad | text and revision in each window | `ScratchpadSync` |
| Planning server over MCP | reader, queue, cancellation | `McpTransport` |
| Git reader (`ptrack-git`) | one command with its readers; sequences of commands | `GitRunner`, `GitSnapshot` |
| Reports (`report.rs`, `views.rs`, `service.rs` `next_task`, desktop snapshots) | none; what was read, and when | `ProjectReports` |
| Web frontend | panes, dock, board, wizard, first steps, recent projects | `TerminalPanes`, `DockLayout`, `WorkspaceWindow`, `ProjectSetup`, `FirstSteps`, `RecentProjects` |
| Launch context, launcher, portable bundle, window and preference records | none, or the last writer's | not modelled (section 5) |

**What is hard.** A store is locked by one process at a time, so a transaction is atomic,
but a command is not: it looks in one session and writes in another, and any process may
run in between. Claims pass between identities that keep running. Deletes, conversions and
copies rewrite a graph whose edges were each checked when they were added. A move between
projects holds two locks and commits in each store separately. In the desktop, threads meet
at a coordinator, a manager, a registry and a coordinator of agents, each with a mutex of its
own that is let go while a process is started, a payload is normalised or git is asked. An
update and an initialization must survive a kill or a failed call between any two steps.

**What makes each part correct** is said by the properties of section 3.

## 2. The modules

A module is one component: its state, one action per operation, handler or step between
two locks, and the properties. `MC*` modules hold constants and put parts into one run;
`*Proofs` modules hold the theorems. In the map of `PROJECT.json` the row of a definition that
gathers the steps of one function may stand for those steps, whose lines it names. Each `...Forgetful`, `...Dropped`, `...Trusting` and
so on is a faulty variant of the definition after it, used by nothing but the mutants in
`PROJECT.json`.

**ProjectStore.** `plan`, `task`, `note`, `issue` and `commit` are functions from ids (shas
for commits) to records; `seq` is the highest id each collection minted. `session` is the
identity of the process that has the file lock; every other action is one committed
transaction under it. `Writing` is the funnel every transaction goes through
(`ProjectStore::write`). A kill aborts the transaction, so it is `Close`. Left out: titles,
bodies, orders, severities, timestamps, the scratchpad (see `ScratchpadSync`) and receipts (see
`MemoryWriteback`). A copy is one step, since export and import happen in one hold of the lock
(`transfer_plan`). Of a move between projects the store has its own three transactions:
`ExportPlan`, which the caller keeps (`exported`), `ImportPlan` of a subtree that comes from
elsewhere (`Arrivals`, whatever `IsSubtree` says of it), and `DeletePlanForMove`, which takes the linked
issues as well and compares what it deletes with the export. The store does not rely on its
caller's lock for that, so anything may happen between the two. Timestamps matter to callers that compare them: those of issues strictly
increase, those of tasks follow the wall clock.

**WorkGates.** A command is `Look` (a read, where the gate decides) and the sessions that
write, each an action of an instance of `ProjectStore` under the identity of its process. Two processes
may have the same identity. `task resume`, the dashboard's start, and a claim on a plan whose tasks
another identity has started pass no gate; the parts that count the tasks in progress leave them out.

**PlanTransfer.** `Export`, `OpenTarget` or `GiveUp`, `Import`, `DeleteSource`, and `Stop` at
any step. `alive` is a history variable: the contents nobody overwrote or deleted on purpose.

**UpdateInstall** is the Linux installer, one action per step of `apply` and `recover_with`,
with files as inodes, because the code compares them, and with all the directory
contents and journals that a power failure may leave; `power` says of a behaviour whether the
power may go in it. **UpdateRuntime** is the service around it.

**AgentRegistry.** Every operation holds the registry's mutex for its whole body but for
three: an event is authorised, normalised without mutex and committed later (`BeginEvent`,
`CommitEvent`); a token is waited for (`Await`, `Awake`); and the flusher sleeps before it writes.
The history is written atomically, may fail to be, may be taken over by a newer version,
and is what a crash leaves. An external run's association is not fenced by a lease.

**AgentCoordination**, **AgentObserver**, **AgentService** take the registry's runs as they
are to others: changing at any time. In the observer a read of the store that fails or is busy
looks like "no association" and "nothing linked" in the code; its properties say so
(`failed`). A grant holds the registry's mutex, but the store from which it looks up the run's
association has a lock of its own (`coordination.rs:1841`): the lookup and the grant are one step here.

**TerminalSession** has every step between two holds of the session's mutex, with its reader,
waiter, closers and connections; **TerminalRuntime** has launches with their rollback, in which
a session is only running, exited or closed. The gate drains before the manager closes,
so a launch that the manager refuses is part of `SpawnFails`.

**DesktopRuntime** is the coordinator over whole workspaces, **DesktopResources** the commands
inside one. Revisions that are only compared for equality are flags `fresh` that every change clears.

**ActiveGeneration** and **DesktopInit** (which extends it) have one action per durable step of a
bootstrap, a relocation, a prune, and a first initialization.

**ProjectReports** is what others are told of a project: the next task, the digest an agent
starts from, the board, the rollups and the desktop's snapshot, each an operator on a
project's records, and the readers and writers between whose steps the project changes. The
digest is as long as its lines; a list is what its entries are in their order.

**GitRunner** is one git command with its child, readers, cancellation, timeout and limit;
**GitSnapshot** the sequences of commands in which some may fail. **StoreFile** and
**RecordCodec** are the store below its transactions. The other modules are the screens; the head of
each says what it leaves out.

## 3. The runs

| Run | Instance | Shows |
|---|---|---|
| `store` | six small stores: claims between two identities, links with imports, moves away, links under claims, dependencies over three plans, milestones and holds | `StoreSafe`, `EpochFences`, `ClaimGate`, `TrailStays`, `FinishedRefusesNewWork` |
| `commands` | two processes of no identity that close tasks, or plans; one with one; two of the same; two commands on two folders, one on three that move, one beside a desktop | `OneTaskPerCommand`, `CloseRestsOnEvidence`, `OpenWorkIsRecorded`, `GenerationKept` |
| `steps` | two parts: two projects, two processes, two plans and versions; two launches, one of them linked, that fail anywhere | `NothingLost`, `DeleteAdmitted`, `TransferEnds`; `RuntimeSafe`, `ShutdownEnds` |
| `install` | two processes, a good and a bad payload, two faults; one process and a power failure | `BackupKept`, `PendingResolved` |
| `registry` | room for one of two runs, one token, two adapter numbers, one fault | `RegistrySafe`, `RegistryHonest`, `Retried` |
| `terminal` | two connections, four closers, a ring of one chunk | `TerminalSafe`, `AbandonedCloses` |
| `desktop` | the coordinator with a thread of each kind; the commands of a workspace; two callers about two runs | `CoordinatorSafe`, `WorkspaceSafe`, `CoordinationSafe`, `MovesOnlyShown`, `ApprovalsRight` |
| `services` | eight parts: updates, store files, agents' server, MCP reader, git command, write-back; records, git sequences | `UpdatesSafe`, `FilesSafe`, `ServiceSafe`, `McpSafe`, `RunnerSafe`, `MemorySafe`; `ReadsRight` |
| `screens` | ten parts: dashboard and reports on a project; dock and terminal panes; wizard and first steps; board, start screen, reports on agents; scratchpad | `ViewsRight`, `PanesSafe`, `SetupSafe`, `WindowRight`, `RecentsSafe`, `ObserverRight`; `PromisesKept` |
| `race` | two processes of one identity, as in `commands` | violates `OneTaskInProgress` |
| `skipped` | the wizard of `ProjectSetup` | violates `PartialNotSkipped` |
| `next` | the reports of `screens` | violates `NextSkipsOpenDeps` |

Every property of a passing run has a mutant, or one for some of its parts, in `PROJECT.json`: a plausible bug in one
definition that makes TLC report that property.

**Runs of several parts.** `part` is chosen at the start and never changes; the parts
share no state, so each is explored with the others at rest, and owes only its own threads' steps. A property of a part that is instantiated
speaks of the states in which that part runs; the six parts of `services` that the run's
module extends rest in their initial state, and their properties are those of their theorems. It saves the start of a run and hides no interleaving
that exists in the code.

**The bounds and why they are enough.** `Max*` bound the ids ever minted, not the records
that exist at once, so a run covers every order of adds and deletes up to them. The shortest
cycle that the check of one edge alone misses has three records. A claim passes to another
identity and back to nobody under two epochs. The shortest interference between two commands
needs one record each; crossing moves need two stores; a copy that collides needs two ids. Two
faults reach a recovery that fails as well. A registry of one record evicts at the second
run; a ring of one chunk loses at the second; with room for one receipt the second write prunes. Two generations of an agent server overlap. In
the `services` run the second generation of the server begins with one request at most under
way, and the second git command goes only as far as its first reader while the first runs,
which is where the two meet (the count of readers). The projects to report on have two plans and
three tasks with every dependency, hold and status among them, lists of which one entry is shown
and pages of one plan and two tasks, so that each list and each page overflows; one edit comes between two
reads, and only the projects that are edited are captured in two steps. Actions at their bound are disabled,
which only hides behaviours that mint more.

**Deadlock** is checked in `store` and `install`. Elsewhere the system really may
stop: a workspace, a session, a registry or a dialog ends and is not begun again within the
bounds. Where standing still would be wrong a liveness property says so (`TransferEnds`,
`PendingResolved`, `Retried`, `AbandonedCloses`, `ShutdownEnds`).

**Symmetry** is used for interchangeable identities, processes, windows and folders, never
in a run with a liveness property.

**Fairness.** `PlanTransfer`: a process that has begun a transfer goes on with it (weak
fairness of `Step`): it runs its own code and waits for a lock no longer than `LOCK_TIMEOUT`.
`UpdateInstall`: a run goes on (weak fairness of `RunStep`), and the application is started
again and again, each start recovering every stage it finds (strong fairness of beginning a recovery, since
another process may hold the lock). `AgentRegistry`: the sweeper ticks (weak fairness of `Sweep`).
`TerminalSession`: threads that are there take their steps; nothing is assumed of
users, connections or shells. `TerminalRuntime`: of the operations, monitors and the shutdown that have
begun, one goes on (weak fairness of `Going`); each ends after a few steps, so no more is needed. Faults are bounded, so they stop; a machine that fails
on every start resolves nothing.

### Known not to hold

Each of these is stated in its module, with its reason, and TLC violates it; the
first three have a run.

| Property | What the code does |
|---|---|
| `WorkGates.OneTaskInProgress` | a command counts the tasks in progress of its identity in one session and starts its task in another without looking again (`dispatch.rs:784`), so two commands of one identity may both find none and both start one, and no note says so, although README.md:142 says that the second is refused; what one command sees is respected (`OneTaskPerCommand`) |
| `ProjectSetup.PartialNotSkipped` | a guide applied to one of its two files and previewed again because the other was edited can be skipped |
| `ProjectReports.NextSkipsOpenDeps` | `next_task` takes the open integration task out of the snapshot (`service.rs:845`), so a task that depends on it waits on nothing and is handed out, although README.md:165 says that next skips work with open dependencies |
| `ProjectReports.CardsTellWaiting` | the desktop computes what a card waits on within its bounded page, so an open dependency in another plan, which the store allows (`project.rs:1589`), is not shown, although CHANGELOG.md:809 says that cards with open dependencies are marked |
| `DesktopRuntime.StatusAgrees` | the status a poller composes can mix two moments (`initialization.rs:106`) |
| `DesktopResources.DeletesAsPreviewed` | a plan is counted and deleted in two sessions (`plans.rs:243`) |
| `ScratchpadSync.NothingTypedLost` | text typed before the first read is answered, or while a conflict's text waits for the clipboard, is dropped |
| `WorkGates.ForcedAddIsRecorded` | `task add --force` and its override note are two transactions |
| `UpdateInstall.KeptIsProven` | recovery removes the journal of an unsynced rollback (`installer.rs:1069`); a power failure then brings the unproven payload back (as long as the power is on it holds, which is proved) |
| `DesktopInit.InterruptionResumes` | `bootstrap_plan` records Prepared whenever a plan is durable and the journal refuses the lower checkpoint |
| `DockLayout.NoRuntimeLeft` | a tab split while its close is pending leaves a runtime without a pane |
| `RecentProjects.NotStranded` | the recheck after a close publishes while another operation is pending |
| `Dashboard.ActsOnShown` | a detail opened through search is acted on as if it were the tab's selection |
| `TerminalPanes.HeldHears` | the ledger of pop-outs is one per dock while being busy is per pane; a second move overwrites it |
| `GitSnapshot.CancelledIsAlwaysSaid` | cancellation is swallowed by the timeline's tags and the tracked line counts, whose comments say it is an error |

Others met while modelling: the lifecycle design says that done or archived plans refuse new
open work, but `schedule_issue` and `move_issue_task` look for done only, and
`FinishedRefusesNewWork` states what remains true; `complete_plan_from_ui` decides on its override
note from an earlier session, so the dashboard's close is exempt from `OpenWorkIsRecorded`; a delivery
that times out drops a chunk (`session.rs:1188`); a publish whose directory sync fails
leaves a descriptor naming a stopped server; `with_exact_session_snapshot` lets the manager's
lock go before its callback although its comment says that it holds the epoch; the check for an update that is
already staged is outside the lock it would need to exclude a second; an MCP tool call that
finishes while it is cancelled is not answered; dependencies of plans and of tasks are two graphs,
so two plans may wait for each other through both and `next` offers nothing; `task start` may refuse the task
that `next` offers on account of one under way that waits on a dependency, which `wip_gate` does not
look at; a desktop card counts all issues of its task where the board counts the open ones; and
a list that the digest's fitting empties prints as none, or not at all, although entries are held back.

## 4. The proofs

A theorem holds for every value of the constants that satisfies the named assumptions of its module
(special values are different from ordinary ones, bounds are naturals).

| Module | Theorems |
|---|---|
| `ProjectStoreProofs` | `StoreIsSafe` (`Spec => []StoreSafe`), from `TypeCorrect`, `NoDanglingReference`, `FinishedIsFree`, `OwnersAreKnown`, `NoDependencyCycle`; `EpochsFence`, `ClaimsHold`, `TrailsStay` (from `EvidenceIsKept`, `FreshTasksHaveNoCommits`, `TrailsAreKept`), `FinishedTakesNoWork` |
| `PlanTransferProofs` | `TypeCorrect`, `DeleteIsAdmitted`, `NothingIsLost` |
| `AgentRegistryProofs` | `RegistryIsSafe` (`Spec => []RegistrySafe`), `RegistryIsHonest` (`Spec => RegistryHonest`, five action properties) |
| `TerminalProofs` | `TerminalIsSafe`, from `ReclaimIsFinal`, `CloseIsClean`, `OutputResumes`; `MemoryIsSafe` |
| `ServiceProofs` | `RuntimeIsSafe` (the `RuntimeSafe` that `steps` checks of its instance); `FilesAreSafe`; `ServiceIsSafe`; `TransportIsSafe`; `RunnerIsSafe` |
| `DesktopProofs` | `CoordinatorIsSafe`; `WorkspaceIsSafe`, `MovesAreShown`; `CoordinationIsSafe`, `ApprovalsAreRight` |
| `UpdateProofs` | `UpdatesAreSafe`; `BackupIsKept`, `NothingUnprovenStays`, `InstallTypeCorrect` |
| `CountingLemmas` | the rank of a number in a finite set, for the ids of copies |

Each is proved in the same way: an inductive invariant, checked by TLC on the run's
instance before it was proved; one lemma per action, with a step per part of the invariant that
the action can disturb; the action properties of one step from the invariant; and temporal logic at the end.

**ProjectStore.** None of its state properties is inductive alone: that a copied task's
references exist needs every id to be at most its sequence, that an owner is known needs that a claim is
only taken by the session `Writing` has registered, that a finished plan is free needs the
types of what is copied into it. `Inv` is one invariant per collection. That evidence is not
handed to a new task needs that no commit names an id yet to be minted; that a move takes nothing with it
but what was exported needs only the comparison its delete makes, and an import, which mints ids for
records of another store, needs of a subtree what `IsSubtree` says. Cycles are usually
excluded by induction over paths, which the provers cannot instantiate; here a graph is
acyclic when every non-empty set of records has one that depends on nothing in the set, and
an edge that passes the store's search keeps that: a set that goes wrong would go wrong within what is
reachable from the edge's end, where nothing has changed.

**PlanTransfer.** `NothingLost` alone is not inductive: content whose only home is doomed (a
plan a move has imported and will delete) would be lost by the next step. `HomeInv`
says that living content has a home that is not doomed; `Import` dooms a plan and makes a new home in
one transaction; nobody else can touch a doomed plan, whose store is locked.

**AgentRegistry.** Above its safety the invariant says that the history never runs ahead of
the registry (`Behind`) and holds all of it when nothing is left to write (`Holds`), which is what makes
a stop without an error complete and a replay impossible; that a saved run's events are
in order for some revision, so that the revision a run comes back with is above them all; that no
token is known to two runs; and that nothing is left of a registry that is off. Steps
that add no run and no event share one argument (`AlikeRight`).

**TerminalSession.** The decision over the re-claim window is final whatever fails.
`CloseIsClean` assumes that kills do not fail: the waiter's failed sweep is swallowed while the
closer finds the process reaped. `OutputResumes` assumes that no delivery times out: that
path drops the chunk. Both are conditions the run has too, and the violation without them is
real (section 3).

**MemoryWriteback.** A request means one place wherever it turns up, in the dialog, a call or what was
written (`OnePlace`), because another text, kind or link is another request; and a link of the same revision
is the same link (`Following`), so what a call finds is what the user was shown. A write without a receipt
is older than the receipts there is room for, or its place is gone and does not return (`Receipted`), so a
late retry is refused there. The task's conversion into a plan, after which every write to it is refused, is left out.

**TerminalRuntime.** The invariant says of each launch what its creator has done so far to the
session, its token and its run, and of a shutdown that what it has waited for stays so.

**DesktopRuntime.** The transition lock is held by exactly the threads between its taking and its
giving back, so what one has read of the published workspace stays true; a shutdown is one thread; what the
user was shown bounds the terminals that run, since whoever shows them fences the workspace first.

**DesktopResources.** What a command read before it took the transition lock is what it acts on, so the
invariant says what of it still holds: a launch is admitted before it looks, and whoever fences the
workspace to delete found no admission; a link looks again once it holds the lock; the session or run that a
link names stays; the two halves of a link differ only between its two writes; the terminals a move
was shown can only have become fewer; and of two writes of a plan the later one has the later edit time.

**AgentCoordination.** A request acts on a record it has read some steps earlier, and the mutex was free in
between. The invariant says that ids are given out once and that a record stays what it was captured from, so
the record is gone or still the one that was read; that a handoff once taken is gone; and that
an approval about to be granted has the capture of its proposal. What is true of runs and worktrees at the moment
of the grant then follows from the last look, which holds both mutexes.

**UpdateRuntime.** At most one thread is at work, and the service is active with that
thread's operation, so an operation that ends settles its own.

**UpdateInstall.** Three facts carry `BackupIsKept`. Runs and journals remove only a backup
they name (`Names`). Every state of the directory that a power failure may bring back is
stocked: an unproven binary in place has something proven beside it (`Backed`), and when a backup that a run
or a journal names is not proven, something proven lies under a name that nobody knows, so nobody
removes it (`Spare`). And while the power is on, what a run would go back to is proven (`WhileOn`),
which is what `NothingUnprovenStays` needs; a power failure may bring back a journal older than
the directory, and there only the first two survive.

**StoreFile.** Whoever uses a store is a user of the open store that has its file locked,
and whoever has just locked it is alone; a file's writer is the thread that copies it, so it stays
equal to its copy until the copy is done; a thread that still asks for its write has written nothing,
or has committed and not answered yet, so a write that is tried again is not written twice
(`HoldersRight`, `CopiesRight`, `WritesRight`). It assumes of the constants that "nothing" is no thread and no
open store.

**AgentService.** The stage of a generation bounds what its server, its call and its registry may be
(`Staged`); generations begin in order, so the descriptor names the last one that published; requests exist
only with a server that runs, and each waiter has one of the places. That a change is never lost
needs a channel that holds at least one announcement, which `ServiceBounds` assumes (in the code it is a constant).

**McpTransport.** The slot is held by exactly the thread that waits for input or for room, and a line
is unanswered exactly while it is being answered or the loop ended over it.

**GitRunner.** The places taken are the pipes not yet released, one by one; a pipe at its end has nobody
that holds it; what is kept of the output is all that was read of it until the budget is exceeded; and the
stage of a command says which of its child and its readers may be there.

**Only model-checked.** Liveness (`TransferEnds`, `PendingResolved`, `Retried`,
`AbandonedCloses`, `ShutdownEnds`): fairness and ENABLED are out of the prover's reach. What a
recursive definition computes for every input: no installed prover instantiates the induction
theorems. The properties of `commands` and `screens` and `ReadsRight` have no theorem: the first rest on several
sessions of a store and on folders that move, the others are over state that is shown and read again.

## 5. What is not modelled

- Byte encodings of single fields, limits of text, screening for credentials, parsing of
  provider and git output, signatures and digests: functions over bytes.
- Rendering, wording, text editing, titles, ratios, colours, and the projections that only read.
- Window, layout and preference records: the last writer wins and nothing depends on them.
- The launch context of an agent (a pure function over records), the launcher and the
  portable bundle (pure I/O).
- The write paths of the import and of the quarantine are compiled for tests only.
- macOS and Windows installers: they hand over to the system and keep no journal.
- In `StoreFile` a retry is assumed only after failures that were not reported as committed
  (`store.rs:523`); in `TerminalPanes` the 30 s grace, re-claim attempts and the close dialog; in
  `GitRunner` a failure to kill or wait for the child; in `ProjectSetup` the goal's text and the picker.

## 6. Plan

1. A proof of `WorkGates.OneTaskPerCommand`, over the sessions of two commands.
2. `CoordinationSafe` over the registry of `AgentRegistry` itself instead of runs that change at any time.
