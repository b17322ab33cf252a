------------------------- MODULE AgentCoordination -------------------------
(***************************************************************************)
(* What agents agree on in one generation: which run works on its task,    *)
(* in which worktree, what is handed over to whom, and which workflow the  *)
(* user has approved.  All of it is kept in memory, behind one mutex, and  *)
(* rests on runs that the registry, behind a mutex of its own, changes at  *)
(* any time.                                                               *)
(*                                                                         *)
(* An operation looks at the runs, asks git without any mutex, looks at    *)
(* the runs again, and only then takes the coordinator's mutex; preparing  *)
(* and approving a workflow take both mutexes at the end.  Each step       *)
(* between two mutexes is an action here, and several callers are at it.   *)
(*                                                                         *)
(* What git answers is left open: it may fail, it may differ from what a   *)
(* proposal was made of, and the run may not be inside the worktree.       *)
(* Times are left out: a record is expired or it is not.                   *)
(***************************************************************************)
EXTENDS Integers, FiniteSets

CONSTANTS
  Run,         \* the registered runs
  Worker,      \* those that claim tasks and worktrees and propose workflows
  Requester,   \* the requests served at the same time
  NoCall, NoClaim,
  InboxLimit,  \* INBOX_LIMIT
  MaxChange,   \* bound on the changes of runs and of their associations
  MaxId,       \* bound on the handoffs and workflows ever made
  MaxTree      \* bound on the revision of a worktree claim

ASSUME CoordinationAssumption ==
  /\ Worker \subseteq Run
  /\ InboxLimit \in Nat /\ MaxChange \in Nat /\ MaxId \in Nat /\ MaxTree \in Nat

VARIABLES
  runs,      \* the runs: live, life (lifecycle revision), assoc (association
             \* revision, 0 if none), kept (the store still has its target)
  changes,   \* how often runs have changed
  closed,    \* the coordinator has been shut down
  owned,     \* the claims that runs have on their tasks
  tree,      \* the claims that runs have on worktrees
  treeRev,   \* the revisions of these
  handoffs, workflows, \* ids -> records
  given,     \* how many ids have been given out
  calls      \* the requests, each between two of its steps

records == <<owned, tree, treeRev, handoffs, workflows, given>>
cvars == <<runs, changes, closed, records, calls>>

Id == 1..MaxId
-----------------------------------------------------------------------------
(* The runs, changed by the registry and by the store *)

\* A run ends, goes stale or begins another life.
Relive(r) ==
  /\ changes < MaxChange /\ changes' = changes + 1
  /\ runs' = [runs EXCEPT ![r].life = @ + 1, ![r].live = ~@]
  /\ UNCHANGED <<closed, records, calls>>

Associate(r) ==
  /\ changes < MaxChange /\ changes' = changes + 1
  /\ runs' = [runs EXCEPT ![r].assoc = @ + 1, ![r].kept = TRUE]
  /\ UNCHANGED <<closed, records, calls>>

\* The task or plan of an association leaves the project, or is back.
Retarget(r) ==
  /\ runs[r].assoc > 0
  /\ changes < MaxChange /\ changes' = changes + 1
  /\ runs' = [runs EXCEPT ![r].kept = ~@]
  /\ UNCHANGED <<closed, records, calls>>

Assoc(r) == IF runs[r].kept THEN runs[r].assoc ELSE 0
Epoch(r) == [life |-> runs[r].life, assoc |-> Assoc(r)]
Pair(s, t) == [source |-> Epoch(s), target |-> Epoch(t)]
Exact(r) == runs[r].live
ExactPair(s, t) ==
  /\ runs[s].live /\ runs[t].live
  /\ runs[s].kept /\ runs[t].kept

-----------------------------------------------------------------------------
(* Requests *)

\* The request c begins, unless the coordinator is closed by then.
Begin(c, call) ==
  /\ calls[c] = NoCall /\ ~closed
  /\ calls' = [calls EXCEPT ![c] = call]
Goes(c, step) == calls' = [calls EXCEPT ![c].at = step]
Ends(c) == calls' = [calls EXCEPT ![c] = NoCall]
IsAt(c, op, step) == calls[c] # NoCall /\ calls[c].op = op /\ calls[c].at = step

Without(recs, gone) == [i \in DOMAIN recs \ gone |-> recs[i]]
With(recs, i, rec) ==
  [k \in DOMAIN recs \cup {i} |-> IF k = i THEN rec ELSE recs[k]]
Pruned(recs) == Without(recs, {i \in DOMAIN recs : recs[i].expired})

Expire(i) ==
  /\ \/ i \in DOMAIN handoffs /\ handoffs' = [handoffs EXCEPT ![i].expired = TRUE] /\ UNCHANGED workflows
     \/ i \in DOMAIN workflows /\ workflows' = [workflows EXCEPT ![i].expired = TRUE] /\ UNCHANGED handoffs
  /\ UNCHANGED <<runs, changes, closed, owned, tree, treeRev, given, calls>>

Shutdown ==
  /\ ~closed /\ closed' = TRUE
  /\ owned' = [r \in Run |-> NoClaim] /\ tree' = [r \in Run |-> NoClaim]
  /\ treeRev' = [r \in Run |-> 0]
  /\ handoffs' = <<>> /\ workflows' = <<>>
  /\ UNCHANGED <<runs, changes, given, calls>>

-----------------------------------------------------------------------------
(* Ownership of a task *)

BeginOwn(c, r, take) ==
  /\ Exact(r) /\ Assoc(r) # 0
  /\ Begin(c, [op |-> "own", at |-> "insert", r |-> r, take |-> take, seen |-> Epoch(r)])
  /\ UNCHANGED <<runs, changes, closed, records>>

FinishOwn(c) ==
  /\ IsAt(c, "own", "insert") /\ Ends(c)
  /\ LET call == calls[c] IN
     IF call.take THEN owned' = [owned EXCEPT ![call.r] = call.seen]
     ELSE owned' = [owned EXCEPT ![call.r] = IF @ = call.seen THEN NoClaim ELSE @]
  /\ UNCHANGED <<runs, changes, closed, tree, treeRev, handoffs, workflows, given>>

-----------------------------------------------------------------------------
(* Worktree of a run *)

BeginTree(c, r, take) ==
  /\ Exact(r)
  /\ Begin(c, [op |-> "tree", at |-> IF take THEN "recheck" ELSE "release", r |-> r, seen |-> Epoch(r)])
  /\ UNCHANGED <<runs, changes, closed, records>>

\* git has told the worktree; is the run still what it was?
RecheckTree(c) ==
  /\ IsAt(c, "tree", "recheck")
  /\ LET call == calls[c] IN
     \/ /\ Exact(call.r) /\ Epoch(call.r) = call.seen
        /\ Goes(c, "insert")
     \/ Ends(c)
  /\ UNCHANGED <<runs, changes, closed, records>>

InsertTree(c) ==
  /\ IsAt(c, "tree", "insert") /\ Ends(c)
  /\ LET call == calls[c] IN
     /\ treeRev[call.r] < MaxTree
     /\ treeRev' = [treeRev EXCEPT ![call.r] = @ + 1]
     /\ tree' = [tree EXCEPT ![call.r] = call.seen]
  /\ UNCHANGED <<runs, changes, closed, owned, handoffs, workflows, given>>

\* Only a claim that is current for the run that was seen is released.
ReleaseTree(c) ==
  /\ IsAt(c, "tree", "release") /\ Ends(c)
  /\ LET call == calls[c] IN
     IF tree[call.r] = call.seen
     THEN /\ treeRev[call.r] < MaxTree
          /\ treeRev' = [treeRev EXCEPT ![call.r] = @ + 1]
          /\ tree' = [tree EXCEPT ![call.r] = NoClaim]
     ELSE UNCHANGED <<tree, treeRev>>
  /\ UNCHANGED <<runs, changes, closed, owned, handoffs, workflows, given>>

-----------------------------------------------------------------------------
(* Handoff from one run to another *)

BeginSend(c, s, t) ==
  /\ s # t /\ ExactPair(s, t)
  /\ Begin(c, [op |-> "send", at |-> "recheck", s |-> s, t |-> t, seen |-> Pair(s, t)])
  /\ UNCHANGED <<runs, changes, closed, records>>

\* The preview has been made; are both runs still what they were?
RecheckSend(c) ==
  /\ IsAt(c, "send", "recheck")
  /\ LET call == calls[c] IN
     IF ExactPair(call.s, call.t) /\ Pair(call.s, call.t) = call.seen
     THEN Goes(c, "insert")
     ELSE Ends(c)
  /\ UNCHANGED <<runs, changes, closed, records>>

InsertHandoff(c) ==
  /\ IsAt(c, "send", "insert") /\ Ends(c)
  /\ IF Cardinality(DOMAIN Pruned(handoffs)) >= InboxLimit
     THEN handoffs' = Pruned(handoffs) /\ UNCHANGED given
     ELSE /\ given < MaxId /\ given' = given + 1
          /\ handoffs' = With(Pruned(handoffs), given',
               [s |-> calls[c].s, t |-> calls[c].t, pair |-> calls[c].seen, expired |-> FALSE])
  /\ UNCHANGED <<runs, changes, closed, owned, tree, treeRev, workflows>>

BeginAcknowledge(c, h) ==
  /\ h \in DOMAIN Pruned(handoffs)
  /\ handoffs' = Pruned(handoffs)
  /\ Begin(c, [op |-> "ack", at |-> "recheck", h |-> h, rec |-> handoffs[h]])
  /\ UNCHANGED <<runs, changes, closed, owned, tree, treeRev, workflows, given>>

RecheckAcknowledge(c) ==
  /\ IsAt(c, "ack", "recheck")
  /\ LET rec == calls[c].rec IN
     Goes(c, IF ExactPair(rec.s, rec.t) /\ Pair(rec.s, rec.t) = rec.pair THEN "take" ELSE "drop")
  /\ UNCHANGED <<runs, changes, closed, records>>

DropHandoff(c) ==
  /\ IsAt(c, "ack", "drop") /\ Ends(c)
  /\ handoffs' = Without(handoffs, {calls[c].h})
  /\ UNCHANGED <<runs, changes, closed, owned, tree, treeRev, workflows, given>>

\* Faulty variant: takes the answer of the first look for granted.
TakeHandoffTwice(c) ==
  /\ IsAt(c, "ack", "take") /\ Goes(c, "taken")
  /\ handoffs' = Without(handoffs, {calls[c].h})
  /\ UNCHANGED <<runs, changes, closed, owned, tree, treeRev, workflows, given>>
\* Only the request that removes the handoff has acknowledged it.
TakeHandoff(c) ==
  /\ IsAt(c, "ack", "take")
  /\ IF calls[c].h \in DOMAIN handoffs THEN Goes(c, "taken") ELSE Ends(c)
  /\ handoffs' = Without(handoffs, {calls[c].h})
  /\ UNCHANGED <<runs, changes, closed, owned, tree, treeRev, workflows, given>>

Acknowledged(c) ==
  /\ IsAt(c, "ack", "taken") /\ Ends(c)
  /\ UNCHANGED <<runs, changes, closed, records>>

-----------------------------------------------------------------------------
(* Workflows: a capture of the run, its worktree and git, then the grant *)

\* A record is a capture with a state, so that two of them can be compared.
SameCapture(a, b) == a.r = b.r /\ a.seen = b.seen /\ a.claim = b.claim /\ a.rev = b.rev

BeginPrepare(c, r) ==
  /\ Exact(r)
  /\ Begin(c, [op |-> "prepare", at |-> "epoch", id |-> 0, r |-> r, seen |-> Epoch(r), claim |-> FALSE, rev |-> 0])
  /\ UNCHANGED <<runs, changes, closed, records>>

\* A proposal already approved is refused; its run is looked at next.
BeginApprove(c, w) ==
  /\ w \in DOMAIN Pruned(workflows) /\ ~workflows[w].approved
  /\ workflows' = Pruned(workflows)
  /\ Begin(c, [op |-> "approve", at |-> "run", id |-> w, rec |-> workflows[w],
               r |-> workflows[w].r, seen |-> workflows[w].seen, claim |-> FALSE, rev |-> 0])
  /\ UNCHANGED <<runs, changes, closed, owned, tree, treeRev, handoffs, given>>

\* A capture that fails ends a preparation, and an approval drops its record.
Fails(c) == IF calls[c].op = "prepare" THEN Ends(c) ELSE Goes(c, "consume")

LookAtRun(c) ==
  /\ IsAt(c, "approve", "run")
  /\ LET r == calls[c].r IN
     IF Exact(r) /\ Assoc(r) = calls[c].rec.seen.assoc
     THEN calls' = [calls EXCEPT ![c].seen = Epoch(r), ![c].at = "epoch"]
     ELSE Fails(c)
  /\ UNCHANGED <<runs, changes, closed, records>>

CaptureAt(c, step) == IsAt(c, "prepare", step) \/ IsAt(c, "approve", step)

\* Looks up the worktree of the run; a claim of another epoch is dropped.
CaptureEpoch(c) ==
  /\ CaptureAt(c, "epoch")
  /\ LET r == calls[c].r IN
     IF tree[r] \in {NoClaim, calls[c].seen}
     THEN /\ calls' = [calls EXCEPT ![c].claim = (tree[r] # NoClaim), ![c].rev = treeRev[r], ![c].at = "recheck"]
          /\ UNCHANGED <<tree, treeRev>>
     ELSE /\ treeRev[r] < MaxTree
          /\ treeRev' = [treeRev EXCEPT ![r] = @ + 1]
          /\ tree' = [tree EXCEPT ![r] = NoClaim]
          /\ Fails(c)
  /\ UNCHANGED <<runs, changes, closed, owned, handoffs, workflows, given>>

\* Faulty variant: does not look at the revision, only at what is claimed.
EpochMatchesByRoot(r, cap) == (tree[r] # NoClaim) = cap.claim
EpochMatches(r, cap) == treeRev[r] = cap.rev /\ (tree[r] # NoClaim) = cap.claim

\* git has answered: is everything still what it was, and as proposed?
CaptureRecheck(c) ==
  /\ CaptureAt(c, "recheck")
  /\ LET call == calls[c] IN
     \/ /\ Exact(call.r) /\ Epoch(call.r) = call.seen /\ EpochMatches(call.r, call)
        /\ call.op = "approve" => SameCapture(call, call.rec)
        /\ Goes(c, "grant")
     \/ Fails(c)
  /\ UNCHANGED <<runs, changes, closed, records>>

\* With the registry's mutex: no run changes until the grant is recorded.  The
\* store has a lock of its own: whether it still has the task or plan of the
\* association is looked up here, and is one step with the grant, though the
\* code would not see a record that is deleted between the two.
ValidCapture(call) == Exact(call.r) /\ Epoch(call.r) = call.seen

Proposal(call) ==
  [r |-> call.r, seen |-> call.seen, claim |-> call.claim, rev |-> call.rev,
   approved |-> FALSE, expired |-> FALSE]

GrantPreparation(c) ==
  /\ IsAt(c, "prepare", "grant") /\ Ends(c)
  /\ LET call == calls[c] IN
     IF ~ValidCapture(call) \/ closed \/ ~EpochMatches(call.r, call)
     THEN UNCHANGED <<workflows, given>>
     ELSE IF Cardinality(DOMAIN Pruned(workflows)) >= InboxLimit
          THEN workflows' = Pruned(workflows) /\ UNCHANGED given
          ELSE /\ given < MaxId /\ given' = given + 1
               /\ workflows' = With(Pruned(workflows), given', Proposal(call))
  /\ UNCHANGED <<runs, changes, closed, owned, tree, treeRev, handoffs>>

GrantApproval(c) ==
  /\ IsAt(c, "approve", "grant")
  /\ LET call == calls[c]  w == call.id  left == Pruned(workflows) IN
     IF ~ValidCapture(call)
     THEN UNCHANGED workflows /\ Goes(c, "consume")
     ELSE IF closed \/ ~EpochMatches(call.r, call)
     THEN workflows' = Without(workflows, {w}) /\ Goes(c, "consume")
     ELSE IF w \notin DOMAIN left
     THEN workflows' = left /\ Goes(c, "consume")
     ELSE workflows' = [left EXCEPT ![w].approved = TRUE] /\ Ends(c)
  /\ UNCHANGED <<runs, changes, closed, owned, tree, treeRev, handoffs, given>>

\* The failed approval drops its proposal, not one approved meanwhile.
Consume(c) ==
  /\ IsAt(c, "approve", "consume") /\ Ends(c)
  /\ workflows' = Without(workflows, {w \in {calls[c].id} \cap DOMAIN workflows : ~workflows[w].approved})
  /\ UNCHANGED <<runs, changes, closed, owned, tree, treeRev, handoffs, given>>

Dismiss(w) ==
  /\ ~closed /\ w \in DOMAIN Pruned(workflows)
  /\ workflows' = Without(Pruned(workflows), {w})
  /\ UNCHANGED <<runs, changes, closed, owned, tree, treeRev, handoffs, given, calls>>

-----------------------------------------------------------------------------
(* The projection that users see, made of an earlier look at the runs *)

BeginView(c) ==
  /\ Begin(c, [op |-> "view", at |-> "show", live |-> {r \in Run : Exact(r)}, seen |-> [r \in Run |-> Epoch(r)]])
  /\ UNCHANGED <<runs, changes, closed, records>>

\* Drops what is not of the epoch seen: claims, handoffs and workflows.
Projected(view) ==
  /\ tree' = [r \in Run |-> IF r \in view.live /\ tree[r] = view.seen[r] THEN tree[r] ELSE NoClaim]
  /\ handoffs' = Without(Pruned(handoffs), {h \in DOMAIN handoffs :
       handoffs[h].pair # [source |-> view.seen[handoffs[h].s], target |-> view.seen[handoffs[h].t]]})
  /\ workflows' = Without(Pruned(workflows), {w \in DOMAIN workflows : LET rec == workflows[w] IN
       ~(/\ rec.r \in view.live /\ rec.seen = view.seen[rec.r] /\ rec.rev = treeRev[rec.r]
         /\ rec.claim = (tree'[rec.r] # NoClaim))})

Show(c) ==
  /\ IsAt(c, "view", "show") /\ Ends(c)
  /\ Projected(calls[c])
  /\ UNCHANGED <<runs, changes, closed, owned, treeRev, given>>

-----------------------------------------------------------------------------
CInit ==
  /\ runs = [r \in Run |-> [live |-> TRUE, life |-> 1, assoc |-> 1, kept |-> TRUE]]
  /\ changes = 0 /\ closed = FALSE
  /\ owned = [r \in Run |-> NoClaim] /\ tree = [r \in Run |-> NoClaim]
  /\ treeRev = [r \in Run |-> 0]
  /\ handoffs = <<>> /\ workflows = <<>> /\ given = 0
  /\ calls = [c \in Requester |-> NoCall]

RunChange == \E r \in Run : Relive(r) \/ Associate(r) \/ Retarget(r)

ClaimStep(c) ==
  \/ \E r \in Worker, take \in BOOLEAN : BeginOwn(c, r, take) \/ BeginTree(c, r, take)
  \/ FinishOwn(c) \/ RecheckTree(c) \/ InsertTree(c) \/ ReleaseTree(c)

HandoffStep(c) ==
  \/ \E s, t \in Run : BeginSend(c, s, t)
  \/ \E h \in Id : BeginAcknowledge(c, h)
  \/ RecheckSend(c) \/ InsertHandoff(c)
  \/ RecheckAcknowledge(c) \/ DropHandoff(c) \/ TakeHandoff(c) \/ Acknowledged(c)

WorkflowStep(c) ==
  \/ \E r \in Worker : BeginPrepare(c, r)
  \/ \E w \in Id : BeginApprove(c, w)
  \/ LookAtRun(c) \/ CaptureEpoch(c) \/ CaptureRecheck(c)
  \/ GrantPreparation(c) \/ GrantApproval(c) \/ Consume(c)

CNext ==
  \/ RunChange
  \/ \E i \in Id : Expire(i) \/ Dismiss(i)
  \/ Shutdown
  \/ \E c \in Requester : ClaimStep(c) \/ HandoffStep(c) \/ WorkflowStep(c) \/ BeginView(c) \/ Show(c)

CSpec == CInit /\ [][CNext]_cvars
-----------------------------------------------------------------------------
(* Properties *)

\* The type of the state; an inbox never holds more than it may.
TypeOK ==
  /\ changes \in 0..MaxChange /\ closed \in BOOLEAN /\ given \in 0..MaxId
  /\ \A r \in Run : runs[r].live \in BOOLEAN /\ runs[r].kept \in BOOLEAN /\ treeRev[r] \in 0..MaxTree
  /\ DOMAIN handoffs \cap DOMAIN workflows = {}
  /\ DOMAIN handoffs \cup DOMAIN workflows \subseteq 1..given
  /\ Cardinality(DOMAIN handoffs) <= InboxLimit /\ Cardinality(DOMAIN workflows) <= InboxLimit

\* When a workflow is approved its run lives, the run and its association (as
\* the grant looks it up) are those of the proposal, and no claim on a worktree came or
\* went since the proposal, not even one that is now as it was.
ApprovesFresh ==
  \A w \in DOMAIN workflows \cap DOMAIN workflows' :
    ~workflows[w].approved /\ workflows'[w].approved =>
      LET rec == workflows[w] IN
      /\ ~closed /\ ~rec.expired
      /\ runs[rec.r].live /\ Epoch(rec.r) = rec.seen
      /\ treeRev[rec.r] = rec.rev /\ (tree[rec.r] # NoClaim) = rec.claim

\* An approval that fails leaves alone what another one has approved, unless
\* the worktree of the run is no longer the one that was approved.
KeepsApproved ==
  \A c \in Requester : \A w \in DOMAIN workflows :
    /\ calls[c] # calls'[c] /\ calls[c] # NoCall /\ calls[c].op = "approve"
    /\ workflows[w].approved /\ ~workflows[w].expired /\ w \notin DOMAIN workflows'
    => closed \/ ~EpochMatches(workflows[w].r, workflows[w])

\* An approval is granted on what holds, and is not taken back by another.
ApprovalsRight == [][ApprovesFresh /\ KeepsApproved]_cvars

\* Two requests never both hear that they have acknowledged a handoff.
AcknowledgedOnce ==
  \A c, d \in Requester : IsAt(c, "ack", "taken") /\ IsAt(d, "ack", "taken") /\ c # d => calls[c].h # calls[d].h

\* No proposal appears once the coordinator was shut down, however long
\* before that its preparation has begun.
ClosedForWorkflows == closed => workflows = <<>>

\* What requests agree on at large (AcknowledgedOnce, ClosedForWorkflows), in a
\* state that is what it should be.
CoordinationSafe == TypeOK /\ AcknowledgedOnce /\ ClosedForWorkflows
=============================================================================
