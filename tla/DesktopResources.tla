--------------------------- MODULE DesktopResources ---------------------------
(***************************************************************************)
(* The commands of an open workspace that meet over a plan or a task: an   *)
(* agent launched for it, a terminal linked to it, its task moved on the   *)
(* board, and the plan deleted, while terminals end, runs exit and other   *)
(* processes write to the same project.                                    *)
(*                                                                         *)
(* One task is told apart from the other tasks of a plan, of which only    *)
(* the number matters, and of its statuses two.  The revisions of the      *)
(* terminals, the runs and the admissions are only compared for equality   *)
(* with those of a challenge or of a move under way: every change of one   *)
(* clears the flag "fresh" of those.                                       *)
(***************************************************************************)
EXTENDS Integers, Sequences, FiniteSets

CONSTANTS
  Launcher, Linker, Mover, Deleter, \* threads, by the command they run
  MaxSession, MaxLink,              \* terminals, revisions of a link
  MaxEdit, MaxOther,                \* writes to the task, other tasks of a plan
  ChallengeLimit,                   \* TASK_CONFIRMATION_LIMIT
  Failing                           \* what may fail: launch, commit (of a run's association)

VARIABLES
  plan, task, others, \* each plan: here, removed or lost; the task; how many other tasks
  session, run,       \* each terminal and its linked run, with their associations
  holder,             \* who holds resource_transition
  challenges,         \* task_challenges, oldest first
  at, job             \* of each thread: its step and its locals

project == <<plan, task, others>>
local == <<at, job>>
rvars == <<project, session, run, holder, challenges, local>>

Command == Launcher \cup Linker \cup Mover \cup Deleter
Plan == {1, 2}
Session == 1..MaxSession
Status == {"todo", "doing"}
Nobody == "nobody"
\* A thread runs one kind of command, though it may move and delete in turn.
ASSUME CommandAssumption ==
  /\ Launcher \cap (Linker \cup Mover \cup Deleter) = {} /\ Linker \cap (Mover \cup Deleter) = {}
  /\ Nobody \notin Command
  /\ MaxSession \in Nat /\ MaxLink \in Nat /\ MaxEdit \in Nat /\ MaxOther \in Nat
  /\ ChallengeLimit \in Nat \ {0}
NoTarget == [plan |-> 0, task |-> FALSE]
Target == {NoTarget} \cup [plan : Plan, task : BOOLEAN]
NoJob == [kind |-> "none"]

RInit ==
  /\ plan = [p \in Plan |-> "here"] /\ others = [p \in Plan |-> 0]
  /\ task = [plan |-> 1, status |-> "todo", edit |-> 0]
  /\ session = [s \in Session |-> [state |-> "none", link |-> NoTarget, rev |-> 0]]
  /\ run = session
  /\ holder = Nobody /\ challenges = <<>>
  /\ at = [t \in Command |-> "idle"] /\ job = [t \in Command |-> NoJob]
-----------------------------------------------------------------------------
Step(t, from, to) == at[t] = from /\ at' = [at EXCEPT ![t] = to]
Work(t, j) == job' = [job EXCEPT ![t] = j]
Finish(t) == at' = [at EXCEPT ![t] = "idle"] /\ Work(t, NoJob)
Release(t) == holder = t /\ holder' = Nobody /\ Finish(t)
Acquire(t) == holder = Nobody /\ holder' = t

\* validate_association_pointer.
Exists(p) == plan[p] = "here"
ValidTarget(link) ==
  link # NoTarget => Exists(link.plan) /\ (link.task => task.plan = link.plan)

Tasks(p) == others[p] + IF task.plan = p THEN 1 ELSE 0

\* A launch admits itself before it reads the project; whoever moves or deletes
\* fences the admissions for as long as it holds the transition.
Admissions == {t \in Launcher : at[t] # "idle"}
Fence == holder \in Mover \cup Deleter

\* A resource has come, gone or changed.
Changed == challenges' = [i \in DOMAIN challenges |-> [challenges[i] EXCEPT !.fresh = FALSE]]

\* The live terminals and runs linked to the task in the plan p, or to the plan.
Covers(scope, p, link) == link.plan = p /\ (scope = "task" => link.task)
Linked(of, kind, scope, p) ==
  {[kind |-> kind, id |-> s, rev |-> of[s].rev] :
      s \in {r \in Session : of[r].state = "running" /\ of[r].rev # 0 /\ Covers(scope, p, of[r].link)}}
Terminals(scope, p) == Linked(session, "terminal", scope, p)
Runs(scope, p) == Linked(run, "agent", scope, p)
-----------------------------------------------------------------------------
(* launch_linked_agent and create_terminal *)

LaunchAdmit(t, link, agent) ==
  /\ t \in Launcher /\ Step(t, "idle", "admitted") /\ ~Fence
  /\ ValidTarget(link) /\ (~agent => link = NoTarget)
  /\ Work(t, [kind |-> "launch", target |-> link, agent |-> agent])
  /\ Changed
  /\ UNCHANGED <<project, session, run, holder>>

LaunchLock(t) ==
  /\ t \in Launcher /\ Step(t, "admitted", "locked") /\ Acquire(t)
  /\ UNCHANGED <<project, session, run, challenges, job>>

Launched(t, s) ==
  LET entry == [state |-> "running", link |-> job[t].target,
                rev |-> IF job[t].agent THEN 1 ELSE 0]
  IN /\ session' = [session EXCEPT ![s] = entry]
     /\ run' = IF job[t].agent THEN [run EXCEPT ![s] = entry] ELSE run

LaunchCreate(t, s) ==
  /\ t \in Launcher /\ at[t] = "locked"
  /\ session[s].state = "none" /\ (\A r \in 1..s - 1 : session[r].state # "none")
  /\ Launched(t, s) /\ Release(t) /\ Changed
  /\ UNCHANGED project

LaunchFails(t) ==
  /\ t \in Launcher /\ at[t] = "locked" /\ "launch" \in Failing
  /\ Release(t) /\ Changed
  /\ UNCHANGED <<project, session, run>>

\* rollback_linked_agent_launch, on request of the pane that launched it.
LaunchRolledBack(t, s) ==
  /\ t \in Launcher /\ at[t] = "idle" /\ holder = Nobody /\ run[s].state # "none"
  /\ session' = [session EXCEPT ![s].state = "ended"] /\ run' = [run EXCEPT ![s].state = "none"]
  /\ Changed
  /\ UNCHANGED <<project, holder, local>>
-----------------------------------------------------------------------------
(* mutate_terminal_association *)

\* The pointer is validated before the transition is taken.
LinkValidate(t, s, link) ==
  /\ t \in Linker /\ Step(t, "idle", "validated") /\ session[s].state = "running"
  /\ session[s].rev < MaxLink /\ ValidTarget(link)
  /\ Work(t, [kind |-> "link", session |-> s, previous |-> session[s],
              next |-> [state |-> "running", link |-> link, rev |-> session[s].rev + 1],
              paired |-> FALSE])
  /\ UNCHANGED <<project, session, run, holder, challenges>>

\* The terminal's half by its revision, then the half of its linked run, whose
\* target is looked up again.
Prepared(t) ==
  LET j == job[t]
  IN /\ session[j.session] = j.previous
     /\ (j.next.link = NoTarget => j.previous.link # NoTarget)
     /\ run[j.session].state # "none" =>
          /\ run[j.session].link = j.previous.link /\ run[j.session].rev = j.previous.rev
          /\ ValidTarget(j.next.link)

LinkPrepare(t) ==
  /\ t \in Linker /\ Step(t, "validated", "prepared") /\ Acquire(t) /\ Prepared(t)
  /\ Work(t, [job[t] EXCEPT !.paired = run[job[t].session].state # "none"])
  /\ UNCHANGED <<project, session, run, challenges>>

LinkRefused(t) ==
  /\ t \in Linker /\ at[t] = "validated" /\ holder = Nobody /\ ~Prepared(t) /\ Finish(t)
  /\ UNCHANGED <<project, session, run, holder, challenges>>

LinkTerminal(t) ==
  /\ t \in Linker /\ Step(t, "prepared", "terminal")
  /\ session[job[t].session] = job[t].previous
  /\ session' = [session EXCEPT ![job[t].session] = job[t].next]
  /\ UNCHANGED <<project, run, holder, challenges, job>>

LinkStale(t) ==
  /\ t \in Linker /\ at[t] = "prepared" /\ session[job[t].session] # job[t].previous
  /\ Release(t)
  /\ UNCHANGED <<project, session, run, challenges>>

LinkRun(t) ==
  /\ t \in Linker /\ at[t] = "terminal"
  /\ run' = IF job[t].paired
              THEN [run EXCEPT ![job[t].session].link = job[t].next.link,
                               ![job[t].session].rev = job[t].next.rev]
              ELSE run
  /\ Changed /\ Release(t)
  /\ UNCHANGED <<project, session>>

\* The run's half fails: the terminal's half is undone, whether or not it runs.
Undone(t) ==
  session' = [session EXCEPT ![job[t].session].link = job[t].previous.link,
                             ![job[t].session].rev = job[t].previous.rev]

LinkRunFails(t) ==
  /\ t \in Linker /\ at[t] = "terminal" /\ job[t].paired /\ "commit" \in Failing
  /\ Undone(t) /\ Release(t)
  /\ UNCHANGED <<project, run, challenges>>
-----------------------------------------------------------------------------
(* What moves and deletes have in common: transition, fence, no admission *)

\* Faulty: an admission under way is not waited for.
NoAdmissionAny == TRUE
NoAdmission == Admissions = {}

FenceBegin(t) ==
  /\ t \in Mover \cup Deleter /\ Step(t, "idle", "fenced") /\ Acquire(t)
  /\ UNCHANGED <<project, session, run, challenges, job>>

FenceRetry(t) ==
  /\ at[t] = "fenced" /\ ~NoAdmission /\ Release(t)
  /\ UNCHANGED <<project, session, run, challenges>>

Ready(t, step) == at[t] = "fenced" /\ NoAdmission /\ Step(t, "fenced", step)

\* The sessions are read first, the runs when the callback is called.
ReadSessions(t) ==
  /\ Step(t, "looked", "sessions")
  /\ Work(t, [job[t] EXCEPT !.terminals = Terminals(job[t].scope, job[t].plan)])
  /\ UNCHANGED <<project, session, run, holder, challenges>>
\* Faulty: a run is gone when its terminal is.
TerminalsOnly(t) == job[t].terminals
Resources(t) == job[t].terminals \cup Runs(job[t].scope, job[t].plan)
-----------------------------------------------------------------------------
(* move_task_v3 and start_first_task_v1 *)

MoveJob(kind, as, to) ==
  [kind |-> kind, scope |-> "task", from |-> as, to |-> to, plan |-> 0, fresh |-> TRUE,
   terminals |-> {}, shown |-> {}]

\* Without a token the task is read, and moved to where it is not yet.
MoveRead(t, to) ==
  /\ t \in Mover /\ Ready(t, "read") /\ task.plan # 0 /\ task.status # to
  /\ Work(t, MoveJob("move", task, to))
  /\ UNCHANGED <<project, session, run, holder, challenges>>

\* The first task is read before the transition is taken.
FirstRead(t) ==
  /\ t \in Mover /\ Step(t, "idle", "first") /\ task.plan # 0 /\ task.status = "todo"
  /\ Work(t, MoveJob("first", task, "doing"))
  /\ UNCHANGED <<project, session, run, holder, challenges>>

FirstLock(t) ==
  /\ t \in Mover /\ Acquire(t) /\ NoAdmission /\ Step(t, "first", "read")
  /\ UNCHANGED <<project, session, run, challenges, job>>

\* With one, the challenge is used up and has to fit.
MoveConfirm(t, i) ==
  LET c == challenges[i]
  IN /\ t \in Mover /\ at[t] = "fenced" /\ NoAdmission
     /\ challenges' = [k \in 1..Len(challenges) - 1 |->
                         challenges[IF k < i THEN k ELSE k + 1]]
     /\ IF c.fresh
          THEN /\ Step(t, "fenced", "read") /\ UNCHANGED holder
               /\ Work(t, [MoveJob("confirmed", c.from, c.to)
                             EXCEPT !.shown = c.shown])
          ELSE Release(t)
     /\ UNCHANGED <<project, session, run>>

MoveLook(t) ==
  /\ t \in Mover /\ Step(t, "read", "looked")
  /\ Work(t, [job[t] EXCEPT !.plan = task.plan, !.fresh = @ \/ job[t].kind # "confirmed"])
  /\ UNCHANGED <<project, session, run, holder, challenges>>

\* What the user confirmed is what there is, and nothing came or went.
AsShown(t) ==
  /\ job[t].kind = "confirmed"
  /\ Resources(t) = job[t].shown /\ job[t].fresh

Moving(t) == at[t] = "sessions" /\ job[t].kind \in {"move", "first", "confirmed"}
MayMove(t) == IF job[t].kind = "confirmed" THEN AsShown(t) ELSE Resources(t) = {}

\* compare_and_set_task_status_with_notes: the plan, the status and the time of
\* the last change are those that were read.
MoveCommit(t) ==
  /\ Moving(t) /\ MayMove(t) /\ task.edit < MaxEdit
  /\ task = job[t].from
  /\ task' = [task EXCEPT !.status = job[t].to, !.edit = @ + 1]
  /\ Release(t)
  /\ UNCHANGED <<plan, others, session, run, challenges>>

MoveRefused(t) ==
  /\ Moving(t)
  /\ IF MayMove(t) THEN task # job[t].from ELSE job[t].kind # "move"
  /\ Release(t)
  /\ UNCHANGED <<project, session, run, challenges>>

\* issue_task_challenge: the oldest one goes when there are too many.
MoveChallenge(t) ==
  LET c == [from |-> job[t].from, to |-> job[t].to, shown |-> Resources(t),
            fresh |-> job[t].fresh]
      room == IF Len(challenges) < ChallengeLimit THEN challenges ELSE Tail(challenges)
  IN /\ Moving(t) /\ job[t].kind = "move" /\ ~MayMove(t)
     /\ challenges' = Append(room, c) /\ Release(t)
     /\ UNCHANGED <<project, session, run>>

ChallengeExpires ==
  /\ challenges # <<>> /\ challenges' = Tail(challenges)
  /\ UNCHANGED <<project, session, run, holder, local>>
-----------------------------------------------------------------------------
(* with_plan_resources_released: delete_plan_v1, move_plan_v1, move_issue_task_v1 *)

ReleaseJob(kind, p, n) ==
  [kind |-> kind, scope |-> IF kind = "issue" THEN "task" ELSE "plan", plan |-> p,
   terminals |-> {}, shown |-> n]

\* A preview counted n tasks some time before a delete is confirmed.
DeleteLook(t, kind, p, n) ==
  /\ t \in Deleter /\ Ready(t, "looked") /\ Exists(p)
  /\ (kind = "issue" => task.plan = p) /\ (kind # "delete" => n = 0)
  /\ Work(t, ReleaseJob(kind, p, n))
  /\ UNCHANGED <<project, session, run, holder, challenges>>

Releasing(t) == at[t] = "sessions" /\ job[t].kind \in {"delete", "moveout", "issue"}

DeleteRefused(t) ==
  /\ Releasing(t) /\ Resources(t) # {} /\ Release(t)
  /\ UNCHANGED <<project, session, run, challenges>>

\* The plan is counted again, in a session of the store that ends before the
\* one that deletes begins.
DeleteRecount(t) ==
  /\ Releasing(t) /\ job[t].kind = "delete" /\ Resources(t) = {}
  /\ job[t].shown = Tasks(job[t].plan)
  /\ Step(t, "sessions", "recounted")
  /\ UNCHANGED <<project, session, run, holder, challenges, job>>

DeleteStale(t) ==
  /\ Releasing(t) /\ job[t].kind = "delete" /\ Resources(t) = {}
  /\ job[t].shown # Tasks(job[t].plan) /\ Release(t)
  /\ UNCHANGED <<project, session, run, challenges>>

WithoutPlan(p, how) ==
  /\ plan' = [plan EXCEPT ![p] = how] /\ others' = [others EXCEPT ![p] = 0]
  /\ task' = IF task.plan = p THEN [task EXCEPT !.plan = 0] ELSE task

\* Deleted, or moved to another project.
DeleteCommit(t) ==
  /\ \/ at[t] = "recounted"
     \/ Releasing(t) /\ job[t].kind = "moveout" /\ Resources(t) = {}
  /\ Exists(job[t].plan)
  /\ WithoutPlan(job[t].plan, "removed")
  /\ Release(t)
  /\ UNCHANGED <<session, run, challenges>>

\* Another process was faster.
DeleteLost(t) ==
  /\ at[t] = "recounted" \/ (Releasing(t) /\ Resources(t) = {})
  /\ ~Exists(job[t].plan)
  /\ Release(t)
  /\ UNCHANGED <<project, session, run, challenges>>

IssueMove(t, q) ==
  /\ Releasing(t) /\ job[t].kind = "issue" /\ Resources(t) = {}
  /\ task.plan = job[t].plan /\ Exists(q) /\ q # task.plan /\ task.edit < MaxEdit
  /\ task' = [task EXCEPT !.plan = q, !.edit = @ + 1] /\ Release(t)
  /\ UNCHANGED <<plan, others, session, run, challenges>>
-----------------------------------------------------------------------------
(* What happens by itself *)

\* At any time: a move may have looked already.
ChangedWhile ==
  /\ Changed
  /\ job' = [t \in Command |-> IF "fresh" \in DOMAIN job[t]
                              THEN [job[t] EXCEPT !.fresh = FALSE] ELSE job[t]]

SessionEnds(s) ==
  /\ session[s].state = "running" /\ session' = [session EXCEPT ![s].state = "ended"]
  /\ ChangedWhile
  /\ UNCHANGED <<project, run, holder, at>>

RunExits(s) ==
  /\ session[s].state = "ended" /\ run[s].state = "running"
  /\ run' = [run EXCEPT ![s].state = "exited"] /\ ChangedWhile
  /\ UNCHANGED <<project, session, holder, at>>

\* Other processes: the command line, or another window.
OthersWrite ==
  /\ \/ \E to \in Status : /\ task.plan # 0 /\ task.edit < MaxEdit /\ to # task.status
                           /\ task' = [task EXCEPT !.status = to, !.edit = @ + 1]
                           /\ UNCHANGED <<plan, others>>
     \/ \E p \in Plan : Exists(p) /\ WithoutPlan(p, "lost")
     \/ \E p \in Plan : /\ Exists(p) /\ others[p] < MaxOther
                        /\ others' = [others EXCEPT ![p] = @ + 1] /\ UNCHANGED <<plan, task>>
  /\ UNCHANGED <<session, run, holder, challenges, local>>
-----------------------------------------------------------------------------
LaunchNext(t) ==
  \/ \E link \in Target, agent \in BOOLEAN : LaunchAdmit(t, link, agent)
  \/ LaunchLock(t) \/ LaunchFails(t)
  \/ \E s \in Session : LaunchCreate(t, s) \/ LaunchRolledBack(t, s)
LinkNext(t) ==
  \/ \E s \in Session, link \in Target : LinkValidate(t, s, link)
  \/ LinkPrepare(t) \/ LinkRefused(t) \/ LinkTerminal(t) \/ LinkStale(t) \/ LinkRun(t)
  \/ LinkRunFails(t)
MoveNext(t) ==
  \/ \E to \in Status : MoveRead(t, to)
  \/ \E i \in 1..Len(challenges) : MoveConfirm(t, i)
  \/ FirstRead(t) \/ FirstLock(t) \/ MoveLook(t) \/ MoveCommit(t) \/ MoveRefused(t)
  \/ MoveChallenge(t)
DeleteNext(t) ==
  \/ \E kind \in {"delete", "moveout", "issue"}, p \in Plan, n \in 0..MaxOther + 1 :
       DeleteLook(t, kind, p, n)
  \/ \E q \in Plan : IssueMove(t, q)
  \/ DeleteRefused(t) \/ DeleteRecount(t) \/ DeleteStale(t)
  \/ DeleteCommit(t) \/ DeleteLost(t)

RNext ==
  \/ ChallengeExpires \/ OthersWrite
  \/ \E s \in Session : SessionEnds(s) \/ RunExits(s)
  \/ \E t \in Command :
       \/ LaunchNext(t) \/ LinkNext(t) \/ FenceBegin(t) \/ FenceRetry(t) \/ ReadSessions(t)
       \/ MoveNext(t) \/ DeleteNext(t)

RSpec == RInit /\ [][RNext]_rvars
-----------------------------------------------------------------------------
\* No agent runs for a plan that this workspace has deleted or moved away: the
\* launch that was admitted before, the link that was validated before and the
\* delete that looked before all meet in the transition
\* (with_plan_resources_released, launch_linked_agent, prepare_linked_association).
RunsNeverDangle ==
  \A s \in Session :
    run[s].state = "running" /\ run[s].link # NoTarget => plan[run[s].link.plan] # "removed"

\* Whenever nobody is changing them, a terminal and its linked run name the same
\* target at the same revision, also after the half of a change was refused
\* (mutate_terminal_association).
PairAgrees ==
  holder = Nobody =>
    \A s \in Session : run[s].state # "none" =>
      run[s].link = session[s].link /\ run[s].rev = session[s].rev

\* The board moves no task while a terminal or an agent works on it that the
\* user was not shown, also when they come and go while the dialog is up
\* (move_task_v3, start_first_task_v1).
MovesShown ==
  \A t \in Mover : task'.status # task.status /\ at[t] = "sessions" /\ at'[t] = "idle" =>
    Terminals("task", task.plan) \cup Runs("task", task.plan) \subseteq
      (IF job[t].kind = "confirmed" THEN job[t].shown ELSE {})
MovesOnlyShown == [][MovesShown]_rvars

\* A plan is deleted with the tasks whose number the user was shown (delete_plan_v1).
DeletesAsPreviewed ==
  [][\A t \in Deleter : at[t] = "recounted" /\ plan' # plan /\ at'[t] = "idle" =>
       Tasks(job[t].plan) = job[t].shown]_rvars

\* The commands of a workspace at large: terminals, their runs and the plans
\* they work for agree (RunsNeverDangle, PairAgrees).
WorkspaceSafe == RunsNeverDangle /\ PairAgrees
=============================================================================
