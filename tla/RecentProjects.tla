--------------------------- MODULE RecentProjects ---------------------------
(***************************************************************************)
(* The list of recent projects: the registry that every process touches    *)
(* (GlobalStore), the leases, confirmations and finished opens that the     *)
(* desktop keeps (production/recent.rs), and the window's Open, Try Again,  *)
(* Locate and Forget (recent-projects-controller.ts).  A row is known by    *)
(* its path, its base by the number of times the row was written.           *)
(***************************************************************************)
EXTENDS Integers, FiniteSets

CONSTANTS
  None,
  Paths,      \* the folders of projects
  MaxWrites,  \* bound: how often a row is written
  MaxOps,     \* bound: actions of the user
  MaxMoves    \* bound: times that a folder is taken away or brought back

VARIABLES
  rows,       \* the registry: for each folder the writes of its row, and whether it is listed
  there,      \* the folders that can be opened
  lease,      \* the base under which a row was last listed, 0 when it lapsed
  grants,     \* confirmations handed out for moving a row
  completed,  \* opens that were finished, with how the registry took them
  host,       \* the project that the desktop has open
  wnd,        \* the window: what it shows, its rows, and whether an action is under way
  op,         \* the action under way
  due,        \* the check that follows a close has not run
  acted       \* actions and moves so far

recentvars == <<rows, there, lease, grants, completed, host, wnd, op, due, acted>>

Unread == [p \in Paths |-> [n |-> 0, ok |-> FALSE]]

RecentInit ==
  /\ rows = [p \in Paths |-> [n |-> 1, on |-> TRUE]]
  /\ there \in SUBSET Paths
  /\ lease = [p \in Paths |-> 0] /\ grants = {} /\ completed = {}
  /\ host \in {None} \cup there
  /\ wnd = [status |-> IF host = None THEN "closed" ELSE "error", root |-> None, rows |-> Unread, busy |-> FALSE]
  /\ op = None /\ due = FALSE
  /\ acted = [ops |-> 0, moves |-> 0]
-----------------------------------------------------------------------------
(* The registry and the desktop *)

Listed(p) == rows[p].on
Leased == [p \in Paths |-> IF Listed(p) THEN rows[p].n ELSE lease[p]]
Shown == [p \in Paths |-> [n |-> IF Listed(p) THEN rows[p].n ELSE 0, ok |-> p \in there]]
Written(p, on) == [rows EXCEPT ![p] = [n |-> IF on THEN @.n + 1 ELSE @.n, on |-> on]]

Matches(o) == Listed(o.entry) /\ rows[o.entry].n = o.seen

\* The comparison inside the transaction that changes a row.
ComparesPathOnly(o) == Listed(o.entry)
Compares(o) == Matches(o)

\* registry_entry: the row is still the one that was listed.
IsEntry(o) == lease[o.entry] = o.seen /\ Matches(o)

Key(o) == [entry |-> o.entry, seen |-> o.seen, target |-> o.target, grant |-> o.grant]
Finished(o) == \E c \in completed : c.key = Key(o)

\* authorization_for: another folder than the row's needs its confirmation.
Confirmed(o) == IF o.target = o.entry THEN o.grant = 0 ELSE Key(o) \in grants
Authorized(o) == o.target \in there /\ (Finished(o) \/ (IsEntry(o) /\ Confirmed(o)))

\* relocate_project_if_matches: the row moves, over the target's row if there is one.
Relocated(o) ==
  [p \in Paths |-> CASE p = o.target -> [n |-> rows[p].n + 1, on |-> TRUE]
                     [] p = o.entry  -> [rows[p] EXCEPT !.on = FALSE]
                     [] OTHER        -> rows[p]]

\* Another process, or the open project, registers its folder again.
Touch(p) ==
  /\ p \in there /\ rows[p].n < MaxWrites
  /\ rows' = Written(p, TRUE)
  /\ UNCHANGED <<there, lease, grants, completed, host, wnd, op, due, acted>>

MoveFolder(p) ==
  /\ acted.moves < MaxMoves /\ acted' = [acted EXCEPT !.moves = @ + 1]
  /\ there' = IF p \in there THEN there \ {p} ELSE there \cup {p}
  /\ UNCHANGED <<rows, lease, grants, completed, host, wnd, op, due>>

\* A listing, the confirmations, or the finished opens are forgotten after a while;
\* it makes a difference while an action rests on them.
Lapse ==
  /\ op # None
  /\ \/ lease' = [p \in Paths |-> 0] /\ UNCHANGED <<grants, completed>>
     \/ grants # {} /\ grants' = {} /\ UNCHANGED <<lease, completed>>
     \/ completed # {} /\ completed' = {} /\ UNCHANGED <<lease, grants>>
  /\ UNCHANGED <<rows, there, host, wnd, op, due, acted>>
-----------------------------------------------------------------------------
(* The window *)

AtProjects == wnd.status \notin {"open", "loading"}

\* The action is over; the list is read again, which may fail.
Settles == op' = None /\ wnd' = [wnd EXCEPT !.busy = FALSE] /\ UNCHANGED lease
SettlesAndReads(w) ==
  /\ op' = None
  /\ \/ wnd' = [w EXCEPT !.busy = FALSE, !.rows = Shown] /\ lease' = Leased
     \/ wnd' = [w EXCEPT !.busy = FALSE] /\ UNCHANGED lease

\* An answer for a screen that has changed is dropped, and the action with it.
Drops == op' = None /\ UNCHANGED <<wnd, lease>>

Reload ==
  /\ AtProjects /\ ~wnd.busy
  /\ wnd' = [wnd EXCEPT !.rows = Shown] /\ lease' = Leased
  /\ UNCHANGED <<rows, there, grants, completed, host, op, due, acted>>

Starts == [open |-> "listing", retry |-> "resolving", locate |-> "picking", forget |-> "asking"]
Offered(p) == IF wnd.rows[p].ok THEN {"open", "forget"} ELSE {"retry", "locate", "forget"}

Begin(p, intent) ==
  /\ AtProjects /\ ~wnd.busy /\ op = None /\ wnd.rows[p].n # 0 /\ intent \in Offered(p)
  /\ acted.ops < MaxOps /\ acted' = [acted EXCEPT !.ops = @ + 1]
  /\ op' = [intent |-> intent, entry |-> p, seen |-> wnd.rows[p].n, pc |-> Starts[intent], cur |-> TRUE,
            target |-> None, grant |-> 0, agreed |-> FALSE]
  /\ wnd' = [wnd EXCEPT !.busy = TRUE]
  /\ UNCHANGED <<rows, there, lease, grants, completed, host, due>>

At(pc) == op # None /\ op.pc = pc
Backend == UNCHANGED <<rows, there, grants, completed, host, due, acted>>
Fails == IF op.cur THEN SettlesAndReads(wnd) ELSE Drops

\* The workspace begins to change: what an earlier close still checks is void.
ToOpening(o) ==
  /\ op' = [o EXCEPT !.pc = "opening"]
  /\ wnd' = [wnd EXCEPT !.status = "loading"]

\* Open lists again, and goes on when the row still says the same.
ListForOpen ==
  /\ At("listing")
  /\ \/ /\ op.cur /\ Listed(op.entry) /\ op.entry \in there
        /\ lease' = Leased /\ due' = FALSE
        /\ ToOpening([op EXCEPT !.seen = rows[op.entry].n, !.target = op.entry])
        /\ UNCHANGED <<rows, there, grants, completed, host, acted>>
     \/ Fails /\ Backend

Pick ==
  /\ At("picking") /\ Backend
  /\ IF ~op.cur THEN Drops
     ELSE \/ Settles
          \/ \E q \in Paths : op' = [op EXCEPT !.pc = "resolving", !.target = q] /\ UNCHANGED <<wnd, lease>>

\* resolve_recent_project: a folder inside a project stands for that project.
Resolve(root) ==
  /\ At("resolving") /\ IsEntry(op) /\ root \in there
  /\ LET o == [op EXCEPT !.target = root] IN
     IF root = op.entry
       THEN /\ UNCHANGED <<grants, lease>>
            /\ IF op.cur THEN ToOpening(o) /\ due' = FALSE ELSE Drops /\ UNCHANGED due
       ELSE /\ grants' = grants \cup {Key([o EXCEPT !.grant = acted.ops])}
            /\ UNCHANGED due
            /\ CASE ~op.cur -> Drops
                 [] op.cur /\ op.intent = "retry" -> SettlesAndReads(wnd)
                 [] OTHER -> /\ op' = [o EXCEPT !.grant = acted.ops, !.pc = "confirming"]
                             /\ UNCHANGED <<wnd, lease>>
  /\ UNCHANGED <<rows, there, completed, host, acted>>

ResolveFails == At("resolving") /\ Fails /\ Backend

AnswerMove(yes) ==
  /\ At("confirming")
  /\ CASE ~op.cur -> Drops /\ UNCHANGED due
       [] op.cur /\ ~yes -> Settles /\ UNCHANGED due
       [] OTHER -> ToOpening([op EXCEPT !.agreed = TRUE]) /\ due' = FALSE /\ UNCHANGED lease
  /\ UNCHANGED <<rows, there, grants, completed, host, acted>>

AnswerForget(yes) ==
  /\ At("asking") /\ Backend
  /\ CASE ~op.cur -> Drops
       [] op.cur /\ ~yes -> Settles
       [] OTHER -> op' = [op EXCEPT !.pc = "forgetting", !.agreed = TRUE] /\ UNCHANGED <<wnd, lease>>

\* forget_recent_project reads the row, then deletes it if it is still that row.
Forget ==
  /\ At("forgetting") /\ lease[op.entry] = op.seen
  /\ IF Matches(op)
       THEN op' = [op EXCEPT !.pc = "deleting"] /\ UNCHANGED <<wnd, lease>>
       ELSE Fails
  /\ Backend
DeleteRow ==
  /\ At("deleting")
  /\ rows' = IF Compares(op) THEN Written(op.entry, FALSE) ELSE rows
  /\ IF op.cur THEN op' = None /\ wnd' = [wnd EXCEPT !.busy = FALSE] /\ UNCHANGED lease ELSE Drops
  /\ UNCHANGED <<there, grants, completed, host, due, acted>>
ForgetFails == At("forgetting") /\ lease[op.entry] # op.seen /\ Fails /\ Backend
-----------------------------------------------------------------------------
(* Opening *)

\* What the desktop says is open: shown, and the action over unless it is another project.
Reconcile(open) ==
  \/ /\ wnd' = [wnd EXCEPT !.status = "error", !.root = None] /\ op' = None /\ UNCHANGED lease
  \/ /\ open = op.target
     /\ wnd' = [wnd EXCEPT !.status = "open", !.root = open, !.busy = FALSE]
     /\ op' = None /\ UNCHANGED lease
  \/ /\ open \notin {op.target, None}
     /\ wnd' = [wnd EXCEPT !.status = "open", !.root = open]
     /\ op' = None /\ UNCHANGED lease
  \/ open = None /\ SettlesAndReads([wnd EXCEPT !.status = "closed", !.root = None])

\* OpenRecentProjectV1 up to the change of the workspace; sessions at work are asked about.
OpenRecent ==
  /\ At("opening") /\ Authorized(op)
  /\ \/ host' = op.target /\ op' = [op EXCEPT !.pc = "finishing"] /\ UNCHANGED wnd
     \/ /\ host \notin {None, op.target}
        /\ op' = [op EXCEPT !.pc = "switching"]
        /\ wnd' = [wnd EXCEPT !.status = "open", !.root = host] /\ UNCHANGED host
  /\ UNCHANGED <<rows, there, lease, grants, completed, due, acted>>
OpenFails == At("opening") /\ Reconcile(host) /\ Backend

AnswerSwitch(yes) ==
  /\ At("switching")
  /\ IF yes THEN /\ op' = [op EXCEPT !.pc = "reopening"] /\ wnd' = [wnd EXCEPT !.status = "loading"]
            ELSE op' = None /\ wnd' = [wnd EXCEPT !.busy = FALSE]
  /\ UNCHANGED lease /\ Backend
Reopen ==
  /\ At("reopening")
  /\ \/ /\ Authorized(op) /\ host' = op.target
        /\ op' = [op EXCEPT !.pc = "finishing"]
        /\ UNCHANGED <<rows, there, lease, grants, completed, wnd, due, acted>>
     \/ Reconcile(host) /\ Backend

\* finish_recent_project_open: authorised once more, then compared and moved.
CommitsKeepingGrant(status) ==
  /\ grants' = IF status = "stale" THEN grants ELSE grants \ {Key(op)}
  /\ completed' = IF Finished(op) THEN completed ELSE completed \cup {[key |-> Key(op), status |-> status]}
Commits(status) ==
  /\ grants' = grants \ {Key(op)}
  /\ completed' = IF Finished(op) THEN completed ELSE completed \cup {[key |-> Key(op), status |-> status]}
\* The answer settles the action; when it is lost, the window asks what is open.
Opened(status) ==
  \/ /\ \E read \in {status = "stale", FALSE} :
          /\ wnd' = [wnd EXCEPT !.status = "open", !.root = op.target, !.busy = FALSE,
                              !.rows = IF read THEN Shown ELSE @]
          /\ lease' = IF read THEN Leased ELSE lease
     /\ op' = None
  \/ Reconcile(host)
FinishOpen ==
  /\ At("finishing")
  /\ IF ~Finished(op) /\ Authorized(op)
       THEN op' = [op EXCEPT !.pc = "moving"] /\ UNCHANGED <<grants, completed, wnd, lease>>
       ELSE /\ Commits("stale")
            /\ Opened(IF Finished(op) THEN (CHOOSE c \in completed : c.key = Key(op)).status ELSE "stale")
  /\ UNCHANGED <<rows, there, host, due, acted>>
MoveRow ==
  /\ At("moving")
  /\ IF Compares(op)
       THEN rows' = Relocated(op) /\ Commits("applied") /\ Opened("applied")
       ELSE rows' = rows /\ Commits("stale") /\ Opened("stale")
  /\ UNCHANGED <<there, host, due, acted>>
-----------------------------------------------------------------------------
(* Closing *)

Close ==
  /\ wnd.status = "open" /\ op = None
  /\ host' = None /\ due' = TRUE
  /\ wnd' = [wnd EXCEPT !.status = "closed", !.root = None]
  /\ UNCHANGED <<rows, there, lease, grants, completed, op, acted>>

\* confirmClosedWorkspace: 350 ms later, if nothing has moved the workspace.
Recheck ==
  /\ due /\ due' = FALSE
  /\ wnd' = [wnd EXCEPT !.status = IF host = None THEN "closed" ELSE "open", !.root = host]
  /\ op' = IF op = None THEN None ELSE [op EXCEPT !.cur = FALSE]
  /\ UNCHANGED <<rows, there, lease, grants, completed, host, acted>>

RecentNext ==
  \/ \E p \in Paths : Touch(p) \/ MoveFolder(p) \/ Resolve(p)
  \/ \E p \in Paths, intent \in DOMAIN Starts : Begin(p, intent)
  \/ \E yes \in BOOLEAN : AnswerMove(yes) \/ AnswerForget(yes) \/ AnswerSwitch(yes)
  \/ Lapse \/ Reload
  \/ ListForOpen \/ Pick \/ ResolveFails \/ Forget \/ DeleteRow \/ ForgetFails
  \/ OpenRecent \/ OpenFails \/ Reopen \/ FinishOpen \/ MoveRow
  \/ Close \/ Recheck

RecentSpec == RecentInit /\ [][RecentNext]_recentvars
-----------------------------------------------------------------------------
\* A window that shows a project shows the one the desktop has open.
ShowsWhatIsOpen == wnd.status = "open" => wnd.root = host

\* A confirmation is spent once the registry has answered for it, however it answered.
GrantsSpent == \A c \in completed : c.key \notin grants

\* What is about to be written was asked for: an action that will move or delete a
\* row has had the user's agreement, and opens the folder that was agreed to.
WritesAgreed ==
  /\ At("deleting") => op.agreed
  /\ (At("moving") /\ op.target # op.entry) => op.agreed /\ op.intent = "locate"

RecentsSafe == ShowsWhatIsOpen /\ GrantsSpent /\ WritesAgreed

\* A row leaves the list only as the user agreed, and only in the version that the
\* user was shown: another process's registration in between is not lost
\* (forget_project_if_matches, relocate_project_if_matches).
LeavesAsAgreed ==
  \A p \in Paths : Listed(p) /\ ~Listed(p)' =>
    /\ op # None /\ op.entry = p /\ op.agreed /\ op.seen = rows[p].n
    /\ \/ op.intent = "forget"
       \/ op.intent = "locate" /\ \E q \in Paths : q = op.target /\ rows'[q].on
RowsLeaveAsAgreed == [][LeavesAsAgreed]_recentvars

\* An action that was begun is settled; it does not hold up the Projects screen for good.
NotStranded == wnd.busy => op # None
=============================================================================
