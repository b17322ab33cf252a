----------------------------- MODULE MCCommands -----------------------------
(***************************************************************************)
(* Instances for TLC of what commands share. The active generation: two    *)
(* commands on two folders, one command on three that are moved and copied *)
(* about, or a command and a desktop. And the gates inside one project:    *)
(* two processes without an identity that close what the other works on,   *)
(* one with an identity that starts and adds work, or two with the same    *)
(* identity that start tasks side by side.                                 *)
(***************************************************************************)
EXTENDS DesktopInit, TLC

CONSTANTS c1, c2, d, r1, r2, r3, p1, p2
VARIABLES
  part,
  plans, task, note, issue, commit, seq, active, actives, actors,
  editor, closeout, override, proc

gates == <<plans, task, note, issue, commit, seq, active, actives, actors, editor, closeout,
           override, proc>>

Closing(commands) == INSTANCE WorkGates WITH
  plan <- plans, Proc <- {p1, p2}, Identity <- [p \in {p1, p2} |-> "nobody"],
  Commands <- {"plan", "add", "done", "edit", "delete"} \cup commands,
  Actor <- {"ann"}, NoActor <- "nobody", Closed <- "closed", Callers <- {}, Reason <- {},
  NoReason <- "none", Sha <- {"sha"}, PlanStatusIn <- {}, TaskStatusIn <- {"todo"},
  MaxPlan <- 2, MaxTask <- 2, MaxNote <- 1, MaxIssue <- 0, MaxMilestone <- 0,
  MaxEpoch <- 1, MaxDeps <- 0
Starting == INSTANCE WorkGates WITH
  plan <- plans, Proc <- {"solo"}, Identity <- [p \in {"solo"} |-> "ann"],
  Commands <- {"plan", "add", "start", "done", "uiplan", "claim"},
  Actor <- {"ann"}, NoActor <- "nobody", Closed <- "closed", Callers <- {}, Reason <- {},
  NoReason <- "none", Sha <- {}, PlanStatusIn <- {}, TaskStatusIn <- {},
  MaxPlan <- 2, MaxTask <- 2, MaxNote <- 1, MaxIssue <- 0, MaxMilestone <- 0,
  MaxEpoch <- 1, MaxDeps <- 0
Racing == INSTANCE WorkGates WITH
  plan <- plans, Proc <- {p1, p2}, Identity <- [p \in {p1, p2} |-> "ann"],
  Commands <- {"plan", "add", "start", "done", "claim"},
  Actor <- {"ann"}, NoActor <- "nobody", Closed <- "closed", Callers <- {}, Reason <- {},
  NoReason <- "none", Sha <- {}, PlanStatusIn <- {}, TaskStatusIn <- {},
  MaxPlan <- 1, MaxTask <- 3, MaxNote <- 1, MaxIssue <- 0, MaxMilestone <- 0,
  MaxEpoch <- 1, MaxDeps <- 0

\* The commands of two that close tasks over their evidence, or plans over tasks.
Tasks == {"uitask", "commit"}
Plans == {"plandone"}

AtGates == part \in {"closes tasks", "closes plans", "starts", "races"}
MCInit ==
  /\ part \in {"commands", "moves", "desktop", "closes tasks", "closes plans", "starts",
              "races"}
  /\ Init /\ disk[r3] = Gone
  /\ (part = "moves" => disk[r1].here)
  /\ AtGates => \A r \in Roots : disk[r] = Gone
  /\ CASE part = "closes tasks" -> Closing(Tasks)!Init
       [] part = "closes plans" -> Closing(Plans)!Init
       [] part = "starts" -> Starting!Init
       [] part = "races" -> Racing!Init
       [] OTHER ->
            /\ plans = None /\ task = None /\ note = None /\ issue = None /\ commit = None
            /\ seq = None /\ active = None /\ actives = None /\ actors = None
            /\ editor = None /\ closeout = None /\ override = None /\ proc = None
MCNext ==
  /\ UNCHANGED part
  /\ \/ part = "commands" /\ ANext /\ ~disk'[r3].here /\ UNCHANGED <<ivars, gates>>
     \/ part = "moves" /\ ANext /\ pc'[c2] = "idle" /\ UNCHANGED <<ivars, gates>>
     \/ /\ part = "desktop" /\ Next /\ ~disk'[r3].here /\ pc'[c2] = "idle" /\ upheavals' < 2
        /\ UNCHANGED gates
     \/ part = "closes tasks" /\ Closing(Tasks)!Next /\ UNCHANGED vars
     \/ part = "closes plans" /\ Closing(Plans)!Next /\ UNCHANGED vars
     \/ part = "starts" /\ Starting!Next /\ UNCHANGED vars
     \/ part = "races" /\ Racing!Next /\ UNCHANGED vars
MCSpec == MCInit /\ [][MCNext]_<<vars, part, gates>>

Symmetric ==
  {f @@ g : f \in Permutations({r1, r2}), g \in Permutations({p1, p2})}

\* The properties of the gates.  Those of a close say the same of any instance;
\* the tasks in progress are counted against the processes there are.
OneTaskPerCommand == /\ part = "starts" => Starting!OneTaskPerCommand
                     /\ part = "races" => Racing!OneTaskPerCommand
OneTaskInProgress == part = "races" => Racing!OneTaskInProgress
CloseRestsOnEvidence == [][AtGates => Closing(Tasks)!CloseRestsOnEvidence]_gates
OpenWorkIsRecorded == [][AtGates => Closing(Tasks)!OpenWorkIsRecorded]_gates
=============================================================================
