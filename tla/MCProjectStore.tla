--------------------------- MODULE MCProjectStore ---------------------------
(***************************************************************************)
(* Instances of ProjectStore for TLC: two identities that claim plans, one *)
(* store with every kind of record and plans that arrive from elsewhere,   *)
(* plans that move away, without identities or with two, plans and tasks   *)
(* that depend on each other, or milestones and holds.                     *)
(***************************************************************************)
EXTENDS ProjectStore, TLC

VARIABLE part

Identities == Permutations(Actor)

\* What comes from elsewhere: a finished plan with two tasks, one of which
\* depends on the other and on a task that stays behind, and all that is on
\* them; and one without tasks.
Arriving ==
  {[plan |-> [NewPlan(2) EXCEPT !.status = "done", !.epoch = 3, !.deps = {1}],
    task |-> (4 :> [NewTask(9) EXCEPT !.status = "done"] @@ 7 :> [NewTask(9) EXCEPT !.deps = {1, 4}]),
    note |-> 2 :> [target |-> "task", id |-> 7],
    issue |-> 5 :> [task |-> 4, status |-> "open"],
    commit |-> [c \in Sha |-> [plan |-> 9, task |-> 4]]],
   [plan |-> NewPlan(1),
    task |-> <<>>, note |-> 1 :> [target |-> "plan", id |-> 9], issue |-> <<>>, commit |-> <<>>]}

Claims == INSTANCE ProjectStore WITH
  Sha <- {}, Reason <- {}, PlanStatusIn <- {"active", "done"}, Movers <- {}, Arrivals <- {}
Links == INSTANCE ProjectStore WITH
  Actor <- {}, Callers <- {NoActor}, Reason <- {}, TaskStatusIn <- {}, Movers <- {},
  MaxTask <- 2, MaxNote <- 1, MaxIssue <- 1, MaxEpoch <- 0
Moves == INSTANCE ProjectStore WITH
  Actor <- {}, Callers <- {NoActor}, Movers <- {NoActor}, Arrivals <- {},
  Reason <- {}, PlanStatusIn <- {}, TaskStatusIn <- {}, MaxTask <- 1, MaxNote <- 1, MaxIssue <- 1,
  MaxEpoch <- 0
Owned == INSTANCE ProjectStore WITH
  Arrivals <- {}, Sha <- {}, PlanStatusIn <- {}, TaskStatusIn <- {},
  MaxPlan <- 1, MaxTask <- 1, MaxNote <- 1, MaxIssue <- 1, MaxEpoch <- 1
Graph == INSTANCE ProjectStore WITH
  Actor <- {}, Callers <- {NoActor}, Reason <- {}, Sha <- {}, PlanStatusIn <- {}, TaskStatusIn <- {},
  Movers <- {}, Arrivals <- {}, MaxPlan <- 3, MaxTask <- 2, MaxEpoch <- 0, MaxDeps <- 1
Milestones == INSTANCE ProjectStore WITH
  Actor <- {}, Callers <- {NoActor}, Sha <- {}, Movers <- {}, Arrivals <- {}, MaxMilestone <- 1, MaxEpoch <- 0

MCInit == part \in {"claims", "links", "moves", "owned", "graph", "milestones"} /\ Init
MCNext ==
  /\ UNCHANGED part
  /\ \/ part = "claims" /\ Claims!Next
     \/ part = "links" /\ Links!Next
     \/ part = "moves" /\ Moves!Next
     \/ part = "owned" /\ Owned!Next
     \/ part = "graph" /\ Graph!Next
     \/ part = "milestones" /\ Milestones!Next
MCSpec == MCInit /\ [][MCNext]_<<part, vars>>
=============================================================================
