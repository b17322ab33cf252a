------------------------------ MODULE MCSteps ------------------------------
(***************************************************************************)
(* Instances for TLC of operations that take many steps and are undone or  *)
(* given up at any of them, each explored with the other at rest: two      *)
(* processes, each with an identity of its own, that copy and move plans   *)
(* between two projects; and two launches of terminals, one of them linked *)
(* to an agent run.  Only the one that is explored owes its steps.         *)
(***************************************************************************)
EXTENDS PlanTransfer

CONSTANTS a, b, p1, p2
VARIABLES
  part,
  gateClosed, cancelled, admissionClosed, down, managerDown, place, shell, token, run,
  creator, closer, undoer, exits, leases

launching == <<gateClosed, cancelled, admissionClosed, down, managerDown, place, shell, token,
               run, creator, closer, undoer, exits, leases>>

Named == [p \in Proc |-> IF p = p1 THEN a ELSE b]
Launched == {"linked", "plain"}
Launches == INSTANCE TerminalRuntime WITH
  proc <- shell, Session <- Launched, Linked <- {"linked"},
  Faults <- {"spawn", "register", "bind", "mint"}

MCInit == part \in {"transfers", "launches"} /\ Init /\ Launches!Init
MCNext ==
  /\ UNCHANGED part
  /\ \/ part = "transfers" /\ Next /\ UNCHANGED launching
     \/ part = "launches" /\ Launches!Next /\ UNCHANGED vars
Transferring == \A p \in Proc : WF_vars(part = "transfers" /\ Step(p))
Launching == WF_launching(part = "launches" /\ Launches!Going)
MCSpec == MCInit /\ [][MCNext]_<<part, vars, launching>> /\ Transferring /\ Launching

\* The properties of the launches.
RuntimeSafe == Launches!RuntimeSafe
ShutdownEnds == Launches!ShutdownEnds
=============================================================================
