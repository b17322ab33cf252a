----------------------------- MODULE MCDesktop -----------------------------
\* Small instances of the desktop: the coordinator over whole workspaces, the
\* commands inside one open workspace, and what its agents agree on, each
\* explored with the others at rest.
EXTENDS DesktopRuntime, DesktopResources, AgentCoordination, TLC
CONSTANTS
  opener, closer, caller, initer, poller, quitter, launcher, linker, mover, a, b
VARIABLES part

\* What the parts other than this one keep.
Others(here) ==
  /\ IF here = "coordinator" THEN TRUE ELSE UNCHANGED vars
  /\ IF here = "workspace" THEN TRUE ELSE UNCHANGED rvars
  /\ IF here = "coordination" THEN TRUE ELSE UNCHANGED cvars
everything == <<part, vars, rvars, cvars>>

MCInit ==
  /\ part \in {"coordinator", "workspace", "coordination"}
  /\ Init /\ (part # "coordinator" => status = "open")
  /\ RInit /\ CInit
MCNext ==
  \/ part = "coordinator" /\ Next /\ Others(part) /\ UNCHANGED part
  \/ part = "workspace" /\ RNext /\ Others(part) /\ UNCHANGED part
  \/ part = "coordination" /\ CNext /\ Others(part) /\ UNCHANGED part
MCSpec == MCInit /\ [][MCNext]_everything
Symmetry == Permutations({a, b})
=============================================================================
