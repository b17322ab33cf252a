-------------------------- MODULE MCUpdateInstall --------------------------
(***************************************************************************)
(* Instances of UpdateInstall for TLC, with a payload that works and one   *)
(* that does not: two processes while the power is on, or one and a power  *)
(* that may go.                                                            *)
(***************************************************************************)
EXTENDS UpdateInstall, TLC

CONSTANTS works, broken, p1, p2

MCNext == InstallNext /\ (power = "fails" => proc'[p2].pc = "idle")
MCSpec == InstallInit /\ [][MCNext]_<<installvars, power>>
          /\ FairRun(p1) /\ (power = "on" => FairRun(p2))
=============================================================================
