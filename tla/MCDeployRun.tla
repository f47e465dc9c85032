----------------------------- MODULE MCDeployRun -----------------------------
(***************************************************************************)
(* Instances of DeployRun, with its lifecycle, for TLC.                     *)
(***************************************************************************)
EXTENDS DeployRunRefines

=============================================================================
