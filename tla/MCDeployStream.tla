--------------------------- MODULE MCDeployStream ---------------------------
(***************************************************************************)
(* Instances of DeployStream for TLC.                                      *)
(***************************************************************************)
EXTENDS DeployStream

\* The first row is written twice, so that its events may cross; the second is closed at once.
MCMaxWrites == [d \in Deployments |-> IF d = 1 THEN 2 ELSE 1]

=============================================================================
