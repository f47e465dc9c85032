--------------------------- MODULE MCProvisioning ---------------------------
(***************************************************************************)
(* Instances of Provisioning for TLC: calls, and environments, are          *)
(* interchangeable.                                                        *)
(***************************************************************************)
EXTENDS Provisioning, TLC

MCSymmetry == Permutations(Calls) \cup Permutations(Environments)

=============================================================================
