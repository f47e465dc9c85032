----------------------------- MODULE MCReconcile -----------------------------
(***************************************************************************)
(* Two containers, two nginx locations, one card whose requests may outlive  *)
(* it.  The ports are 3 and 30, so that one begins with the other's digits.  *)
(***************************************************************************)
EXTENDS Reconcile, TLC

CONSTANTS n1, n2

Symmetry == Permutations(Jobs) \cup Permutations(Locations)

MCPortOf == n1 :> 3 @@ n2 :> 30

=============================================================================
