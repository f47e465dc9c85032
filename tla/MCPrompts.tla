------------------------------ MODULE MCPrompts ------------------------------
(***************************************************************************)
(* Instance of Prompts for TLC.                                            *)
(***************************************************************************)
EXTENDS Prompts, TLC

CONSTANTS k1, k2

MCCandidates == <<k1, k2>>

MCSymmetry == Permutations(Operators) \cup Permutations(Providers)

=============================================================================
