---------------------------- MODULE MCCheckpoint ----------------------------
(***************************************************************************)
(* Instances of Checkpoint for TLC: a handful of checkpoints and replies,   *)
(* which are interchangeable.                                              *)
(***************************************************************************)
EXTENDS Checkpoint, TLC

MCSymmetry == Permutations(Checkpoints) \cup Permutations(Approvers) \cup Permutations(Replies)

=============================================================================
