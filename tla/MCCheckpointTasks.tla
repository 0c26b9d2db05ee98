-------------------------- MODULE MCCheckpointTasks --------------------------
(* Small instance of CheckpointTasks. *)
EXTENDS CheckpointTasks, TLC

CONSTANTS c1, c2, o1

MCSymmetry == Permutations({c1, c2})
=============================================================================
