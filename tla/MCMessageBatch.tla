--------------------------- MODULE MCMessageBatch ---------------------------
(* The symmetry of the safety runs of MessageBatch. *)
EXTENDS MessageBatch, TLC

BatchSymmetry == Permutations(Delivery) \cup Permutations(Worker)
=============================================================================
