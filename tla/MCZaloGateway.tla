---------------------------- MODULE MCZaloGateway ----------------------------
(* The symmetry of the runs of ZaloGateway. *)
EXTENDS ZaloGateway, TLC

OpSymmetry == Permutations(Op)
=============================================================================
