------------------------------- MODULE MCGrpc -------------------------------
(***************************************************************************)
(* Grpc for TLC: the VUs are interchangeable.                              *)
(***************************************************************************)
EXTENDS Grpc, TLC

Symmetry == Permutations(VUs)
=============================================================================
