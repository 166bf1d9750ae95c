-------------------------- MODULE MCAccountErasure --------------------------
(***************************************************************************)
(* Small instances of AccountErasure for TLC.                              *)
(***************************************************************************)
EXTENDS AccountErasure, TLC

ErasureSymmetry == Permutations(Users) \cup Permutations(Jobs)
=============================================================================
