---------------------------- MODULE MCAuditChain ----------------------------
(***************************************************************************)
(* Small instances of AuditChain for TLC.                                  *)
(***************************************************************************)
EXTENDS AuditChain, TLC

\* Requests are interchangeable.
RequestSymmetry == Permutations(Requests)
=============================================================================
