---------------------------- MODULE MCDastStream ----------------------------
(***************************************************************************)
(* Small instances of DastStream for TLC: scan x by itself, the others in  *)
(* batches.                                                                *)
(***************************************************************************)
EXTENDS DastStream

CONSTANTS a1, a2, c1, x, A, C

InBatches == [s \in Scans |-> CASE s \in {a1, a2} -> A
                                [] s = c1         -> C
                                [] OTHER          -> NoBatch]
=============================================================================
