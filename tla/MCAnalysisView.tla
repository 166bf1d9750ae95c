--------------------------- MODULE MCAnalysisView ---------------------------
(* Two projects with a session each, running, finished or still to come. *)
EXTENDS AnalysisView, TLC

CONSTANTS s1, s2, p1, p2
MCProjectOf == (s1 :> p1) @@ (s2 :> p2)
=============================================================================
