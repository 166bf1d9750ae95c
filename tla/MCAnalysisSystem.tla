-------------------------- MODULE MCAnalysisSystem --------------------------
(***************************************************************************)
(* Small instances of AnalysisSystem for TLC.                              *)
(***************************************************************************)
EXTENDS AnalysisSystem, TLC

CONSTANTS p1

\* All sessions belong to one project.
OneProject == [s \in Sessions |-> p1]

\* Threads of one kind are interchangeable, and so are runs.
SystemSymmetry ==
    Permutations(Listeners) \cup Permutations(Requesters) \cup Permutations(Runs)
=============================================================================
