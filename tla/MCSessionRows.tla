--------------------------- MODULE MCSessionRows ---------------------------
(***************************************************************************)
(* Small instances of SessionRows for TLC: the backend against an engine   *)
(* that may answer, fail and publish anything at any time.                 *)
(***************************************************************************)
EXTENDS SessionRows, TLC

CONSTANTS p1

\* All sessions belong to one project.
OneProject == [s \in Sessions |-> p1]

\* Neither the threads nor the sessions of the project are told apart.
RowsSymmetry == Permutations(Workers) \cup Permutations(Sessions)

\* Bound: findings are reported for one of the sessions only.
ReportedOn(s) ==
    \/ found[s] # {}
    \/ \E w \in Workers : Open(w) /\ tx[w].op = "save" /\ tx[w].session = s

OneIsReportedOn == Cardinality({s \in Sessions : ReportedOn(s)}) <= 1
=============================================================================
