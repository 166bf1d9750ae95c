--------------------------- MODULE FindingsPanel ---------------------------
(***************************************************************************)
(* Triage in the findings list: TriageSection and the bulk bar of          *)
(* VulnDetailPanel show the new status before the backend has answered,    *)
(* and take it back when the answer says so.  The row has its own buttons, *)
(* which forget what is under way when it is folded, and the bulk bar does *)
(* not know of them, so operations on one finding can overlap.  Four       *)
(* handlers load the list again; three of them show every finding as open. *)
(***************************************************************************)
EXTENDS Naturals, FiniteSets

CONSTANTS
    Vulns,
    Ops,         \* operations that can be under way at once,
    Bulk,        \* the bulk bar's among them; the others are a row's
    Loads,       \* loads of the list that can be under way at once
    MaxPending,  \* bound: operations and loads under way at once
    MaxTangled   \* bound: findings that are tangled at once

VARIABLES
    status,      \* finding -> its status in the backend
    shown,       \* finding -> its status in the list
    state,       \* operation -> idle, sent or served
    ids,         \* operation -> the findings it is about
    action,      \* operation -> what it asks for
    prev,        \* operation -> what was shown of them when it began
    applied,     \* operation -> the findings the backend changed
    tangled,     \* findings of which the list may say something else
    loading,     \* loads that the backend has answered
    found,       \* load -> the statuses in its answer
    crossed      \* load -> findings the backend has changed since

ops   == <<state, ids, action, prev, applied>>
loads == <<loading, found, crossed>>
vars  == <<status, shown, ops, tangled, loads>>

Statuses == {"open", "fixed", "false_positive"}
Actions  == {"CONFIRM", "DISMISS", "ACCEPT_PATCH"}
\* Mutant: the action itself.
NewStatusOf(a) == a

\* BULK_ACTION_TO_STATUS, and the same map in TriageSection and the backend.
NewStatus(a) ==
    CASE a = "CONFIRM"      -> "open"
      [] a = "DISMISS"      -> "false_positive"
      [] a = "ACCEPT_PATCH" -> "fixed"

\* list.map: the findings in vs get the status that "by" has for them.
SetAll(list, vs, by) == [v \in Vulns |-> IF v \in vs THEN by[v] ELSE list[v]]
All(st) == [v \in Vulns |-> st]

Pending(o) == state[o] \in {"sent", "served"}
Busy == {v \in Vulns : \E o \in Ops : Pending(o) /\ v \in ids[o]}

\* Another operation or load may begin.
Room == Cardinality({o \in Ops : Pending(o)}) + Cardinality(loading) < MaxPending

Tangle(vs) == Cardinality(vs) <= MaxTangled /\ tangled' = vs

Init ==
    /\ status = All("open") /\ shown = status
    /\ state = [o \in Ops |-> "idle"]
    /\ ids = [o \in Ops |-> {}]
    /\ action = [o \in Ops |-> "CONFIRM"]
    /\ prev = [o \in Ops |-> All("open")]
    /\ applied = [o \in Ops |-> {}]
    /\ tangled = {}
    /\ loading = {} /\ found = [l \in Loads |-> All("open")]
    /\ crossed = [l \in Loads |-> {}]
-----------------------------------------------------------------------------
\* handleTriage (one finding) and executeBulkTriage (those selected).
Triage(o, vs, a) ==
    /\ Room /\ state[o] = "idle"
    /\ vs # {} /\ (o = Bulk \/ \E v \in vs : vs = {v})
    /\ state' = [state EXCEPT ![o] = "sent"]
    /\ ids' = [ids EXCEPT ![o] = vs]
    /\ action' = [action EXCEPT ![o] = a]
    /\ prev' = [prev EXCEPT ![o] = SetAll(@, vs, shown)]
    /\ shown' = SetAll(shown, vs, All(NewStatus(a)))
    /\ Tangle(tangled \cup (vs \cap Busy))
    /\ UNCHANGED <<status, applied, loads>>

\* The backend changes those that exist and that the user may change.
Serve(o, can) ==
    /\ state[o] = "sent"
    /\ state' = [state EXCEPT ![o] = "served"]
    /\ applied' = [applied EXCEPT ![o] = ids[o] \cap can]
    /\ status' = SetAll(status, ids[o] \cap can, All(NewStatus(action[o])))
    /\ crossed' = [l \in Loads |-> IF l \in loading THEN crossed[l] \cup (ids[o] \cap can)
                                                  ELSE {}]
    /\ UNCHANGED <<shown, ids, action, prev, tangled, loading, found>>

\* The handler returns, and what it knew is gone with it.
Return(o) ==
    /\ state' = [state EXCEPT ![o] = "idle"]
    /\ ids' = [ids EXCEPT ![o] = {}]
    /\ action' = [action EXCEPT ![o] = "CONFIRM"]
    /\ prev' = [prev EXCEPT ![o] = All("open")]
    /\ applied' = [applied EXCEPT ![o] = {}]

\* Mutant: the skipped ones are not taken back.
AnswerTaken(o) ==
    /\ state[o] = "served"
    /\ Return(o)
    /\ UNCHANGED <<status, shown, tangled, loads>>

\* The answer names those that were changed; the others are taken back.
Answer(o) ==
    /\ state[o] = "served"
    /\ shown' = SetAll(shown, ids[o] \ applied[o], prev[o])
    /\ Return(o)
    /\ UNCHANGED <<status, tangled, loads>>

\* The request fails, before the backend acts or after: all are taken back.
Fail(o) ==
    /\ Pending(o)
    /\ shown' = SetAll(shown, ids[o], prev[o])
    /\ Tangle(tangled \cup applied[o])
    /\ Return(o)
    /\ UNCHANGED <<status, loads>>

\* handleFix: applyPatch changes the list only, the backend is not told.
ApplyPatch(v) ==
    /\ shown' = [shown EXCEPT ![v] = "fixed"]
    /\ Tangle(tangled \cup {v})
    /\ UNCHANGED <<status, ops, loads>>

\* The list is asked for again, and the backend answers.
LoadRead(l) ==
    /\ Room /\ l \notin loading /\ loading' = loading \cup {l}
    /\ found' = [found EXCEPT ![l] = status]
    /\ crossed' = [crossed EXCEPT ![l] = {}]
    /\ UNCHANGED <<status, shown, ops, tangled>>

LoadEnds(l) ==
    /\ l \in loading /\ loading' = loading \ {l}
    /\ found' = [found EXCEPT ![l] = All("open")]
    /\ crossed' = [crossed EXCEPT ![l] = {}]

\* The answer arrives, and the list becomes what the loader makes of it; what
\* is under way goes on with what it knew.
Load(l, new) ==
    /\ LoadEnds(l)
    /\ shown' = new
    /\ Tangle(Busy \cup crossed[l] \cup {v \in Vulns : new[v] # found[l][v]})
    /\ UNCHANGED <<status, ops>>

\* useLoadLatestResults takes the statuses of the answer.
Reload(l) == Load(l, found[l])
\* The event "completed", the history and the context menu write "open".
ReloadOpen(l) == Load(l, All("open"))
\* The answer is lost.
ReloadFails(l) ==
    /\ LoadEnds(l)
    /\ UNCHANGED <<status, shown, ops, tangled>>

Next ==
    \/ \E o \in Ops, vs \in SUBSET Vulns, a \in Actions : Triage(o, vs, a)
    \/ \E o \in Ops, can \in SUBSET Vulns : Serve(o, can)
    \/ \E o \in Ops : Answer(o) \/ Fail(o)
    \/ \E v \in Vulns : ApplyPatch(v)
    \/ \E l \in Loads : LoadRead(l) \/ Reload(l) \/ ReloadOpen(l) \/ ReloadFails(l)

Spec == Init /\ [][Next]_vars
-----------------------------------------------------------------------------
(* Properties *)

FindingsTypeOK ==
    /\ status \in [Vulns -> Statuses] /\ shown \in [Vulns -> Statuses]
    /\ state \in [Ops -> {"idle", "sent", "served"}]
    /\ ids \in [Ops -> SUBSET Vulns] /\ action \in [Ops -> Actions]
    /\ prev \in [Ops -> [Vulns -> Statuses]]
    /\ applied \in [Ops -> SUBSET Vulns]
    /\ tangled \subseteq Vulns /\ loading \subseteq Loads
    /\ found \in [Loads -> [Vulns -> Statuses]] /\ crossed \in [Loads -> SUBSET Vulns]

\* When nothing is under way for a finding, the list shows the backend's
\* status, whatever was applied, skipped or refused: unless two operations on
\* it overlapped, an answer was lost, the patch was applied in the list, or the
\* list was last loaded by a handler that showed it as open while it was not,
\* or from an answer that was older than an operation on it.
SettledAgrees == \A v \in Vulns \ (Busy \cup tangled) : shown[v] = status[v]
=============================================================================
