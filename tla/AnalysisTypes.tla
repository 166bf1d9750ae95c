--------------------------- MODULE AnalysisTypes ---------------------------
(***************************************************************************)
(* What the backend and the AI engine share about an analysis: the ids,    *)
(* the session statuses and the terminal events of a run.                  *)
(***************************************************************************)
EXTENDS Naturals, FiniteSets

CONSTANT Sessions       \* session ids, also the thread ids of the graph

\* SessionStatus without PENDING, which no transaction ever commits.
Statuses == {"running", "completed", "error", "interrupted",
             "awaiting_confirmation", "cancelled"}

\* The terminal events of a run, and those RedisSubscriber acts on.
Events       == {"completed", "error", "awaiting_confirmation", "cancelled"}
StatusEvents == {"completed", "error", "awaiting_confirmation"}
=============================================================================
