----------------------------- MODULE DocPolling -----------------------------
(***************************************************************************)
(* One card of SecurityDocPage: a document is requested, and an interval   *)
(* asks for its status.  Ticks do not wait for the answer to the one       *)
(* before, and the card knows one interval: the handle of the last         *)
(* request, also when an answer or a timeout of an earlier one stops it.   *)
(***************************************************************************)
EXTENDS Naturals

CONSTANTS
    Requests,    \* clicks on generate
    NoRequest,
    MaxPolls     \* MAX_POLL_COUNT

VARIABLES
    card,        \* idle, generating, completed or failed
    handle,      \* pollingRefs: the request whose interval is known
    doc,         \* request -> none, posting, working, COMPLETED, FAILED
    ticking,     \* requests whose interval runs
    polls,       \* request -> ticks so far, the last one the timeout
    inflight,    \* request -> status requests not yet answered
    download     \* the request whose document is offered

vars == <<card, handle, doc, ticking, polls, inflight, download>>

Ready == {"COMPLETED", "FAILED"}

Init ==
    /\ card = "idle" /\ handle = NoRequest
    /\ doc = [r \in Requests |-> "none"]
    /\ ticking = {}
    /\ polls = [r \in Requests |-> 0]
    /\ inflight = [r \in Requests |-> 0]
    /\ download = NoRequest

\* stopPolling
StopPolling == ticking' = ticking \ {handle} /\ handle' = NoRequest
-----------------------------------------------------------------------------
\* handleGenerate: the button is there while nothing is generated.
Generate(r) ==
    /\ card \in {"idle", "failed"} /\ doc[r] = "none"
    /\ card' = "generating"
    /\ doc' = [doc EXCEPT ![r] = "posting"]
    /\ UNCHANGED <<handle, ticking, polls, inflight, download>>

\* startPolling: an interval that is known already is forgotten, not stopped.
Requested(r) ==
    /\ doc[r] = "posting" /\ doc' = [doc EXCEPT ![r] = "working"]
    /\ ticking' = ticking \cup {r} /\ handle' = r
    /\ UNCHANGED <<card, polls, inflight, download>>
RequestFails(r) ==
    /\ doc[r] = "posting" /\ doc' = [doc EXCEPT ![r] = "FAILED"]
    /\ card' = "failed"
    /\ UNCHANGED <<handle, ticking, polls, inflight, download>>

\* The backend writes the document.
Written(r, how) ==
    /\ doc[r] = "working"
    /\ doc' = [doc EXCEPT ![r] = how]
    /\ UNCHANGED <<card, handle, ticking, polls, inflight, download>>

\* Mutant: the timeout stops the interval and leaves the card as it is.
TickQuietly(r) ==
    /\ r \in ticking
    /\ \/ /\ polls[r] < MaxPolls
          /\ polls' = [polls EXCEPT ![r] = @ + 1]
          /\ inflight' = [inflight EXCEPT ![r] = @ + 1]
          /\ UNCHANGED <<handle, ticking>>
       \/ polls[r] = MaxPolls /\ StopPolling /\ UNCHANGED <<polls, inflight>>
    /\ UNCHANGED <<card, doc, download>>

\* The interval: ask, or give up.  One that nobody stops gives up for ever.
Tick(r) ==
    /\ r \in ticking
    /\ \/ /\ polls[r] < MaxPolls
          /\ polls' = [polls EXCEPT ![r] = @ + 1]
          /\ inflight' = [inflight EXCEPT ![r] = @ + 1]
          /\ UNCHANGED <<card, handle, ticking>>
       \/ /\ polls[r] = MaxPolls
          /\ StopPolling /\ card' = "failed"
          /\ UNCHANGED <<polls, inflight>>
    /\ UNCHANGED <<doc, download>>

\* An answer with the end of the document, an older answer, or none.
Answer(r) ==
    /\ inflight[r] > 0
    /\ inflight' = [inflight EXCEPT ![r] = @ - 1]
    /\ \/ /\ doc[r] = "COMPLETED" /\ StopPolling
          /\ card' = "completed" /\ download' = r
       \/ /\ doc[r] = "FAILED" /\ StopPolling
          /\ card' = "failed" /\ download' = download
       \/ UNCHANGED <<card, handle, ticking, download>>
    /\ UNCHANGED <<doc, polls>>

Next ==
    \E r \in Requests :
        \/ Generate(r) \/ Requested(r) \/ RequestFails(r)
        \/ (\E how \in Ready : Written(r, how)) \/ Tick(r) \/ Answer(r)

\* Requests are answered and intervals tick; nothing is assumed of the backend.
Fairness == \A r \in Requests : WF_vars(Requested(r) \/ RequestFails(r)) /\ WF_vars(Tick(r))
Spec == Init /\ [][Next]_vars /\ Fairness
-----------------------------------------------------------------------------
(* Properties *)

DocTypeOK ==
    /\ card \in {"idle", "generating", "completed", "failed"}
    /\ handle \in Requests \cup {NoRequest}
    /\ doc \in [Requests -> Ready \cup {"none", "posting", "working"}]
    /\ ticking \subseteq Requests
    /\ polls \in [Requests -> 0 .. MaxPolls]
    /\ inflight \in [Requests -> 0 .. MaxPolls]
    /\ download \in Requests \cup {NoRequest}

\* A card does not stay at "generating", whatever the backend does and however
\* answers of earlier requests come in: each stop also ends that state.
GeneratingEnds == card = "generating" ~> card # "generating"

\* A card at "generating" has a request under way or an interval that ticks: no
\* answer or timeout of an earlier request stops the last of them and leaves the
\* card as it was.
CardIsServed == card = "generating" =>
    \E r \in Requests : doc[r] = "posting" \/ r \in ticking

\* Hazards: an interval that nobody can stop, and a document of an earlier
\* request under the card of a later one.
IntervalsKnown == ticking \subseteq {handle}
DownloadIsLast == card = "completed" => \A r \in Requests : doc[r] # "posting"
=============================================================================
