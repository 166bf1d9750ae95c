----------------------------- MODULE DastPanel -----------------------------
(***************************************************************************)
(* DAST runs as the editor shows them: DastRunSection starts the test of   *)
(* one finding, DastWorkspacePage a batch.  The run that goes on is an id  *)
(* in the store; the stream of its events is opened by the hook of the     *)
(* view that shows them, while that view is mounted, and ends it.  What    *)
(* the engine does with a run is DastStream's; here it ends at some time.  *)
(* A result is kept for five minutes, for a stream that is opened later; a *)
(* failure is told to the streams that are open and kept nowhere.          *)
(***************************************************************************)
CONSTANTS
    Runs,        \* clicks on run, each with a new id
    NoRun

VARIABLES
    session,     \* dastSessionId: a run, or NoRun
    output,      \* is DastTerminal mounted (bottom panel, tab "output")?
    post,        \* run -> none, sent, answered, or lost
    scan,        \* run -> none, running, ended, or gone (nothing is kept of it)
    shown,       \* runs whose result the editor has
    batch,       \* off, launching, on (dastBatchSessionId is set)
    page,        \* is DastWorkspacePage mounted?
    engine,      \* does the engine run a batch of the session?
    kept         \* is there a summary under its id, of this batch or one before?

vars   == <<session, output, post, scan, shown, batch, page, engine, kept>>
single == <<session, output, post, scan, shown>>

Init ==
    /\ session = NoRun /\ output \in BOOLEAN
    /\ post = [r \in Runs |-> "none"]
    /\ scan = [r \in Runs |-> "none"]
    /\ shown = {}
    /\ batch = "off" /\ page = FALSE /\ engine = FALSE /\ kept = FALSE
-----------------------------------------------------------------------------
(* One finding: DastRunSection, useDastStream *)

\* handleRun: the id is set before the request is sent.
Run(r) ==
    /\ session = NoRun /\ post[r] = "none"
    /\ session' = r
    /\ post' = [post EXCEPT ![r] = "sent"]
    /\ UNCHANGED <<output, scan, shown, batch, page, engine, kept>>

\* The effect of useDastStream has a stream open while both are there.
Streaming(r) == output /\ session = r

Scanning(r) ==
    /\ post[r] \in {"sent", "lost"} /\ scan[r] = "none"
    /\ scan' = [scan EXCEPT ![r] = "running"]
    /\ UNCHANGED <<session, output, post, shown, batch, page, engine, kept>>
ScanEnds(r) ==
    /\ scan[r] = "running" /\ scan' = [scan EXCEPT ![r] = "ended"]
    /\ UNCHANGED <<session, output, post, shown, batch, page, engine, kept>>
\* An open stream is told (StreamError's answer); and a result expires.
ScanFails(r) ==
    /\ scan[r] = "running" /\ scan' = [scan EXCEPT ![r] = "gone"]
    /\ session' = IF Streaming(r) THEN NoRun ELSE session
    /\ UNCHANGED <<output, post, shown, batch, page, engine, kept>>
Expires(r) ==
    /\ scan[r] = "ended" /\ ~Streaming(r)
    /\ scan' = [scan EXCEPT ![r] = "gone"]
    /\ UNCHANGED <<session, output, post, shown, batch, page, engine, kept>>

Accepted(r) ==
    /\ post[r] = "sent" /\ scan[r] # "none"
    /\ post' = [post EXCEPT ![r] = "answered"]
    /\ UNCHANGED <<session, output, scan, shown, batch, page, engine, kept>>

\* Mutant: the id is kept.
RejectedKept(r) ==
    /\ post[r] = "sent"
    /\ post' = [post EXCEPT ![r] = "answered"]
    /\ UNCHANGED <<session, output, scan, shown, batch, page, engine, kept>>

\* A status that is not ok, also when the engine has begun: the id is reset,
\* whose ever it is by now.
Rejected(r) ==
    /\ post[r] = "sent"
    /\ post' = [post EXCEPT ![r] = "answered"]
    /\ session' = NoRun
    /\ UNCHANGED <<output, scan, shown, batch, page, engine, kept>>

\* fetch throws: only a toast.
PostLost(r) ==
    /\ post[r] = "sent"
    /\ post' = [post EXCEPT ![r] = "lost"]
    /\ UNCHANGED <<session, output, scan, shown, batch, page, engine, kept>>

\* dast_result, published now or kept.
Result(r) ==
    /\ Streaming(r) /\ scan[r] = "ended"
    /\ shown' = shown \cup {r} /\ session' = NoRun
    /\ UNCHANGED <<output, post, scan, batch, page, engine, kept>>

\* The connection breaks.
StreamError(r) ==
    /\ Streaming(r) /\ session' = NoRun
    /\ UNCHANGED <<output, post, scan, shown, batch, page, engine, kept>>

\* Another tab of the bottom panel, or the panel is closed; and back.
Output ==
    /\ output' = ~output
    /\ UNCHANGED <<session, post, scan, shown, batch, page, engine, kept>>
-----------------------------------------------------------------------------
(* A batch: DastWorkspacePage, useDastBatchStream *)

Page ==
    /\ page' = ~page
    /\ UNCHANGED <<single, batch, engine, kept>>

\* handleBatchRun: the id is that of the analysis session, set after the
\* answer, also when the page is gone.  Bound: one launch at a time.
Launch ==
    /\ page /\ batch = "off" /\ batch' = "launching"
    /\ UNCHANGED <<single, page, engine, kept>>
Launched ==
    /\ batch = "launching"
    /\ \/ batch' = "on" /\ engine' = TRUE
       \/ batch' = "off" /\ engine' \in {engine, TRUE}
    /\ UNCHANGED <<single, page, kept>>
BatchCompletes ==
    /\ engine /\ engine' = FALSE /\ kept' = TRUE
    /\ UNCHANGED <<single, batch, page>>

SummaryExpires ==
    /\ kept /\ ~(page /\ batch = "on") /\ kept' = FALSE
    /\ UNCHANGED <<single, batch, page, engine>>

\* dast_batch_complete: of this batch, or kept under the id from one before.
BatchSummary ==
    /\ page /\ batch = "on" /\ kept
    /\ batch' = "off"
    /\ UNCHANGED <<single, page, engine, kept>>
\* dast_error, or the connection breaks.
BatchError ==
    /\ page /\ batch = "on"
    /\ batch' = "off"
    /\ UNCHANGED <<single, page, engine, kept>>

Next ==
    \/ \E r \in Runs :
        \/ Run(r) \/ Scanning(r) \/ ScanEnds(r) \/ ScanFails(r) \/ Expires(r)
        \/ Accepted(r) \/ Rejected(r) \/ PostLost(r) \/ Result(r) \/ StreamError(r)
    \/ Output \/ Page \/ Launch \/ Launched
    \/ BatchCompletes \/ SummaryExpires \/ BatchSummary \/ BatchError

\* Requests end, scans end (DastStream), and an open stream brings the result.
Fairness ==
    /\ \A r \in Runs :
        /\ WF_vars(Accepted(r) \/ Rejected(r) \/ PostLost(r))
        /\ WF_vars(ScanEnds(r) \/ ScanFails(r)) /\ WF_vars(Result(r))
    /\ WF_vars(BatchCompletes) /\ WF_vars(BatchSummary)
Spec == Init /\ [][Next]_vars /\ Fairness
-----------------------------------------------------------------------------
(* Properties *)

DastPanelTypeOK ==
    /\ session \in Runs \cup {NoRun} /\ output \in BOOLEAN
    /\ post \in [Runs -> {"none", "sent", "answered", "lost"}]
    /\ scan \in [Runs -> {"none", "running", "ended", "gone"}]
    /\ shown \subseteq Runs
    /\ batch \in {"off", "launching", "on"}
    /\ page \in BOOLEAN /\ engine \in BOOLEAN /\ kept \in BOOLEAN

\* A run or a batch does not keep the buttons disabled: it goes away once the
\* view that streams it stays open, also when it ended while the view was
\* closed, unless the engine never had it, or nothing is left of its end.
Lost(r) == (post[r] = "lost" /\ scan[r] = "none") \/ scan[r] = "gone"
LostBatch == ~engine /\ ~kept
DastRunEnds ==
    /\ \A r \in Runs : <>[]output => (session = r ~> session # r \/ Lost(r))
    /\ <>[]page => (batch = "on" ~> batch = "off" \/ LostBatch)

\* The run that disables the buttons has its request under way, or goes on in the
\* engine, or its end is kept, unless it is lost.
RunIsServed == \A r \in Runs : session = r =>
    post[r] = "sent" \/ scan[r] \in {"running", "ended"} \/ Lost(r)

\* Hazards: a lost request disables the buttons for ever, and a late refusal
\* takes the run of another finding away.
LostRunEnds  == \A r \in Runs : <>[]output => (session = r ~> session # r)
OwnResetOnly == [][\A r \in Runs : Rejected(r) => session \in {r, NoRun}]_vars
=============================================================================
