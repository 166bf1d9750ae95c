--------------------------- MODULE AnalysisSystem ---------------------------
(***************************************************************************)
(* The analysis of a project end to end: the backend (SessionRows) calls   *)
(* the AI engine (EngineRuns) from inside its transactions, and the engine *)
(* answers through Redis Pub/Sub and through the internal HTTP API.        *)
(*                                                                         *)
(* Redis messages are handled by a listener container without an executor  *)
(* of its own: each message gets a thread, so messages of one channel are  *)
(* handled concurrently and in any order.                                  *)
(***************************************************************************)
EXTENDS SessionRows, EngineRuns

CONSTANTS Listeners,    \* the threads that handle messages and internal calls
          SystemFaults  \* "calls": a call fails or its answer is lost;
                        \* "backend": the backend restarts;
                        \* "circuit": the circuit breaker opens

ASSUME SystemAssumption ==
    /\ Listeners \subseteq Workers
    /\ SystemFaults \subseteq {"calls", "backend", "circuit"}

Requesters == Workers \ Listeners

systemVars == <<rowVars, engineVars>>

SystemInit == RowsInit /\ EngineInit
----------------------------------------------------------------------------
(* Requests of users, up to the call.                                      *)

UserRequest(w, s) ==
    /\ \/ \E force \in BOOLEAN : Start(w, s, force)
       \/ Resume(w, s)
       \/ Confirm(w, s)
       \/ Cancel(w, s)
    /\ UNCHANGED engineVars

StartGoesOn(w) ==
    /\ StartSaves(w) \/ \E v \in Sessions : StartInterrupts(w, v)
    /\ UNCHANGED engineVars

StartGivesUp(w) == StartFails(w) /\ UNCHANGED engineVars
----------------------------------------------------------------------------
(* The calls.  A call the engine has accepted may still fail for the       *)
(* backend, when the answer is lost or late.                               *)

Lost == "calls" \in SystemFaults

CallStart(w) ==
    /\ In(w, "start", "read")
    /\ \E r \in Runs, gated \in BOOLEAN : AcceptAnalyze(r, tx[w].session, gated)
    /\ CallReturns(w) \/ (Lost /\ StartFails(w))

CallResume(w) ==
    /\ In(w, "resume", "read")
    /\ circuit = "closed"
    /\ \E r \in Runs : AcceptResume(r, tx[w].session)
    /\ CallReturns(w) \/ (Lost /\ CallFails(w))

CallConfirm(w) ==
    /\ In(w, "confirm", "read")
    /\ circuit = "closed"
    /\ \E r \in Runs : AcceptConfirm(r, tx[w].session)
    /\ CallReturns(w) \/ (Lost /\ CallFails(w))

\* Best effort: a 404 or an unreachable engine makes no difference.
CallCancel(w) ==
    /\ In(w, "cancel", "read")
    /\ CallReturns(w)
    /\ \/ AcceptCancel(tx[w].session)
       \/ /\ flag[tx[w].session] = "absent" \/ Lost
          /\ UNCHANGED engineVars

\* The breaker does not let the call through, the engine refuses it, it never
\* arrives, or all the tasks of the model are used.
CallRefused(w) ==
    /\ \/ circuit = "open"
       \/ tx[w].op = "confirm"
             /\ ~(checkpointer /\ checkpoint[tx[w].session].planned)
       \/ \A r \in Runs : run[r].phase # "free"
       \/ Lost
    /\ CallFails(w)
    /\ UNCHANGED engineVars
----------------------------------------------------------------------------
(* What the engine tells the backend.                                      *)

Handle(w, s, e) ==
    /\ Deliver(s, e)
    /\ OnMessage(w, s, e)

\* The row is not there (not committed yet, or rolled back): the message is
\* gone.
Ignore(s, e) ==
    /\ Deliver(s, e)
    /\ OnMessageIgnored(s, e)

Report(w, r, reported) ==
    /\ PostFindings(r)
    /\ SaveFindings(w, run[r].session, reported)

\* SESSION_NOT_FOUND: save_vulnerabilities logs it and the findings are gone.
ReportRefused(r) ==
    /\ Fingerprints # {}
    /\ PostFindings(r)
    /\ row[run[r].session].status = "absent"
    /\ UNCHANGED rowVars

\* The answer comes when the transaction is over, or the client times out.
ReportAnswered(r) ==
    /\ FindingsAnswered(r)
    /\ Lost \/ \A w \in Workers :
                  ~(In(w, "save", "called") /\ tx[w].session = run[r].session)
    /\ UNCHANGED rowVars
----------------------------------------------------------------------------
Committed(w) == Commit(w) /\ UNCHANGED engineVars

Interrupt(w) == DetectInterrupted(w) /\ UNCHANGED engineVars

CircuitTurns ==
    /\ "circuit" \in SystemFaults
    /\ CircuitChanges
    /\ UNCHANGED engineVars

EngineTurns ==
    /\ (\E r \in Runs : RunStep(r)) \/ EngineRestart
    /\ UNCHANGED rowVars

\* The backend process dies: its transactions are rolled back and the messages
\* on the way to it are lost.
BackendDies ==
    /\ "backend" \in SystemFaults
    /\ BackendRestart
    /\ LoseMessages

\* What a thread does next in the transaction it has open.
WorkerTurns(w) ==
    \/ StartGoesOn(w)
    \/ StartGivesUp(w)
    \/ CallStart(w)
    \/ CallResume(w)
    \/ CallConfirm(w)
    \/ CallCancel(w)
    \/ CallRefused(w)
    \/ Committed(w)

SystemNext ==
    \/ \E w \in Requesters, s \in Sessions : UserRequest(w, s)
    \/ \E w \in Requesters : Interrupt(w)
    \/ \E w \in Workers : WorkerTurns(w)
    \/ \E w \in Listeners, s \in Sessions, e \in Events : Handle(w, s, e)
    \/ \E s \in Sessions, e \in Events : Ignore(s, e)
    \/ \E w \in Listeners, r \in Runs :
          \E reported \in SUBSET Fingerprints \ {{}} : Report(w, r, reported)
    \/ \E r \in Runs : ReportRefused(r) \/ ReportAnswered(r)
    \/ CircuitTurns
    \/ EngineTurns
    \/ BackendDies

SystemSpec == SystemInit /\ [][SystemNext]_systemVars

\* Threads are scheduled, the event loop turns and the engine's requests are
\* answered, Redis delivers: each of them something that it can do.
SystemFairness ==
    /\ WF_systemVars(\E w \in Workers : WorkerTurns(w))
    /\ WF_systemVars(\E r \in Runs :
          (RunStep(r) /\ UNCHANGED rowVars) \/ ReportAnswered(r))
    /\ WF_systemVars(\E s \in Sessions, e \in Events :
          Ignore(s, e) \/ \E w \in Listeners : Handle(w, s, e))

FairSystemSpec == SystemSpec /\ SystemFairness
----------------------------------------------------------------------------
(* Properties.                                                             *)

\* The events the runs of a session have published.
Said(s) == UNION {run[r].said : r \in {q \in Runs : run[q].session = s}}

\* The database never reports an outcome the engine did not announce: a
\* completed, failed or waiting session has a run that said so, however the
\* messages, the write-backs and the rollbacks are interleaved.
OutcomeWasAnnounced ==
    \A s \in Sessions :
        row[s].status \in StatusEvents => row[s].status \in Said(s)

\* A running session whose analysis is really going on leaves that status: if
\* it is committed, no transaction is open, and a run that was not told to stop
\* still has its outcome to announce, then the end is recorded.  (Without these
\* three conditions it may stay running for good: an event handled before the
\* commit that makes the row running is lost on it.)
RunningSettles ==
    \A s \in Sessions :
        /\ row[s].status = "running"
        /\ flag[s] # "set"
        /\ \E r \in LiveOn(s) : ~Queued(r, "confirm") /\ run[r].said = {}
        /\ \A w \in Workers : Idle(w)
        ~> row[s].status # "running"

\* The engine never works for a session the backend has no trace of: its row
\* is committed, or the transaction that inserts it is still open.
NoOrphanRun ==
    \A s \in Sessions : LiveOn(s) # {} =>
        \/ row[s].status # "absent"
        \/ \E w \in Workers : Open(w) /\ tx[w].op = "start" /\ tx[w].session = s

\* The confirmation gate: in a session started with confirm_gate the files are
\* audited only after the plan was confirmed ("after the user's confirmation
\* /agent/confirm resumes the graph", graph_builder.py).
GateIsKept ==
    \A r \in Runs :
        (run[r].gated /\ run[r].at \in PlannedAt + 1 .. PatchedAt) =>
            \E q \in Runs : run[q].session = run[r].session
                            /\ run[q].kind = "confirm"

\* A plan is confirmed once: AnalysisService.confirmPlan checks the status "to
\* prevent a second confirmation".
ConfirmedOnce ==
    \A s \in Sessions :
        Cardinality({r \in LiveOn(s) : run[r].kind = "confirm"}) <= 1
=============================================================================
