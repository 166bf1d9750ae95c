------------------------ MODULE AnalysisSystemProofs ------------------------
(***************************************************************************)
(* Proofs about AnalysisSystem.  The composition is one of its components: *)
(* every step of the system is a step of SessionRows or leaves it alone,   *)
(* and the same for EngineRuns, so what is proved of each component holds  *)
(* in the system.  On top of that, an outcome recorded in the database was *)
(* announced by a run, through the whole path: the event on Redis, the     *)
(* transaction of the subscriber, the full-row write-backs of the others.  *)
(* And where every call is answered, a run the engine works on belongs to  *)
(* a session whose row is there or can only be committed.                  *)
(***************************************************************************)
EXTENDS AnalysisSystem, EngineRunsProofs, SessionRowsProofs

\* What is on its way to the database was announced.
ChannelAnnounced ==
    \A s \in Sessions, e \in Events : channel[s][e] > 0 => e \in Said(s)

WritesAnnounced(t) ==
    \A s \in Sessions :
        t.writes[s].status \in StatusEvents => t.writes[s].status \in Said(s)

Announced ==
    /\ ChannelAnnounced
    /\ OutcomeWasAnnounced
    /\ \A w \in Workers : Open(w) => WritesAnnounced(tx[w])

SystemInv == RowsInv /\ EngineInv /\ Announced
----------------------------------------------------------------------------
USE SystemAssumption

\* The session of an open transaction.
LEMMA OpenTx ==
    ASSUME RowsInv, NEW w \in Workers, Open(w)
    PROVE  /\ tx[w] \in Tx /\ tx[w].session \in Sessions
           /\ tx[w].writes \in [Sessions -> Row]
  <1>1. tx[w] \in Tx
    BY DEF RowsInv, TxOK
  <1> QED
    BY <1>1 DEF Tx

\* Every step of the backend but the handling of a message.
OtherRowsStep ==
    \/ \E w \in Workers, s \in Sessions :
          \/ \E force \in BOOLEAN : Start(w, s, force)
          \/ Resume(w, s) \/ Confirm(w, s) \/ Cancel(w, s)
          \/ StartInterrupts(w, s)
          \/ \E reported \in SUBSET Fingerprints : SaveFindings(w, s, reported)
    \/ \E w \in Workers :
          \/ StartSaves(w) \/ StartFails(w) \/ CallReturns(w)
          \/ CallFails(w) \/ DetectInterrupted(w) \/ Commit(w)
    \/ CircuitChanges
    \/ "backend" \in SystemFaults /\ BackendRestart
    \/ UNCHANGED rowVars

\* A step of the system handles a message or is one of the others.
LEMMA SystemStepCases ==
    ASSUME RowsInv, EngineInv, [SystemNext]_systemVars
    PROVE  \/ \E w \in Workers, s \in Sessions, e \in Events : Handle(w, s, e)
           \/ OtherRowsStep
  <1>1. ASSUME NEW w \in Workers, NEW s \in Sessions, UserRequest(w, s)
        PROVE  OtherRowsStep
    BY <1>1 DEF UserRequest, OtherRowsStep
  <1>2. ASSUME NEW w \in Workers, Interrupt(w)
        PROVE  OtherRowsStep
    BY <1>2 DEF Interrupt, OtherRowsStep
  <1>3. ASSUME NEW w \in Workers, WorkerTurns(w)
        PROVE  OtherRowsStep
    <2>1. \/ StartSaves(w) \/ (\E v \in Sessions : StartInterrupts(w, v))
          \/ StartFails(w) \/ CallReturns(w)
          \/ CallFails(w) \/ Commit(w)
      BY <1>3 DEF WorkerTurns, StartGoesOn, StartGivesUp, CallStart, CallResume,
                  CallConfirm, CallCancel, CallRefused, Committed
    <2> QED
      BY <2>1 DEF OtherRowsStep
  <1>4. ASSUME NEW w \in Workers, NEW r \in Runs,
               NEW reported \in SUBSET Fingerprints, Report(w, r, reported)
        PROVE  OtherRowsStep
    <2>1. Live(r)
      BY <1>4 DEF Report, PostFindings, Live, Phases
    <2>2. run[r].session \in Sessions
      BY <2>1, LiveTask
    <2>3. SaveFindings(w, run[r].session, reported)
      BY <1>4 DEF Report
    <2> QED
      BY <2>2, <2>3 DEF OtherRowsStep
  <1>5. CASE CircuitTurns \/ BackendDies
    BY <1>5 DEF CircuitTurns, BackendDies, OtherRowsStep
  <1>6. CASE \/ UNCHANGED systemVars \/ EngineTurns
             \/ \E s \in Sessions, e \in Events : Ignore(s, e)
             \/ \E r \in Runs : ReportRefused(r) \/ ReportAnswered(r)
    BY <1>6 DEF systemVars, EngineTurns, Ignore, OnMessageIgnored,
                ReportRefused, ReportAnswered, OtherRowsStep
  <1> QED
    BY <1>1, <1>2, <1>3, <1>4, <1>5, <1>6 DEF SystemNext, Requesters

\* A step of the system is a step of the backend.
LEMMA SystemStepOfRows ==
    ASSUME RowsInv, EngineInv, [SystemNext]_systemVars
    PROVE  [RowsNext]_rowVars
  <1>1. CASE OtherRowsStep
    BY <1>1 DEF OtherRowsStep, RowsNext
  <1>2. ASSUME NEW w \in Workers, NEW s \in Sessions, NEW e \in Events,
               Handle(w, s, e)
        PROVE  RowsNext
    <2>1. e \in StatusEvents /\ OnMessage(w, s, e)
      BY <1>2 DEF Handle, OnMessage
    <2> QED
      BY <2>1 DEF RowsNext
  <1> QED
    BY <1>1, <1>2, SystemStepCases

\* A step of the system is a step of the engine.
LEMMA SystemStepOfEngine ==
    ASSUME RowsInv, EngineInv, [SystemNext]_systemVars
    PROVE  [EngineNext]_engineVars
  <1>1. ASSUME NEW w \in Workers, WorkerTurns(w)
        PROVE  [EngineNext]_engineVars
    <2>1. ASSUME CallStart(w) \/ CallResume(w) \/ CallConfirm(w)
          PROVE  EngineNext
      <3>1. tx[w].session \in Sessions
        BY <2>1, OpenTx DEF CallStart, CallResume, CallConfirm, In
      <3>2. \E r \in Runs : Request(r, tx[w].session)
        BY <2>1 DEF CallStart, CallResume, CallConfirm, Request
      <3> QED
        BY <3>1, <3>2 DEF EngineNext
    <2>2. ASSUME CallCancel(w)
          PROVE  [EngineNext]_engineVars
      <3>1. tx[w].session \in Sessions
        BY <2>2, OpenTx DEF CallCancel, In
      <3>2. AcceptCancel(tx[w].session) \/ UNCHANGED engineVars
        BY <2>2 DEF CallCancel
      <3> QED
        BY <3>1, <3>2 DEF EngineNext
    <2> QED
      BY <1>1, <2>1, <2>2
         DEF WorkerTurns, StartGoesOn, StartGivesUp, CallRefused, Committed
  <1>2. ASSUME NEW s \in Sessions, NEW e \in Events,
               Ignore(s, e) \/ \E w \in Workers : Handle(w, s, e)
        PROVE  EngineNext
    BY <1>2 DEF Ignore, Handle, EngineNext
  <1>3. ASSUME NEW r \in Runs,
               \/ \E w \in Workers, reported \in SUBSET Fingerprints :
                     Report(w, r, reported)
               \/ ReportRefused(r) \/ ReportAnswered(r)
        PROVE  EngineNext
    BY <1>3 DEF Report, ReportRefused, ReportAnswered, EngineNext
  <1>4. CASE EngineTurns \/ BackendDies
    BY <1>4 DEF EngineTurns, BackendDies, EngineNext
  <1>5. CASE \/ UNCHANGED systemVars \/ CircuitTurns
             \/ \E w \in Requesters, s \in Sessions : UserRequest(w, s)
             \/ \E w \in Requesters : Interrupt(w)
    BY <1>5 DEF systemVars, CircuitTurns, UserRequest, Interrupt
  <1> QED
    BY <1>1, <1>2, <1>3, <1>4, <1>5 DEF SystemNext
----------------------------------------------------------------------------
(* What has been said stays said.                                          *)

\* Only a live task takes a step.
LEMMA StepsAreLive ==
    ASSUME NEW r \in Runs, RunStep(r)
    PROVE  Live(r)
  BY DEF RunStep, BeginAnalyze, BeginResume, ResumeFromNothing,
         ResumeWithoutCheckpointer, BeginConfirm, ConfirmUpdateFails, SeesCancel,
         Advance, PatchEvent, VerifyEventOfNone, AwaitConfirmation,
         FinishAnnouncing, FinishConfirmed, RunFails, NodeDone, AtEnd, Queued,
         ClearFlag, DropFlag,
         Live, Phases

\* The one task a step of a task changes keeps its session and what it said, and
\* what the step publishes it has said.
LEMMA RunStepSays ==
    ASSUME EngineInv, NEW r \in Runs, RunStep(r)
    PROVE  /\ run[r].phase # "free"
           /\ \A q \in Runs : q # r => run'[q] = run[q]
           /\ run'[r].session = run[r].session
           /\ run[r].said \subseteq run'[r].said
           /\ \/ UNCHANGED channel
              \/ \E e \in run'[r].said : Publish(run[r].session, e)
  <1> DEFINE Says == /\ run[r].phase # "free"
                     /\ \A q \in Runs : q # r => run'[q] = run[q]
                     /\ run'[r].session = run[r].session
                     /\ run[r].said \subseteq run'[r].said
                     /\ \/ UNCHANGED channel
                        \/ \E e \in run'[r].said : Publish(run[r].session, e)
  <1>1. Live(r)
    BY StepsAreLive
  <1>2. run[r] \in Task /\ run[r].phase # "free" /\ run \in [Runs -> Task]
    BY <1>1, LiveTask DEF Live, EngineInv, EngineTypeOK
  <1>3. ASSUME NEW said \in SUBSET Events, NEW phase, Leave(r, phase, said),
               UNCHANGED channel \/ \E e \in said : Publish(run[r].session, e)
        PROVE  Says
    BY <1>2, <1>3 DEF Leave, Task
  <1>4. ASSUME NEW e \in Events, EndSaying(r, e)
        PROVE  Says
    <2>1. {e} \in SUBSET Events
      OBVIOUS
    <2> QED
      BY <1>3, <1>4, <2>1 DEF EndSaying
  <1>5. CASE BeginAnalyze(r) \/ BeginConfirm(r) \/ ClearFlag(r)
    BY <1>2, <1>5 DEF BeginAnalyze, BeginConfirm, ClearFlag, Task
  <1>12. CASE BeginResume(r)
    <2>1. PICK at, gated :
             run' = [run EXCEPT ![r].phase = "running", ![r].at = at,
                                ![r].gated = gated]
      BY <1>12 DEF BeginResume, GoOn
    <2>2. UNCHANGED channel
      BY <1>12 DEF BeginResume, GoOn
    <2> QED
      BY <1>2, <2>1, <2>2 DEF Task
  <1>6. CASE Advance(r)
    <2>1. PICK p \in Successors(r) : MoveTo(r, p, {}) /\ UNCHANGED channel
      BY <1>6 DEF Advance
    <2> QED
      BY <1>2, <2>1 DEF MoveTo, Task
  <1>7. CASE PatchEvent(r)
    BY <1>2, <1>7 DEF PatchEvent, MoveTo, Task
  <1>8. CASE FinishConfirmed(r) \/ DropFlag(r)
    <2>1. {} \in SUBSET Events
      OBVIOUS
    <2> QED
      BY <1>3, <1>8, <2>1 DEF FinishConfirmed, DropFlag
  <1>9. CASE ResumeWithoutCheckpointer(r) \/ ConfirmUpdateFails(r)
    <2>1. {"error"} \in SUBSET Events
      BY DEF Events
    <2> QED
      BY <1>3, <1>9, <2>1
         DEF ResumeWithoutCheckpointer, ConfirmUpdateFails, FailOutsideTry
  <1>10. CASE AwaitConfirmation(r)
    <2>1. PICK e \in Events : EndSaying(r, e)
      BY <1>10 DEF AwaitConfirmation, Events
    <2> QED
      BY <1>4, <2>1
  <1>11. CASE \/ ResumeFromNothing(r) \/ SeesCancel(r) \/ VerifyEventOfNone(r)
              \/ FinishAnnouncing(r) \/ RunFails(r)
    <2>1. PICK e \in Events : EndSaying(r, e)
      BY <1>11 DEF ResumeFromNothing, SeesCancel, VerifyEventOfNone,
                   FinishAnnouncing, RunFails, Events
    <2> QED
      BY <1>4, <2>1
  <1> QED
    BY <1>5, <1>6, <1>7, <1>8, <1>9, <1>10, <1>11, <1>12 DEF RunStep

\* A task that has begun keeps its session and what it said.
LEMMA TasksKeepTheirWord ==
    ASSUME EngineInv, [EngineNext]_engineVars, NEW r \in Runs, run[r].phase # "free"
    PROVE  /\ run'[r].session = run[r].session
           /\ run[r].said \subseteq run'[r].said
  <1>1. run[r] \in Task /\ run \in [Runs -> Task]
    BY DEF EngineInv, EngineTypeOK
  <1>2. ASSUME NEW q \in Runs, NEW s \in Sessions, Request(q, s)
        PROVE  run'[r] = run[r]
    <2>1. q # r /\ \E t : run' = [run EXCEPT ![q] = t]
      BY <1>2 DEF Request, AcceptAnalyze, AcceptResume, AcceptConfirm, Queue
    <2> QED
      BY <1>1, <2>1
  <1>3. CASE \E q \in Runs : RunStep(q)
    BY <1>3, RunStepSays
  <1>4. CASE \E q \in Runs : PostFindings(q) \/ FindingsAnswered(q)
    BY <1>1, <1>4 DEF PostFindings, FindingsAnswered, Task
  <1>5. CASE EngineRestart
    BY <1>1, <1>5 DEF EngineRestart, Task
  <1>6. CASE \/ UNCHANGED engineVars \/ LoseMessages
             \/ \E s \in Sessions : AcceptCancel(s)
             \/ \E s \in Sessions, e \in Events : Deliver(s, e)
    BY <1>6 DEF engineVars, LoseMessages, AcceptCancel, Deliver
  <1> QED
    BY <1>2, <1>3, <1>4, <1>5, <1>6 DEF EngineNext

\* So has a session: what its tasks have said only grows.
LEMMA SaidGrows ==
    ASSUME EngineInv, [EngineNext]_engineVars, NEW s \in Sessions,
           NEW e \in Said(s)
    PROVE  e \in Said(s)'
  <1>1. PICK r \in Runs : run[r].session = s /\ e \in run[r].said
    BY DEF Said
  <1>2. run[r].phase # "free"
    BY <1>1 DEF EngineInv, TaskOK, SaidSoFar, FreeTask
  <1>3. run'[r].session = s /\ e \in run'[r].said
    BY <1>1, <1>2, TasksKeepTheirWord
  <1> QED
    BY <1>3 DEF Said

\* What is on a channel was said.
LEMMA ChannelStaysAnnounced ==
    ASSUME EngineInv, ChannelAnnounced, [EngineNext]_engineVars
    PROVE  ChannelAnnounced'
  <1> SUFFICES ASSUME NEW s \in Sessions, NEW e \in Events, channel'[s][e] > 0
               PROVE  e \in Said(s)'
    BY DEF ChannelAnnounced
  <1>1. channel \in [Sessions -> [Events -> Nat]]
    BY DEF EngineInv, EngineTypeOK
  <1>2. CASE channel[s][e] > 0
    BY <1>2, SaidGrows DEF ChannelAnnounced
  <1>3. ASSUME NEW r \in Runs, RunStep(r), channel[s][e] = 0
        PROVE  e \in Said(s)'
    <2>1. channel' # channel
      BY <1>3
    <2>2. PICK d \in run'[r].said : Publish(run[r].session, d)
      BY <1>3, <2>1, RunStepSays
    <2>3. run[r].session = s /\ d = e
      BY <1>1, <1>3, <2>2 DEF Publish
    <2>4. run'[r].session = s /\ e \in run'[r].said
      BY <1>3, <2>2, <2>3, RunStepSays
    <2> QED
      BY <2>4 DEF Said
  <1>4. ASSUME ~ \E r \in Runs : RunStep(r), channel[s][e] = 0
        PROVE  FALSE
    <2>1. CASE \E q \in Sessions, d \in Events : Deliver(q, d)
      <3>1. PICK q \in Sessions, d \in Events :
                 channel' = [channel EXCEPT ![q][d] = @ - 1]
        BY <2>1 DEF Deliver
      <3>2. channel[s][e] \in Nat /\ ~ (channel[s][e] - 1 > 0)
        BY <1>1, <1>4
      <3> QED
        BY <1>1, <1>4, <3>1, <3>2
    <2>2. CASE LoseMessages
      BY <2>2 DEF LoseMessages
    <2>3. CASE channel' = channel
      BY <1>4, <2>3
    <2> QED
      BY <1>4, <2>1, <2>2, <2>3
         DEF EngineNext, engineVars, Request, AcceptAnalyze, AcceptResume,
             AcceptConfirm, AcceptCancel, PostFindings, FindingsAnswered,
             EngineRestart
  <1>5. channel[s][e] \in Nat
    BY <1>1
  <1> QED
    BY <1>2, <1>3, <1>4, <1>5
----------------------------------------------------------------------------
(* What is written was announced.                                          *)

\* A transaction that would write no outcome but the one the row has.
Harmless(t) ==
    \A s \in Sessions :
        t.writes[s].status \in StatusEvents => t.writes[s].status = row[s].status

LEMMA WritingHarmless ==
    ASSUME RowsInv, NEW S \in SUBSET Sessions,
           NEW status \in Statuses \ StatusEvents, NEW s \in Sessions
    PROVE  Writing(S, status)[s].status \notin StatusEvents
  <1>1. Writing(S, status)[s].status = IF s \in S THEN status ELSE "absent"
    BY WritingOK
  <1> QED
    BY <1>1 DEF StatusEvents

\* Apart from the handling of messages, a step of the backend opens no
\* transaction that writes an outcome the row did not have, and changes rows
\* only to what an open transaction was to write.
OnlyHarmless ==
    /\ \A w \in Workers, s \in Sessions : Open(w)' =>
          \/ Open(w) /\ tx'[w].writes[s] = tx[w].writes[s]
          \/ tx'[w].writes[s].status \in StatusEvents =>
                 tx'[w].writes[s].status = row[s].status
    /\ \A s \in Sessions :
          \/ row'[s] = row[s]
          \/ \E w \in Workers : Open(w) /\ row'[s] = tx[w].writes[s]

LEMMA OtherStepsAreHarmless ==
    ASSUME RowsInv, OtherRowsStep
    PROVE  OnlyHarmless
  <1>1. /\ row \in [Sessions -> Row] /\ tx \in [Workers -> Tx \cup {None}]
        /\ {"running", "interrupted", "cancelled"} \subseteq Statuses \ StatusEvents
        /\ "absent" \notin StatusEvents
    BY DEF RowsInv, RowsTypeOK, Statuses, StatusEvents
  <1>2. ASSUME NEW w \in Workers, NEW t, Opens(w, t),
               \/ t = None
               \/ Open(w) /\ \A s \in Sessions : \/ t.writes[s] = tx[w].writes[s]
                                                 \/ t.writes[s].status \notin StatusEvents
               \/ Harmless(t)
        PROVE  OnlyHarmless
    <2>1. /\ row' = row /\ tx'[w] = t
          /\ \A v \in Workers : v # w => tx'[v] = tx[v]
      BY <1>1, <1>2 DEF Opens
    <2> QED
      BY <1>2, <2>1 DEF Open, Harmless, OnlyHarmless
  <1>3. ASSUME NEW w \in Workers, NEW s \in Sessions, NEW op, NEW step,
               NEW S \in SUBSET Sessions,
               NEW status \in {"running", "interrupted", "cancelled"},
               Begin(w, op, s, step, Writing(S, status))
        PROVE  OnlyHarmless
    <2> DEFINE t == FreshTx(op, s, step, Writing(S, status))
    <2>1. Opens(w, t)
      BY <1>3 DEF Begin, Opens, FreshTx
    <2>2. t.writes = Writing(S, status)
      BY DEF FreshTx
    <2>3. status \in Statuses \ StatusEvents
      BY <1>1
    <2> HIDE DEF t
    <2>4. Harmless(t)
      BY <2>2, <2>3, WritingHarmless DEF Harmless
    <2> QED
      BY <1>2, <2>1, <2>4
  <1>4. ASSUME NEW w \in Workers, NEW s \in Sessions, NEW force \in BOOLEAN,
               Start(w, s, force)
        PROVE  OnlyHarmless
    <2> DEFINE t == [FreshTx("start", s, "listed", NoWrites) EXCEPT
                       !.victims = RunningOf(ProjectOf[s])]
    <2>1. Opens(w, t)
      BY <1>4 DEF Start, Opens, FreshTx
    <2>2. t.writes = NoWrites
      BY DEF FreshTx
    <2> HIDE DEF t
    <2>3. Harmless(t)
      BY <1>1, <2>2, NoWritesOK DEF Harmless
    <2> QED
      BY <1>2, <2>1, <2>3
  <1>5. ASSUME NEW w \in Workers, NEW s \in Sessions,
               Resume(w, s) \/ Confirm(w, s) \/ Cancel(w, s)
        PROVE  OnlyHarmless
    <2>1. {s} \in SUBSET Sessions
      OBVIOUS
    <2> QED
      BY <1>3, <1>5, <2>1 DEF Resume, Confirm, Cancel
  <1>6. ASSUME NEW w \in Workers, DetectInterrupted(w)
        PROVE  OnlyHarmless
    <2> DEFINE running == {s \in Sessions : row[s].status = "running"}
    <2>1. running \in SUBSET Sessions
      OBVIOUS
    <2>2. PICK s \in Sessions : Begin(w, "interrupt", s, "called",
                                     Writing(running, "interrupted"))
      BY <1>6 DEF DetectInterrupted
    <2> HIDE DEF running
    <2> QED
      BY <1>3, <2>1, <2>2
  <1>7. ASSUME NEW w \in Workers, NEW s \in Sessions,
               NEW reported \in SUBSET Fingerprints, SaveFindings(w, s, reported)
        PROVE  OnlyHarmless
    <2> DEFINE new    == NewFindings(s, reported)
               count  == [row[s] EXCEPT !.vulnCount = @ + Cardinality(new)]
               writes == IF new = {} THEN NoWrites ELSE [NoWrites EXCEPT ![s] = count]
               t      == [op |-> "save", session |-> s, step |-> "called",
                          writes |-> writes, locked |-> {s}, victims |-> {},
                          findings |-> new]
    <2>1. Opens(w, t)
      BY <1>7 DEF SaveFindings, Opens
    <2>2. t.writes = writes
      OBVIOUS
    <2>3. count.status = row[s].status
      BY <1>1 DEF Row
    <2> HIDE DEF count, new, t
    <2>4. Harmless(t)
      BY <1>1, <2>2, <2>3, AbsentRow DEF Harmless, NoWrites
    <2> QED
      BY <1>2, <2>1, <2>4
  <1>8. ASSUME NEW w \in Workers, NEW v \in Sessions, StartInterrupts(w, v)
        PROVE  OnlyHarmless
    <2> DEFINE new    == [row[v] EXCEPT !.status = "interrupted"]
               writes == [tx[w].writes EXCEPT ![v] = new]
               skip   == [tx[w] EXCEPT !.victims = @ \ {v}]
               t      == [[skip EXCEPT !.locked = @ \cup {v}] EXCEPT !.writes = writes]
    <2>1. Open(w) /\ tx[w] \in Tx /\ (Opens(w, t) \/ Opens(w, skip))
      BY <1>8, OpenTx DEF StartInterrupts, Opens, In, Tx
    <2>2. new.status = "interrupted" /\ "interrupted" \notin StatusEvents
      BY <1>1 DEF Row
    <2>3. skip \in Tx /\ skip.writes = tx[w].writes
      BY <2>1 DEF Tx
    <2> HIDE DEF new, skip
    <2>4. /\ \A s \in Sessions : writes[s] = IF s = v THEN new ELSE tx[w].writes[s]
          /\ t.writes = writes
      BY <2>1, <2>3 DEF Tx
    <2> HIDE DEF writes, t
    <2> QED
      BY <1>2, <2>1, <2>2, <2>3, <2>4
  <1>13. ASSUME NEW w \in Workers, StartSaves(w)
         PROVE  OnlyHarmless
    <2> DEFINE new    == [Absent EXCEPT !.status = InsertedStatus]
               own    == tx[w].session
               writes == [tx[w].writes EXCEPT ![own] = new]
               t      == [[tx[w] EXCEPT !.step = "read"] EXCEPT !.writes = writes]
    <2>1. Open(w) /\ tx[w] \in Tx /\ Opens(w, t)
      BY <1>13, OpenTx DEF StartSaves, Opens, In, Tx
    <2>2. new.status \notin StatusEvents
      BY <1>1 DEF Absent, InsertedStatus
    <2> HIDE DEF new, own
    <2>3. /\ \A s \in Sessions : writes[s] = IF s = own THEN new ELSE tx[w].writes[s]
          /\ t.writes = writes
      BY <2>1 DEF Tx
    <2> HIDE DEF writes, t
    <2> QED
      BY <1>2, <2>1, <2>2, <2>3
  <1>9. ASSUME NEW w \in Workers, CallReturns(w)
        PROVE  OnlyHarmless
    <2> DEFINE t == [tx[w] EXCEPT !.step = "called"]
    <2>1. Opens(w, t) /\ Open(w) /\ tx[w] \in Tx
      BY <1>9, OpenTx DEF CallReturns, Opens, In
    <2>2. t.writes = tx[w].writes
      BY <2>1 DEF Tx
    <2> HIDE DEF t
    <2> QED
      BY <1>2, <2>1, <2>2
  <1>10. ASSUME NEW w \in Workers, StartFails(w) \/ CallFails(w)
         PROVE  OnlyHarmless
    <2>1. Opens(w, None)
      BY <1>10 DEF StartFails, CallFails, Rollback, Opens
    <2> QED
      BY <1>2, <2>1
  <1>11. ASSUME NEW w \in Workers, Commit(w)
         PROVE  OnlyHarmless
    <2>1. /\ Open(w) /\ tx'[w] = None
          /\ \A v \in Workers : v # w => tx'[v] = tx[v]
          /\ row' = [s \in Sessions |-> IF s \in Written(w)
                                         THEN tx[w].writes[s] ELSE row[s]]
      BY <1>1, <1>11 DEF Commit
    <2> QED
      BY <2>1 DEF Open, OnlyHarmless
  <1>12. CASE CircuitChanges \/ BackendRestart \/ UNCHANGED rowVars
    BY <1>12 DEF CircuitChanges, BackendRestart, rowVars, Open, OnlyHarmless
  <1> QED
    BY <1>4, <1>5, <1>6, <1>7, <1>8, <1>9, <1>10, <1>11, <1>12, <1>13 DEF OtherRowsStep

\* A message that is handled opens a transaction that writes what was said.
LEMMA HandledAsAnnounced ==
    ASSUME SystemInv, NEW w \in Workers, NEW s \in Sessions, NEW e \in Events,
           Handle(w, s, e)
    PROVE  /\ row' = row /\ Open(w)'
           /\ \A v \in Workers : v # w => tx'[v] = tx[v]
           /\ \A x \in Sessions :
                 tx'[w].writes[x].status \in StatusEvents =>
                     tx'[w].writes[x].status \in Said(x)
  <1>1. /\ RowsInv /\ tx \in [Workers -> Tx \cup {None}]
        /\ e \in StatusEvents /\ e \in Statuses /\ e \in Said(s)
    <2>1. channel[s][e] > 0 /\ e \in StatusEvents
      BY DEF Handle, Deliver, OnMessage
    <2> QED
      BY <2>1 DEF SystemInv, Announced, ChannelAnnounced, RowsInv, RowsTypeOK,
                  StatusEvents, Statuses
  <1>2. StatusOf(e) = e
    <2>1. e = "completed" \/ e = "error" \/ e = "awaiting_confirmation"
      BY <1>1 DEF StatusEvents
    <2> QED
      BY <2>1, Zenon DEF StatusOf
  <1>3. PICK writes \in {NoWrites, Writing({s}, e)} :
           Begin(w, "event", s, "called", writes)
    BY <1>2 DEF Handle, OnMessage
  <1>4. ASSUME NEW x \in Sessions, writes[x].status \in StatusEvents
        PROVE  writes[x].status \in Said(x)
    <2>1. CASE writes = NoWrites
      BY <1>4, <2>1, NoWritesOK DEF StatusEvents
    <2>2. CASE writes = Writing({s}, e)
      <3>1. row[x] \in Row
        BY <1>1 DEF RowsInv, RowsTypeOK
      <3>2. Writing({s}, e)[x].status = IF x \in {s} THEN e ELSE "absent"
        BY <3>1, AbsentRow DEF Writing, Row
      <3> QED
        BY <1>1, <1>4, <2>2, <3>2 DEF StatusEvents
    <2> QED
      BY <2>1, <2>2
  <1> DEFINE t == FreshTx("event", s, "called", writes)
  <1>5. tx' = [tx EXCEPT ![w] = t] /\ row' = row /\ t.writes = writes /\ t # None
    BY <1>3 DEF Begin, FreshTx, None
  <1> HIDE DEF t
  <1>6. tx'[w] = t /\ \A v \in Workers : v # w => tx'[v] = tx[v]
    BY <1>1, <1>5
  <1> QED
    BY <1>4, <1>5, <1>6 DEF Open

\* The outcomes the rows and the open transactions hold stay announced ones.
LEMMA WritesStayAnnounced ==
    ASSUME SystemInv, [SystemNext]_systemVars
    PROVE  /\ OutcomeWasAnnounced'
           /\ \A w \in Workers : Open(w)' => WritesAnnounced(tx[w])'
  <1>1. RowsInv /\ EngineInv /\ [EngineNext]_engineVars
    BY SystemStepOfEngine DEF SystemInv
  <1>2. ASSUME NEW s \in Sessions, NEW e \in Said(s)
        PROVE  e \in Said(s)'
    BY <1>1, <1>2, SaidGrows
  <1>3. /\ \A s \in Sessions :
              row[s].status \in StatusEvents => row[s].status \in Said(s)
        /\ \A w \in Workers, s \in Sessions :
              Open(w) /\ tx[w].writes[s].status \in StatusEvents =>
                  tx[w].writes[s].status \in Said(s)
    BY DEF SystemInv, Announced, OutcomeWasAnnounced, WritesAnnounced
  <1> DEFINE StillSaid ==
               /\ \A s \in Sessions : row'[s].status \in StatusEvents =>
                     row'[s].status \in Said(s)
               /\ \A w \in Workers, s \in Sessions :
                     Open(w)' /\ tx'[w].writes[s].status \in StatusEvents =>
                         tx'[w].writes[s].status \in Said(s)
  <1>4. StillSaid
    <2>1. CASE OtherRowsStep
      <3>1. OnlyHarmless
        BY <1>1, <2>1, OtherStepsAreHarmless
      <3> QED
        BY <1>3, <3>1 DEF OnlyHarmless
    <2>2. ASSUME NEW w \in Workers, NEW s \in Sessions, NEW e \in Events,
                 Handle(w, s, e)
          PROVE  StillSaid
      BY <1>3, <2>2, HandledAsAnnounced DEF Open
    <2> QED
      BY <1>1, <2>1, <2>2, SystemStepCases
  <1> QED
    BY <1>2, <1>4 DEF OutcomeWasAnnounced, WritesAnnounced
----------------------------------------------------------------------------
(* The theorems.                                                           *)

\* Nothing is on its way and no outcome is recorded at the start.
LEMMA SystemInitInv == SystemInit => SystemInv
  <1> SUFFICES ASSUME SystemInit PROVE SystemInv
    OBVIOUS
  <1>1. RowsInv /\ EngineInv
    BY RowsInitInv, EngineInitInv DEF SystemInit
  <1>2. ChannelAnnounced
    BY DEF SystemInit, EngineInit, ChannelAnnounced
  <1>3. OutcomeWasAnnounced
    BY AbsentRow DEF SystemInit, RowsInit, OutcomeWasAnnounced, StatusEvents
  <1>4. \A w \in Workers : ~Open(w)
    BY DEF SystemInit, RowsInit, Open
  <1> QED
    BY <1>1, <1>2, <1>3, <1>4 DEF SystemInv, Announced

\* Every step of the system preserves the invariants of both sides and what was
\* announced.
LEMMA SystemNextInv == SystemInv /\ [SystemNext]_systemVars => SystemInv'
  <1> SUFFICES ASSUME SystemInv, [SystemNext]_systemVars
               PROVE  SystemInv'
    OBVIOUS
  <1>1. [RowsNext]_rowVars /\ [EngineNext]_engineVars
    BY SystemStepOfRows, SystemStepOfEngine DEF SystemInv
  <1>2. RowsInv' /\ EngineInv'
    BY <1>1, RowsNextInv, EngineNextInv DEF SystemInv
  <1>3. ChannelAnnounced'
    BY <1>1, ChannelStaysAnnounced DEF SystemInv, Announced
  <1> QED
    BY <1>2, <1>3, WritesStayAnnounced DEF SystemInv, Announced

\* The invariant holds in every reachable state of the system.
THEOREM SystemInvariant == SystemSpec => []SystemInv
  BY SystemInitInv, SystemNextInv, PTL DEF SystemSpec

\* The composed system is a backend: what holds of SessionRows holds in it.
LEMMA SystemImplementsRows == SystemSpec => RowsSpec
  <1>1. SystemInit => RowsInit
    BY DEF SystemInit
  <1>2. SystemInv /\ [SystemNext]_systemVars => [RowsNext]_rowVars
    BY SystemStepOfRows DEF SystemInv
  <1> QED
    BY <1>1, <1>2, SystemInvariant, PTL DEF SystemSpec, RowsSpec

\* The composed system is an engine: what holds of EngineRuns holds in it.
LEMMA SystemImplementsEngine == SystemSpec => EngineSpec
  <1>1. SystemInit => EngineInit
    BY DEF SystemInit
  <1>2. SystemInv /\ [SystemNext]_systemVars => [EngineNext]_engineVars
    BY SystemStepOfEngine DEF SystemInv
  <1> QED
    BY <1>1, <1>2, SystemInvariant, PTL DEF SystemSpec, EngineSpec

\* What was proved of each component by itself holds in the whole: no session
\* counts more findings than are stored, row locks exclude, a cancel flag has a task
\* that will take it away, every task says how it ended, and one that asked for
\* confirmation says nothing else.
THEOREM ComponentsStaySafe ==
    SystemSpec => [](/\ CountNeverExceeds /\ LocksAreExclusive
                     /\ NoStaleFlag /\ NoSilentEnd /\ AskingIsAllItDoes)
  BY SystemImplementsRows, SystemImplementsEngine, FindingsAreNeverOvercounted,
     RowLocksAreExclusive, FlagsAreNeverStale, NoTaskEndsSilently, AskingEndsTheTask, PTL

\* A session recorded as completed, failed or waiting for confirmation has a run
\* that announced it.
THEOREM OutcomesAreAnnounced == SystemSpec => []OutcomeWasAnnounced
  <1>1. SystemInv => OutcomeWasAnnounced
    BY DEF SystemInv, Announced
  <1> QED
    BY <1>1, SystemInvariant, PTL
----------------------------------------------------------------------------
(* Runs that nobody would know of.                                         *)

Starts(w, s) == Open(w) /\ tx[w].op = "start" /\ tx[w].session = s

\* A transaction writes no row away, all but a start work on a row that is
\* there, and a start that is past its list has its row to insert.
Traced(t) ==
    /\ t.op # "start" => row[t.session].status # "absent"
    /\ t.op = "start" /\ t.step # "listed" => t.writes[t.session] # Absent
    /\ \A s \in Sessions : t.writes[s] # Absent => t.writes[s].status # "absent"

TxTraced == \A w \in Workers : Open(w) => Traced(tx[w])

\* Stronger than NoOrphanRun: the transaction that inserts the row can only be
\* committed any more.
RunsTraced ==
    \A s \in Sessions : LiveOn(s) # {} =>
        \/ row[s].status # "absent"
        \/ \E w \in Workers : Starts(w, s) /\ tx[w].step = "called"

RowsStay == \A s \in Sessions : row[s].status # "absent" => row'[s].status # "absent"

\* One transaction changes and commits nothing.
LEMMA OneTxTraced ==
    ASSUME RowsInv, TxTraced, NEW w \in Workers, NEW t,
           tx' = [tx EXCEPT ![w] = t], row' = row, t # None => Traced(t)
    PROVE  TxTraced' /\ RowsStay
  <1>1. tx'[w] = t /\ \A v \in Workers \ {w} : tx'[v] = tx[v]
    BY DEF RowsInv, RowsTypeOK
  <1> QED
    BY <1>1 DEF TxTraced, Traced, Open, RowsStay

LEMMA WritingTraced ==
    ASSUME RowsInv, NEW S \in SUBSET Sessions, NEW status \in Statuses,
           NEW s \in Sessions, Writing(S, status)[s] # Absent
    PROVE  Writing(S, status)[s].status # "absent"
  <1>1. s \in S
    BY DEF Writing
  <1> QED
    BY <1>1, WritingOK DEF Statuses

\* The requests that begin with the row of their session, and the subscriber.
LEMMA BeginTraced ==
    ASSUME RowsInv, TxTraced, NEW w \in Workers, NEW s \in Sessions,
           NEW op \in Ops \ {"start"}, NEW step, NEW writes,
           Begin(w, op, s, step, writes), row[s].status # "absent",
           \A x \in Sessions : writes[x] # Absent => writes[x].status # "absent"
    PROVE  TxTraced' /\ RowsStay
  <1> DEFINE t == [op |-> op, session |-> s, step |-> step, writes |-> writes,
                   locked |-> {}, victims |-> {}, findings |-> {}]
  <1>1. tx' = [tx EXCEPT ![w] = t] /\ row' = row
    BY DEF Begin
  <1>2. Traced(t)
    BY DEF Traced
  <1> HIDE DEF t
  <1> QED
    BY <1>1, <1>2, OneTxTraced

LEMMA RequestTraced ==
    ASSUME RowsInv, TxTraced, NEW w \in Workers, NEW s \in Sessions,
           \/ Resume(w, s) \/ Confirm(w, s) \/ Cancel(w, s)
           \/ \E e \in StatusEvents : OnMessage(w, s, e)
    PROVE  TxTraced' /\ RowsStay
  <1>1. \A status \in Statuses, x \in Sessions :
            Writing({s}, status)[x] # Absent => Writing({s}, status)[x].status # "absent"
    BY WritingTraced
  <1>2. \A x \in Sessions : NoWrites[x] = Absent
    BY DEF NoWrites
  <1>3. CASE Resume(w, s) \/ Confirm(w, s)
    <2>1. PICK op \in {"resume", "confirm"} :
              Begin(w, op, s, "read", Writing({s}, "running"))
      BY <1>3 DEF Resume, Confirm
    <2>2. row[s].status # "absent" /\ "running" \in Statuses /\ op \in Ops \ {"start"}
      BY <1>3 DEF Resume, Confirm, Statuses, Ops
    <2> QED
      BY <1>1, <2>1, <2>2, BeginTraced
  <1>4. CASE Cancel(w, s)
    <2>1. /\ row[s].status # "absent" /\ "cancelled" \in Statuses
          /\ "cancel" \in Ops \ {"start"}
      BY <1>4 DEF Cancel, Statuses, Ops
    <2> QED
      BY <1>1, <1>4, <2>1, BeginTraced DEF Cancel
  <1>5. ASSUME NEW e \in StatusEvents, OnMessage(w, s, e)
        PROVE  TxTraced' /\ RowsStay
    <2>1. StatusOf(e) \in Statuses /\ "event" \in Ops \ {"start"}
      BY DEF StatusOf, StatusEvents, Statuses, Ops
    <2>2. PICK writes \in {NoWrites, Writing({s}, StatusOf(e))} :
              Begin(w, "event", s, "called", writes)
      BY <1>5 DEF OnMessage
    <2>3. \A x \in Sessions : writes[x] # Absent => writes[x].status # "absent"
      BY <1>1, <1>2, <2>1, <2>2
    <2> QED
      BY <1>5, <2>1, <2>2, <2>3, BeginTraced DEF OnMessage
  <1> QED
    BY <1>3, <1>4, <1>5

\* A start updates rows that run ...
LEMMA InterruptsTraced ==
    ASSUME RowsInv, TxTraced, NEW w \in Workers, NEW v \in Sessions, StartInterrupts(w, v)
    PROVE  TxTraced' /\ RowsStay
  <1> DEFINE new    == [row[v] EXCEPT !.status = "interrupted"]
             writes == [tx[w].writes EXCEPT ![v] = new]
             skip   == [tx[w] EXCEPT !.victims = @ \ {v}]
             t      == [[skip EXCEPT !.locked = @ \cup {v}] EXCEPT !.writes = writes]
  <1>1. /\ tx[w] \in Tx /\ tx[w].op = "start" /\ tx[w].step = "listed" /\ Traced(tx[w])
        /\ row[v] \in Row /\ row' = row
        /\ tx' = [tx EXCEPT ![w] = t] \/ tx' = [tx EXCEPT ![w] = skip]
    BY OpenTx DEF StartInterrupts, In, TxTraced, RowsInv, RowsTypeOK, Tx
  <1>2. new.status = "interrupted"
    BY <1>1 DEF Row
  <1>3. /\ skip \in Tx /\ skip.op = "start" /\ skip.step = "listed"
        /\ skip.writes = tx[w].writes
    BY <1>1 DEF Tx
  <1> HIDE DEF new, skip
  <1>4. /\ \A s \in Sessions : writes[s] = IF s = v THEN new ELSE tx[w].writes[s]
        /\ t.op = "start" /\ t.step = "listed" /\ t.writes = writes
    BY <1>1, <1>3 DEF Tx
  <1> HIDE DEF writes, t
  <1>5. Traced(t) /\ Traced(skip)
    BY <1>1, <1>2, <1>3, <1>4 DEF Traced
  <1> QED
    BY <1>1, <1>5, OneTxTraced

\* ... and inserts its own.
LEMMA SavesTraced ==
    ASSUME RowsInv, TxTraced, NEW w \in Workers, StartSaves(w)
    PROVE  TxTraced' /\ RowsStay
  <1> DEFINE new    == [Absent EXCEPT !.status = InsertedStatus]
             own    == tx[w].session
             writes == [tx[w].writes EXCEPT ![own] = new]
             t      == [[tx[w] EXCEPT !.step = "read"] EXCEPT !.writes = writes]
  <1>1. /\ tx[w] \in Tx /\ tx[w].op = "start" /\ Traced(tx[w]) /\ own \in Sessions
        /\ row' = row /\ tx' = [tx EXCEPT ![w] = t]
    BY OpenTx DEF StartSaves, In, TxTraced, Tx
  <1>2. new.status = "running" /\ new # Absent
    BY DEF Absent, InsertedStatus
  <1> HIDE DEF new
  <1>3. \A s \in Sessions : writes[s] = IF s = own THEN new ELSE tx[w].writes[s]
    BY <1>1 DEF Tx
  <1>4. t.op = "start" /\ t.session = own /\ t.writes = writes
    BY <1>1 DEF Tx
  <1> HIDE DEF writes, t, own
  <1>5. Traced(t)
    BY <1>1, <1>2, <1>3, <1>4 DEF Traced
  <1> QED
    BY <1>1, <1>5, OneTxTraced

\* Findings are added to a row that is there.
LEMMA SaveTraced ==
    ASSUME RowsInv, TxTraced, NEW w \in Workers, NEW s \in Sessions,
           NEW reported \in SUBSET Fingerprints, SaveFindings(w, s, reported)
    PROVE  TxTraced' /\ RowsStay
  <1> DEFINE fresh  == NewFindings(s, reported)
             raised == [row[s] EXCEPT !.vulnCount = @ + Cardinality(fresh)]
             writes == IF fresh = {} THEN NoWrites ELSE [NoWrites EXCEPT ![s] = raised]
             t      == [op |-> "save", session |-> s, step |-> "called",
                        writes |-> writes, locked |-> {s}, victims |-> {},
                        findings |-> fresh]
  <1>1. row[s] \in Row /\ row[s].status # "absent"
    BY DEF SaveFindings, RowsInv, RowsTypeOK
  <1>2. raised.status = row[s].status
    BY <1>1 DEF Row
  <1>3. \A x \in Sessions : NoWrites[x] = Absent
    BY DEF NoWrites
  <1>4. \A x \in Sessions : writes[x] = Absent \/ (x = s /\ writes[x] = raised)
    BY <1>3, NoWritesOK
  <1>5. tx' = [tx EXCEPT ![w] = t] /\ row' = row
    BY DEF SaveFindings
  <1> HIDE DEF raised, writes, fresh
  <1>6. Traced(t)
    BY <1>1, <1>2, <1>4 DEF Traced
  <1> HIDE DEF t
  <1> QED
    BY <1>5, <1>6, OneTxTraced

\* A commit writes rows, and takes none away.
LEMMA CommitTraced ==
    ASSUME RowsInv, TxTraced, NEW w \in Workers, Commit(w)
    PROVE  TxTraced' /\ RowsStay
  <1>1. Traced(tx[w])
    BY DEF Commit, TxTraced
  <1>2. RowsStay
    BY <1>1 DEF Commit, Written, Traced, RowsStay
  <1>3. \A v \in Workers : Open(v)' => Open(v) /\ tx'[v] = tx[v]
    BY DEF Commit, RowsInv, RowsTypeOK, Open
  <1>4. \A v \in Workers : Open(v) => tx[v].session \in Sessions
    BY OpenTx
  <1> QED
    BY <1>2, <1>3, <1>4 DEF TxTraced, Traced, RowsStay

LEMMA TxTracedStep ==
    ASSUME RowsInv, TxTraced, [RowsNext]_rowVars
    PROVE  TxTraced' /\ RowsStay
  <1> DEFINE Goal == TxTraced' /\ RowsStay
  <1>1. ASSUME NEW w \in Workers, NEW s \in Sessions, NEW force \in BOOLEAN,
               Start(w, s, force)
        PROVE  Goal
    <2> DEFINE t == [op |-> "start", session |-> s, step |-> "listed",
                     writes |-> NoWrites, locked |-> {}, findings |-> {},
                     victims |-> RunningOf(ProjectOf[s])]
    <2>1. Traced(t)
      BY DEF Traced, NoWrites
    <2>2. tx' = [tx EXCEPT ![w] = t] /\ row' = row
      BY <1>1 DEF Start
    <2> HIDE DEF t
    <2> QED
      BY <2>1, <2>2, OneTxTraced
  <1>2. ASSUME NEW w \in Workers, NEW s \in Sessions,
               \/ Resume(w, s) \/ Confirm(w, s) \/ Cancel(w, s)
               \/ \E e \in StatusEvents : OnMessage(w, s, e)
        PROVE  Goal
    BY <1>2, RequestTraced
  <1>3. ASSUME NEW w \in Workers, StartFails(w) \/ CallFails(w) PROVE Goal
    BY <1>3, OneTxTraced DEF StartFails, CallFails, Rollback
  <1>4. ASSUME NEW w \in Workers, CallReturns(w) PROVE Goal
    <2> DEFINE t == [tx[w] EXCEPT !.step = "called"]
    <2>1. Open(w) /\ tx[w].step = "read" /\ tx[w] \in Tx /\ Traced(tx[w])
      BY <1>4, OpenTx DEF CallReturns, In, TxTraced
    <2>2. t.op = tx[w].op /\ t.session = tx[w].session /\ t.writes = tx[w].writes
      BY <2>1 DEF Tx
    <2>3. tx' = [tx EXCEPT ![w] = t] /\ row' = row
      BY <1>4 DEF CallReturns
    <2> HIDE DEF t
    <2>4. Traced(t)
      BY <2>1, <2>2 DEF Traced
    <2> QED
      BY <2>3, <2>4, OneTxTraced
  <1>5. ASSUME NEW w \in Workers, DetectInterrupted(w) PROVE Goal
    <2> DEFINE running == {s \in Sessions : row[s].status = "running"}
    <2>1. PICK s \in running :
             Begin(w, "interrupt", s, "called", Writing(running, "interrupted"))
      BY <1>5 DEF DetectInterrupted
    <2>2. s \in Sessions /\ row[s].status # "absent"
      OBVIOUS
    <2>3. "interrupted" \in Statuses /\ "interrupt" \in Ops \ {"start"}
      BY DEF Statuses, Ops
    <2>4. \A x \in Sessions : Writing(running, "interrupted")[x] # Absent =>
              Writing(running, "interrupted")[x].status # "absent"
      BY <2>3, WritingTraced
    <2> QED
      BY <2>1, <2>2, <2>3, <2>4, BeginTraced
  <1>6. CASE CircuitChanges \/ UNCHANGED rowVars
    BY <1>6 DEF CircuitChanges, rowVars, TxTraced, Traced, Open, RowsStay
  <1>7. CASE BackendRestart
    BY <1>7 DEF BackendRestart, TxTraced, Open, RowsStay
  <1> HIDE DEF Goal
  <1> QED
    BY <1>1, <1>2, <1>3, <1>4, <1>5, <1>6, <1>7, InterruptsTraced, SavesTraced, SaveTraced,
       CommitTraced
       DEF RowsNext, Goal

\* A start that was answered stays open until it is committed.
LEMMA AnsweredStartCommits ==
    ASSUME RowsInv, TxTraced, EngineInv, [SystemNext]_systemVars,
           "backend" \notin SystemFaults,
           NEW w \in Workers, NEW s \in Sessions, Starts(w, s), tx[w].step = "called"
    PROVE  tx'[w] = tx[w] \/ row'[s].status # "absent"
  <1>0. tx \in [Workers -> Tx \cup {None}] /\ ~Idle(w)
    BY DEF RowsInv, RowsTypeOK, Starts, Open, Idle
  <1>1. ASSUME NEW v \in Workers, NEW t, tx' = [tx EXCEPT ![v] = t], v # w
        PROVE  tx'[w] = tx[w]
    BY <1>0, <1>1
  <1>2. ASSUME NEW v \in Workers, NEW x \in Sessions,
               \/ \E force \in BOOLEAN : Start(v, x, force)
               \/ Resume(v, x) \/ Confirm(v, x) \/ Cancel(v, x)
               \/ \E reported \in SUBSET Fingerprints : SaveFindings(v, x, reported)
               \/ \E e \in Events : Handle(v, x, e)
        PROVE  tx'[w] = tx[w]
    <2>1. Idle(v) /\ \E t : tx' = [tx EXCEPT ![v] = t]
      BY <1>2 DEF Start, Resume, Confirm, Cancel, SaveFindings, Handle, OnMessage, Begin
    <2> QED
      BY <1>0, <1>1, <2>1
  <1>3. ASSUME NEW v \in Workers,
               \/ StartSaves(v) \/ (\E x \in Sessions : StartInterrupts(v, x))
               \/ StartFails(v) \/ CallReturns(v)
               \/ CallFails(v) \/ DetectInterrupted(v)
        PROVE  tx'[w] = tx[w]
    <2>1. v # w
      BY <1>0, <1>3 DEF StartInterrupts, StartSaves, StartFails, CallReturns, CallFails,
                        DetectInterrupted, Begin, In
    <2>2. \E t : tx' = [tx EXCEPT ![v] = t]
      BY <1>3 DEF StartInterrupts, StartSaves, StartFails, CallReturns, CallFails,
                  DetectInterrupted, Begin, Rollback
    <2> QED
      BY <1>1, <2>1, <2>2
  <1>4. ASSUME NEW v \in Workers, Commit(v)
        PROVE  tx'[w] = tx[w] \/ row'[s].status # "absent"
    <2>1. CASE v = w
      <3>1. Traced(tx[w]) /\ tx[w].op = "start" /\ tx[w].session = s
        BY DEF TxTraced, Starts
      <3>2. s \in Written(w) /\ tx[w].writes[s].status # "absent"
        BY <3>1 DEF Traced, Written
      <3> QED
        BY <1>4, <2>1, <3>2 DEF Commit
    <2>2. CASE v # w
      BY <1>1, <1>4, <2>2 DEF Commit
    <2> QED
      BY <2>1, <2>2
  <1>5. CASE CircuitChanges \/ UNCHANGED rowVars
    BY <1>5 DEF CircuitChanges, rowVars
  <1> QED
    BY <1>2, <1>3, <1>4, <1>5, SystemStepCases DEF OtherRowsStep

\* A run begins to live by a call of the backend, for the session of the call.
LEMMA RunsComeFromCalls ==
    ASSUME RowsInv, EngineInv, [SystemNext]_systemVars,
           NEW r \in Runs, Live(r)', ~Live(r)
    PROVE  \E w \in Workers : /\ CallStart(w) \/ CallResume(w) \/ CallConfirm(w)
                              /\ run'[r].session = tx[w].session
  <1>0. run \in [Runs -> Task]
    BY DEF EngineInv, EngineTypeOK
  <1>1. ASSUME NEW w \in Workers, CallStart(w) \/ CallResume(w) \/ CallConfirm(w)
        PROVE  run'[r].session = tx[w].session
    <2>1. PICK q \in Runs : Request(q, tx[w].session)
      BY <1>1 DEF CallStart, CallResume, CallConfirm, Request
    <2>2. PICK kind, gated : Queue(q, tx[w].session, kind, gated)
      BY <2>1 DEF Request, AcceptAnalyze, AcceptResume, AcceptConfirm
    <2>3. q = r
      BY <1>0, <2>2 DEF Queue, Live
    <2> QED
      BY <1>0, <2>2, <2>3 DEF Queue, FreeTask
  <1>2. ASSUME UNCHANGED run PROVE FALSE
    BY <1>2 DEF Live
  <1>3. ASSUME NEW w \in Workers, WorkerTurns(w)
        PROVE  CallStart(w) \/ CallResume(w) \/ CallConfirm(w)
    BY <1>2, <1>3 DEF WorkerTurns, StartGoesOn, StartGivesUp, CallCancel, CallRefused,
                      Committed, AcceptCancel, engineVars
  <1>4. ASSUME NEW q \in Runs, RunStep(q) PROVE FALSE
    <2>1. q # r
      BY <1>4, StepsAreLive
    <2> QED
      BY <1>4, <2>1, RunStepSays DEF Live
  <1>5. ASSUME NEW q \in Runs, PostFindings(q) \/ FindingsAnswered(q) PROVE FALSE
    <2>1. Live(q)
      BY <1>5 DEF PostFindings, FindingsAnswered, Live, Phases
    <2>2. q # r
      BY <2>1
    <2> QED
      BY <1>0, <1>5, <2>2 DEF PostFindings, FindingsAnswered, Live
  <1>6. ASSUME EngineRestart PROVE FALSE
    BY <1>0, <1>6 DEF EngineRestart, Live
  <1>7. CASE \/ UNCHANGED systemVars \/ CircuitTurns \/ BackendDies
             \/ \E w \in Requesters, s \in Sessions : UserRequest(w, s)
             \/ \E w \in Requesters : Interrupt(w)
             \/ \E s \in Sessions, e \in Events : Ignore(s, e)
             \/ \E w \in Listeners, s \in Sessions, e \in Events : Handle(w, s, e)
    BY <1>2, <1>7 DEF systemVars, engineVars, CircuitTurns, BackendDies, LoseMessages,
                      UserRequest, Interrupt, Ignore, Handle, Deliver
  <1>8. CASE \E q \in Runs :
                \/ \E w \in Listeners : \E reported \in SUBSET Fingerprints \ {{}} :
                      Report(w, q, reported)
                \/ ReportRefused(q) \/ ReportAnswered(q)
    BY <1>5, <1>8 DEF Report, ReportRefused, ReportAnswered
  <1>9. CASE EngineTurns
    BY <1>4, <1>6, <1>9 DEF EngineTurns
  <1> QED
    BY <1>1, <1>3, <1>7, <1>8, <1>9 DEF SystemNext

LEMMA RunsTracedStep ==
    ASSUME RowsInv, EngineInv, TxTraced, RunsTraced, [SystemNext]_systemVars,
           SystemFaults \cap {"calls", "backend"} = {}
    PROVE  RunsTraced'
  <1> SUFFICES ASSUME NEW s \in Sessions, NEW r \in Runs, Live(r)', run'[r].session = s
               PROVE  \/ row'[s].status # "absent"
                      \/ \E w \in Workers : Starts(w, s)' /\ tx'[w].step = "called"
    BY DEF RunsTraced, LiveOn
  <1>0. RowsStay /\ [EngineNext]_engineVars
    BY SystemStepOfRows, SystemStepOfEngine, TxTracedStep
  <1>1. CASE Live(r)
    <2>1. run[r].session = s
      BY <1>0, <1>1, TasksKeepTheirWord DEF Live
    <2>2. CASE row[s].status # "absent"
      BY <1>0, <2>2 DEF RowsStay
    <2>3. ASSUME NEW w \in Workers, Starts(w, s), tx[w].step = "called"
          PROVE  row'[s].status # "absent" \/ (Starts(w, s)' /\ tx'[w].step = "called")
      BY <2>3, AnsweredStartCommits DEF Starts, Open
    <2> QED
      BY <1>1, <2>1, <2>2, <2>3 DEF RunsTraced, LiveOn
  <1>2. CASE ~Live(r)
    <2>1. PICK w \in Workers : /\ CallStart(w) \/ CallResume(w) \/ CallConfirm(w)
                               /\ tx[w].session = s
      BY <1>2, RunsComeFromCalls
    <2>2. CASE CallStart(w)
      <3>1. CallReturns(w) /\ In(w, "start", "read")
        BY <2>2 DEF CallStart, Lost
      <3>2. tx[w] \in Tx /\ tx' = [tx EXCEPT ![w] = [tx[w] EXCEPT !.step = "called"]]
        BY <3>1, OpenTx DEF CallReturns, In
      <3>3. /\ tx'[w].op = "start" /\ tx'[w].session = s /\ tx'[w].step = "called"
            /\ tx'[w] \in Tx
        BY <2>1, <3>1, <3>2 DEF Tx, In, RowsInv, RowsTypeOK
      <3>4. tx'[w] # None
        BY <3>3 DEF None
      <3> QED
        BY <3>3, <3>4 DEF Starts, Open
    <2>3. CASE CallResume(w) \/ CallConfirm(w)
      <3>1. Open(w) /\ tx[w].op # "start"
        BY <2>3 DEF CallResume, CallConfirm, In
      <3>2. row[s].status # "absent"
        BY <2>1, <3>1 DEF TxTraced, Traced
      <3> QED
        BY <1>0, <3>2 DEF RowsStay
    <2> QED
      BY <2>1, <2>2, <2>3
  <1> QED
    BY <1>1, <1>2

\* The engine works for no session the backend has no trace of, however the
\* requests and the messages of any number of sessions overlap, as long as every
\* call is answered and the backend stays up (with a lost answer the start is
\* rolled back and its run goes on).
THEOREM NoRunIsOrphaned ==
    ASSUME SystemFaults \cap {"calls", "backend"} = {}
    PROVE  SystemSpec => []NoOrphanRun
  <1>1. SystemInit => TxTraced /\ RunsTraced
    <2> SUFFICES ASSUME SystemInit PROVE TxTraced /\ RunsTraced
      OBVIOUS
    <2>1. \A w \in Workers : ~Open(w)
      BY DEF SystemInit, RowsInit, Open
    <2>2. \A r \in Runs : ~Live(r)
      BY DEF SystemInit, EngineInit, FreeTask, Live
    <2> QED
      BY <2>1, <2>2 DEF TxTraced, RunsTraced, LiveOn
  <1>2. SystemInv /\ TxTraced /\ RunsTraced /\ [SystemNext]_systemVars
            => (TxTraced /\ RunsTraced)'
    BY SystemStepOfRows, TxTracedStep, RunsTracedStep DEF SystemInv
  <1>3. RunsTraced => NoOrphanRun
    BY DEF RunsTraced, NoOrphanRun, Starts
  <1> QED
    BY <1>1, <1>2, <1>3, SystemInvariant, PTL DEF SystemSpec
=============================================================================
