---------------------------- MODULE SessionRows ----------------------------
(***************************************************************************)
(* The backend's side of an analysis: the analysis_sessions rows and the   *)
(* transactions of AnalysisService, RedisSubscriber,                       *)
(* SessionInterruptionScheduler and VulnerabilityService that write them.  *)
(*                                                                         *)
(* A transaction is split at the points where another one can come between *)
(* (READ COMMITTED, no @Version): it reads rows, may call the engine, and  *)
(* commits.  Hibernate writes a dirty entity back with every column it was *)
(* loaded with (no @DynamicUpdate), so what a commit writes is fixed when  *)
(* the row is read, except where the code locks the row (findByIdForUpdate,*)
(* the UPDATE of markInterrupted).                                         *)
(***************************************************************************)
EXTENDS AnalysisTypes

CONSTANTS Projects,
          ProjectOf,    \* [Sessions -> Projects]
          Fingerprints, \* fingerprints of the findings an audit may report
          Workers       \* threads with a transaction (bounds the open ones)

ASSUME RowsAssumption ==
    /\ ProjectOf \in [Sessions -> Projects]
    /\ IsFiniteSet(Fingerprints)

VARIABLES row,      \* [Sessions -> Row]: the committed rows
          found,    \* [Sessions -> SUBSET Fingerprints]: committed findings
          tx,       \* [Workers -> Tx]: what each thread has open
          circuit   \* state of the "aiAgent" circuit breaker: "closed", "open"

rowVars == <<row, found, tx, circuit>>
----------------------------------------------------------------------------
\* "absent": no committed row.  The transient PENDING is never committed.
Row == [status : Statuses \cup {"absent"}, vulnCount : Nat]

Absent == [status |-> "absent", vulnCount |-> 0]

Ops == {"start", "resume", "confirm", "cancel", "event", "interrupt", "save"}

\* What a thread has open.  step: "read" before its call to the engine,
\* "called" once there is nothing left but to commit.  writes: the rows the
\* commit writes, Absent where it writes none.  locked: the rows it holds
\* locked.  findings: what it inserts.  victims: the running sessions a forced
\* start has listed and not come to yet.
Tx == [op       : Ops,
       session  : Sessions,
       step     : {"listed", "read", "called"},
       writes   : [Sessions -> Row],
       locked   : SUBSET Sessions,
       victims  : SUBSET Sessions,
       findings : SUBSET Fingerprints]

None == [op |-> "none"]

Idle(w) == tx[w] = None
Open(w) == tx[w] # None

RowsTypeOK ==
    /\ row     \in [Sessions -> Row]
    /\ found   \in [Sessions -> SUBSET Fingerprints]
    /\ tx      \in [Workers -> Tx \cup {None}]
    /\ circuit \in {"closed", "open"}

RowsInit ==
    /\ row     = [s \in Sessions |-> Absent]
    /\ found   = [s \in Sessions |-> {}]
    /\ tx      = [w \in Workers |-> None]
    /\ circuit = "closed"
----------------------------------------------------------------------------
NoWrites == [s \in Sessions |-> Absent]

\* The full rows of the sessions in S, as they are now, with another status.
Writing(S, status) ==
    [s \in Sessions |-> IF s \in S THEN [row[s] EXCEPT !.status = status]
                                  ELSE Absent]

Written(w) == {s \in Sessions : tx[w].writes[s] # Absent}

Begin(w, op, s, step, writes) ==
    /\ Idle(w)
    /\ tx' = [tx EXCEPT ![w] =
                [op |-> op, session |-> s, step |-> step, writes |-> writes,
                 locked |-> {}, victims |-> {}, findings |-> {}]]
    /\ UNCHANGED <<row, found, circuit>>

In(w, op, step) == Open(w) /\ tx[w].op = op /\ tx[w].step = step

\* Mutant: nobody locks rows.
NeverLocked(w, s) == FALSE

LockedByOther(w, s) == \E v \in Workers \ {w} : Open(v) /\ s \in tx[v].locked

\* The flush waits for row locks of other transactions.
Commit(w) ==
    /\ Open(w)
    /\ tx[w].step = "called"
    /\ \A s \in Written(w) : ~LockedByOther(w, s)
    /\ row' = [s \in Sessions |-> IF s \in Written(w)
                                  THEN tx[w].writes[s] ELSE row[s]]
    /\ found' = [found EXCEPT ![tx[w].session] = @ \cup tx[w].findings]
    /\ tx' = [tx EXCEPT ![w] = None]
    /\ UNCHANGED circuit

Rollback(w) ==
    /\ Open(w)
    /\ tx' = [tx EXCEPT ![w] = None]
    /\ UNCHANGED <<row, found, circuit>>
----------------------------------------------------------------------------
(* AnalysisService.startAnalysis                                           *)

RunningOf(p) == {s \in Sessions : ProjectOf[s] = p /\ row[s].status = "running"}

\* The new row's UUID is in no row and in no open transaction.
Fresh(s) ==
    /\ row[s].status = "absent"
    /\ \A w \in Workers : Open(w) => ~(tx[w].op = "start" /\ tx[w].session = s)

\* handleRunningSession: an unforced start goes on only if no running session
\* of the project is committed; a forced one lists them.
Start(w, s, force) ==
    /\ Fresh(s)
    /\ force \/ RunningOf(ProjectOf[s]) = {}
    /\ Idle(w)
    /\ tx' = [tx EXCEPT ![w] =
                [op |-> "start", session |-> s, step |-> "listed",
                 writes |-> NoWrites, locked |-> {}, findings |-> {},
                 victims |-> RunningOf(ProjectOf[s])]]
    /\ UNCHANGED <<row, found, circuit>>

\* Mutant: the UPDATE has no WHERE status = running.
Listed(v) == TRUE

StillRunning(v) == row[v].status = "running"

\* Mutant: markRunning is forgotten.
InsertedStatusPending == "pending"

InsertedStatus == "running"

\* The UPDATE ... SET status = interrupted WHERE status = running of one listed
\* session: waits for its row lock, looks at the status again, and keeps the
\* lock.  The sessions come one by one in any order, so two forced starts may
\* wait for each other until the database fails one of them (StartFails).
StartInterrupts(w, v) ==
    /\ In(w, "start", "listed")
    /\ v \in tx[w].victims
    /\ ~LockedByOther(w, v)
    /\ \/ /\ StillRunning(v)
          /\ tx' = [tx EXCEPT ![w].victims   = @ \ {v},
                              ![w].locked    = @ \cup {v},
                              ![w].writes[v] = [row[v] EXCEPT !.status = "interrupted"]]
       \/ /\ ~StillRunning(v)
          /\ tx' = [tx EXCEPT ![w].victims = @ \ {v}]
    /\ UNCHANGED <<row, found, circuit>>

\* Then the new row is saved and made RUNNING.
StartSaves(w) ==
    /\ In(w, "start", "listed")
    /\ tx[w].victims = {}
    /\ tx' = [tx EXCEPT ![w].step = "read",
                        ![w].writes[tx[w].session] = [Absent EXCEPT !.status = InsertedStatus]]
    /\ UNCHANGED <<row, found, circuit>>

\* Mutant: something after the accepted call throws.
StartFailsLate(w) ==
    /\ Open(w)
    /\ tx[w].op = "start"
    /\ Rollback(w)

\* A guard throws (membership, token limit, repository) or the call to the
\* engine fails: everything is rolled back.
StartFails(w) ==
    /\ In(w, "start", "listed") \/ In(w, "start", "read")
    /\ Rollback(w)
----------------------------------------------------------------------------
(* resumeSession, confirmPlan, cancelSession                               *)

Resume(w, s) ==
    /\ row[s].status = "interrupted"
    /\ Begin(w, "resume", s, "read", Writing({s}, "running"))

Confirm(w, s) ==
    /\ row[s].status = "awaiting_confirmation"
    /\ Begin(w, "confirm", s, "read", Writing({s}, "running"))

Cancel(w, s) ==
    /\ row[s].status = "running"
    /\ Begin(w, "cancel", s, "read", Writing({s}, "cancelled"))

CalledOps == {"start", "resume", "confirm", "cancel"}

\* The engine answered (or, for a cancel, failed: the exception is swallowed).
\* resumeAnalysis and confirmPlan are behind the circuit breaker.
CallReturns(w) ==
    /\ \E op \in CalledOps : In(w, op, "read")
    /\ tx[w].op \in {"resume", "confirm"} => circuit = "closed"
    /\ tx' = [tx EXCEPT ![w].step = "called"]
    /\ UNCHANGED <<row, found, circuit>>

\* The call failed, timed out or was not let through: AI_AGENT_UNAVAILABLE.
CallFails(w) ==
    /\ \E op \in {"resume", "confirm"} : In(w, op, "read")
    /\ Rollback(w)
----------------------------------------------------------------------------
(* RedisSubscriber.onMessage                                               *)

\* Mutant: an error is recorded as a completion.
StatusOfSwapped(e) == CASE e = "completed"             -> "completed"
                        [] e = "error"                 -> "completed"
                        [] e = "awaiting_confirmation" -> "awaiting_confirmation"

StatusOf(e) == CASE e = "completed"             -> "completed"
                 [] e = "error"                 -> "error"
                 [] e = "awaiting_confirmation" -> "awaiting_confirmation"

\* Mutant: a running session is thought to be none of the subscriber's business.
OnMessageUnlessRunning(w, s, e) ==
    /\ e \in StatusEvents
    /\ row[s].status \notin {"absent", "running"}
    /\ Begin(w, "event", s, "called", Writing({s}, StatusOf(e)))

\* markCompleted and markError also stamp completedAt, so they always dirty
\* the row; a repeated markAwaitingConfirmation changes nothing and writes
\* nothing.
OnMessage(w, s, e) ==
    /\ e \in StatusEvents
    /\ row[s].status # "absent"
    /\ Begin(w, "event", s, "called",
             IF row[s].status = "awaiting_confirmation" /\ StatusOf(e) = row[s].status
             THEN NoWrites ELSE Writing({s}, StatusOf(e)))

\* No such row (yet), or an event the subscriber only forwards.
OnMessageIgnored(s, e) ==
    /\ row[s].status = "absent" \/ e \notin StatusEvents
    /\ UNCHANGED rowVars
----------------------------------------------------------------------------
(* SessionInterruptionScheduler.detectInterruptedSessions                  *)

\* ShedLock keeps it to one thread.  It belongs to no session: session is any.
DetectInterrupted(w) ==
    LET running == {s \in Sessions : row[s].status = "running"}
    IN  /\ circuit = "open"
        /\ running # {}
        /\ \A v \in Workers : Open(v) => tx[v].op # "interrupt"
        /\ \E s \in running : Begin(w, "interrupt", s, "called",
                                   Writing(running, "interrupted"))

\* Resilience4j: any mix of failed calls may open the breaker (translate and
\* resume count alike), and it closes again after its wait.
CircuitChanges ==
    /\ circuit' = IF circuit = "open" THEN "closed" ELSE "open"
    /\ UNCHANGED <<row, found, tx>>
----------------------------------------------------------------------------
(* VulnerabilityService.saveFromAgent, and VulnerabilityFoundEventListener *)
(* in the same transaction.                                                *)

\* Mutant: fingerprints are not looked up.
AllFindings(s, reported) == reported

NewFindings(s, reported) == reported \ found[s]

\* SELECT ... FOR UPDATE, skip the fingerprints the session has, insert the
\* rest, UPDATE vuln_count = vuln_count + n.
SaveFindings(w, s, reported) ==
    LET new == NewFindings(s, reported)
    IN  /\ row[s].status # "absent"
        /\ ~LockedByOther(w, s)
        /\ Idle(w)
        /\ tx' = [tx EXCEPT ![w] =
                    [op |-> "save", session |-> s, step |-> "called",
                     writes |-> IF new = {} THEN NoWrites
                                ELSE [NoWrites EXCEPT ![s] =
                                        [row[s] EXCEPT !.vulnCount =
                                                   @ + Cardinality(new)]],
                     locked |-> {s}, victims |-> {}, findings |-> new]]
        /\ UNCHANGED <<row, found, circuit>>
----------------------------------------------------------------------------
\* The process dies: its open transactions are rolled back.
BackendRestart ==
    /\ \E w \in Workers : Open(w)
    /\ tx' = [w \in Workers |-> None]
    /\ circuit' = "closed"
    /\ UNCHANGED <<row, found>>

\* The backend with an engine that may do anything: answer, fail, publish.
RowsNext ==
    \/ \E w \in Workers, s \in Sessions :
          \/ \E force \in BOOLEAN : Start(w, s, force)
          \/ Resume(w, s)
          \/ Confirm(w, s)
          \/ Cancel(w, s)
          \/ StartInterrupts(w, s)
          \/ \E e \in StatusEvents : OnMessage(w, s, e)
          \/ \E reported \in SUBSET Fingerprints : SaveFindings(w, s, reported)
    \/ \E w \in Workers :
          \/ StartSaves(w)
          \/ StartFails(w)
          \/ CallReturns(w)
          \/ CallFails(w)
          \/ DetectInterrupted(w)
          \/ Commit(w)
    \/ CircuitChanges
    \/ BackendRestart

\* What the backend promises whatever the engine does: every change of the
\* rows is a step of one of its transactions, each begun from the status its
\* service checks, and what is refused is rolled back.
RowsSpec == RowsInit /\ [][RowsNext]_rowVars
----------------------------------------------------------------------------
(* Properties.                                                             *)

\* vuln_count never counts a finding twice: two runs of one session that
\* report the same file, a retry, or a stale write-back of an older row cannot
\* raise it above the number of findings stored.
CountNeverExceeds ==
    \A s \in Sessions : row[s].vulnCount <= Cardinality(found[s])

\* A forced start interrupts running sessions only: whatever happened between
\* its list and its UPDATE, it turns no session that has finished, was
\* cancelled or waits for the user into an interrupted one.
StartInterruptsRunningOnly ==
    [][\A w \in Workers : Commit(w) /\ tx[w].op = "start" =>
          \A s \in Sessions :
             row'[s].status = "interrupted" =>
                row[s].status \in {"running", "interrupted"}]_rowVars

\* Two transactions never hold the same row.
LocksAreExclusive ==
    \A v, w \in Workers :
        v # w /\ Open(v) /\ Open(w) => tx[v].locked \cap tx[w].locked = {}

\* The listed running sessions of a project are never joined by a second one:
\* ErrorCode.SESSION_ALREADY_RUNNING, "an analysis of this project is running".
OneRunningPerProject ==
    \A p \in Projects : Cardinality(RunningOf(p)) <= 1

\* Between transactions vuln_count is the number of findings stored: the row
\* lock of saveFromAgent is there to prevent the race condition.
CountIsExact ==
    (\A w \in Workers : Idle(w)) =>
        \A s \in Sessions : row[s].vulnCount = Cardinality(found[s])
=============================================================================
