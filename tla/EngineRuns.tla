----------------------------- MODULE EngineRuns -----------------------------
(***************************************************************************)
(* The AI engine's side of an analysis: the background tasks that the      *)
(* FastAPI routes analyze.py and confirm.py start (one "run" per accepted  *)
(* call), the process-wide dictionary of cancel flags they share, the      *)
(* LangGraph checkpoint of each session, and the events a run publishes on *)
(* Redis.                                                                  *)
(*                                                                         *)
(* A run walks the nodes of graph_builder.py.  Its position is a number:   *)
(*   0 nothing done   1 files scanned   2 plan made (api_discovery and     *)
(*   planning)   2+k  k files audited (cache_check, sast, validate, next)  *)
(*   3+FileCount aggregated and patched   4+FileCount verified, at END.    *)
(* Nodes that publish nothing the backend reacts to are one step with the  *)
(* node after them.                                                        *)
(***************************************************************************)
EXTENDS AnalysisTypes

CONSTANTS Runs,         \* background tasks; each is used once (bounds the runs)
          FileCount,    \* files a plan holds
          Faults,       \* which faults happen: see FaultKinds
          NoRun         \* the session of a task that was never started

FaultKinds == {"node",      \* a node, the opening of the MCP session, the
                            \* staging or an update of the state raises
               "postgres",  \* the checkpoint store is unreachable at start-up,
                            \* or a read of it fails
               "restart"}   \* the engine process dies and starts again

ASSUME EngineAssumption ==
    /\ FileCount \in Nat \ {0}
    /\ Faults \subseteq FaultKinds
    /\ NoRun \notin Sessions

VARIABLES run,          \* [Runs -> Task]: the background tasks
          flag,         \* _cancel_flags: "absent", "clear" (False) or "set" (True)
          checkpoint,   \* [Sessions -> Checkpoint]: what PostgreSQL holds
          checkpointer, \* whether PostgreSQL was reachable when the engine started
          channel       \* events published and not yet delivered, by session

engineVars == <<run, flag, checkpoint, checkpointer, channel>>
----------------------------------------------------------------------------
ScannedAt == 1
PlannedAt == 2
AuditedAt == 2 + FileCount
PatchedAt == 3 + FileCount
EndAt     == 4 + FileCount

Positions    == 0 .. EndAt
NoCheckpoint == EndAt + 1

\* confirming: the confirmed plan is saved, the cancel flag not yet cleared;
\* closing: the end is announced, the finally block still to come.
Phases == {"free", "queued", "confirming", "running", "saving", "saved",
           "interrupted", "closing", "ended", "lost"}

\* gated: the task uses the graph compiled with interrupt_after; said: the
\* events it has published (a history variable).
Task == [session : Sessions \cup {NoRun},
         kind    : {"analyze", "resume", "confirm"},
         phase   : Phases,
         at      : Positions,
         gated   : BOOLEAN,
         said    : SUBSET Events]

FreeTask == [session |-> NoRun, kind |-> "analyze", phase |-> "free",
             at |-> 0, gated |-> FALSE, said |-> {}]

\* gated: confirm_gate of the initial state; planned: whether stages is set.
Checkpoint == [at      : Positions \cup {NoCheckpoint},
               gated   : BOOLEAN,
               planned : BOOLEAN]

Live(r)   == run[r].phase \in Phases \ {"free", "ended", "lost"}
LiveOn(s) == {r \in Runs : Live(r) /\ run[r].session = s}

EngineTypeOK ==
    /\ run          \in [Runs -> Task]
    /\ flag         \in [Sessions -> {"absent", "clear", "set"}]
    /\ checkpoint   \in [Sessions -> Checkpoint]
    /\ checkpointer \in BOOLEAN
    /\ channel      \in [Sessions -> [Events -> Nat]]

EngineInit ==
    /\ run          = [r \in Runs |-> FreeTask]
    /\ flag         = [s \in Sessions |-> "absent"]
    /\ checkpoint   = [s \in Sessions |->
                         [at |-> NoCheckpoint, gated |-> FALSE, planned |-> FALSE]]
    /\ checkpointer \in {TRUE} \cup {"postgres" \notin Faults}
    /\ channel      = [s \in Sessions |-> [e \in Events |-> 0]]
----------------------------------------------------------------------------
(* The routes: what an accepted HTTP call does before it answers 202.      *)

Queue(r, s, kind, gated) ==
    /\ run[r].phase = "free"
    /\ run' = [run EXCEPT ![r] = [FreeTask EXCEPT !.session = s, !.kind = kind,
                                                  !.gated = gated,
                                                  !.phase = "queued"]]

\* POST /agent/analyze registers a clear flag and queues the task.
AcceptAnalyze(r, s, gated) ==
    /\ Queue(r, s, "analyze", gated)
    /\ flag' = [flag EXCEPT ![s] = "clear"]
    /\ UNCHANGED <<checkpoint, checkpointer, channel>>

\* POST /agent/resume registers a clear flag and queues the task.
AcceptResume(r, s) ==
    /\ Queue(r, s, "resume", FALSE)
    /\ flag' = [flag EXCEPT ![s] = "clear"]
    /\ UNCHANGED <<checkpoint, checkpointer, channel>>

\* POST /agent/confirm is refused (500, 404, 400) unless the checkpoint holds
\* a plan.  It does not look whether the plan was confirmed already, and it
\* leaves the cancel flag to the task.
AcceptConfirm(r, s) ==
    /\ checkpointer
    /\ checkpoint[s].planned
    /\ Queue(r, s, "confirm", TRUE)
    /\ UNCHANGED <<flag, checkpoint, checkpointer, channel>>

\* POST /agent/cancel: 404 when no flag is registered, else raises the flag.
AcceptCancel(s) ==
    /\ flag[s] # "absent"
    /\ flag' = [flag EXCEPT ![s] = "set"]
    /\ UNCHANGED <<run, checkpoint, checkpointer, channel>>
----------------------------------------------------------------------------
(* The end of a task.                                                      *)

Publish(s, e) == channel' = [channel EXCEPT ![s][e] = @ + 1]

\* Nothing is left to do but what the phase stands for.
Leave(r, phase, said) ==
    run' = [run EXCEPT ![r].phase = phase, ![r].said = @ \cup said]

\* The task announces how it ended and leaves its try block; the MCP session is
\* closed on the way, so that others run before the finally block does.
EndSaying(r, e) ==
    /\ Leave(r, "closing", {e})
    /\ Publish(run[r].session, e)
    /\ UNCHANGED flag

\* An error announced before the try block is entered: no finally block.
FailOutsideTry(r) ==
    /\ Leave(r, "ended", {"error"})
    /\ Publish(run[r].session, "error")
    /\ UNCHANGED <<flag, checkpoint, checkpointer>>

\* Mutant: the finally block forgets the flag.
KeepFlag(r) ==
    /\ run[r].phase = "closing"
    /\ Leave(r, "ended", {})
    /\ UNCHANGED <<flag, checkpoint, checkpointer, channel>>

\* The finally block drops the session's flag, whichever run registered it.
DropFlag(r) ==
    /\ run[r].phase = "closing"
    /\ Leave(r, "ended", {})
    /\ flag' = [flag EXCEPT ![run[r].session] = "absent"]
    /\ UNCHANGED <<checkpoint, checkpointer, channel>>
----------------------------------------------------------------------------
(* The beginning of a task.                                                *)

Queued(r, kind) == run[r].phase = "queued" /\ run[r].kind = kind

Save(s, saved) ==
    checkpoint' = IF checkpointer THEN [checkpoint EXCEPT ![s] = saved]
                                  ELSE checkpoint

\* _run_analysis stages the workspace and starts from the initial state, which
\* is the first thing the graph checkpoints.
BeginAnalyze(r) ==
    /\ Queued(r, "analyze")
    /\ run' = [run EXCEPT ![r].phase = "running"]
    /\ Save(run[r].session,
            [at |-> 0, gated |-> run[r].gated, planned |-> FALSE])
    /\ UNCHANGED <<flag, checkpointer, channel>>

\* The graph that the checkpoint's confirm_gate asks for; when that read of the
\* checkpoint fails, a warning is logged and the graph is the one without a gate.
GoOn(r) ==
    LET saved == checkpoint[run[r].session]
    IN  /\ \E gated \in IF "postgres" \in Faults THEN {saved.gated, FALSE}
                                              ELSE {saved.gated} :
              run' = [run EXCEPT ![r].phase = "running", ![r].at = saved.at,
                                 ![r].gated = gated]
        /\ UNCHANGED <<flag, checkpoint, checkpointer, channel>>

\* Mutant: the missing checkpoint is not noticed.
BeginResumeUnchecked(r) ==
    /\ Queued(r, "resume")
    /\ checkpointer
    /\ GoOn(r)

\* Mutant: a resume waits until the flag of a cancelled run is gone.
BeginResumeUncancelled(r) ==
    /\ Queued(r, "resume")
    /\ checkpointer
    /\ checkpoint[run[r].session].at # NoCheckpoint
    /\ flag[run[r].session] # "set"
    /\ GoOn(r)

\* _run_resume goes on from the checkpoint.
BeginResume(r) ==
    /\ Queued(r, "resume")
    /\ checkpointer
    /\ checkpoint[run[r].session].at # NoCheckpoint
    /\ GoOn(r)

\* A session without a checkpoint: the graph rejects the empty input.
ResumeFromNothing(r) ==
    /\ Queued(r, "resume")
    /\ checkpointer
    /\ checkpoint[run[r].session].at = NoCheckpoint
    /\ EndSaying(r, "error")
    /\ UNCHANGED <<checkpoint, checkpointer>>

\* Without a checkpointer _run_resume returns before its try block: the error
\* is published and the flag stays registered.
ResumeWithoutCheckpointer(r) ==
    /\ Queued(r, "resume")
    /\ ~checkpointer
    /\ FailOutsideTry(r)

\* _run_confirm rewrites the checkpoint as the output of planning_node.
BeginConfirm(r) ==
    LET s == run[r].session
    IN  /\ Queued(r, "confirm")
        /\ run' = [run EXCEPT ![r].phase = "confirming", ![r].at = PlannedAt]
        /\ checkpoint' = [checkpoint EXCEPT ![s].at = PlannedAt]
        /\ UNCHANGED <<flag, checkpointer, channel>>

\* aupdate_state raises: the error is published outside the try block whose
\* finally drops the flag.
ConfirmUpdateFails(r) ==
    /\ "node" \in Faults
    /\ Queued(r, "confirm")
    /\ FailOutsideTry(r)

\* Only when the MCP session is open does the task register a clear flag, over
\* whatever flag the session has by then.
ClearFlag(r) ==
    /\ run[r].phase = "confirming"
    /\ run' = [run EXCEPT ![r].phase = "running"]
    /\ flag' = [flag EXCEPT ![run[r].session] = "clear"]
    /\ UNCHANGED <<checkpoint, checkpointer, channel>>
----------------------------------------------------------------------------
(* One node of the graph completes, its output is checkpointed and its     *)
(* event reaches the loop of the route, which looks at the flag first.     *)

\* The positions the node after the current one may lead to: a scan that
\* finds no file ends the graph.
Successors(r) ==
    (IF run[r].at = 0 THEN {EndAt} ELSE {})
        \cup ({run[r].at + 1} \cap Positions)

\* interrupt_after = [planning_node] in the graph compiled with a gate.
StopsAt(r, p) == p = PlannedAt /\ run[r].gated

NodeDone(r, p) ==
    LET saved == checkpoint[run[r].session]
    IN  /\ run[r].phase \in {"running", "saved"}
        /\ p \in Successors(r)
        /\ Save(run[r].session, [saved EXCEPT !.at = p,
                                              !.planned = @ \/ p = PlannedAt])
        /\ UNCHANGED checkpointer

Cancelled(r) == flag[run[r].session] = "set"

\* The flag is up: publish "cancelled" and return.
SeesCancel(r) ==
    /\ \E p \in Successors(r) : NodeDone(r, p)
    /\ Cancelled(r)
    /\ EndSaying(r, "cancelled")

MoveTo(r, p, said) ==
    run' = [run EXCEPT ![r].at = p,
                       ![r].phase = IF StopsAt(r, p) THEN "interrupted"
                                                     ELSE "running",
                       ![r].said = @ \cup said]

\* Every node but patch_node, whose event announces completion.
Advance(r) ==
    \E p \in Successors(r) \ {PatchedAt} :
        /\ NodeDone(r, p)
        /\ ~Cancelled(r)
        /\ MoveTo(r, p, {})
        /\ UNCHANGED <<flag, channel>>

PatchEvent(r) ==
    /\ NodeDone(r, PatchedAt)
    /\ ~Cancelled(r)
    /\ MoveTo(r, PatchedAt, {"completed"})
    /\ Publish(run[r].session, "completed")
    /\ UNCHANGED flag

\* patch_verify_node changes nothing when there was no patch to verify, and
\* the graph reports None as its update.  The two other loops skip a None;
\* _run_confirm passes it to dict.update, which raises.
VerifyEventOfNone(r) ==
    /\ run[r].kind = "confirm"
    /\ run[r].at = PatchedAt
    /\ NodeDone(r, EndAt)
    /\ ~Cancelled(r)
    /\ EndSaying(r, "error")

\* Mutant: the loop is not left at the interruption.
AwaitConfirmationAndGoOn(r) ==
    /\ run[r].phase = "interrupted"
    /\ run' = [run EXCEPT ![r].phase = "running",
                          ![r].said = @ \cup {"awaiting_confirmation"}]
    /\ Publish(run[r].session, "awaiting_confirmation")
    /\ UNCHANGED <<flag, checkpoint, checkpointer>>

\* The event of the interruption itself: the loop ends with nodes left to run.
AwaitConfirmation(r) ==
    /\ run[r].phase = "interrupted"
    /\ EndSaying(r, CASE Cancelled(r)   -> "cancelled"
                      [] ~checkpointer  -> "error"   \* aget_state raises
                      [] OTHER          -> "awaiting_confirmation")
    /\ UNCHANGED <<checkpoint, checkpointer>>
----------------------------------------------------------------------------
(* The findings of a file are posted to the backend from inside the audit  *)
(* (validate_findings_node), which goes on whatever the answer was.        *)

Auditing(r) == run[r].at \in PlannedAt .. AuditedAt - 1

PostFindings(r) ==
    /\ run[r].phase = "running"
    /\ Auditing(r)
    /\ run' = [run EXCEPT ![r].phase = "saving"]
    /\ UNCHANGED <<flag, checkpoint, checkpointer, channel>>

FindingsAnswered(r) ==
    /\ run[r].phase = "saving"
    /\ run' = [run EXCEPT ![r].phase = "saved"]
    /\ UNCHANGED <<flag, checkpoint, checkpointer, channel>>
----------------------------------------------------------------------------
(* The loop is over, or something raised.                                  *)

AtEnd(r) == run[r].phase = "running" /\ run[r].at = EndAt

\* Mutant: the end of the loop is left to the event of patch_node.
FinishWithoutAnnouncing(r) ==
    /\ AtEnd(r)
    /\ run[r].kind # "confirm"
    /\ Leave(r, "closing", {})
    /\ UNCHANGED <<flag, checkpoint, checkpointer, channel>>

\* _run_analysis and _run_resume announce completion once more.
FinishAnnouncing(r) ==
    /\ AtEnd(r)
    /\ run[r].kind # "confirm"
    /\ EndSaying(r, IF checkpointer THEN "completed"
                                    ELSE "error")  \* aget_state raises
    /\ UNCHANGED <<checkpoint, checkpointer>>

\* _run_confirm publishes nothing after its loop.
FinishConfirmed(r) ==
    /\ AtEnd(r)
    /\ run[r].kind = "confirm"
    /\ Leave(r, "closing", {})
    /\ UNCHANGED <<flag, checkpoint, checkpointer, channel>>

\* Staging, the MCP session or a node raises.
RunFails(r) ==
    /\ "node" \in Faults
    /\ run[r].phase \in {"confirming", "running", "saved"} \/ Queued(r, "analyze")
    /\ EndSaying(r, "error")
    /\ UNCHANGED <<checkpoint, checkpointer>>

\* The engine process restarts: tasks and flags were in its memory, the
\* checkpoints in PostgreSQL.  Nothing is published.
EngineRestart ==
    /\ "restart" \in Faults
    /\ \E r \in Runs : Live(r)
    /\ run' = [r \in Runs |->
                 IF Live(r) THEN [run[r] EXCEPT !.phase = "lost"] ELSE run[r]]
    /\ flag' = [s \in Sessions |-> "absent"]
    /\ checkpointer' \in {TRUE} \cup {"postgres" \notin Faults}
    /\ UNCHANGED <<checkpoint, channel>>
----------------------------------------------------------------------------
RunStep(r) ==
    \/ BeginAnalyze(r)
    \/ BeginResume(r)
    \/ ResumeFromNothing(r)
    \/ ResumeWithoutCheckpointer(r)
    \/ BeginConfirm(r)
    \/ ConfirmUpdateFails(r)
    \/ ClearFlag(r)
    \/ SeesCancel(r)
    \/ Advance(r)
    \/ PatchEvent(r)
    \/ VerifyEventOfNone(r)
    \/ AwaitConfirmation(r)
    \/ FinishAnnouncing(r)
    \/ FinishConfirmed(r)
    \/ RunFails(r)
    \/ DropFlag(r)

\* What the backend does to the engine: its calls and the messages it takes.
Request(r, s) ==
    \/ \E gated \in BOOLEAN : AcceptAnalyze(r, s, gated)
    \/ AcceptResume(r, s)
    \/ AcceptConfirm(r, s)

Deliver(s, e) ==
    /\ channel[s][e] > 0
    /\ channel' = [channel EXCEPT ![s][e] = @ - 1]
    /\ UNCHANGED <<run, flag, checkpoint, checkpointer>>

\* Redis keeps nothing for a subscriber that is away: what was on the way to a
\* backend that dies is lost.
LoseMessages ==
    /\ channel' = [s \in Sessions |-> [e \in Events |-> 0]]
    /\ UNCHANGED <<run, flag, checkpoint, checkpointer>>

EngineNext ==
    \/ \E r \in Runs, s \in Sessions : Request(r, s)
    \/ \E s \in Sessions : AcceptCancel(s)
    \/ \E s \in Sessions, e \in Events : Deliver(s, e)
    \/ \E r \in Runs : RunStep(r)
    \/ \E r \in Runs : PostFindings(r)
    \/ \E r \in Runs : FindingsAnswered(r)
    \/ EngineRestart
    \/ LoseMessages

\* What the engine promises whatever the backend does: only accepted calls make
\* tasks and raise flags, and only its tasks publish and move checkpoints.
EngineSpec == EngineInit /\ [][EngineNext]_engineVars

\* The event loop of the engine keeps serving its tasks.
EngineFairness ==
    \A r \in Runs : WF_engineVars(RunStep(r) \/ FindingsAnswered(r))
FairEngineSpec == EngineSpec /\ EngineFairness
----------------------------------------------------------------------------
(* Properties.                                                             *)

\* A cancel flag never outlives the runs it is meant for: while the checkpoint
\* store is up, a registered flag belongs to a task that is still to drop it.
\* Otherwise the "set" left behind by one run would stop the next one
\* (_cancel_flags of streaming_helpers.py is shared by all runs of a session).
NoStaleFlag ==
    checkpointer =>
        \A s \in Sessions : flag[s] # "absent" =>
            \E r \in LiveOn(s) : ~Queued(r, "confirm")

\* Whoever listens to a run hears how it ended: a task that was not lost with
\* its process has published a terminal event, whichever path it took through
\* the routes (the loop of _run_confirm publishes nothing after its end).
NoSilentEnd ==
    \A r \in Runs : run[r].phase = "ended" => run[r].said # {}

\* The confirmation a run asks for is the end of that run: no event that says
\* how the analysis went comes from the run that stopped at the gate.
AskingIsAllItDoes ==
    \A r \in Runs : "awaiting_confirmation" \in run[r].said =>
        run[r].said = {"awaiting_confirmation"}

\* As long as no node fails, a run that announced completion does not announce
\* an error afterwards (the loops of analyze.py skip an event that carries
\* None for this reason).
ResultStands ==
    \A r \in Runs : ~({"completed", "error"} \subseteq run[r].said)

\* Every accepted task comes to its end.
RunsEnd == \A r \in Runs : Live(r) ~> ~Live(r)
=============================================================================
