-------------------------- MODULE EngineRunsProofs --------------------------
(***************************************************************************)
(* Proofs about EngineRuns: for every number of tasks, sessions and files, *)
(* and whatever faults happen, the invariants that the runs of             *)
(* MCEngineRuns.cfg check on two tasks of one session.                     *)
(*                                                                         *)
(* The inductive invariant has two halves.  TaskOK looks at one task alone *)
(* (what it may have said by the time it is where it is), NoStaleFlag      *)
(* relates the flags to the tasks.                                         *)
(***************************************************************************)
EXTENDS EngineRuns, TLAPS

\* Whether a task has announced its end: in its finally block, or over.
Over(phase) == phase \in {"closing", "ended"}

\* A task that has not announced its end said at most "completed", and nothing
\* before patch_node; one that goes on from a confirmed plan has said it by the
\* time it is past patch_node.
SaidSoFar(t) ==
    /\ t.phase = "free" => t = FreeTask
    /\ t.phase # "free" => t.session \in Sessions
    /\ t.phase = "queued" => t.at = 0
    /\ t.phase \notin {"closing", "ended", "lost"} => t.said \subseteq {"completed"}
    /\ t.phase \notin {"closing", "ended", "lost"} /\ t.at < PatchedAt => t.said = {}
    /\ t.phase \in {"interrupted", "confirming"} => t.at = PlannedAt
    /\ t.kind = "confirm" /\ t.phase \in {"running", "saving", "saved"} =>
          t.at >= PlannedAt /\ (t.at >= PatchedAt => "completed" \in t.said)

\* What the properties say of one task.
SaidInTheEnd(t) ==
    /\ Over(t.phase) => t.said # {}
    /\ "awaiting_confirmation" \in t.said => t.said = {"awaiting_confirmation"}

TaskOK(t) == t \in Task /\ SaidSoFar(t) /\ SaidInTheEnd(t)

EngineInv ==
    /\ EngineTypeOK
    /\ \A r \in Runs : TaskOK(run[r])
    /\ NoStaleFlag
----------------------------------------------------------------------------
USE EngineAssumption

\* The positions of the graph are ordered as its nodes are.
LEMMA PositionsOrdered ==
    /\ PlannedAt = 2 /\ PlannedAt < AuditedAt /\ AuditedAt < PatchedAt
    /\ AuditedAt \in Nat /\ PatchedAt \in Nat /\ EndAt = PatchedAt + 1
    /\ 0 \in Positions /\ PlannedAt \in Positions /\ PatchedAt \in Positions
    /\ EndAt \in Positions /\ NoCheckpoint \notin Positions
    /\ \A p \in Positions : p \in Nat /\ p <= EndAt
  BY DEF PlannedAt, AuditedAt, PatchedAt, EndAt, Positions, NoCheckpoint

\* A free task is a task in order.
LEMMA FreeTaskOK == TaskOK(FreeTask)
  BY PositionsOrdered
     DEF TaskOK, FreeTask, Task, Phases, SaidSoFar, SaidInTheEnd, Over

\* Nothing has been said, registered or saved at the start.
LEMMA EngineInitInv == EngineInit => EngineInv
  <1> SUFFICES ASSUME EngineInit PROVE EngineInv
    OBVIOUS
  <1>1. EngineTypeOK
    <2>1. run \in [Runs -> Task]
      BY FreeTaskOK DEF EngineInit, TaskOK
    <2>2. [at |-> NoCheckpoint, gated |-> FALSE, planned |-> FALSE] \in Checkpoint
      BY DEF Checkpoint
    <2> QED
      BY <2>1, <2>2 DEF EngineInit, EngineTypeOK
  <1>2. \A r \in Runs : TaskOK(run[r])
    BY FreeTaskOK DEF EngineInit
  <1>3. NoStaleFlag
    BY DEF EngineInit, NoStaleFlag
  <1> QED
    BY <1>1, <1>2, <1>3 DEF EngineInv
----------------------------------------------------------------------------
(* One task changes, the others stay: the shape of every step but the      *)
(* restart.                                                                *)

Becomes(r, t) == run' = [run EXCEPT ![r] = t]

\* If the new task is in order, all are.
LEMMA OneTaskChanges ==
    ASSUME EngineInv, NEW r \in Runs, NEW t, Becomes(r, t), TaskOK(t)
    PROVE  run' \in [Runs -> Task] /\ \A q \in Runs : TaskOK(run'[q])
  BY DEF EngineInv, EngineTypeOK, Becomes, TaskOK

\* A flag that was registered keeps its task when that task is not the one
\* that changes, or is still live and past its queue afterwards.
LEMMA FlagsKeepTheirTask ==
    ASSUME EngineInv, NEW r \in Runs, NEW t, Becomes(r, t),
           checkpointer' = checkpointer,
           t.session \in Sessions,
           run[r].phase # "free" => t.session = run[r].session,
           \A s \in Sessions :
              \/ flag'[s] = "absent"
              \/ flag[s] # "absent" /\ s # t.session
              \/ flag[s] # "absent" /\ (~Live(r) \/ Queued(r, "confirm"))
              \/ /\ s = t.session
                 /\ t.phase \in Phases \ {"free", "ended", "lost"}
                 /\ ~(t.phase = "queued" /\ t.kind = "confirm")
    PROVE  NoStaleFlag'
  <1> SUFFICES ASSUME checkpointer', NEW s \in Sessions, flag'[s] # "absent"
               PROVE  (\E q \in LiveOn(s) : ~Queued(q, "confirm"))'
    BY DEF NoStaleFlag
  <1> USE DEF Becomes
  <1>0. run'[r] = t /\ \A q \in Runs : q # r => run'[q] = run[q]
    BY DEF EngineInv, EngineTypeOK
  <1>1. CASE /\ s = t.session
             /\ t.phase \in Phases \ {"free", "ended", "lost"}
             /\ ~(t.phase = "queued" /\ t.kind = "confirm")
    BY <1>0, <1>1 DEF LiveOn, Live, Queued
  <1>2. CASE flag[s] # "absent" /\ (s # t.session \/ ~Live(r) \/ Queued(r, "confirm"))
    <2>1. PICK q \in LiveOn(s) : ~Queued(q, "confirm")
      BY <1>2 DEF EngineInv, NoStaleFlag
    <2>2. q # r
      BY <1>2, <2>1 DEF LiveOn, Live
    <2> QED
      BY <1>0, <2>1, <2>2 DEF LiveOn, Live, Queued
  <1> QED
    BY <1>1, <1>2
----------------------------------------------------------------------------
(* The routes.                                                             *)

QueuedTask(s, kind, gated) ==
    [FreeTask EXCEPT !.session = s, !.kind = kind, !.gated = gated,
                     !.phase = "queued"]

\* A queued task is in order.
LEMMA QueuedTaskOK ==
    ASSUME NEW s \in Sessions, NEW kind \in {"analyze", "resume", "confirm"},
           NEW gated \in BOOLEAN
    PROVE  /\ TaskOK(QueuedTask(s, kind, gated))
           /\ QueuedTask(s, kind, gated).session = s
           /\ QueuedTask(s, kind, gated).kind = kind
           /\ QueuedTask(s, kind, gated).phase = "queued"
  BY PositionsOrdered
     DEF QueuedTask, TaskOK, FreeTask, Task, Phases, SaidSoFar, SaidInTheEnd, Over

\* An accepted request preserves the invariant.
LEMMA RequestInv ==
    ASSUME EngineInv, NEW r \in Runs, NEW s \in Sessions, Request(r, s)
    PROVE  EngineInv'
  <1> USE DEF EngineInv, EngineTypeOK
  <1>1. ASSUME NEW kind \in {"analyze", "resume", "confirm"},
               NEW gated \in BOOLEAN,
               Queue(r, s, kind, gated),
               \/ flag' = [flag EXCEPT ![s] = "clear"] /\ kind # "confirm"
               \/ UNCHANGED flag,
               UNCHANGED <<checkpoint, checkpointer, channel>>
        PROVE  EngineInv'
    <2> DEFINE t == QueuedTask(s, kind, gated)
    <2>1. /\ TaskOK(t) /\ Becomes(r, t)
          /\ t.session = s /\ t.kind = kind /\ t.phase = "queued"
      <3>1. Becomes(r, t)
        BY <1>1 DEF Queue, QueuedTask, Becomes
      <3> QED
        BY <1>1, <3>1, QueuedTaskOK
    <2>2. ~Live(r)
      BY <1>1 DEF Queue, Live
    <2> HIDE DEF t
    <2>3. run' \in [Runs -> Task] /\ \A q \in Runs : TaskOK(run'[q])
      BY <2>1, OneTaskChanges
    <2>4. \A x \in Sessions :
              \/ flag'[x] = "absent"
              \/ flag[x] # "absent" /\ (~Live(r) \/ Queued(r, "confirm"))
              \/ /\ x = t.session
                 /\ t.phase \in Phases \ {"free", "ended", "lost"}
                 /\ ~(t.phase = "queued" /\ t.kind = "confirm")
      BY <1>1, <2>1, <2>2 DEF Phases
    <2>5. NoStaleFlag'
      BY <1>1, <2>1, <2>4, FlagsKeepTheirTask DEF Queue
    <2> QED
      BY <1>1, <2>3, <2>5
  <1>2. CASE \E gated \in BOOLEAN : AcceptAnalyze(r, s, gated)
    BY <1>1, <1>2 DEF AcceptAnalyze
  <1>3. CASE AcceptResume(r, s)
    BY <1>1, <1>3 DEF AcceptResume
  <1>4. CASE AcceptConfirm(r, s)
    BY <1>1, <1>4 DEF AcceptConfirm
  <1> QED
    BY <1>2, <1>3, <1>4 DEF Request

\* Raising a flag that is registered leaves it to the same task.
LEMMA CancelInv ==
    ASSUME EngineInv, NEW s \in Sessions, AcceptCancel(s)
    PROVE  EngineInv'
  BY DEF AcceptCancel, EngineInv, EngineTypeOK, NoStaleFlag, LiveOn, Live, Queued

\* A delivered message leaves the engine alone.
LEMMA DeliverInv ==
    ASSUME EngineInv, NEW s \in Sessions, NEW e \in Events, Deliver(s, e)
    PROVE  EngineInv'
  <1>1. channel' \in [Sessions -> [Events -> Nat]]
    BY DEF Deliver, EngineInv, EngineTypeOK
  <1> QED
    BY <1>1 DEF Deliver, EngineInv, EngineTypeOK, NoStaleFlag, LiveOn, Live, Queued
\* Neither do messages that are lost.
LEMMA LoseMessagesInv ==
    ASSUME EngineInv, LoseMessages
    PROVE  EngineInv'
  BY DEF LoseMessages, EngineInv, EngineTypeOK, NoStaleFlag, LiveOn, Live, Queued
----------------------------------------------------------------------------
(* The end of a task.                                                      *)

LeftTask(r, phase, said) == [run[r] EXCEPT !.phase = phase, !.said = @ \cup said]

\* A live task that announces its end, or goes on from there to its finally
\* block, if what it says is right to say.
LEMMA LeftTaskOK ==
    ASSUME EngineInv, NEW r \in Runs, Live(r),
           NEW phase \in {"closing", "ended"}, NEW said \in SUBSET Events,
           run[r].said \cup said # {},
           run[r].phase = "closing" => said = {},
           "awaiting_confirmation" \in said =>
              said = {"awaiting_confirmation"} /\ run[r].at < PatchedAt
    PROVE  /\ TaskOK(LeftTask(r, phase, said))
           /\ Leave(r, phase, said) <=> Becomes(r, LeftTask(r, phase, said))
           /\ LeftTask(r, phase, said).session = run[r].session
           /\ LeftTask(r, phase, said).session \in Sessions
           /\ LeftTask(r, phase, said).phase = phase
  <1> DEFINE t == LeftTask(r, phase, said)
  <1>1. /\ run[r] \in Task /\ SaidSoFar(run[r]) /\ SaidInTheEnd(run[r])
        /\ run[r].phase \notin {"free", "ended", "lost"}
    BY DEF EngineInv, TaskOK, Live, Phases
  <1>2. t \in Task
    BY <1>1 DEF LeftTask, Task, Phases
  <1>3. /\ t.session = run[r].session /\ t.phase = phase
        /\ t.said = run[r].said \cup said
    BY <1>1 DEF LeftTask, Task
  <1>4. Leave(r, phase, said) <=> Becomes(r, t)
    BY DEF LeftTask, Becomes, Leave
  <1> HIDE DEF t
  <1>5. SaidSoFar(t)
    BY <1>1, <1>3 DEF SaidSoFar
  <1>6. SaidInTheEnd(t)
    <2>1. CASE run[r].phase = "closing"
      BY <1>1, <1>3, <2>1 DEF SaidInTheEnd, Over
    <2>2. CASE run[r].phase # "closing"
      <3>1. run[r].said \subseteq {"completed"}
            /\ (run[r].at < PatchedAt => run[r].said = {})
        BY <1>1, <2>2 DEF SaidSoFar
      <3> QED
        BY <1>3, <3>1 DEF SaidInTheEnd
    <2> QED
      BY <2>1, <2>2
  <1>7. run[r].session \in Sessions
    BY <1>1 DEF SaidSoFar
  <1> QED
    BY <1>2, <1>3, <1>4, <1>5, <1>6, <1>7 DEF TaskOK, t

\* A task that ends leaves no flag behind: it is still to drop the flag, or it
\* drops it now, or it never had one, or the checkpoint store is down.
LEMMA LeaveInv ==
    ASSUME EngineInv, NEW r \in Runs, Live(r),
           NEW phase \in {"closing", "ended"}, NEW said \in SUBSET Events,
           run[r].said \cup said # {},
           run[r].phase = "closing" => said = {},
           "awaiting_confirmation" \in said =>
              said = {"awaiting_confirmation"} /\ run[r].at < PatchedAt,
           Leave(r, phase, said),
           \/ flag' = [flag EXCEPT ![run[r].session] = "absent"]
           \/ UNCHANGED flag /\ (Queued(r, "confirm") \/ ~checkpointer)
           \/ UNCHANGED flag /\ phase = "closing",
           checkpoint' \in [Sessions -> Checkpoint], UNCHANGED checkpointer,
           channel' \in [Sessions -> [Events -> Nat]]
    PROVE  EngineInv'
  <1> DEFINE t == LeftTask(r, phase, said)
  <1>1. /\ TaskOK(t) /\ t.session = run[r].session /\ t.session \in Sessions
        /\ t.phase = phase /\ Becomes(r, t)
    BY LeftTaskOK
  <1> HIDE DEF t
  <1>2. run' \in [Runs -> Task] /\ \A q \in Runs : TaskOK(run'[q])
    BY <1>1, OneTaskChanges
  <1>0. flag \in [Sessions -> {"absent", "clear", "set"}]
    BY DEF EngineInv, EngineTypeOK
  <1>3. flag' \in [Sessions -> {"absent", "clear", "set"}]
    BY <1>0
  <1>4. NoStaleFlag'
    <2>1. CASE ~checkpointer
      BY <2>1 DEF NoStaleFlag
    <2>2. CASE flag' = [flag EXCEPT ![run[r].session] = "absent"]
      <3>1. \A x \in Sessions :
               flag'[x] = "absent" \/ (flag[x] # "absent" /\ x # t.session)
        BY <1>0, <1>1, <2>2
      <3> QED
        BY <1>1, <3>1, FlagsKeepTheirTask
    <2>3. CASE UNCHANGED flag /\ Queued(r, "confirm")
      BY <1>1, <2>3, FlagsKeepTheirTask
    <2>4. CASE UNCHANGED flag /\ phase = "closing"
      <3>1. /\ t.phase \in Phases \ {"free", "ended", "lost"}
            /\ t.phase # "queued"
        BY <1>1, <2>4 DEF Phases
      <3>2. \A x \in Sessions :
               \/ flag'[x] = "absent"
               \/ flag[x] # "absent" /\ x # t.session
               \/ /\ x = t.session
                  /\ t.phase \in Phases \ {"free", "ended", "lost"}
                  /\ ~(t.phase = "queued" /\ t.kind = "confirm")
        BY <1>1, <2>4, <3>1
      <3> QED
        BY <1>1, <3>2, FlagsKeepTheirTask
    <2> QED
      BY <2>1, <2>2, <2>3, <2>4
  <1> QED
    BY <1>2, <1>3, <1>4 DEF EngineInv, EngineTypeOK

\* One more message on a channel.
LEMMA PublishOK ==
    ASSUME EngineInv, NEW s \in Sessions, NEW e \in Events, Publish(s, e)
    PROVE  channel' \in [Sessions -> [Events -> Nat]]
  BY DEF Publish, EngineInv, EngineTypeOK

----------------------------------------------------------------------------
(* The beginning of a task and the nodes of the graph.                     *)

\* A live task belongs to a session.
LEMMA LiveTask ==
    ASSUME EngineInv, NEW r \in Runs, Live(r)
    PROVE  /\ run[r] \in Task /\ run[r].session \in Sessions
           /\ run[r].phase \in Phases \ {"free", "ended", "lost"}
           /\ SaidSoFar(run[r]) /\ SaidInTheEnd(run[r])
  BY DEF EngineInv, TaskOK, Task, SaidSoFar, Live, Phases

\* What is saved keeps the checkpoints well-formed.
LEMMA SaveOK ==
    ASSUME EngineInv, NEW s \in Sessions, NEW saved \in Checkpoint,
           Save(s, saved)
    PROVE  checkpoint' \in [Sessions -> Checkpoint]
  BY DEF Save, EngineInv, EngineTypeOK

\* A live task that becomes another live task, past its queue.
LEMMA StaysLive ==
    ASSUME EngineInv, NEW r \in Runs, Live(r), NEW t, Becomes(r, t), TaskOK(t),
           t.session = run[r].session,
           t.phase \in {"confirming", "running", "saving", "saved", "interrupted"},
           \/ UNCHANGED flag
           \/ flag' = [flag EXCEPT ![t.session] = "clear"],
           checkpoint' \in [Sessions -> Checkpoint], UNCHANGED checkpointer,
           channel' \in [Sessions -> [Events -> Nat]]
    PROVE  EngineInv'
  <1> USE DEF EngineInv, EngineTypeOK
  <1>1. t.session \in Sessions
    BY LiveTask
  <1>2. run' \in [Runs -> Task] /\ \A q \in Runs : TaskOK(run'[q])
    BY OneTaskChanges
  <1>3. flag' \in [Sessions -> {"absent", "clear", "set"}]
    OBVIOUS
  <1>4. /\ t.phase \in Phases \ {"free", "ended", "lost"}
        /\ t.phase # "queued"
    BY DEF Phases
  <1>5. \A x \in Sessions :
            \/ flag'[x] = "absent"
            \/ flag[x] # "absent" /\ x # t.session
            \/ /\ x = t.session
               /\ t.phase \in Phases \ {"free", "ended", "lost"}
               /\ ~(t.phase = "queued" /\ t.kind = "confirm")
    BY <1>1, <1>4
  <1>6. NoStaleFlag'
    BY <1>1, <1>5, FlagsKeepTheirTask
  <1> QED
    BY <1>2, <1>3, <1>6

BegunTask(r, phase, p, gated) ==
    [run[r] EXCEPT !.phase = phase, !.at = p, !.gated = gated]

\* A task that begins, at any position of the graph; one that goes on from a
\* confirmed plan begins at the plan.
LEMMA BegunTaskOK ==
    ASSUME EngineInv, NEW r \in Runs, run[r].phase = "queued",
           NEW phase \in {"confirming", "running"},
           NEW p \in Positions, NEW gated \in BOOLEAN,
           run[r].kind = "confirm" \/ phase = "confirming" => p = PlannedAt
    PROVE  /\ TaskOK(BegunTask(r, phase, p, gated))
           /\ BegunTask(r, phase, p, gated).session = run[r].session
           /\ BegunTask(r, phase, p, gated).phase = phase
  <1>1. /\ run[r] \in Task /\ run[r].session \in Sessions /\ run[r].at = 0
        /\ SaidSoFar(run[r])
    BY DEF EngineInv, TaskOK, SaidSoFar
  <1>2. run[r].said = {}
    BY <1>1, PositionsOrdered DEF SaidSoFar
  <1> DEFINE t == BegunTask(r, phase, p, gated)
  <1>3. t \in Task
    BY <1>1 DEF BegunTask, Task, Phases
  <1>4. /\ t.phase = phase /\ t.at = p /\ t.said = {}
        /\ t.kind = run[r].kind /\ t.session = run[r].session
    BY <1>1, <1>2 DEF BegunTask, Task
  <1> HIDE DEF t
  <1>5. SaidSoFar(t)
    BY <1>1, <1>4, PositionsOrdered DEF SaidSoFar
  <1>6. SaidInTheEnd(t)
    BY <1>4 DEF SaidInTheEnd, Over
  <1>7. TaskOK(t)
    BY <1>3, <1>5, <1>6 DEF TaskOK
  <1> QED
    BY <1>4, <1>7 DEF t

LEMMA BeginAnalyzeInv ==
    ASSUME EngineInv, NEW r \in Runs, BeginAnalyze(r)
    PROVE  EngineInv'
  <1>1. Live(r) /\ run[r].phase = "queued" /\ run[r].kind = "analyze"
    BY DEF BeginAnalyze, Queued, Live, Phases
  <1>2. /\ run[r] \in Task /\ run[r].session \in Sessions /\ run[r].at = 0
        /\ run[r].gated \in BOOLEAN
    BY <1>1, LiveTask DEF SaidSoFar, Task
  <1> DEFINE t == BegunTask(r, "running", 0, run[r].gated)
  <1>3. TaskOK(t) /\ t.session = run[r].session /\ t.phase = "running"
    BY <1>1, <1>2, BegunTaskOK, PositionsOrdered
  <1>4. [run[r] EXCEPT !.phase = "running"] = t
    BY <1>2 DEF BegunTask, Task
  <1>5. Becomes(r, t)
    BY <1>4 DEF BeginAnalyze, Becomes
  <1> HIDE DEF t
  <1>6. [at |-> 0, gated |-> run[r].gated, planned |-> FALSE] \in Checkpoint
    BY <1>2, PositionsOrdered DEF Checkpoint
  <1>7. checkpoint' \in [Sessions -> Checkpoint]
    BY <1>2, <1>6, SaveOK DEF BeginAnalyze
  <1> QED
    BY <1>1, <1>3, <1>5, <1>7, StaysLive
       DEF BeginAnalyze, EngineInv, EngineTypeOK

LEMMA BeginResumeInv ==
    ASSUME EngineInv, NEW r \in Runs, BeginResume(r)
    PROVE  EngineInv'
  <1>1. Live(r) /\ run[r].phase = "queued" /\ run[r].kind = "resume"
    BY DEF BeginResume, Queued, Live, Phases
  <1>2. run[r] \in Task /\ run[r].session \in Sessions
    BY <1>1, LiveTask
  <1> DEFINE saved == checkpoint[run[r].session]
  <1>3. saved.at \in Positions /\ saved.gated \in BOOLEAN
    BY <1>2 DEF BeginResume, EngineInv, EngineTypeOK, Checkpoint
  <1>4. PICK gated \in BOOLEAN : Becomes(r, BegunTask(r, "running", saved.at, gated))
    BY <1>3 DEF BeginResume, GoOn, BegunTask, Becomes
  <1>5. UNCHANGED <<flag, checkpoint, checkpointer, channel>>
    BY DEF BeginResume, GoOn
  <1> HIDE DEF saved
  <1> DEFINE t == BegunTask(r, "running", saved.at, gated)
  <1>6. TaskOK(t) /\ t.session = run[r].session /\ t.phase = "running"
    BY <1>1, <1>3, BegunTaskOK
  <1>7. Becomes(r, t)
    BY <1>4
  <1> HIDE DEF t
  <1> QED
    BY <1>1, <1>5, <1>6, <1>7, StaysLive DEF EngineInv, EngineTypeOK

LEMMA BeginConfirmInv ==
    ASSUME EngineInv, NEW r \in Runs, BeginConfirm(r)
    PROVE  EngineInv'
  <1>1. Live(r) /\ run[r].phase = "queued"
    BY DEF BeginConfirm, Queued, Live, Phases
  <1>2. /\ run[r] \in Task /\ run[r].session \in Sessions
        /\ run[r].gated \in BOOLEAN
    BY <1>1, LiveTask DEF Task
  <1> DEFINE t == BegunTask(r, "confirming", PlannedAt, run[r].gated)
  <1>3. TaskOK(t) /\ t.session = run[r].session /\ t.phase = "confirming"
    BY <1>1, <1>2, BegunTaskOK, PositionsOrdered
  <1>4. [run[r] EXCEPT !.phase = "confirming", !.at = PlannedAt] = t
    BY <1>2 DEF BegunTask, Task
  <1>5. Becomes(r, t)
    BY <1>4 DEF BeginConfirm, Becomes
  <1> HIDE DEF t
  <1>6. checkpoint' \in [Sessions -> Checkpoint]
    <2> DEFINE s == run[r].session
    <2>1. checkpoint \in [Sessions -> Checkpoint] /\ s \in Sessions
      BY <1>2 DEF EngineInv, EngineTypeOK
    <2>2. checkpoint' = [checkpoint EXCEPT ![s] = [checkpoint[s] EXCEPT !.at = PlannedAt]]
      BY DEF BeginConfirm
    <2>3. [checkpoint[s] EXCEPT !.at = PlannedAt] \in Checkpoint
      BY <2>1, PositionsOrdered DEF Checkpoint
    <2> QED BY <2>1, <2>2, <2>3
  <1> QED
    BY <1>1, <1>3, <1>5, <1>6, StaysLive
       DEF BeginConfirm, EngineInv, EngineTypeOK

LEMMA ClearFlagInv ==
    ASSUME EngineInv, NEW r \in Runs, ClearFlag(r)
    PROVE  EngineInv'
  <1>1. Live(r) /\ run[r].phase = "confirming"
    BY DEF ClearFlag, Live, Phases
  <1>2. /\ run[r] \in Task /\ run[r].session \in Sessions
        /\ SaidSoFar(run[r]) /\ SaidInTheEnd(run[r])
    BY <1>1, LiveTask
  <1> DEFINE t == [run[r] EXCEPT !.phase = "running"]
  <1>3. t \in Task
    BY <1>2 DEF Task, Phases
  <1>4. /\ t.phase = "running" /\ t.at = run[r].at /\ t.said = run[r].said
        /\ t.kind = run[r].kind /\ t.session = run[r].session
    BY <1>2 DEF Task
  <1>5. Becomes(r, t)
    BY DEF ClearFlag, Becomes
  <1> HIDE DEF t
  <1>6. /\ run[r].at = PlannedAt /\ run[r].said = {}
    BY <1>1, <1>2, PositionsOrdered DEF SaidSoFar
  <1>7. SaidSoFar(t) /\ SaidInTheEnd(t)
    BY <1>2, <1>4, <1>6, PositionsOrdered DEF SaidSoFar, SaidInTheEnd, Over
  <1>8. TaskOK(t)
    BY <1>3, <1>7 DEF TaskOK
  <1>9. flag' = [flag EXCEPT ![t.session] = "clear"]
    BY <1>4 DEF ClearFlag
  <1> QED
    BY <1>1, <1>4, <1>5, <1>8, <1>9, StaysLive
       DEF ClearFlag, EngineInv, EngineTypeOK
----------------------------------------------------------------------------
(* Nodes of the graph.                                                     *)

MovedTask(r, p, said) ==
    [run[r] EXCEPT !.at = p,
                   !.phase = IF StopsAt(r, p) THEN "interrupted" ELSE "running",
                   !.said = @ \cup said]

\* A task moves on by one node, and announces completion at patch_node only.
LEMMA MovedTaskOK ==
    ASSUME EngineInv, NEW r \in Runs, run[r].phase \in {"running", "saved"},
           NEW p \in Successors(r), NEW said \in SUBSET Events,
           said = IF p = PatchedAt THEN {"completed"} ELSE {}
    PROVE  /\ TaskOK(MovedTask(r, p, said))
           /\ MovedTask(r, p, said).session = run[r].session
           /\ MovedTask(r, p, said).phase \in {"running", "interrupted"}
  <1> DEFINE t == MovedTask(r, p, said)
  <1>1. Live(r)
    BY DEF Live, Phases
  <1>2. /\ run[r] \in Task /\ run[r].session \in Sessions
        /\ SaidSoFar(run[r]) /\ run[r].at \in Positions
    BY <1>1, LiveTask DEF Task
  <1>3. /\ p \in Positions /\ p \in Nat /\ run[r].at \in Nat
        /\ p = run[r].at + 1 \/ (run[r].at = 0 /\ p = EndAt)
    BY <1>2, PositionsOrdered DEF Successors
  <1>4. t \in Task
    BY <1>2, <1>3 DEF MovedTask, Task, Phases
  <1>5. /\ t.phase = IF StopsAt(r, p) THEN "interrupted" ELSE "running"
        /\ t.at = p /\ t.said = run[r].said \cup said
        /\ t.kind = run[r].kind /\ t.session = run[r].session
    BY <1>2 DEF MovedTask, Task
  <1>6. run[r].said \subseteq {"completed"}
    BY <1>2 DEF SaidSoFar
  <1> HIDE DEF t
  <1>7. ASSUME t.at < PatchedAt PROVE t.said = {}
    <2>1. p # PatchedAt /\ run[r].at < PatchedAt
      BY <1>3, <1>5, <1>7, PositionsOrdered
    <2>2. said = {} /\ run[r].said = {}
      BY <1>2, <2>1 DEF SaidSoFar
    <2> QED
      BY <1>5, <2>2
  <1>8. t.phase = "interrupted" => t.at = PlannedAt
    BY <1>5 DEF StopsAt
  <1>9. t.kind = "confirm" =>
           t.at >= PlannedAt /\ (t.at >= PatchedAt => "completed" \in t.said)
    <2>1. CASE run[r].kind = "confirm"
      <3>1. run[r].at >= PlannedAt
        BY <1>2, <2>1 DEF SaidSoFar
      <3>2. run[r].at >= PatchedAt => "completed" \in run[r].said
        BY <1>2, <2>1 DEF SaidSoFar
      <3>3. p = run[r].at + 1
        BY <1>2, <1>3, <3>1, PositionsOrdered
      <3>4. t.at >= PlannedAt /\ (t.at >= PatchedAt => p = PatchedAt \/ run[r].at >= PatchedAt)
        BY <1>3, <1>5, <3>1, <3>3, PositionsOrdered
      <3>5. p = PatchedAt => "completed" \in t.said
        BY <1>5
      <3> QED
        BY <1>5, <3>2, <3>4, <3>5
    <2> QED
      BY <1>5, <2>1
  <1>10. SaidSoFar(t)
    BY <1>2, <1>5, <1>6, <1>7, <1>8, <1>9 DEF SaidSoFar
  <1>11. SaidInTheEnd(t)
    BY <1>5, <1>6 DEF SaidInTheEnd, Over
  <1>12. TaskOK(t)
    BY <1>4, <1>10, <1>11 DEF TaskOK
  <1> QED
    BY <1>5, <1>12 DEF t

\* The output of a node keeps the checkpoints well-formed.
LEMMA NodeDoneOK ==
    ASSUME EngineInv, NEW r \in Runs, NEW p, NodeDone(r, p)
    PROVE  /\ Live(r) /\ run[r].phase \in {"running", "saved"}
           /\ p \in Successors(r) /\ UNCHANGED checkpointer
           /\ checkpoint' \in [Sessions -> Checkpoint]
  <1>1. /\ Live(r) /\ run[r].phase \in {"running", "saved"}
        /\ p \in Successors(r) /\ UNCHANGED checkpointer
    BY DEF NodeDone, Live, Phases
  <1>2. run[r].session \in Sessions /\ p \in Positions
    BY <1>1, LiveTask, PositionsOrdered DEF Successors
  <1> DEFINE saved == checkpoint[run[r].session]
             new == [saved EXCEPT !.at = p, !.planned = @ \/ p = PlannedAt]
  <1>3. saved \in Checkpoint
    BY <1>2 DEF EngineInv, EngineTypeOK
  <1>4. new \in Checkpoint
    BY <1>2, <1>3 DEF Checkpoint
  <1>5. Save(run[r].session, new)
    BY DEF NodeDone
  <1> QED
    BY <1>1, <1>2, <1>4, <1>5, SaveOK

LEMMA AdvanceInv ==
    ASSUME EngineInv, NEW r \in Runs, Advance(r)
    PROVE  EngineInv'
  <1>1. PICK p \in Successors(r) \ {PatchedAt} :
           /\ NodeDone(r, p) /\ MoveTo(r, p, {}) /\ UNCHANGED <<flag, channel>>
    BY DEF Advance
  <1> DEFINE t == MovedTask(r, p, {})
  <1>2. /\ Live(r) /\ run[r].phase \in {"running", "saved"}
        /\ UNCHANGED checkpointer /\ checkpoint' \in [Sessions -> Checkpoint]
    BY <1>1, NodeDoneOK
  <1>3. Becomes(r, t)
    BY <1>1 DEF MoveTo, MovedTask, Becomes
  <1>4. TaskOK(t) /\ t.session = run[r].session /\ t.phase \in {"running", "interrupted"}
    BY <1>1, <1>2, MovedTaskOK
  <1> HIDE DEF t
  <1> QED
    BY <1>1, <1>2, <1>3, <1>4, StaysLive DEF EngineInv, EngineTypeOK

LEMMA PatchEventInv ==
    ASSUME EngineInv, NEW r \in Runs, PatchEvent(r)
    PROVE  EngineInv'
  <1> DEFINE t == MovedTask(r, PatchedAt, {"completed"})
  <1>1. /\ Live(r) /\ run[r].phase \in {"running", "saved"}
        /\ PatchedAt \in Successors(r)
        /\ UNCHANGED checkpointer /\ checkpoint' \in [Sessions -> Checkpoint]
    BY NodeDoneOK DEF PatchEvent
  <1>2. Becomes(r, t)
    BY DEF PatchEvent, MoveTo, MovedTask, Becomes
  <1>3. TaskOK(t) /\ t.session = run[r].session /\ t.phase \in {"running", "interrupted"}
    <2>1. {"completed"} \in SUBSET Events
      BY DEF Events
    <2> QED
      BY <1>1, <2>1, MovedTaskOK
  <1>4. channel' \in [Sessions -> [Events -> Nat]]
    <2>1. run[r].session \in Sessions /\ "completed" \in Events
      BY <1>1, LiveTask DEF Events
    <2> QED
      BY <2>1 DEF PatchEvent, Publish, EngineInv, EngineTypeOK
  <1> HIDE DEF t
  <1> QED
    BY <1>1, <1>2, <1>3, <1>4, StaysLive DEF PatchEvent

\* Posting findings and getting the answer move the phase only.
LEMMA FindingsInv ==
    ASSUME EngineInv, NEW r \in Runs, PostFindings(r) \/ FindingsAnswered(r)
    PROVE  EngineInv'
  <1>1. Live(r) /\ run[r].phase \in {"running", "saving"}
    BY DEF PostFindings, FindingsAnswered, Live, Phases
  <1>2. /\ run[r] \in Task /\ SaidSoFar(run[r]) /\ SaidInTheEnd(run[r])
    BY <1>1, LiveTask
  <1>3. PICK phase \in {"saving", "saved"} :
           Becomes(r, [run[r] EXCEPT !.phase = phase])
    BY DEF PostFindings, FindingsAnswered, Becomes
  <1> DEFINE t == [run[r] EXCEPT !.phase = phase]
  <1>4. t \in Task
    BY <1>2 DEF Task, Phases
  <1>5. /\ t.phase = phase /\ t.at = run[r].at /\ t.said = run[r].said
        /\ t.kind = run[r].kind /\ t.session = run[r].session
    BY <1>2 DEF Task
  <1>6. Becomes(r, t)
    BY <1>3
  <1> HIDE DEF t
  <1>7. SaidSoFar(t) /\ SaidInTheEnd(t)
    BY <1>1, <1>2, <1>5 DEF SaidSoFar, SaidInTheEnd, Over
  <1>8. TaskOK(t)
    BY <1>4, <1>7 DEF TaskOK
  <1> QED
    BY <1>1, <1>5, <1>6, <1>8, StaysLive
       DEF PostFindings, FindingsAnswered, EngineInv, EngineTypeOK
----------------------------------------------------------------------------
(* The ways a task ends.                                                   *)

\* Every announced way out of the try block preserves the invariant.
LEMMA EndSayingInv ==
    ASSUME EngineInv, NEW r \in Runs, Live(r), run[r].phase # "closing",
           NEW e \in Events,
           e = "awaiting_confirmation" => run[r].at < PatchedAt,
           EndSaying(r, e),
           checkpoint' \in [Sessions -> Checkpoint], UNCHANGED checkpointer
    PROVE  EngineInv'
  <1>1. channel' \in [Sessions -> [Events -> Nat]]
    BY LiveTask, PublishOK DEF EndSaying
  <1>2. /\ {e} \in SUBSET Events /\ run[r].said \cup {e} # {}
        /\ Leave(r, "closing", {e}) /\ UNCHANGED flag
    BY DEF EndSaying
  <1> QED
    BY <1>1, <1>2, LeaveInv

\* The ways out that publish an error and leave the flag alone.
LEMMA ErrorOutsideTryInv ==
    ASSUME EngineInv, NEW r \in Runs,
           ResumeWithoutCheckpointer(r) \/ ConfirmUpdateFails(r)
    PROVE  EngineInv'
  <1>1. Live(r) /\ (Queued(r, "confirm") \/ ~checkpointer) /\ run[r].phase # "closing"
    BY DEF ResumeWithoutCheckpointer, ConfirmUpdateFails, Queued, Live, Phases
  <1>2. /\ Leave(r, "ended", {"error"}) /\ Publish(run[r].session, "error")
        /\ UNCHANGED <<flag, checkpoint, checkpointer>>
    BY DEF ResumeWithoutCheckpointer, ConfirmUpdateFails, FailOutsideTry
  <1>3. /\ "error" \in Events /\ {"error"} \in SUBSET Events
        /\ run[r].said \cup {"error"} # {}
        /\ "awaiting_confirmation" \notin {"error"}
    BY DEF Events
  <1>4. channel' \in [Sessions -> [Events -> Nat]]
    BY <1>1, <1>2, <1>3, LiveTask, PublishOK
  <1>5. checkpoint' \in [Sessions -> Checkpoint]
    BY <1>2 DEF EngineInv, EngineTypeOK
  <1> QED
    BY <1>1, <1>2, <1>3, <1>4, <1>5, LeaveInv

\* A confirmed task that is at the end of the graph has announced completion.
LEMMA FinishConfirmedInv ==
    ASSUME EngineInv, NEW r \in Runs, FinishConfirmed(r)
    PROVE  EngineInv'
  <1>1. /\ Live(r) /\ run[r].phase = "running" /\ run[r].at = EndAt
        /\ run[r].kind = "confirm"
    BY DEF FinishConfirmed, AtEnd, Live, Phases
  <1>2. "completed" \in run[r].said
    BY <1>1, LiveTask, PositionsOrdered DEF SaidSoFar
  <1>3. /\ {} \in SUBSET Events /\ run[r].said \cup {} # {}
        /\ Leave(r, "closing", {}) /\ UNCHANGED flag
    BY <1>2 DEF FinishConfirmed
  <1>4. /\ checkpoint' \in [Sessions -> Checkpoint] /\ UNCHANGED checkpointer
        /\ channel' \in [Sessions -> [Events -> Nat]]
    BY DEF FinishConfirmed, EngineInv, EngineTypeOK
  <1> QED
    BY <1>1, <1>3, <1>4, LeaveInv

\* The finally block drops the flag of a task that has announced its end.
LEMMA DropFlagInv ==
    ASSUME EngineInv, NEW r \in Runs, DropFlag(r)
    PROVE  EngineInv'
  <1>1. Live(r) /\ run[r].phase = "closing"
    BY DEF DropFlag, Live, Phases
  <1>2. run[r].said # {}
    BY <1>1, LiveTask DEF SaidInTheEnd, Over
  <1>3. /\ {} \in SUBSET Events /\ run[r].said \cup {} # {}
        /\ Leave(r, "ended", {})
        /\ flag' = [flag EXCEPT ![run[r].session] = "absent"]
    BY <1>2 DEF DropFlag
  <1>4. /\ checkpoint' \in [Sessions -> Checkpoint] /\ UNCHANGED checkpointer
        /\ channel' \in [Sessions -> [Events -> Nat]]
    BY DEF DropFlag, EngineInv, EngineTypeOK
  <1> QED
    BY <1>1, <1>3, <1>4, LeaveInv

\* The restart: nobody is live any more and no flag is left.
LEMMA RestartInv ==
    ASSUME EngineInv, EngineRestart
    PROVE  EngineInv'
  <1>1. ASSUME NEW r \in Runs
        PROVE  TaskOK(run'[r]) /\ run'[r] \in Task
    <2>1. CASE Live(r)
      <3> DEFINE t == [run[r] EXCEPT !.phase = "lost"]
      <3>1. /\ run[r] \in Task /\ SaidSoFar(run[r]) /\ SaidInTheEnd(run[r])
            /\ run[r].phase \in Phases \ {"free", "ended", "lost"}
        BY <2>1, LiveTask
      <3>2. t \in Task
        BY <3>1 DEF Task, Phases
      <3>3. /\ t.phase = "lost" /\ t.at = run[r].at /\ t.said = run[r].said
            /\ t.kind = run[r].kind /\ t.session = run[r].session
        BY <3>1 DEF Task
      <3>4. run'[r] = t
        BY <2>1 DEF EngineRestart
      <3> HIDE DEF t
      <3>5. SaidSoFar(t) /\ SaidInTheEnd(t)
        BY <3>1, <3>3 DEF SaidSoFar, SaidInTheEnd, Over
      <3> QED
        BY <3>2, <3>4, <3>5 DEF TaskOK
    <2>2. CASE ~Live(r)
      BY <2>2 DEF EngineRestart, EngineInv, TaskOK
    <2> QED
      BY <2>1, <2>2
  <1>2. run' \in [Runs -> Task]
    BY <1>1 DEF EngineRestart
  <1>3. NoStaleFlag'
    BY DEF EngineRestart, NoStaleFlag
  <1> QED
    BY <1>1, <1>2, <1>3 DEF EngineRestart, EngineInv, EngineTypeOK
----------------------------------------------------------------------------
(* The theorems.                                                           *)

\* One step of a task preserves the invariant.
LEMMA RunStepInv ==
    ASSUME EngineInv, NEW r \in Runs, RunStep(r)
    PROVE  EngineInv'
  <1>1. CASE BeginAnalyze(r)
    BY <1>1, BeginAnalyzeInv
  <1>2. CASE BeginResume(r)
    BY <1>2, BeginResumeInv
  <1>3. CASE BeginConfirm(r)
    BY <1>3, BeginConfirmInv
  <1>4. CASE ResumeWithoutCheckpointer(r) \/ ConfirmUpdateFails(r)
    BY <1>4, ErrorOutsideTryInv
  <1>5. CASE Advance(r)
    BY <1>5, AdvanceInv
  <1>6. CASE PatchEvent(r)
    BY <1>6, PatchEventInv
  <1>7. CASE FinishConfirmed(r)
    BY <1>7, FinishConfirmedInv
  <1>8. ASSUME NEW e \in {"completed", "error", "cancelled"}, EndSaying(r, e), Live(r),
               run[r].phase # "closing", checkpoint' \in [Sessions -> Checkpoint], UNCHANGED checkpointer
        PROVE  EngineInv'
    BY <1>8, EndSayingInv DEF Events
  <1>9. UNCHANGED checkpoint => checkpoint' \in [Sessions -> Checkpoint]
    BY DEF EngineInv, EngineTypeOK
  <1>10. CASE ResumeFromNothing(r)
    BY <1>8, <1>9, <1>10 DEF ResumeFromNothing, Queued, Live, Phases
  <1>11. CASE SeesCancel(r)
    <2>1. PICK p \in Successors(r) : NodeDone(r, p)
      BY <1>11 DEF SeesCancel
    <2> QED
      BY <1>8, <1>11, <2>1, NodeDoneOK DEF SeesCancel
  <1>12. CASE VerifyEventOfNone(r)
    BY <1>8, <1>12, NodeDoneOK DEF VerifyEventOfNone
  <1>13. CASE FinishAnnouncing(r)
    BY <1>8, <1>9, <1>13 DEF FinishAnnouncing, AtEnd, Live, Phases
  <1>14. CASE RunFails(r)
    BY <1>8, <1>9, <1>14 DEF RunFails, Queued, Live, Phases
  <1>15. CASE AwaitConfirmation(r)
    <2>1. Live(r) /\ run[r].phase = "interrupted"
      BY <1>15 DEF AwaitConfirmation, Live, Phases
    <2>2. run[r].at < PatchedAt
      BY <2>1, LiveTask, PositionsOrdered DEF SaidSoFar
    <2>3. PICK e \in Events : EndSaying(r, e)
      BY <1>15 DEF AwaitConfirmation, Events
    <2> QED
      BY <1>9, <1>15, <2>1, <2>2, <2>3, EndSayingInv DEF AwaitConfirmation
  <1>16. CASE ClearFlag(r)
    BY <1>16, ClearFlagInv
  <1>17. CASE DropFlag(r)
    BY <1>17, DropFlagInv
  <1> QED
    BY <1>1, <1>2, <1>3, <1>4, <1>5, <1>6, <1>7, <1>10, <1>11, <1>12, <1>13,
       <1>14, <1>15, <1>16, <1>17 DEF RunStep

\* Every step preserves the invariant.
LEMMA EngineNextInv == EngineInv /\ [EngineNext]_engineVars => EngineInv'
  <1> SUFFICES ASSUME EngineInv, [EngineNext]_engineVars
               PROVE  EngineInv'
    OBVIOUS
  <1>1. CASE \E r \in Runs, s \in Sessions : Request(r, s)
    BY <1>1, RequestInv
  <1>2. CASE \E s \in Sessions : AcceptCancel(s)
    BY <1>2, CancelInv
  <1>3. CASE \E s \in Sessions, e \in Events : Deliver(s, e)
    BY <1>3, DeliverInv
  <1>4. CASE \E r \in Runs : RunStep(r)
    BY <1>4, RunStepInv
  <1>5. CASE \E r \in Runs : PostFindings(r) \/ FindingsAnswered(r)
    BY <1>5, FindingsInv
  <1>6. CASE EngineRestart
    BY <1>6, RestartInv
  <1>7. CASE LoseMessages
    BY <1>7, LoseMessagesInv
  <1>8. CASE UNCHANGED engineVars
    BY <1>8
       DEF engineVars, EngineInv, EngineTypeOK, NoStaleFlag, LiveOn, Live, Queued
  <1> QED
    BY <1>1, <1>2, <1>3, <1>4, <1>5, <1>6, <1>7, <1>8 DEF EngineNext

\* The invariant holds in every reachable state.
THEOREM EngineInvariant == EngineSpec => []EngineInv
  BY EngineInitInv, EngineNextInv, PTL DEF EngineSpec

\* The variables keep their types: what is saved and what is resumed is always
\* a position of the graph, whatever the order of the calls.
THEOREM EngineTypeCorrect == EngineSpec => []EngineTypeOK
  <1>1. EngineInv => EngineTypeOK
    BY DEF EngineInv
  <1> QED
    BY <1>1, EngineInvariant, PTL

\* While the checkpoint store is up, a registered cancel flag belongs to a task
\* that is still to drop it.
THEOREM FlagsAreNeverStale == EngineSpec => []NoStaleFlag
  <1>1. EngineInv => NoStaleFlag
    BY DEF EngineInv
  <1> QED
    BY <1>1, EngineInvariant, PTL

\* A task that ended has published a terminal event.
THEOREM NoTaskEndsSilently == EngineSpec => []NoSilentEnd
  <1>1. EngineInv => NoSilentEnd
    BY DEF EngineInv, TaskOK, SaidInTheEnd, Over, NoSilentEnd
  <1> QED
    BY <1>1, EngineInvariant, PTL

\* A task that asked for confirmation has published nothing else.
THEOREM AskingEndsTheTask == EngineSpec => []AskingIsAllItDoes
  <1>1. EngineInv => AskingIsAllItDoes
    BY DEF EngineInv, TaskOK, SaidInTheEnd, AskingIsAllItDoes
  <1> QED
    BY <1>1, EngineInvariant, PTL
=============================================================================
