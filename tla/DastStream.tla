----------------------------- MODULE DastStream -----------------------------
(***************************************************************************)
(* The dynamic tests (DAST) of one session in the AI engine, and the event *)
(* streams that show them: the background tasks of routes/dast.py, the     *)
(* graph dast_node -> (again | notify_node), the Redis channel of the      *)
(* session and its result key, and _sse_generator, which subscribes and    *)
(* then looks whether the result is there already.                         *)
(*                                                                         *)
(* A scan is one target, started by itself or in a batch.                  *)
(***************************************************************************)
EXTENDS Naturals, FiniteSets, Sequences

CONSTANTS Scans,        \* scans, each run at most once
          Batches,
          BatchOf,      \* [Scans -> Batches \cup {NoBatch}]
          NoBatch,
          Streams,      \* SSE connections, each opened at most once
          MaxTries,     \* max_retries
          Concurrency,  \* _BATCH_CONCURRENCY
          Faults        \* "raise": a graph raises; "redis": Redis fails;
                        \* "ttl": the result key expires

ASSUME DastAssumption ==
    /\ IsFiniteSet(Scans)
    /\ NoBatch \notin Batches
    /\ BatchOf \in [Scans -> Batches \cup {NoBatch}]
    /\ MaxTries \in Nat \ {0}
    /\ Concurrency \in Nat \ {0}
    /\ Faults \subseteq {"raise", "redis", "ttl"}

VARIABLES scan,         \* [Scans -> Scan]
          batch,        \* [Batches -> phase]
          result,       \* secureai:dast:result:<session>, or NoMessage
          stream        \* [Streams -> Stream]

dastVars == <<scan, batch, result, stream>>
----------------------------------------------------------------------------
NoMessage == [type |-> "none", of |-> NoBatch]

Messages == [type : {"dast_result", "dast_error"}, of : Scans]
                \cup [type : {"dast_batch_complete"}, of : Batches]

\* phase, in the order of the code; "stored": the result key is written, the
\* message not yet published.
Scan == [phase : {"none", "queued", "running", "decided", "stored", "raised",
                  "done", "failed"},
         tries : 0 .. MaxTries,
         found : BOOLEAN]

BatchPhases == {"none", "running", "stored", "done"}

\* inbox: published since the subscription and not yet read.  during: the
\* batches going on at the subscription.  before: the batches that had begun
\* when the stream began to listen, that is, after its look at the result.
Stream == [phase  : {"off", "subscribed", "open", "closed"},
           batch  : BOOLEAN,
           inbox  : Seq(Messages),
           seen   : SUBSET Messages,
           before : SUBSET Batches,
           during : SUBSET Batches]

Singles    == {s \in Scans : BatchOf[s] = NoBatch}
ScansOf(b) == {s \in Scans : BatchOf[s] = b}
Ended(s)   == scan[s].phase \in {"done", "failed"}
Going      == {b \in Batches : batch[b] \in {"running", "stored"}}

DastTypeOK ==
    /\ scan   \in [Scans -> Scan]
    /\ batch  \in [Batches -> BatchPhases]
    /\ result \in Messages \cup {NoMessage}
    /\ stream \in [Streams -> Stream]

DastInit ==
    /\ scan   = [s \in Scans |-> [phase |-> "none", tries |-> 0, found |-> FALSE]]
    /\ batch  = [b \in Batches |-> "none"]
    /\ result = NoMessage
    /\ stream = [k \in Streams |->
                   [phase |-> "off", batch |-> FALSE, inbox |-> <<>>,
                    seen |-> {}, before |-> Batches, during |-> {}]]
----------------------------------------------------------------------------
(* Redis.                                                                  *)

Subscribed(k) == stream[k].phase \in {"subscribed", "open"}

Publish(m) ==
    stream' = [k \in Streams |->
                 IF Subscribed(k) THEN [stream[k] EXCEPT !.inbox = Append(@, m)]
                                  ELSE stream[k]]

\* The key lives for five minutes.
Expire ==
    /\ "ttl" \in Faults
    /\ result # NoMessage
    /\ result' = NoMessage
    /\ UNCHANGED <<scan, batch, stream>>
----------------------------------------------------------------------------
(* The routes.                                                             *)

StartScan(s) ==
    /\ s \in Singles
    /\ scan[s].phase = "none"
    /\ scan' = [scan EXCEPT ![s].phase = "queued"]
    /\ UNCHANGED <<batch, result, stream>>

StartBatch(b) ==
    /\ batch[b] = "none"
    /\ batch' = [batch EXCEPT ![b] = "running"]
    /\ scan' = [s \in Scans |-> IF s \in ScansOf(b)
                                THEN [scan[s] EXCEPT !.phase = "queued"]
                                ELSE scan[s]]
    /\ UNCHANGED <<result, stream>>
----------------------------------------------------------------------------
(* One scan.                                                               *)

\* The scans of a batch that hold its semaphore.
Holding(b) == {s \in ScansOf(b) : scan[s].phase \in {"running", "decided", "stored"}}

Begin(s) ==
    /\ scan[s].phase = "queued"
    /\ s \in Singles \/ Cardinality(Holding(BatchOf[s])) < Concurrency
    /\ scan' = [scan EXCEPT ![s].phase = "running"]
    /\ UNCHANGED <<batch, result, stream>>

\* Mutant: retry_count is compared before it was raised.
TriesLeftEarly(tries) == tries + 1 < MaxTries

TriesLeft(tries) == tries < MaxTries

\* dast_node, and route_after_dast behind it.
Try(s, found) ==
    /\ scan[s].phase = "running"
    /\ scan' = [scan EXCEPT
                  ![s].tries = @ + 1,
                  ![s].found = found,
                  ![s].phase = IF ~found /\ TriesLeft(scan[s].tries + 1)
                               THEN "running" ELSE "decided"]
    /\ UNCHANGED <<batch, result, stream>>

ResultOf(s) == [type |-> "dast_result", of |-> s]

\* notify_node: SETEX, then PUBLISH.  (One key for all scans of the session.)
Store(s) ==
    /\ scan[s].phase = "decided"
    /\ result' = ResultOf(s)
    /\ scan' = [scan EXCEPT ![s].phase = "stored"]
    /\ UNCHANGED <<batch, stream>>

\* Mutant: a failed try is not announced.
NotifySuccess(s) ==
    /\ scan[s].phase = "stored"
    /\ IF scan[s].found THEN Publish(ResultOf(s)) ELSE UNCHANGED stream
    /\ scan' = [scan EXCEPT ![s].phase = "done"]
    /\ UNCHANGED <<batch, result>>

Notify(s) ==
    /\ scan[s].phase = "stored"
    /\ Publish(ResultOf(s))
    /\ scan' = [scan EXCEPT ![s].phase = "done"]
    /\ UNCHANGED <<batch, result>>

\* notify_node swallows what Redis raises.
NotifyFails(s) ==
    /\ "redis" \in Faults
    /\ scan[s].phase \in {"decided", "stored"}
    /\ scan' = [scan EXCEPT ![s].phase = "done"]
    /\ UNCHANGED <<batch, result, stream>>

\* The graph raises.  In a batch the scan is counted as skipped.
Raise(s) ==
    /\ "raise" \in Faults
    /\ scan[s].phase = "running"
    /\ scan' = [scan EXCEPT ![s].phase = IF s \in Singles THEN "raised" ELSE "failed"]
    /\ UNCHANGED <<batch, result, stream>>

\* _publish_error: PUBLISH only, the result key is left alone.
PublishError(s) ==
    /\ scan[s].phase = "raised"
    /\ \/ Publish([type |-> "dast_error", of |-> s])
       \/ "redis" \in Faults /\ UNCHANGED stream
    /\ scan' = [scan EXCEPT ![s].phase = "failed"]
    /\ UNCHANGED <<batch, result>>
----------------------------------------------------------------------------
(* The end of a batch: gather has collected every scan.                    *)

CompletionOf(b) == [type |-> "dast_batch_complete", of |-> b]

\* Mutant: the batch does not wait for its last scan.
GatheredButOne(b) == Cardinality({s \in ScansOf(b) : ~Ended(s)}) <= 1

Gathered(b) == \A s \in ScansOf(b) : Ended(s)

\* Mutant: nothing is kept for who subscribes late.
StoreNoCompletion(b) ==
    /\ batch[b] = "running"
    /\ Gathered(b)
    /\ batch' = [batch EXCEPT ![b] = "stored"]
    /\ UNCHANGED <<scan, result, stream>>

StoreCompletion(b) ==
    /\ batch[b] = "running"
    /\ Gathered(b)
    /\ result' = CompletionOf(b)
    /\ batch' = [batch EXCEPT ![b] = "stored"]
    /\ UNCHANGED <<scan, stream>>

PublishCompletion(b) ==
    /\ batch[b] = "stored"
    /\ Publish(CompletionOf(b))
    /\ batch' = [batch EXCEPT ![b] = "done"]
    /\ UNCHANGED <<scan, result>>

CompletionFails(b) ==
    /\ "redis" \in Faults
    /\ batch[b] = "stored" \/ (batch[b] = "running" /\ Gathered(b))
    /\ batch' = [batch EXCEPT ![b] = "done"]
    /\ UNCHANGED <<scan, result, stream>>
----------------------------------------------------------------------------
(* _sse_generator.                                                         *)

\* _is_terminal_message
Terminal(m, isBatch) ==
    m.type \in IF isBatch THEN {"dast_batch_complete", "dast_error"}
                          ELSE {"dast_result", "dast_error"}

\* _is_terminal_cache
TerminalCache(m, isBatch) ==
    m.type \in IF isBatch THEN {"dast_batch_complete"}
                          ELSE {"dast_result", "dast_error"}

Subscribe(k, isBatch) ==
    /\ stream[k].phase = "off"
    /\ stream' = [stream EXCEPT
                    ![k].phase  = "subscribed",
                    ![k].batch  = isBatch,
                    ![k].during = Going]
    /\ UNCHANGED <<scan, batch, result>>

LookAtResult(k) ==
    LET ends == TerminalCache(result, stream[k].batch)
    IN  /\ stream[k].phase = "subscribed"
        /\ stream' = [stream EXCEPT
                        ![k].phase = IF ends THEN "closed" ELSE "open",
                        ![k].seen  = IF ends THEN @ \cup {result} ELSE @,
                        ![k].before = IF ends THEN @
                                      ELSE {b \in Batches : batch[b] # "none"}]
        /\ UNCHANGED <<scan, batch, result>>

Receive(k) ==
    LET m == Head(stream[k].inbox)
    IN  /\ stream[k].phase = "open"
        /\ stream[k].inbox # <<>>
        /\ stream' = [stream EXCEPT
                        ![k].inbox = Tail(@),
                        ![k].seen  = @ \cup {m},
                        ![k].phase = IF Terminal(m, stream[k].batch)
                                     THEN "closed" ELSE "open"]
        /\ UNCHANGED <<scan, batch, result>>

\* The subscription raises: the client gets an error and the stream ends.
Breaks(k) ==
    /\ "redis" \in Faults
    /\ Subscribed(k)
    /\ stream' = [stream EXCEPT ![k].phase = "closed"]
    /\ UNCHANGED <<scan, batch, result>>
----------------------------------------------------------------------------
ScanStep(s) ==
    \/ Begin(s)
    \/ \E found \in BOOLEAN : Try(s, found)
    \/ Store(s)
    \/ Notify(s)
    \/ PublishError(s)

BatchStep(b)  == StoreCompletion(b) \/ PublishCompletion(b)
StreamStep(k) == LookAtResult(k) \/ Receive(k)

DastNext ==
    \/ \E s \in Scans : StartScan(s) \/ ScanStep(s) \/ NotifyFails(s) \/ Raise(s)
    \/ \E b \in Batches : StartBatch(b) \/ BatchStep(b) \/ CompletionFails(b)
    \/ \E k \in Streams :
          \/ \E isBatch \in BOOLEAN : Subscribe(k, isBatch)
          \/ StreamStep(k)
          \/ Breaks(k)
    \/ Expire

DastSpec == DastInit /\ [][DastNext]_dastVars

\* The event loop serves its tasks and its connections.
DastFairness ==
    /\ \A s \in Scans : WF_dastVars(ScanStep(s))
    /\ \A b \in Batches : WF_dastVars(BatchStep(b))
    /\ \A k \in Streams : WF_dastVars(StreamStep(k))

FairDastSpec == DastSpec /\ DastFairness
----------------------------------------------------------------------------
(* Properties.                                                             *)

\* A completion is only ever told, by the channel or by the result key, of a
\* batch all of whose scans have ended.
CompletionIsTrue ==
    \A b \in Batches :
        \/ result = CompletionOf(b)
        \/ \E k \in Streams : CompletionOf(b) \in stream[k].seen
        => \A s \in ScansOf(b) : Ended(s)

\* Nothing is lost on the way: a batch stream that listened before the batch
\* began and was told of its completion was told of every result before.  (A
\* stream that subscribed before the batch and is served its look only after
\* it is given the completion alone: what is in its inbox is lost.)
ResultsPrecedeCompletion ==
    "redis" \notin Faults =>
        \A k \in Streams, b \in Batches :
            stream[k].batch /\ b \notin stream[k].before
                /\ CompletionOf(b) \in stream[k].seen
            => \A s \in ScansOf(b) : scan[s].phase = "done" =>
                    ResultOf(s) \in stream[k].seen

\* A scan that reports no finding has been tried as often as it may.
TriedEnough ==
    \A s \in Scans :
        scan[s].phase \in {"decided", "stored", "done"} =>
            scan[s].found \/ scan[s].tries = MaxTries

\* Nobody waits for a batch that is over: a batch stream ends, whenever it is
\* opened, once the session has had a batch, if it tests nothing by single
\* scans (they write to the same key) and Redis keeps the result.
BatchStreamsEnd ==
    Singles = {} /\ Faults \subseteq {"raise"} => \A k \in Streams :
        (Subscribed(k) /\ stream[k].batch /\ \E b \in Batches : batch[b] # "none")
            ~> stream[k].phase = "closed"

\* No completion passes a stream by: _sse_generator subscribes first and looks
\* at the result key second, and a batch writes the key first and publishes
\* second.  So when every batch that was begun is over, a batch stream that still
\* waits has a completion in its inbox, or in the key it has not looked at yet
\* (with the conditions of BatchStreamsEnd).
Begun == {b \in Batches : batch[b] # "none"}
CompletionAwaits(k) ==
    \E b \in Batches :
        \/ \E i \in 1 .. Len(stream[k].inbox) : stream[k].inbox[i] = CompletionOf(b)
        \/ stream[k].phase = "subscribed" /\ result = CompletionOf(b)
NobodyIsForgotten ==
    Singles = {} /\ Faults \subseteq {"raise"} => \A k \in Streams :
        Subscribed(k) /\ stream[k].batch /\ Begun # {} /\ Going = {} =>
            CompletionAwaits(k)

\* Nobody waits for a scan that is over: "a single stream ends on dast_result
\* or dast_error", of the channel or of the result key (routes/dast.py).
SingleStreamsEnd ==
    \A k \in Streams :
        (Subscribed(k) /\ ~stream[k].batch /\ \E s \in Singles : Ended(s))
            ~> stream[k].phase = "closed"

\* "Subscribing again while a batch goes on does not end the stream early":
\* a batch stream outlives the batch it was opened for (routes/dast.py).
StreamOutlivesBatch ==
    \A k \in Streams :
        stream[k].batch /\ stream[k].phase = "closed" =>
            stream[k].during \cap Going = {}
=============================================================================
