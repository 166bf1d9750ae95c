-------------------------- MODULE DastStreamProofs --------------------------
(***************************************************************************)
(* Theorems about DastStream, for every set of scans, batches and streams, *)
(* every limit of tries and every fault.                                   *)
(*                                                                         *)
(* A completion travels: it is stored, published, waits in the inbox of a  *)
(* stream and is read.  The invariant says of all these places that what   *)
(* they hold is of a batch that has come to its end, and that such a batch *)
(* has no scan left that is not over.                                      *)
(*                                                                         *)
(* The results of a batch travel before its completion: a stream that      *)
(* listens has every result that is published, in its inbox or behind it,  *)
(* and where a completion stands in the inbox, the results stand before.   *)
(***************************************************************************)
EXTENDS DastStream, TLAPS

\* A scan that has not decided may be tried once more.
MayTry ==
    \A s \in Scans : scan[s].phase \in {"none", "queued", "running"} =>
        scan[s].tries < MaxTries

\* The scans of a batch wait for its start.
BatchWaits ==
    \A b \in Batches : batch[b] = "none" => \A s \in ScansOf(b) : scan[s].phase = "none"

AtHand(k, m) ==
    m \in stream[k].seen \/ \E i \in 1 .. Len(stream[k].inbox) : stream[k].inbox[i] = m

ToldOf(b) == result = CompletionOf(b) \/ \E k \in Streams : AtHand(k, CompletionOf(b))

ToldIsOver == \A b \in Batches : ToldOf(b) => batch[b] \in {"stored", "done"}

OverIsGathered ==
    \A b \in Batches : batch[b] \in {"stored", "done"} => \A s \in ScansOf(b) : Ended(s)

DastInv ==
    DastTypeOK /\ MayTry /\ TriedEnough /\ BatchWaits /\ ToldIsOver /\ OverIsGathered
----------------------------------------------------------------------------
LEMMA DastInitInv == DastInit => DastInv
<1> SUFFICES ASSUME DastInit PROVE DastInv
  OBVIOUS
<1> USE DastAssumption DEF DastInit
<1>1. DastTypeOK
  BY DEF DastTypeOK, Scan, BatchPhases, Stream
<1>2. MayTry /\ TriedEnough
  BY DEF MayTry, TriedEnough
<1>3. \A b \in Batches : ~ToldOf(b)
  BY DEF ToldOf, AtHand, CompletionOf, NoMessage
<1> QED BY <1>1, <1>2, <1>3 DEF DastInv, BatchWaits, ToldIsOver, OverIsGathered, ScansOf

\* What Publish does to one stream.
LEMMA PublishType ==
    ASSUME DastTypeOK, NEW m \in Messages, Publish(m)
    PROVE  stream' \in [Streams -> Stream]
<1> SUFFICES ASSUME NEW k \in Streams
             PROVE  [stream[k] EXCEPT !.inbox = Append(@, m)] \in Stream
  BY DEF Publish, DastTypeOK
<1>1. Append(stream[k].inbox, m) \in Seq(Messages)
  BY DEF DastTypeOK, Stream
<1> QED BY <1>1 DEF DastTypeOK, Stream

LEMMA PublishTells ==
    ASSUME DastTypeOK, NEW m \in Messages, Publish(m), NEW k \in Streams, NEW c,
           AtHand(k, c)'
    PROVE  AtHand(k, c) \/ c = m
<1>1. stream[k].inbox \in Seq(Messages) /\ stream[k] \in Stream
  BY DEF DastTypeOK, Stream
<1>2. CASE ~Subscribed(k)
  BY <1>2 DEF Publish, AtHand
<1>3. CASE Subscribed(k)
  <2>1. stream'[k] = [stream[k] EXCEPT !.inbox = Append(@, m)]
    BY <1>3 DEF Publish
  <2>2. stream'[k].seen = stream[k].seen /\ stream'[k].inbox = Append(stream[k].inbox, m)
    BY <1>1, <2>1 DEF Stream
  <2>3. ASSUME NEW i \in 1 .. Len(Append(stream[k].inbox, m))
        PROVE  Append(stream[k].inbox, m)[i] = m
                 \/ (i \in 1 .. Len(stream[k].inbox)
                     /\ Append(stream[k].inbox, m)[i] = stream[k].inbox[i])
    BY <1>1
  <2> QED BY <2>2, <2>3 DEF AtHand
<1> QED BY <1>2, <1>3

LEMMA MessageTypes ==
    /\ \A s \in Scans : ResultOf(s) \in Messages
    /\ \A s \in Scans : [type |-> "dast_error", of |-> s] \in Messages
    /\ \A b \in Batches : CompletionOf(b) \in Messages
BY DEF Messages, ResultOf, CompletionOf
----------------------------------------------------------------------------
\* The parts of the invariant that speak of scans alone.
ScansInv == scan \in [Scans -> Scan] /\ MayTry /\ TriedEnough

\* One scan moves to another phase: no step but Try makes it decided.
LEMMA PhaseStep ==
    ASSUME DastTypeOK, MayTry, TriedEnough, NEW s \in Scans,
           NEW p \in {"queued", "running", "stored", "raised", "done", "failed"},
           scan' = [scan EXCEPT ![s].phase = p],
           ~Ended(s),
           p \in {"queued", "running"} => scan[s].phase \in {"none", "queued"},
           p \in {"stored", "done"} => scan[s].phase \in {"decided", "stored"}
    PROVE  ScansInv' /\ \A r \in Scans : Ended(r) => Ended(r)'
<1>1. /\ scan' \in [Scans -> Scan]
      /\ scan'[s].phase = p
      /\ \A r \in Scans \ {s} : scan'[r] = scan[r]
      /\ \A r \in Scans : scan'[r].tries = scan[r].tries /\ scan'[r].found = scan[r].found
  BY DEF DastTypeOK, Scan
<1>2. MayTry'
  BY <1>1 DEF MayTry
<1>3. TriedEnough'
  BY <1>1 DEF TriedEnough
<1> QED BY <1>1, <1>2, <1>3 DEF ScansInv, Ended

LEMMA TryStep ==
    ASSUME DastTypeOK, MayTry, TriedEnough, NEW s \in Scans, NEW found \in BOOLEAN,
           Try(s, found)
    PROVE  ScansInv' /\ \A r \in Scans : Ended(r) => Ended(r)'
<1> DEFINE n    == scan[s].tries + 1
           p    == IF ~found /\ TriesLeft(n) THEN "running" ELSE "decided"
           next == [[[scan[s] EXCEPT !.tries = n] EXCEPT !.found = found] EXCEPT !.phase = p]
<1>1. scan[s] \in Scan /\ scan[s].phase = "running" /\ scan[s].tries < MaxTries
  BY DEF DastTypeOK, Try, MayTry
<1>2. n \in 0 .. MaxTries /\ MaxTries \in Nat
  BY <1>1, DastAssumption DEF Scan
<1>3. scan' = [scan EXCEPT ![s] = next]
  BY DEF Try
<1>4. next \in Scan
  BY <1>1, <1>2 DEF Scan
<1>5. next.tries = n /\ next.found = found /\ next.phase = p
  BY <1>1 DEF Scan
<1>6. p = "decided" /\ ~found => n = MaxTries
  BY <1>2 DEF TriesLeft
<1>7. p = "running" => n < MaxTries
  BY <1>2 DEF TriesLeft
<1>8. p \in {"running", "decided"}
  OBVIOUS
<1> HIDE DEF next, n, p
<1>9. scan' \in [Scans -> Scan] /\ scan'[s] = next /\ \A r \in Scans \ {s} : scan'[r] = scan[r]
  BY <1>3, <1>4 DEF DastTypeOK
<1>10. MayTry'
  BY <1>5, <1>7, <1>8, <1>9 DEF MayTry
<1>11. TriedEnough'
  BY <1>5, <1>6, <1>8, <1>9 DEF TriedEnough
<1>12. \A r \in Scans : Ended(r) => Ended(r)'
  BY <1>1, <1>9 DEF Ended
<1> QED BY <1>9, <1>10, <1>11, <1>12 DEF ScansInv

\* No step takes an ended scan back.
LEMMA ScansStep ==
    ASSUME DastTypeOK, MayTry, TriedEnough, BatchWaits, [DastNext]_dastVars
    PROVE  ScansInv' /\ \A r \in Scans : Ended(r) => Ended(r)'
<1> DEFINE Goal == ScansInv' /\ \A r \in Scans : Ended(r) => Ended(r)'
<1> SUFFICES Goal
  OBVIOUS
<1> USE DEF Ended
<1>0. ASSUME UNCHANGED scan PROVE Goal
  BY <1>0 DEF DastTypeOK, ScansInv, MayTry, TriedEnough
<1>1. ASSUME NEW s \in Scans, StartScan(s) PROVE Goal
  <2>1. scan' = [scan EXCEPT ![s].phase = "queued"]
    BY <1>1 DEF StartScan
  <2> QED BY <1>1, <2>1, PhaseStep DEF StartScan
<1>2. ASSUME NEW s \in Scans, Begin(s) PROVE Goal
  <2>1. scan' = [scan EXCEPT ![s].phase = "running"]
    BY <1>2 DEF Begin
  <2> QED BY <1>2, <2>1, PhaseStep DEF Begin
<1>3. ASSUME NEW s \in Scans, NEW found \in BOOLEAN, Try(s, found) PROVE Goal
  BY <1>3, TryStep
<1>4. ASSUME NEW s \in Scans, Store(s) PROVE Goal
  <2>1. scan' = [scan EXCEPT ![s].phase = "stored"]
    BY <1>4 DEF Store
  <2> QED BY <1>4, <2>1, PhaseStep DEF Store
<1>5. ASSUME NEW s \in Scans, Notify(s) PROVE Goal
  <2>1. scan' = [scan EXCEPT ![s].phase = "done"]
    BY <1>5 DEF Notify
  <2> QED BY <1>5, <2>1, PhaseStep DEF Notify
<1>6. ASSUME NEW s \in Scans, NotifyFails(s) PROVE Goal
  <2>1. scan' = [scan EXCEPT ![s].phase = "done"]
    BY <1>6 DEF NotifyFails
  <2> QED BY <1>6, <2>1, PhaseStep DEF NotifyFails
<1>7. ASSUME NEW s \in Scans, Raise(s) PROVE Goal
  <2>1. CASE scan' = [scan EXCEPT ![s].phase = "raised"]
    BY <1>7, <2>1, PhaseStep DEF Raise
  <2>2. CASE scan' = [scan EXCEPT ![s].phase = "failed"]
    BY <1>7, <2>2, PhaseStep DEF Raise
  <2> QED BY <1>7, <2>1, <2>2 DEF Raise
<1>8. ASSUME NEW s \in Scans, PublishError(s) PROVE Goal
  <2>1. scan' = [scan EXCEPT ![s].phase = "failed"]
    BY <1>8 DEF PublishError
  <2> QED BY <1>8, <2>1, PhaseStep DEF PublishError
<1>9. ASSUME NEW b \in Batches, StartBatch(b) PROVE Goal
  <2>1. \A r \in Scans : scan'[r] = IF r \in ScansOf(b)
                                    THEN [scan[r] EXCEPT !.phase = "queued"] ELSE scan[r]
    BY <1>9 DEF StartBatch
  <2>2. \A r \in Scans : scan[r] \in Scan /\ [scan[r] EXCEPT !.phase = "queued"] \in Scan
    BY DEF DastTypeOK, Scan
  <2>3. scan' \in [Scans -> Scan]
    BY <1>9, <2>2 DEF StartBatch
  <2>4. \A r \in ScansOf(b) : r \in Scans /\ scan[r].phase = "none"
    BY <1>9 DEF StartBatch, BatchWaits, ScansOf
  <2>5. \A r \in ScansOf(b) : scan'[r].tries = scan[r].tries /\ scan'[r].phase = "queued"
    BY <2>1, <2>2, <2>4 DEF Scan
  <2>6. MayTry'
    BY <2>1, <2>4, <2>5 DEF MayTry
  <2>7. TriedEnough'
    BY <2>1, <2>5 DEF TriedEnough
  <2>8. \A r \in Scans : Ended(r) => Ended(r)'
    BY <2>1, <2>4
  <2> QED BY <2>3, <2>6, <2>7, <2>8 DEF ScansInv
<1>10. ASSUME NEW b \in Batches, BatchStep(b) \/ CompletionFails(b) PROVE Goal
  BY <1>0, <1>10 DEF BatchStep, StoreCompletion, PublishCompletion, CompletionFails
<1>11. ASSUME NEW k \in Streams, NEW isBatch \in BOOLEAN,
              Subscribe(k, isBatch) \/ StreamStep(k) \/ Breaks(k)
       PROVE  Goal
  BY <1>0, <1>11 DEF Subscribe, StreamStep, LookAtResult, Receive, Breaks
<1>12. CASE Expire
  BY <1>0, <1>12 DEF Expire
<1>13. CASE UNCHANGED dastVars
  BY <1>0, <1>13 DEF dastVars
<1> HIDE DEF Goal
<1> QED
  BY <1>1, <1>2, <1>3, <1>4, <1>5, <1>6, <1>7, <1>8, <1>9, <1>10, <1>11, <1>12, <1>13
     DEF DastNext, ScanStep
----------------------------------------------------------------------------
\* The batches and the streams.

LEMMA BatchWaitsStep ==
    ASSUME DastTypeOK, BatchWaits, [DastNext]_dastVars
    PROVE  BatchWaits'
<1> SUFFICES ASSUME NEW b \in Batches, batch'[b] = "none", NEW s \in Scans, s \in ScansOf(b)
             PROVE  scan'[s].phase = "none"
  BY DEF BatchWaits, ScansOf
<1> USE DEF DastTypeOK
<1>0. s \notin Singles
  BY DastAssumption DEF ScansOf, Singles
<1>1. ASSUME batch[b] = "none", scan'[s] = scan[s] PROVE scan'[s].phase = "none"
  BY <1>1 DEF BatchWaits
<1>2. ASSUME NEW r \in Scans,
              StartScan(r) \/ ScanStep(r) \/ NotifyFails(r) \/ Raise(r)
      PROVE  scan'[s].phase = "none"
  <2>1. batch[b] = "none" /\ scan[s].phase = "none"
    BY <1>2 DEF BatchWaits, StartScan, ScanStep, NotifyFails, Raise, Begin, Try, Store,
               Notify, PublishError
  <2>2. r # s
    BY <1>0, <1>2, <2>1 DEF StartScan, ScanStep, NotifyFails, Raise, Begin, Try, Store,
               Notify, PublishError
  <2>3. scan'[s] = scan[s]
    BY <1>2, <2>2 DEF StartScan, ScanStep, NotifyFails, Raise, Begin, Try, Store,
               Notify, PublishError
  <2> QED BY <2>1, <2>3
<1>3. ASSUME NEW c \in Batches, StartBatch(c) PROVE scan'[s].phase = "none"
  <2>1. c # b /\ batch[b] = "none"
    BY <1>3 DEF StartBatch
  <2>2. s \notin ScansOf(c)
    BY <2>1 DEF ScansOf
  <2> QED BY <1>1, <1>3, <2>1, <2>2 DEF StartBatch
<1>4. ASSUME NEW c \in Batches, BatchStep(c) \/ CompletionFails(c) PROVE scan'[s].phase = "none"
  BY <1>1, <1>4 DEF BatchStep, StoreCompletion, PublishCompletion, CompletionFails
<1>5. ASSUME NEW k \in Streams, NEW isBatch \in BOOLEAN,
             Subscribe(k, isBatch) \/ StreamStep(k) \/ Breaks(k)
      PROVE  scan'[s].phase = "none"
  BY <1>1, <1>5 DEF Subscribe, StreamStep, LookAtResult, Receive, Breaks
<1>6. CASE Expire \/ UNCHANGED dastVars
  BY <1>1, <1>6 DEF Expire, dastVars
<1> QED BY <1>2, <1>3, <1>4, <1>5, <1>6 DEF DastNext

\* A batch that is over stays so, and its scans stay ended.
LEMMA OverStep ==
    ASSUME DastTypeOK, OverIsGathered, [DastNext]_dastVars,
           \A r \in Scans : Ended(r) => Ended(r)'
    PROVE  /\ OverIsGathered'
           /\ \A b \in Batches : batch[b] \in {"stored", "done"} =>
                                      batch'[b] \in {"stored", "done"}
<1> DEFINE Over(b)  == batch[b] \in {"stored", "done"}
           Ends(b)  == Over(b)' => Over(b) \/ Gathered(b)
<1>1. \A b \in Batches : (Over(b) => Over(b)') /\ Ends(b)
  <2> USE DEF DastTypeOK
  <2>1. ASSUME UNCHANGED batch PROVE \A b \in Batches : (Over(b) => Over(b)') /\ Ends(b)
    BY <2>1
  <2>2. ASSUME NEW r \in Scans,
               StartScan(r) \/ ScanStep(r) \/ NotifyFails(r) \/ Raise(r)
        PROVE  UNCHANGED batch
    BY <2>2 DEF StartScan, ScanStep, NotifyFails, Raise, Begin, Try, Store, Notify, PublishError
  <2>3. ASSUME NEW c \in Batches, StartBatch(c) \/ BatchStep(c) \/ CompletionFails(c)
        PROVE  \A b \in Batches : (Over(b) => Over(b)') /\ Ends(b)
    BY <2>3 DEF StartBatch, BatchStep, StoreCompletion, PublishCompletion, CompletionFails
  <2>4. ASSUME NEW k \in Streams, NEW isBatch \in BOOLEAN,
               Subscribe(k, isBatch) \/ StreamStep(k) \/ Breaks(k)
        PROVE  UNCHANGED batch
    BY <2>4 DEF Subscribe, StreamStep, LookAtResult, Receive, Breaks
  <2>5. CASE Expire \/ UNCHANGED dastVars
    BY <2>1, <2>5 DEF Expire, dastVars
  <2> HIDE DEF Over, Ends
  <2> QED BY <2>1, <2>2, <2>3, <2>4, <2>5 DEF DastNext
<1>2. OverIsGathered'
  BY <1>1 DEF OverIsGathered, Gathered, ScansOf
<1> QED BY <1>1, <1>2

\* What a stream holds it held before, or it is the result it looks at.
LEMMA StreamTells ==
    ASSUME DastTypeOK, NEW k \in Streams, NEW isBatch \in BOOLEAN,
           Subscribe(k, isBatch) \/ StreamStep(k) \/ Breaks(k)
    PROVE  /\ stream' \in [Streams -> Stream]
           /\ \A j \in Streams : \A m : AtHand(j, m)' => AtHand(j, m) \/ m = result
<1> DEFINE Held(r, m) == m \in r.seen \/ \E i \in 1 .. Len(r.inbox) : r.inbox[i] = m
<1> SUFFICES ASSUME NEW new \in Stream, stream' = [stream EXCEPT ![k] = new],
                    \A m : Held(new, m) => Held(stream[k], m) \/ m = result
             PROVE  /\ stream' \in [Streams -> Stream]
                    /\ \A j \in Streams : \A m : AtHand(j, m)' => AtHand(j, m) \/ m = result
  <2> DEFINE old   == stream[k]
             begun == {b \in Batches : batch[b] # "none"}
             ends  == TerminalCache(result, old.batch)
             m     == Head(old.inbox)
  <2>0. old \in Stream /\ old.inbox \in Seq(Messages)
    BY DEF DastTypeOK, Stream
  <2>1. CASE Subscribe(k, isBatch)
    <3> DEFINE new == [[[old EXCEPT !.phase = "subscribed"] EXCEPT !.batch = isBatch]
                          EXCEPT !.during = Going]
    <3>1. stream' = [stream EXCEPT ![k] = new]
      BY <2>1 DEF Subscribe
    <3>2. new \in Stream /\ new.seen = old.seen /\ new.inbox = old.inbox
      BY <2>0 DEF Stream, Going
    <3> QED BY <3>1, <3>2
  <2>2. CASE LookAtResult(k)
    <3> DEFINE phase  == IF ends THEN "closed" ELSE "open"
               seen   == IF ends THEN old.seen \cup {result} ELSE old.seen
               before == IF ends THEN old.before ELSE begun
               new    == [[[old EXCEPT !.phase = phase] EXCEPT !.seen = seen]
                             EXCEPT !.before = before]
    <3>1. stream' = [stream EXCEPT ![k] = new]
      <4>1. stream' = [stream EXCEPT ![k].phase = phase, ![k].seen = seen, ![k].before = before]
        BY <2>2 DEF LookAtResult
      <4> HIDE DEF phase, seen, before
      <4> QED BY <4>1
    <3>2. ends => result \in Messages
      BY DEF DastTypeOK, TerminalCache, NoMessage
    <3>3. /\ phase \in {"closed", "open"}
          /\ seen \subseteq Messages /\ seen \subseteq old.seen \cup {result}
          /\ before \subseteq Batches
      BY <2>0, <3>2 DEF Stream
    <3> HIDE DEF phase, seen, before
    <3>4. new \in Stream /\ new.seen = seen /\ new.inbox = old.inbox
      BY <2>0, <3>3 DEF Stream
    <3> HIDE DEF new
    <3> QED BY <3>1, <3>3, <3>4
  <2>3. CASE Receive(k)
    <3> DEFINE phase == IF Terminal(m, old.batch) THEN "closed" ELSE "open"
               new   == [[[old EXCEPT !.inbox = Tail(@)] EXCEPT !.seen = @ \cup {m}]
                            EXCEPT !.phase = phase]
    <3>1. stream' = [stream EXCEPT ![k] = new]
      <4>1. stream' = [stream EXCEPT ![k].inbox = Tail(@), ![k].seen = @ \cup {m},
                                     ![k].phase = phase]
        BY <2>3 DEF Receive
      <4> HIDE DEF phase, m
      <4> QED BY <4>1
    <3>2. old.inbox # <<>>
      BY <2>3 DEF Receive
    <3>3. m \in Messages /\ m = old.inbox[1] /\ 1 \in 1 .. Len(old.inbox)
      BY <2>0, <3>2
    <3>4. /\ Tail(old.inbox) \in Seq(Messages)
          /\ \A i \in 1 .. Len(Tail(old.inbox)) :
                i + 1 \in 1 .. Len(old.inbox) /\ Tail(old.inbox)[i] = old.inbox[i + 1]
      BY <2>0, <3>2
    <3>5. new \in Stream /\ new.seen = old.seen \cup {m} /\ new.inbox = Tail(old.inbox)
      BY <2>0, <3>3, <3>4 DEF Stream
    <3> HIDE DEF new, m
    <3>6. \A n : Held(new, n) => Held(old, n)
      BY <3>3, <3>4, <3>5
    <3> QED BY <3>1, <3>5, <3>6
  <2>4. CASE Breaks(k)
    <3> DEFINE new == [old EXCEPT !.phase = "closed"]
    <3>1. stream' = [stream EXCEPT ![k] = new]
      BY <2>4 DEF Breaks
    <3>2. new \in Stream /\ new.seen = old.seen /\ new.inbox = old.inbox
      BY <2>0 DEF Stream
    <3> QED BY <3>1, <3>2
  <2> QED BY <2>1, <2>2, <2>3, <2>4 DEF StreamStep
<1> QED BY DEF DastTypeOK, AtHand

LEMMA DastTypeStep ==
    ASSUME DastTypeOK, scan' \in [Scans -> Scan], [DastNext]_dastVars
    PROVE  DastTypeOK'
<1> USE DEF DastTypeOK
<1>1. ASSUME NEW s \in Scans, StartScan(s) \/ ScanStep(s) \/ NotifyFails(s) \/ Raise(s)
      PROVE  DastTypeOK'
  <2>1. UNCHANGED batch
    BY <1>1 DEF StartScan, ScanStep, NotifyFails, Raise, Begin, Try, Store, Notify, PublishError
  <2>2. result' \in Messages \cup {NoMessage}
    BY <1>1, MessageTypes
       DEF StartScan, ScanStep, NotifyFails, Raise, Begin, Try, Store, Notify, PublishError
  <2>3. UNCHANGED stream \/ \E m \in Messages : Publish(m)
    BY <1>1, MessageTypes
       DEF StartScan, ScanStep, NotifyFails, Raise, Begin, Try, Store, Notify, PublishError
  <2>4. stream' \in [Streams -> Stream]
    BY <2>3, PublishType
  <2> QED BY <2>1, <2>2, <2>4
<1>2. ASSUME NEW b \in Batches, StartBatch(b) \/ StoreCompletion(b) \/ CompletionFails(b)
      PROVE  DastTypeOK'
  BY <1>2, MessageTypes DEF StartBatch, StoreCompletion, CompletionFails, BatchPhases
<1>3. ASSUME NEW b \in Batches, PublishCompletion(b) PROVE DastTypeOK'
  BY <1>3, MessageTypes, PublishType DEF PublishCompletion, BatchPhases
<1>4. ASSUME NEW k \in Streams, NEW isBatch \in BOOLEAN,
             Subscribe(k, isBatch) \/ StreamStep(k) \/ Breaks(k)
      PROVE  DastTypeOK'
  <2>1. UNCHANGED <<batch, result>>
    BY <1>4 DEF Subscribe, StreamStep, LookAtResult, Receive, Breaks
  <2> QED BY <1>4, <2>1, StreamTells
<1>5. CASE Expire
  BY <1>5 DEF Expire
<1>6. CASE UNCHANGED dastVars
  BY <1>6 DEF dastVars
<1> QED BY <1>1, <1>2, <1>3, <1>4, <1>5, <1>6 DEF DastNext, BatchStep

\* A completion comes to a new place only from another one, or from a batch
\* that is over.
LEMMA ToldStep ==
    ASSUME DastTypeOK, [DastNext]_dastVars, NEW b \in Batches, ToldOf(b)'
    PROVE  ToldOf(b) \/ batch'[b] \in {"stored", "done"}
<1> USE DEF DastTypeOK
<1>0. /\ \A c \in Batches : CompletionOf(c) = CompletionOf(b) => c = b
      /\ \A s \in Scans : ResultOf(s) # CompletionOf(b)
      /\ \A s \in Scans : [type |-> "dast_error", of |-> s] # CompletionOf(b)
      /\ NoMessage # CompletionOf(b)
  BY DEF CompletionOf, ResultOf, NoMessage
<1>a. UNCHANGED CompletionOf(b)
  BY DEF CompletionOf
<1>1. ASSUME UNCHANGED <<result, stream>> PROVE ToldOf(b)
  BY <1>1, <1>a DEF ToldOf, AtHand
<1>2. ASSUME NEW m \in Messages, Publish(m), UNCHANGED result
      PROVE  ToldOf(b) \/ m = CompletionOf(b)
  BY <1>2, <1>a, PublishTells DEF ToldOf
<1>3. ASSUME UNCHANGED stream, result' # CompletionOf(b) PROVE ToldOf(b)
  BY <1>3, <1>a DEF ToldOf, AtHand
<1>4. ASSUME NEW s \in Scans, StartScan(s) \/ ScanStep(s) \/ NotifyFails(s) \/ Raise(s)
      PROVE  ToldOf(b)
  <2>1. CASE Store(s)
    BY <1>0, <1>3, <2>1 DEF Store
  <2>2. CASE Notify(s)
    BY <1>0, <1>2, <2>2, MessageTypes DEF Notify
  <2>3. CASE PublishError(s)
    BY <1>0, <1>1, <1>2, <2>3, MessageTypes DEF PublishError
  <2>4. CASE ~Store(s) /\ ~Notify(s) /\ ~PublishError(s)
    BY <1>1, <1>4, <2>4 DEF StartScan, ScanStep, NotifyFails, Raise, Begin, Try
  <2> QED BY <2>1, <2>2, <2>3, <2>4
<1>5. ASSUME NEW c \in Batches, StartBatch(c) \/ CompletionFails(c) PROVE ToldOf(b)
  BY <1>1, <1>5 DEF StartBatch, CompletionFails
<1>6. ASSUME NEW c \in Batches, StoreCompletion(c)
      PROVE  ToldOf(b) \/ batch'[b] \in {"stored", "done"}
  <2>1. CASE c = b
    BY <1>6, <2>1 DEF StoreCompletion
  <2>2. CASE c # b
    BY <1>0, <1>3, <1>6, <2>2 DEF StoreCompletion
  <2> QED BY <2>1, <2>2
<1>7. ASSUME NEW c \in Batches, PublishCompletion(c)
      PROVE  ToldOf(b) \/ batch'[b] \in {"stored", "done"}
  <2>1. CASE c = b
    BY <1>7, <2>1 DEF PublishCompletion
  <2>2. CASE c # b
    BY <1>0, <1>2, <1>7, <2>2, MessageTypes DEF PublishCompletion
  <2> QED BY <2>1, <2>2
<1>8. ASSUME NEW k \in Streams, NEW isBatch \in BOOLEAN,
             Subscribe(k, isBatch) \/ StreamStep(k) \/ Breaks(k)
      PROVE  ToldOf(b)
  <2>1. UNCHANGED result
    BY <1>8 DEF Subscribe, StreamStep, LookAtResult, Receive, Breaks
  <2>2. \A j \in Streams : AtHand(j, CompletionOf(b))' =>
            AtHand(j, CompletionOf(b)) \/ CompletionOf(b) = result
    BY <1>8, <1>a, StreamTells
  <2> QED BY <1>a, <2>1, <2>2 DEF ToldOf
<1>9. CASE Expire
  BY <1>0, <1>3, <1>9 DEF Expire
<1>10. CASE UNCHANGED dastVars
  BY <1>1, <1>10 DEF dastVars
<1> QED BY <1>4, <1>5, <1>6, <1>7, <1>8, <1>9, <1>10 DEF DastNext, BatchStep
----------------------------------------------------------------------------
\* The inductive invariant of the dynamic tests.
THEOREM DastInvariant == DastSpec => []DastInv
<1>1. DastInv /\ [DastNext]_dastVars => DastInv'
  <2> SUFFICES ASSUME DastInv, [DastNext]_dastVars PROVE DastInv'
    OBVIOUS
  <2>1. ScansInv' /\ \A r \in Scans : Ended(r) => Ended(r)'
    BY ScansStep DEF DastInv
  <2>2. DastTypeOK'
    BY <2>1, DastTypeStep DEF DastInv, ScansInv
  <2>3. BatchWaits'
    BY BatchWaitsStep DEF DastInv
  <2>4. OverIsGathered' /\ \A b \in Batches : batch[b] \in {"stored", "done"} =>
                                              batch'[b] \in {"stored", "done"}
    BY <2>1, OverStep DEF DastInv
  <2>5. ToldIsOver'
    BY <2>4, ToldStep DEF DastInv, ToldIsOver
  <2> QED BY <2>1, <2>2, <2>3, <2>4, <2>5 DEF DastInv, ScansInv
<1> QED BY <1>1, DastInitInv, PTL DEF DastSpec

\* Type correctness of the scans, the batches, the result key and the streams.
THEOREM DastTypeCorrect == DastSpec => []DastTypeOK
<1>1. DastInv => DastTypeOK
  BY DEF DastInv
<1> QED BY <1>1, DastInvariant, PTL

\* Whoever is told that a batch is complete, by the channel or by the result
\* key, is told so of a batch all of whose scans have ended.
THEOREM CompletionsAreTrue == DastSpec => []CompletionIsTrue
<1>1. DastInv => CompletionIsTrue
  BY DEF DastInv, ToldIsOver, ToldOf, AtHand, OverIsGathered, CompletionIsTrue
<1> QED BY <1>1, DastInvariant, PTL

\* A scan only reports that it found nothing after max_retries tries.
THEOREM EveryScanTriesEnough == DastSpec => []TriedEnough
<1>1. DastInv => TriedEnough
  BY DEF DastInv
<1> QED BY <1>1, DastInvariant, PTL
----------------------------------------------------------------------------
(* A batch stream that listens since before the batch began.               *)

Follows(k, b) == stream[k].batch /\ b \notin stream[k].before

DoneOf(b) == {s \in ScansOf(b) : scan[s].phase = "done"}

\* Message m has been read, or comes before place i of the inbox.
Earlier(k, m, i) ==
    \/ m \in stream[k].seen
    \/ \E j \in 1 .. Len(stream[k].inbox) : j < i /\ stream[k].inbox[j] = m

ResultsArrive(k, b) == \A s \in DoneOf(b) : AtHand(k, ResultOf(s))

ResultsComeFirst(k, b) ==
    \A i \in 1 .. Len(stream[k].inbox) :
        stream[k].inbox[i] = CompletionOf(b) =>
            \A s \in DoneOf(b) : Earlier(k, ResultOf(s), i)

ResultsSeen(k, b) ==
    CompletionOf(b) \in stream[k].seen => \A s \in DoneOf(b) : ResultOf(s) \in stream[k].seen

Listens(k, b) ==
    \/ /\ stream[k].phase = "open"
       /\ CompletionOf(b) \notin stream[k].seen
       /\ ResultsArrive(k, b)
       /\ ResultsComeFirst(k, b)
    \/ stream[k].phase = "closed" /\ ResultsSeen(k, b)

\* The stream k got all there was, or is not to get it: it looked at the
\* result before it listened.
Sound(k) ==
    /\ stream[k].phase \in {"off", "subscribed"} => stream[k].before = Batches
    /\ \A b \in Batches : Follows(k, b) => Listens(k, b)

StreamInv == \A k \in Streams : Sound(k)

\* A step that leaves the stream alone and finishes no scan of the batch
\* unless the batch is not over.
LEMMA ListensKept ==
    ASSUME NEW k \in Streams, NEW b \in Batches, Listens(k, b),
           stream'[k] = stream[k],
           DoneOf(b)' \subseteq DoneOf(b)
    PROVE  Listens(k, b)'
<1>1. /\ UNCHANGED CompletionOf(b)
      /\ \A s \in Scans : UNCHANGED ResultOf(s)
      /\ DoneOf(b)' \subseteq Scans
  BY DEF CompletionOf, ResultOf, DoneOf, ScansOf
<1>2. CASE stream[k].phase = "closed"
  BY <1>1, <1>2 DEF Listens, ResultsSeen
<1>3. CASE stream[k].phase = "open"
  <2>1. \A m, i : (AtHand(k, m)' <=> AtHand(k, m)) /\ (Earlier(k, m, i)' <=> Earlier(k, m, i))
    BY DEF AtHand, Earlier
  <2> QED BY <1>1, <1>3, <2>1 DEF Listens, ResultsArrive, ResultsComeFirst
<1> QED BY <1>2, <1>3 DEF Listens

\* A scan of the batch is finished, and its result published.
LEMMA ListensToResult ==
    ASSUME DastTypeOK, NEW k \in Streams, NEW b \in Batches, Listens(k, b),
           NEW s \in Scans, Publish(ResultOf(s)),
           DoneOf(b)' \subseteq DoneOf(b) \cup {s},
           s \in DoneOf(b)' => ~AtHand(k, CompletionOf(b))
    PROVE  Listens(k, b)'
<1> DEFINE q == stream[k].inbox
           m == ResultOf(s)
<1>0. /\ UNCHANGED CompletionOf(b)
      /\ \A r \in Scans : UNCHANGED ResultOf(r)
      /\ DoneOf(b)' \subseteq Scans
      /\ m # CompletionOf(b)
  BY DEF CompletionOf, ResultOf, DoneOf, ScansOf
<1>1. stream[k] \in Stream /\ q \in Seq(Messages) /\ m \in Messages
  BY MessageTypes DEF DastTypeOK, Stream
<1>2. CASE stream[k].phase = "closed"
  <2>1. stream'[k] = stream[k]
    BY <1>2 DEF Publish, Subscribed
  <2>2. CompletionOf(b) \in stream[k].seen => s \notin DoneOf(b)'
    BY DEF AtHand
  <2> QED BY <1>0, <1>2, <2>1, <2>2 DEF Listens, ResultsSeen
<1>3. CASE stream[k].phase = "open"
  <2>1. stream'[k] = [stream[k] EXCEPT !.inbox = Append(@, m)]
    BY <1>3 DEF Publish, Subscribed
  <2>2. stream'[k].seen = stream[k].seen /\ stream'[k].inbox = Append(q, m)
        /\ stream'[k].phase = "open"
    BY <1>1, <1>3, <2>1 DEF Stream
  <2>3. /\ Len(Append(q, m)) = Len(q) + 1 /\ Len(q) \in Nat
        /\ Append(q, m)[Len(q) + 1] = m
        /\ \A i \in 1 .. Len(q) : i \in 1 .. Len(q) + 1 /\ Append(q, m)[i] = q[i]
    BY <1>1
  <2> HIDE DEF m, q
  <2>4. \A n : AtHand(k, n) \/ n = m => AtHand(k, n)'
    <3>1. AtHand(k, m)'
      BY <2>2, <2>3 DEF AtHand
    <3>2. ASSUME NEW n, AtHand(k, n) PROVE AtHand(k, n)'
      BY <2>2, <2>3, <3>2 DEF AtHand, q
    <3> QED BY <3>1, <3>2
  <2>5. ResultsArrive(k, b)'
    BY <1>0, <1>3, <2>4 DEF Listens, ResultsArrive, m
  <2>6. ResultsComeFirst(k, b)'
    <3> SUFFICES ASSUME NEW i \in 1 .. Len(q) + 1, Append(q, m)[i] = CompletionOf(b),
                        NEW r \in DoneOf(b)'
                 PROVE  Earlier(k, ResultOf(r), i)'
      BY <1>0, <2>2, <2>3 DEF ResultsComeFirst
    <3>1. i \in 1 .. Len(q) /\ q[i] = CompletionOf(b)
      BY <1>0, <2>3 DEF m
    <3>2. AtHand(k, CompletionOf(b))
      BY <3>1 DEF AtHand, q
    <3>3. r \in DoneOf(b)
      BY <3>2
    <3>4. Earlier(k, ResultOf(r), i)
      BY <1>3, <3>1, <3>3 DEF Listens, ResultsComeFirst, q
    <3> QED BY <1>0, <2>2, <2>3, <3>4 DEF Earlier, q
  <2> QED BY <1>0, <1>3, <2>2, <2>5, <2>6 DEF Listens
<1> QED BY <1>2, <1>3 DEF Listens

\* Another message than a result of a scan just finished: an error, or the
\* completion of a batch.
LEMMA ListensToOther ==
    ASSUME DastTypeOK, NEW k \in Streams, NEW b \in Batches, Listens(k, b),
           NEW m \in Messages, Publish(m),
           DoneOf(b)' \subseteq DoneOf(b)
    PROVE  Listens(k, b)'
<1> DEFINE q == stream[k].inbox
<1>0. /\ UNCHANGED CompletionOf(b)
      /\ \A r \in Scans : UNCHANGED ResultOf(r)
      /\ DoneOf(b)' \subseteq Scans
  BY DEF CompletionOf, ResultOf, DoneOf, ScansOf
<1>1. stream[k] \in Stream /\ q \in Seq(Messages)
  BY DEF DastTypeOK, Stream
<1>2. CASE stream[k].phase = "closed"
  <2>1. stream'[k] = stream[k]
    BY <1>2 DEF Publish, Subscribed
  <2> QED BY <2>1, ListensKept
<1>3. CASE stream[k].phase = "open"
  <2>1. stream'[k] = [stream[k] EXCEPT !.inbox = Append(@, m)]
    BY <1>3 DEF Publish, Subscribed
  <2>2. stream'[k].seen = stream[k].seen /\ stream'[k].inbox = Append(q, m)
        /\ stream'[k].phase = "open"
    BY <1>1, <1>3, <2>1 DEF Stream
  <2>3. /\ Len(Append(q, m)) = Len(q) + 1 /\ Len(q) \in Nat
        /\ \A i \in 1 .. Len(q) : i \in 1 .. Len(q) + 1 /\ Append(q, m)[i] = q[i]
    BY <1>1
  <2> HIDE DEF q
  <2>4. \A n : AtHand(k, n) => AtHand(k, n)'
    BY <2>2, <2>3 DEF AtHand, q
  <2>5. ResultsArrive(k, b)'
    BY <1>0, <1>3, <2>4 DEF Listens, ResultsArrive
  <2>6. ResultsComeFirst(k, b)'
    <3> SUFFICES ASSUME NEW i \in 1 .. Len(q) + 1, Append(q, m)[i] = CompletionOf(b),
                        NEW r \in DoneOf(b)'
                 PROVE  Earlier(k, ResultOf(r), i)'
      BY <1>0, <2>2, <2>3 DEF ResultsComeFirst
    <3>1. CASE i \in 1 .. Len(q)
      <4>1. q[i] = CompletionOf(b)
        BY <2>3, <3>1
      <4>2. Earlier(k, ResultOf(r), i)
        BY <1>3, <3>1, <4>1 DEF Listens, ResultsComeFirst, q
      <4> QED BY <1>0, <2>2, <2>3, <4>2 DEF Earlier, q
    <3>2. CASE i = Len(q) + 1
      <4>1. AtHand(k, ResultOf(r))
        BY <1>3 DEF Listens, ResultsArrive
      <4>2. UNCHANGED ResultOf(r)
        BY <1>0
      <4> QED BY <2>2, <2>3, <3>2, <4>1, <4>2 DEF AtHand, Earlier, q
    <3> QED BY <2>3, <3>1, <3>2
  <2> QED BY <1>0, <1>3, <2>2, <2>5, <2>6 DEF Listens
<1> QED BY <1>2, <1>3 DEF Listens

\* A stream reads the head of its inbox.
LEMMA ListensOn ==
    ASSUME DastTypeOK, NEW k \in Streams, NEW b \in Batches,
           Follows(k, b), Listens(k, b), Receive(k)
    PROVE  Listens(k, b)'
<1> DEFINE q == stream[k].inbox
           m == Head(q)
           r == Tail(q)
<1>0. /\ UNCHANGED CompletionOf(b)
      /\ \A s \in Scans : UNCHANGED ResultOf(s)
      /\ DoneOf(b)' = DoneOf(b) /\ DoneOf(b) \subseteq Scans
  BY DEF Receive, CompletionOf, ResultOf, DoneOf, ScansOf
<1>1. stream[k] \in Stream /\ q \in Seq(Messages) /\ q # <<>> /\ stream[k].phase = "open"
  BY DEF DastTypeOK, Stream, Receive
<1>2. /\ m = q[1] /\ Len(q) \in Nat /\ 1 \in 1 .. Len(q)
      /\ Len(r) = Len(q) - 1
      /\ \A i \in 1 .. Len(r) : i + 1 \in 1 .. Len(q) /\ r[i] = q[i + 1]
  BY <1>1
<1>3. /\ stream'[k].seen = stream[k].seen \cup {m}
      /\ stream'[k].inbox = r
      /\ stream'[k].phase = IF Terminal(m, stream[k].batch) THEN "closed" ELSE "open"
  BY <1>1 DEF Receive, DastTypeOK, Stream
<1>4. /\ CompletionOf(b) \notin stream[k].seen
      /\ ResultsArrive(k, b) /\ ResultsComeFirst(k, b)
  BY <1>1 DEF Listens
<1> HIDE DEF m, r
<1>5. CASE Terminal(m, stream[k].batch)
  <2>1. ASSUME CompletionOf(b) \in stream[k].seen \cup {m}, NEW s \in DoneOf(b)
        PROVE  ResultOf(s) \in stream[k].seen
    <3>1. q[1] = CompletionOf(b)
      BY <1>2, <1>4, <2>1
    <3>2. Earlier(k, ResultOf(s), 1)
      BY <1>2, <1>4, <3>1 DEF ResultsComeFirst
    <3> QED BY <1>2, <3>2 DEF Earlier
  <2> QED BY <1>0, <1>3, <1>5, <2>1 DEF Listens, ResultsSeen
<1>6. CASE ~Terminal(m, stream[k].batch)
  <2>1. m # CompletionOf(b)
    BY <1>6 DEF Follows, Terminal, CompletionOf
  <2>2. ResultsArrive(k, b)'
    <3> SUFFICES ASSUME NEW s \in DoneOf(b) PROVE AtHand(k, ResultOf(s))'
      BY <1>0 DEF ResultsArrive
    <3> DEFINE n == ResultOf(s)
    <3>1. UNCHANGED n /\ AtHand(k, n)
      BY <1>0, <1>4 DEF ResultsArrive
    <3> HIDE DEF n
    <3>2. CASE n \in stream[k].seen
      BY <1>3, <3>1, <3>2 DEF AtHand, n
    <3>3. ASSUME NEW j \in 1 .. Len(q), q[j] = n PROVE AtHand(k, n)'
      <4>1. CASE j = 1
        BY <1>2, <1>3, <3>1, <3>3, <4>1 DEF AtHand
      <4>2. CASE j # 1
        <5>1. j - 1 \in 1 .. Len(r) /\ r[j - 1] = n
          BY <1>2, <3>3, <4>2
        <5> QED BY <1>3, <3>1, <5>1 DEF AtHand
      <4> QED BY <4>1, <4>2
    <3> QED BY <3>1, <3>2, <3>3 DEF AtHand, n
  <2>3. ResultsComeFirst(k, b)'
    <3> SUFFICES ASSUME NEW i \in 1 .. Len(r), r[i] = CompletionOf(b), NEW s \in DoneOf(b)
                 PROVE  Earlier(k, ResultOf(s), i)'
      BY <1>0, <1>3 DEF ResultsComeFirst
    <3> DEFINE n == ResultOf(s)
    <3>1. i + 1 \in 1 .. Len(q) /\ q[i + 1] = CompletionOf(b)
      BY <1>2
    <3>2. UNCHANGED n /\ Earlier(k, n, i + 1)
      BY <1>0, <1>4, <3>1 DEF ResultsComeFirst
    <3> HIDE DEF n
    <3>3. CASE n \in stream[k].seen
      BY <1>3, <3>2, <3>3 DEF Earlier, n
    <3>4. ASSUME NEW j \in 1 .. Len(q), j < i + 1, q[j] = n PROVE Earlier(k, n, i)'
      <4>1. CASE j = 1
        BY <1>2, <1>3, <3>2, <3>4, <4>1 DEF Earlier
      <4>2. CASE j # 1
        <5>1. j - 1 \in 1 .. Len(r) /\ j - 1 < i /\ r[j - 1] = n
          BY <1>2, <3>4, <4>2
        <5> QED BY <1>3, <3>2, <5>1 DEF Earlier
      <4> QED BY <4>1, <4>2
    <3> QED BY <3>2, <3>3, <3>4 DEF Earlier, n
  <2> QED BY <1>0, <1>3, <1>4, <1>6, <2>1, <2>2, <2>3 DEF Listens
<1> QED BY <1>5, <1>6

\* A published message leaves phase and batches of a stream alone.
LEMMA PublishKeeps ==
    ASSUME DastTypeOK, NEW m \in Messages, Publish(m), NEW k \in Streams
    PROVE  /\ stream'[k].phase = stream[k].phase
           /\ stream'[k].batch = stream[k].batch
           /\ stream'[k].before = stream[k].before
BY DEF Publish, DastTypeOK, Stream

\* Only Notify makes a scan of a batch done, and only while the batch goes on.
LEMMA DoneStep ==
    ASSUME DastInv, "redis" \notin Faults, NEW b \in Batches, [DastNext]_dastVars,
           \A s \in Scans : ~Notify(s)
    PROVE  DoneOf(b)' \subseteq DoneOf(b)
<1> SUFFICES ASSUME NEW s \in Scans, scan'[s].phase = "done" PROVE scan[s].phase = "done"
  BY DEF DoneOf, ScansOf
<1>1. scan \in [Scans -> Scan]
  BY DEF DastInv, DastTypeOK
<1>2. ASSUME NEW r \in Scans,
             StartScan(r) \/ ScanStep(r) \/ NotifyFails(r) \/ Raise(r)
      PROVE  scan[s].phase = "done"
  <2>1. CASE Try(r, TRUE) \/ Try(r, FALSE)
    <3>1. scan'[s] = scan[s] \/ scan'[s].phase \in {"running", "decided"}
      BY <1>1, <2>1 DEF Try, Scan
    <3> QED BY <3>1
  <2>2. CASE StartScan(r) \/ Begin(r) \/ Store(r) \/ PublishError(r) \/ NotifyFails(r)
    BY <1>1, <2>2 DEF StartScan, Begin, Store, PublishError, NotifyFails, Scan
  <2>3. CASE Raise(r)
    <3>1. scan'[s] = scan[s] \/ scan'[s].phase \in {"raised", "failed"}
      BY <1>1, <2>3 DEF Raise, Scan
    <3> QED BY <3>1
  <2> QED BY <1>2, <2>1, <2>2, <2>3 DEF ScanStep
<1>3. ASSUME NEW c \in Batches, StartBatch(c) PROVE scan[s].phase = "done"
  <2>1. scan'[s] = IF s \in ScansOf(c) THEN [scan[s] EXCEPT !.phase = "queued"] ELSE scan[s]
    BY <1>3 DEF StartBatch
  <2> QED BY <1>1, <2>1 DEF Scan
<1>4. ASSUME NEW c \in Batches, BatchStep(c) \/ CompletionFails(c) PROVE scan[s].phase = "done"
  BY <1>4 DEF BatchStep, StoreCompletion, PublishCompletion, CompletionFails
<1>5. ASSUME NEW k \in Streams, NEW isBatch \in BOOLEAN,
             Subscribe(k, isBatch) \/ StreamStep(k) \/ Breaks(k)
      PROVE  scan[s].phase = "done"
  BY <1>5 DEF Subscribe, StreamStep, LookAtResult, Receive, Breaks
<1>6. CASE Expire \/ UNCHANGED dastVars
  BY <1>6 DEF Expire, dastVars
<1> QED BY <1>2, <1>3, <1>4, <1>5, <1>6 DEF DastNext

\* A result is published.
LEMMA SoundNotify ==
    ASSUME DastInv, "redis" \notin Faults, NEW k \in Streams, Sound(k),
           NEW s \in Scans, Notify(s)
    PROVE  Sound(k)'
<1>0. DastTypeOK /\ Publish(ResultOf(s)) /\ ResultOf(s) \in Messages
  BY MessageTypes DEF DastInv, Notify
<1>1. /\ stream'[k].phase = stream[k].phase
      /\ stream'[k].batch = stream[k].batch
      /\ stream'[k].before = stream[k].before
  BY <1>0, PublishKeeps
<1>2. ASSUME NEW b \in Batches, Follows(k, b) PROVE Listens(k, b)'
  <2>1. DoneOf(b)' \subseteq DoneOf(b) \cup {s}
    BY <1>0 DEF Notify, DoneOf, ScansOf, DastTypeOK
  <2>2. s \in DoneOf(b)' => ~AtHand(k, CompletionOf(b))
    <3>1. s \in DoneOf(b)' => s \in ScansOf(b) /\ ~Ended(s)
      BY DEF DoneOf, ScansOf, Notify, Ended
    <3> QED BY <3>1 DEF DastInv, OverIsGathered, ToldIsOver, ToldOf
  <2> QED BY <1>0, <1>2, <2>1, <2>2, ListensToResult DEF Sound
<1> QED BY <1>1, <1>2 DEF Sound, Follows

\* A message that is no new result is published, or nothing is.
LEMMA SoundOther ==
    ASSUME DastInv, "redis" \notin Faults, NEW k \in Streams, Sound(k),
           [DastNext]_dastVars, \A s \in Scans : ~Notify(s),
           stream'[k] = stream[k] \/ \E m \in Messages : Publish(m)
    PROVE  Sound(k)'
<1>0. DastTypeOK /\ \A b \in Batches : DoneOf(b)' \subseteq DoneOf(b)
  BY DoneStep DEF DastInv
<1>1. CASE stream'[k] = stream[k]
  <2>1. \A b \in Batches : Follows(k, b) => Listens(k, b)'
    BY <1>0, <1>1, ListensKept DEF Sound
  <2> QED BY <1>1, <2>1 DEF Sound, Follows
<1>2. CASE \E m \in Messages : Publish(m)
  <2>1. PICK m \in Messages : Publish(m)
    BY <1>2
  <2>2. /\ stream'[k].phase = stream[k].phase
        /\ stream'[k].batch = stream[k].batch
        /\ stream'[k].before = stream[k].before
    BY <1>0, <2>1, PublishKeeps
  <2>3. \A b \in Batches : Follows(k, b) => Listens(k, b)'
    BY <1>0, <2>1, ListensToOther DEF Sound
  <2> QED BY <2>2, <2>3 DEF Sound, Follows
<1> QED BY <1>1, <1>2

\* The stream looks at the result: it ends, or listens to what has not begun.
LEMMA SoundLook ==
    ASSUME DastInv, NEW k \in Streams, Sound(k), LookAtResult(k)
    PROVE  Sound(k)'
<1> DEFINE old  == stream[k]
           ends == TerminalCache(result, old.batch)
<1>1. old \in Stream /\ stream[k].phase = "subscribed" /\ old.before = Batches
  BY DEF DastInv, DastTypeOK, LookAtResult, Sound
<1>2. /\ stream'[k].phase = IF ends THEN "closed" ELSE "open"
      /\ stream'[k].before = IF ends THEN old.before ELSE {b \in Batches : batch[b] # "none"}
      /\ stream'[k].batch = old.batch
      /\ stream'[k].inbox = old.inbox
      /\ ~ends => stream'[k].seen = old.seen
  <2> HIDE DEF ends
  <2> QED BY <1>1 DEF LookAtResult, DastInv, DastTypeOK, Stream, ends
<1>3. CASE ends
  BY <1>1, <1>2, <1>3 DEF Sound, Follows
<1>4. ASSUME ~ends, NEW b \in Batches, Follows(k, b)' PROVE Listens(k, b)'
  <2>1. batch[b] = "none"
    BY <1>2, <1>4 DEF Follows
  <2>2. DoneOf(b)' = {}
    BY <2>1 DEF DastInv, BatchWaits, LookAtResult, DoneOf, ScansOf
  <2>3. ~AtHand(k, CompletionOf(b))
    BY <2>1 DEF DastInv, ToldIsOver, ToldOf
  <2>4. CompletionOf(b)' = CompletionOf(b)
    BY DEF CompletionOf
  <2> QED BY <1>2, <1>4, <2>2, <2>3, <2>4
          DEF Listens, ResultsArrive, ResultsComeFirst, AtHand
<1> QED BY <1>2, <1>3, <1>4 DEF Sound

\* The other steps of the stream itself.
LEMMA SoundOwn ==
    ASSUME DastInv, "redis" \notin Faults, NEW k \in Streams, Sound(k),
           NEW isBatch \in BOOLEAN, Subscribe(k, isBatch) \/ StreamStep(k) \/ Breaks(k)
    PROVE  Sound(k)'
<1>0. DastTypeOK /\ stream[k] \in Stream
  BY DEF DastInv, DastTypeOK
<1>1. CASE Subscribe(k, isBatch)
  <2>1. stream'[k].before = stream[k].before /\ stream[k].before = Batches
    BY <1>0, <1>1 DEF Subscribe, DastTypeOK, Stream, Sound
  <2> QED BY <2>1 DEF Sound, Follows
<1>2. CASE Receive(k)
  <2>1. /\ stream'[k].before = stream[k].before
        /\ stream'[k].batch = stream[k].batch
        /\ stream'[k].phase \in {"closed", "open"}
    BY <1>0, <1>2 DEF Receive, DastTypeOK, Stream
  <2>2. \A b \in Batches : Follows(k, b)' => Follows(k, b)
    BY <2>1 DEF Follows
  <2>3. \A b \in Batches : Follows(k, b)' => Listens(k, b)'
    BY <1>0, <1>2, <2>2, ListensOn DEF Sound
  <2> QED BY <2>1, <2>3 DEF Sound
<1> QED BY <1>1, <1>2, SoundLook DEF StreamStep, Breaks

LEMMA StreamNext ==
    ASSUME DastInv, "redis" \notin Faults, StreamInv, [DastNext]_dastVars
    PROVE  StreamInv'
<1> SUFFICES ASSUME NEW k \in Streams PROVE Sound(k)'
  BY DEF StreamInv
<1>0. Sound(k)
  BY DEF StreamInv
<1>1. ASSUME NEW s \in Scans, Notify(s) PROVE Sound(k)'
  BY <1>0, <1>1, SoundNotify
<1>2. ASSUME NEW j \in Streams, NEW isBatch \in BOOLEAN,
             Subscribe(j, isBatch) \/ StreamStep(j) \/ Breaks(j),
             \A s \in Scans : ~Notify(s)
      PROVE  Sound(k)'
  <2>1. CASE j = k
    BY <1>0, <1>2, <2>1, SoundOwn
  <2>2. CASE j # k
    <3>1. stream'[k] = stream[k]
      BY <1>2, <2>2 DEF Subscribe, StreamStep, LookAtResult, Receive, Breaks,
                        DastInv, DastTypeOK
    <3> QED BY <1>0, <1>2, <3>1, SoundOther
  <2> QED BY <2>1, <2>2
<1>3. ASSUME stream'[k] = stream[k] \/ \E m \in Messages : Publish(m),
             \A s \in Scans : ~Notify(s)
      PROVE  Sound(k)'
  BY <1>0, <1>3, SoundOther
<1> SUFFICES ASSUME \A s \in Scans : ~Notify(s) PROVE Sound(k)'
  BY <1>1
<1>4. ASSUME NEW s \in Scans, StartScan(s) \/ ScanStep(s) \/ NotifyFails(s) \/ Raise(s)
      PROVE  Sound(k)'
  <2>1. UNCHANGED stream \/ \E m \in Messages : Publish(m)
    BY <1>4, MessageTypes
       DEF StartScan, ScanStep, NotifyFails, Raise, Begin, Try, Store, PublishError
  <2> QED BY <1>3, <2>1
<1>5. ASSUME NEW b \in Batches, StartBatch(b) \/ BatchStep(b) \/ CompletionFails(b)
      PROVE  Sound(k)'
  <2>1. UNCHANGED stream \/ \E m \in Messages : Publish(m)
    BY <1>5, MessageTypes
       DEF StartBatch, BatchStep, StoreCompletion, PublishCompletion, CompletionFails
  <2> QED BY <1>3, <2>1
<1>6. CASE Expire \/ UNCHANGED dastVars
  BY <1>3, <1>6 DEF Expire, dastVars
<1> QED BY <1>2, <1>4, <1>5, <1>6 DEF DastNext

\* A batch stream that listened before the batch began, and is told of its
\* completion, has been told of every result before, in every order of the
\* scans, as long as Redis does not fail.
THEOREM ResultsComeBeforeCompletion == DastSpec => []ResultsPrecedeCompletion
<1>1. CASE "redis" \in Faults
  <2>1. ResultsPrecedeCompletion
    BY <1>1 DEF ResultsPrecedeCompletion
  <2> QED BY <2>1, PTL
<1>2. CASE "redis" \notin Faults
  <2>1. DastInit => StreamInv
    BY DEF DastInit, StreamInv, Sound, Follows
  <2>2. DastInv /\ StreamInv /\ [DastNext]_dastVars => StreamInv'
    BY <1>2, StreamNext
  <2>3. StreamInv => ResultsPrecedeCompletion
    <3> SUFFICES ASSUME StreamInv, NEW k \in Streams, NEW b \in Batches,
                        Follows(k, b), CompletionOf(b) \in stream[k].seen,
                        NEW s \in ScansOf(b), scan[s].phase = "done"
                 PROVE  ResultOf(s) \in stream[k].seen
      BY DEF ResultsPrecedeCompletion, Follows
    <3>1. Listens(k, b) /\ s \in DoneOf(b)
      BY DEF StreamInv, Sound, DoneOf
    <3> QED BY <3>1 DEF Listens, ResultsSeen
  <2> QED BY <2>1, <2>2, <2>3, DastInvariant, PTL DEF DastSpec
<1> QED BY <1>1, <1>2
----------------------------------------------------------------------------
(* No completion passes a batch stream by.                                 *)

OnlyBatches == Singles = {} /\ Faults \subseteq {"raise"}

\* When no begun batch has results left to store, the key holds a completion:
\* what was stored last was stored at the end of a batch.
KeyTells ==
    Begun # {} /\ (\A b \in Batches : batch[b] # "running") =>
        \E b \in Batches : result = CompletionOf(b)

NoneForgotten ==
    \A k \in Streams : Subscribed(k) /\ stream[k].batch /\ Begun # {} /\ Going = {} =>
        CompletionAwaits(k)

\* A scan that stores its result belongs to a batch that goes on.
LEMMA StoringInBatch ==
    ASSUME DastInv, OnlyBatches, NEW s \in Scans, scan[s].phase \notin {"none", "done", "failed"}
    PROVE  \E b \in Batches : batch[b] = "running"
<1> DEFINE b == BatchOf[s]
<1>1. b \in Batches /\ s \in ScansOf(b)
  BY DastAssumption DEF OnlyBatches, Singles, ScansOf
<1>2. batch[b] # "none" /\ batch[b] \notin {"stored", "done"}
  BY <1>1 DEF DastInv, BatchWaits, OverIsGathered, Ended
<1>3. batch[b] = "running"
  BY <1>1, <1>2 DEF DastInv, DastTypeOK, BatchPhases
<1> QED BY <1>1, <1>3

\* Scans leave the batches and, but for Store, the key alone.
LEMMA ScanLeaves ==
    ASSUME NEW s \in Scans, StartScan(s) \/ ScanStep(s) \/ NotifyFails(s) \/ Raise(s)
    PROVE  UNCHANGED batch /\ (Store(s) \/ UNCHANGED result)
BY DEF StartScan, ScanStep, NotifyFails, Raise, Begin, Try, Store, Notify, PublishError

LEMMA KeyTellsNext ==
    ASSUME DastInv, OnlyBatches, KeyTells, [DastNext]_dastVars
    PROVE  KeyTells'
<1>0. /\ batch \in [Batches -> BatchPhases]
      /\ \A b \in Batches : CompletionOf(b)' = CompletionOf(b)
  BY DEF DastInv, DastTypeOK, CompletionOf
<1>1. ASSUME UNCHANGED <<batch, result>> PROVE KeyTells'
  BY <1>0, <1>1 DEF KeyTells, Begun
<1>2. ASSUME NEW s \in Scans, StartScan(s) \/ ScanStep(s) \/ NotifyFails(s) \/ Raise(s)
      PROVE  KeyTells'
  <2>1. CASE Store(s)
    <3>1. \E b \in Batches : batch[b] = "running"
      BY <2>1, StoringInBatch DEF Store
    <3> QED BY <2>1, <3>1 DEF Store, KeyTells
  <2> QED BY <1>1, <1>2, <2>1, ScanLeaves
<1>3. ASSUME NEW b \in Batches, StartBatch(b) PROVE KeyTells'
  BY <1>0, <1>3 DEF StartBatch, KeyTells
<1>4. ASSUME NEW b \in Batches, StoreCompletion(b) PROVE KeyTells'
  BY <1>0, <1>4 DEF StoreCompletion, KeyTells
<1>5. ASSUME NEW b \in Batches, PublishCompletion(b) PROVE KeyTells'
  <2>1. /\ batch[b] = "stored" /\ batch' = [batch EXCEPT ![b] = "done"] /\ result' = result
    BY <1>5 DEF PublishCompletion
  <2>2. (\A c \in Batches : batch'[c] # "running") => \A c \in Batches : batch[c] # "running"
    BY <1>0, <2>1
  <2> QED BY <1>0, <2>1, <2>2 DEF KeyTells, Begun
<1>6. ASSUME NEW k \in Streams, NEW isBatch \in BOOLEAN,
             Subscribe(k, isBatch) \/ StreamStep(k) \/ Breaks(k)
      PROVE  KeyTells'
  BY <1>1, <1>6 DEF Subscribe, StreamStep, LookAtResult, Receive, Breaks
<1>7. CASE UNCHANGED dastVars
  BY <1>1, <1>7 DEF dastVars
<1>8. ~Expire /\ \A b \in Batches : ~CompletionFails(b)
  BY DEF OnlyBatches, Expire, CompletionFails
<1> QED BY <1>2, <1>3, <1>4, <1>5, <1>6, <1>7, <1>8 DEF DastNext, BatchStep

\* Publishing keeps what waits in an inbox, and adds to it.
LEMMA PublishAdds ==
    ASSUME DastTypeOK, NEW m \in Messages, Publish(m), NEW k \in Streams, Subscribed(k)
    PROVE  /\ stream'[k].phase = stream[k].phase /\ stream'[k].batch = stream[k].batch
           /\ Len(stream[k].inbox) \in Nat
           /\ Len(stream'[k].inbox) = Len(stream[k].inbox) + 1
           /\ stream'[k].inbox[Len(stream[k].inbox) + 1] = m
           /\ \A i \in 1 .. Len(stream[k].inbox) : stream'[k].inbox[i] = stream[k].inbox[i]
<1>1. stream[k] \in Stream /\ stream[k].inbox \in Seq(Messages)
  BY DEF DastTypeOK, Stream
<1>2. stream'[k] = [stream[k] EXCEPT !.inbox = Append(@, m)]
  BY DEF Publish
<1>3. /\ stream'[k].inbox = Append(stream[k].inbox, m)
      /\ stream'[k].phase = stream[k].phase /\ stream'[k].batch = stream[k].batch
  BY <1>1, <1>2 DEF Stream
<1> QED BY <1>1, <1>3

\* What a stream waits for stays, whatever else is published ...
LEMMA AwaitsStill ==
    ASSUME DastTypeOK, NEW k \in Streams, CompletionAwaits(k), Subscribed(k),
           stream'[k] = stream[k] \/ \E m \in Messages : Publish(m),
           UNCHANGED result
    PROVE  CompletionAwaits(k)'
<1>0. \A b \in Batches : CompletionOf(b)' = CompletionOf(b)
  BY DEF CompletionOf
<1>1. PICK b \in Batches :
          \/ \E i \in 1 .. Len(stream[k].inbox) : stream[k].inbox[i] = CompletionOf(b)
          \/ stream[k].phase = "subscribed" /\ result = CompletionOf(b)
  BY DEF CompletionAwaits
<1>2. CASE stream'[k] = stream[k]
  BY <1>0, <1>1, <1>2 DEF CompletionAwaits
<1>3. ASSUME NEW m \in Messages, Publish(m) PROVE CompletionAwaits(k)'
  <2>1. /\ stream'[k].phase = stream[k].phase
        /\ Len(stream[k].inbox) \in Nat
        /\ Len(stream'[k].inbox) = Len(stream[k].inbox) + 1
        /\ \A i \in 1 .. Len(stream[k].inbox) : stream'[k].inbox[i] = stream[k].inbox[i]
    BY <1>3, PublishAdds
  <2>2. \A i \in 1 .. Len(stream[k].inbox) : i \in 1 .. Len(stream'[k].inbox)
    BY <2>1
  <2> QED BY <1>0, <1>1, <2>1, <2>2 DEF CompletionAwaits
<1> QED BY <1>2, <1>3

\* ... and its own steps do not lose it: a stream that reads or sees it ends.
LEMMA AwaitsOwn ==
    ASSUME DastTypeOK, NEW k \in Streams, CompletionAwaits(k), StreamStep(k),
           stream[k].batch, Subscribed(k)'
    PROVE  CompletionAwaits(k)'
<1> DEFINE q == stream[k].inbox
<1>0. stream[k] \in Stream /\ q \in Seq(Messages)
      /\ \A b \in Batches : CompletionOf(b)' = CompletionOf(b)
  BY DEF DastTypeOK, Stream, CompletionOf
<1>1. PICK b \in Batches :
          \/ \E i \in 1 .. Len(q) : q[i] = CompletionOf(b)
          \/ stream[k].phase = "subscribed" /\ result = CompletionOf(b)
  BY DEF CompletionAwaits
<1>2. CASE LookAtResult(k)
  <2> DEFINE ends == TerminalCache(result, stream[k].batch)
  <2>1. /\ stream'[k].phase = IF ends THEN "closed" ELSE "open"
        /\ stream'[k].inbox = q
    <3> HIDE DEF ends
    <3> QED BY <1>0, <1>2 DEF LookAtResult, DastTypeOK, Stream, ends
  <2>2. ~ends
    BY <2>1 DEF Subscribed
  <2>3. result # CompletionOf(b)
    BY <2>2 DEF TerminalCache, CompletionOf
  <2> QED BY <1>0, <1>1, <2>1, <2>3 DEF CompletionAwaits
<1>3. CASE Receive(k)
  <2> DEFINE m == Head(q)
             t == Tail(q)
  <2>1. /\ q # <<>> /\ stream[k].phase = "open"
        /\ stream'[k].inbox = t
        /\ stream'[k].phase = IF Terminal(m, stream[k].batch) THEN "closed" ELSE "open"
    BY <1>0, <1>3 DEF Receive, DastTypeOK, Stream
  <2>2. /\ m = q[1] /\ Len(q) \in Nat /\ Len(t) = Len(q) - 1
        /\ \A i \in 1 .. Len(t) : t[i] = q[i + 1]
    BY <1>0, <2>1
  <2>3. ~Terminal(m, stream[k].batch)
    BY <2>1 DEF Subscribed
  <2>4. m # CompletionOf(b)
    BY <2>3 DEF Terminal, CompletionOf
  <2> HIDE DEF m, t
  <2>5. PICK i \in 1 .. Len(q) : q[i] = CompletionOf(b)
    BY <1>1, <2>1
  <2>6. i - 1 \in 1 .. Len(t) /\ t[i - 1] = CompletionOf(b)
    BY <2>2, <2>4, <2>5
  <2> QED BY <1>0, <2>1, <2>6 DEF CompletionAwaits
<1> QED BY <1>2, <1>3 DEF StreamStep

LEMMA NoneForgottenNext ==
    ASSUME DastInv, OnlyBatches, KeyTells, NoneForgotten, [DastNext]_dastVars
    PROVE  NoneForgotten'
<1> SUFFICES ASSUME NEW k \in Streams, Subscribed(k)', stream'[k].batch,
                    Begun' # {}, Going' = {}
             PROVE  CompletionAwaits(k)'
  BY DEF NoneForgotten
<1>0. /\ DastTypeOK /\ stream[k] \in Stream
      /\ batch \in [Batches -> BatchPhases]
      /\ \A b \in Batches : CompletionOf(b)' = CompletionOf(b)
  BY DEF DastInv, DastTypeOK, CompletionOf
\* Steps that leave the batches alone, and the key.
<1>1. ASSUME UNCHANGED <<batch, result>>, Subscribed(k), stream[k].batch,
             stream'[k] = stream[k] \/ \E m \in Messages : Publish(m)
      PROVE  CompletionAwaits(k)'
  BY <1>0, <1>1, AwaitsStill DEF NoneForgotten, Begun, Going
<1>2. ASSUME stream'[k] = stream[k] \/ \E m \in Messages : Publish(m)
      PROVE  Subscribed(k) /\ stream[k].batch
  BY <1>0, <1>2, PublishKeeps DEF Subscribed
<1>3. ASSUME NEW s \in Scans, StartScan(s) \/ ScanStep(s) \/ NotifyFails(s) \/ Raise(s)
      PROVE  CompletionAwaits(k)'
  <2>1. CASE Store(s)
    <3>1. PICK b \in Batches : batch[b] = "running"
      BY <2>1, StoringInBatch DEF Store
    <3> QED BY <2>1, <3>1 DEF Store, Going
  <2>2. UNCHANGED stream \/ \E m \in Messages : Publish(m)
    BY <1>3, MessageTypes
       DEF StartScan, ScanStep, NotifyFails, Raise, Begin, Try, Store, Notify, PublishError
  <2> QED BY <1>1, <1>2, <1>3, <2>1, <2>2, ScanLeaves
<1>4. ASSUME NEW b \in Batches, StartBatch(b) \/ StoreCompletion(b) PROVE CompletionAwaits(k)'
  <2>1. batch'[b] \in {"running", "stored"}
    BY <1>0, <1>4 DEF StartBatch, StoreCompletion
  <2> QED BY <2>1 DEF Going
<1>5. ASSUME NEW b \in Batches, PublishCompletion(b) PROVE CompletionAwaits(k)'
  <2>1. Publish(CompletionOf(b)) /\ CompletionOf(b) \in Messages
    BY <1>5, MessageTypes DEF PublishCompletion
  <2>2. Subscribed(k)
    BY <1>2, <2>1
  <2>3. /\ Len(stream[k].inbox) \in Nat
        /\ Len(stream'[k].inbox) = Len(stream[k].inbox) + 1
        /\ stream'[k].inbox[Len(stream[k].inbox) + 1] = CompletionOf(b)
    BY <1>0, <2>1, <2>2, PublishAdds
  <2>4. Len(stream[k].inbox) + 1 \in 1 .. Len(stream'[k].inbox)
    BY <2>3
  <2> QED BY <1>0, <2>3, <2>4 DEF CompletionAwaits
<1>6. ASSUME NEW j \in Streams, NEW isBatch \in BOOLEAN,
             Subscribe(j, isBatch) \/ StreamStep(j) \/ Breaks(j)
      PROVE  CompletionAwaits(k)'
  <2>0. UNCHANGED <<batch, result>>
    BY <1>6 DEF Subscribe, StreamStep, LookAtResult, Receive, Breaks
  <2>1. CASE j # k
    <3>1. stream'[k] = stream[k]
      BY <1>0, <1>6, <2>1 DEF Subscribe, StreamStep, LookAtResult, Receive, Breaks, DastTypeOK
    <3> QED BY <1>1, <1>2, <2>0, <3>1
  <2>2. CASE j = k /\ Subscribe(j, isBatch)
    <3>1. stream'[k].phase = "subscribed"
      BY <1>0, <2>2 DEF Subscribe, DastTypeOK, Stream
    <3>2. \A c \in Batches : batch[c] # "running"
      BY <2>0 DEF Going
    <3>3. \E c \in Batches : result = CompletionOf(c)
      BY <2>0, <3>2 DEF KeyTells, Begun
    <3> QED BY <1>0, <2>0, <3>1, <3>3 DEF CompletionAwaits
  <2>3. CASE j = k /\ StreamStep(j)
    <3>1. Subscribed(k) /\ stream'[k].batch = stream[k].batch
      <4>1. CASE LookAtResult(k)
        BY <1>0, <4>1 DEF LookAtResult, Subscribed, DastTypeOK, Stream
      <4>2. CASE Receive(k)
        BY <1>0, <4>2 DEF Receive, Subscribed, DastTypeOK, Stream
      <4> QED BY <2>3, <4>1, <4>2 DEF StreamStep
    <3>2. CompletionAwaits(k)
      BY <2>0, <3>1 DEF NoneForgotten, Begun, Going
    <3> QED BY <1>0, <2>3, <3>1, <3>2, AwaitsOwn
  <2>4. ~Breaks(j)
    BY DEF OnlyBatches, Breaks
  <2> QED BY <1>6, <2>1, <2>2, <2>3, <2>4
<1>7. CASE UNCHANGED dastVars
  BY <1>1, <1>2, <1>7 DEF dastVars
<1>8. ~Expire /\ \A b \in Batches : ~CompletionFails(b)
  BY DEF OnlyBatches, Expire, CompletionFails
<1> QED BY <1>3, <1>4, <1>5, <1>6, <1>7, <1>8 DEF DastNext, BatchStep

\* _sse_generator and _publish_batch_complete: subscribing before looking, and
\* storing before publishing, leave no gap for a completion to pass through.
\* A batch stream that still waits when all begun batches are over has one
\* before it.
THEOREM NoCompletionIsMissed == DastSpec => []NobodyIsForgotten
<1>1. CASE ~OnlyBatches
  <2>1. NobodyIsForgotten
    BY <1>1 DEF NobodyIsForgotten, OnlyBatches
  <2> QED BY <2>1, PTL
<1>2. CASE OnlyBatches
  <2>1. DastInit => KeyTells /\ NoneForgotten
    BY DEF DastInit, KeyTells, NoneForgotten, Begun
  <2>2. DastInv /\ KeyTells /\ NoneForgotten /\ [DastNext]_dastVars
            => KeyTells' /\ NoneForgotten'
    BY <1>2, KeyTellsNext, NoneForgottenNext
  <2>3. NoneForgotten => NobodyIsForgotten
    BY DEF NoneForgotten, NobodyIsForgotten
  <2> QED BY <2>1, <2>2, <2>3, DastInvariant, PTL DEF DastSpec
<1> QED BY <1>1, <1>2
=============================================================================
