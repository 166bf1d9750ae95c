-------------------------- MODULE EventRelayProofs --------------------------
(***************************************************************************)
(* EventRelay implements EventFeed, for any sessions, connections and      *)
(* threads.  The invariant: only the stream the page reads holds unread    *)
(* events; they are of the session it follows, in the order of their sends *)
(* and after what it has seen.                                             *)
(***************************************************************************)
EXTENDS EventRelay, TLAPS

\* The map holds connections that the server keeps open for their session.
EmittersLive == \A s \in Sessions : emitter[s] # NoConn =>
    emitter[s] \in Conns /\ srv[emitter[s]] = "live" /\ sid[emitter[s]] = s

ConnsKnown == \A c \in Conns : srv[c] # "none" => sid[c] \in Sessions

\* An emitter that a thread holds was made for the session of its event.
HeldForSession == \A t \in Threads : \A c \in Conns :
    thr[t].conn = c /\ srv[c] # "none" => sid[c] = thr[t].sid

\* Only an end is handled further once it is sent.
HandledEnds == \A t \in Threads :
    thr[t].at \in {"sent", "completed"} => thr[t].type \in EndTypes

\* What the page reads belongs to the session it follows; a page that has not
\* begun, or that waits for its timer, reads nothing.
ReaderFollows ==
    /\ reader # NoConn => srv[reader] # "none" /\ sid[reader] = sse
    /\ hstat = "idle" => reader = NoConn /\ ~timer
    /\ timer => reader = NoConn /\ sse \in Sessions

\* Nobody else has unread events, nor a stream that was not answered yet.
OneQueue == \A c \in Conns :
    c # reader \/ srv[c] \in {"asked", "checked"} => queue[c] = <<>>

Due(s, e) == /\ e.n = 0 => recorded[s]
             /\ e.n # 0 => e.n > seen[s]
             /\ e.n <= relayed[s]
InOrder(s, q) ==
    /\ \A i \in 1 .. Len(q) : Due(s, q[i])
    /\ \A i, j \in 1 .. Len(q) : i < j => q[i].n < q[j].n
QueuesInOrder == \A c \in Conns : c = reader => InOrder(sid[c], queue[c])

\* The backend's side: what was seen was relayed, and an end that the row says
\* was recorded.
SeenRelayed == \A s \in Sessions :
    /\ seen[s] <= relayed[s]
    /\ row[s] # "open" => recorded[s]

RelayInv == /\ RelayTypeOK /\ EmittersLive /\ ConnsKnown /\ HeldForSession
            /\ HandledEnds /\ ReaderFollows /\ OneQueue /\ QueuesInOrder /\ SeenRelayed
-----------------------------------------------------------------------------
LEMMA EventType ==
  ASSUME NEW e \in Event
  PROVE  e.n \in Nat /\ e.type \in Types
  BY DEF Event

\* A thread that has begun holds an event of a session.
LEMMA ThreadType ==
  ASSUME RelayTypeOK, NEW t \in Threads
  PROVE  /\ thr[t] # Free => /\ thr[t] \in Handling /\ thr[t].sid \in Sessions
                             /\ thr[t].type \in Types
                             /\ thr[t].conn \in Conns \cup {NoConn}
         /\ thr[t].at # "free" => thr[t] # Free
         /\ Free.conn = NoConn
  BY DEF RelayTypeOK, Handling, Free

\* The order of a queue survives an event that is written to its end ...
LEMMA AppendInOrder ==
  ASSUME NEW q \in Seq(Event), NEW e \in Event,
         \A i, j \in 1 .. Len(q) : i < j => q[i].n < q[j].n,
         \A i \in 1 .. Len(q) : q[i].n < e.n
  PROVE  /\ Append(q, e) \in Seq(Event)
         /\ \A i, j \in 1 .. Len(Append(q, e)) : i < j => Append(q, e)[i].n < Append(q, e)[j].n
         /\ \A i \in 1 .. Len(Append(q, e)) :
              Append(q, e)[i] = e \/ (i \in 1 .. Len(q) /\ Append(q, e)[i] = q[i])
  OBVIOUS

\* ... and one that is read from its front: the others come after it.
LEMMA TailInOrder ==
  ASSUME NEW q \in Seq(Event), q # <<>>,
         \A i, j \in 1 .. Len(q) : i < j => q[i].n < q[j].n
  PROVE  /\ Tail(q) \in Seq(Event) /\ Head(q) \in Event /\ Head(q) = q[1] /\ Len(q) >= 1
         /\ Len(Tail(q)) = Len(q) - 1
         /\ \A i \in 1 .. Len(Tail(q)) : i + 1 \in 1 .. Len(q) /\ Tail(q)[i] = q[i + 1]
         /\ \A i \in 1 .. Len(Tail(q)) : Head(q).n < Tail(q)[i].n
         /\ \A i, j \in 1 .. Len(Tail(q)) : i < j => Tail(q)[i].n < Tail(q)[j].n
<1>1. /\ Tail(q) \in Seq(Event) /\ Head(q) \in Event /\ Head(q) = q[1] /\ Len(q) >= 1
      /\ Len(Tail(q)) = Len(q) - 1
  OBVIOUS
<1>2. \A i \in 1 .. Len(Tail(q)) : Tail(q)[i] = q[i + 1]
  BY <1>1
<1>3. \A i \in 1 .. Len(Tail(q)) : 1 \in 1 .. Len(q) /\ i + 1 \in 1 .. Len(q) /\ 1 < i + 1
  BY <1>1
<1>4. \A i, j \in 1 .. Len(Tail(q)) : i < j => i + 1 < j + 1
  BY <1>1
<1> QED BY <1>1, <1>2, <1>3, <1>4

\* EventRelay: the invariant holds at the start.
LEMMA RelayInit == Init => RelayInv
<1> SUFFICES ASSUME Init PROVE RelayInv
  OBVIOUS
<1>1. RelayTypeOK
  <2>1. queue \in [Conns -> Seq(Event)] /\ thr \in [Threads -> Handling \cup {Free}]
    BY DEF Init
  <2>2. relayed \in [Sessions -> Nat] /\ seen \in [Sessions -> Nat]
    BY DEF Init
  <2> QED BY <2>1, <2>2 DEF Init, RelayTypeOK, SseStatus
<1>2. EmittersLive /\ ConnsKnown /\ ReaderFollows /\ SeenRelayed
  BY DEF Init, EmittersLive, ConnsKnown, ReaderFollows, SeenRelayed
<1>3. OneQueue /\ QueuesInOrder /\ HeldForSession /\ HandledEnds
  BY RelayAssumption DEF Init, OneQueue, QueuesInOrder, HeldForSession, HandledEnds, Free
<1> QED BY <1>1, <1>2, <1>3 DEF RelayInv
-----------------------------------------------------------------------------
(* The listener *)

\* What leaves the connections, the page and the counters alone.
Aside == UNCHANGED <<relayed, conn, hook, page>>

\* A thread that takes up an event holds the emitter of its session; one that
\* goes on or ends holds none, or the same.
LEMMA ThreadKeeps ==
  ASSUME RelayInv, Aside,
         thr' \in [Threads -> Handling \cup {Free}],
         row' \in [Sessions -> EndTypes \cup {"open"}],
         recorded' \in [Sessions -> BOOLEAN],
         \A s \in Sessions : recorded[s] => recorded'[s],
         \A s \in Sessions : row'[s] # "open" => recorded'[s],
         \A t \in Threads : thr'[t].at \in {"sent", "completed"} => thr'[t].type \in EndTypes,
         \A t \in Threads : thr'[t].conn \in Conns /\ srv[thr'[t].conn] # "none" =>
            sid[thr'[t].conn] = thr'[t].sid
  PROVE  RelayInv'
<1>1. UNCHANGED <<relayed, emitter, srv, sid, queue, sse, hstat, reader, timer, seen, got, told>>
  BY DEF Aside, conn, hook, page
<1>2. RelayTypeOK'
  BY <1>1 DEF RelayInv, RelayTypeOK
<1>3. EmittersLive' /\ ConnsKnown' /\ ReaderFollows' /\ OneQueue'
  BY <1>1 DEF RelayInv, EmittersLive, ConnsKnown, ReaderFollows, OneQueue
<1>4. HeldForSession' /\ HandledEnds'
  BY <1>1 DEF HeldForSession, HandledEnds
<1>5. SeenRelayed'
  BY <1>1 DEF RelayInv, SeenRelayed
<1>6. QueuesInOrder'
  <2> SUFFICES ASSUME NEW c \in Conns, c = reader PROVE InOrder(sid[c], queue[c])'
    BY <1>1 DEF QueuesInOrder
  <2>1. InOrder(sid[c], queue[c])
    BY DEF RelayInv, QueuesInOrder
  <2>2. sid[c] \in Sessions
    BY RelayAssumption DEF RelayInv, ReaderFollows, ConnsKnown
  <2> QED BY <1>1, <2>1, <2>2 DEF InOrder, Due
<1> QED BY <1>2, <1>3, <1>4, <1>5, <1>6 DEF RelayInv

LEMMA TakeUpKeeps ==
  ASSUME RelayInv, NEW t \in Threads, NEW s \in Sessions, NEW type \in Types,
         TakeUp(t, s, type)
  PROVE  RelayInv'
<1> DEFINE h == [at |-> "found", sid |-> s, type |-> type, conn |-> emitter[s]]
<1>1. /\ Aside /\ thr' = [thr EXCEPT ![t] = h] /\ row' = row /\ recorded' = recorded
  BY DEF TakeUp, Aside
<1>2. h \in Handling
  BY DEF RelayInv, RelayTypeOK, Handling
<1>3. h.conn \in Conns => sid[h.conn] = h.sid
  BY RelayAssumption DEF RelayInv, EmittersLive
<1> HIDE DEF h
<1>4. thr' \in [Threads -> Handling \cup {Free}]
  BY <1>1, <1>2 DEF RelayInv, RelayTypeOK
<1>5. \A u \in Threads : thr'[u].conn \in Conns /\ srv[thr'[u].conn] # "none" =>
        sid[thr'[u].conn] = thr'[u].sid
  BY <1>1, <1>3 DEF RelayInv, RelayTypeOK, HeldForSession
<1>6. /\ row' \in [Sessions -> EndTypes \cup {"open"}]
      /\ recorded' \in [Sessions -> BOOLEAN]
      /\ \A u \in Sessions : recorded[u] => recorded'[u]
      /\ \A u \in Sessions : row'[u] # "open" => recorded'[u]
  BY <1>1 DEF RelayInv, RelayTypeOK, SeenRelayed
<1>7. \A u \in Threads : thr'[u].at \in {"sent", "completed"} => thr'[u].type \in EndTypes
  BY <1>1 DEF RelayInv, RelayTypeOK, HandledEnds, Free, h
<1> QED BY <1>1, <1>4, <1>5, <1>6, <1>7, ThreadKeeps

LEMMA RecordEndKeeps ==
  ASSUME RelayInv, NEW t \in Threads, RecordEnd(t)
  PROVE  RelayInv'
<1> DEFINE s == thr[t].sid
<1>1. /\ Aside /\ thr' = [thr EXCEPT ![t] = Free] /\ thr[t].at = "completed"
      /\ row' = [row EXCEPT ![s] = thr[t].type]
      /\ recorded' = [recorded EXCEPT ![s] = TRUE]
  BY DEF RecordEnd, Aside
<1>2. s \in Sessions
  BY <1>1, ThreadType DEF RelayInv
<1> HIDE DEF s
<1>3. row' \in [Sessions -> EndTypes \cup {"open"}]
  <2>1. thr[t].type \in EndTypes
    BY <1>1 DEF RelayInv, HandledEnds
  <2> QED BY <1>1, <2>1 DEF RelayInv, RelayTypeOK
<1>4. thr' \in [Threads -> Handling \cup {Free}]
  BY <1>1 DEF RelayInv, RelayTypeOK
<1>5. \A u \in Threads : thr'[u].conn \in Conns /\ srv[thr'[u].conn] # "none" =>
        sid[thr'[u].conn] = thr'[u].sid
  BY <1>1, RelayAssumption, ThreadType DEF RelayInv, RelayTypeOK, HeldForSession
<1>6. /\ recorded' \in [Sessions -> BOOLEAN]
      /\ \A u \in Sessions : recorded[u] => recorded'[u]
      /\ \A u \in Sessions : row'[u] # "open" => recorded'[u]
  BY <1>1, <1>2 DEF RelayInv, RelayTypeOK, SeenRelayed
<1>7. \A u \in Threads : thr'[u].at \in {"sent", "completed"} => thr'[u].type \in EndTypes
  BY <1>1 DEF RelayInv, RelayTypeOK, HandledEnds, Free
<1> QED BY <1>1, <1>3, <1>4, <1>5, <1>6, <1>7, ThreadKeeps

LEMMA HandlerFailsKeeps ==
  ASSUME RelayInv, NEW t \in Threads, HandlerFails(t)
  PROVE  RelayInv'
<1>1. /\ Aside /\ thr' = [thr EXCEPT ![t] = Free] /\ row' = row /\ recorded' = recorded
  BY DEF HandlerFails, Aside
<1>4. thr' \in [Threads -> Handling \cup {Free}]
  BY <1>1 DEF RelayInv, RelayTypeOK
<1>5. \A u \in Threads : thr'[u].conn \in Conns /\ srv[thr'[u].conn] # "none" =>
        sid[thr'[u].conn] = thr'[u].sid
  BY <1>1, RelayAssumption, ThreadType DEF RelayInv, RelayTypeOK, HeldForSession
<1>6. /\ row' \in [Sessions -> EndTypes \cup {"open"}]
      /\ recorded' \in [Sessions -> BOOLEAN]
      /\ \A u \in Sessions : recorded[u] => recorded'[u]
      /\ \A u \in Sessions : row'[u] # "open" => recorded'[u]
  BY <1>1 DEF RelayInv, RelayTypeOK, SeenRelayed
<1>7. \A u \in Threads : thr'[u].at \in {"sent", "completed"} => thr'[u].type \in EndTypes
  BY <1>1 DEF RelayInv, RelayTypeOK, HandledEnds, Free
<1> QED BY <1>1, <1>4, <1>5, <1>6, <1>7, ThreadKeeps

LEMMA RowReopensKeeps ==
  ASSUME RelayInv, NEW s \in Sessions, RowReopens(s)
  PROVE  RelayInv'
<1>1. /\ Aside /\ thr' = thr /\ recorded' = recorded /\ row' = [row EXCEPT ![s] = "open"]
  BY DEF RowReopens, Aside
<1>4. thr' \in [Threads -> Handling \cup {Free}]
  BY <1>1 DEF RelayInv, RelayTypeOK
<1>5. \A u \in Threads : thr'[u].conn \in Conns /\ srv[thr'[u].conn] # "none" =>
        sid[thr'[u].conn] = thr'[u].sid
  BY <1>1 DEF RelayInv, HeldForSession
<1>6. /\ row' \in [Sessions -> EndTypes \cup {"open"}]
      /\ recorded' \in [Sessions -> BOOLEAN]
      /\ \A u \in Sessions : recorded[u] => recorded'[u]
      /\ \A u \in Sessions : row'[u] # "open" => recorded'[u]
  BY <1>1 DEF RelayInv, RelayTypeOK, SeenRelayed
<1>7. \A u \in Threads : thr'[u].at \in {"sent", "completed"} => thr'[u].type \in EndTypes
  BY <1>1 DEF RelayInv, RelayTypeOK, HandledEnds, Free
<1> QED BY <1>1, <1>4, <1>5, <1>6, <1>7, ThreadKeeps

\* A thread sends its event to the emitter it holds, if anybody reads that.
LEMMA SendEventKeeps ==
  ASSUME RelayInv, NEW t \in Threads, SendEvent(t)
  PROVE  RelayInv'
<1> DEFINE s == thr[t].sid
           c == thr[t].conn
           n == relayed[s] + 1
           e == [n |-> n, type |-> thr[t].type]
<1>1. /\ thr[t].at = "found" /\ thr' = [thr EXCEPT ![t] = AfterSend(t)]
      /\ relayed' = [relayed EXCEPT ![s] = n]
      /\ UNCHANGED <<row, recorded, srv, sid, sse, hstat, reader, timer, seen, got, told>>
      /\ \/ /\ c # NoConn /\ c = reader /\ srv[c] = "live" /\ emitter' = emitter
            /\ queue' = [queue EXCEPT ![c] = Append(queue[c], e)]
         \/ /\ queue' = queue
            /\ emitter' = emitter \/ emitter' = [emitter EXCEPT ![s] = NoConn]
  BY DEF SendEvent, hook, page
<1>2. /\ thr[t] \in Handling /\ s \in Sessions /\ thr[t].type \in Types
      /\ c \in Conns \cup {NoConn}
  BY <1>1, ThreadType DEF RelayInv
<1>3. relayed[s] \in Nat /\ n \in Nat /\ n > relayed[s] /\ e \in Event /\ e.n = n /\ n # 0
  BY <1>2 DEF RelayInv, RelayTypeOK, Event
<1>4. c # NoConn /\ srv[c] = "live" => c \in Conns /\ sid[c] = s
  BY <1>2 DEF RelayInv, HeldForSession
<1> HIDE DEF s, c, n, e
<1>5. /\ AfterSend(t) \in Handling \cup {Free}
      /\ AfterSend(t).conn = NoConn
      /\ AfterSend(t).at \in {"sent", "completed"} => AfterSend(t).type \in EndTypes
  BY <1>2 DEF AfterSend, Handling, Free
<1>6. RelayTypeOK'
  <2>1. queue' \in [Conns -> Seq(Event)]
    <3>1. queue \in [Conns -> Seq(Event)]
      BY DEF RelayInv, RelayTypeOK
    <3>2. c \in Conns => Append(queue[c], e) \in Seq(Event)
      BY <1>3, <3>1
    <3> QED BY <1>1, <1>4, <3>1, <3>2
  <2>2. emitter' \in [Sessions -> Conns \cup {NoConn}]
    BY <1>1 DEF RelayInv, RelayTypeOK
  <2>3. relayed' \in [Sessions -> Nat] /\ thr' \in [Threads -> Handling \cup {Free}]
    BY <1>1, <1>3, <1>5 DEF RelayInv, RelayTypeOK
  <2> QED BY <1>1, <2>1, <2>2, <2>3 DEF RelayInv, RelayTypeOK
<1>7. EmittersLive' /\ ConnsKnown' /\ ReaderFollows'
  BY <1>1 DEF RelayInv, RelayTypeOK, EmittersLive, ConnsKnown, ReaderFollows
<1>8. HeldForSession' /\ HandledEnds'
  BY <1>1, <1>5, RelayAssumption DEF RelayInv, RelayTypeOK, HeldForSession, HandledEnds
<1>9. OneQueue' /\ SeenRelayed'
  <2>1. OneQueue'
    BY <1>1, <1>4 DEF RelayInv, RelayTypeOK, OneQueue
  <2>2. SeenRelayed'
    BY <1>1, <1>3 DEF RelayInv, RelayTypeOK, SeenRelayed
  <2> QED BY <2>1, <2>2
<1>10. QueuesInOrder'
  <2> SUFFICES ASSUME NEW d \in Conns, d = reader PROVE InOrder(sid[d], queue[d])'
    BY <1>1 DEF QueuesInOrder
  <2>0. PICK r, q : r = sid[d] /\ q = queue[d]
    OBVIOUS
  <2>1. r \in Sessions /\ InOrder(r, q) /\ q \in Seq(Event)
    BY <2>0, RelayAssumption
       DEF RelayInv, RelayTypeOK, ConnsKnown, ReaderFollows, QueuesInOrder
  <2>2. /\ relayed[r] \in Nat /\ relayed'[r] \in Nat /\ relayed[r] <= relayed'[r]
        /\ r = s => relayed'[r] = n /\ relayed[r] < n
        /\ seen[r] \in Nat /\ seen[r] <= relayed[r]
    <3>1. relayed \in [Sessions -> Nat] /\ seen \in [Sessions -> Nat]
          /\ seen[r] <= relayed[r]
      BY <2>1 DEF RelayInv, RelayTypeOK, SeenRelayed
    <3> QED BY <1>1, <1>3, <2>1, <3>1
  <2>3. \A i \in 1 .. Len(q) : q[i] \in Event
    BY <2>1
  <2>4. \A i \in 1 .. Len(q) : q[i].n \in Nat
    BY <2>3, EventType
  <2>5. sid'[d] = r /\ seen' = seen /\ recorded' = recorded
    BY <1>1, <2>0
  <2>6. \A i \in 1 .. Len(q) : /\ q[i].n = 0 => recorded'[r]
                               /\ q[i].n # 0 => q[i].n > seen'[r]
                               /\ q[i].n <= relayed'[r]
    BY <2>1, <2>2, <2>4, <2>5 DEF InOrder, Due
  <2>7. CASE queue'[d] = q
    BY <2>1, <2>5, <2>6, <2>7 DEF InOrder, Due
  <2>8. CASE r = s /\ queue'[d] = Append(q, e)
    <3>1. \A i \in 1 .. Len(q) : q[i].n < e.n
      BY <1>3, <2>1, <2>2, <2>4, <2>8 DEF InOrder, Due
    <3>2. /\ \A i, j \in 1 .. Len(Append(q, e)) : i < j => Append(q, e)[i].n < Append(q, e)[j].n
          /\ \A i \in 1 .. Len(Append(q, e)) :
               Append(q, e)[i] = e \/ (i \in 1 .. Len(q) /\ Append(q, e)[i] = q[i])
      BY <1>3, <2>1, <3>1, AppendInOrder DEF InOrder
    <3>3. /\ e.n # 0 /\ e.n > seen'[r] /\ e.n <= relayed'[r]
      BY <1>3, <2>2, <2>5, <2>8
    <3> QED BY <2>5, <2>6, <2>8, <3>2, <3>3 DEF InOrder, Due
  <2> QED BY <1>1, <1>4, <2>0, <2>7, <2>8 DEF RelayInv, RelayTypeOK
<1> QED BY <1>6, <1>7, <1>8, <1>9, <1>10 DEF RelayInv

LEMMA CompleteEmitterKeeps ==
  ASSUME RelayInv, NEW t \in Threads, CompleteEmitter(t)
  PROVE  RelayInv'
<1> DEFINE s == thr[t].sid
           c == emitter[s]
<1>1. /\ thr[t].at = "sent" /\ thr' = [thr EXCEPT ![t].at = "completed"]
      /\ emitter' = [emitter EXCEPT ![s] = NoConn]
      /\ \/ c = NoConn /\ srv' = srv
         \/ c # NoConn /\ srv' = [srv EXCEPT ![c] = "ending"]
      /\ UNCHANGED <<relayed, row, recorded, sid, queue, sse, hstat, reader, timer, seen, got, told>>
  BY DEF CompleteEmitter, hook, page
<1>2. thr[t] \in Handling /\ s \in Sessions
  BY <1>1, ThreadType DEF RelayInv
<1>3. c # NoConn => c \in Conns /\ srv[c] = "live" /\ sid[c] = s
  BY <1>2 DEF RelayInv, EmittersLive
<1>4. \A u \in Sessions : u # s /\ emitter[u] # NoConn => emitter[u] # c
  BY <1>2, <1>3 DEF RelayInv, EmittersLive
<1> HIDE DEF s, c
<1>5. RelayTypeOK'
  <2>1. thr' \in [Threads -> Handling \cup {Free}]
    <3>1. [thr[t] EXCEPT !.at = "completed"] \in Handling
      BY <1>2 DEF Handling
    <3> QED BY <1>1, <3>1 DEF RelayInv, RelayTypeOK
  <2>2. /\ emitter' \in [Sessions -> Conns \cup {NoConn}]
        /\ srv' \in [Conns -> {"none", "asked", "checked", "live"} \cup Finished]
    BY <1>1 DEF RelayInv, RelayTypeOK, Finished
  <2> QED BY <1>1, <2>1, <2>2 DEF RelayInv, RelayTypeOK
<1>6. EmittersLive'
  <2> SUFFICES ASSUME NEW u \in Sessions, emitter'[u] # NoConn
               PROVE  /\ emitter'[u] \in Conns
                      /\ srv'[emitter'[u]] = "live" /\ sid'[emitter'[u]] = u
    BY DEF EmittersLive
  <2>1. u # s /\ emitter'[u] = emitter[u]
    BY <1>1 DEF RelayInv, RelayTypeOK
  <2>2. emitter[u] \in Conns /\ srv[emitter[u]] = "live" /\ sid[emitter[u]] = u
    BY <2>1 DEF RelayInv, EmittersLive
  <2> QED BY <1>1, <1>4, <2>1, <2>2 DEF RelayInv, RelayTypeOK
<1>7. ConnsKnown' /\ ReaderFollows' /\ OneQueue'
  <2>1. \A d \in Conns : /\ srv'[d] # "none" <=> srv[d] # "none"
                         /\ srv'[d] \in {"asked", "checked"} => srv[d] \in {"asked", "checked"}
    BY <1>1, <1>3 DEF RelayInv, RelayTypeOK
  <2> QED BY <1>1, <2>1 DEF RelayInv, RelayTypeOK, ConnsKnown, ReaderFollows, OneQueue
<1>8. HeldForSession' /\ HandledEnds'
  <2>1. \A d \in Conns : srv'[d] # "none" => srv[d] # "none"
    BY <1>1, <1>3 DEF RelayInv, RelayTypeOK
  <2>2. \A u \in Threads : /\ thr'[u].conn = thr[u].conn /\ thr'[u].sid = thr[u].sid
                           /\ thr'[u].type = thr[u].type
                           /\ thr'[u].at = IF u = t THEN "completed" ELSE thr[u].at
    <3>1. [thr[t] EXCEPT !.at = "completed"].conn = thr[t].conn
          /\ [thr[t] EXCEPT !.at = "completed"].sid = thr[t].sid
          /\ [thr[t] EXCEPT !.at = "completed"].type = thr[t].type
          /\ [thr[t] EXCEPT !.at = "completed"].at = "completed"
      BY <1>2 DEF Handling
    <3> QED BY <1>1, <3>1 DEF RelayInv, RelayTypeOK
  <2> QED BY <1>1, <2>1, <2>2 DEF RelayInv, HeldForSession, HandledEnds
<1>9. QueuesInOrder' /\ SeenRelayed'
  BY <1>1 DEF RelayInv, QueuesInOrder, InOrder, Due, SeenRelayed
<1> QED BY <1>5, <1>6, <1>7, <1>8, <1>9 DEF RelayInv
-----------------------------------------------------------------------------
(* Server *)

\* What the server does with a connection leaves the backend and the hook as
\* they are, and the unread events of the stream the page reads.
Unread == /\ UNCHANGED <<thr, relayed, row, recorded, sse, hstat, reader, timer, seen, got, told>>
          /\ queue' = queue
          /\ reader # NoConn => sid'[reader] = sid[reader]
          /\ \A d \in Conns : srv'[d] # "none" => srv[d] # "none" /\ sid'[d] = sid[d]

LEMMA UnreadKeeps ==
  ASSUME RelayInv, Unread
  PROVE  SeenRelayed' /\ QueuesInOrder' /\ HeldForSession' /\ HandledEnds' /\ ConnsKnown'
<1>1. SeenRelayed' /\ HandledEnds'
  BY DEF RelayInv, Unread, SeenRelayed, HandledEnds
<1>2. HeldForSession' /\ ConnsKnown'
  BY DEF RelayInv, Unread, HeldForSession, ConnsKnown
<1>3. QueuesInOrder'
  BY RelayAssumption DEF RelayInv, RelayTypeOK, Unread, QueuesInOrder, InOrder, Due
<1> QED BY <1>1, <1>2, <1>3

LEMMA ReadStatusKeeps ==
  ASSUME RelayInv, NEW c \in Conns, ReadStatus(c)
  PROVE  RelayInv'
<1>1. /\ srv[c] = "asked" /\ srv' = [srv EXCEPT ![c] = "checked"] /\ Unread
      /\ UNCHANGED <<emitter, sid>>
  BY DEF ReadStatus, backend, hook, page, Unread, RelayInv, RelayTypeOK
<1>2. RelayTypeOK' /\ ReaderFollows' /\ OneQueue' /\ EmittersLive'
  BY <1>1 DEF RelayInv, RelayTypeOK, Unread, ReaderFollows, OneQueue, EmittersLive
<1> QED BY <1>1, <1>2, UnreadKeeps DEF RelayInv

LEMMA SubscribeKeeps ==
  ASSUME RelayInv, NEW c \in Conns, Subscribe(c)
  PROVE  RelayInv'
<1>1. /\ srv[c] = "checked" /\ srv' = [srv EXCEPT ![c] = "live"] /\ Unread
      /\ emitter' = [emitter EXCEPT ![sid[c]] = c] /\ UNCHANGED sid
  BY DEF Subscribe, backend, hook, page, Unread, RelayInv, RelayTypeOK
<1>2. sid[c] \in Sessions
  BY <1>1 DEF RelayInv, ConnsKnown
<1>3. RelayTypeOK' /\ ReaderFollows' /\ OneQueue'
  BY <1>1, <1>2 DEF RelayInv, RelayTypeOK, Unread, ReaderFollows, OneQueue
<1>4. EmittersLive'
  BY <1>1, <1>2 DEF RelayInv, RelayTypeOK, EmittersLive
<1> QED BY <1>1, <1>3, <1>4, UnreadKeeps DEF RelayInv

\* The callbacks take somebody out of the map; the connection is one that the
\* server has no emitter for any more.
LEMMA RemovalKeeps ==
  ASSUME RelayInv, NEW c \in Conns, sid[c] \in Sessions,
         emitter' = [emitter EXCEPT ![sid[c]] = NoConn],
         \A d \in Conns \ {c} : srv'[d] = srv[d] /\ sid'[d] = sid[d]
  PROVE  EmittersLive'
<1> SUFFICES ASSUME NEW t \in Sessions, emitter'[t] # NoConn
             PROVE  /\ emitter'[t] \in Conns
                    /\ srv'[emitter'[t]] = "live" /\ sid'[emitter'[t]] = t
  BY DEF EmittersLive
<1>1. emitter'[t] = emitter[t] /\ t # sid[c]
  BY DEF RelayInv, RelayTypeOK
<1>2. emitter[t] \in Conns /\ srv[emitter[t]] = "live" /\ sid[emitter[t]] = t
  BY <1>1 DEF RelayInv, EmittersLive
<1> QED BY <1>1, <1>2

LEMMA EmitterEndsKeeps ==
  ASSUME RelayInv, NEW c \in Conns, EmitterEnds(c)
  PROVE  RelayInv'
<1>1. /\ srv[c] = "live" /\ Unread
      /\ emitter' = [emitter EXCEPT ![sid[c]] = NoConn]
      /\ srv' = [srv EXCEPT ![c] = "ending"] /\ sid' = sid
  BY DEF EmitterEnds, backend, hook, page, Unread, RelayInv, RelayTypeOK
<1>2. sid[c] \in Sessions
  BY <1>1 DEF RelayInv, ConnsKnown
<1>3. RelayTypeOK' /\ ReaderFollows' /\ OneQueue'
  BY <1>1, <1>2 DEF RelayInv, RelayTypeOK, Unread, ReaderFollows, OneQueue, Finished
<1>4. EmittersLive'
  <2>1. \A d \in Conns \ {c} : srv'[d] = srv[d] /\ sid'[d] = sid[d]
    BY <1>1 DEF RelayInv, RelayTypeOK
  <2> QED BY <1>1, <1>2, <2>1, RemovalKeeps
<1> QED BY <1>1, <1>3, <1>4, UnreadKeeps DEF RelayInv

LEMMA OnCompletionKeeps ==
  ASSUME RelayInv, NEW c \in Conns, OnCompletion(c)
  PROVE  RelayInv'
<1>1. /\ srv[c] = "ending"
      /\ UNCHANGED <<thr, relayed, row, recorded, queue, sse, hstat, reader, timer, seen, got, told>>
      /\ emitter' = [emitter EXCEPT ![sid[c]] = NoConn]
      /\ \/ c = reader /\ srv' = [srv EXCEPT ![c] = "over"] /\ sid' = sid
         \/ /\ c # reader
            /\ srv' = [srv EXCEPT ![c] = "none"] /\ sid' = [sid EXCEPT ![c] = NoSession]
  BY DEF OnCompletion, backend, hook, page, Release, Forget
<1>2. sid[c] \in Sessions
  BY <1>1 DEF RelayInv, ConnsKnown
<1>3. Unread
  BY <1>1, RelayAssumption DEF Unread, RelayInv, RelayTypeOK
<1>4. RelayTypeOK'
  BY <1>1, <1>2 DEF RelayInv, RelayTypeOK, Finished
<1>5. ReaderFollows' /\ OneQueue'
  BY <1>1, <1>2 DEF RelayInv, RelayTypeOK, ReaderFollows, OneQueue
<1>6. EmittersLive'
  <2>1. \A d \in Conns \ {c} : srv'[d] = srv[d] /\ sid'[d] = sid[d]
    BY <1>1 DEF RelayInv, RelayTypeOK
  <2> QED BY <1>1, <1>2, <2>1, RemovalKeeps
<1> QED BY <1>3, <1>4, <1>5, <1>6, UnreadKeeps DEF RelayInv

\* An answer at once: a replayed end is one that was recorded.
LEMMA AnswerKeeps ==
  ASSUME RelayInv, NEW c \in Conns, NEW events \in Seq(Event),
         events = <<>> \/ (\E e \in Event : e.n = 0 /\ events = <<e>> /\ recorded[sid[c]]),
         AnswerAtOnce(c, events)
  PROVE  RelayInv'
<1>1. /\ srv[c] = "asked" /\ sid[c] \in Sessions
      /\ UNCHANGED <<thr, relayed, row, recorded, emitter,
                     sse, hstat, reader, timer, seen, got, told>>
  BY DEF AnswerAtOnce, backend, hook, page, RelayInv, ConnsKnown
<1>2. \/ /\ c = reader /\ srv' = [srv EXCEPT ![c] = "over"] /\ sid' = sid
         /\ queue' = [queue EXCEPT ![c] = events]
      \/ /\ c # reader /\ queue' = queue
         /\ srv' = [srv EXCEPT ![c] = "none"] /\ sid' = [sid EXCEPT ![c] = NoSession]
  BY DEF AnswerAtOnce, Release, Forget
<1>3. RelayTypeOK'
  <2>1. queue' \in [Conns -> Seq(Event)]
    BY <1>2 DEF RelayInv, RelayTypeOK
  <2>2. /\ srv' \in [Conns -> {"none", "asked", "checked", "live"} \cup Finished]
        /\ sid' \in [Conns -> Sessions \cup {NoSession}]
    BY <1>2 DEF RelayInv, RelayTypeOK, Finished
  <2> QED BY <1>1, <2>1, <2>2 DEF RelayInv, RelayTypeOK
<1>4. ReaderFollows' /\ OneQueue' /\ ConnsKnown'
  <2>1. ReaderFollows'
    BY <1>1, <1>2 DEF RelayInv, RelayTypeOK, ReaderFollows
  <2>2. OneQueue'
    BY <1>1, <1>2 DEF RelayInv, RelayTypeOK, OneQueue
  <2>3. ConnsKnown'
    BY <1>1, <1>2 DEF RelayInv, RelayTypeOK, ConnsKnown
  <2> QED BY <2>1, <2>2, <2>3
<1>5. EmittersLive' /\ SeenRelayed' /\ HeldForSession' /\ HandledEnds'
  <2>1. EmittersLive'
    BY <1>1, <1>2 DEF RelayInv, RelayTypeOK, EmittersLive
  <2>2. SeenRelayed' /\ HandledEnds'
    BY <1>1 DEF RelayInv, SeenRelayed, HandledEnds
  <2>3. \A d \in Conns : srv'[d] # "none" => srv[d] # "none" /\ sid'[d] = sid[d]
    BY <1>1, <1>2 DEF RelayInv, RelayTypeOK
  <2>4. HeldForSession'
    BY <1>1, <2>3 DEF RelayInv, HeldForSession
  <2> QED BY <2>1, <2>2, <2>4
<1>6. QueuesInOrder'
  <2> SUFFICES ASSUME NEW d \in Conns, d = reader PROVE InOrder(sid[d], queue[d])'
    BY <1>1 DEF QueuesInOrder
  <2>1. CASE c # reader
    <3>1. queue'[d] = queue[d] /\ sid'[d] = sid[d]
      BY <1>1, <1>2, <2>1 DEF RelayInv, RelayTypeOK
    <3> QED BY <1>1, <3>1 DEF RelayInv, QueuesInOrder, InOrder, Due
  <2>2. CASE c = reader /\ events = <<>>
    BY <1>1, <1>2, <2>2 DEF RelayInv, RelayTypeOK, InOrder
  <2>3. CASE c = reader /\ events # <<>>
    <3>1. PICK e \in Event : e.n = 0 /\ events = <<e>> /\ recorded[sid[c]]
      BY <2>3
    <3>2. /\ queue'[d] = <<e>> /\ sid'[d] = sid[c]
          /\ relayed' = relayed /\ recorded' = recorded /\ relayed[sid[c]] \in Nat
      BY <1>1, <1>2, <2>3, <3>1 DEF RelayInv, RelayTypeOK
    <3> QED BY <3>1, <3>2 DEF InOrder, Due
  <2> QED BY <1>1, <2>1, <2>2, <2>3
<1> QED BY <1>3, <1>4, <1>5, <1>6 DEF RelayInv
-----------------------------------------------------------------------------
(* The hook *)

\* What it does leaves the backend as it is, and what it was given.
Still == UNCHANGED <<thr, relayed, row, recorded, seen, got, told>>

\* What it lets go of was read by nobody else.
LEMMA LetGoFrees ==
  ASSUME RelayInv, NEW c \in Conns, LetGo(c)
  PROVE  /\ srv' \in [Conns -> {"none", "asked", "checked", "live"} \cup Finished]
         /\ sid' \in [Conns -> Sessions \cup {NoSession}]
         /\ \A d \in Conns : srv'[d] # "none" => srv'[d] = srv[d] /\ sid'[d] = sid[d]
         /\ \A d \in Conns : srv[d] = "live" => srv'[d] = "live" /\ sid'[d] = sid[d]
BY DEF LetGo, Release, Forget, RelayInv, RelayTypeOK

\* A page that leaves its stream keeps the invariant, if nobody's events remain.
LEMMA LeavingKeeps ==
  ASSUME RelayInv, Still, UNCHANGED emitter, reader' = NoConn,
         queue' \in [Conns -> Seq(Event)], \A c \in Conns : queue'[c] = <<>>,
         srv' \in [Conns -> {"none", "asked", "checked", "live"} \cup Finished],
         sid' \in [Conns -> Sessions \cup {NoSession}],
         \A d \in Conns : srv'[d] # "none" => srv'[d] = srv[d] /\ sid'[d] = sid[d],
         \A d \in Conns : srv[d] = "live" => srv'[d] = "live" /\ sid'[d] = sid[d],
         sse' \in Sessions \cup {NoSession}, hstat' \in SseStatus, timer' \in BOOLEAN,
         hstat' = "idle" => ~timer', timer' => sse' \in Sessions
  PROVE  RelayInv'
<1>1. RelayTypeOK'
  BY DEF RelayInv, RelayTypeOK, Still
<1>2. EmittersLive' /\ ConnsKnown'
  BY DEF RelayInv, EmittersLive, ConnsKnown
<1>3. HeldForSession' /\ HandledEnds' /\ SeenRelayed'
  BY DEF RelayInv, HeldForSession, HandledEnds, SeenRelayed, Still
<1>4. ReaderFollows' /\ OneQueue' /\ QueuesInOrder'
  BY RelayAssumption DEF ReaderFollows, OneQueue, QueuesInOrder
<1> QED BY <1>1, <1>2, <1>3, <1>4 DEF RelayInv

\* An aborted request takes its unread events with it.
LEMMA AbortedKeeps ==
  ASSUME RelayInv, Aborted, Still, UNCHANGED emitter,
         sse' \in Sessions \cup {NoSession}, hstat' \in SseStatus,
         timer' \in BOOLEAN, hstat' = "idle" => ~timer', timer' => sse' \in Sessions
  PROVE  RelayInv'
<1>1. /\ queue' \in [Conns -> Seq(Event)] /\ \A c \in Conns : queue'[c] = <<>>
      /\ reader' = NoConn
  BY DEF Aborted
<1>2. CASE UNCHANGED <<srv, sid>>
  <2>1. /\ srv' \in [Conns -> {"none", "asked", "checked", "live"} \cup Finished]
        /\ sid' \in [Conns -> Sessions \cup {NoSession}]
        /\ \A d \in Conns : srv'[d] = srv[d] /\ sid'[d] = sid[d]
    BY <1>2 DEF RelayInv, RelayTypeOK
  <2> QED BY <1>1, <2>1, LeavingKeeps
<1>3. CASE reader \in Conns /\ LetGo(reader)
  <2>1. /\ srv' \in [Conns -> {"none", "asked", "checked", "live"} \cup Finished]
        /\ sid' \in [Conns -> Sessions \cup {NoSession}]
        /\ \A d \in Conns : srv'[d] # "none" => srv'[d] = srv[d] /\ sid'[d] = sid[d]
        /\ \A d \in Conns : srv[d] = "live" => srv'[d] = "live" /\ sid'[d] = sid[d]
    BY <1>3, LetGoFrees
  <2> QED BY <1>1, <2>1, LeavingKeeps
<1> QED BY <1>2, <1>3 DEF Aborted, RelayInv, RelayTypeOK

LEMMA SwitchKeeps ==
  ASSUME RelayInv, NEW s \in Sessions, Switch(s)
  PROVE  RelayInv'
<1>1. /\ Aborted /\ Still /\ UNCHANGED emitter
      /\ sse' = s /\ hstat' = "idle" /\ timer' = FALSE
  BY DEF Switch, Still, backend, page
<1>2. sse' \in Sessions \cup {NoSession} /\ hstat' \in SseStatus
  BY <1>1 DEF SseStatus
<1> QED BY <1>1, <1>2, AbortedKeeps

LEMMA BrokenKeeps ==
  ASSUME RelayInv, Broken
  PROVE  RelayInv'
<1>1. /\ Aborted /\ Still /\ UNCHANGED emitter /\ reader # NoConn
      /\ sse' = sse /\ hstat' = "reconnecting" /\ timer' = TRUE
  BY DEF Broken, Still, backend, page
<1>2. hstat' \in SseStatus
  BY <1>1 DEF SseStatus
<1>3. sse \in Sessions
  BY <1>1 DEF RelayInv, RelayTypeOK, ReaderFollows, ConnsKnown
<1> QED BY <1>1, <1>2, <1>3, AbortedKeeps

\* A page that reads nothing connects: the connection is a new one, and no
\* thread holds it.
LEMMA ConnectKeeps ==
  ASSUME RelayInv, NEW status \in {"connecting", "reconnecting"},
         reader = NoConn, sse \in Sessions, Connect(sse, status), timer' = FALSE,
         Still, UNCHANGED <<emitter, queue, sse>>
  PROVE  RelayInv'
<1>1. CASE NoToken
  <2>1. /\ hstat' = "auth_error" /\ reader' = NoConn /\ UNCHANGED <<srv, sid>>
    BY <1>1 DEF NoToken
  <2>2. RelayTypeOK' /\ EmittersLive' /\ ConnsKnown' /\ ReaderFollows' /\ SeenRelayed'
    BY <2>1 DEF RelayInv, RelayTypeOK, SseStatus, EmittersLive, ConnsKnown,
                ReaderFollows, SeenRelayed, Still
  <2>3. OneQueue' /\ QueuesInOrder' /\ HeldForSession' /\ HandledEnds'
    BY <2>1, RelayAssumption
       DEF RelayInv, OneQueue, QueuesInOrder, HeldForSession, HandledEnds, Still
  <2> QED BY <2>2, <2>3 DEF RelayInv
<1>2. CASE ~NoToken
  <2>1. PICK c \in Conns : /\ Unused(c) /\ reader' = c /\ hstat' = status
                           /\ srv' = [srv EXCEPT ![c] = "asked"]
                           /\ sid' = [sid EXCEPT ![c] = sse]
    BY <1>2 DEF Connect
  <2>2. RelayTypeOK' /\ ConnsKnown' /\ ReaderFollows' /\ SeenRelayed'
    BY <2>1 DEF RelayInv, RelayTypeOK, SseStatus, ConnsKnown, ReaderFollows,
                SeenRelayed, Still, Unused
  <2>3. EmittersLive'
    BY <2>1 DEF RelayInv, RelayTypeOK, EmittersLive, Unused
  <2>4. \A d \in Conns : queue'[d] = <<>>
    BY RelayAssumption DEF RelayInv, OneQueue
  <2>5. OneQueue' /\ QueuesInOrder'
    BY <2>4 DEF OneQueue, QueuesInOrder, InOrder
  <2>6. HeldForSession' /\ HandledEnds'
    BY <2>1 DEF RelayInv, RelayTypeOK, HeldForSession, HandledEnds, Unused, Still
  <2> QED BY <2>2, <2>3, <2>5, <2>6 DEF RelayInv
<1> QED BY <1>1, <1>2

LEMMA StartKeeps ==
  ASSUME RelayInv, Start
  PROVE  RelayInv'
<1>1. /\ reader = NoConn /\ sse \in Sessions /\ timer' = FALSE
      /\ Connect(sse, "connecting") /\ Still /\ UNCHANGED <<emitter, queue, sse>>
  BY DEF Start, Still, backend, page, RelayInv, RelayTypeOK, ReaderFollows
<1> QED BY <1>1, ConnectKeeps

LEMMA TimerFiresKeeps ==
  ASSUME RelayInv, TimerFires
  PROVE  RelayInv'
<1>1. /\ reader = NoConn /\ sse \in Sessions /\ timer' = FALSE
      /\ Connect(sse, "reconnecting") /\ Still /\ UNCHANGED <<emitter, queue, sse>>
  BY DEF TimerFires, Still, backend, page, RelayInv, RelayTypeOK, ReaderFollows
<1> QED BY <1>1, ConnectKeeps

\* A stream without unread events is left.
LEMMA LeftKeeps ==
  ASSUME RelayInv, NEW c \in Conns, reader = c, queue[c] = <<>>,
         NEW status \in SseStatus \ {"idle"}, hstat' = status, reader' = NoConn,
         \/ srv[c] # "live" /\ srv' = Release(srv, c) /\ Forget(c)
         \/ LetGo(c),
         Still, UNCHANGED <<emitter, queue, sse, timer>>
  PROVE  RelayInv'
<1>1. /\ srv' \in [Conns -> {"none", "asked", "checked", "live"} \cup Finished]
      /\ sid' \in [Conns -> Sessions \cup {NoSession}]
      /\ \A d \in Conns : srv'[d] # "none" => srv'[d] = srv[d] /\ sid'[d] = sid[d]
      /\ \A d \in Conns : srv[d] = "live" => srv'[d] = "live" /\ sid'[d] = sid[d]
  <2>1. CASE LetGo(c)
    BY <2>1, LetGoFrees
  <2>2. CASE srv[c] # "live" /\ srv' = Release(srv, c) /\ Forget(c)
    BY <2>2 DEF Release, Forget, RelayInv, RelayTypeOK
  <2> QED BY <2>1, <2>2
<1>2. \A d \in Conns : queue'[d] = <<>>
  BY DEF RelayInv, OneQueue
<1>3. queue' \in [Conns -> Seq(Event)] /\ sse' \in Sessions \cup {NoSession}
      /\ timer' = timer /\ timer \in BOOLEAN /\ hstat' \in SseStatus
  BY DEF RelayInv, RelayTypeOK
<1>4. (hstat' = "idle" => ~timer') /\ (timer' => sse' \in Sessions)
  BY <1>3 DEF RelayInv, ReaderFollows
<1> QED BY <1>1, <1>2, <1>3, <1>4, LeavingKeeps

LEMMA UnauthorizedKeeps ==
  ASSUME RelayInv, NEW c \in Conns, Unauthorized(c)
  PROVE  RelayInv'
<1>1. /\ reader = c /\ queue[c] = <<>> /\ srv[c] # "live"
      /\ "auth_error" \in SseStatus \ {"idle"} /\ hstat' = "auth_error" /\ reader' = NoConn
      /\ srv' = Release(srv, c) /\ Forget(c)
      /\ Still /\ UNCHANGED <<emitter, queue, sse, timer>>
  BY DEF Unauthorized, Still, backend, page, SseStatus, RelayInv, OneQueue
<1> QED BY <1>1, LeftKeeps

LEMMA DoneKeeps ==
  ASSUME RelayInv, NEW c \in Conns, Done(c)
  PROVE  RelayInv'
<1>1. /\ reader = c /\ queue[c] = <<>> /\ LetGo(c)
      /\ "closed" \in SseStatus \ {"idle"} /\ hstat' = "closed" /\ reader' = NoConn
      /\ Still /\ UNCHANGED <<emitter, queue, sse, timer>>
  BY DEF Done, Still, backend, page, SseStatus
<1> QED BY <1>1, LeftKeeps

LEMMA OpenedKeeps ==
  ASSUME RelayInv, NEW c \in Conns, Opened(c)
  PROVE  RelayInv'
<1>1. /\ hstat \in Connecting /\ hstat' = "open"
      /\ UNCHANGED <<thr, relayed, row, recorded, emitter, srv, sid, queue,
                     sse, reader, timer, seen, got, told>>
  BY DEF Opened, backend, conn, page
<1>2. RelayTypeOK' /\ ReaderFollows'
  BY <1>1 DEF RelayInv, RelayTypeOK, SseStatus, ReaderFollows
<1>3. /\ EmittersLive' /\ ConnsKnown' /\ HeldForSession' /\ HandledEnds'
      /\ OneQueue' /\ SeenRelayed'
  BY <1>1 DEF RelayInv, EmittersLive, ConnsKnown, HeldForSession, HandledEnds,
              OneQueue, SeenRelayed
<1>4. QueuesInOrder'
  BY <1>1 DEF RelayInv, QueuesInOrder, InOrder, Due
<1> QED BY <1>2, <1>3, <1>4 DEF RelayInv

\* The event that is read is one of the followed session, and one that is due.
LEMMA ReadIsDue ==
  ASSUME RelayInv, NEW c \in Conns, Read(c)
  PROVE  /\ sid[c] = sse /\ sse \in Sessions /\ queue[c] \in Seq(Event) /\ queue[c] # <<>>
         /\ Head(queue[c]) \in Event /\ Due(sse, Head(queue[c]))
         /\ InOrder(sse, queue[c])
<1>1. /\ sid[c] = sse /\ sse \in Sessions /\ queue[c] \in Seq(Event) /\ queue[c] # <<>>
      /\ InOrder(sse, queue[c])
  BY RelayAssumption DEF Read, RelayInv, RelayTypeOK, ReaderFollows, ConnsKnown, QueuesInOrder
<1>2. Head(queue[c]) \in Event /\ Head(queue[c]) = queue[c][1] /\ 1 \in 1 .. Len(queue[c])
  BY <1>1
<1> QED BY <1>1, <1>2 DEF InOrder

LEMMA ReadKeeps ==
  ASSUME RelayInv, NEW c \in Conns, Read(c)
  PROVE  RelayInv'
<1>0. PICK q, e : q = queue[c] /\ e = Head(queue[c])
  OBVIOUS
<1>1. /\ reader = c /\ queue' = [queue EXCEPT ![c] = Tail(q)]
      /\ OnEvent(sse, e)
      /\ hstat' \in {"open", "closed"}
      /\ UNCHANGED <<thr, relayed, row, recorded, emitter, srv, sid, sse, reader, timer>>
  BY <1>0, ReadIsDue DEF Read, backend
<1>2. /\ sid[c] = sse /\ sse \in Sessions /\ q \in Seq(Event) /\ q # <<>>
      /\ e \in Event /\ e = Head(q) /\ Due(sse, e) /\ InOrder(sse, q)
  BY <1>0, ReadIsDue
<1>3. \A i, j \in 1 .. Len(q) : i < j => q[i].n < q[j].n
  BY <1>2 DEF InOrder
<1>4. /\ Tail(q) \in Seq(Event)
      /\ \A i \in 1 .. Len(Tail(q)) : i + 1 \in 1 .. Len(q) /\ Tail(q)[i] = q[i + 1]
      /\ \A i \in 1 .. Len(Tail(q)) : e.n < Tail(q)[i].n
      /\ \A i, j \in 1 .. Len(Tail(q)) : i < j => Tail(q)[i].n < Tail(q)[j].n
  BY <1>2, <1>3, TailInOrder
<1>5. e.n \in Nat
  BY <1>2, EventType
<1>6. RelayTypeOK'
  <2>1. queue' \in [Conns -> Seq(Event)]
    BY <1>1, <1>4 DEF RelayInv, RelayTypeOK
  <2>2. seen' \in [Sessions -> Nat] /\ told' \in [Sessions -> BOOLEAN]
    BY <1>1, <1>5 DEF RelayInv, RelayTypeOK, OnEvent
  <2>3. got' \in [Sessions -> Nat]
    BY <1>1 DEF RelayInv, RelayTypeOK, OnEvent
  <2> QED BY <1>1, <2>1, <2>2, <2>3 DEF RelayInv, RelayTypeOK, SseStatus
<1>7. SeenRelayed'
  BY <1>1, <1>2 DEF RelayInv, RelayTypeOK, SeenRelayed, Due, OnEvent
<1>8. EmittersLive' /\ ConnsKnown' /\ ReaderFollows' /\ HeldForSession' /\ HandledEnds'
  BY <1>1 DEF RelayInv, EmittersLive, ConnsKnown, ReaderFollows, HeldForSession, HandledEnds
<1>9. OneQueue'
  BY <1>0, <1>1, <1>2 DEF RelayInv, RelayTypeOK, OneQueue
<1>10. QueuesInOrder'
  <2>1. queue'[c] = Tail(q) /\ sid'[c] = sse
    BY <1>1, <1>2 DEF RelayInv, RelayTypeOK
  <2>2. seen'[sse] = IF e.n = 0 THEN seen[sse] ELSE e.n
    BY <1>1, <1>2 DEF RelayInv, RelayTypeOK, OnEvent
  <2>3. \A i \in 1 .. Len(Tail(q)) : Tail(q)[i] \in Event
    BY <1>4
  <2>4. \A i \in 1 .. Len(Tail(q)) : Tail(q)[i].n \in Nat /\ Due(sse, Tail(q)[i])
    BY <1>2, <1>4, <2>3, EventType DEF InOrder
  <2>5. \A i \in 1 .. Len(Tail(q)) : /\ Tail(q)[i].n # 0 /\ Tail(q)[i].n > seen'[sse]
                                     /\ Tail(q)[i].n <= relayed'[sse]
    BY <1>1, <1>4, <1>5, <2>2, <2>4 DEF Due
  <2>6. InOrder(sid[c], queue[c])'
    BY <1>4, <2>1, <2>5 DEF InOrder, Due
  <2> QED BY <1>1, <2>6 DEF QueuesInOrder
<1> QED BY <1>6, <1>7, <1>8, <1>9, <1>10 DEF RelayInv
-----------------------------------------------------------------------------
LEMMA RelayNext == RelayInv /\ [Next]_vars => RelayInv'
<1> SUFFICES ASSUME RelayInv, [Next]_vars PROVE RelayInv'
  OBVIOUS
<1>1. CASE Listener \/ \E s \in Sessions : RowReopens(s)
  BY <1>1, TakeUpKeeps, SendEventKeeps, CompleteEmitterKeeps, RecordEndKeeps,
     HandlerFailsKeeps, RowReopensKeeps DEF Listener
<1>2. CASE Server
  <2> SUFFICES ASSUME NEW c \in Conns,
                      \/ ReadStatus(c) \/ Replay(c) \/ CheckFails(c) \/ Subscribe(c)
                      \/ EmitterEnds(c) \/ OnCompletion(c)
               PROVE  RelayInv'
    BY <1>2 DEF Server
  <2>1. CASE Replay(c)
    <3> DEFINE e == [n |-> 0, type |-> row[sid[c]]]
    <3>1. /\ srv[c] = "asked" /\ row[sid[c]] # "open" /\ AnswerAtOnce(c, <<e>>)
      BY <2>1 DEF Replay
    <3>2. sid[c] \in Sessions
      BY <3>1 DEF RelayInv, ConnsKnown
    <3>3. e \in Event /\ e.n = 0 /\ recorded[sid[c]]
      BY <3>1, <3>2 DEF RelayInv, RelayTypeOK, SeenRelayed, Event, Types
    <3> HIDE DEF e
    <3>4. <<e>> \in Seq(Event)
      BY <3>3
    <3> QED BY <3>1, <3>3, <3>4, AnswerKeeps
  <2>2. CASE CheckFails(c)
    <3>1. <<>> \in Seq(Event) /\ AnswerAtOnce(c, <<>>)
      BY <2>2 DEF CheckFails
    <3> QED BY <3>1, AnswerKeeps
  <2> QED BY <2>1, <2>2, ReadStatusKeeps, SubscribeKeeps, EmitterEndsKeeps, OnCompletionKeeps
<1>3. CASE Stream
  BY <1>3, UnauthorizedKeeps, OpenedKeeps, ReadKeeps, DoneKeeps DEF Stream
<1>4. CASE Page
  BY <1>4, SwitchKeeps, StartKeeps, BrokenKeeps, TimerFiresKeeps DEF Page
<1>5. CASE UNCHANGED vars
  BY <1>5 DEF vars, backend, conn, hook, page, RelayInv, RelayTypeOK, EmittersLive,
              ConnsKnown, HeldForSession, HandledEnds, ReaderFollows, OneQueue,
              QueuesInOrder, InOrder, Due, SeenRelayed
<1> QED BY <1>1, <1>2, <1>3, <1>4, <1>5 DEF Next

\* EventRelay: only the stream the page reads holds unread events; they belong
\* to the session it follows, in the order of their sends, after what it has
\* seen, and a replayed end among them was recorded.
THEOREM RelayInvariant == Spec => []RelayInv
  BY RelayInit, RelayNext, PTL DEF Spec

\* EventRelay: every variable has its type.
THEOREM RelayTypeCorrect == Spec => []RelayTypeOK
<1>1. RelayInv => RelayTypeOK
  BY DEF RelayInv
<1> QED BY <1>1, RelayInvariant, PTL
-----------------------------------------------------------------------------
(* EventRelay implements EventFeed. *)

LEMMA FeedInit == Init => Feed!Init
  BY DEF Init, Feed!Init

\* A step that neither sends, records, switches nor reads is a stutter.
LEMMA FeedStutters ==
  ASSUME UNCHANGED <<sse, relayed, recorded, seen, got, told>>
  PROVE  UNCHANGED Feed!vars
  BY DEF Feed!vars

\* An event that is sent, to whatever connection, is relayed; an end that is
\* recorded is recorded.
LEMMA FeedRelays ==
  ASSUME RelayInv, NEW t \in Threads, SendEvent(t) \/ RecordEnd(t)
  PROVE  Feed!Next
<1>1. CASE SendEvent(t)
  <2>1. thr[t].sid \in Sessions
    BY <1>1, ThreadType DEF SendEvent, RelayInv
  <2>2. Feed!Relay(thr[t].sid)
    BY <1>1 DEF SendEvent, Feed!Relay, hook, page
  <2> QED BY <2>1, <2>2 DEF Feed!Next
<1>2. CASE RecordEnd(t)
  <2>1. thr[t].sid \in Sessions
    BY <1>2, ThreadType DEF RecordEnd, RelayInv
  <2>2. Feed!Record(thr[t].sid)
    BY <1>2 DEF RecordEnd, Feed!Record, hook, page
  <2> QED BY <2>1, <2>2 DEF Feed!Next
<1> QED BY <1>1, <1>2

\* An event that is read is seen, or is an end that may be told.
LEMMA FeedSees ==
  ASSUME RelayInv, NEW c \in Conns, Read(c)
  PROVE  Feed!Next
<1>0. PICK e : e = Head(queue[c])
  OBVIOUS
<1>1. sid[c] = sse /\ sse \in Sessions /\ e.n \in Nat /\ Due(sse, e)
  BY <1>0, ReadIsDue, EventType
<1>2. /\ OnEvent(sse, e)
      /\ UNCHANGED <<sse, relayed, recorded>>
  BY <1>0, <1>1 DEF Read, backend
<1>3. CASE e.n = 0
  <2>1. Feed!Tell(sse)
    BY <1>1, <1>2, <1>3 DEF Feed!Tell, Due, OnEvent
  <2> QED BY <1>1, <2>1 DEF Feed!Next
<1>4. CASE e.n # 0
  <2>1. relayed[sse] \in Nat
    BY <1>1 DEF RelayInv, RelayTypeOK
  <2>2. e.n \in 1 .. relayed[sse]
    BY <1>1, <1>4, <2>1 DEF Due
  <2>3. Feed!See(sse, e.n)
    BY <1>1, <1>2, <1>4 DEF Feed!See, Due, OnEvent
  <2> QED BY <1>1, <2>2, <2>3 DEF Feed!Next
<1> QED BY <1>3, <1>4

LEMMA FeedNext == RelayInv /\ [Next]_vars => [Feed!Next]_(Feed!vars)
<1> SUFFICES ASSUME RelayInv, [Next]_vars PROVE Feed!Next \/ UNCHANGED Feed!vars
  OBVIOUS
<1>1. CASE Listener
  <2>1. PICK t \in Threads : \/ \E s \in Sessions, type \in Types : TakeUp(t, s, type)
                             \/ SendEvent(t) \/ CompleteEmitter(t) \/ RecordEnd(t)
                             \/ HandlerFails(t)
    BY <1>1 DEF Listener
  <2>2. CASE SendEvent(t) \/ RecordEnd(t)
    BY <2>2, FeedRelays
  <2>3. CASE \/ \E s \in Sessions, type \in Types : TakeUp(t, s, type)
             \/ CompleteEmitter(t) \/ HandlerFails(t)
    BY <2>3, FeedStutters DEF TakeUp, CompleteEmitter, HandlerFails, conn, hook, page
  <2> QED BY <2>1, <2>2, <2>3
<1>2. CASE Server
  BY <1>2, FeedStutters DEF Server, ReadStatus, Replay, CheckFails, AnswerAtOnce,
                            Subscribe, EmitterEnds, OnCompletion, backend, hook, page
<1>3. CASE Stream
  <2>1. PICK c \in Conns : Unauthorized(c) \/ Opened(c) \/ Read(c) \/ Done(c)
    BY <1>3 DEF Stream
  <2>2. Unauthorized(c) \/ Opened(c) \/ Done(c) =>
          UNCHANGED <<sse, relayed, recorded, seen, got, told>>
    BY DEF Unauthorized, Opened, Done, backend, page
  <2> QED BY <2>1, <2>2, FeedSees, FeedStutters
<1>4. CASE Page
  <2>1. CASE \E s \in Sessions : Switch(s)
    <3>1. PICK s \in Sessions : Switch(s)
      BY <2>1
    <3>2. Feed!Follow(s)
      BY <3>1 DEF Switch, Feed!Follow, backend, page
    <3> QED BY <3>2 DEF Feed!Next
  <2>2. CASE Start \/ Broken \/ TimerFires
    BY <2>2, FeedStutters DEF Start, Broken, TimerFires, backend, page
  <2> QED BY <1>4, <2>1, <2>2 DEF Page
<1>5. CASE UNCHANGED vars \/ \E s \in Sessions : RowReopens(s)
  BY <1>5, FeedStutters DEF vars, backend, hook, page, RowReopens
<1> QED BY <1>1, <1>2, <1>3, <1>4, <1>5 DEF Next

\* EventRelay: whatever threads relay, and whatever connections are given up,
\* replaced, broken or replayed, the page sees what EventFeed promises: the
\* followed session's events, each once and in the order of their sends, and no
\* replayed end that was not recorded.
THEOREM RelayImplementsFeed == Spec => FeedSpec
  BY RelayInvariant, FeedInit, FeedNext, PTL DEF Spec, FeedSpec, Feed!Spec
-----------------------------------------------------------------------------
(* What a page that follows a session waits for.                            *)

\* A following page has a timer or a stream.
Served == hstat \in Connecting \cup {"open"} => timer \/ reader # NoConn

\* Connecting either gives up with a status, or gives the page a stream.
LEMMA ConnectServes ==
  ASSUME NEW s, NEW status, Connect(s, status)
  PROVE  Served'
<1>1. NoConn \notin Conns
  BY RelayAssumption
<1> QED BY <1>1 DEF Connect, NoToken, Served, Connecting

LEMMA ServedNext == RelayInv /\ Served /\ [Next]_vars => Served'
<1> SUFFICES ASSUME RelayInv, Served, [Next]_vars PROVE Served'
  OBVIOUS
<1> USE DEF Served, Connecting
<1>1. ASSUME UNCHANGED <<hstat, timer, reader>> PROVE Served'
  BY <1>1
<1>2. CASE Listener \/ \E s \in Sessions : RowReopens(s)
  BY <1>1, <1>2 DEF Listener, TakeUp, SendEvent, CompleteEmitter, RecordEnd,
                    HandlerFails, RowReopens, hook
<1>3. CASE Server
  BY <1>1, <1>3 DEF Server, ReadStatus, Replay, CheckFails, AnswerAtOnce, Subscribe,
                    EmitterEnds, OnCompletion, hook
<1>4. ASSUME NEW c \in Conns, Unauthorized(c) \/ Opened(c) \/ Read(c) \/ Done(c)
      PROVE  Served'
  BY <1>4, RelayAssumption DEF Unauthorized, Opened, Read, Done
<1>5. ASSUME NEW s \in Sessions, Switch(s) PROVE Served'
  BY <1>5 DEF Switch
<1>6. CASE Start \/ TimerFires
  BY <1>6, ConnectServes DEF Start, TimerFires
<1>7. CASE Broken
  BY <1>7 DEF Broken
<1>8. CASE UNCHANGED vars
  BY <1>1, <1>8 DEF vars, hook
<1> QED BY <1>2, <1>3, <1>4, <1>5, <1>6, <1>7, <1>8 DEF Next, Stream, Page

\* useSse: a page that shows that it follows a session has exactly one of a set
\* timer and a connection, which was opened for that session and is served.
THEOREM StreamsAreFollowedOnce == Spec => []FollowedOnce
<1>1. Init => Served
  BY DEF Init, Served, Connecting
<1>2. RelayInv /\ Served => FollowedOnce
  BY RelayAssumption
     DEF RelayInv, RelayTypeOK, ConnsKnown, ReaderFollows, Served, FollowedOnce
<1> QED BY <1>1, <1>2, ServedNext, RelayInvariant, PTL DEF Spec
=============================================================================
