----------------------------- MODULE EventRelay -----------------------------
(***************************************************************************)
(* The live stream of an analysis, from the Redis subscriber of the        *)
(* backend to the page: the listener handles every event on a thread of    *)
(* its own, SseEmitterService keeps one emitter per session, GET           *)
(* /sessions/{id}/stream makes one, and the hook useSse of the page        *)
(* connects, reads, reconnects after an error and gives up after an end.   *)
(*                                                                         *)
(* A connection has two ends.  The page reads at most one (reader), so a   *)
(* connection other than reader is one whose client has gone; the server   *)
(* learns of that later or never.                                          *)
(***************************************************************************)
EXTENDS Naturals, Sequences

CONSTANTS
    Sessions, NoSession,
    Conns, NoConn,       \* HTTP connections, reused when both ends are done
    Threads,             \* threads of the listener, each with one event
    MaxEvents            \* bound: session -> number of sends after which none begins

ASSUME RelayAssumption ==
    /\ NoSession \notin Sessions
    /\ NoConn \notin Conns
    /\ MaxEvents \in [Sessions -> Nat]

VARIABLES
    \* backend
    thr,        \* listener thread -> the event it handles, and how far it is
    relayed,    \* session -> number of events sent so far
    row,        \* session -> what its committed row says of its end
    recorded,   \* session -> its row has said that it is over
    emitter,    \* the map of SseEmitterService: session -> connection
    \* connections
    srv,        \* connection -> what the server does with it
    sid,        \* connection -> session it was opened for
    queue,      \* connection -> events written and not yet read
    \* page: sseSessionId of the store and the refs of useSse
    sse, hstat, reader, timer,
    seen,       \* session -> number of the latest event given to onEvent
    got,        \* session -> how many events were given to onEvent
    told        \* session -> onEvent was given a replayed end

backend == <<thr, relayed, row, recorded>>
conn    == <<emitter, srv, sid, queue>>
hook    == <<sse, hstat, reader, timer>>
page    == <<seen, got, told>>
vars    == <<backend, conn, hook, page>>

SseStatus == {"idle", "connecting", "open", "reconnecting", "closed", "auth_error"}
Connecting == {"connecting", "reconnecting"}
EndTypes == {"completed", "error"}
Types == EndTypes \cup {"progress"}
Finished == {"ending", "over"}

\* An event on a connection: its number among those sent of the session, or 0
\* if the controller replays an end.
Event == [n : Nat, type : Types]

Free == [at |-> "free", sid |-> NoSession, type |-> "none", conn |-> NoConn]
Handling == [at : {"found", "sent", "completed"}, sid : Sessions, type : Types,
             conn : Conns \cup {NoConn}]

Init ==
    /\ thr = [t \in Threads |-> Free]
    /\ relayed = [s \in Sessions |-> 0]
    /\ row = [s \in Sessions |-> "open"]
    /\ recorded = [s \in Sessions |-> FALSE]
    /\ emitter = [s \in Sessions |-> NoConn]
    /\ srv = [c \in Conns |-> "none"]
    /\ sid = [c \in Conns |-> NoSession]
    /\ queue = [c \in Conns |-> <<>>]
    /\ sse = NoSession /\ hstat = "idle" /\ reader = NoConn /\ timer = FALSE
    /\ seen = [s \in Sessions |-> 0] /\ got = [s \in Sessions |-> 0]
    /\ told = [s \in Sessions |-> FALSE]

\* Both ends of a connection are done with it.
Release(f, c) == [f EXCEPT ![c] = "none"]
Forget(c) == sid' = [sid EXCEPT ![c] = NoSession]
-----------------------------------------------------------------------------
(* Backend: RedisSubscriber.onMessage, one thread per event *)

\* An event arrives, in whatever order, and send looks up the emitter.  The
\* engine's tasks of a session overlap: it may be any event.
TakeUp(t, s, type) ==
    /\ thr[t] = Free /\ relayed[s] < MaxEvents[s]
    /\ thr' = [thr EXCEPT ![t] = [at |-> "found", sid |-> s, type |-> type,
                                  conn |-> emitter[s]]]
    /\ UNCHANGED <<relayed, row, recorded, conn, hook, page>>

AfterSend(t) == IF thr[t].type \in EndTypes
            THEN [thr[t] EXCEPT !.at = "sent", !.conn = NoConn] ELSE Free

\* emitter.send.  A client that has gone shows up as an IOException, or not
\* yet; the exception removes by session id, whoever is in the map.  Without an
\* emitter nothing is sent; one that has ended meanwhile throws (HandlerFails).
SendEvent(t) ==
    LET s == thr[t].sid
        c == thr[t].conn IN
    /\ thr[t].at = "found"
    /\ thr' = [thr EXCEPT ![t] = AfterSend(t)]
    /\ relayed' = [relayed EXCEPT ![s] = @ + 1]
    /\ \/ /\ c # NoConn /\ c = reader /\ srv[c] = "live"
          /\ queue' = [queue EXCEPT ![c] = Append(@, [n |-> relayed[s] + 1,
                                                      type |-> thr[t].type])]
          /\ emitter' = emitter
       \/ /\ c # NoConn /\ c # reader /\ srv[c] = "live"
          /\ emitter' \in {emitter, [emitter EXCEPT ![s] = NoConn]}
          /\ queue' = queue
       \/ c = NoConn /\ UNCHANGED <<emitter, queue>>
    /\ UNCHANGED <<row, recorded, srv, sid, hook, page>>

\* After an end the row is written, and the emitter that is in the map by then
\* is completed, before the transaction commits (RecordEnd).
CompleteEmitter(t) ==
    LET s == thr[t].sid
        c == emitter[s] IN
    /\ thr[t].at = "sent"
    /\ thr' = [thr EXCEPT ![t].at = "completed"]
    /\ emitter' = [emitter EXCEPT ![s] = NoConn]
    /\ srv' = IF c = NoConn THEN srv ELSE [srv EXCEPT ![c] = "ending"]
    /\ UNCHANGED <<relayed, row, recorded, sid, queue, hook, page>>

RecordEnd(t) ==
    LET s == thr[t].sid IN
    /\ thr[t].at = "completed"
    /\ thr' = [thr EXCEPT ![t] = Free]
    /\ row' = [row EXCEPT ![s] = thr[t].type]
    /\ recorded' = [recorded EXCEPT ![s] = TRUE]
    /\ UNCHANGED <<relayed, conn, hook, page>>

\* The body is not parsed, send finds the emitter completed, a statement fails
\* or the transaction does: the rest is not done, and nothing is written.
HandlerFails(t) ==
    /\ thr[t] # Free
    /\ thr' = [thr EXCEPT ![t] = Free]
    /\ UNCHANGED <<relayed, row, recorded, conn, hook, page>>

\* A late awaiting_confirmation, or a transaction that writes back an older
\* copy of the row (SessionRows).
RowReopens(s) ==
    /\ row[s] # "open"
    /\ row' = [row EXCEPT ![s] = "open"]
    /\ UNCHANGED <<thr, relayed, recorded, conn, hook, page>>
-----------------------------------------------------------------------------
(* Server: the controller and the container *)

\* Mutant: whatever the row says, the stream is left to the relay.
ReadStatusInVain(c) ==
    /\ srv[c] = "asked"
    /\ srv' = [srv EXCEPT ![c] = "checked"]
    /\ UNCHANGED <<backend, emitter, sid, queue, hook, page>>

\* streamSession reads the row.  An unfinished session goes on to subscribe.
ReadStatus(c) ==
    /\ srv[c] = "asked" /\ row[sid[c]] = "open"
    /\ srv' = [srv EXCEPT ![c] = "checked"]
    /\ UNCHANGED <<backend, emitter, sid, queue, hook, page>>

\* A finished one is answered with its end and closed; a failed check with a
\* text that the page does not parse, and closed.
AnswerAtOnce(c, events) ==
    /\ srv[c] = "asked"
    /\ \/ /\ c = reader
          /\ srv' = [srv EXCEPT ![c] = "over"] /\ sid' = sid
          /\ queue' = [queue EXCEPT ![c] = events]
       \/ /\ c # reader
          /\ srv' = Release(srv, c) /\ Forget(c)
          /\ queue' = queue
    /\ UNCHANGED <<backend, emitter, hook, page>>
Replay(c) ==
    /\ srv[c] = "asked" /\ row[sid[c]] # "open"
    /\ AnswerAtOnce(c, <<[n |-> 0, type |-> row[sid[c]]]>>)
CheckFails(c) == AnswerAtOnce(c, <<>>)

\* SseEmitterService.subscribe puts the new emitter in the place of an old one.
Subscribe(c) ==
    /\ srv[c] = "checked"
    /\ srv' = [srv EXCEPT ![c] = "live"]
    /\ emitter' = [emitter EXCEPT ![sid[c]] = c]
    /\ UNCHANGED <<backend, sid, queue, hook, page>>

\* onTimeout and onError: after thirty minutes, or when the container notices
\* that the client has gone.  They remove by session id, whoever is in the map.
EmitterEnds(c) ==
    /\ srv[c] = "live"
    /\ emitter' = [emitter EXCEPT ![sid[c]] = NoConn]
    /\ srv' = [srv EXCEPT ![c] = "ending"]
    /\ UNCHANGED <<backend, sid, queue, hook, page>>

\* onCompletion, when the container is done with a completed emitter: it
\* removes by session id once more.
OnCompletion(c) ==
    /\ srv[c] = "ending"
    /\ emitter' = [emitter EXCEPT ![sid[c]] = NoConn]
    /\ \/ c = reader /\ srv' = [srv EXCEPT ![c] = "over"] /\ sid' = sid
       \/ c # reader /\ srv' = Release(srv, c) /\ Forget(c)
    /\ UNCHANGED <<backend, queue, hook, page>>
-----------------------------------------------------------------------------
(* The hook *)

\* The page lets go of a connection: the server has finished with it, or goes
\* on serving a client that is gone.
LetGo(c) ==
    \/ srv[c] = "over" /\ srv' = Release(srv, c) /\ Forget(c)
    \/ srv[c] # "over" /\ UNCHANGED <<srv, sid>>

\* cleanup aborts the request: what was written to it is lost.
Aborted ==
    /\ queue' = [c \in Conns |-> <<>>]
    /\ \/ reader # NoConn /\ LetGo(reader)
       \/ reader = NoConn /\ UNCHANGED <<srv, sid>>
    /\ reader' = NoConn

\* A thread that holds an emitter holds that one, not one made later.
Unused(c) == srv[c] = "none" /\ \A t \in Threads : thr[t].conn # c

\* connect(s): without a token nothing is sent.
NoToken == hstat' = "auth_error" /\ reader' = NoConn /\ UNCHANGED <<srv, sid>>
Connect(s, status) ==
    \/ NoToken
    \/ \E c \in Conns :
         /\ Unused(c)
         /\ reader' = c
         /\ srv' = [srv EXCEPT ![c] = "asked"]
         /\ sid' = [sid EXCEPT ![c] = s]
         /\ hstat' = status

\* Mutant: the effect does not depend on the session, and nothing is cleaned up.
SwitchStill(s) ==
    /\ hstat # "idle" \/ sse = NoSession
    /\ sse' = s
    /\ UNCHANGED <<backend, conn, hstat, reader, timer, page>>

\* setSseSessionId(s), or the page is left (the store keeps the session): the
\* effect cleans up after the old session.  A new hook starts out idle.
Switch(s) ==
    /\ hstat # "idle" \/ sse = NoSession
    /\ sse' = s /\ hstat' = "idle" /\ timer' = FALSE
    /\ Aborted
    /\ UNCHANGED <<backend, emitter, page>>

\* The effect runs for the session in the store.
Start ==
    /\ hstat = "idle" /\ sse # NoSession
    /\ Connect(sse, "connecting")
    /\ UNCHANGED <<backend, emitter, queue, sse, timer, page>>

\* 401: no reconnection.
Unauthorized(c) ==
    /\ reader = c /\ srv[c] = "asked"
    /\ hstat' = "auth_error" /\ reader' = NoConn
    /\ srv' = Release(srv, c) /\ Forget(c)
    /\ UNCHANGED <<backend, emitter, queue, sse, timer, page>>

\* onEvent is given an event of the followed session, or a replayed end.
OnEvent(s, e) ==
    \/ /\ e.n = 0
       /\ told' = [told EXCEPT ![s] = TRUE]
       /\ UNCHANGED <<seen, got>>
    \/ /\ e.n # 0
       /\ seen' = [seen EXCEPT ![s] = e.n]
       /\ got' = [got EXCEPT ![s] = @ + 1]
       /\ told' = told

\* Mutant: the unparsed rest of the buffer is parsed again with the next part.
ReadAgain(c) ==
    LET s == sid[c]
        e == Head(queue[c]) IN
    /\ reader = c /\ queue[c] # <<>> /\ hstat \in {"open", "closed"}
    /\ OnEvent(s, e)
    /\ queue' \in {queue, [queue EXCEPT ![c] = Tail(@)]}
    /\ hstat' = IF e.type = "completed" THEN "closed" ELSE hstat
    /\ UNCHANGED <<backend, emitter, srv, sid, sse, reader, timer>>

\* The headers of the answer are sent with its first event, or at its end.
Opened(c) ==
    /\ reader = c /\ hstat \in Connecting
    /\ queue[c] # <<>> \/ srv[c] \in Finished
    /\ hstat' = "open"
    /\ UNCHANGED <<backend, conn, sse, reader, timer, page>>

\* One part of the stream is parsed and given to onEvent; after "completed"
\* the status is closed, and the loop reads on.
Read(c) ==
    LET s == sid[c]
        e == Head(queue[c]) IN
    /\ reader = c /\ queue[c] # <<>> /\ hstat \in {"open", "closed"}
    /\ OnEvent(s, e)
    /\ queue' = [queue EXCEPT ![c] = Tail(@)]
    /\ hstat' = IF e.type = "completed" THEN "closed" ELSE hstat
    /\ UNCHANGED <<backend, emitter, srv, sid, sse, reader, timer>>

\* The server ended the stream: closed, and no reconnection.
Done(c) ==
    /\ reader = c /\ srv[c] \in Finished /\ queue[c] = <<>> /\ hstat \in {"open", "closed"}
    /\ hstat' = "closed" /\ reader' = NoConn
    /\ LetGo(c)
    /\ UNCHANGED <<backend, emitter, queue, sse, timer, page>>

\* The fetch or a read fails: a timer is set.
Broken ==
    /\ reader # NoConn
    /\ hstat' = "reconnecting" /\ timer' = TRUE
    /\ Aborted
    /\ UNCHANGED <<backend, emitter, sse, page>>

\* The timer fires after 1 to 30 seconds and connects again.
TimerFires ==
    /\ timer /\ timer' = FALSE
    /\ Connect(sse, "reconnecting")
    /\ UNCHANGED <<backend, emitter, queue, sse, page>>
-----------------------------------------------------------------------------
Listener == \E t \in Threads :
    \/ \E s \in Sessions, type \in Types : TakeUp(t, s, type)
    \/ SendEvent(t) \/ CompleteEmitter(t) \/ RecordEnd(t) \/ HandlerFails(t)
Server == \E c \in Conns :
    \/ ReadStatus(c) \/ Replay(c) \/ CheckFails(c) \/ Subscribe(c)
    \/ EmitterEnds(c) \/ OnCompletion(c)
Stream == \E c \in Conns : Unauthorized(c) \/ Opened(c) \/ Read(c) \/ Done(c)
Page   == (\E s \in Sessions : Switch(s)) \/ Start \/ Broken \/ TimerFires

Next == Listener \/ (\E s \in Sessions : RowReopens(s)) \/ Server \/ Stream \/ Page

\* The proxy breaks a stream on which nothing has come for two minutes
\* (proxy_read_timeout); without a proxy the emitter times out.
Quiet == reader # NoConn /\ srv[reader] = "live" /\ queue[reader] = <<>>

\* The container brings a connection from one stage to the next, a quiet stream
\* and one whose client has gone end in one way or another, the page's event loop
\* runs, and a timer that is set fires.  Of the listener nothing is assumed.
Serving(c) ==
    \/ ReadStatus(c) \/ Replay(c) \/ Subscribe(c) \/ EmitterEnds(c) \/ OnCompletion(c)
    \/ c = reader /\ Quiet /\ Broken
Fairness ==
    /\ \A c \in Conns : WF_vars(Serving(c))
    /\ WF_vars((\E c \in Conns : Opened(c) \/ Read(c) \/ Done(c)) \/ TimerFires)

Spec     == Init /\ [][Next]_vars
FairSpec == Spec /\ Fairness
-----------------------------------------------------------------------------
(* Properties *)

RelayTypeOK ==
    /\ thr \in [Threads -> Handling \cup {Free}]
    /\ relayed \in [Sessions -> Nat]
    /\ row \in [Sessions -> EndTypes \cup {"open"}]
    /\ recorded \in [Sessions -> BOOLEAN]
    /\ emitter \in [Sessions -> Conns \cup {NoConn}]
    /\ srv \in [Conns -> {"none", "asked", "checked", "live"} \cup Finished]
    /\ sid \in [Conns -> Sessions \cup {NoSession}]
    /\ queue \in [Conns -> Seq(Event)]
    /\ sse \in Sessions \cup {NoSession} /\ hstat \in SseStatus
    /\ reader \in Conns \cup {NoConn} /\ timer \in BOOLEAN
    /\ seen \in [Sessions -> Nat] /\ got \in [Sessions -> Nat]
    /\ told \in [Sessions -> BOOLEAN]

\* Whatever threads relay, and whatever connections are given up, replaced,
\* broken or replayed, the page sees what EventFeed promises: only the followed
\* session's events, each once and in the order of their sends, and no replayed
\* end that was not recorded.
Feed == INSTANCE EventFeed WITH following <- sse
FeedSpec == Feed!Spec

\* While the page shows that it follows a session, exactly one thing is to bring
\* it on: the timer of a reconnection, or one connection, opened for that session
\* and still served.  A timer beside a connection would open a second stream of
\* the same events; neither would leave the page waiting for nothing.
FollowedOnce == hstat \in Connecting \cup {"open"} =>
    /\ sse # NoSession
    /\ timer = (reader = NoConn)
    /\ reader # NoConn => sid[reader] = sse /\ srv[reader] # "none"

\* A page does not follow for ever a session whose row says that it is over,
\* though its stream may be deaf to it: opened between the completion of the old
\* emitter and the commit, or thrown out of the map.  A quiet stream is broken
\* or closed, and a new one replays the end.  The only excuse is a network that
\* breaks streams that are not quiet again and again.  (A page that turns to
\* another session begins anew, idle, so what is unlearned for ever is of one.)
Unlearned == /\ hstat \in Connecting \cup {"open"} /\ sse # NoSession
             /\ row[sse] # "open"
EndIsLearned == <>[]Unlearned => []<><<~Quiet /\ Broken>>_vars

\* The stream the page reads can say something: its emitter is in the map.
NoDeafStream == \A c \in Conns :
    c = reader /\ srv[c] = "live" => emitter[sid[c]] = c
=============================================================================
