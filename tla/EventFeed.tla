----------------------------- MODULE EventFeed -----------------------------
(***************************************************************************)
(* What a follower of an analysis is promised, whatever connections come   *)
(* and go: it sees events of the session it follows only, in the order in  *)
(* which they were relayed, each at most once and some perhaps never.  It  *)
(* is told that a session is over, however often, once that is recorded.   *)
(* The order of relaying is not that of the events' publication: an event  *)
(* may be relayed after one that says how the session ended.               *)
(***************************************************************************)
EXTENDS Naturals

CONSTANTS Sessions, NoSession

VARIABLES
    following,  \* the session that is followed, or NoSession
    relayed,    \* session -> number of events relayed so far
    recorded,   \* session -> its row has said that it is over
    seen,       \* session -> number of the latest event the follower saw
    got,        \* session -> how many events the follower saw
    told        \* session -> the follower was told that it is over

vars == <<following, relayed, recorded, seen, got, told>>

Init ==
    /\ following = NoSession
    /\ relayed = [s \in Sessions |-> 0]
    /\ recorded = [s \in Sessions |-> FALSE]
    /\ seen = [s \in Sessions |-> 0] /\ got = [s \in Sessions |-> 0]
    /\ told = [s \in Sessions |-> FALSE]

Follow(s) ==
    /\ following' = s
    /\ UNCHANGED <<relayed, recorded, seen, got, told>>

Relay(s) ==
    /\ relayed' = [relayed EXCEPT ![s] = @ + 1]
    /\ UNCHANGED <<following, recorded, seen, got, told>>

Record(s) ==
    /\ recorded' = [recorded EXCEPT ![s] = TRUE]
    /\ UNCHANGED <<following, relayed, seen, got, told>>

\* The follower sees event n, a later one than it saw before.
See(s, n) ==
    /\ following = s
    /\ n > seen[s] /\ n <= relayed[s]
    /\ seen' = [seen EXCEPT ![s] = n] /\ got' = [got EXCEPT ![s] = @ + 1]
    /\ UNCHANGED <<following, relayed, recorded, told>>

Tell(s) ==
    /\ following = s /\ recorded[s]
    /\ told' = [told EXCEPT ![s] = TRUE]
    /\ UNCHANGED <<following, relayed, recorded, seen, got>>

Next ==
    \/ \E s \in Sessions \cup {NoSession} : Follow(s)
    \/ \E s \in Sessions :
         \/ Relay(s) \/ Record(s) \/ Tell(s)
         \/ \E n \in 1 .. relayed[s] : See(s, n)

Spec == Init /\ [][Next]_vars
=============================================================================
