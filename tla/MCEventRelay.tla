---------------------------- MODULE MCEventRelay ----------------------------
(* A session with events and one to turn to, two connections, two threads of *)
(* the listener.                                                             *)
EXTENDS EventRelay, TLC

CONSTANTS s1, s2, c1, c2, t1, t2
MCSessions == {s1, s2}
MCConns == {c1, c2}
MCThreads == {t1, t2}
MCMaxEvents == (s1 :> 1) @@ (s2 :> 0)
=============================================================================
