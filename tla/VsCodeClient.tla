---------------------------- MODULE VsCodeClient ----------------------------
(***************************************************************************)
(* The VS Code extension (apps/vscode_ext/src): the analyze command makes  *)
(* a session, polls its status until it ends or the deadline has passed,   *)
(* and shows the findings in the Problems tab.  The command can be given   *)
(* again while one is under way; a token is entered beside it.             *)
(***************************************************************************)
EXTENDS Naturals

CONSTANTS
    Commands,
    NoCommand,
    MaxPolls     \* polls that fit into POLL_TIMEOUT_MS

VARIABLES
    token,       \* is a token in the secret storage?
    at,          \* command -> what it waits for
    polls,       \* command -> polls so far
    session,     \* command -> its session in the backend
    problems     \* whose findings the Problems tab shows

vars == <<token, at, polls, session, problems>>

Ended    == {"COMPLETED", "FAILED"}
Awaiting == {"creating", "polling", "pausing", "fetching"}

Init ==
    /\ token \in BOOLEAN
    /\ at = [k \in Commands |-> "off"]
    /\ polls = [k \in Commands |-> 0]
    /\ session = [k \in Commands |-> "none"]
    /\ problems = NoCommand

Go(k, to) == at' = [at EXCEPT ![k] = to]
-----------------------------------------------------------------------------
\* secureai.setToken; an empty input changes nothing.
SetToken ==
    /\ ~token /\ token' = TRUE
    /\ UNCHANGED <<at, polls, session, problems>>

\* secureai.analyze: without a token or an open folder it only says so.
Analyze(k) ==
    /\ at[k] = "off"
    /\ \/ token /\ Go(k, "creating") /\ problems' = NoCommand
       \/ Go(k, "ended") /\ problems' = problems
    /\ UNCHANGED <<token, polls, session>>

\* The backend makes the session, and it goes on by itself.
Create(k) ==
    /\ at[k] = "creating" /\ session[k] = "none"
    /\ session' = [session EXCEPT ![k] = "RUNNING"]
    /\ UNCHANGED <<token, at, polls, problems>>
SessionEnds(k, how) ==
    /\ session[k] = "RUNNING" /\ how \in Ended
    /\ session' = [session EXCEPT ![k] = how]
    /\ UNCHANGED <<token, at, polls, problems>>

Created(k) ==
    /\ at[k] = "creating" /\ session[k] # "none"
    /\ Go(k, "polling")
    /\ UNCHANGED <<token, polls, session, problems>>

\* waitForCompletion: the status that was answered, which may be an older one.
Polled(k) ==
    /\ at[k] = "polling"
    /\ \/ session[k] = "COMPLETED" /\ Go(k, "fetching")
       \/ session[k] = "FAILED" /\ Go(k, "ended")
       \/ Go(k, "pausing")
    /\ polls' = [polls EXCEPT ![k] = @ + 1]
    /\ UNCHANGED <<token, session, problems>>

\* Mutant: the deadline is computed anew before each poll.
PausedAnew(k) ==
    /\ at[k] = "pausing" /\ Go(k, "polling")
    /\ polls' = [polls EXCEPT ![k] = 0]
    /\ UNCHANGED <<token, session, problems>>

\* The pause is over; so may be the time, at the last poll that fits it is.
Paused(k) ==
    /\ at[k] = "pausing"
    /\ \/ polls[k] < MaxPolls /\ Go(k, "polling")
       \/ Go(k, "ended")
    /\ UNCHANGED <<token, polls, session, problems>>

Fetched(k) ==
    /\ at[k] = "fetching"
    /\ problems' = k
    /\ Go(k, "ended")
    /\ UNCHANGED <<token, polls, session>>

\* A status that is not ok, or no answer: runAnalysis shows the error.
RequestFails(k) ==
    /\ at[k] \in {"creating", "polling", "fetching"}
    /\ Go(k, "ended")
    /\ UNCHANGED <<token, polls, session, problems>>

Next ==
    \/ SetToken
    \/ \E k \in Commands :
        \/ Analyze(k) \/ Create(k) \/ (\E how \in Ended : SessionEnds(k, how))
        \/ Created(k) \/ Polled(k) \/ Paused(k) \/ Fetched(k) \/ RequestFails(k)

\* Requests are answered, and pauses end.  Nothing is assumed of the session.
Advances(k) == Created(k) \/ Polled(k) \/ Paused(k) \/ Fetched(k) \/ RequestFails(k)
Fairness == \A k \in Commands : WF_vars(Advances(k))
Spec == Init /\ [][Next]_vars /\ Fairness
-----------------------------------------------------------------------------
(* Properties *)

VsCodeTypeOK ==
    /\ token \in BOOLEAN
    /\ at \in [Commands -> Awaiting \cup {"off", "ended"}]
    /\ polls \in [Commands -> 0 .. MaxPolls]
    /\ session \in [Commands -> Ended \cup {"none", "RUNNING"}]
    /\ problems \in Commands \cup {NoCommand}

\* The progress notification of a command goes away, also when the session
\* runs on: it cannot be cancelled.
CommandsEnd == \A k \in Commands : at[k] \in Awaiting ~> at[k] = "ended"

=============================================================================
