---------------------------- MODULE AnalysisView ----------------------------
(***************************************************************************)
(* The analysis as the editor page shows it: the store useSecureStore and  *)
(* the hooks and dialogs that change it.  Everything runs on one thread,   *)
(* so a handler is atomic up to its next await; what is awaited is in      *)
(* "asked", answered in any order, and an answer is applied to whatever    *)
(* the store holds by then.  The stream of the followed session is only    *)
(* its promise here: EventRelay has its detail.                            *)
(***************************************************************************)
EXTENDS Naturals, FiniteSets, Sequences

CONSTANTS
    Sessions, Projects, None,
    ProjectOf,    \* session -> its project
    MaxClicks,    \* bound: what the user does in a behaviour
    MaxAsked      \* bound: requests in flight at a time

ASSUME ViewAssumption ==
    /\ None \notin Sessions \cup Projects
    /\ ProjectOf \in [Sessions -> Projects]
    /\ MaxClicks \in Nat /\ MaxAsked \in Nat

VARIABLES
    phase,      \* session -> its state in the backend
    project, locked, loaded,  \* projectId, lockedSessionId # null, loadedRef
    analyzing,  \* isAnalyzing
    sse,        \* sseSessionId
    stream,     \* the stream of sse: "live" (also reconnecting), or "closed"
    plan,       \* session whose plan waits in the confirmation dialog
    vulns,      \* <<session, number>> in the order of the list
    patches,    \* session whose patches are shown
    offer,      \* project for which a toast offers to start afresh
    asked,      \* requests in flight
    clicks

shown == <<plan, vulns, patches>>
proj  == <<project, locked, loaded, offer>>
live  == <<analyzing, sse, stream>>
vars  == <<phase, proj, live, shown, asked, clicks>>

Unfinished == {"created", "running", "awaiting"}
Ended  == {"completed", "error"}
\* "stopped": cancelled or interrupted.
Phases == Unfinished \cup Ended \cup {"none", "stopped"}
\* Steps of the hooks that await an answer, and what the request is about.
OfSession == {"loadList", "loadPatches", "doneList", "donePatches", "history",
              "ctxList", "confirm"}
OfProject == {"latest", "ctxLatest", "create", "force"}
Requests == (OfSession \X Sessions) \cup (OfProject \X Projects)
            \cup ({"project"} \X Projects)
Ask(rs) == asked' = asked \cup rs
Starts == {r \in asked : r[1] \in {"project", "create", "force"}}

Init ==
    /\ phase \in [Sessions -> {"none", "running", "completed"}]
    /\ project \in Projects \cup {None} /\ locked = FALSE /\ loaded = None
    /\ offer = None
    /\ analyzing = FALSE /\ sse = None /\ stream = "closed"
    /\ plan = None /\ vulns = <<>> /\ patches = None
    /\ asked = {} /\ clicks = 0

\* What the backend answers for a session: no findings, or some of them (one).
Items == {0, 1}
AddVulns(list, s, n) == list \o [i \in 1 .. n |-> <<s, i>>]
\* Mutant: the list is not cleared first.
NotReplaced(list, s, n) == AddVulns(list, s, n)

\* clearVulns, then addVuln for every item.
Replaced(list, s, n) == AddVulns(<<>>, s, n)

\* setSseSessionId: for another session the effect of useSse connects, or has
\* no token and stops the spinner.
Follow(s, busy) ==
    /\ sse' = s
    /\ \/ s = sse /\ analyzing' = busy /\ stream' = stream
       \/ s # sse /\ analyzing' = busy /\ stream' = "live"
       \/ s # sse /\ analyzing' = FALSE /\ stream' = "closed"
-----------------------------------------------------------------------------
(* The session in the backend, and its events while the page follows it *)

Watched(s) == sse = s /\ stream = "live"

\* Its task starts, or is resumed.
Begin(s) ==
    /\ phase[s] \in {"created", "stopped"}
    /\ phase' = [phase EXCEPT ![s] = "running"]
    /\ plan' = IF Watched(s) THEN None ELSE plan
    /\ UNCHANGED <<proj, live, vulns, patches, asked, clicks>>

Await(s) ==
    /\ phase[s] = "running"
    /\ phase' = [phase EXCEPT ![s] = "awaiting"]
    /\ \/ Watched(s) /\ plan' = s /\ analyzing' = FALSE
       \/ ~Watched(s) /\ UNCHANGED <<plan, analyzing>>
    /\ UNCHANGED <<proj, sse, stream, vulns, patches, asked, clicks>>

ServeConfirm(s) ==
    /\ <<"confirm", s>> \in asked /\ phase[s] = "awaiting"
    /\ phase' = [phase EXCEPT ![s] = "running"]
    /\ UNCHANGED <<proj, live, shown, asked, clicks>>

\* A stopped session ends too if its task had come too far to notice.
End(s) ==
    /\ phase[s] \in {"running", "awaiting", "stopped"}
    /\ \E p \in Ended : phase' = [phase EXCEPT ![s] = p]
    /\ UNCHANGED <<proj, live, shown, asked, clicks>>

\* A cancel, a forced start of another session, or the scheduler: no event
\* that the page knows, and no end that a new stream replays.
Stop(s) ==
    /\ phase[s] \in Unfinished
    /\ phase' = [phase EXCEPT ![s] = "stopped"]
    /\ UNCHANGED <<proj, live, shown, asked, clicks>>

\* Mutant: the end is seen, and the spinner turns on.
SeeEndSpinning ==
    /\ stream = "live" /\ phase[sse] \in Ended
    /\ stream' = "closed" /\ analyzing' = analyzing
    /\ Ask(IF phase[sse] = "completed"
             THEN {<<"doneList", sse>>, <<"donePatches", sse>>} ELSE {})
    /\ UNCHANGED <<phase, proj, sse, shown, clicks>>

\* The event that ends the stream, live or replayed.
SeeEnd ==
    /\ stream = "live" /\ phase[sse] \in Ended
    /\ stream' = "closed" /\ analyzing' = FALSE
    /\ Ask(IF phase[sse] = "completed"
             THEN {<<"doneList", sse>>, <<"donePatches", sse>>} ELSE {})
    /\ UNCHANGED <<phase, proj, sse, shown, clicks>>

\* The stream ends without a word, or is refused: onStatusChange.  One that
\* breaks is "reconnecting", and the spinner turns on.
StreamStops ==
    /\ stream = "live" /\ stream' = "closed" /\ analyzing' = FALSE
    /\ UNCHANGED <<phase, proj, sse, shown, asked, clicks>>
-----------------------------------------------------------------------------
(* The user *)

Click == clicks < MaxClicks /\ clicks' = clicks + 1 /\ Cardinality(asked) < MaxAsked

\* startAnalysis: the button is dead while isAnalyzing.
StartAnalysis ==
    /\ Click /\ ~analyzing
    /\ analyzing' = TRUE /\ vulns' = <<>>
    /\ \/ project = None /\ \E p \in Projects : Ask({<<"project", p>>})
       \/ project # None /\ Ask({<<"create", project>>})
    /\ UNCHANGED <<phase, proj, sse, stream, plan, patches>>

\* Mutant: without a project.
StartSelectiveOfNone ==
    /\ Click /\ ~analyzing
    /\ analyzing' = TRUE /\ vulns' = <<>>
    /\ Ask({<<"force", project>>})
    /\ UNCHANGED <<phase, proj, sse, stream, plan, patches>>

\* startSelectiveAnalysis.
StartSelective ==
    /\ Click /\ ~analyzing /\ project # None
    /\ analyzing' = TRUE /\ vulns' = <<>>
    /\ Ask({<<"force", project>>})
    /\ UNCHANGED <<phase, proj, sse, stream, plan, patches>>

\* The answer "already running" leaves a button in a toast for four seconds,
\* and what has happened meanwhile does not matter to it.
RestartFromToast ==
    /\ Click /\ offer # None
    /\ analyzing' = TRUE /\ vulns' = <<>>
    /\ Ask({<<"force", offer>>}) /\ offer' = None
    /\ UNCHANGED <<phase, project, locked, loaded, sse, stream, plan, patches>>
ToastFades ==
    /\ offer # None /\ offer' = None
    /\ UNCHANGED <<phase, project, locked, loaded, live, shown, asked, clicks>>

\* handleLoadRunning, from a list of sessions that may be old.
LoadRunning(s) ==
    /\ Click /\ phase[s] # "none"
    /\ project' = ProjectOf[s] /\ UNCHANGED <<loaded, offer>>
    /\ locked' = (locked \/ ProjectOf[s] # project)
    /\ Follow(s, TRUE)
    /\ UNCHANGED <<phase, shown, asked>>

\* handleLoad.
LoadHistory(s) ==
    /\ Click /\ phase[s] \in {"completed", "error"}
    /\ Ask({<<"history", s>>})
    /\ UNCHANGED <<phase, proj, live, shown>>

\* handleCtxActivate, and handleCtxLoadLatest.
Activate(p) ==
    /\ Click
    /\ project' = p /\ locked' = FALSE /\ UNCHANGED <<loaded, offer>>
    /\ UNCHANGED <<phase, live, shown, asked>>
CtxLoadLatest(p) ==
    /\ Click /\ Ask({<<"ctxLatest", p>>})
    /\ UNCHANGED <<phase, proj, live, shown>>

\* The dialog sends the plan it shows with the session that is followed.
Confirm ==
    /\ Click /\ plan # None /\ sse # None
    /\ Ask({<<"confirm", sse>>})
    /\ UNCHANGED <<phase, proj, live, shown>>
CloseDialog ==
    /\ plan # None /\ plan' = None
    /\ UNCHANGED <<phase, proj, live, vulns, patches, asked, clicks>>

\* The effect of useLoadLatestResults, after the render of a new project.
LoadEffect ==
    /\ project \notin {None, loaded}
    /\ locked \/ Cardinality(asked) < MaxAsked
    /\ loaded' = project
    /\ Ask(IF locked THEN {} ELSE {<<"latest", project>>})
    /\ UNCHANGED <<phase, project, locked, offer, live, shown, clicks>>
-----------------------------------------------------------------------------
(* Answers.  "rest" is what is asked next. *)

Taken(r, rest) == r \in asked /\ asked' = (asked \ {r}) \cup rest

\* createSession.
Created(op, p, s) ==
    /\ Taken(<<op, p>>, {})
    /\ ProjectOf[s] = p /\ phase[s] = "none"
    /\ op = "force" \/ \A t \in Sessions : ProjectOf[t] = p => phase[t] \notin Unfinished
    /\ phase' = [phase EXCEPT ![s] = "created"]
    /\ Follow(s, analyzing)
    /\ UNCHANGED <<proj, shown, clicks>>

\* SESSION_ALREADY_RUNNING, and any other failure of a start.
AlreadyRunning(p) ==
    /\ Taken(<<"create", p>>, {})
    /\ \E t \in Sessions : ProjectOf[t] = p /\ phase[t] \in Unfinished
    /\ analyzing' = FALSE /\ offer' = p
    /\ UNCHANGED <<phase, project, locked, loaded, sse, stream, shown, clicks>>

StartFails(r) ==
    /\ r \in Starts /\ Taken(r, {})
    /\ analyzing' = FALSE
    /\ UNCHANGED <<phase, proj, sse, stream, shown, clicks>>

\* The project was created or found.
GotProject(p) ==
    /\ Taken(<<"project", p>>, {<<"create", p>>})
    /\ project' = p /\ locked' = FALSE /\ UNCHANGED <<loaded, offer>>
    /\ UNCHANGED <<phase, live, shown, clicks>>

\* load(): the completed session first, a running one otherwise.
GotLatest(p, s) ==
    /\ Taken(<<"latest", p>>, {<<"loadList", s>>}) /\ ProjectOf[s] = p
    /\ \/ /\ phase[s] = "completed" /\ UNCHANGED live
       \/ /\ phase[s] = "running"
          /\ \A t \in Sessions : ProjectOf[t] = p => phase[t] # "completed"
          /\ Follow(s, TRUE)
    /\ UNCHANGED <<phase, proj, shown, clicks>>

GotLoadList(s, n) ==
    /\ Taken(<<"loadList", s>>, IF n = 0 THEN {} ELSE {<<"loadPatches", s>>})
    /\ vulns' = IF n = 0 THEN vulns ELSE Replaced(vulns, s, n)
    /\ UNCHANGED <<phase, proj, live, plan, patches, clicks>>

\* The answers to the two requests of the event "completed".
GotDoneList(s, n) ==
    /\ Taken(<<"doneList", s>>, {})
    /\ vulns' = Replaced(vulns, s, n)
    /\ UNCHANGED <<phase, proj, live, plan, patches, clicks>>
GotPatches(op, s) ==
    /\ Taken(<<op, s>>, {}) /\ patches' = s
    /\ UNCHANGED <<phase, proj, live, plan, vulns, clicks>>

GotHistory(s, n) ==
    /\ Taken(<<"history", s>>, {})
    /\ project' = ProjectOf[s] /\ UNCHANGED <<loaded, offer>>
    /\ locked' = (locked \/ ProjectOf[s] # project)
    /\ vulns' = Replaced(vulns, s, n)
    /\ patches' = s
    /\ UNCHANGED <<phase, live, plan, clicks>>

GotCtxLatest(p, s) ==
    /\ ProjectOf[s] = p /\ phase[s] = "completed"
    /\ Taken(<<"ctxLatest", p>>, {<<"ctxList", s>>})
    /\ UNCHANGED <<phase, proj, live, shown, clicks>>
GotCtxList(s, n) ==
    /\ Taken(<<"ctxList", s>>, {})
    /\ vulns' = Replaced(vulns, s, n)
    /\ project' = ProjectOf[s] /\ locked' = FALSE /\ UNCHANGED <<loaded, offer>>
    /\ UNCHANGED <<phase, live, plan, patches, clicks>>

\* confirmPlan: whether it worked or not, the dialog closes.
Confirmed(s, ok) ==
    /\ Taken(<<"confirm", s>>, {})
    /\ ok => phase[s] # "awaiting"
    /\ plan' = None
    /\ analyzing' = (ok \/ analyzing)
    /\ UNCHANGED <<phase, proj, sse, stream, vulns, patches, clicks>>

\* Any other request fails, or finds nothing, and changes nothing.
Failed(r) ==
    /\ r[1] # "confirm" /\ r \notin Starts /\ Taken(r, {})
    /\ UNCHANGED <<phase, proj, live, shown, clicks>>
-----------------------------------------------------------------------------
Backend == \E s \in Sessions :
    Begin(s) \/ Await(s) \/ ServeConfirm(s) \/ End(s) \/ Stop(s)
Stream == SeeEnd \/ StreamStops
User ==
    \/ StartAnalysis \/ StartSelective \/ Confirm \/ CloseDialog \/ LoadEffect
    \/ RestartFromToast \/ ToastFades
    \/ \E p \in Projects : Activate(p) \/ CtxLoadLatest(p)
    \/ \E s \in Sessions : LoadRunning(s) \/ LoadHistory(s)
StartAnswer ==
    \/ \E p \in Projects, s \in Sessions, op \in {"create", "force"} : Created(op, p, s)
    \/ \E p \in Projects : GotProject(p) \/ AlreadyRunning(p)
    \/ \E r \in asked : StartFails(r)
Answer ==
    \/ \E p \in Projects, s \in Sessions : GotLatest(p, s) \/ GotCtxLatest(p, s)
    \/ \E s \in Sessions :
         \/ \E n \in Items :
              GotLoadList(s, n) \/ GotDoneList(s, n) \/ GotHistory(s, n) \/ GotCtxList(s, n)
         \/ GotPatches("loadPatches", s) \/ GotPatches("donePatches", s)
         \/ \E ok \in BOOLEAN : Confirmed(s, ok)
    \/ \E r \in asked : Failed(r)

Next == Backend \/ Stream \/ User \/ StartAnswer \/ Answer

\* A start is answered.  Of a stream only what EventRelay shows is assumed
\* (EndIsLearned): that of a session which is over ends.
Over == stream = "live" /\ phase[sse] \in Ended
Spec     == Init /\ [][Next]_vars
FairSpec == Spec /\ WF_vars(Over /\ Stream) /\ WF_vars(StartAnswer)
-----------------------------------------------------------------------------
(* Properties *)

ViewTypeOK ==
    /\ phase \in [Sessions -> Phases]
    /\ project \in Projects \cup {None} /\ locked \in BOOLEAN
    /\ loaded \in Projects \cup {None} /\ offer \in Projects \cup {None}
    /\ analyzing \in BOOLEAN /\ sse \in Sessions \cup {None}
    /\ stream \in {"live", "closed"} /\ (stream = "live" => sse # None)
    /\ plan \in Sessions \cup {None} /\ patches \in Sessions \cup {None}
    /\ vulns \in Seq(Sessions \X Nat)
    /\ asked \subseteq Requests /\ clicks \in 0 .. MaxClicks

\* Whatever answers meet in whatever order, the list holds findings of one
\* session, and each of them once.
OneListAtATime == \A i, j \in 1 .. Len(vulns) :
    /\ vulns[i][1] = vulns[j][1]
    /\ i # j => vulns[i] # vulns[j]

\* The spinner of a start that is on its way, or of a followed session that is
\* over, stops, unless the page comes to follow a session that is not over: of
\* one that is stopped, or never ends, it may turn for ever.
Following == Starts = {} /\ stream = "live" /\ phase[sse] \notin Ended
SpinnerEnds == analyzing /\ (Starts # {} \/ Over) ~> ~analyzing \/ Following

\* The spinner turns for something that can still end it.
NoGhostSpinner == analyzing => stream = "live" \/ Starts # {}
\* The plan in the dialog is of the session it is confirmed for.
PlanOfFollowed == plan \in {None, sse}
\* A list that was loaded from the history stays until somebody asks for
\* another: no automatic load replaces it.
LockedListStays == [][locked /\ locked' /\ vulns' # vulns =>
    \A s \in Sessions : <<"loadList", s>> \in asked => <<"loadList", s>> \in asked']_vars
\* One start is on its way at a time.
OneStart == Cardinality(Starts) <= 1
=============================================================================
