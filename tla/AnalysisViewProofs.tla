------------------------- MODULE AnalysisViewProofs -------------------------
(***************************************************************************)
(* The findings list of the editor page is that of one session, each       *)
(* finding once, for any sessions, any number of requests under way and    *)
(* any order of their answers.  The invariant says where in the list a     *)
(* finding is: its number is its place, so no two places agree.            *)
(***************************************************************************)
EXTENDS AnalysisView, SequenceTheorems, TLAPS

\* The list is the numbered list of one session.
InPlace == \A i, j \in 1 .. Len(vulns) :
    vulns[i][2] = i /\ vulns[i][1] = vulns[j][1]

ViewInv == ViewTypeOK /\ InPlace
-----------------------------------------------------------------------------
\* clearVulns and addVuln: the list an answer leaves, whatever was there.
LEMMA ReplacedList ==
  ASSUME NEW list, NEW s \in Sessions, NEW n \in Nat
  PROVE  /\ Replaced(list, s, n) \in Seq(Sessions \X Nat)
         /\ Len(Replaced(list, s, n)) = n
         /\ \A i \in 1 .. n : Replaced(list, s, n)[i] = <<s, i>>
<1> DEFINE new == [i \in 1 .. n |-> <<s, i>>]
<1>1. new \in [1 .. n -> Sessions \X Nat]
  OBVIOUS
<1>2. new \in Seq(Sessions \X Nat) /\ \A i \in 1 .. n : new[i] = <<s, i>>
  BY <1>1, SeqDef
<1>3. Len(new) = n
  BY <1>2, LenProperties
<1> HIDE DEF new
<1>4. <<>> \o new = new
  BY <1>2, ConcatEmptySeq
<1>5. Replaced(list, s, n) = new
  BY <1>4 DEF Replaced, AddVulns, new
<1> QED BY <1>2, <1>3, <1>5

\* What the store and the list have of their types after a step.
StoreOK ==
    /\ project \in Projects \cup {None} /\ locked \in BOOLEAN
    /\ loaded \in Projects \cup {None} /\ offer \in Projects \cup {None}
    /\ plan \in Sessions \cup {None} /\ patches \in Sessions \cup {None}
SpinnerOK ==
    /\ analyzing \in BOOLEAN /\ sse \in Sessions \cup {None}
    /\ stream \in {"live", "closed"} /\ (stream = "live" => sse # None)
ListOK == vulns \in Seq(Sessions \X Nat) /\ InPlace

LEMMA Parts ==
    /\ ViewInv <=> /\ phase \in [Sessions -> Phases] /\ StoreOK /\ SpinnerOK /\ ListOK
                   /\ asked \subseteq Requests /\ clicks \in 0 .. MaxClicks
    /\ ViewInv' <=> /\ phase' \in [Sessions -> Phases] /\ StoreOK' /\ SpinnerOK' /\ ListOK'
                    /\ asked' \subseteq Requests /\ clicks' \in 0 .. MaxClicks
  BY DEF ViewInv, ViewTypeOK, StoreOK, SpinnerOK, ListOK

\* A list that is left alone, cleared, or replaced.
LEMMA ListKept == ListOK /\ vulns' = vulns => ListOK'
  BY DEF ListOK, InPlace
LEMMA ListCleared == vulns' = <<>> => ListOK'
  BY DEF ListOK, InPlace
LEMMA ListReplaced ==
  ASSUME NEW s \in Sessions, NEW n \in Items, vulns' = Replaced(vulns, s, n)
  PROVE  ListOK'
<1>1. n \in Nat
  BY DEF Items
<1>2. /\ vulns' \in Seq(Sessions \X Nat) /\ Len(vulns') = n
      /\ \A i \in 1 .. n : vulns'[i] = <<s, i>>
  BY <1>1, ReplacedList
<1>3. \A i \in 1 .. n : vulns'[i][1] = s /\ vulns'[i][2] = i
  BY <1>2
<1> QED BY <1>2, <1>3 DEF ListOK, InPlace

\* A request that is sent, and one that is answered.
LEMMA AskedMore == \A rs : rs \subseteq Requests /\ asked \subseteq Requests /\ Ask(rs)
                            => asked' \subseteq Requests
  BY DEF Ask
LEMMA AskedOn == \A r, rest : rest \subseteq Requests /\ asked \subseteq Requests /\ Taken(r, rest)
                            => asked' \subseteq Requests
  BY DEF Taken
LEMMA RequestTypes ==
    /\ \A s \in Sessions, op \in OfSession : <<op, s>> \in Requests
    /\ \A p \in Projects, op \in OfProject \cup {"project"} : <<op, p>> \in Requests
  BY DEF Requests

\* setSseSessionId
LEMMA Follows ==
  ASSUME SpinnerOK, NEW s \in Sessions, NEW busy \in BOOLEAN, Follow(s, busy)
  PROVE  SpinnerOK'
  BY ViewAssumption DEF SpinnerOK, Follow

LEMMA ClickCounts == Click /\ clicks \in 0 .. MaxClicks => clicks' \in 0 .. MaxClicks
  BY ViewAssumption DEF Click
-----------------------------------------------------------------------------
LEMMA ViewInit == Init => ViewInv
<1> SUFFICES ASSUME Init PROVE ViewInv
  OBVIOUS
<1>1. phase \in [Sessions -> Phases]
  BY DEF Init, Phases, Unfinished, Ended
<1>2. StoreOK
  BY DEF Init, StoreOK
<1>3. SpinnerOK
  BY DEF Init, SpinnerOK
<1>4. asked \subseteq Requests /\ clicks \in 0 .. MaxClicks
  BY ViewAssumption DEF Init
<1>5. ListOK
  BY DEF Init, ListOK, InPlace
<1> QED BY <1>1, <1>2, <1>3, <1>4, <1>5, Parts

\* The session goes on in the backend, and its events reach the page.
LEMMA BackendKeeps == ViewInv /\ (Backend \/ Stream) => ViewInv'
<1> SUFFICES ASSUME ViewInv, Backend \/ Stream PROVE ViewInv'
  OBVIOUS
<1>1. /\ phase \in [Sessions -> Phases] /\ StoreOK /\ SpinnerOK /\ ListOK
      /\ asked \subseteq Requests /\ clicks \in 0 .. MaxClicks
  BY Parts
<1>2. ASSUME NEW s \in Sessions, Begin(s) \/ Await(s) \/ ServeConfirm(s) \/ End(s) \/ Stop(s)
      PROVE  ViewInv'
  <2>1. phase' \in [Sessions -> Phases]
    BY <1>1, <1>2 DEF Begin, Await, ServeConfirm, End, Stop, Phases, Unfinished, Ended
  <2>2. StoreOK' /\ SpinnerOK'
    BY <1>1, <1>2 DEF Begin, Await, ServeConfirm, End, Stop, StoreOK, SpinnerOK, proj, live, shown
  <2>3. ListOK' /\ asked' = asked /\ clicks' = clicks
    BY <1>1, <1>2, ListKept DEF Begin, Await, ServeConfirm, End, Stop, proj, live, shown
  <2> QED BY <1>1, <2>1, <2>2, <2>3, Parts
<1>3. CASE SeeEnd
  <2>1. StoreOK' /\ SpinnerOK' /\ ListOK' /\ phase' = phase /\ clicks' = clicks
    BY <1>1, <1>3, ListKept DEF SeeEnd, StoreOK, SpinnerOK, proj, live, shown
  <2>2. sse \in Sessions
    BY <1>1, <1>3 DEF SeeEnd, SpinnerOK
  <2>3. {<<"doneList", sse>>, <<"donePatches", sse>>} \subseteq Requests
    BY <2>2, RequestTypes DEF OfSession
  <2>4. asked' \subseteq Requests
    BY <1>1, <1>3, <2>3 DEF SeeEnd, Ask
  <2> QED BY <1>1, <2>1, <2>4, Parts
<1>4. CASE StreamStops
  <2>1. StoreOK' /\ SpinnerOK' /\ ListOK' /\ phase' = phase /\ clicks' = clicks /\ asked' = asked
    BY <1>1, <1>4, ListKept DEF StreamStops, StoreOK, SpinnerOK, proj, live, shown
  <2> QED BY <1>1, <2>1, Parts
<1> QED BY <1>2, <1>3, <1>4 DEF Backend, Stream

\* What the user does, and the effect that loads the latest results.
LEMMA UserKeeps == ViewInv /\ User => ViewInv'
<1> SUFFICES ASSUME ViewInv, User PROVE ViewInv'
  OBVIOUS
<1>1. /\ phase \in [Sessions -> Phases] /\ StoreOK /\ SpinnerOK /\ ListOK
      /\ asked \subseteq Requests /\ clicks \in 0 .. MaxClicks
  BY Parts
<1>2. ASSUME analyzing' = TRUE, vulns' = <<>>, clicks' \in 0 .. MaxClicks,
             NEW r \in Requests, Ask({r}), offer' \in {offer, None},
             UNCHANGED <<phase, project, locked, loaded, sse, stream, plan, patches>>
      PROVE  ViewInv'
  <2>1. StoreOK' /\ SpinnerOK' /\ ListOK' /\ asked' \subseteq Requests
    BY <1>1, <1>2, ListCleared DEF StoreOK, SpinnerOK, Ask
  <2> QED BY <1>1, <1>2, <2>1, Parts
<1>3. CASE StartAnalysis
  <2>1. PICK r \in Requests : Ask({r})
    <3>1. CASE project = None
      BY <1>3, <3>1, RequestTypes DEF StartAnalysis
    <3>2. CASE project # None
      BY <1>1, <1>3, <3>2, RequestTypes DEF StartAnalysis, StoreOK, OfProject
    <3> QED BY <3>1, <3>2
  <2> QED BY <1>1, <1>2, <1>3, <2>1, ClickCounts DEF StartAnalysis, proj
<1>4. CASE StartSelective
  <2>1. <<"force", project>> \in Requests
    BY <1>1, <1>4, RequestTypes DEF StartSelective, StoreOK, OfProject
  <2> QED BY <1>1, <1>2, <1>4, <2>1, ClickCounts DEF StartSelective, proj
<1>5. CASE RestartFromToast
  <2>1. <<"force", offer>> \in Requests
    BY <1>1, <1>5, RequestTypes DEF RestartFromToast, StoreOK, OfProject
  <2> QED BY <1>1, <1>2, <1>5, <2>1, ClickCounts DEF RestartFromToast
<1>6. CASE ToastFades
  BY <1>1, <1>6, ListKept, Parts DEF ToastFades, StoreOK, SpinnerOK, live, shown
<1>7. ASSUME NEW s \in Sessions, LoadRunning(s) PROVE ViewInv'
  <2>1. StoreOK'
    BY <1>1, <1>7, ViewAssumption DEF LoadRunning, StoreOK, shown
  <2>2. SpinnerOK'
    BY <1>1, <1>7, Follows DEF LoadRunning
  <2> QED BY <1>1, <1>7, <2>1, <2>2, ClickCounts, ListKept, Parts DEF LoadRunning, shown
<1>8. ASSUME NEW s \in Sessions, LoadHistory(s) PROVE ViewInv'
  <2>1. asked' \subseteq Requests
    BY <1>1, <1>8, RequestTypes DEF LoadHistory, Ask, OfSession
  <2> QED BY <1>1, <1>8, <2>1, ClickCounts, ListKept, Parts
          DEF LoadHistory, StoreOK, SpinnerOK, proj, live, shown
<1>9. ASSUME NEW p \in Projects, Activate(p) PROVE ViewInv'
  BY <1>1, <1>9, ClickCounts, ListKept, Parts DEF Activate, StoreOK, SpinnerOK, live, shown
<1>10. ASSUME NEW p \in Projects, CtxLoadLatest(p) PROVE ViewInv'
  <2>1. asked' \subseteq Requests
    BY <1>1, <1>10, RequestTypes DEF CtxLoadLatest, Ask, OfProject
  <2> QED BY <1>1, <1>10, <2>1, ClickCounts, ListKept, Parts
          DEF CtxLoadLatest, StoreOK, SpinnerOK, proj, live, shown
<1>11. CASE Confirm
  <2>1. asked' \subseteq Requests
    BY <1>1, <1>11, RequestTypes DEF Confirm, Ask, OfSession, SpinnerOK
  <2> QED BY <1>1, <1>11, <2>1, ClickCounts, ListKept, Parts
          DEF Confirm, StoreOK, SpinnerOK, proj, live, shown
<1>12. CASE CloseDialog
  BY <1>1, <1>12, ListKept, Parts DEF CloseDialog, StoreOK, SpinnerOK, proj, live
<1>13. CASE LoadEffect
  <2>1. asked' \subseteq Requests
    <3>1. <<"latest", project>> \in Requests
      BY <1>1, <1>13, RequestTypes DEF LoadEffect, StoreOK, OfProject
    <3> QED BY <1>1, <1>13, <3>1 DEF LoadEffect, Ask
  <2> QED BY <1>1, <1>13, <2>1, ListKept, Parts DEF LoadEffect, StoreOK, SpinnerOK, live, shown
<1> QED BY <1>3, <1>4, <1>5, <1>6, <1>7, <1>8, <1>9, <1>10, <1>11, <1>12, <1>13 DEF User

\* The answers to a start.
LEMMA StartAnswerKeeps == ViewInv /\ StartAnswer => ViewInv'
<1> SUFFICES ASSUME ViewInv, StartAnswer PROVE ViewInv'
  OBVIOUS
<1>1. /\ phase \in [Sessions -> Phases] /\ StoreOK /\ SpinnerOK /\ ListOK
      /\ asked \subseteq Requests /\ clicks \in 0 .. MaxClicks
  BY Parts
<1>2. ASSUME NEW p \in Projects, NEW s \in Sessions, NEW op \in {"create", "force"}, Created(op, p, s)
      PROVE  ViewInv'
  <2>1. phase' \in [Sessions -> Phases]
    BY <1>1, <1>2 DEF Created, Phases, Unfinished
  <2>2. SpinnerOK'
    BY <1>1, <1>2, Follows DEF Created, SpinnerOK
  <2>3. asked' \subseteq Requests
    BY <1>1, <1>2 DEF Created, Taken
  <2> QED BY <1>1, <1>2, <2>1, <2>2, <2>3, ListKept, Parts DEF Created, StoreOK, proj, shown
<1>3. ASSUME NEW p \in Projects, GotProject(p) PROVE ViewInv'
  <2>1. asked' \subseteq Requests
    BY <1>1, <1>3, RequestTypes DEF GotProject, Taken, OfProject
  <2> QED BY <1>1, <1>3, <2>1, ListKept, Parts DEF GotProject, StoreOK, SpinnerOK, live, shown
<1>4. ASSUME NEW p \in Projects, AlreadyRunning(p) PROVE ViewInv'
  <2>1. asked' \subseteq Requests
    BY <1>1, <1>4 DEF AlreadyRunning, Taken
  <2> QED BY <1>1, <1>4, <2>1, ListKept, Parts DEF AlreadyRunning, StoreOK, SpinnerOK, shown
<1>5. ASSUME NEW r \in asked, StartFails(r) PROVE ViewInv'
  <2>1. asked' \subseteq Requests
    BY <1>1, <1>5 DEF StartFails, Taken
  <2> QED BY <1>1, <1>5, <2>1, ListKept, Parts DEF StartFails, StoreOK, SpinnerOK, proj, shown
<1> QED BY <1>2, <1>3, <1>4, <1>5 DEF StartAnswer

\* The answers to the other requests, which replace the list.
LEMMA AnswerKeeps == ViewInv /\ Answer => ViewInv'
<1> SUFFICES ASSUME ViewInv, Answer PROVE ViewInv'
  OBVIOUS
<1>1. /\ phase \in [Sessions -> Phases] /\ StoreOK /\ SpinnerOK /\ ListOK
      /\ asked \subseteq Requests /\ clicks \in 0 .. MaxClicks
  BY Parts
<1>2. ASSUME NEW p \in Projects, NEW s \in Sessions, GotLatest(p, s) PROVE ViewInv'
  <2>1. asked' \subseteq Requests
    BY <1>1, <1>2, RequestTypes DEF GotLatest, Taken, OfSession
  <2>2. SpinnerOK'
    BY <1>1, <1>2, Follows DEF GotLatest, SpinnerOK, live
  <2> QED BY <1>1, <1>2, <2>1, <2>2, ListKept, Parts DEF GotLatest, StoreOK, proj, shown
<1>3. ASSUME NEW p \in Projects, NEW s \in Sessions, GotCtxLatest(p, s) PROVE ViewInv'
  <2>1. asked' \subseteq Requests
    BY <1>1, <1>3, RequestTypes DEF GotCtxLatest, Taken, OfSession
  <2> QED BY <1>1, <1>3, <2>1, ListKept, Parts
          DEF GotCtxLatest, StoreOK, SpinnerOK, proj, live, shown
<1>4. ASSUME NEW s \in Sessions, NEW n \in Items, GotLoadList(s, n) PROVE ViewInv'
  <2>1. asked' \subseteq Requests
    BY <1>1, <1>4, RequestTypes DEF GotLoadList, Taken, OfSession
  <2>2. ListOK'
    BY <1>1, <1>4, ListKept, ListReplaced DEF GotLoadList
  <2> QED BY <1>1, <1>4, <2>1, <2>2, Parts DEF GotLoadList, StoreOK, SpinnerOK, proj, live
<1>5. ASSUME NEW s \in Sessions, NEW n \in Items, GotDoneList(s, n) PROVE ViewInv'
  <2>1. asked' \subseteq Requests /\ ListOK'
    BY <1>1, <1>5, ListReplaced DEF GotDoneList, Taken
  <2> QED BY <1>1, <1>5, <2>1, Parts DEF GotDoneList, StoreOK, SpinnerOK, proj, live
<1>6. ASSUME NEW s \in Sessions, NEW n \in Items, GotHistory(s, n) PROVE ViewInv'
  <2>1. asked' \subseteq Requests /\ ListOK'
    BY <1>1, <1>6, ListReplaced DEF GotHistory, Taken
  <2>2. StoreOK'
    BY <1>1, <1>6, ViewAssumption DEF GotHistory, StoreOK
  <2> QED BY <1>1, <1>6, <2>1, <2>2, Parts DEF GotHistory, SpinnerOK, live
<1>7. ASSUME NEW s \in Sessions, NEW n \in Items, GotCtxList(s, n) PROVE ViewInv'
  <2>1. asked' \subseteq Requests /\ ListOK'
    BY <1>1, <1>7, ListReplaced DEF GotCtxList, Taken
  <2>2. StoreOK'
    BY <1>1, <1>7, ViewAssumption DEF GotCtxList, StoreOK
  <2> QED BY <1>1, <1>7, <2>1, <2>2, Parts DEF GotCtxList, SpinnerOK, live
<1>8. ASSUME NEW s \in Sessions, GotPatches("loadPatches", s) \/ GotPatches("donePatches", s)
      PROVE  ViewInv'
  <2>1. asked' \subseteq Requests
    BY <1>1, <1>8 DEF GotPatches, Taken
  <2> QED BY <1>1, <1>8, <2>1, ListKept, Parts DEF GotPatches, StoreOK, SpinnerOK, proj, live
<1>9. ASSUME NEW s \in Sessions, NEW ok \in BOOLEAN, Confirmed(s, ok) PROVE ViewInv'
  <2>1. asked' \subseteq Requests
    BY <1>1, <1>9 DEF Confirmed, Taken
  <2>2. SpinnerOK'
    BY <1>1, <1>9 DEF Confirmed, SpinnerOK
  <2> QED BY <1>1, <1>9, <2>1, <2>2, ListKept, Parts DEF Confirmed, StoreOK, proj
<1>10. ASSUME NEW r \in asked, Failed(r) PROVE ViewInv'
  <2>1. asked' \subseteq Requests
    BY <1>1, <1>10 DEF Failed, Taken
  <2> QED BY <1>1, <1>10, <2>1, ListKept, Parts DEF Failed, StoreOK, SpinnerOK, proj, live, shown
<1> QED BY <1>2, <1>3, <1>4, <1>5, <1>6, <1>7, <1>8, <1>9, <1>10 DEF Answer

LEMMA ViewStep == ViewInv /\ [Next]_vars => ViewInv'
<1>1. ViewInv /\ UNCHANGED vars => ViewInv'
  BY ListKept, Parts DEF vars, proj, live, shown, StoreOK, SpinnerOK
<1> QED BY <1>1, BackendKeeps, UserKeeps, StartAnswerKeeps, AnswerKeeps DEF Next

\* The editor page always satisfies its invariant ...
THEOREM ViewInvariant == Spec => []ViewInv
  BY ViewInit, ViewStep, PTL DEF Spec

\* ... so its variables have their types, and what is asked for is a request of
\* one of the hooks ...
THEOREM ViewTypeCorrect == Spec => []ViewTypeOK
<1>1. ViewInv => ViewTypeOK
  BY DEF ViewInv
<1> QED BY <1>1, ViewInvariant, PTL

\* ... and the list that clearVulns and addVuln make holds the findings of one
\* session, each once, whichever answers meet and in whatever order.
THEOREM ListsAreOfOneSession == Spec => []OneListAtATime
<1>1. ViewInv => OneListAtATime
  BY DEF ViewInv, InPlace, OneListAtATime
<1> QED BY <1>1, ViewInvariant, PTL
=============================================================================
