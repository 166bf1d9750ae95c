---------------------------- MODULE ClientsProofs ----------------------------
(***************************************************************************)
(* Theorems about the clients, for any requests, findings, repositories    *)
(* and numbers of polls.                                                   *)
(*                                                                         *)
(* FindingsPanel: the list agrees with the backend when nothing is under   *)
(* way.  The invariant says what an operation must still know to be able   *)
(* to take its guess back, and that outside "tangled" it is alone with     *)
(* each of its findings.                                                   *)
(*                                                                         *)
(* McpTools: a listing is complete, or marked where it is not.  The        *)
(* invariant says of every item of a directory that was answered that it   *)
(* is still to be listed or has its line.                                  *)
(*                                                                         *)
(* The others have their types, and what waits in them has something to    *)
(* wait for.  Every step of Clients is a step of one of its parts and      *)
(* leaves the others alone, so what is proved of each holds of all.        *)
(***************************************************************************)
EXTENDS Clients, SequenceTheorems, TLAPS

\* An operation that is idle is about nothing, and only one that was served
\* has changed anything, of what it is about.
IdleKnowsNothing == \A o \in Ops :
    /\ state[o] = "idle" => ids[o] = {}
    /\ state[o] # "served" => applied[o] = {}
    /\ applied[o] \subseteq ids[o]

\* At most one operation is about a finding that is not tangled.
Alone == \A o, p \in Ops : \A v \in Vulns \ tangled :
    v \in ids[o] /\ v \in ids[p] => o = p

\* While it waits, the list shows what it asked for, and it holds the status of
\* the backend; once it is served, the one or the other is the status.
CanTakeBack == \A o \in Ops : \A v \in ids[o] \ tangled :
    /\ state[o] = "sent" => shown[v] = NewStatus(action[o]) /\ prev[o][v] = status[v]
    /\ state[o] = "served" =>
         /\ v \in applied[o] => shown[v] = status[v]
         /\ v \notin applied[o] => prev[o][v] = status[v]

\* An answer that was given to a load is still true of all that was not changed
\* since.
AnswersHold == \A l \in loading : \A v \in Vulns \ crossed[l] : found[l][v] = status[v]

PanelInv == /\ FindingsTypeOK /\ IdleKnowsNothing /\ Alone /\ CanTakeBack
            /\ AnswersHold /\ SettledAgrees
-----------------------------------------------------------------------------
\* The status an action asks for is one.
LEMMA NewStatusType == \A a \in Actions : NewStatus(a) \in Statuses
  BY DEF Actions, NewStatus, Statuses

\* A list of statuses changed by another one is such a list.
LEMMA SetAllType ==
  ASSUME NEW list \in [Vulns -> Statuses], NEW vs, NEW by \in [Vulns -> Statuses]
  PROVE  SetAll(list, vs, by) \in [Vulns -> Statuses]
  BY DEF SetAll

LEMMA AllType == \A st \in Statuses : All(st) \in [Vulns -> Statuses]
  BY DEF All

\* Who is about a finding is under way.
LEMMA BusyWhen ==
  ASSUME FindingsTypeOK, IdleKnowsNothing
  PROVE  \A o \in Ops, v \in Vulns : v \in ids[o] => v \in Busy
  BY DEF FindingsTypeOK, IdleKnowsNothing, Busy, Pending

\* What is known of the loads, while they and the backend rest.
LEMMA LoadsRest == AnswersHold /\ UNCHANGED <<status, loads>> => AnswersHold'
  BY DEF AnswersHold, loads

\* FindingsPanel: the invariant holds at the start.
LEMMA PanelInit == Init => PanelInv
<1> SUFFICES ASSUME Init PROVE PanelInv
  OBVIOUS
<1>1. All("open") \in [Vulns -> Statuses]
  BY AllType DEF Statuses
<1>2. FindingsTypeOK
  BY <1>1 DEF Init, FindingsTypeOK, Actions
<1>3. IdleKnowsNothing /\ Alone /\ CanTakeBack /\ AnswersHold /\ SettledAgrees
  BY DEF Init, IdleKnowsNothing, Alone, CanTakeBack, AnswersHold, SettledAgrees
<1> QED BY <1>2, <1>3 DEF PanelInv

\* handleTriage and executeBulkTriage.
LEMMA TriageKeeps ==
  ASSUME PanelInv, NEW o \in Ops, NEW vs \in SUBSET Vulns, NEW a \in Actions, Triage(o, vs, a)
  PROVE  PanelInv'
<1> DEFINE back == SetAll(prev[o], vs, shown)
           list == SetAll(shown, vs, All(NewStatus(a)))
<1>1. back \in [Vulns -> Statuses] /\ list \in [Vulns -> Statuses]
  BY SetAllType, AllType, NewStatusType DEF PanelInv, FindingsTypeOK
<1>2. /\ state' = [state EXCEPT ![o] = "sent"] /\ ids' = [ids EXCEPT ![o] = vs]
      /\ action' = [action EXCEPT ![o] = a] /\ prev' = [prev EXCEPT ![o] = back]
      /\ shown' = list /\ tangled' = tangled \cup (vs \cap Busy)
      /\ UNCHANGED <<status, applied>> /\ state[o] = "idle"
      /\ UNCHANGED <<loading, found, crossed>>
  BY DEF Triage, Tangle, PanelInv, FindingsTypeOK, loads
<1>3. /\ \A v \in vs : back[v] = shown[v] /\ list[v] = NewStatus(a)
      /\ \A v \in Vulns \ vs : list[v] = shown[v]
  BY DEF SetAll, All
<1>4. \A v \in vs \ tangled' : v \notin Busy /\ shown[v] = status[v]
  BY <1>2 DEF PanelInv, SettledAgrees
<1>5. \A v \in vs \ tangled', p \in Ops : v \notin ids[p]
  BY <1>4, BusyWhen DEF PanelInv
<1> HIDE DEF back, list
<1>6. FindingsTypeOK'
  BY <1>1, <1>2 DEF PanelInv, FindingsTypeOK, Busy
<1>7. IdleKnowsNothing'
  BY <1>2 DEF PanelInv, FindingsTypeOK, IdleKnowsNothing
<1>8. Alone'
  BY <1>2, <1>5 DEF PanelInv, FindingsTypeOK, Alone
<1>9. CanTakeBack'
  <2> SUFFICES ASSUME NEW p \in Ops, NEW v \in ids'[p] \ tangled'
               PROVE  /\ state'[p] = "sent" =>
                           shown'[v] = NewStatus(action'[p]) /\ prev'[p][v] = status'[v]
                      /\ state'[p] = "served" =>
                           /\ v \in applied'[p] => shown'[v] = status'[v]
                           /\ v \notin applied'[p] => prev'[p][v] = status'[v]
    BY DEF CanTakeBack
  <2>1. CASE p = o
    <3>1. v \in vs /\ state'[p] = "sent" /\ action'[p] = a /\ prev'[p] = back
      BY <1>2, <2>1 DEF PanelInv, FindingsTypeOK
    <3> QED BY <1>2, <1>3, <1>4, <3>1
  <2>2. CASE p # o
    <3>1. /\ ids'[p] = ids[p] /\ state'[p] = state[p] /\ action'[p] = action[p]
          /\ prev'[p] = prev[p] /\ applied'[p] = applied[p] /\ v \in Vulns
      BY <1>2, <2>2 DEF PanelInv, FindingsTypeOK
    <3>2. v \notin vs /\ shown'[v] = shown[v]
      BY <1>2, <1>3, <1>5, <3>1
    <3> QED BY <1>2, <3>1, <3>2 DEF PanelInv, CanTakeBack
  <2> QED BY <2>1, <2>2
<1>10. SettledAgrees'
  <2> SUFFICES ASSUME NEW v \in Vulns \ (Busy' \cup tangled')
               PROVE  shown'[v] = status'[v]
    BY DEF SettledAgrees
  <2>1. v \notin vs
    BY <1>2 DEF Busy, Pending, PanelInv, FindingsTypeOK
  <2>2. v \notin Busy
    <3> SUFFICES ASSUME NEW p \in Ops, Pending(p), v \in ids[p] PROVE FALSE
      BY DEF Busy
    <3>1. p # o
      BY <1>2 DEF Pending
    <3> QED BY <1>2, <3>1 DEF Busy, Pending, PanelInv, FindingsTypeOK
  <2> QED BY <1>2, <1>3, <2>1, <2>2 DEF PanelInv, SettledAgrees
<1>11. AnswersHold'
  BY <1>2, LoadsRest DEF PanelInv, loads
<1> QED BY <1>6, <1>7, <1>8, <1>9, <1>10, <1>11 DEF PanelInv

\* VulnerabilityService: applyBulkTriage and the triage of one finding.
LEMMA ServeKeeps ==
  ASSUME PanelInv, NEW o \in Ops, NEW can \in SUBSET Vulns, Serve(o, can)
  PROVE  PanelInv'
<1> DEFINE mine == ids[o] \cap can
           new  == SetAll(status, mine, All(NewStatus(action[o])))
<1>1. new \in [Vulns -> Statuses]
  BY SetAllType, AllType, NewStatusType DEF PanelInv, FindingsTypeOK
<1>2. /\ state' = [state EXCEPT ![o] = "served"] /\ applied' = [applied EXCEPT ![o] = mine]
      /\ status' = new /\ UNCHANGED <<shown, ids, action, prev, tangled, loading, found>>
      /\ state[o] = "sent"
      /\ crossed' = [l \in Loads |-> IF l \in loading THEN crossed[l] \cup mine ELSE {}]
  BY DEF Serve
<1>3. /\ \A v \in mine : v \in Vulns => new[v] = NewStatus(action[o])
      /\ \A v \in Vulns \ mine : new[v] = status[v]
  BY DEF SetAll, All
<1>4. mine \subseteq ids[o] /\ mine \subseteq Vulns
  OBVIOUS
<1> HIDE DEF mine, new
<1>5. Busy' = Busy
  BY <1>2 DEF Busy, Pending, PanelInv, FindingsTypeOK
<1>6. FindingsTypeOK'
  BY <1>1, <1>2, <1>4 DEF PanelInv, FindingsTypeOK
<1>7. IdleKnowsNothing'
  BY <1>2, <1>4 DEF PanelInv, FindingsTypeOK, IdleKnowsNothing
<1>8. Alone'
  BY <1>2 DEF PanelInv, Alone
<1>9. CanTakeBack'
  <2> SUFFICES ASSUME NEW p \in Ops, NEW v \in ids[p] \ tangled
               PROVE  /\ state'[p] = "sent" =>
                           shown[v] = NewStatus(action[p]) /\ prev[p][v] = status'[v]
                      /\ state'[p] = "served" =>
                           /\ v \in applied'[p] => shown[v] = status'[v]
                           /\ v \notin applied'[p] => prev[p][v] = status'[v]
    BY <1>2 DEF CanTakeBack
  <2>0. v \in Vulns
    BY DEF PanelInv, FindingsTypeOK
  <2>1. CASE p = o
    <3>1. state'[p] = "served" /\ applied'[p] = mine
      BY <1>2, <2>1 DEF PanelInv, FindingsTypeOK
    <3>2. shown[v] = NewStatus(action[o]) /\ prev[o][v] = status[v]
      BY <1>2, <2>1 DEF PanelInv, CanTakeBack
    <3> QED BY <1>2, <1>3, <2>0, <2>1, <3>1, <3>2
  <2>2. CASE p # o
    <3>1. state'[p] = state[p] /\ applied'[p] = applied[p]
      BY <1>2, <2>2 DEF PanelInv, FindingsTypeOK
    <3>2. v \notin mine /\ status'[v] = status[v]
      BY <1>2, <1>3, <1>4, <2>0, <2>2 DEF PanelInv, Alone
    <3> QED BY <3>1, <3>2 DEF PanelInv, CanTakeBack
  <2> QED BY <2>1, <2>2
<1>10. SettledAgrees'
  <2> SUFFICES ASSUME NEW v \in Vulns \ (Busy \cup tangled)
               PROVE  shown[v] = status'[v]
    BY <1>2, <1>5 DEF SettledAgrees
  <2>1. v \notin mine
    BY <1>4, BusyWhen DEF PanelInv
  <2> QED BY <1>2, <1>3, <2>1 DEF PanelInv, SettledAgrees
<1>11. AnswersHold'
  <2> SUFFICES ASSUME NEW l \in loading, NEW v \in Vulns \ crossed'[l]
               PROVE  found[l][v] = status'[v]
    BY <1>2 DEF AnswersHold
  <2>1. v \notin crossed[l] /\ v \notin mine
    BY <1>2 DEF PanelInv, FindingsTypeOK
  <2> QED BY <1>2, <1>3, <2>1 DEF PanelInv, AnswersHold
<1> QED BY <1>6, <1>7, <1>8, <1>9, <1>10, <1>11 DEF PanelInv

\* The end of an operation, whatever it takes back: it must have the status of
\* the backend for what it takes back, and show it for what it does not.
LEMMA EndKeeps ==
  ASSUME PanelInv, NEW o \in Ops, NEW vs \in SUBSET ids[o], NEW more \in SUBSET Vulns,
         Return(o), shown' = SetAll(shown, vs, prev[o]), tangled' = tangled \cup more,
         UNCHANGED <<status, loads>>,
         \A v \in vs \ (tangled \cup more) : prev[o][v] = status[v],
         \A v \in ids[o] \ (vs \cup tangled \cup more) : shown[v] = status[v]
  PROVE  PanelInv'
<1>1. /\ state' = [state EXCEPT ![o] = "idle"] /\ ids' = [ids EXCEPT ![o] = {}]
      /\ action' = [action EXCEPT ![o] = "CONFIRM"]
      /\ prev' = [prev EXCEPT ![o] = All("open")]
      /\ applied' = [applied EXCEPT ![o] = {}]
  BY DEF Return
<1>2. All("open") \in [Vulns -> Statuses]
  BY AllType DEF Statuses
<1>3. prev[o] \in [Vulns -> Statuses] /\ shown \in [Vulns -> Statuses] /\ vs \subseteq Vulns
  BY DEF PanelInv, FindingsTypeOK
<1>4. shown' \in [Vulns -> Statuses]
  BY <1>3, SetAllType
<1>5. \A v \in Vulns : shown'[v] = IF v \in vs THEN prev[o][v] ELSE shown[v]
  BY DEF SetAll
<1>6. FindingsTypeOK'
  BY <1>1, <1>2, <1>4 DEF PanelInv, FindingsTypeOK, Actions, loads
<1>7. IdleKnowsNothing'
  BY <1>1 DEF PanelInv, FindingsTypeOK, IdleKnowsNothing
<1>8. Alone'
  BY <1>1 DEF PanelInv, FindingsTypeOK, Alone
<1>9. \A p \in Ops : p # o =>
        /\ state'[p] = state[p] /\ ids'[p] = ids[p] /\ action'[p] = action[p]
        /\ prev'[p] = prev[p] /\ applied'[p] = applied[p]
  BY <1>1 DEF PanelInv, FindingsTypeOK
<1>10. CanTakeBack'
  <2> SUFFICES ASSUME NEW p \in Ops, NEW v \in ids'[p] \ tangled'
               PROVE  /\ state'[p] = "sent" =>
                           shown'[v] = NewStatus(action'[p]) /\ prev'[p][v] = status'[v]
                      /\ state'[p] = "served" =>
                           /\ v \in applied'[p] => shown'[v] = status'[v]
                           /\ v \notin applied'[p] => prev'[p][v] = status'[v]
    BY DEF CanTakeBack
  <2>1. p # o
    BY <1>1 DEF PanelInv, FindingsTypeOK
  <2>2. v \in Vulns /\ v \in ids[p] /\ v \notin tangled
    BY <1>9, <2>1 DEF PanelInv, FindingsTypeOK
  <2>3. v \notin vs
    BY <2>1, <2>2 DEF PanelInv, Alone
  <2> QED BY <1>5, <1>9, <2>1, <2>2, <2>3 DEF PanelInv, CanTakeBack
<1>11. SettledAgrees'
  <2> SUFFICES ASSUME NEW v \in Vulns \ (Busy' \cup tangled')
               PROVE  shown'[v] = status[v]
    BY DEF SettledAgrees
  <2>1. CASE v \in ids[o]
    BY <1>5, <2>1
  <2>2. CASE v \notin ids[o]
    <3>1. v \notin Busy
      BY <1>9, <2>2 DEF Busy, Pending
    <3> QED BY <1>5, <2>2, <3>1 DEF PanelInv, SettledAgrees
  <2> QED BY <2>1, <2>2
<1> QED BY <1>6, <1>7, <1>8, <1>10, <1>11, LoadsRest DEF PanelInv

\* The answer of the backend, and the failure of a request.
LEMMA AnswerKeeps ==
  ASSUME PanelInv, NEW o \in Ops, Answer(o)
  PROVE  PanelInv'
<1> DEFINE back == ids[o] \ applied[o]
           none == {}
<1>1. /\ Return(o) /\ shown' = SetAll(shown, back, prev[o])
      /\ tangled' = tangled \cup none /\ state[o] = "served"
      /\ UNCHANGED <<status, loads>>
  BY DEF Answer
<1>2. \A v \in back \ (tangled \cup none) : prev[o][v] = status[v]
  BY <1>1 DEF PanelInv, CanTakeBack
<1>3. \A v \in ids[o] \ (back \cup tangled \cup none) : shown[v] = status[v]
  BY <1>1 DEF PanelInv, CanTakeBack
<1>4. back \in SUBSET ids[o] /\ none \in SUBSET Vulns
  OBVIOUS
<1> HIDE DEF back, none
<1> QED BY <1>1, <1>2, <1>3, <1>4, EndKeeps

LEMMA FailKeeps ==
  ASSUME PanelInv, NEW o \in Ops, Fail(o)
  PROVE  PanelInv'
<1>1. /\ Return(o) /\ shown' = SetAll(shown, ids[o], prev[o])
      /\ tangled' = tangled \cup applied[o] /\ Pending(o)
      /\ UNCHANGED <<status, loads>>
  BY DEF Fail, Tangle
<1>2. applied[o] \in SUBSET Vulns
  BY DEF PanelInv, FindingsTypeOK
<1>3. \A v \in ids[o] \ (tangled \cup applied[o]) : prev[o][v] = status[v]
  BY <1>1 DEF PanelInv, CanTakeBack, Pending
<1>4. \A v \in ids[o] \ (ids[o] \cup tangled \cup applied[o]) : shown[v] = status[v]
  OBVIOUS
<1> QED BY <1>1, <1>2, <1>3, <1>4, EndKeeps

\* The backend answers a load.
LEMMA LoadReadKeeps ==
  ASSUME PanelInv, NEW l \in Loads, LoadRead(l)
  PROVE  PanelInv'
<1>1. /\ loading' = loading \cup {l} /\ found' = [found EXCEPT ![l] = status]
      /\ crossed' = [crossed EXCEPT ![l] = {}]
      /\ UNCHANGED <<status, shown, tangled, state, ids, action, prev, applied>>
  BY DEF LoadRead, ops
<1>2. FindingsTypeOK'
  BY <1>1 DEF PanelInv, FindingsTypeOK
<1>3. IdleKnowsNothing' /\ Alone' /\ CanTakeBack' /\ SettledAgrees'
  BY <1>1 DEF PanelInv, IdleKnowsNothing, Alone, CanTakeBack, SettledAgrees, Busy, Pending
<1>4. AnswersHold'
  <2> SUFFICES ASSUME NEW m \in loading', NEW v \in Vulns \ crossed'[m]
               PROVE  found'[m][v] = status[v]
    BY <1>1 DEF AnswersHold
  <2>1. CASE m = l
    BY <1>1, <2>1 DEF PanelInv, FindingsTypeOK
  <2>2. CASE m # l
    <3>1. m \in loading /\ crossed'[m] = crossed[m] /\ found'[m] = found[m]
      BY <1>1, <2>2 DEF PanelInv, FindingsTypeOK
    <3> QED BY <3>1 DEF PanelInv, AnswersHold
  <2> QED BY <2>1, <2>2
<1> QED BY <1>2, <1>3, <1>4 DEF PanelInv

\* A load that is over: of the others the same is known.
LEMMA LoadEndsKeeps ==
  ASSUME FindingsTypeOK, AnswersHold, NEW l \in Loads, LoadEnds(l), status' = status
  PROVE  /\ AnswersHold' /\ loading' \subseteq Loads
         /\ found' \in [Loads -> [Vulns -> Statuses]] /\ crossed' \in [Loads -> SUBSET Vulns]
<1>1. /\ loading' = loading \ {l} /\ found' = [found EXCEPT ![l] = All("open")]
      /\ crossed' = [crossed EXCEPT ![l] = {}]
  BY DEF LoadEnds
<1>2. All("open") \in [Vulns -> Statuses]
  BY AllType DEF Statuses
<1>3. /\ loading' \subseteq Loads
      /\ found' \in [Loads -> [Vulns -> Statuses]] /\ crossed' \in [Loads -> SUBSET Vulns]
  BY <1>1, <1>2 DEF FindingsTypeOK
<1>4. \A m \in loading' : m \in loading /\ crossed'[m] = crossed[m] /\ found'[m] = found[m]
  BY <1>1 DEF FindingsTypeOK
<1> QED BY <1>3, <1>4 DEF AnswersHold

\* The list becomes what a loader makes of the answer.
LEMMA LoadKeeps ==
  ASSUME PanelInv, NEW l \in Loads, NEW new \in [Vulns -> Statuses], Load(l, new)
  PROVE  PanelInv'
<1> DEFINE other == {v \in Vulns : new[v] # found[l][v]}
<1>1. /\ shown' = new /\ tangled' = Busy \cup crossed[l] \cup other
      /\ UNCHANGED <<status, state, ids, action, prev, applied>>
      /\ LoadEnds(l) /\ l \in loading
  BY DEF Load, LoadEnds, Tangle, ops
<1>2. \A v \in Vulns \ tangled' : new[v] = status[v]
  BY <1>1 DEF PanelInv, AnswersHold
<1>3. other \subseteq Vulns /\ Busy \subseteq Vulns
  BY DEF Busy
<1> HIDE DEF other
<1>4. Busy' = Busy
  BY <1>1 DEF Busy, Pending
<1>5. \A o \in Ops : ids[o] \subseteq Busy
  BY BusyWhen DEF PanelInv, FindingsTypeOK
<1>6. AnswersHold' /\ FindingsTypeOK'
  BY <1>1, <1>3, LoadEndsKeeps DEF PanelInv, FindingsTypeOK
<1>7. IdleKnowsNothing' /\ Alone' /\ CanTakeBack'
  BY <1>1, <1>5 DEF PanelInv, IdleKnowsNothing, Alone, CanTakeBack
<1>8. SettledAgrees'
  BY <1>1, <1>2, <1>4 DEF SettledAgrees
<1> QED BY <1>6, <1>7, <1>8 DEF PanelInv

\* The four loaders, and an answer that is lost.
LEMMA ReloadKeeps ==
  ASSUME PanelInv, NEW l \in Loads, Reload(l) \/ ReloadOpen(l) \/ ReloadFails(l)
  PROVE  PanelInv'
<1>1. CASE Reload(l)
  <2>1. found[l] \in [Vulns -> Statuses]
    BY DEF PanelInv, FindingsTypeOK
  <2> QED BY <1>1, <2>1, LoadKeeps DEF Reload
<1>2. CASE ReloadOpen(l)
  <2>1. All("open") \in [Vulns -> Statuses]
    BY AllType DEF Statuses
  <2> QED BY <1>2, <2>1, LoadKeeps DEF ReloadOpen
<1>3. CASE ReloadFails(l)
  <2>1. /\ LoadEnds(l)
        /\ UNCHANGED <<status, shown, tangled, state, ids, action, prev, applied>>
    BY <1>3 DEF ReloadFails, ops
  <2>2. FindingsTypeOK' /\ AnswersHold'
    BY <2>1, LoadEndsKeeps DEF PanelInv, FindingsTypeOK
  <2>3. IdleKnowsNothing' /\ Alone' /\ CanTakeBack' /\ SettledAgrees'
    BY <2>1 DEF PanelInv, IdleKnowsNothing, Alone, CanTakeBack, SettledAgrees, Busy, Pending
  <2> QED BY <2>2, <2>3 DEF PanelInv
<1> QED BY <1>1, <1>2, <1>3

\* applyPatch.
LEMMA PatchKeeps ==
  ASSUME PanelInv, NEW v \in Vulns, ApplyPatch(v)
  PROVE  PanelInv'
<1>1. shown' = [shown EXCEPT ![v] = "fixed"] /\ tangled' = tangled \cup {v}
      /\ UNCHANGED <<status, state, ids, action, prev, applied, loading, found, crossed>>
  BY DEF ApplyPatch, Tangle, ops, loads
<1>2. Busy' = Busy
  BY <1>1 DEF Busy, Pending
<1>3. \A w \in Vulns \ tangled' : shown'[w] = shown[w]
  BY <1>1 DEF PanelInv, FindingsTypeOK
<1>4. FindingsTypeOK'
  BY <1>1 DEF PanelInv, FindingsTypeOK, Statuses
<1>5. IdleKnowsNothing' /\ Alone' /\ AnswersHold'
  BY <1>1 DEF PanelInv, IdleKnowsNothing, Alone, AnswersHold
<1>6. CanTakeBack'
  BY <1>1, <1>3 DEF PanelInv, FindingsTypeOK, CanTakeBack
<1>7. SettledAgrees'
  BY <1>1, <1>2, <1>3 DEF PanelInv, SettledAgrees
<1> QED BY <1>4, <1>5, <1>6, <1>7 DEF PanelInv

\* Every step of the panel keeps the invariant.
LEMMA PanelStep == PanelInv /\ [Next]_vars => PanelInv'
<1> SUFFICES ASSUME PanelInv, [Next]_vars PROVE PanelInv'
  OBVIOUS
<1>1. ASSUME NEW o \in Ops, NEW vs \in SUBSET Vulns, NEW a \in Actions, Triage(o, vs, a)
      PROVE  PanelInv'
  BY <1>1, TriageKeeps
<1>2. ASSUME NEW o \in Ops, NEW can \in SUBSET Vulns, Serve(o, can) PROVE PanelInv'
  BY <1>2, ServeKeeps
<1>3. ASSUME NEW o \in Ops, Answer(o) \/ Fail(o) PROVE PanelInv'
  BY <1>3, AnswerKeeps, FailKeeps
<1>4. ASSUME NEW v \in Vulns, ApplyPatch(v) PROVE PanelInv'
  BY <1>4, PatchKeeps
<1>5. ASSUME NEW l \in Loads, LoadRead(l) \/ Reload(l) \/ ReloadOpen(l) \/ ReloadFails(l)
      PROVE  PanelInv'
  BY <1>5, LoadReadKeeps, ReloadKeeps
<1>6. CASE UNCHANGED vars
  BY <1>6 DEF vars, ops, loads, PanelInv, FindingsTypeOK, IdleKnowsNothing, Alone,
              CanTakeBack, AnswersHold, SettledAgrees, Busy, Pending
<1> QED BY <1>1, <1>2, <1>3, <1>4, <1>5, <1>6 DEF Next
-----------------------------------------------------------------------------
(* The listing of McpTools.  An item is held when it is still to list or   *)
(* has a line; a directory is open when it was asked for and answered with *)
(* a list.                                                                 *)

Above(d, i)  == Mcp!Above(d, i)
InTodo(c, i) == \E k \in DOMAIN todo[c] : todo[c][k][1] = i
Names(l, i)  == l[1] = i /\ l[2] = FALSE
Marks(l, i)  == l[1] = i /\ l[2] = TRUE
Said(c, i)   == \E k \in DOMAIN out[c] : Names(out[c][k], i)
Missed(c, d) == \E k \in DOMAIN out[c] : Marks(out[c][k], d)
Held(c, i)   == InTodo(c, i) \/ Said(c, i)
AskedFor(c, d) == asking[c] # None /\ asking[c][1] = d
Open(c, d) == ~AskedFor(c, d) /\ ~Missed(c, d) /\ d \notin blank[c]
                /\ (d = Root \/ Said(c, d))

Level1 == {i \in Items : Above(Root, i)}
Level2 == {i \in Items : \E d \in Dirs \cap Level1 : Above(d, i)}
Level3 == {i \in Items : \E d \in Dirs \cap Level2 : Above(d, i)}
OnLevel(i, k) == (k = 1 /\ i \in Level1) \/ (k = 2 /\ i \in Level2) \/ (k = 3 /\ i \in Level3)

\* What is asked for and listed is on the level it is counted at.
DepthsAreLevels(c) ==
    /\ \A k \in DOMAIN todo[c] : OnLevel(todo[c][k][1], todo[c][k][2])
    /\ asking[c] # None =>
         \/ asking[c] = <<Root, 0>>
         \/ /\ asking[c][1] \in Dirs /\ asking[c][2] \in {1, 2}
            /\ OnLevel(asking[c][1], asking[c][2])

\* A call begins with nothing, and asks for a directory below the root when that
\* has its line, for a listing.
AsksInOrder(c) ==
    /\ tool[c] = "none" => answer[c] = "none" /\ asking[c] = None
    /\ answer[c] = "none" => out[c] = <<>>
    /\ answer[c] # "listing" => todo[c] = <<>>
    /\ AskedFor(c, Root) => answer[c] = "none"
    /\ \A d \in Dirs : AskedFor(c, d) =>
         /\ tool[c] = "listing" /\ answer[c] = "listing"
         /\ Said(c, d) /\ ~Missed(c, d) /\ d \notin blank[c]
    /\ answer[c] = "ok" => asking[c] = None

\* Nothing is listed twice, or before the directory it is in was answered.
ListedOnce(c) ==
    /\ \A k, l \in DOMAIN todo[c] : todo[c][k][1] = todo[c][l][1] => k = l
    /\ \A k \in DOMAIN todo[c] : ~Said(c, todo[c][k][1])
    /\ \A k, l \in DOMAIN out[c] : out[c][k] = out[c][l] => k = l
    /\ \A d \in Items : Missed(c, d) \/ d \in blank[c] => Said(c, d)
    /\ \A d \in Dirs \cup {Root}, i \in Items : Above(d, i) /\ Held(c, i) => Open(c, d)

\* A directory comes before its items.
DirectoryFirst(c) == \A d \in Dirs, i \in Items, l \in DOMAIN out[c] :
    Above(d, i) /\ Names(out[c][l], i) =>
        \E k \in DOMAIN out[c] : k < l /\ Names(out[c][k], d)

\* Of an open directory above the depth limit no item is forgotten.
NothingForgotten(c) == tool[c] = "listing" =>
    /\ answer[c] \in {"listing", "ok"} => \A i \in Level1 : Held(c, i)
    /\ \A d \in Dirs \cap (Level1 \cup Level2), i \in Items :
         Open(c, d) /\ Above(d, i) => Held(c, i)

CallInv(c) == DepthsAreLevels(c) /\ AsksInOrder(c) /\ ListedOnce(c)
                /\ DirectoryFirst(c) /\ NothingForgotten(c)
ListingInv == Mcp!ToolsTypeOK /\ \A c \in Calls : CallInv(c)
-----------------------------------------------------------------------------
\* What a line that is added changes.
LEMMA LineAdds ==
  ASSUME Mcp!ToolsTypeOK, NEW c \in Calls, NEW item \in Items, NEW err \in BOOLEAN,
         Mcp!Line(c, item, err)
  PROVE  LET n == Len(out[c]) + 1 IN
         /\ DOMAIN out'[c] = DOMAIN out[c] \cup {n} /\ out'[c][n] = <<item, err>>
         /\ \A k \in DOMAIN out[c] : out'[c][k] = out[c][k] /\ k < n
         /\ \A i \in Items : /\ Said(c, i)' <=> Said(c, i) \/ (i = item /\ err = FALSE)
                             /\ Missed(c, i)' <=> Missed(c, i) \/ (i = item /\ err = TRUE)
         /\ out'[c] \in Seq(Items \X BOOLEAN)
         /\ \A b \in Calls \ {c} : out'[b] = out[b]
<1> DEFINE n == Len(out[c]) + 1
<1>1. out[c] \in Seq(Items \X BOOLEAN) /\ out' = [out EXCEPT ![c] = Append(@, <<item, err>>)]
  BY DEF Mcp!ToolsTypeOK, Mcp!Line
<1>2. out'[c] = Append(out[c], <<item, err>>) /\ \A b \in Calls \ {c} : out'[b] = out[b]
  BY <1>1 DEF Mcp!ToolsTypeOK
<1>3. /\ DOMAIN out'[c] = DOMAIN out[c] \cup {n} /\ out'[c][n] = <<item, err>>
      /\ \A k \in DOMAIN out[c] : out'[c][k] = out[c][k] /\ k < n
      /\ out'[c] \in Seq(Items \X BOOLEAN)
  BY <1>1, <1>2
<1> HIDE DEF n
<1>4. CASE err = TRUE
  <2>1. out'[c][n][1] = item /\ out'[c][n][2] = TRUE
    BY <1>3, <1>4
  <2>2. \A i \in Items : Said(c, i)' <=> Said(c, i)
    BY <1>3, <2>1 DEF Said, Names
  <2>3. \A i \in Items : Missed(c, i)' <=> Missed(c, i) \/ i = item
    BY <1>3, <2>1 DEF Missed, Marks
  <2> QED BY <1>2, <1>3, <1>4, <2>2, <2>3 DEF n
<1>5. CASE err = FALSE
  <2>1. out'[c][n][1] = item /\ out'[c][n][2] = FALSE
    BY <1>3, <1>5
  <2>2. \A i \in Items : Said(c, i)' <=> Said(c, i) \/ i = item
    BY <1>3, <2>1 DEF Said, Names
  <2>3. \A i \in Items : Missed(c, i)' <=> Missed(c, i)
    BY <1>3, <2>1 DEF Missed, Marks
  <2> QED BY <1>2, <1>3, <1>5, <2>2, <2>3 DEF n
<1> QED BY <1>4, <1>5

\* What taking the first item leaves to do.
LEMMA TakesFirst ==
  ASSUME NEW list \in Seq(Items \X Nat), list # <<>>, NEW rest, rest = Tail(list)
  PROVE  /\ rest \in Seq(Items \X Nat) /\ list[1] \in Items \X Nat /\ 1 \in DOMAIN list
         /\ \A k \in DOMAIN rest : k + 1 \in DOMAIN list /\ k + 1 # 1 /\ rest[k] = list[k + 1]
         /\ \A k \in DOMAIN list : k = 1 \/ (k - 1 \in DOMAIN rest /\ rest[k - 1] = list[k])
<1>1. /\ rest \in Seq(Items \X Nat) /\ Len(rest) = Len(list) - 1
      /\ \A k \in 1 .. Len(rest) : rest[k] = list[k + 1]
  BY HeadTailProperties
<1>2. /\ Len(list) \in Nat /\ DOMAIN list = 1 .. Len(list)
      /\ DOMAIN rest = 1 .. Len(rest) /\ \A k \in DOMAIN list : list[k] \in Items \X Nat
  BY <1>1
<1>3. Len(list) >= 1
  BY <1>2, EmptySeq
<1>4. \A k \in DOMAIN rest : k + 1 \in DOMAIN list /\ k + 1 # 1 /\ rest[k] = list[k + 1]
  BY <1>1, <1>2
<1>5. \A k \in DOMAIN list : k = 1 \/ (k - 1 \in DOMAIN rest /\ rest[k - 1] = list[k])
  <2> SUFFICES ASSUME NEW k \in 1 .. Len(list), k # 1
               PROVE  k - 1 \in 1 .. Len(rest) /\ rest[k - 1] = list[k]
    BY <1>2
  <2>1. k - 1 \in 1 .. Len(rest) /\ (k - 1) + 1 = k
    BY <1>1, <1>2
  <2> QED BY <1>1, <2>1
<1> QED BY <1>1, <1>2, <1>3, <1>4, <1>5

\* The items of a directory before what else there is to list.
Put(dir, depth, list) ==
    [i \in DOMAIN Contained[dir] |-> <<Contained[dir][i], depth>>] \o list

\* Each place of that list is one of the directory or one of the old list.
PutInPlace(dir, depth, list) ==
    LET both == Put(dir, depth, list)
        n    == Len(Contained[dir])
    IN
    /\ both \in Seq(Items \X Nat) /\ n \in Nat
    /\ \A k \in DOMAIN both :
         \/ k \in DOMAIN Contained[dir] /\ k <= n /\ both[k] = <<Contained[dir][k], depth>>
         \/ k > n /\ k - n \in DOMAIN list /\ both[k] = list[k - n]
    /\ \A k \in DOMAIN Contained[dir] :
         k <= n /\ k \in DOMAIN both /\ both[k] = <<Contained[dir][k], depth>>
    /\ \A k \in DOMAIN list : k + n \in DOMAIN both /\ both[k + n] = list[k]
LEMMA PutsFirst ==
  ASSUME NEW list \in Seq(Items \X Nat), NEW dir \in Dirs \cup {Root}, NEW depth \in Nat
  PROVE  PutInPlace(dir, depth, list)
<1> DEFINE both == Put(dir, depth, list)
<1> DEFINE n == Len(Contained[dir])
           items == [i \in DOMAIN Contained[dir] |-> <<Contained[dir][i], depth>>]
<1>1. Contained[dir] \in Seq(Items)
  BY ClientsAssumption DEF Mcp!Tree
<1>2. n \in Nat /\ DOMAIN Contained[dir] = 1 .. n
      /\ \A k \in 1 .. n : Contained[dir][k] \in Items
  BY <1>1
<1>3. items \in [1 .. n -> Items \X Nat]
  BY <1>2
<1>4. items \in Seq(Items \X Nat)
  BY <1>2, <1>3, SeqDef
<1>5. DOMAIN items = 1 .. n /\ \A k \in 1 .. n : items[k] = <<Contained[dir][k], depth>>
  BY <1>2
<1>6. both = items \o list
  BY DEF Put
<1>7. Len(items) = n
  BY <1>2, <1>4, <1>5, LenProperties
<1>8. list \in Seq(Items \X Nat) /\ Len(list) \in Nat /\ DOMAIN list = 1 .. Len(list)
  OBVIOUS
<1> HIDE DEF items, n, both
<1>9. /\ items \o list \in Seq(Items \X Nat) /\ Len(items \o list) = n + Len(list)
      /\ \A k \in 1 .. n + Len(list) :
            (items \o list)[k] = IF k <= n THEN items[k] ELSE list[k - n]
  <2>1. /\ items \o list \in Seq(Items \X Nat)
        /\ Len(items \o list) = Len(items) + Len(list)
        /\ \A k \in 1 .. Len(items) + Len(list) :
              (items \o list)[k] = IF k <= Len(items) THEN items[k] ELSE list[k - Len(items)]
    BY <1>4, <1>8, ConcatProperties
  <2> QED BY <1>7, <2>1
<1>10. DOMAIN both = 1 .. n + Len(list)
  BY <1>6, <1>9, LenProperties
<1>11. \A k \in 1 .. n + Len(list) :
         /\ k <= n => k \in 1 .. n /\ both[k] = <<Contained[dir][k], depth>>
         /\ k > n => k - n \in 1 .. Len(list) /\ both[k] = list[k - n]
  <2> SUFFICES ASSUME NEW k \in 1 .. n + Len(list)
               PROVE  /\ k <= n => k \in 1 .. n /\ both[k] = <<Contained[dir][k], depth>>
                      /\ k > n => k - n \in 1 .. Len(list) /\ both[k] = list[k - n]
    OBVIOUS
  <2>1. both[k] = IF k <= n THEN items[k] ELSE list[k - n]
    BY <1>6, <1>9
  <2>2. (k <= n => k \in 1 .. n) /\ (k > n => k - n \in 1 .. Len(list) /\ ~(k <= n))
    BY <1>2, <1>8
  <2> QED BY <1>5, <2>1, <2>2
<1>12. \A k \in DOMAIN both :
         \/ /\ k \in DOMAIN Contained[dir] /\ k <= n
            /\ both[k] = <<Contained[dir][k], depth>>
         \/ k > n /\ k - n \in DOMAIN list /\ both[k] = list[k - n]
  BY <1>2, <1>8, <1>10, <1>11
<1>13. \A k \in DOMAIN Contained[dir] : k <= n /\ k \in DOMAIN both /\ both[k] = <<Contained[dir][k], depth>>
  BY <1>2, <1>8, <1>10, <1>11
<1>14. \A k \in DOMAIN list : k + n \in DOMAIN both /\ both[k + n] = list[k]
  <2> SUFFICES ASSUME NEW k \in 1 .. Len(list)
               PROVE  k + n \in DOMAIN both /\ both[k + n] = list[k]
    BY <1>8
  <2>1. k + n \in 1 .. n + Len(list) /\ k + n > n /\ (k + n) - n = k
    BY <1>2, <1>8
  <2> QED BY <1>10, <1>11, <2>1
<1> QED BY <1>2, <1>6, <1>9, <1>12, <1>13, <1>14 DEF PutInPlace, n, both

\* An item is on one level, and in one directory, that is on the level before.
LEMMA OneLevel == \A i \in Items : \A k, l \in {1, 2, 3} : OnLevel(i, k) /\ OnLevel(i, l) => k = l
<1>1. \A d, e \in Dirs \cup {Root}, i \in Items : Above(d, i) /\ Above(e, i) => d = e
  BY ClientsAssumption DEF Above, Mcp!Above, Mcp!Tree
<1>2. Dirs \subseteq Items /\ Root \notin Items
  BY ClientsAssumption DEF Mcp!Tree
<1>3. Level1 \cap Level2 = {} /\ Level1 \cap Level3 = {}
  BY <1>1, <1>2 DEF Level1, Level2, Level3
<1>4. Level2 \cap Level3 = {}
  BY <1>1, <1>2, <1>3 DEF Level1, Level2, Level3
<1> QED BY <1>3, <1>4 DEF OnLevel

LEMMA OneDirectory == /\ \A d, e \in Dirs \cup {Root}, i \in Items : Above(d, i) /\ Above(e, i) => d = e
                      /\ Dirs \subseteq Items /\ Root \notin Items
  BY ClientsAssumption DEF Above, Mcp!Above, Mcp!Tree

\* A call that a step leaves alone keeps its part.
LEMMA CallStays ==
  ASSUME NEW c \in Calls, CallInv(c), tool'[c] = tool[c], asking'[c] = asking[c],
         todo'[c] = todo[c], out'[c] = out[c], answer'[c] = answer[c], blank'[c] = blank[c]
  PROVE  CallInv(c)'
<1>1. /\ \A i : InTodo(c, i)' <=> InTodo(c, i)
      /\ \A i : Said(c, i)' <=> Said(c, i)
      /\ \A i : Missed(c, i)' <=> Missed(c, i)
      /\ \A i : AskedFor(c, i)' <=> AskedFor(c, i)
  BY DEF InTodo, Said, Missed, AskedFor
<1>2. (\A i : Held(c, i)' <=> Held(c, i)) /\ \A d : Open(c, d)' <=> Open(c, d)
  BY <1>1 DEF Held, Open
<1>3. DepthsAreLevels(c)'
  BY DEF CallInv, DepthsAreLevels
<1>4. AsksInOrder(c)'
  BY <1>1 DEF CallInv, AsksInOrder
<1>5. ListedOnce(c)'
  BY <1>1, <1>2 DEF CallInv, ListedOnce
<1>6. DirectoryFirst(c)'
  BY DEF CallInv, DirectoryFirst, Names
<1>7. NothingForgotten(c)'
  BY <1>1, <1>2 DEF CallInv, NothingForgotten
<1> QED BY <1>3, <1>4, <1>5, <1>6, <1>7 DEF CallInv

\* Nothing is wrong with a call that has nothing to list and no line yet.
LEMMA EmptyIsRight ==
  ASSUME NEW c \in Calls, todo'[c] = <<>>, out'[c] = <<>>, blank'[c] = {}
  PROVE  /\ ListedOnce(c)' /\ DirectoryFirst(c)'
         /\ tool'[c] # "listing" \/ answer'[c] \in {"none", "error"} => NothingForgotten(c)'
         /\ \A i : ~InTodo(c, i)' /\ ~Said(c, i)' /\ ~Missed(c, i)'
<1>1. DOMAIN todo'[c] = {} /\ DOMAIN out'[c] = {}
  OBVIOUS
<1>2. \A i : ~InTodo(c, i)' /\ ~Said(c, i)' /\ ~Missed(c, i)'
  BY <1>1 DEF InTodo, Said, Missed
<1>3. \A i : ~Held(c, i)'
  BY <1>2 DEF Held
<1>4. \A d \in Dirs : ~Open(c, d)'
  BY <1>2, OneDirectory DEF Open
<1>5. ListedOnce(c)'
  BY <1>1, <1>2, <1>3 DEF ListedOnce
<1>6. DirectoryFirst(c)'
  BY <1>1 DEF DirectoryFirst
<1>7. ASSUME tool'[c] # "listing" \/ answer'[c] \in {"none", "error"}
      PROVE  NothingForgotten(c)'
  BY <1>4, <1>7 DEF NothingForgotten
<1> QED BY <1>2, <1>5, <1>6, <1>7

\* What is asked for is a directory, with its depth.
LEMMA AskedWhat ==
  ASSUME Mcp!ToolsTypeOK, NEW c \in Calls, asking[c] # None
  PROVE  /\ asking[c] \in ({Root} \cup Dirs) \X Nat
         /\ asking[c][1] \in {Root} \cup Dirs /\ asking[c][2] \in Nat
         /\ AskedFor(c, asking[c][1])
         /\ \A d : AskedFor(c, d) => d = asking[c][1]
  BY DEF Mcp!ToolsTypeOK, AskedFor

\* Asked: no call is about anything that was not asked for again.
LEMMA AskedNothing ==
  ASSUME Mcp!ToolsTypeOK, NEW c \in Calls, Mcp!Asked(c)
  PROVE  /\ asking'[c] = None /\ \A b \in Calls \ {c} : asking'[b] = asking[b]
         /\ asking' \in [Calls -> ({Root} \cup Dirs) \X Nat \cup {None}]
         /\ attempt' \in [Calls -> 0 .. Mcp!MAX_RETRY]
         /\ \A d : ~AskedFor(c, d)'
  BY DEF Mcp!ToolsTypeOK, Mcp!Asked, Mcp!MAX_RETRY, AskedFor

\* Before the first line no directory was passed over.
LEMMA NoneIsBlank ==
  ASSUME ListingInv, NEW c \in Calls, out[c] = <<>>
  PROVE  blank[c] = {}
<1>1. \A d : ~Said(c, d)
  <2>1. DOMAIN out[c] = {}
    OBVIOUS
  <2> QED BY <2>1 DEF Said
<1>2. blank[c] \subseteq Items
  BY OneDirectory DEF ListingInv, Mcp!ToolsTypeOK
<1> QED BY <1>1, <1>2 DEF ListingInv, CallInv, ListedOnce

\* index.ts: a call of a tool.
LEMMA CallKeeps ==
  ASSUME ListingInv, NEW c \in Calls, NEW t \in Mcp!Tools, Mcp!Call(c, t)
  PROVE  ListingInv'
<1>1. /\ tool[c] = "none" /\ tool' = [tool EXCEPT ![c] = t]
      /\ asking' = [asking EXCEPT ![c] = <<Root, 0>>]
      /\ attempt' = [attempt EXCEPT ![c] = 1]
      /\ UNCHANGED <<todo, out, answer, blank, quota>>
  BY DEF Mcp!Call, Mcp!Ask
<1>2. Mcp!ToolsTypeOK'
  BY <1>1 DEF ListingInv, Mcp!ToolsTypeOK, Mcp!MAX_RETRY
<1>3. \A b \in Calls \ {c} : CallInv(b)'
  <2> SUFFICES ASSUME NEW b \in Calls \ {c} PROVE CallInv(b)'
    OBVIOUS
  <2>1. tool'[b] = tool[b] /\ asking'[b] = asking[b] /\ todo'[b] = todo[b]
        /\ out'[b] = out[b] /\ answer'[b] = answer[b] /\ blank'[b] = blank[b]
    BY <1>1 DEF ListingInv, Mcp!ToolsTypeOK
  <2> QED BY <2>1, CallStays DEF ListingInv
<1>4. /\ answer'[c] = "none" /\ todo'[c] = <<>> /\ out'[c] = <<>> /\ blank'[c] = {}
      /\ tool'[c] # "none" /\ asking'[c] = <<Root, 0>>
  BY <1>1, NoneIsBlank DEF ListingInv, CallInv, AsksInOrder, Mcp!ToolsTypeOK, Mcp!Tools, Mcp!Retrying
<1>5. CallInv(c)'
  <2>1. \A d \in Dirs : ~AskedFor(c, d)'
    BY <1>4, OneDirectory DEF AskedFor
  <2>2. DepthsAreLevels(c)'
    BY <1>4 DEF DepthsAreLevels
  <2>3. AsksInOrder(c)'
    BY <1>4, <2>1 DEF AsksInOrder
  <2> QED BY <1>4, <2>2, <2>3, EmptyIsRight DEF CallInv
<1> QED BY <1>2, <1>3, <1>5 DEF ListingInv

\* A call that is answered before anything was listed.
LEMMA AnsweredAtOnce ==
  ASSUME ListingInv, NEW c \in Calls, AskedFor(c, Root), Mcp!Asked(c),
         NEW how \in {"ok", "error"}, Mcp!Say(c, how), how = "ok" => tool[c] # "listing",
         UNCHANGED <<tool, todo, out, blank>>, quota' \in 0 .. Quota
  PROVE  ListingInv'
<1>1. answer' = [answer EXCEPT ![c] = how]
  BY DEF Mcp!Say
<1>2. Mcp!ToolsTypeOK'
  BY <1>1, AskedNothing DEF ListingInv, Mcp!ToolsTypeOK
<1>3. \A b \in Calls \ {c} : CallInv(b)'
  <2> SUFFICES ASSUME NEW b \in Calls \ {c} PROVE CallInv(b)'
    OBVIOUS
  <2>1. tool'[b] = tool[b] /\ asking'[b] = asking[b] /\ todo'[b] = todo[b]
        /\ out'[b] = out[b] /\ answer'[b] = answer[b] /\ blank'[b] = blank[b]
    BY <1>1, AskedNothing DEF ListingInv, Mcp!ToolsTypeOK
  <2> QED BY <2>1, CallStays DEF ListingInv
<1>4. /\ answer'[c] = how /\ todo'[c] = <<>> /\ out'[c] = <<>> /\ blank'[c] = {}
      /\ tool'[c] # "none" /\ asking'[c] = None
  BY <1>1, AskedNothing, NoneIsBlank DEF ListingInv, CallInv, AsksInOrder, AskedFor, Mcp!ToolsTypeOK
<1>5. CallInv(c)'
  <2>1. DepthsAreLevels(c)'
    BY <1>4 DEF DepthsAreLevels
  <2>2. AsksInOrder(c)'
    BY <1>4 DEF AsksInOrder, AskedFor
  <2> QED BY <1>4, <2>1, <2>2, EmptyIsRight DEF CallInv
<1> QED BY <1>2, <1>3, <1>5 DEF ListingInv

\* The tools that ask once.
LEMMA AnswerOnceKeeps ==
  ASSUME ListingInv, NEW c \in Calls, Mcp!AnswerOnce(c)
  PROVE  ListingInv'
<1>1. PICK how \in {"ok", "error"} : Mcp!Say(c, how)
  BY DEF Mcp!AnswerOnce
<1>2. tool[c] # "listing" /\ asking[c] # None
  BY DEF Mcp!AnswerOnce, Mcp!Retrying
<1>3. AskedFor(c, Root)
  BY <1>2, AskedWhat DEF ListingInv, CallInv, AsksInOrder
<1>4. Mcp!Asked(c) /\ UNCHANGED <<tool, todo, out, blank>> /\ quota' \in 0 .. Quota
  BY DEF Mcp!AnswerOnce, ListingInv, Mcp!ToolsTypeOK
<1> QED BY <1>1, <1>2, <1>3, <1>4, AnsweredAtOnce

\* The end of a request without an answer: GiveUp of Limited and of Refused.
LEMMA GiveUpKeeps ==
  ASSUME ListingInv, NEW c \in Calls, asking[c] # None, Mcp!GiveUp(c), quota' \in 0 .. Quota
  PROVE  ListingInv'
<1> DEFINE d == asking[c][1]
<1>1. CASE d = Root
  <2>1. Mcp!Say(c, "error") /\ UNCHANGED <<tool, todo, out, blank>> /\ Mcp!Asked(c)
    BY <1>1 DEF Mcp!GiveUp
  <2> QED BY <1>1, <2>1, AskedWhat, AnsweredAtOnce DEF ListingInv
<1>2. CASE d # Root
  <2>1. Mcp!Line(c, d, TRUE) /\ UNCHANGED <<tool, todo, answer, blank>> /\ Mcp!Asked(c)
    BY <1>2 DEF Mcp!GiveUp
  <2>2. d \in Dirs /\ d \in Items /\ AskedFor(c, d) /\ \A e : AskedFor(c, e) => e = d
    BY <1>2, AskedWhat, OneDirectory DEF ListingInv
  <2>3. /\ tool[c] = "listing" /\ answer[c] = "listing"
        /\ Said(c, d) /\ ~Missed(c, d) /\ d \notin blank[c]
    BY <2>2 DEF ListingInv, CallInv, AsksInOrder
  <2> DEFINE n == Len(out[c]) + 1
  <2>4. /\ DOMAIN out'[c] = DOMAIN out[c] \cup {n} /\ out'[c][n] = <<d, TRUE>>
        /\ \A k \in DOMAIN out[c] : out'[c][k] = out[c][k] /\ k < n
        /\ \A i \in Items : (Said(c, i)' <=> Said(c, i)) /\ (Missed(c, i)' <=> Missed(c, i) \/ i = d)
        /\ out'[c] \in Seq(Items \X BOOLEAN)
        /\ \A b \in Calls \ {c} : out'[b] = out[b]
    <3>1. TRUE \in BOOLEAN /\ TRUE # FALSE
      OBVIOUS
    <3> HIDE DEF d
    <3> QED BY <2>1, <2>2, <3>1, LineAdds DEF ListingInv
  <2> HIDE DEF d, n
  <2>5. Mcp!ToolsTypeOK'
    <3>1. out' \in [Calls -> Seq(Items \X BOOLEAN)]
      BY <2>1, <2>4 DEF ListingInv, Mcp!ToolsTypeOK, Mcp!Line
    <3> QED BY <2>1, <3>1, AskedNothing DEF ListingInv, Mcp!ToolsTypeOK
  <2>6. \A b \in Calls \ {c} : CallInv(b)'
    <3> SUFFICES ASSUME NEW b \in Calls \ {c} PROVE CallInv(b)'
      OBVIOUS
    <3>1. tool'[b] = tool[b] /\ asking'[b] = asking[b] /\ todo'[b] = todo[b]
          /\ out'[b] = out[b] /\ answer'[b] = answer[b] /\ blank'[b] = blank[b]
      BY <2>1, <2>4, AskedNothing DEF ListingInv
    <3> QED BY <3>1, CallStays DEF ListingInv
  <2>7. /\ tool'[c] = "listing" /\ answer'[c] = "listing" /\ todo'[c] = todo[c] /\ blank' = blank
        /\ asking'[c] = None /\ \A e : ~AskedFor(c, e)'
    BY <2>1, <2>3, AskedNothing DEF ListingInv
  <2>8. (\A i \in Items : Held(c, i)' <=> Held(c, i)) /\ \A i : InTodo(c, i)' <=> InTodo(c, i)
    BY <2>4, <2>7 DEF Held, InTodo
  <2>9. \A e \in Dirs \cup {Root} : Open(c, e)' <=> Open(c, e)
    <3>1. ~Missed(c, Root)' <=> ~Missed(c, Root)
      BY <1>2, <2>4 DEF Missed, Marks, d
    <3>2. ~AskedFor(c, Root)
      BY <1>2, <2>2 DEF d
    <3> QED BY <2>2, <2>3, <2>4, <2>7, <3>1, <3>2, OneDirectory DEF Open
  <2>10. DepthsAreLevels(c)'
    BY <2>7 DEF ListingInv, CallInv, DepthsAreLevels
  <2>11. AsksInOrder(c)'
    BY <2>7 DEF ListingInv, CallInv, AsksInOrder
  <2>12. ListedOnce(c)'
    <3>1. ListedOnce(c)
      BY DEF ListingInv, CallInv
    <3>2. \A k \in DOMAIN todo[c] : todo[c][k][1] \in Items
      BY DEF ListingInv, Mcp!ToolsTypeOK
    <3>3. \A k \in DOMAIN todo'[c] : ~Said(c, todo[c][k][1])'
      BY <2>4, <2>7, <3>1, <3>2 DEF ListedOnce
    <3>4. \A k \in DOMAIN out[c] : out[c][k] # <<d, TRUE>>
      <4> SUFFICES ASSUME NEW k \in DOMAIN out[c], out[c][k] = <<d, TRUE>> PROVE FALSE
        OBVIOUS
      <4>1. out[c][k][1] = d /\ out[c][k][2] = TRUE
        OBVIOUS
      <4> QED BY <2>3, <4>1 DEF Missed, Marks
    <3>5. \A k, l \in DOMAIN out'[c] : out'[c][k] = out'[c][l] => k = l
      <4> SUFFICES ASSUME NEW k \in DOMAIN out[c] \cup {n}, NEW l \in DOMAIN out[c] \cup {n},
                          out'[c][k] = out'[c][l]
                   PROVE  k = l
        BY <2>4
      <4>1. CASE k \in DOMAIN out[c] /\ l \in DOMAIN out[c]
        BY <2>4, <3>1, <4>1 DEF ListedOnce
      <4>2. CASE k = n \/ l = n
        BY <2>4, <3>4, <4>2
      <4> QED BY <4>1, <4>2
    <3>6. \A e \in Items : Missed(c, e)' \/ e \in blank'[c] => Said(c, e)'
      BY <2>3, <2>4, <2>7, <3>1 DEF ListedOnce
    <3>7. \A e \in Dirs \cup {Root}, i \in Items : Above(e, i) /\ Held(c, i)' => Open(c, e)'
      BY <2>8, <2>9, <3>1 DEF ListedOnce
    <3> QED BY <2>7, <3>1, <3>3, <3>5, <3>6, <3>7 DEF ListedOnce
  <2>13. DirectoryFirst(c)'
    <3>1. \A i : ~Names(out'[c][n], i)
      BY <2>4 DEF Names
    <3>2. SUFFICES ASSUME NEW e \in Dirs, NEW i \in Items, NEW l \in DOMAIN out[c],
                          Above(e, i), Names(out[c][l], i)
                   PROVE  \E k \in DOMAIN out[c] : k < l /\ Names(out[c][k], e)
      BY <2>4, <3>1 DEF DirectoryFirst
    <3> QED BY <3>2 DEF ListingInv, CallInv, DirectoryFirst
  <2>14. NothingForgotten(c)'
    BY <2>3, <2>7, <2>8, <2>9 DEF ListingInv, CallInv, NothingForgotten, Level1
  <2> QED BY <2>5, <2>6, <2>10, <2>11, <2>12, <2>13, <2>14 DEF ListingInv, CallInv
<1> QED BY <1>1, <1>2

\* getContents and buildEntries: the items of a directory are to be listed.
LEMMA ListKeepsOpen ==
  ASSUME ListingInv, NEW c \in Calls, asking[c] # None, Mcp!Asked(c), Mcp!Say(c, "listing"),
         tool[c] \in {"listing", "flat"}, UNCHANGED <<tool, out, blank>>, quota' \in 0 .. Quota,
         todo' = [todo EXCEPT ![c] = [i \in DOMAIN Contained[asking[c][1]] |->
                    <<Contained[asking[c][1]][i], asking[c][2] + 1>>] \o @]
  PROVE  ListingInv'
<1>0. PICK dir \in Dirs \cup {Root}, level \in Nat : asking[c] = <<dir, level>>
  <2>1. asking[c] \in ({Root} \cup Dirs) \X Nat
    BY AskedWhat DEF ListingInv
  <2>2. asking[c] = <<asking[c][1], asking[c][2]>>
    BY <2>1
  <2> QED BY <2>1, <2>2
<1> DEFINE depth == level + 1
           items == Contained[dir]
           n == Len(Contained[dir])
           old == todo[c]
           both == Put(dir, depth, old)
<1>1. depth \in Nat /\ AskedFor(c, dir) /\ \A e : AskedFor(c, e) => e = dir
  <2>1. asking[c][1] = dir
    BY <1>0
  <2> QED BY <2>1, AskedWhat DEF ListingInv
<1>2. old \in Seq(Items \X Nat) /\ DOMAIN todo = Calls
  BY DEF ListingInv, Mcp!ToolsTypeOK
<1>3. /\ todo' = [todo EXCEPT ![c] = both]
      /\ todo'[c] = both /\ \A b \in Calls \ {c} : todo'[b] = todo[b]
  <2>1. asking[c][1] = dir /\ asking[c][2] = level
    BY <1>0
  <2> QED BY <1>2, <2>1 DEF Put
<1>4. /\ both \in Seq(Items \X Nat) /\ n \in Nat /\ items \in Seq(Items)
      /\ \A k \in DOMAIN both :
           \/ k \in DOMAIN items /\ k <= n /\ both[k] = <<items[k], depth>>
           \/ k > n /\ k - n \in DOMAIN old /\ both[k] = old[k - n]
      /\ \A k \in DOMAIN items : k <= n /\ k \in DOMAIN both /\ both[k] = <<items[k], depth>>
      /\ \A k \in DOMAIN old : k + n \in DOMAIN both /\ both[k + n] = old[k]
  <2>1. Contained[dir] \in Seq(Items)
    BY ClientsAssumption DEF Mcp!Tree
  <2>2. PutInPlace(dir, depth, old)
    BY <1>1, <1>2, PutsFirst
  <2> HIDE DEF depth, old
  <2> QED BY <2>1, <2>2 DEF PutInPlace
<1>5. /\ \A i : Above(dir, i) <=> \E k \in DOMAIN items : items[k] = i
      /\ \A k, l \in DOMAIN items : items[k] = items[l] => k = l
  BY ClientsAssumption DEF Above, Mcp!Above, Mcp!Tree
<1>6. /\ answer' = [answer EXCEPT ![c] = "listing"] /\ asking'[c] = None
      /\ (\A b \in Calls \ {c} : asking'[b] = asking[b]) /\ \A e : ~AskedFor(c, e)'
      /\ tool' = tool /\ out' = out /\ blank' = blank
  BY AskedNothing DEF ListingInv, Mcp!Say
<1>7. Mcp!ToolsTypeOK'
  <2>1. todo' \in [Calls -> Seq(Items \X Nat)]
    <3> HIDE DEF both
    <3> QED BY <1>3, <1>4 DEF ListingInv, Mcp!ToolsTypeOK
  <2> QED BY <1>6, <2>1, AskedNothing DEF ListingInv, Mcp!ToolsTypeOK
<1> HIDE DEF depth, items, n, old, both
<1>8. \A b \in Calls \ {c} : CallInv(b)'
  <2> SUFFICES ASSUME NEW b \in Calls \ {c} PROVE CallInv(b)'
    OBVIOUS
  <2>1. tool'[b] = tool[b] /\ asking'[b] = asking[b] /\ todo'[b] = todo[b]
        /\ out'[b] = out[b] /\ answer'[b] = answer[b] /\ blank'[b] = blank[b]
    BY <1>3, <1>6 DEF ListingInv, Mcp!ToolsTypeOK
  <2> QED BY <2>1, CallStays DEF ListingInv
<1>9. answer'[c] = "listing"
  BY <1>6 DEF ListingInv, Mcp!ToolsTypeOK
<1>10. CallInv(c) /\ DOMAIN old = DOMAIN todo[c] /\ old = todo[c]
  BY DEF ListingInv, old
\* What is in the directory was not held.
<1>11. \A i \in Items : Above(dir, i) => ~Held(c, i)
  BY <1>1, <1>10 DEF CallInv, ListedOnce, Open
<1>12. \A i : (Said(c, i)' <=> Said(c, i)) /\ (Missed(c, i)' <=> Missed(c, i))
  BY <1>6 DEF Said, Missed
<1>13. \A i : InTodo(c, i)' <=> InTodo(c, i) \/ Above(dir, i)
  <2>1. ASSUME NEW i, InTodo(c, i)' PROVE InTodo(c, i) \/ Above(dir, i)
    <3>1. PICK k \in DOMAIN both : both[k][1] = i
      BY <1>3, <2>1 DEF InTodo
    <3>2. CASE k \in DOMAIN items /\ both[k] = <<items[k], depth>>
      BY <1>5, <3>1, <3>2
    <3>3. CASE k - n \in DOMAIN old /\ both[k] = old[k - n]
      BY <1>10, <3>1, <3>3 DEF InTodo
    <3> QED BY <1>4, <3>2, <3>3
  <2>2. ASSUME NEW i, InTodo(c, i) PROVE InTodo(c, i)'
    <3>1. PICK k \in DOMAIN old : old[k][1] = i
      BY <1>10, <2>2 DEF InTodo
    <3>2. k + n \in DOMAIN both /\ both[k + n][1] = i
      BY <1>4, <3>1
    <3> QED BY <1>3, <3>2 DEF InTodo
  <2>3. ASSUME NEW i, Above(dir, i) PROVE InTodo(c, i)'
    <3>1. PICK k \in DOMAIN items : items[k] = i
      BY <1>5, <2>3
    <3>2. k \in DOMAIN both /\ both[k][1] = i
      BY <1>4, <3>1
    <3> QED BY <1>3, <3>2 DEF InTodo
  <2> QED BY <2>1, <2>2, <2>3
<1>14. \A i : Held(c, i)' <=> Held(c, i) \/ Above(dir, i)
  BY <1>12, <1>13 DEF Held
<1>15. ~Missed(c, dir) /\ dir \notin blank[c] /\ (dir = Root \/ Said(c, dir))
  <2>1. CASE dir = Root
    <3>1. out[c] = <<>>
      BY <1>1, <1>10, <2>1 DEF CallInv, AsksInOrder
    <3> QED BY <2>1, <3>1, NoneIsBlank DEF Missed
  <2>2. CASE dir # Root
    BY <1>1, <1>10, <2>2 DEF CallInv, AsksInOrder
  <2> QED BY <2>1, <2>2
<1>16. Open(c, dir)' /\ \A e : e # dir => (Open(c, e)' <=> Open(c, e))
  BY <1>1, <1>6, <1>12, <1>15 DEF Open
<1>17. DepthsAreLevels(c)'
  <2>1. ASSUME NEW i \in Items, Above(dir, i) PROVE OnLevel(i, depth)
    <3>1. CASE asking[c] = <<Root, 0>>
      <4>1. dir = Root /\ depth = 1
        BY <1>0, <3>1 DEF depth
      <4> QED BY <2>1, <4>1 DEF OnLevel, Level1
    <3>2. CASE asking[c] # <<Root, 0>>
      <4>1. dir \in Dirs /\ level \in {1, 2} /\ OnLevel(dir, level)
        BY <1>0, <1>1, <1>10, <3>2 DEF CallInv, DepthsAreLevels, AskedFor
      <4>2. CASE level = 1
        <5>1. dir \in Level1 /\ depth = 2
          BY <4>1, <4>2 DEF OnLevel, depth
        <5> QED BY <2>1, <4>1, <5>1 DEF OnLevel, Level2
      <4>3. CASE level = 2
        <5>1. dir \in Level2 /\ depth = 3
          BY <4>1, <4>3 DEF OnLevel, depth
        <5> QED BY <2>1, <4>1, <5>1 DEF OnLevel, Level3
      <4> QED BY <4>1, <4>2, <4>3
    <3> QED BY <3>1, <3>2
  <2>2. \A k \in DOMAIN both : OnLevel(both[k][1], both[k][2])
    <3> SUFFICES ASSUME NEW k \in DOMAIN both PROVE OnLevel(both[k][1], both[k][2])
      OBVIOUS
    <3>1. CASE k \in DOMAIN items /\ both[k] = <<items[k], depth>>
      <4>1. items[k] \in Items /\ Above(dir, items[k])
        BY <1>4, <1>5, <3>1
      <4> QED BY <2>1, <3>1, <4>1
    <3>2. CASE k - n \in DOMAIN old /\ both[k] = old[k - n]
      BY <1>10, <3>2 DEF CallInv, DepthsAreLevels
    <3> QED BY <1>4, <3>1, <3>2
  <2> QED BY <1>3, <1>6, <2>2 DEF DepthsAreLevels
<1>18. AsksInOrder(c)'
  <2>1. tool'[c] # "none" /\ answer'[c] = "listing"
    BY <1>6, <1>9
  <2> QED BY <1>6, <2>1 DEF AsksInOrder
<1>19. ListedOnce(c)'
  <2>1. ListedOnce(c)
    BY <1>10 DEF CallInv
  <2>2. \A k \in DOMAIN both : \A l \in DOMAIN both : both[k][1] = both[l][1] => k = l
    <3>1. \A k, l \in DOMAIN both : both[k][1] = both[l][1] /\ k <= n /\ l <= n => k = l
      <4>1. \A k \in DOMAIN both : k <= n => k \in DOMAIN items /\ both[k][1] = items[k]
        BY <1>4
      <4> QED BY <1>5, <4>1
    <3>2. \A k \in DOMAIN both : k > n => k - n \in DOMAIN old /\ both[k] = old[k - n] /\ InTodo(c, both[k][1])
      BY <1>4, <1>10 DEF InTodo
    <3>3. \A k \in DOMAIN both : k <= n => Above(dir, both[k][1]) /\ both[k][1] \in Items
      BY <1>4, <1>5
    <3>4. \A k, l \in DOMAIN both : both[k][1] = both[l][1] /\ k > n /\ l > n => k = l
      <4> SUFFICES ASSUME NEW k \in DOMAIN both, NEW l \in DOMAIN both,
                          both[k][1] = both[l][1], k > n, l > n
                   PROVE  k = l
        OBVIOUS
      <4>1. k - n = l - n
        BY <1>10, <2>1, <3>2 DEF ListedOnce
      <4>2. k \in Nat /\ l \in Nat
        BY <1>4
      <4> QED BY <1>4, <4>1, <4>2
    <3>5. \A k, l \in DOMAIN both : k <= n /\ l > n => both[k][1] # both[l][1]
      BY <1>11, <3>2, <3>3 DEF Held
    <3>6. \A k \in DOMAIN both : k <= n \/ k > n
      BY <1>4
    <3> QED BY <3>1, <3>4, <3>5, <3>6
  <2>3. \A k \in DOMAIN both : ~Said(c, both[k][1])
    <3> SUFFICES ASSUME NEW k \in DOMAIN both PROVE ~Said(c, both[k][1])
      OBVIOUS
    <3>1. CASE k \in DOMAIN items /\ both[k] = <<items[k], depth>>
      <4>1. items[k] \in Items /\ Above(dir, items[k])
        BY <1>4, <1>5, <3>1
      <4> QED BY <1>11, <3>1, <4>1 DEF Held
    <3>2. CASE k - n \in DOMAIN old /\ both[k] = old[k - n]
      BY <1>10, <2>1, <3>2 DEF ListedOnce
    <3> QED BY <1>4, <3>1, <3>2
  <2>4. \A d \in Dirs \cup {Root}, i \in Items : Above(d, i) /\ Held(c, i)' => Open(c, d)'
    BY <1>1, <1>14, <1>16, <2>1, OneDirectory DEF ListedOnce
  <2>5. /\ \A k, l \in DOMAIN todo'[c] : todo'[c][k][1] = todo'[c][l][1] => k = l
        /\ \A k \in DOMAIN todo'[c] : ~Said(c, todo'[c][k][1])
    BY <1>3, <2>2, <2>3
  <2>6. /\ \A k, l \in DOMAIN out'[c] : out'[c][k] = out'[c][l] => k = l
        /\ \A d \in Items : Missed(c, d)' \/ d \in blank'[c] => Said(c, d)'
    BY <1>6, <1>12, <2>1 DEF ListedOnce
  <2>7. (\A k \in DOMAIN todo[c] : ~Said(c, todo[c][k][1]))'
    BY <1>12, <2>5
  <2> QED BY <2>4, <2>5, <2>6, <2>7 DEF ListedOnce
<1>20. DirectoryFirst(c)'
  BY <1>6, <1>10 DEF CallInv, DirectoryFirst
<1>21. NothingForgotten(c)'
  <2> SUFFICES ASSUME tool[c] = "listing" PROVE NothingForgotten(c)'
    BY <1>6 DEF NothingForgotten
  <2>1. \A i \in Level1 : Held(c, i)'
    <3>1. CASE dir = Root
      BY <1>14, <3>1 DEF Level1
    <3>2. CASE dir # Root
      BY <1>1, <1>10, <1>14, <3>2 DEF CallInv, AsksInOrder, NothingForgotten
    <3> QED BY <3>1, <3>2
  <2>2. \A d \in Dirs \cap (Level1 \cup Level2), i \in Items :
          Open(c, d)' /\ Above(d, i) => Held(c, i)'
    BY <1>10, <1>14, <1>16 DEF CallInv, NothingForgotten
  <2> QED BY <2>1, <2>2 DEF NothingForgotten, Level1, Level2
<1> QED BY <1>7, <1>8, <1>17, <1>18, <1>19, <1>20, <1>21 DEF ListingInv, CallInv

\* buildEntries: a directory that is answered with no list.  It stays closed, so
\* nothing of it is expected.
LEMMA PassedOverKeeps ==
  ASSUME ListingInv, NEW c \in Calls, asking[c] # None, asking[c][1] # Root,
         Mcp!Asked(c), UNCHANGED <<tool, out, todo, answer>>, quota' \in 0 .. Quota,
         blank' = [blank EXCEPT ![c] = @ \cup {asking[c][1]}]
  PROVE  ListingInv'
<1> DEFINE d == asking[c][1]
<1>1. d \in Dirs /\ d \in Items /\ AskedFor(c, d) /\ \A e : AskedFor(c, e) => e = d
  BY AskedWhat, OneDirectory DEF ListingInv
<1>2. tool[c] = "listing" /\ answer[c] = "listing" /\ Said(c, d) /\ ~Missed(c, d)
  BY <1>1 DEF ListingInv, CallInv, AsksInOrder
<1>3. blank'[c] = blank[c] \cup {d} /\ \A b \in Calls \ {c} : blank'[b] = blank[b]
  BY DEF ListingInv, Mcp!ToolsTypeOK
<1>4. Mcp!ToolsTypeOK'
  <2>1. blank' \in [Calls -> SUBSET Dirs]
    BY <1>1 DEF ListingInv, Mcp!ToolsTypeOK
  <2> QED BY <2>1, AskedNothing DEF ListingInv, Mcp!ToolsTypeOK
<1>5. \A b \in Calls \ {c} : CallInv(b)'
  <2> SUFFICES ASSUME NEW b \in Calls \ {c} PROVE CallInv(b)'
    OBVIOUS
  <2>1. tool'[b] = tool[b] /\ asking'[b] = asking[b] /\ todo'[b] = todo[b]
        /\ out'[b] = out[b] /\ answer'[b] = answer[b] /\ blank'[b] = blank[b]
    BY <1>3, AskedNothing DEF ListingInv
  <2> QED BY <2>1, CallStays DEF ListingInv
<1> HIDE DEF d
<1>6. CallInv(c) /\ asking'[c] = None /\ \A e : ~AskedFor(c, e)'
  BY AskedNothing DEF ListingInv
<1>7. /\ \A i : InTodo(c, i)' <=> InTodo(c, i)
      /\ \A i : Said(c, i)' <=> Said(c, i)
      /\ \A i : Missed(c, i)' <=> Missed(c, i)
      /\ \A i : Held(c, i)' <=> Held(c, i)
  BY DEF InTodo, Said, Missed, Held
<1>8. \A e : Open(c, e)' <=> Open(c, e)
  BY <1>1, <1>3, <1>6, <1>7 DEF Open
<1>9. DepthsAreLevels(c)'
  BY <1>6 DEF CallInv, DepthsAreLevels
<1>10. AsksInOrder(c)'
  BY <1>2, <1>6 DEF CallInv, AsksInOrder
<1>11. ListedOnce(c)'
  <2>1. ListedOnce(c)
    BY <1>6 DEF CallInv
  <2>2. (\A k \in DOMAIN todo[c] : ~Said(c, todo[c][k][1]))'
    BY <1>7, <2>1 DEF ListedOnce
  <2>3. \A e \in Items : Missed(c, e)' \/ e \in blank'[c] => Said(c, e)'
    BY <1>2, <1>3, <1>7, <2>1 DEF ListedOnce
  <2>4. \A e \in Dirs \cup {Root}, i \in Items : Above(e, i) /\ Held(c, i)' => Open(c, e)'
    BY <1>7, <1>8, <2>1 DEF ListedOnce
  <2> QED BY <2>1, <2>2, <2>3, <2>4 DEF ListedOnce
<1>12. DirectoryFirst(c)'
  BY <1>6 DEF CallInv, DirectoryFirst
<1>13. NothingForgotten(c)'
  BY <1>6, <1>7, <1>8 DEF CallInv, NothingForgotten, Level1
<1> QED BY <1>4, <1>5, <1>9, <1>10, <1>11, <1>12, <1>13 DEF ListingInv, CallInv

\* getContents, whatever it is asked for.
LEMMA ContentsKeeps ==
  ASSUME ListingInv, NEW c \in Calls, Mcp!Contents(c)
  PROVE  ListingInv'
<1>1. /\ asking[c] # None /\ Mcp!Asked(c) /\ UNCHANGED <<tool, out>>
      /\ quota' \in 0 .. Quota
  <2>1. quota \in 0 .. Quota /\ quota > 1 /\ quota' = quota - 1 /\ Quota \in Nat
    BY ClientsAssumption DEF Mcp!Contents, ListingInv, Mcp!ToolsTypeOK
  <2>2. quota' \in 0 .. Quota
    BY <2>1
  <2> QED BY <2>2 DEF Mcp!Contents
<1>2. CASE /\ tool[c] \in {"listing", "flat"} /\ Mcp!Say(c, "listing") /\ blank' = blank
           /\ todo' = [todo EXCEPT ![c] = [i \in DOMAIN Contained[asking[c][1]] |->
                        <<Contained[asking[c][1]][i], asking[c][2] + 1>>] \o @]
  BY <1>1, <1>2, ListKeepsOpen
<1>3. CASE /\ tool[c] \in {"commits", "diff", "contents"} /\ Mcp!Say(c, "ok")
           /\ UNCHANGED <<todo, blank>>
  <2>1. AskedFor(c, Root)
    BY <1>1, <1>3, AskedWhat DEF ListingInv, CallInv, AsksInOrder
  <2> QED BY <1>1, <1>3, <2>1, AnsweredAtOnce
<1>4. CASE asking[c][1] = Root /\ Mcp!Say(c, "error") /\ UNCHANGED <<todo, blank>>
  <2>1. AskedFor(c, Root)
    BY <1>1, <1>4 DEF AskedFor
  <2> QED BY <1>1, <1>4, <2>1, AnsweredAtOnce
<1>5. CASE /\ asking[c][1] # Root /\ UNCHANGED <<todo, answer>>
           /\ blank' = [blank EXCEPT ![c] = @ \cup {asking[c][1]}]
  BY <1>1, <1>5, PassedOverKeeps
<1> QED BY <1>2, <1>3, <1>4, <1>5 DEF Mcp!Contents

\* buildEntries: the line of one item, and the request for what is in it.
LEMMA EntryKeeps ==
  ASSUME ListingInv, NEW c \in Calls, Mcp!Entry(c)
  PROVE  ListingInv'
<1> DEFINE old == todo[c]
<1>1. old \in Seq(Items \X Nat) /\ old # <<>> /\ asking[c] = None
  BY DEF Mcp!Entry, ListingInv, Mcp!ToolsTypeOK
<1>2. PICK item \in Items, depth \in Nat : old[1] = <<item, depth>>
  <2>1. old[1] \in Items \X Nat
    BY <1>1, TakesFirst
  <2>2. old[1] = <<old[1][1], old[1][2]>>
    BY <2>1
  <2> QED BY <2>1, <2>2
<1> DEFINE goes == item \in Dirs /\ tool[c] = "listing" /\ depth < Mcp!MAX_RECURSIVE_DEPTH
           rest == Tail(old)
           n    == Len(out[c]) + 1
<1>3. /\ Mcp!Line(c, item, FALSE) /\ todo' = [todo EXCEPT ![c] = rest]
      /\ IF goes THEN Mcp!Ask(c, item, depth) ELSE UNCHANGED <<asking, attempt>>
      /\ UNCHANGED <<tool, answer, blank, quota>>
  <2>1. todo[c][1][1] = item /\ todo[c][1][2] = depth
    BY <1>2
  <2> QED BY <2>1 DEF Mcp!Entry
<1>4. /\ rest \in Seq(Items \X Nat) /\ 1 \in DOMAIN old
      /\ \A k \in DOMAIN rest : k + 1 \in DOMAIN old /\ k + 1 # 1 /\ rest[k] = old[k + 1]
      /\ \A k \in DOMAIN old : k = 1 \/ (k - 1 \in DOMAIN rest /\ rest[k - 1] = old[k])
      /\ DOMAIN rest \subseteq Nat
  <2> HIDE DEF old
  <2> QED BY <1>1, TakesFirst
<1>5. /\ DOMAIN out'[c] = DOMAIN out[c] \cup {n} /\ out'[c][n] = <<item, FALSE>>
      /\ \A k \in DOMAIN out[c] : out'[c][k] = out[c][k] /\ k < n
      /\ \A i \in Items : (Said(c, i)' <=> Said(c, i) \/ i = item) /\ (Missed(c, i)' <=> Missed(c, i))
      /\ out'[c] \in Seq(Items \X BOOLEAN)
      /\ \A b \in Calls \ {c} : out'[b] = out[b]
  <2>1. FALSE \in BOOLEAN /\ TRUE # FALSE
    OBVIOUS
  <2> QED BY <1>3, <2>1, LineAdds DEF ListingInv
<1> HIDE DEF old, goes, rest, n
<1>6. /\ goes => asking' = [asking EXCEPT ![c] = <<item, depth>>]
                  /\ attempt' = [attempt EXCEPT ![c] = 1]
      /\ ~goes => asking' = asking /\ attempt' = attempt
  BY <1>3 DEF Mcp!Ask
<1>7. Mcp!ToolsTypeOK'
  <2>1. todo' \in [Calls -> Seq(Items \X Nat)]
    BY <1>3, <1>4 DEF ListingInv, Mcp!ToolsTypeOK
  <2>2. out' \in [Calls -> Seq(Items \X BOOLEAN)]
    BY <1>3, <1>5 DEF ListingInv, Mcp!ToolsTypeOK, Mcp!Line
  <2>3. asking' \in [Calls -> ({Root} \cup Dirs) \X Nat \cup {None}]
    <3>1. goes => <<item, depth>> \in ({Root} \cup Dirs) \X Nat
      BY DEF goes
    <3> QED BY <1>6, <3>1 DEF ListingInv, Mcp!ToolsTypeOK
  <2>4. attempt' \in [Calls -> 0 .. Mcp!MAX_RETRY]
    <3>1. attempt \in [Calls -> 0 .. 3]
      BY DEF ListingInv, Mcp!ToolsTypeOK, Mcp!MAX_RETRY
    <3>2. CASE goes
      BY <1>6, <3>1, <3>2 DEF Mcp!MAX_RETRY
    <3>3. CASE ~goes
      BY <1>6, <3>1, <3>3 DEF Mcp!MAX_RETRY
    <3> QED BY <3>2, <3>3
  <2> QED BY <1>3, <2>1, <2>2, <2>3, <2>4 DEF ListingInv, Mcp!ToolsTypeOK
<1>8. \A b \in Calls \ {c} : CallInv(b)'
  <2> SUFFICES ASSUME NEW b \in Calls \ {c} PROVE CallInv(b)'
    OBVIOUS
  <2>1. tool'[b] = tool[b] /\ asking'[b] = asking[b] /\ todo'[b] = todo[b]
        /\ out'[b] = out[b] /\ answer'[b] = answer[b] /\ blank'[b] = blank[b]
    BY <1>3, <1>5, <1>6 DEF ListingInv, Mcp!ToolsTypeOK
  <2> QED BY <2>1, CallStays DEF ListingInv
<1>9. /\ tool'[c] = tool[c] /\ answer'[c] = answer[c] /\ todo'[c] = rest /\ blank' = blank
      /\ goes => asking'[c] = <<item, depth>>
      /\ ~goes => asking'[c] = None
  BY <1>1, <1>3, <1>6 DEF ListingInv, Mcp!ToolsTypeOK
<1>10. CallInv(c) /\ old = todo[c]
  BY DEF ListingInv, old
<1>11. answer[c] = "listing"
  BY <1>1, <1>10 DEF CallInv, AsksInOrder
<1>12. ~Said(c, item) /\ InTodo(c, item) /\ OnLevel(item, depth)
  <2>1. old[1][1] = item /\ old[1][2] = depth
    BY <1>2
  <2> QED BY <1>4, <1>10, <2>1 DEF CallInv, ListedOnce, DepthsAreLevels, InTodo
<1>13. (\A d : ~AskedFor(c, d)) /\ (\A d : AskedFor(c, d)' <=> goes /\ d = item)
  <2>1. \A d : ~AskedFor(c, d)
    BY <1>1 DEF AskedFor
  <2>2. CASE goes
    <3>1. asking'[c] # None /\ asking'[c][1] = item
      <4>1. <<item, depth>> \in (Dirs \cup {Root}) \X Nat
        BY <2>2 DEF goes
      <4> QED BY <1>9, <2>2, <4>1, ClientsAssumption DEF Mcp!Tree
    <3> QED BY <2>1, <2>2, <3>1 DEF AskedFor
  <2>3. CASE ~goes
    BY <1>9, <2>1, <2>3 DEF AskedFor
  <2> QED BY <2>2, <2>3
\* What is held stays the same: the item goes from the list to the lines.
<1>14. \A i \in Items : Held(c, i)' <=> Held(c, i)
  <2> SUFFICES ASSUME NEW i \in Items PROVE Held(c, i)' <=> Held(c, i)
    OBVIOUS
  <2>1. ASSUME InTodo(c, i) PROVE InTodo(c, i)' \/ i = item
    <3>1. PICK k \in DOMAIN old : old[k][1] = i
      BY <1>10, <2>1 DEF InTodo
    <3>2. CASE k = 1
      BY <1>2, <3>1, <3>2
    <3>3. CASE k # 1
      BY <1>4, <1>9, <3>1, <3>3 DEF InTodo
    <3> QED BY <3>2, <3>3
  <2>2. ASSUME InTodo(c, i)' PROVE InTodo(c, i)
    BY <1>4, <1>9, <1>10, <2>2 DEF InTodo
  <2> QED BY <1>5, <1>12, <2>1, <2>2 DEF Held
<1>15. \A d \in Dirs \cup {Root} :
         /\ d # item => (Open(c, d)' <=> Open(c, d))
         /\ d = item => ~Open(c, d)
         /\ d = item /\ Open(c, d)' => ~goes
  <2>1. Root # item /\ Dirs \subseteq Items
    BY OneDirectory
  <2>2. Missed(c, Root)' <=> Missed(c, Root)
    <3>1. ~Marks(out'[c][n], Root)
      BY <1>5, <2>1 DEF Marks
    <3> QED BY <1>5, <3>1 DEF Missed
  <2> QED BY <1>5, <1>9, <1>12, <1>13, <2>1, <2>2 DEF Open
<1>16. DepthsAreLevels(c)'
  <2>1. \A k \in DOMAIN rest : OnLevel(rest[k][1], rest[k][2])
    BY <1>4, <1>10 DEF CallInv, DepthsAreLevels
  <2>2. goes => depth \in {1, 2} /\ item \in Dirs
    BY <1>12 DEF goes, Mcp!MAX_RECURSIVE_DEPTH, OnLevel
  <2>3. goes => asking'[c][1] = item /\ asking'[c][2] = depth
    BY <1>9
  <2> QED BY <1>9, <1>12, <2>1, <2>2, <2>3 DEF DepthsAreLevels
<1>17. AsksInOrder(c)'
  <2>1. tool[c] # "none"
    BY <1>10, <1>11 DEF CallInv, AsksInOrder
  <2>2. ~AskedFor(c, Root)'
    BY <1>13, OneDirectory
  <2>3. \A d \in Dirs : AskedFor(c, d)' =>
          /\ tool'[c] = "listing" /\ answer'[c] = "listing"
          /\ Said(c, d)' /\ ~Missed(c, d)' /\ d \notin blank'[c]
    <3>1. ~Missed(c, item) /\ item \notin blank[c]
      BY <1>10, <1>12 DEF CallInv, ListedOnce
    <3> QED BY <1>5, <1>9, <1>11, <1>13, <3>1 DEF goes
  <2> QED BY <1>9, <1>11, <2>1, <2>2, <2>3 DEF AsksInOrder
<1>18. ListedOnce(c)'
  <2>1. ListedOnce(c)
    BY <1>10 DEF CallInv
  <2>2. \A k, l \in DOMAIN todo'[c] : todo'[c][k][1] = todo'[c][l][1] => k = l
    <3> SUFFICES ASSUME NEW k \in DOMAIN rest, NEW l \in DOMAIN rest, rest[k][1] = rest[l][1]
                 PROVE  k = l
      BY <1>9
    <3>1. k + 1 = l + 1
      BY <1>4, <1>10, <2>1 DEF ListedOnce
    <3>2. k \in Nat /\ l \in Nat
      BY <1>4
    <3> QED BY <3>1, <3>2
  <2>3. \A k \in DOMAIN todo'[c] : todo'[c][k][1] \in Items /\ ~Said(c, todo'[c][k][1])
                                    /\ todo'[c][k][1] # item
    <3> SUFFICES ASSUME NEW k \in DOMAIN rest
                 PROVE  rest[k][1] \in Items /\ ~Said(c, rest[k][1]) /\ rest[k][1] # item
      BY <1>9
    <3>1. k + 1 \in DOMAIN old /\ k + 1 # 1 /\ rest[k] = old[k + 1] /\ old[1][1] = item
      BY <1>2, <1>4
    <3>2. rest[k][1] # item
      BY <1>4, <1>10, <2>1, <3>1 DEF ListedOnce
    <3>3. rest[k][1] \in Items
      BY <1>4
    <3> QED BY <1>10, <2>1, <3>1, <3>2, <3>3 DEF ListedOnce
  <2>4. (\A k \in DOMAIN todo[c] : ~Said(c, todo[c][k][1]))'
    BY <1>5, <2>3
  <2>5. \A k \in DOMAIN out[c] : out[c][k] # <<item, FALSE>>
    <3> SUFFICES ASSUME NEW k \in DOMAIN out[c], out[c][k] = <<item, FALSE>> PROVE FALSE
      OBVIOUS
    <3>1. out[c][k][1] = item /\ out[c][k][2] = FALSE
      OBVIOUS
    <3> QED BY <1>12, <3>1 DEF Said, Names
  <2>6. \A k, l \in DOMAIN out'[c] : out'[c][k] = out'[c][l] => k = l
    BY <1>5, <2>1, <2>5 DEF ListedOnce
  <2>7. \A d \in Items : Missed(c, d)' \/ d \in blank'[c] => Said(c, d)'
    BY <1>5, <1>9, <2>1 DEF ListedOnce
  <2>8. \A d \in Dirs \cup {Root}, i \in Items : Above(d, i) /\ Held(c, i)' => Open(c, d)'
    BY <1>14, <1>15, <2>1 DEF ListedOnce
  <2> QED BY <2>2, <2>4, <2>6, <2>7, <2>8 DEF ListedOnce
<1>19. DirectoryFirst(c)'
  <2>1. ASSUME NEW d \in Dirs, NEW i \in Items, Above(d, i), NEW l \in DOMAIN out[c],
               Names(out'[c][l], i)
        PROVE  \E k \in DOMAIN out'[c] : k < l /\ Names(out'[c][k], d)
    <3>1. Names(out[c][l], i)
      BY <1>5, <2>1
    <3>2. PICK k \in DOMAIN out[c] : k < l /\ Names(out[c][k], d)
      BY <1>10, <2>1, <3>1 DEF CallInv, DirectoryFirst
    <3> QED BY <1>5, <3>2
  <2>2. ASSUME NEW d \in Dirs, NEW i \in Items, Above(d, i), Names(out'[c][n], i)
        PROVE  \E k \in DOMAIN out'[c] : k < n /\ Names(out'[c][k], d)
    <3>1. i = item
      BY <1>5, <2>2 DEF Names
    <3>2. Open(c, d)
      BY <1>10, <1>12, <2>2, <3>1 DEF CallInv, ListedOnce, Held
    <3>3. PICK k \in DOMAIN out[c] : Names(out[c][k], d)
      BY <3>2, OneDirectory DEF Open, Said
    <3> QED BY <1>5, <3>3
  <2>3. \A d \in Dirs, i \in Items, l \in DOMAIN out'[c] :
          Above(d, i) /\ Names(out'[c][l], i) =>
              \E k \in DOMAIN out'[c] : k < l /\ Names(out'[c][k], d)
    BY <1>5, <2>1, <2>2
  <2> QED BY <2>3 DEF DirectoryFirst, Names
<1>20. NothingForgotten(c)'
  <2> SUFFICES ASSUME tool[c] = "listing" PROVE NothingForgotten(c)'
    BY <1>9 DEF NothingForgotten
  <2>1. \A i \in Level1 : Held(c, i)'
    BY <1>10, <1>11, <1>14 DEF CallInv, NothingForgotten, Level1
  <2>2. \A d \in Dirs \cap (Level1 \cup Level2), i \in Items :
          Open(c, d)' /\ Above(d, i) => Held(c, i)'
    <3> SUFFICES ASSUME NEW d \in Dirs \cap (Level1 \cup Level2), NEW i \in Items,
                        Open(c, d)', Above(d, i)
                 PROVE  Held(c, i)'
      OBVIOUS
    <3>1. d # item
      <4> SUFFICES ASSUME d = item PROVE FALSE
        OBVIOUS
      <4>1. OnLevel(item, 1) \/ OnLevel(item, 2)
        BY DEF OnLevel
      <4>2. depth \in {1, 2, 3}
        BY <1>12 DEF OnLevel
      <4>3. depth < 3
        BY <1>12, <4>1, <4>2, OneLevel
      <4> QED BY <1>15, <4>3 DEF goes, Mcp!MAX_RECURSIVE_DEPTH
    <3> QED BY <1>10, <1>14, <1>15, <3>1 DEF CallInv, NothingForgotten
  <2> QED BY <2>1, <2>2 DEF NothingForgotten, Level1, Level2
<1> QED BY <1>7, <1>8, <1>16, <1>17, <1>18, <1>19, <1>20 DEF ListingInv, CallInv

\* fetchWithRetry: the answer is that the quota is exhausted.
LEMMA LimitedKeeps ==
  ASSUME ListingInv, NEW c \in Calls, Mcp!Limited(c)
  PROVE  ListingInv'
<1>1. asking[c] # None /\ quota' \in 0 .. Quota
  BY ClientsAssumption DEF Mcp!Limited
<1>2. CASE Mcp!GiveUp(c)
  BY <1>1, <1>2, GiveUpKeeps
<1>3. CASE /\ attempt[c] < Mcp!MAX_RETRY /\ attempt' = [attempt EXCEPT ![c] = @ + 1]
           /\ UNCHANGED <<tool, asking, out, answer, blank, todo>>
  <2>1. attempt' \in [Calls -> 0 .. Mcp!MAX_RETRY]
    <3>1. attempt \in [Calls -> 0 .. 3] /\ attempt[c] < 3 /\ attempt[c] \in 0 .. 3
      BY <1>3 DEF ListingInv, Mcp!ToolsTypeOK, Mcp!MAX_RETRY
    <3>2. attempt[c] + 1 \in 0 .. 3
      BY <3>1
    <3> QED BY <1>3, <3>1, <3>2 DEF Mcp!MAX_RETRY
  <2>2. Mcp!ToolsTypeOK'
    BY <1>1, <1>3, <2>1 DEF ListingInv, Mcp!ToolsTypeOK
  <2>3. \A b \in Calls : CallInv(b)'
    BY <1>3, CallStays DEF ListingInv
  <2> QED BY <2>2, <2>3 DEF ListingInv
<1> QED BY <1>2, <1>3 DEF Mcp!Limited

\* list_directory.ts: the lines are joined.
LEMMA ListedKeeps ==
  ASSUME ListingInv, NEW c \in Calls, Mcp!Listed(c)
  PROVE  ListingInv'
<1>1. /\ answer[c] = "listing" /\ asking[c] = None /\ todo[c] = <<>>
      /\ answer' = [answer EXCEPT ![c] = "ok"]
      /\ UNCHANGED <<tool, asking, attempt, todo, out, blank, quota>>
  BY DEF Mcp!Listed, Mcp!Say
<1>2. Mcp!ToolsTypeOK'
  BY <1>1 DEF ListingInv, Mcp!ToolsTypeOK
<1>3. \A b \in Calls \ {c} : CallInv(b)'
  <2> SUFFICES ASSUME NEW b \in Calls \ {c} PROVE CallInv(b)'
    OBVIOUS
  <2>1. answer'[b] = answer[b]
    BY <1>1 DEF ListingInv, Mcp!ToolsTypeOK
  <2> QED BY <1>1, <2>1, CallStays DEF ListingInv
<1>4. answer'[c] = "ok" /\ CallInv(c)
  BY <1>1 DEF ListingInv, Mcp!ToolsTypeOK
<1>5. CallInv(c)'
  <2>1. /\ \A i : InTodo(c, i)' <=> InTodo(c, i)
        /\ \A i : Said(c, i)' <=> Said(c, i)
        /\ \A i : Missed(c, i)' <=> Missed(c, i)
        /\ \A i : ~AskedFor(c, i) /\ ~AskedFor(c, i)'
    BY <1>1 DEF InTodo, Said, Missed, AskedFor
  <2>2. (\A i : Held(c, i)' <=> Held(c, i)) /\ \A d : Open(c, d)' <=> Open(c, d)
    BY <1>1, <2>1 DEF Held, Open
  <2>3. DepthsAreLevels(c)'
    BY <1>1, <1>4 DEF CallInv, DepthsAreLevels
  <2>4. AsksInOrder(c)'
    BY <1>1, <1>4, <2>1 DEF CallInv, AsksInOrder
  <2>5. ListedOnce(c)'
    BY <1>1, <1>4, <2>1, <2>2 DEF CallInv, ListedOnce
  <2>6. DirectoryFirst(c)'
    BY <1>1, <1>4 DEF CallInv, DirectoryFirst
  <2>7. NothingForgotten(c)'
    BY <1>1, <1>4, <2>1, <2>2 DEF CallInv, NothingForgotten, Level1
  <2> QED BY <2>3, <2>4, <2>5, <2>6, <2>7 DEF CallInv
<1> QED BY <1>2, <1>3, <1>5 DEF ListingInv

\* A step of the tools, or of another client, keeps the invariant of the listing.
LEMMA ListingStep ==
  ASSUME ListingInv, [Mcp!Next]_toolsVars
  PROVE  ListingInv'
<1>1. CASE UNCHANGED toolsVars
  <2>1. Mcp!ToolsTypeOK'
    BY <1>1 DEF ListingInv, toolsVars, Mcp!ToolsTypeOK
  <2>2. \A c \in Calls : CallInv(c)'
    BY <1>1, CallStays DEF ListingInv, toolsVars
  <2> QED BY <2>1, <2>2 DEF ListingInv
<1>2. ASSUME NEW c \in Calls, NEW t \in Mcp!Tools, Mcp!Call(c, t) PROVE ListingInv'
  BY <1>2, CallKeeps
<1>3. ASSUME NEW c \in Calls, Mcp!Refused(c) PROVE ListingInv'
  <2>1. quota' \in 0 .. Quota
    BY <1>3, ClientsAssumption DEF Mcp!Refused, ListingInv, Mcp!ToolsTypeOK
  <2> QED BY <1>3, <2>1, GiveUpKeeps DEF Mcp!Refused
<1>4. CASE Mcp!Window
  <2>1. Mcp!ToolsTypeOK'
    BY <1>4, ClientsAssumption DEF ListingInv, Mcp!Window, Mcp!ToolsTypeOK
  <2>2. \A c \in Calls : CallInv(c)'
    BY <1>4, CallStays DEF ListingInv, Mcp!Window
  <2> QED BY <2>1, <2>2 DEF ListingInv
<1> QED BY <1>1, <1>2, <1>3, <1>4, AnswerOnceKeeps, LimitedKeeps, ContentsKeeps,
           EntryKeeps, ListedKeeps DEF Mcp!Next

\* Before the first call nothing is listed.
LEMMA ListingInit == Mcp!Init => ListingInv
<1> SUFFICES ASSUME Mcp!Init PROVE ListingInv
  OBVIOUS
<1>1. Mcp!ToolsTypeOK
  BY DEF Mcp!Init, Mcp!ToolsTypeOK, Mcp!MAX_RETRY
<1>2. ASSUME NEW c \in Calls PROVE CallInv(c)
  <2>1. /\ tool[c] = "none" /\ asking[c] = None /\ todo[c] = <<>> /\ out[c] = <<>>
        /\ answer[c] = "none" /\ blank[c] = {} /\ DOMAIN todo[c] = {} /\ DOMAIN out[c] = {}
    BY DEF Mcp!Init
  <2>2. \A i : ~Said(c, i) /\ ~Held(c, i) /\ ~Missed(c, i)
    BY <2>1 DEF Said, Held, InTodo, Missed
  <2> QED BY <2>1, <2>2 DEF CallInv, DepthsAreLevels, AsksInOrder, AskedFor,
                            ListedOnce, DirectoryFirst, NothingForgotten
<1> QED BY <1>1, <1>2 DEF ListingInv

\* A line says what it is about, and whether it is a mark.
LEMMA LineIs ==
  ASSUME NEW S, NEW l \in S \X BOOLEAN, NEW i
  PROVE  /\ Names(l, i) <=> l = <<i, FALSE>>
         /\ Marks(l, i) <=> l = <<i, TRUE>>
<1>1. l = <<l[1], l[2]>>
  OBVIOUS
<1>2. ASSUME Names(l, i) PROVE l = <<i, FALSE>>
  <2>1. <<l[1], l[2]>> = <<i, FALSE>>
    BY <1>2, Zenon DEF Names
  <2> QED BY <1>1, <2>1, Zenon
<1>3. ASSUME Marks(l, i) PROVE l = <<i, TRUE>>
  <2>1. <<l[1], l[2]>> = <<i, TRUE>>
    BY <1>3, Zenon DEF Marks
  <2> QED BY <1>1, <2>1, Zenon
<1>4. ASSUME l = <<i, FALSE>> PROVE Names(l, i)
  BY <1>4 DEF Names
<1>5. ASSUME l = <<i, TRUE>> PROVE Marks(l, i)
  BY <1>5 DEF Marks
<1> QED BY <1>2, <1>3, <1>4, <1>5

\* What the listing promises follows from its invariant.
LEMMA ListingPromises == ListingInv => ListingComplete
<1> SUFFICES ASSUME ListingInv, NEW c \in Calls, tool[c] = "listing", answer[c] = "ok"
             PROVE  /\ \A k, l \in DOMAIN out[c] : out[c][k] = out[c][l] => k = l
                    /\ \A i \in Items : Above(Root, i) => Mcp!Named(c, i) # {}
                    /\ \A d \in Mcp!ShallowDirs, k \in DOMAIN out[c] : k \in Mcp!Named(c, d) =>
                        \/ /\ Mcp!Marked(c, d) # {} \/ d \in blank[c]
                           /\ \A i \in Items : Above(d, i) => Mcp!Named(c, i) = {}
                        \/ \A i \in Items : Above(d, i) => \E l \in Mcp!Named(c, i) : k < l
  BY DEF ListingComplete, Mcp!ListingComplete, Mcp!Lines, Above
<1>1. CallInv(c) /\ todo[c] = <<>> /\ asking[c] = None
  BY DEF ListingInv, CallInv, AsksInOrder
<1>2. \A i : (Held(c, i) <=> Said(c, i)) /\ ~AskedFor(c, i)
  BY <1>1 DEF Held, InTodo, AskedFor
<1>3. \A k \in DOMAIN out[c], i \in Items :
        /\ Names(out[c][k], i) <=> out[c][k] = <<i, FALSE>>
        /\ Marks(out[c][k], i) <=> out[c][k] = <<i, TRUE>>
  <2>1. \A k \in DOMAIN out[c] : out[c][k] \in Items \X BOOLEAN
    BY DEF ListingInv, Mcp!ToolsTypeOK
  <2> QED BY <2>1, LineIs
<1>4. /\ \A i \in Items : Mcp!Named(c, i) = {k \in DOMAIN out[c] : Names(out[c][k], i)}
      /\ \A i \in Items : Mcp!Marked(c, i) = {k \in DOMAIN out[c] : Marks(out[c][k], i)}
  BY <1>3 DEF Mcp!Named, Mcp!Marked, Mcp!Lines
<1>5. /\ \A i \in Items : Said(c, i) <=> Mcp!Named(c, i) # {}
      /\ \A i \in Items : Missed(c, i) <=> Mcp!Marked(c, i) # {}
  BY <1>4 DEF Said, Missed
<1>6. \A i \in Items : Above(Root, i) => Mcp!Named(c, i) # {}
  BY <1>1, <1>2, <1>5 DEF CallInv, NothingForgotten, Level1
<1>7. Mcp!ShallowDirs = Dirs \cap (Level1 \cup Level2)
  BY OneDirectory DEF Mcp!ShallowDirs, Level1, Level2, Above
<1>8. ASSUME NEW d \in Dirs \cap (Level1 \cup Level2), NEW k \in DOMAIN out[c], Names(out[c][k], d)
      PROVE  \/ (Missed(c, d) \/ d \in blank[c]) /\ \A i \in Items : Above(d, i) => ~Said(c, i)
             \/ \A i \in Items : Above(d, i) =>
                    \E l \in DOMAIN out[c] : Names(out[c][l], i) /\ k < l
  <2>1. CASE Missed(c, d) \/ d \in blank[c]
    <3>1. ~Open(c, d)
      BY <2>1 DEF Open
    <3> QED BY <1>1, <1>2, <2>1, <3>1 DEF CallInv, ListedOnce
  <2>2. CASE ~Missed(c, d) /\ d \notin blank[c]
    <3> SUFFICES ASSUME NEW i \in Items, Above(d, i)
                 PROVE  \E l \in DOMAIN out[c] : Names(out[c][l], i) /\ k < l
      OBVIOUS
    <3>1. Open(c, d)
      BY <1>2, <1>8, <2>2 DEF Open, Said
    <3>2. PICK l \in DOMAIN out[c] : Names(out[c][l], i)
      BY <1>1, <1>2, <3>1 DEF CallInv, NothingForgotten, Said
    <3>3. PICK m \in DOMAIN out[c] : m < l /\ Names(out[c][m], d)
      BY <1>1, <3>2 DEF CallInv, DirectoryFirst
    <3>4. m = k
      <4>1. out[c][m] = <<d, FALSE>> /\ out[c][k] = <<d, FALSE>>
        BY <1>3, <1>8, <3>3, OneDirectory
      <4>2. out[c][m] = out[c][k]
        BY <4>1
      <4> QED BY <1>1, <4>2 DEF CallInv, ListedOnce
    <3> QED BY <3>2, <3>3, <3>4
  <2> QED BY <2>1, <2>2
<1>9. \A d \in Mcp!ShallowDirs, k \in DOMAIN out[c] : k \in Mcp!Named(c, d) =>
        \/ /\ Mcp!Marked(c, d) # {} \/ d \in blank[c]
           /\ \A i \in Items : Above(d, i) => Mcp!Named(c, i) = {}
        \/ \A i \in Items : Above(d, i) => \E l \in Mcp!Named(c, i) : k < l
  <2> SUFFICES ASSUME NEW d \in Dirs \cap (Level1 \cup Level2), NEW k \in DOMAIN out[c],
                      k \in Mcp!Named(c, d)
               PROVE  \/ /\ Mcp!Marked(c, d) # {} \/ d \in blank[c]
                         /\ \A i \in Items : Above(d, i) => Mcp!Named(c, i) = {}
                      \/ \A i \in Items : Above(d, i) => \E l \in Mcp!Named(c, i) : k < l
    BY <1>7
  <2>1. Names(out[c][k], d) /\ d \in Items
    BY <1>4, OneDirectory
  <2> QED BY <1>4, <1>5, <1>8, <2>1
<1> QED BY <1>1, <1>6, <1>9 DEF CallInv, ListedOnce
-----------------------------------------------------------------------------
(* The types of the other clients.  Those of the login need that no one    *)
(* holds a refresh token that was not issued yet, those of the editor that *)
(* a poll is only sent while the deadline lets it, those of the documents  *)
(* that an answer is awaited for a tick.                                   *)

AuthInv == Auth!AuthTypeOK /\ \A k \in {"shared", "init"} : renew[k][2] <= issued

CodeInv ==
    /\ Code!VsCodeTypeOK
    /\ \A k \in Commands :
        /\ at[k] \in {"off", "creating"} => polls[k] = 0
        /\ at[k] = "polling" => polls[k] < MaxCodePolls

DocInv == Docs!DocTypeOK /\ \A r \in Requests : inflight[r] <= docPolls[r]

\* client.ts and useAuth: a step changes the renewal that runs, or whom it is for.
LEMMA RenewalSet ==
  ASSUME AuthInv, NEW k \in {"shared", "init"}, NEW m \in Nat, NEW n \in Nat, n <= m, issued <= m,
         NEW how \in {"idle", "asked", "found", "granted", "refused"},
         renew' = [renew EXCEPT ![k] = <<how, n>>], issued' = m
  PROVE  /\ renew' \in [{"shared", "init"} ->
                          {"idle", "asked", "found", "granted", "refused"} \X Nat]
         /\ \A j \in {"shared", "init"} : renew'[j][2] <= issued'
<1>1. /\ renew \in [{"shared", "init"} ->
                      {"idle", "asked", "found", "granted", "refused"} \X Nat]
      /\ issued \in Nat
  BY DEF AuthInv, Auth!AuthTypeOK
<1>2. <<how, n>> \in {"idle", "asked", "found", "granted", "refused"} \X Nat
  OBVIOUS
<1>3. renew'[k][2] = n /\ \A j \in {"shared", "init"} \ {k} : renew'[j] = renew[j]
  BY <1>1
<1>4. \A j \in {"shared", "init"} : renew[j][2] \in Nat /\ renew[j][2] <= issued
  BY <1>1 DEF AuthInv
<1> QED BY <1>1, <1>2, <1>3, <1>4

LEMMA AuthInit == Auth!Init => AuthInv
<1> SUFFICES ASSUME Auth!Init PROVE AuthInv
  OBVIOUS
<1>1. renew = [k \in {"shared", "init"} |-> <<"idle", 0>>] /\ issued = 1
  BY DEF Auth!Init, Auth!Idle
<1>2. \A k \in {"shared", "init"} : renew[k][2] = 0
  BY <1>1
<1>3. Auth!AuthTypeOK
  <2>1. cookie \in 0 .. issued /\ valid \subseteq 1 .. issued /\ issued \in 1 .. MaxRotations
    BY <1>1, ClientsAssumption DEF Auth!Init
  <2>2. renew \in [{"shared", "init"} ->
                     {"idle", "asked", "found", "granted", "refused"} \X Nat]
    BY <1>1
  <2> QED BY <2>1, <2>2 DEF Auth!Init, Auth!AuthTypeOK
<1> QED BY <1>1, <1>2, <1>3 DEF AuthInv

\* client.ts, useAuth and AuthService.
LEMMA AuthStep == AuthInv /\ [Auth!Next]_authVars => AuthInv'
<1> SUFFICES ASSUME AuthInv, [Auth!Next]_authVars PROVE AuthInv'
  OBVIOUS
<1> DEFINE K == {"shared", "init"}
<1>1. /\ issued \in Nat /\ issued >= 1 /\ cookie \in Nat /\ cookie <= issued
      /\ \A k \in K : renew[k][2] \in Nat /\ renew[k][2] <= issued
      /\ renew \in [K -> {"idle", "asked", "found", "granted", "refused"} \X Nat]
      /\ MaxRotations \in Nat
  BY ClientsAssumption DEF AuthInv, Auth!AuthTypeOK
<1>2. \A rs, how : how \in {"again", "settled"} /\ Auth!Settle(rs, how) =>
        req' \in [Reqs -> Auth!InFlight \cup {"settled"}]
  BY DEF AuthInv, Auth!AuthTypeOK, Auth!Settle, Auth!InFlight
\* A step that issues no token.
<1>3. ASSUME issued' = issued, valid' \subseteq valid, cookie' \in 0 .. issued,
             req' \in [Reqs -> Auth!InFlight \cup {"settled"}],
             api_' \in BOOLEAN, store' \in BOOLEAN, user' \in BOOLEAN,
             page' \in {"loading", "init", "profile", "ready", "leaving"},
             \/ renew' = renew
             \/ \E k \in K, n \in 0 .. issued, how \in {"idle", "asked", "found", "granted", "refused"} :
                  renew' = [renew EXCEPT ![k] = <<how, n>>]
      PROVE  AuthInv'
  <2>1. /\ renew' \in [K -> {"idle", "asked", "found", "granted", "refused"} \X Nat]
        /\ \A j \in K : renew'[j][2] <= issued'
    <3>1. CASE renew' = renew
      BY <1>1, <1>3, <3>1
    <3>2. CASE renew' # renew
      <4>1. PICK k \in K, n \in 0 .. issued, how \in {"idle", "asked", "found", "granted", "refused"} :
              renew' = [renew EXCEPT ![k] = <<how, n>>]
        BY <1>3, <3>2
      <4>2. n \in Nat /\ n <= issued /\ issued <= issued
        BY <1>1
      <4> QED BY <1>1, <1>3, <4>1, <4>2, RenewalSet
    <3> QED BY <3>1, <3>2
  <2> QED BY <1>3, <2>1 DEF AuthInv, Auth!AuthTypeOK
\* A step that issues one.
<1>4. ASSUME NEW others, Auth!Issue(others), cookie' \in {cookie, issued + 1},
             api_' \in BOOLEAN, store' \in BOOLEAN, user' = user, req' = req,
             page' \in {page, "profile"},
             renew' = renew \/ \E k \in K : renew' = [renew EXCEPT ![k] = <<"granted", issued + 1>>]
      PROVE  AuthInv'
  <2>1. /\ issued' = issued + 1 /\ issued' \in 1 .. MaxRotations
        /\ valid' \subseteq 1 .. issued' /\ cookie' \in 0 .. issued'
    <3>1. issued' = issued + 1 /\ issued + 1 \in 1 .. MaxRotations
      BY <1>1, <1>4 DEF Auth!Issue
    <3>2. valid \subseteq 1 .. issued
      BY DEF AuthInv, Auth!AuthTypeOK
    <3>3. valid' \subseteq 1 .. issued + 1
      <4>1. 1 .. issued \subseteq 1 .. issued + 1 /\ issued + 1 \in 1 .. issued + 1
        BY <1>1
      <4>2. valid' = (valid \ others) \cup {issued + 1}
        BY <1>4 DEF Auth!Issue
      <4> QED BY <3>2, <4>1, <4>2
    <3> QED BY <1>1, <1>4, <3>1, <3>3
  <2>2. /\ renew' \in [K -> {"idle", "asked", "found", "granted", "refused"} \X Nat]
        /\ \A j \in K : renew'[j][2] <= issued'
    <3>1. CASE renew' = renew
      BY <1>1, <2>1, <3>1
    <3>2. CASE \E k \in K : renew' = [renew EXCEPT ![k] = <<"granted", issued + 1>>]
      <4>1. issued + 1 \in Nat /\ issued + 1 <= issued + 1 /\ issued <= issued + 1
        BY <1>1
      <4> QED BY <2>1, <3>2, <4>1, RenewalSet
    <3> QED BY <1>4, <3>1, <3>2
  <2> QED BY <1>4, <2>1, <2>2 DEF AuthInv, Auth!AuthTypeOK
<1> HIDE DEF K
\* A renewal that is over.
<1>0. \A k \in K : renew' = [renew EXCEPT ![k] = Auth!Idle] =>
        \E j \in K, n \in 0 .. issued, how \in {"idle", "asked", "found", "granted", "refused"} :
           renew' = [renew EXCEPT ![j] = <<how, n>>]
  <2>1. Auth!Idle = <<"idle", 0>> /\ 0 \in 0 .. issued
    BY <1>1 DEF Auth!Idle
  <2> QED BY <2>1
<1>5. ASSUME NEW r \in Reqs, Auth!Send(r) \/ Auth!Answered(r) \/ Auth!Refused(r) PROVE AuthInv'
  <2>1. CASE Auth!Send(r) \/ Auth!Answered(r)
    BY <1>1, <1>3, <2>1 DEF Auth!Send, Auth!Answered, AuthInv, Auth!AuthTypeOK, Auth!InFlight
  <2>2. CASE Auth!Refused(r)
    BY <1>1, <1>3, <2>2 DEF Auth!Refused, AuthInv, Auth!AuthTypeOK, Auth!InFlight, Auth!Asked, K
  <2> QED BY <1>5, <2>1, <2>2
<1>6. CASE Auth!Renewed
  <2>1. cookie' \in 0 .. issued
    BY <1>1, <1>6 DEF Auth!Renewed, K
  <2> QED BY <1>0, <1>1, <1>2, <1>3, <2>1, <1>6 DEF Auth!Renewed, AuthInv, Auth!AuthTypeOK, K
<1>7. CASE Auth!RenewalFails
  BY <1>0, <1>1, <1>2, <1>3, <1>7 DEF Auth!RenewalFails, Auth!SignOut, AuthInv, Auth!AuthTypeOK, K
<1>8. ASSUME NEW k \in K, Auth!FindToken(k) PROVE AuthInv'
  BY <1>1, <1>3, <1>8 DEF Auth!FindToken, AuthInv, Auth!AuthTypeOK
<1>9. ASSUME NEW k \in K, Auth!Rotate(k) PROVE AuthInv'
  BY <1>1, <1>4, <1>9 DEF Auth!Rotate, AuthInv, Auth!AuthTypeOK
<1>10. CASE Auth!MountSync
  BY <1>1, <1>3, <1>10 DEF Auth!MountSync, AuthInv, Auth!AuthTypeOK
<1>11. CASE Auth!InitAuth
  BY <1>1, <1>3, <1>11 DEF Auth!InitAuth, AuthInv, Auth!AuthTypeOK, Auth!Asked, K
<1>12. CASE Auth!InitGranted
  <2>1. cookie' \in 0 .. issued
    BY <1>1, <1>12 DEF Auth!InitGranted, K
  <2> QED BY <1>0, <1>1, <1>3, <2>1, <1>12 DEF Auth!InitGranted, AuthInv, Auth!AuthTypeOK, K
<1>13. CASE Auth!InitRefused
  BY <1>0, <1>1, <1>3, <1>13 DEF Auth!InitRefused, AuthInv, Auth!AuthTypeOK, K
<1>14. CASE Auth!InitFails
  BY <1>0, <1>1, <1>3, <1>14 DEF Auth!InitFails, AuthInv, Auth!AuthTypeOK, K
<1>15. ASSUME NEW ok \in BOOLEAN, Auth!ProfileLoaded(ok) PROVE AuthInv'
  BY <1>1, <1>3, <1>15 DEF Auth!ProfileLoaded, Auth!SignOut, AuthInv, Auth!AuthTypeOK
<1>16. CASE Auth!Login
  BY <1>1, <1>4, <1>16 DEF Auth!Login, AuthInv, Auth!AuthTypeOK
<1>17. CASE Auth!Logout
  BY <1>1, <1>3, <1>17 DEF Auth!Logout, AuthInv, Auth!AuthTypeOK
<1>18. CASE Auth!LoggedOut
  BY <1>1, <1>3, <1>18 DEF Auth!LoggedOut, Auth!SignOut, AuthInv, Auth!AuthTypeOK
<1>19. CASE Auth!OtherTab
  BY <1>1, <1>4, <1>19 DEF Auth!OtherTab, AuthInv, Auth!AuthTypeOK
<1>20. CASE UNCHANGED authVars
  BY <1>1, <1>3, <1>20 DEF authVars, AuthInv, Auth!AuthTypeOK
<1> QED BY <1>5, <1>6, <1>7, <1>8, <1>9, <1>10, <1>11, <1>12, <1>13, <1>14, <1>15, <1>16,
           <1>17, <1>18, <1>19, <1>20 DEF Auth!Next, Auth!Client, Auth!Server, Auth!Page, K

LEMMA CodeInit == Code!Init => CodeInv
  BY ClientsAssumption DEF Code!Init, CodeInv, Code!VsCodeTypeOK

\* extension.ts
LEMMA CodeStep == CodeInv /\ [Code!Next]_codeVars => CodeInv'
<1> SUFFICES ASSUME CodeInv, [Code!Next]_codeVars PROVE CodeInv'
  OBVIOUS
<1> USE ClientsAssumption DEF CodeInv, Code!VsCodeTypeOK, Code!Awaiting, Code!Ended
<1>1. CASE Code!SetToken
  BY <1>1 DEF Code!SetToken
<1>2. ASSUME NEW k \in Commands, Code!Analyze(k) PROVE CodeInv'
  BY <1>2 DEF Code!Analyze, Code!Go
<1>3. ASSUME NEW k \in Commands, Code!Create(k) PROVE CodeInv'
  BY <1>3 DEF Code!Create
<1>4. ASSUME NEW k \in Commands, NEW how \in Code!Ended, Code!SessionEnds(k, how) PROVE CodeInv'
  BY <1>4 DEF Code!SessionEnds
<1>5. ASSUME NEW k \in Commands, Code!Created(k) PROVE CodeInv'
  BY <1>5 DEF Code!Created, Code!Go
<1>6. ASSUME NEW k \in Commands, Code!Polled(k) PROVE CodeInv'
  <2>1. PICK to \in {"fetching", "ended", "pausing"} : Code!Go(k, to)
    BY <1>6 DEF Code!Polled
  <2>2. polls[k] + 1 \in 0 .. MaxCodePolls
    BY <1>6 DEF Code!Polled
  <2> QED BY <1>6, <2>1, <2>2 DEF Code!Polled, Code!Go
<1>7. ASSUME NEW k \in Commands, Code!Paused(k) PROVE CodeInv'
  BY <1>7 DEF Code!Paused, Code!Go
<1>8. ASSUME NEW k \in Commands, Code!Fetched(k) PROVE CodeInv'
  BY <1>8 DEF Code!Fetched, Code!Go
<1>9. ASSUME NEW k \in Commands, Code!RequestFails(k) PROVE CodeInv'
  BY <1>9 DEF Code!RequestFails, Code!Go
<1>10. CASE UNCHANGED codeVars
  BY <1>10 DEF codeVars
<1> QED BY <1>1, <1>2, <1>3, <1>4, <1>5, <1>6, <1>7, <1>8, <1>9, <1>10 DEF Code!Next

LEMMA DocInit == Docs!Init => DocInv
  BY ClientsAssumption DEF Docs!Init, DocInv, Docs!DocTypeOK

\* SecurityDocPage.tsx
LEMMA DocStep == DocInv /\ [Docs!Next]_docVars => DocInv'
<1> SUFFICES ASSUME DocInv, [Docs!Next]_docVars PROVE DocInv'
  OBVIOUS
<1> USE ClientsAssumption DEF DocInv, Docs!DocTypeOK, Docs!Ready
<1>1. ASSUME NEW r \in Requests, Docs!Generate(r) PROVE DocInv'
  BY <1>1 DEF Docs!Generate
<1>2. ASSUME NEW r \in Requests, Docs!Requested(r) PROVE DocInv'
  BY <1>2 DEF Docs!Requested
<1>3. ASSUME NEW r \in Requests, Docs!RequestFails(r) PROVE DocInv'
  BY <1>3 DEF Docs!RequestFails
<1>4. ASSUME NEW r \in Requests, NEW how \in Docs!Ready, Docs!Written(r, how) PROVE DocInv'
  BY <1>4 DEF Docs!Written
<1>5. ASSUME NEW r \in Requests, Docs!Tick(r) PROVE DocInv'
  <2>1. CASE docPolls[r] < MaxDocPolls
    <3>1. docPolls[r] + 1 \in 0 .. MaxDocPolls /\ inflight[r] + 1 \in 0 .. MaxDocPolls
      BY <2>1
    <3> QED BY <1>5, <2>1, <3>1 DEF Docs!Tick
  <2>2. CASE docPolls[r] = MaxDocPolls
    BY <1>5, <2>2 DEF Docs!Tick, Docs!StopPolling
  <2> QED BY <2>1, <2>2
<1>6. ASSUME NEW r \in Requests, Docs!Answer(r) PROVE DocInv'
  <2>1. inflight[r] - 1 \in 0 .. MaxDocPolls /\ inflight[r] - 1 <= docPolls[r]
    BY <1>6 DEF Docs!Answer
  <2>2. inflight' \in [Requests -> 0 .. MaxDocPolls] /\ \A q \in Requests : inflight'[q] <= docPolls'[q]
    BY <1>6, <2>1 DEF Docs!Answer
  <2>3. /\ card' \in {"idle", "generating", "completed", "failed"}
        /\ handle' \in Requests \cup {None} /\ download' \in Requests \cup {None}
        /\ ticking' \subseteq Requests /\ doc' = doc /\ docPolls' = docPolls
    BY <1>6 DEF Docs!Answer, Docs!StopPolling
  <2> QED BY <2>2, <2>3
<1>7. CASE UNCHANGED docVars
  BY <1>7 DEF docVars
<1> QED BY <1>1, <1>2, <1>3, <1>4, <1>5, <1>6, <1>7 DEF Docs!Next

LEMMA ReportInit == Reports!Init => Reports!ReportTypeOK
  BY ClientsAssumption DEF Reports!Init, Reports!ReportTypeOK

\* PdfReportModal.tsx and CommitSecretScanModal.tsx
LEMMA ReportStep == Reports!ReportTypeOK /\ [Reports!Next]_reportVars => Reports!ReportTypeOK'
<1> SUFFICES ASSUME Reports!ReportTypeOK, [Reports!Next]_reportVars PROVE Reports!ReportTypeOK'
  OBVIOUS
<1> USE ClientsAssumption DEF Reports!ReportTypeOK, Reports!Ended, Reports!reports, Reports!secrets
<1>1. ASSUME NEW fs \in SUBSET Formats, Reports!Generate(fs) PROVE Reports!ReportTypeOK'
  BY <1>1 DEF Reports!Generate
<1>2. ASSUME NEW f \in Formats, Reports!Posted(f) PROVE Reports!ReportTypeOK'
  BY <1>2 DEF Reports!Posted, Reports!Enter
<1>3. ASSUME NEW f \in Formats, Reports!Poll(f) PROVE Reports!ReportTypeOK'
  <2>1. CASE tries[f] < MaxReportPolls
    <3>1. tries[f] + 1 \in 0 .. MaxReportPolls
      BY <2>1
    <3>2. tries' \in [Formats -> 0 .. MaxReportPolls]
      BY <1>3, <2>1, <3>1 DEF Reports!Poll
    <3>3. entry' \in [Formats -> {"none", "posting", "created", "polling", "ready", "failed"}]
      BY <1>3, <2>1 DEF Reports!Poll, Reports!Enter
    <3> QED BY <1>3, <3>2, <3>3 DEF Reports!Poll
  <2>2. CASE tries[f] = MaxReportPolls
    BY <1>3, <2>2 DEF Reports!Poll, Reports!Enter
  <2> QED BY <2>1, <2>2
<1>4. ASSUME NEW f \in Formats, NEW how \in Reports!Ended, Reports!ReportEnds(f, how)
      PROVE  Reports!ReportTypeOK'
  BY <1>4 DEF Reports!ReportEnds
<1>5. CASE Reports!AllPosted
  BY <1>5 DEF Reports!AllPosted
<1>6. CASE Reports!AllReady
  BY <1>6 DEF Reports!AllReady
<1>7. CASE Reports!Reopen
  BY <1>7 DEF Reports!Reopen
<1>8. CASE Reports!Scan \/ Reports!ScanPosted \/ Reports!JobDone
  BY <1>8 DEF Reports!Scan, Reports!ScanPosted, Reports!JobDone
<1>9. CASE Reports!ScanWaited \/ Reports!ScanAnswered
  BY <1>9 DEF Reports!ScanWaited, Reports!ScanAnswered
<1>10. CASE UNCHANGED reportVars
  BY <1>10 DEF reportVars
<1> QED BY <1>1, <1>2, <1>3, <1>4, <1>5, <1>6, <1>7, <1>8, <1>9, <1>10 DEF Reports!Next

LEMMA DastInit == Dast!Init => Dast!DastPanelTypeOK
  BY DEF Dast!Init, Dast!DastPanelTypeOK

\* DastRunSection.tsx, useDastStream and DastWorkspacePage.tsx
LEMMA DastStep == Dast!DastPanelTypeOK /\ [Dast!Next]_dastVars => Dast!DastPanelTypeOK'
<1> SUFFICES ASSUME Dast!DastPanelTypeOK, [Dast!Next]_dastVars PROVE Dast!DastPanelTypeOK'
  OBVIOUS
<1> USE DEF Dast!DastPanelTypeOK, Dast!single
<1>1. ASSUME NEW r \in Runs, Dast!Run(r) PROVE Dast!DastPanelTypeOK'
  BY <1>1 DEF Dast!Run
<1>2. ASSUME NEW r \in Runs, Dast!Scanning(r) \/ Dast!ScanEnds(r) \/ Dast!Expires(r)
      PROVE  Dast!DastPanelTypeOK'
  BY <1>2 DEF Dast!Scanning, Dast!ScanEnds, Dast!Expires
<1>3. ASSUME NEW r \in Runs, Dast!ScanFails(r) PROVE Dast!DastPanelTypeOK'
  BY <1>3 DEF Dast!ScanFails
<1>4. ASSUME NEW r \in Runs, Dast!Accepted(r) \/ Dast!Rejected(r) \/ Dast!PostLost(r)
      PROVE  Dast!DastPanelTypeOK'
  BY <1>4 DEF Dast!Accepted, Dast!Rejected, Dast!PostLost
<1>5. ASSUME NEW r \in Runs, Dast!Result(r) \/ Dast!StreamError(r) PROVE Dast!DastPanelTypeOK'
  BY <1>5 DEF Dast!Result, Dast!StreamError
<1>6. CASE Dast!Output \/ Dast!Page \/ Dast!Launch \/ Dast!Launched
  BY <1>6 DEF Dast!Output, Dast!Page, Dast!Launch, Dast!Launched
<1>7. CASE Dast!BatchCompletes \/ Dast!SummaryExpires \/ Dast!BatchSummary \/ Dast!BatchError
  BY <1>7 DEF Dast!BatchCompletes, Dast!SummaryExpires, Dast!BatchSummary, Dast!BatchError
<1>8. CASE UNCHANGED dastVars
  BY <1>8 DEF dastVars
<1> QED BY <1>1, <1>2, <1>3, <1>4, <1>5, <1>6, <1>7, <1>8 DEF Dast!Next
-----------------------------------------------------------------------------
(* All the clients. *)

ClientsInv ==
    /\ PanelInv /\ ListingInv /\ AuthInv /\ CodeInv /\ DocInv
    /\ Reports!ReportTypeOK /\ Dast!DastPanelTypeOK

LEMMA ClientsInit == AllInit => ClientsInv
  BY PanelInit, ListingInit, AuthInit, CodeInit, DocInit, ReportInit, DastInit
     DEF AllInit, ClientsInv

\* A step of the clients is one of each of them, or leaves it alone.
LEMMA StepOfEach == [AllNext]_allVars =>
    /\ [Next]_vars
    /\ [Mcp!Next]_toolsVars /\ [Auth!Next]_authVars /\ [Code!Next]_codeVars
    /\ [Docs!Next]_docVars /\ [Reports!Next]_reportVars /\ [Dast!Next]_dastVars
<1> SUFFICES ASSUME [AllNext]_allVars
             PROVE  /\ [Next]_vars
                    /\ [Mcp!Next]_toolsVars /\ [Auth!Next]_authVars
                    /\ [Code!Next]_codeVars /\ [Docs!Next]_docVars
                    /\ [Reports!Next]_reportVars /\ [Dast!Next]_dastVars
  OBVIOUS
<1>1. CASE AuthMoves
  BY <1>1 DEF AuthMoves
<1>2. CASE ToolsMove
  BY <1>2 DEF ToolsMove
<1>3. CASE CodeMoves
  BY <1>3 DEF CodeMoves
<1>4. CASE DocsMove
  BY <1>4 DEF DocsMove
<1>5. CASE ReportsMove
  BY <1>5 DEF ReportsMove
<1>6. CASE DastMoves
  BY <1>6 DEF DastMoves
<1>7. CASE PanelMoves
  BY <1>7 DEF PanelMoves
<1>8. CASE UNCHANGED allVars
  BY <1>8 DEF allVars
<1> QED BY <1>1, <1>2, <1>3, <1>4, <1>5, <1>6, <1>7, <1>8 DEF AllNext

LEMMA ClientsStep == ClientsInv /\ [AllNext]_allVars => ClientsInv'
  BY StepOfEach, PanelStep, ListingStep, AuthStep, CodeStep, DocStep, ReportStep, DastStep
     DEF ClientsInv

\* The clients always satisfy their invariants ...
THEOREM ClientsInvariant == AllSpec => []ClientsInv
  BY ClientsInit, ClientsStep, PTL DEF AllSpec

\* ... so the state of each has its types ...
THEOREM ClientsTypeCorrect == AllSpec => []ClientsTypeOK
<1>1. ClientsInv => ClientsTypeOK
  BY DEF ClientsInv, ClientsTypeOK, PanelInv, ListingInv, AuthInv, CodeInv, DocInv
<1> QED BY <1>1, ClientsInvariant, PTL

\* ... and a finding that no operation is about shows the status it has in the
\* backend, unless operations overlapped on it, an answer was lost, its patch
\* was applied in the list, or the list was loaded as open while it was not, or
\* from an answer older than an operation on it ...
THEOREM PanelAgrees == AllSpec => []SettledAgrees
<1>1. ClientsInv => SettledAgrees
  BY DEF ClientsInv, PanelInv
<1> QED BY <1>1, ClientsInvariant, PTL

\* ... and a recursive listing that list_directory.ts answers with names every
\* item once, after the directory it is in, and marks a directory it could not
\* list: for every tree, every number of calls beside it, and however its
\* requests were limited, refused and asked again.
THEOREM ListingsAreComplete == AllSpec => []ListingComplete
<1>1. ClientsInv => ListingComplete
  BY ListingPromises DEF ClientsInv
<1> QED BY <1>1, ClientsInvariant, PTL
-----------------------------------------------------------------------------
(* What waits has something to wait for. *)

\* A renewal that has got anywhere is not idle.
LEMMA NotIdle == \A n : \A how \in {"asked", "found", "granted", "refused"} :
    <<how, n>> # Auth!Idle
<1> SUFFICES ASSUME NEW n, NEW how \in {"asked", "found", "granted", "refused"},
                    <<how, n>> = Auth!Idle
             PROVE  FALSE
  OBVIOUS
<1>1. <<how, n>> = <<"idle", 0>>
  BY DEF Auth!Idle
<1>2. how = "idle"
  BY <1>1
<1> QED BY <1>2

\* client.ts: whoever starts to wait finds a renewal or starts one, and the end of
\* a renewal leaves nobody behind.
LEMMA WaitersStep ==
  AuthInv /\ Auth!WaitersAreServed /\ [Auth!Next]_authVars => Auth!WaitersAreServed'
<1> SUFFICES ASSUME AuthInv, Auth!WaitersAreServed, [Auth!Next]_authVars
             PROVE  Auth!WaitersAreServed'
  OBVIOUS
<1> DEFINE K == {"shared", "init"}
<1>1. /\ req \in [Reqs -> Auth!InFlight \cup {"settled"}]
      /\ renew \in [K -> {"idle", "asked", "found", "granted", "refused"} \X Nat]
  BY DEF AuthInv, Auth!AuthTypeOK
\* A step that lets nobody wait, and does not end the shared renewal.
<1>2. ASSUME \A r \in Reqs : req'[r] = "waiting" => req[r] = "waiting",
             renew["shared"] # Auth!Idle => renew'["shared"] # Auth!Idle
      PROVE  Auth!WaitersAreServed'
  BY <1>2 DEF Auth!WaitersAreServed, Auth!Waiting, Auth!Idle
\* A step after which nobody waits.
<1>3. ASSUME \A r \in Reqs : req'[r] # "waiting"
      PROVE  Auth!WaitersAreServed'
  BY <1>3 DEF Auth!WaitersAreServed, Auth!Waiting
\* A step about the renewal of the page.
<1>4. ASSUME req' = req, NEW v, renew' = [renew EXCEPT !["init"] = v]
      PROVE  Auth!WaitersAreServed'
  BY <1>1, <1>2, <1>4
<1>5. ASSUME NEW r \in Reqs, Auth!Send(r) \/ Auth!Answered(r) PROVE Auth!WaitersAreServed'
  BY <1>1, <1>2, <1>5 DEF Auth!Send, Auth!Answered
<1>6. ASSUME NEW r \in Reqs, Auth!Refused(r) PROVE Auth!WaitersAreServed'
  <2>1. Auth!Asked # Auth!Idle
    BY NotIdle DEF Auth!Asked
  <2>2. renew'["shared"] # Auth!Idle
    BY <1>1, <1>6, <2>1 DEF Auth!Refused
  <2> QED BY <2>2 DEF Auth!WaitersAreServed, Auth!Idle
<1>7. CASE Auth!Renewed \/ Auth!RenewalFails
  <2>1. PICK how \in {"again", "settled"} : Auth!Settle(Auth!Waiting, how)
    BY <1>7 DEF Auth!Renewed, Auth!RenewalFails
  <2>2. \A r \in Reqs : req'[r] # "waiting"
    BY <2>1 DEF Auth!Settle, Auth!Waiting
  <2> QED BY <1>3, <2>2
<1>8. ASSUME NEW k \in K, Auth!FindToken(k) \/ Auth!Rotate(k) PROVE Auth!WaitersAreServed'
  <2>1. PICK how \in {"found", "granted", "refused"} :
          \E n : renew' = [renew EXCEPT ![k] = <<how, n>>]
    BY <1>8 DEF Auth!FindToken, Auth!Rotate
  <2>2. renew["shared"] # Auth!Idle => renew'["shared"] # Auth!Idle
    BY <1>1, <2>1, NotIdle
  <2>3. req' = req
    BY <1>8 DEF Auth!FindToken, Auth!Rotate
  <2> QED BY <1>2, <2>2, <2>3
<1>9. CASE Auth!MountSync \/ Auth!Login \/ Auth!Logout \/ Auth!LoggedOut \/ Auth!OtherTab
  BY <1>2, <1>9 DEF Auth!MountSync, Auth!Login, Auth!Logout, Auth!LoggedOut, Auth!OtherTab
<1>10. CASE Auth!InitAuth
  BY <1>2, <1>4, <1>10 DEF Auth!InitAuth
<1>11. CASE Auth!InitGranted \/ Auth!InitRefused \/ Auth!InitFails
  BY <1>4, <1>11 DEF Auth!InitGranted, Auth!InitRefused, Auth!InitFails
<1>12. ASSUME NEW ok \in BOOLEAN, Auth!ProfileLoaded(ok) PROVE Auth!WaitersAreServed'
  BY <1>2, <1>12 DEF Auth!ProfileLoaded
<1>13. CASE UNCHANGED authVars
  BY <1>2, <1>13 DEF authVars
<1> QED BY <1>5, <1>6, <1>7, <1>8, <1>9, <1>10, <1>11, <1>12, <1>13
        DEF Auth!Next, Auth!Client, Auth!Server, Auth!Page

\* SecurityDocPage.tsx: an interval is stopped only together with "generating".
LEMMA CardStep == DocInv /\ Docs!CardIsServed /\ [Docs!Next]_docVars => Docs!CardIsServed'
<1> SUFFICES ASSUME DocInv, Docs!CardIsServed, [Docs!Next]_docVars
             PROVE  Docs!CardIsServed'
  OBVIOUS
<1> USE DEF DocInv, Docs!DocTypeOK, Docs!CardIsServed
<1>1. ASSUME NEW r \in Requests, Docs!Generate(r) PROVE Docs!CardIsServed'
  BY <1>1 DEF Docs!Generate
<1>2. ASSUME NEW r \in Requests, Docs!Requested(r) PROVE Docs!CardIsServed'
  BY <1>2 DEF Docs!Requested
<1>3. ASSUME NEW r \in Requests, Docs!RequestFails(r) PROVE Docs!CardIsServed'
  BY <1>3 DEF Docs!RequestFails
<1>4. ASSUME NEW r \in Requests, NEW how \in Docs!Ready, Docs!Written(r, how)
      PROVE  Docs!CardIsServed'
  BY <1>4 DEF Docs!Written
<1>5. ASSUME NEW r \in Requests, Docs!Tick(r) PROVE Docs!CardIsServed'
  BY <1>5 DEF Docs!Tick
<1>6. ASSUME NEW r \in Requests, Docs!Answer(r) PROVE Docs!CardIsServed'
  BY <1>6 DEF Docs!Answer
<1>7. CASE UNCHANGED docVars
  BY <1>7 DEF docVars
<1> QED BY <1>1, <1>2, <1>3, <1>4, <1>5, <1>6, <1>7 DEF Docs!Next

\* DastRunSection.tsx and useDastStream: the id of a run is in the store from the
\* request on, and whatever is taken from a run takes the id away or loses it.
LEMMA RunStep ==
  Dast!DastPanelTypeOK /\ Dast!RunIsServed /\ [Dast!Next]_dastVars => Dast!RunIsServed'
<1> SUFFICES ASSUME Dast!DastPanelTypeOK, Dast!RunIsServed, [Dast!Next]_dastVars
             PROVE  Dast!RunIsServed'
  OBVIOUS
<1> USE DEF Dast!DastPanelTypeOK, Dast!RunIsServed, Dast!Lost, Dast!single
<1>1. ASSUME NEW r \in Runs, Dast!Run(r) PROVE Dast!RunIsServed'
  BY <1>1 DEF Dast!Run
<1>2. ASSUME NEW r \in Runs, Dast!Scanning(r) \/ Dast!ScanEnds(r) \/ Dast!Expires(r)
      PROVE  Dast!RunIsServed'
  BY <1>2 DEF Dast!Scanning, Dast!ScanEnds, Dast!Expires
<1>3. ASSUME NEW r \in Runs, Dast!ScanFails(r) PROVE Dast!RunIsServed'
  <2>1. scan' = [scan EXCEPT ![r] = "gone"] /\ post' = post /\ run' \in {run, None}
    BY <1>3 DEF Dast!ScanFails
  <2>2. \A q \in Runs : run' = q => run = q
    BY <2>1, ClientsAssumption
  <2> QED BY <2>1, <2>2
<1>4. ASSUME NEW r \in Runs, Dast!Accepted(r) PROVE Dast!RunIsServed'
  BY <1>4 DEF Dast!Accepted
<1>5. ASSUME NEW r \in Runs, Dast!PostLost(r) PROVE Dast!RunIsServed'
  BY <1>5 DEF Dast!PostLost
<1>6. ASSUME NEW r \in Runs, Dast!Rejected(r) \/ Dast!Result(r) \/ Dast!StreamError(r)
      PROVE  Dast!RunIsServed'
  BY <1>6, ClientsAssumption DEF Dast!Rejected, Dast!Result, Dast!StreamError
<1>7. CASE Dast!Output \/ Dast!Page \/ Dast!Launch \/ Dast!Launched
  BY <1>7 DEF Dast!Output, Dast!Page, Dast!Launch, Dast!Launched
<1>8. CASE Dast!BatchCompletes \/ Dast!SummaryExpires \/ Dast!BatchSummary \/ Dast!BatchError
  BY <1>8 DEF Dast!BatchCompletes, Dast!SummaryExpires, Dast!BatchSummary, Dast!BatchError
<1>9. CASE UNCHANGED dastVars
  BY <1>9 DEF dastVars
<1> QED BY <1>1, <1>2, <1>3, <1>4, <1>5, <1>6, <1>7, <1>8, <1>9 DEF Dast!Next

LEMMA WaitsInit == AllInit => WaitsAreServed
<1> SUFFICES ASSUME AllInit PROVE WaitsAreServed
  OBVIOUS
<1>1. Auth!WaitersAreServed
  BY DEF AllInit, Auth!Init, Auth!WaitersAreServed, Auth!Waiting
<1>2. Docs!CardIsServed
  BY DEF AllInit, Docs!Init, Docs!CardIsServed
<1>3. Dast!RunIsServed
  BY ClientsAssumption DEF AllInit, Dast!Init, Dast!RunIsServed
<1> QED BY <1>1, <1>2, <1>3 DEF WaitsAreServed

LEMMA WaitsStep == ClientsInv /\ WaitsAreServed /\ [AllNext]_allVars => WaitsAreServed'
  BY StepOfEach, WaitersStep, CardStep, RunStep DEF ClientsInv, WaitsAreServed

\* A request that waits for a renewal, a card that says "generating" and a run
\* that disables the buttons always have what will end them under way: no order
\* of answers, timeouts and failures strands one.
THEOREM WaitsStayServed == AllSpec => []WaitsAreServed
  BY WaitsInit, WaitsStep, ClientsInvariant, PTL DEF AllSpec
=============================================================================
