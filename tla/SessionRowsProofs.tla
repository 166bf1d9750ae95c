------------------------- MODULE SessionRowsProofs -------------------------
(***************************************************************************)
(* Proofs about SessionRows: for every number of sessions, threads and     *)
(* findings, and any behaviour of the engine.                              *)
(*                                                                         *)
(* What a transaction will write is fixed before it commits, so the        *)
(* invariant speaks about open transactions too: the vuln_count each one   *)
(* carries is covered by the findings stored and those it inserts itself   *)
(* (Counted), and the rows a forced start is about to interrupt are locked *)
(* by it and still running (InterruptsRunning).                            *)
(***************************************************************************)
EXTENDS SessionRows, FiniteSetTheorems, TLAPS

Inserts(t, s) == IF s = t.session THEN t.findings ELSE {}

Counted(t) ==
    \A s \in Sessions :
        t.writes[s].vulnCount <= Cardinality(found[s] \cup Inserts(t, s))

InterruptsRunning(t) ==
    t.op = "start" =>
        \A s \in Sessions : t.writes[s].status = "interrupted" =>
            s \in t.locked /\ row[s].status = "running"

TxOK(t) == t \in Tx /\ Counted(t) /\ InterruptsRunning(t)

RowsInv ==
    /\ RowsTypeOK
    /\ CountNeverExceeds
    /\ LocksAreExclusive
    /\ \A w \in Workers : Open(w) => TxOK(tx[w])
----------------------------------------------------------------------------
USE RowsAssumption

\* Sets of findings are finite, and more findings are not fewer.
LEMMA MoreFindings ==
    ASSUME NEW S \in SUBSET Fingerprints, NEW T \in SUBSET Fingerprints,
           S \subseteq T
    PROVE  /\ IsFiniteSet(T) /\ Cardinality(S) \in Nat /\ Cardinality(T) \in Nat
           /\ Cardinality(S) <= Cardinality(T)
  <1>1. IsFiniteSet(S) /\ IsFiniteSet(T)
    BY FS_Subset
  <1> QED
    BY <1>1, FS_Subset, FS_CardinalityType

LEMMA AbsentRow == Absent \in Row /\ Absent.vulnCount = 0 /\ Absent.status = "absent"
  BY DEF Absent, Row

\* The rows of some sessions with another status count what the rows count.
LEMMA WritingOK ==
    ASSUME RowsInv, NEW S \in SUBSET Sessions, NEW status \in Statuses,
           NEW s \in Sessions
    PROVE  /\ Writing(S, status) \in [Sessions -> Row]
           /\ Writing(S, status)[s].vulnCount <= Cardinality(found[s])
           /\ Writing(S, status)[s].status
                 = IF s \in S THEN status ELSE "absent"
  <1>1. ASSUME NEW x \in Sessions
        PROVE  /\ Writing(S, status)[x] \in Row
               /\ Writing(S, status)[x].status = IF x \in S THEN status ELSE "absent"
               /\ Writing(S, status)[x].vulnCount \in {row[x].vulnCount, 0}
    <2>1. row[x] \in Row
      BY DEF RowsInv, RowsTypeOK
    <2>2. Writing(S, status)[x] = IF x \in S THEN [row[x] EXCEPT !.status = status]
                                             ELSE Absent
      BY DEF Writing
    <2> QED
      BY <2>1, <2>2, AbsentRow DEF Row
  <1>2. row[s].vulnCount <= Cardinality(found[s]) /\ 0 <= Cardinality(found[s])
    <2>1. found[s] \in SUBSET Fingerprints
      BY DEF RowsInv, RowsTypeOK
    <2>2. Cardinality(found[s]) \in Nat
      BY <2>1, MoreFindings
    <2> QED
      BY <2>2 DEF RowsInv, CountNeverExceeds
  <1>3. Writing(S, status) \in [Sessions -> Row]
    BY <1>1 DEF Writing
  <1> QED
    BY <1>1, <1>2, <1>3

LEMMA NoWritesOK ==
    /\ NoWrites \in [Sessions -> Row]
    /\ \A s \in Sessions : NoWrites[s].vulnCount = 0 /\ NoWrites[s].status = "absent"
  BY AbsentRow DEF NoWrites

\* Nothing is open, stored or counted at the start.
LEMMA RowsInitInv == RowsInit => RowsInv
  <1> SUFFICES ASSUME RowsInit PROVE RowsInv
    OBVIOUS
  <1>1. RowsTypeOK
    BY AbsentRow DEF RowsInit, RowsTypeOK
  <1>2. CountNeverExceeds
    BY FS_EmptySet, AbsentRow DEF RowsInit, CountNeverExceeds
  <1>3. \A w \in Workers : ~Open(w)
    BY DEF RowsInit, Open
  <1> QED
    BY <1>1, <1>2, <1>3 DEF RowsInv, LocksAreExclusive
----------------------------------------------------------------------------
(* A step of one transaction that commits nothing.                         *)

Opens(w, t) == tx' = [tx EXCEPT ![w] = t] /\ UNCHANGED <<row, found>>

\* If what is open afterwards is in order, and holds no row another holds.
LEMMA OneTxChanges ==
    ASSUME RowsInv, NEW w \in Workers, NEW t, Opens(w, t), circuit' = circuit,
           t # None => TxOK(t),
           t # None => \A v \in Workers \ {w} :
                          Open(v) => tx[v].locked \cap t.locked = {}
    PROVE  RowsInv'
  <1>0. /\ \A v \in Workers : v # w => tx'[v] = tx[v]
        /\ tx'[w] = t /\ row' = row /\ found' = found
    BY DEF Opens, RowsInv, RowsTypeOK
  <1>1. tx' \in [Workers -> Tx \cup {None}]
    BY DEF Opens, RowsInv, RowsTypeOK, TxOK
  <1>2. RowsTypeOK'
    BY <1>0, <1>1 DEF RowsInv, RowsTypeOK
  <1>3. CountNeverExceeds'
    BY <1>0 DEF RowsInv, CountNeverExceeds
  <1>4. LocksAreExclusive'
    BY <1>0 DEF RowsInv, LocksAreExclusive, Open
  <1>5. \A v \in Workers : Open(v)' => TxOK(tx[v])'
    BY <1>0 DEF RowsInv, Open, TxOK, Counted, InterruptsRunning
  <1> QED
    BY <1>2, <1>3, <1>4, <1>5 DEF RowsInv

\* A transaction that ends without a trace.
LEMMA RollbackInv ==
    ASSUME RowsInv, NEW w \in Workers, Rollback(w)
    PROVE  RowsInv'
  <1>1. Opens(w, None) /\ circuit' = circuit
    BY DEF Rollback, Opens
  <1> QED
    BY <1>1, OneTxChanges

FreshTx(op, s, step, writes) ==
    [op |-> op, session |-> s, step |-> step, writes |-> writes,
     locked |-> {}, victims |-> {}, findings |-> {}]

\* A transaction that begins with writes that count what the rows count, takes
\* no lock and is no start.
LEMMA BeginInv ==
    ASSUME RowsInv, NEW w \in Workers, NEW s \in Sessions,
           NEW op \in Ops \ {"start"}, NEW step \in {"listed", "read", "called"},
           NEW writes \in [Sessions -> Row],
           \A x \in Sessions : writes[x].vulnCount <= Cardinality(found[x]),
           Begin(w, op, s, step, writes)
    PROVE  RowsInv'
  <1> DEFINE t == FreshTx(op, s, step, writes)
  <1>1. Opens(w, t) /\ circuit' = circuit
    BY DEF Begin, Opens, FreshTx
  <1>2. /\ t.op = op /\ t.session = s /\ t.writes = writes
        /\ t.locked = {} /\ t.findings = {} /\ t \in Tx
    BY DEF FreshTx, Tx
  <1> HIDE DEF t
  <1>3. Counted(t)
    BY <1>2 DEF Counted, Inserts
  <1>4. InterruptsRunning(t)
    BY <1>2 DEF InterruptsRunning
  <1> QED
    BY <1>1, <1>2, <1>3, <1>4, OneTxChanges DEF TxOK
----------------------------------------------------------------------------
(* The operations.                                                         *)

LEMMA StartInv ==
    ASSUME RowsInv, NEW w \in Workers, NEW s \in Sessions, NEW force \in BOOLEAN,
           Start(w, s, force)
    PROVE  RowsInv'
  <1> DEFINE t == [FreshTx("start", s, "listed", NoWrites) EXCEPT
                     !.victims = RunningOf(ProjectOf[s])]
  <1>1. Opens(w, t) /\ circuit' = circuit
    BY DEF Start, Opens, FreshTx
  <1>2. /\ t.op = "start" /\ t.session = s /\ t.writes = NoWrites
        /\ t.locked = {} /\ t.findings = {} /\ t \in Tx
    BY NoWritesOK DEF FreshTx, Tx, Ops, RunningOf
  <1> HIDE DEF t
  <1>3. Counted(t)
    <2>1. ASSUME NEW x \in Sessions
          PROVE  0 <= Cardinality(found[x] \cup {})
      <3>1. found[x] \cup {} \in SUBSET Fingerprints
        BY DEF RowsInv, RowsTypeOK
      <3> QED
        BY <3>1, MoreFindings
    <2> QED
      BY <1>2, <2>1, NoWritesOK DEF Counted, Inserts
  <1>4. InterruptsRunning(t)
    BY <1>2, NoWritesOK DEF InterruptsRunning
  <1> QED
    BY <1>1, <1>2, <1>3, <1>4, OneTxChanges DEF TxOK

\* Row v is written, with a count it has already, by the transaction that is open.
LEMMA AnotherWrite ==
    ASSUME RowsInv, NEW w \in Workers, Open(w), NEW v \in Sessions, NEW new \in Row,
           new.vulnCount <= Cardinality(found[v]),
           NEW t \in Tx, t.session = tx[w].session, t.findings = tx[w].findings,
           t.writes = [tx[w].writes EXCEPT ![v] = new]
    PROVE  Counted(t)
  <1>1. tx[w] \in Tx /\ Counted(tx[w])
    BY DEF RowsInv, TxOK
  <1>2. tx[w].writes \in [Sessions -> Row] /\ t.findings \in SUBSET Fingerprints
    BY <1>1 DEF Tx
  <1>3. ASSUME NEW s \in Sessions, s # v
        PROVE  t.writes[s].vulnCount <= Cardinality(found[s] \cup Inserts(t, s))
    BY <1>1, <1>2, <1>3 DEF Counted, Inserts
  <1>4. t.writes[v].vulnCount <= Cardinality(found[v] \cup Inserts(t, v))
    <2>1. /\ found[v] \in SUBSET Fingerprints
          /\ found[v] \cup Inserts(t, v) \in SUBSET Fingerprints
      BY <1>2 DEF RowsInv, RowsTypeOK, Inserts
    <2>2. /\ Cardinality(found[v]) <= Cardinality(found[v] \cup Inserts(t, v))
          /\ Cardinality(found[v]) \in Nat
          /\ Cardinality(found[v] \cup Inserts(t, v)) \in Nat
      BY <2>1, MoreFindings
    <2>3. new.vulnCount \in Nat /\ t.writes[v] = new
      BY <1>2 DEF Row
    <2> QED
      BY <2>2, <2>3
  <1> QED
    BY <1>3, <1>4 DEF Counted

\* The forced start locks what it interrupts, and interrupts what is running.
LEMMA StartInterruptsInv ==
    ASSUME RowsInv, NEW w \in Workers, NEW v \in Sessions, StartInterrupts(w, v)
    PROVE  RowsInv'
  <1> DEFINE new    == [row[v] EXCEPT !.status = "interrupted"]
             writes == [tx[w].writes EXCEPT ![v] = new]
             skip   == [tx[w] EXCEPT !.victims = @ \ {v}]
             t      == [[skip EXCEPT !.locked = @ \cup {v}] EXCEPT !.writes = writes]
  <1>1. /\ Open(w) /\ tx[w] \in Tx /\ TxOK(tx[w]) /\ tx[w].op = "start"
        /\ row[v] \in Row /\ row[v].vulnCount <= Cardinality(found[v])
    BY DEF StartInterrupts, In, RowsInv, TxOK, RowsTypeOK, CountNeverExceeds
  <1>2. /\ skip.op = "start" /\ skip.session = tx[w].session
        /\ skip.writes = tx[w].writes /\ skip.locked = tx[w].locked
        /\ skip.findings = tx[w].findings /\ skip \in Tx
    BY <1>1 DEF Tx
  <1>3. new \in Row /\ new.vulnCount = row[v].vulnCount /\ new.status = "interrupted"
    BY <1>1 DEF Row, Statuses
  <1>4. writes \in [Sessions -> Row]
        /\ \A s \in Sessions : writes[s] = IF s = v THEN new ELSE tx[w].writes[s]
    BY <1>1, <1>3 DEF Tx
  <1>5. CASE StillRunning(v)
    <2>1. Opens(w, t) /\ circuit' = circuit
      BY <1>1, <1>5 DEF StartInterrupts, Opens, Tx
    <2> HIDE DEF new, skip
    <2>2. /\ t.op = "start" /\ t.session = tx[w].session /\ t.writes = writes
          /\ t.locked = tx[w].locked \cup {v} /\ t.findings = tx[w].findings /\ t \in Tx
      BY <1>2, <1>4 DEF Tx
    <2> HIDE DEF t
    <2>3. Counted(t)
      BY <1>1, <1>3, <2>2, AnotherWrite DEF writes
    <2>4. InterruptsRunning(t)
      BY <1>1, <1>4, <1>5, <2>2 DEF TxOK, InterruptsRunning, StillRunning
    <2>5. \A u \in Workers \ {w} : Open(u) => tx[u].locked \cap t.locked = {}
      <3>1. \A u \in Workers \ {w} : Open(u) => tx[u].locked \cap tx[w].locked = {}
        BY <1>1 DEF RowsInv, LocksAreExclusive
      <3>2. \A u \in Workers \ {w} : Open(u) => v \notin tx[u].locked
        BY DEF StartInterrupts, LockedByOther
      <3> QED
        BY <2>2, <3>1, <3>2
    <2> QED
      BY <2>1, <2>2, <2>3, <2>4, <2>5, OneTxChanges DEF TxOK
  <1>6. CASE ~StillRunning(v)
    <2>1. Opens(w, skip) /\ circuit' = circuit
      BY <1>6 DEF StartInterrupts, Opens
    <2> HIDE DEF skip
    <2>2. TxOK(skip)
      BY <1>1, <1>2 DEF TxOK, Counted, Inserts, InterruptsRunning
    <2>3. \A u \in Workers \ {w} : Open(u) => tx[u].locked \cap skip.locked = {}
      BY <1>1, <1>2 DEF RowsInv, LocksAreExclusive
    <2> QED
      BY <2>1, <2>2, <2>3, OneTxChanges
  <1> QED
    BY <1>5, <1>6

\* The row that a start inserts has no findings yet.
LEMMA StartSavesInv ==
    ASSUME RowsInv, NEW w \in Workers, StartSaves(w)
    PROVE  RowsInv'
  <1> DEFINE new    == [Absent EXCEPT !.status = InsertedStatus]
             own    == tx[w].session
             writes == [tx[w].writes EXCEPT ![own] = new]
             t      == [[tx[w] EXCEPT !.step = "read"] EXCEPT !.writes = writes]
  <1>1. Open(w) /\ tx[w] \in Tx /\ TxOK(tx[w]) /\ tx[w].op = "start" /\ own \in Sessions
    BY DEF StartSaves, In, RowsInv, TxOK, Tx
  <1>2. new \in Row /\ new.vulnCount = 0 /\ new.status = "running"
    BY DEF Absent, Row, InsertedStatus, Statuses
  <1>3. 0 <= Cardinality(found[own])
    <2>1. found[own] \in SUBSET Fingerprints
      BY <1>1 DEF RowsInv, RowsTypeOK
    <2> QED
      BY <2>1, MoreFindings
  <1>4. Opens(w, t) /\ circuit' = circuit
    BY <1>1 DEF StartSaves, Opens, Tx
  <1> HIDE DEF new, own
  <1>5. writes \in [Sessions -> Row]
        /\ \A s \in Sessions : writes[s] = IF s = own THEN new ELSE tx[w].writes[s]
    BY <1>1, <1>2 DEF Tx
  <1>6. /\ t.op = "start" /\ t.session = own /\ t.writes = writes
        /\ t.locked = tx[w].locked /\ t.findings = tx[w].findings /\ t \in Tx
    BY <1>1, <1>5 DEF Tx, own
  <1> HIDE DEF t
  <1>7. Counted(t)
    BY <1>1, <1>2, <1>3, <1>6, AnotherWrite DEF writes, own
  <1>8. InterruptsRunning(t)
    BY <1>1, <1>2, <1>5, <1>6 DEF TxOK, InterruptsRunning
  <1>9. \A u \in Workers \ {w} : Open(u) => tx[u].locked \cap t.locked = {}
    BY <1>1, <1>6 DEF RowsInv, LocksAreExclusive
  <1> QED
    BY <1>4, <1>6, <1>7, <1>8, <1>9, OneTxChanges DEF TxOK

\* A call that returned changes the step only.
LEMMA CallReturnsInv ==
    ASSUME RowsInv, NEW w \in Workers, CallReturns(w)
    PROVE  RowsInv'
  <1> DEFINE t == [tx[w] EXCEPT !.step = "called"]
  <1>1. Open(w) /\ tx[w] \in Tx /\ TxOK(tx[w])
    BY DEF CallReturns, In, RowsInv, TxOK
  <1>2. Opens(w, t) /\ circuit' = circuit
    BY DEF CallReturns, Opens
  <1>3. /\ t.op = tx[w].op /\ t.session = tx[w].session
        /\ t.writes = tx[w].writes /\ t.locked = tx[w].locked
        /\ t.findings = tx[w].findings /\ t \in Tx
    BY <1>1 DEF Tx
  <1> HIDE DEF t
  <1>4. TxOK(t)
    BY <1>1, <1>3 DEF TxOK, Counted, Inserts, InterruptsRunning
  <1>5. \A v \in Workers \ {w} : Open(v) => tx[v].locked \cap t.locked = {}
    BY <1>1, <1>3 DEF RowsInv, LocksAreExclusive
  <1> QED
    BY <1>2, <1>4, <1>5, OneTxChanges

\* resume, confirm, cancel and the events write one row, the scheduler the
\* running ones; all of them leave the counts as they read them.
LEMMA StatusWriteInv ==
    ASSUME RowsInv, NEW w \in Workers, NEW s \in Sessions,
           \/ Resume(w, s) \/ Confirm(w, s) \/ Cancel(w, s)
           \/ \E e \in StatusEvents : OnMessage(w, s, e)
    PROVE  RowsInv'
  <1>1. \A e \in StatusEvents : StatusOf(e) \in Statuses
    BY DEF StatusEvents, StatusOf, Statuses
  <1>2. PICK op \in Ops \ {"start"}, step \in {"read", "called"}, status \in Statuses :
           \/ Begin(w, op, s, step, Writing({s}, status))
           \/ Begin(w, op, s, step, NoWrites)
    BY <1>1 DEF Resume, Confirm, Cancel, OnMessage, Ops, Statuses
  <1>3. CASE Begin(w, op, s, step, Writing({s}, status))
    <2>1. /\ Writing({s}, status) \in [Sessions -> Row]
          /\ \A x \in Sessions :
                Writing({s}, status)[x].vulnCount <= Cardinality(found[x])
      BY WritingOK
    <2> QED
      BY <1>2, <1>3, <2>1, BeginInv
  <1>4. CASE Begin(w, op, s, step, NoWrites)
    <2>1. ASSUME NEW x \in Sessions
          PROVE  NoWrites[x].vulnCount <= Cardinality(found[x])
      <3>1. found[x] \in SUBSET Fingerprints
        BY DEF RowsInv, RowsTypeOK
      <3> QED
        BY <3>1, MoreFindings, NoWritesOK
    <2> QED
      BY <1>2, <1>4, <2>1, NoWritesOK, BeginInv
  <1> QED
    BY <1>2, <1>3, <1>4

LEMMA DetectInterruptedInv ==
    ASSUME RowsInv, NEW w \in Workers, DetectInterrupted(w)
    PROVE  RowsInv'
  <1> DEFINE running == {s \in Sessions : row[s].status = "running"}
             writes  == Writing(running, "interrupted")
  <1>1. PICK s \in Sessions : Begin(w, "interrupt", s, "called", writes)
    BY DEF DetectInterrupted
  <1>2. "interrupted" \in Statuses /\ "interrupt" \in Ops \ {"start"}
    BY DEF Statuses, Ops
  <1>3. running \in SUBSET Sessions
    OBVIOUS
  <1> HIDE DEF running
  <1>4. /\ writes \in [Sessions -> Row]
        /\ \A x \in Sessions : writes[x].vulnCount <= Cardinality(found[x])
    <2>1. \E x \in Sessions : TRUE
      BY <1>1
    <2> QED
      BY <1>2, <1>3, <2>1, WritingOK
  <1> HIDE DEF writes
  <1> QED
    BY <1>1, <1>2, <1>4, BeginInv

\* saveFromAgent locks the row nobody else has locked, and adds to the count
\* what it adds to the findings.
LEMMA SaveFindingsInv ==
    ASSUME RowsInv, NEW w \in Workers, NEW s \in Sessions,
           NEW reported \in SUBSET Fingerprints, SaveFindings(w, s, reported)
    PROVE  RowsInv'
  <1> DEFINE new    == NewFindings(s, reported)
             count  == [row[s] EXCEPT !.vulnCount = @ + Cardinality(new)]
             writes == IF new = {} THEN NoWrites ELSE [NoWrites EXCEPT ![s] = count]
             t      == [op |-> "save", session |-> s, step |-> "called",
                        writes |-> writes, locked |-> {s}, victims |-> {},
                        findings |-> new]
  <1>1. Opens(w, t) /\ circuit' = circuit
    BY DEF SaveFindings, Opens
  <1>2. /\ found[s] \in SUBSET Fingerprints /\ row[s] \in Row
        /\ new \in SUBSET Fingerprints /\ new \cap found[s] = {}
        /\ found[s] \cup new \in SUBSET Fingerprints
    BY DEF NewFindings, RowsInv, RowsTypeOK
  <1> HIDE DEF new
  <1>3. /\ IsFiniteSet(found[s]) /\ IsFiniteSet(new)
        /\ Cardinality(found[s]) \in Nat /\ Cardinality(new) \in Nat
        /\ Cardinality(found[s] \cup new) = Cardinality(found[s]) + Cardinality(new)
    <2>1. /\ IsFiniteSet(found[s]) /\ IsFiniteSet(new)
          /\ Cardinality(found[s]) \in Nat /\ Cardinality(new) \in Nat
      BY <1>2, MoreFindings
    <2>2. Cardinality(found[s] \cap new) = 0
      BY <1>2, FS_EmptySet
    <2>3. Cardinality(found[s] \cup new)
            = Cardinality(found[s]) + Cardinality(new) - Cardinality(found[s] \cap new)
      BY <2>1, FS_Union
    <2> QED
      BY <2>1, <2>2, <2>3
  <1>4. count \in Row /\ count.vulnCount = row[s].vulnCount + Cardinality(new)
        /\ count.status = row[s].status
    BY <1>2, <1>3 DEF Row
  <1> HIDE DEF count
  <1>5. ASSUME NEW x \in Sessions
        PROVE  /\ writes[x] \in Row
               /\ writes[x] = Absent \/ (x = s /\ writes[x] = count)
    BY <1>4, AbsentRow DEF NoWrites
  <1>6. writes \in [Sessions -> Row]
    BY <1>5 DEF NoWrites
  <1> HIDE DEF writes
  <1>7. /\ t.op = "save" /\ t.session = s /\ t.writes = writes /\ t.locked = {s}
        /\ t.findings = new /\ t \in Tx
    BY <1>2, <1>6 DEF Tx, Ops
  <1>8. \A v \in Workers \ {w} : Open(v) => tx[v].locked \cap t.locked = {}
    BY <1>7 DEF SaveFindings, LockedByOther
  <1> HIDE DEF t
  <1>9. Counted(t)
    <2>1. ASSUME NEW x \in Sessions
          PROVE  t.writes[x].vulnCount <= Cardinality(found[x] \cup Inserts(t, x))
      <3>1. CASE x = s /\ writes[x] = count
        <4>1. row[s].vulnCount <= Cardinality(found[s]) /\ row[s].vulnCount \in Nat
          BY <1>2 DEF RowsInv, CountNeverExceeds, Row
        <4>2. Inserts(t, x) = new
          BY <1>7, <3>1 DEF Inserts
        <4> QED
          BY <1>3, <1>4, <1>7, <3>1, <4>1, <4>2
      <3>2. CASE writes[x] = Absent
        <4>1. found[x] \cup Inserts(t, x) \in SUBSET Fingerprints
          BY <1>2, <1>7 DEF RowsInv, RowsTypeOK, Inserts
        <4> QED
          BY <1>7, <3>2, <4>1, MoreFindings, AbsentRow
      <3> QED
        BY <1>5, <3>1, <3>2
    <2> QED
      BY <2>1 DEF Counted
  <1>10. InterruptsRunning(t)
    BY <1>7 DEF InterruptsRunning
  <1> QED
    BY <1>1, <1>7, <1>8, <1>9, <1>10, OneTxChanges DEF TxOK
----------------------------------------------------------------------------
(* The commit.                                                             *)

\* A commit writes no row another transaction holds, and stores what it counts.
LEMMA CommitInv ==
    ASSUME RowsInv, NEW w \in Workers, Commit(w)
    PROVE  RowsInv'
  <1>1. Open(w) /\ tx[w] \in Tx /\ TxOK(tx[w])
    BY DEF Commit, RowsInv, TxOK
  <1>2. /\ tx[w].session \in Sessions /\ tx[w].writes \in [Sessions -> Row]
        /\ tx[w].findings \in SUBSET Fingerprints
    BY <1>1 DEF Tx
  <1>3. ASSUME NEW s \in Sessions
        PROVE  /\ found'[s] = found[s] \cup Inserts(tx[w], s)
               /\ found'[s] \in SUBSET Fingerprints
               /\ row'[s] = IF s \in Written(w) THEN tx[w].writes[s] ELSE row[s]
               /\ row'[s] \in Row
    BY <1>2 DEF Commit, Inserts, RowsInv, RowsTypeOK
  <1>4. /\ tx'[w] = None /\ tx' \in [Workers -> Tx \cup {None}]
        /\ \A v \in Workers : v # w => tx'[v] = tx[v]
    BY DEF Commit, RowsInv, RowsTypeOK
  <1>5. RowsTypeOK'
    <2>1. row' \in [Sessions -> Row]
      BY <1>3 DEF Commit
    <2>2. found' \in [Sessions -> SUBSET Fingerprints]
      BY <1>2 DEF Commit, RowsInv, RowsTypeOK
    <2> QED
      BY <1>4, <2>1, <2>2 DEF Commit, RowsInv, RowsTypeOK
  <1>6. CountNeverExceeds'
    <2>1. ASSUME NEW s \in Sessions
          PROVE  row'[s].vulnCount <= Cardinality(found'[s])
      <3>1. CASE s \in Written(w)
        BY <1>1, <1>3, <3>1 DEF TxOK, Counted
      <3>2. CASE s \notin Written(w)
        <4>1. /\ Cardinality(found[s]) \in Nat /\ Cardinality(found'[s]) \in Nat
              /\ Cardinality(found[s]) <= Cardinality(found'[s])
          <5>1. found[s] \in SUBSET Fingerprints /\ found[s] \subseteq found'[s]
            BY <1>3 DEF RowsInv, RowsTypeOK
          <5> QED
            BY <1>3, <5>1, MoreFindings
        <4>2. row[s].vulnCount <= Cardinality(found[s]) /\ row[s].vulnCount \in Nat
          BY DEF RowsInv, CountNeverExceeds, RowsTypeOK, Row
        <4> QED
          BY <1>3, <3>2, <4>1, <4>2
      <3> QED
        BY <3>1, <3>2
    <2> QED
      BY <2>1 DEF CountNeverExceeds
  <1>7. LocksAreExclusive'
    BY <1>4 DEF RowsInv, LocksAreExclusive, Open
  <1>8. ASSUME NEW v \in Workers, Open(v)'
        PROVE  TxOK(tx[v])'
    <2>1. v # w /\ tx'[v] = tx[v] /\ Open(v) /\ TxOK(tx[v])
      BY <1>4, <1>8 DEF Open, RowsInv
    <2>2. Counted(tx[v])'
      <3>1. ASSUME NEW s \in Sessions
            PROVE  tx[v].writes[s].vulnCount
                     <= Cardinality(found'[s] \cup Inserts(tx[v], s))
        <4> DEFINE before == found[s] \cup Inserts(tx[v], s)
                   after  == found'[s] \cup Inserts(tx[v], s)
        <4>1. /\ before \in SUBSET Fingerprints /\ after \in SUBSET Fingerprints
              /\ before \subseteq after
          BY <1>3, <2>1 DEF RowsInv, RowsTypeOK, TxOK, Tx, Inserts
        <4>2. tx[v].writes[s].vulnCount <= Cardinality(before)
          BY <2>1 DEF TxOK, Counted
        <4>3. tx[v].writes[s].vulnCount \in Nat
          BY <2>1 DEF TxOK, Tx, Row
        <4> HIDE DEF before, after
        <4>4. /\ Cardinality(before) \in Nat /\ Cardinality(after) \in Nat
              /\ Cardinality(before) <= Cardinality(after)
          BY <4>1, MoreFindings
        <4>5. tx[v].writes[s].vulnCount <= Cardinality(after)
          BY <4>2, <4>3, <4>4
        <4> QED
          BY <4>5 DEF after
      <3> QED
        BY <2>1, <3>1 DEF Counted, Inserts
    <2>3. InterruptsRunning(tx[v])'
      <3>1. ASSUME tx[v].op = "start", NEW s \in Sessions,
                   tx[v].writes[s].status = "interrupted"
            PROVE  s \in tx[v].locked /\ row'[s].status = "running"
        <4>1. s \in tx[v].locked /\ row[s].status = "running"
          BY <2>1, <3>1 DEF TxOK, InterruptsRunning
        <4>2. s \notin Written(w)
          BY <2>1, <4>1 DEF Commit, LockedByOther
        <4> QED
          BY <1>3, <4>1, <4>2
      <3> QED
        BY <2>1, <3>1 DEF InterruptsRunning
    <2> QED
      BY <2>1, <2>2, <2>3 DEF TxOK
  <1> QED
    BY <1>5, <1>6, <1>7, <1>8 DEF RowsInv
----------------------------------------------------------------------------
(* The theorems.                                                           *)

\* Every step preserves the invariant.
LEMMA RowsNextInv == RowsInv /\ [RowsNext]_rowVars => RowsInv'
  <1> SUFFICES ASSUME RowsInv, [RowsNext]_rowVars
               PROVE  RowsInv'
    OBVIOUS
  <1>1. ASSUME NEW w \in Workers, NEW s \in Sessions,
               \/ \E force \in BOOLEAN : Start(w, s, force)
               \/ Resume(w, s) \/ Confirm(w, s) \/ Cancel(w, s)
               \/ StartInterrupts(w, s)
               \/ \E e \in StatusEvents : OnMessage(w, s, e)
               \/ \E reported \in SUBSET Fingerprints : SaveFindings(w, s, reported)
        PROVE  RowsInv'
    BY <1>1, StartInv, StartInterruptsInv, StatusWriteInv, SaveFindingsInv
  <1>2. ASSUME NEW w \in Workers,
               \/ StartSaves(w) \/ StartFails(w) \/ CallReturns(w)
               \/ CallFails(w) \/ DetectInterrupted(w) \/ Commit(w)
        PROVE  RowsInv'
    <2>1. StartFails(w) \/ CallFails(w) => Rollback(w)
      BY DEF StartFails, CallFails
    <2> QED
      BY <1>2, <2>1, StartSavesInv, RollbackInv, CallReturnsInv,
         DetectInterruptedInv, CommitInv
  <1>3. CASE CircuitChanges
    BY <1>3 DEF CircuitChanges, RowsInv, RowsTypeOK, CountNeverExceeds,
                LocksAreExclusive, Open, TxOK, Counted, InterruptsRunning
  <1>4. CASE BackendRestart
    BY <1>4 DEF BackendRestart, RowsInv, RowsTypeOK, CountNeverExceeds,
                LocksAreExclusive, Open
  <1>5. CASE UNCHANGED rowVars
    BY <1>5 DEF rowVars, RowsInv, RowsTypeOK, CountNeverExceeds,
                LocksAreExclusive, Open, TxOK, Counted, InterruptsRunning
  <1> QED
    BY <1>1, <1>2, <1>3, <1>4, <1>5 DEF RowsNext

\* The invariant holds in every reachable state.
THEOREM RowsInvariant == RowsSpec => []RowsInv
  BY RowsInitInv, RowsNextInv, PTL DEF RowsSpec

\* The rows and the open transactions keep their types.
THEOREM RowsTypeCorrect == RowsSpec => []RowsTypeOK
  <1>1. RowsInv => RowsTypeOK
    BY DEF RowsInv
  <1> QED
    BY <1>1, RowsInvariant, PTL

\* vuln_count is never above the number of findings stored.
THEOREM FindingsAreNeverOvercounted == RowsSpec => []CountNeverExceeds
  <1>1. RowsInv => CountNeverExceeds
    BY DEF RowsInv
  <1> QED
    BY <1>1, RowsInvariant, PTL

\* Two transactions never hold the same row.
THEOREM RowLocksAreExclusive == RowsSpec => []LocksAreExclusive
  <1>1. RowsInv => LocksAreExclusive
    BY DEF RowsInv
  <1> QED
    BY <1>1, RowsInvariant, PTL

InterruptsRunningOnly ==
    \A w \in Workers : Commit(w) /\ tx[w].op = "start" =>
        \A s \in Sessions : row'[s].status = "interrupted" =>
            row[s].status \in {"running", "interrupted"}

\* A forced start turns running sessions into interrupted ones and no other.
THEOREM ForcedStartSparesTheRest == RowsSpec => StartInterruptsRunningOnly
  <1>1. RowsInv => InterruptsRunningOnly
    <2> SUFFICES ASSUME RowsInv, NEW w \in Workers, Commit(w), tx[w].op = "start",
                        NEW s \in Sessions, row'[s].status = "interrupted"
                 PROVE  row[s].status \in {"running", "interrupted"}
      BY DEF InterruptsRunningOnly
    <2>1. row'[s] = IF s \in Written(w) THEN tx[w].writes[s] ELSE row[s]
      BY DEF Commit
    <2>2. InterruptsRunning(tx[w])
      BY DEF Commit, RowsInv, TxOK
    <2> QED
      BY <2>1, <2>2 DEF InterruptsRunning
  <1>2. RowsInv => [InterruptsRunningOnly]_rowVars
    BY <1>1
  <1>3. RowsSpec => [][InterruptsRunningOnly]_rowVars
    BY <1>2, RowsInvariant, PTL
  <1> QED
    BY <1>3 DEF StartInterruptsRunningOnly, InterruptsRunningOnly
=============================================================================
