----------------------------- MODULE AuditProofs -----------------------------
(***************************************************************************)
(* Proofs about the audit log, AuditChain, and about the erasure that      *)
(* leaves a row in it, AccountErasure: each for itself, for any number of  *)
(* requests, users and jobs.                                               *)
(*                                                                         *)
(* No entry is ever chained to an entry that is not in the log.  What an   *)
(* append has chosen is committed from then on, so the invariant says it   *)
(* of every request, whether its own entry is committed or not.            *)
(*                                                                         *)
(* As long as no append has met another one, the entries of the log have   *)
(* different times, the one on its way is younger than all of them, and    *)
(* every chained entry follows the youngest of those before it.  So the    *)
(* listing that the verification walks is the chain.                       *)
(*                                                                         *)
(* Nothing of an account is erased that is not on record.  The account a   *)
(* job works on is, from its audit row on, and no row is taken back.       *)
(***************************************************************************)
EXTENDS AuditChain, AccountErasure, FiniteSetTheorems, TLAPS

PrevIsCommitted == \A r \in Requests : entry[r].prev \in Log \cup {Genesis}

AuditInv == AuditTypeOK /\ PrevIsCommitted
----------------------------------------------------------------------------
\* A step that only moves the phase of one request, and not out of the log.
LEMMA PhaseStep ==
    ASSUME AuditInv, NEW r \in Requests, NEW phase \in Phases,
           ~In(r, "committed"),
           entry' = [entry EXCEPT ![r].phase = phase],
           now' = now, chainLock' \in SUBSET Requests, serial' = serial
    PROVE  AuditInv'
  <1>1. entry' \in [Requests -> Entry]
    BY DEF AuditInv, AuditTypeOK, Entry
  <1>2. \A q \in Requests : entry'[q].prev = entry[q].prev
    BY DEF AuditInv, AuditTypeOK, Entry
  <1>3. \A q \in Requests : In(q, "committed") => In(q, "committed")'
    BY DEF AuditInv, AuditTypeOK, Entry, In
  <1>4. Log \subseteq Log'
    BY <1>3 DEF Log
  <1>5. PrevIsCommitted'
    BY <1>2, <1>4 DEF AuditInv, PrevIsCommitted
  <1> QED
    BY <1>1, <1>5 DEF AuditInv, AuditTypeOK

\* The snapshot is the log, so the predecessor is in it.
LEMMA ChooseInv ==
    ASSUME AuditInv, NEW r \in Requests, Choose(r)
    PROVE  AuditInv'
  <1>1. PICK p \in Log \cup {Genesis} :
            entry' = [entry EXCEPT ![r].phase = "chosen", ![r].prev = p]
    BY DEF Choose, LatestOf, Snapshot, FirstPrev
  <1>2. p \in Requests \cup {Genesis}
    BY <1>1 DEF Log
  <1>3. entry' \in [Requests -> Entry]
    BY <1>1, <1>2 DEF AuditInv, AuditTypeOK, Entry, Phases
  <1>4. \A q \in Requests : entry'[q].prev = IF q = r THEN p ELSE entry[q].prev
    BY <1>1 DEF AuditInv, AuditTypeOK, Entry
  <1>5. \A q \in Requests : In(q, "committed") => In(q, "committed")'
    BY <1>1 DEF AuditInv, AuditTypeOK, Entry, In, Choose
  <1>6. Log \subseteq Log'
    BY <1>5 DEF Log
  <1>7. PrevIsCommitted'
    BY <1>1, <1>4, <1>6 DEF AuditInv, PrevIsCommitted
  <1> QED
    BY <1>3, <1>7 DEF AuditInv, AuditTypeOK, Choose

\* A draft is chained to nothing yet.
LEMMA DraftInv ==
    ASSUME AuditAssumption, AuditInv, NEW r \in Requests, Draft(r)
    PROVE  AuditInv'
  <1>0. now \in Nat /\ entry \in [Requests -> Entry]
    BY DEF AuditInv, AuditTypeOK, AuditAssumption
  <1>1. entry' \in [Requests -> Entry]
    <2>1. entry' = [entry EXCEPT ![r] =
                      [entry[r] EXCEPT !.phase = "drafted", !.createdAt = now]]
      BY <1>0 DEF Draft
    <2>2. [entry[r] EXCEPT !.phase = "drafted", !.createdAt = now] \in Entry
      BY <1>0 DEF Entry, Phases
    <2> QED
      BY <1>0, <2>1, <2>2
  <1>2. \A q \in Requests : entry'[q].prev = entry[q].prev
    BY DEF Draft, AuditInv, AuditTypeOK, Entry
  <1>3. \A q \in Requests : In(q, "committed") => In(q, "committed")'
    BY DEF Draft, AuditInv, AuditTypeOK, Entry, In
  <1>4. Log \subseteq Log'
    BY <1>3 DEF Log
  <1>5. PrevIsCommitted'
    BY <1>2, <1>4 DEF AuditInv, PrevIsCommitted
  <1>6. serial' \in BOOLEAN
    BY DEF Draft, AuditInv, AuditTypeOK
  <1> QED
    BY <1>1, <1>5, <1>6 DEF Draft, AuditInv, AuditTypeOK

\* Every step preserves the invariant.
LEMMA AuditNextInv ==
    ASSUME AuditAssumption, AuditInv, [AuditNext]_auditVars
    PROVE  AuditInv'
  <1>1. CASE Tick
    BY <1>1 DEF Tick, AuditInv, AuditTypeOK, PrevIsCommitted, Log, In, AuditAssumption
  <1>2. CASE \E r \in Requests : Draft(r)
    BY <1>2, DraftInv
  <1>3. CASE \E r \in Requests : TakeLock(r)
    BY <1>3, PhaseStep DEF TakeLock, Goes, In, Phases
  <1>4. CASE \E r \in Requests : Choose(r)
    BY <1>4, ChooseInv
  <1>5. CASE \E r \in Requests : LockRow(r)
    BY <1>5, PhaseStep DEF LockRow, Goes, In, Phases, AuditInv, AuditTypeOK
  <1>6. CASE \E r \in Requests : SaveAndUnlock(r)
    BY <1>6, PhaseStep DEF SaveAndUnlock, Goes, In, Phases, AuditInv, AuditTypeOK
  <1>7. CASE \E r \in Requests : Commit(r)
    BY <1>7, PhaseStep DEF Commit, Goes, In, Phases, AuditInv, AuditTypeOK
  <1>8. CASE \E r \in Requests : Fail(r)
    BY <1>8, PhaseStep DEF Fail, In, Phases, AuditInv, AuditTypeOK
  <1>9. CASE UNCHANGED auditVars
    BY <1>9 DEF auditVars, AuditInv, AuditTypeOK, PrevIsCommitted, Log, In
  <1> QED
    BY <1>1, <1>2, <1>3, <1>4, <1>5, <1>6, <1>7, <1>8, <1>9 DEF AuditNext, Append

\* The inductive invariant of the audit log.
THEOREM AuditInvariant == AuditSpec => []AuditInv
  <1>1. AuditInit => AuditInv
    BY AuditAssumption
       DEF AuditInit, AuditInv, AuditTypeOK, PrevIsCommitted, Log, In, Entry,
           Phases, AuditAssumption
  <1>2. AuditInv /\ [AuditNext]_auditVars => AuditInv'
    BY AuditNextInv, AuditAssumption
  <1> QED
    BY <1>1, <1>2, PTL DEF AuditSpec

\* Clock, entries and locks stay well formed.
THEOREM AuditTypeCorrect == AuditSpec => []AuditTypeOK
  <1>1. AuditInv => AuditTypeOK
    BY DEF AuditInv
  <1> QED
    BY <1>1, AuditInvariant, PTL

\* AuditLogChainAppender never chains an entry to one that is not in the log,
\* whatever append fails or overlaps.
THEOREM EntriesStayRooted == AuditSpec => []EntriesAreRooted
  <1>1. AuditInv => EntriesAreRooted
    BY DEF AuditInv, PrevIsCommitted, EntriesAreRooted, Log
  <1> QED
    BY <1>1, AuditInvariant, PTL
----------------------------------------------------------------------------
(* The two locks of an append.                                             *)

\* chainLock is held from locked to save, by one append at a time.
OneHolder ==
    /\ chainLock = {r \in Requests : entry[r].phase \in {"locked", "chosen", "read"}}
    /\ \A q, r \in chainLock : q = r

\* A step that moves one append, and leaves the others where they are.
LEMMA OneHolderMoves ==
    ASSUME AuditTypeOK, OneHolder, NEW r \in Requests, NEW phase,
           entry'[r].phase = phase,
           \A q \in Requests \ {r} : entry'[q] = entry[q],
           chainLock' = IF phase \in {"locked", "chosen", "read"}
                          THEN chainLock \cup {r} ELSE chainLock \ {r},
           r \notin chainLock /\ phase \in {"locked", "chosen", "read"} => chainLock = {}
    PROVE  OneHolder'
  BY DEF OneHolder

LEMMA OneHolderNext == AuditInv /\ OneHolder /\ [AuditNext]_auditVars => OneHolder'
  <1> SUFFICES ASSUME AuditInv, OneHolder, [AuditNext]_auditVars PROVE OneHolder'
    OBVIOUS
  <1>0. AuditTypeOK /\ entry \in [Requests -> Entry]
    BY DEF AuditInv, AuditTypeOK
  <1>h. \A r \in Requests : r \in chainLock <=> entry[r].phase \in {"locked", "chosen", "read"}
    BY DEF OneHolder
  <1>1. ASSUME NEW r \in Requests, Draft(r) PROVE OneHolder'
    <2>1. entry'[r].phase = "drafted" /\ \A q \in Requests \ {r} : entry'[q] = entry[q]
      BY <1>0, <1>1 DEF Draft, Entry
    <2>2. r \notin chainLock /\ chainLock' = chainLock
      BY <1>1, <1>h DEF Draft, In
    <2> QED
      BY <1>0, <2>1, <2>2, OneHolderMoves
  <1>2. ASSUME NEW r \in Requests, TakeLock(r) PROVE OneHolder'
    <2>1. entry'[r].phase = "locked" /\ \A q \in Requests \ {r} : entry'[q] = entry[q]
      BY <1>0, <1>2 DEF TakeLock, Goes, Entry
    <2>2. chainLock = {} /\ chainLock' = {r}
      BY <1>2 DEF TakeLock
    <2> QED
      BY <1>0, <2>1, <2>2, OneHolderMoves
  <1>3. ASSUME NEW r \in Requests, Choose(r) PROVE OneHolder'
    <2>1. entry'[r].phase = "chosen" /\ \A q \in Requests \ {r} : entry'[q] = entry[q]
      BY <1>0, <1>3 DEF Choose, Entry
    <2>2. r \in chainLock /\ chainLock' = chainLock
      BY <1>3, <1>h DEF Choose, In
    <2> QED
      BY <1>0, <2>1, <2>2, OneHolderMoves
  <1>4. ASSUME NEW r \in Requests, LockRow(r) PROVE OneHolder'
    <2>1. entry'[r].phase = "read" /\ \A q \in Requests \ {r} : entry'[q] = entry[q]
      BY <1>0, <1>4 DEF LockRow, Goes, Entry
    <2>2. r \in chainLock /\ chainLock' = chainLock
      BY <1>4, <1>h DEF LockRow, Goes, In
    <2> QED
      BY <1>0, <2>1, <2>2, OneHolderMoves
  <1>5. ASSUME NEW r \in Requests, SaveAndUnlock(r) PROVE OneHolder'
    <2>1. entry'[r].phase = "saved" /\ \A q \in Requests \ {r} : entry'[q] = entry[q]
      BY <1>0, <1>5 DEF SaveAndUnlock, Goes, Entry
    <2>2. chainLock' = chainLock \ {r}
      BY <1>5 DEF SaveAndUnlock
    <2> QED
      BY <1>0, <2>1, <2>2, OneHolderMoves
  <1>6. ASSUME NEW r \in Requests, Commit(r) PROVE OneHolder'
    <2>1. entry'[r].phase = "committed" /\ \A q \in Requests \ {r} : entry'[q] = entry[q]
      BY <1>0, <1>6 DEF Commit, Goes, Entry
    <2>2. r \notin chainLock /\ chainLock' = chainLock
      BY <1>6, <1>h DEF Commit, Goes, In
    <2> QED
      BY <1>0, <2>1, <2>2, OneHolderMoves
  <1>7. ASSUME NEW r \in Requests, Fail(r) PROVE OneHolder'
    <2>1. entry'[r].phase = "failed" /\ \A q \in Requests \ {r} : entry'[q] = entry[q]
      BY <1>0, <1>7 DEF Fail, Entry
    <2>2. chainLock' = chainLock \ {r}
      BY <1>7 DEF Fail
    <2> QED
      BY <1>0, <2>1, <2>2, OneHolderMoves
  <1>8. CASE Tick \/ UNCHANGED auditVars
    BY <1>8 DEF Tick, auditVars, OneHolder
  <1> QED
    BY <1>1, <1>2, <1>3, <1>4, <1>5, <1>6, <1>7, <1>8 DEF AuditNext, Append

\* Who waits for chainLock waits for its holder, and who waits for a row waits
\* for one that has it and waits for nothing.
LEMMA SomeoneGoesOn ==
    ASSUME OneHolder, NEW r \in Requests, Pending(r)
    PROVE  \E q \in Requests : MayGoOn(q)
  <1>1. ASSUME NEW q \in Requests, In(q, "chosen") PROVE \E p \in Requests : MayGoOn(p)
    <2>1. CASE HoldersOf(entry[q].prev) = {}
      BY <1>1, <2>1 DEF MayGoOn
    <2>2. CASE HoldersOf(entry[q].prev) # {}
      <3>1. PICK p \in Requests : entry[p].phase \in {"read", "saved"}
        BY <2>2 DEF HoldersOf
      <3> QED
        BY <3>1 DEF MayGoOn
    <2> QED
      BY <2>1, <2>2
  <1>2. CASE In(r, "drafted")
    <2>1. CASE chainLock = {}
      BY <1>2, <2>1 DEF MayGoOn
    <2>2. CASE chainLock # {}
      <3>1. PICK q \in Requests : entry[q].phase \in {"locked", "chosen", "read"}
        BY <2>2 DEF OneHolder
      <3> QED
        BY <1>1, <3>1 DEF MayGoOn, In
    <2> QED
      BY <2>1, <2>2
  <1> QED
    BY <1>1, <1>2 DEF Pending, MayGoOn, In

\* AuditLogChainAppender.append: no circle of appends wait for each other's
\* locks, although the one taken first is released first.
THEOREM AppendsNeverDeadlock == AuditSpec => []NoCircularWait
  <1>1. AuditInit => OneHolder
    BY DEF AuditInit, OneHolder
  <1>2. OneHolder => NoCircularWait
    BY SomeoneGoesOn DEF NoCircularWait
  <1> QED
    BY <1>1, <1>2, OneHolderNext, AuditInvariant, PTL DEF AuditSpec
----------------------------------------------------------------------------
(* The log of appends that have not met each other.                        *)

Chained(r) == entry[r].phase \in {"chosen", "read", "saved", "committed"}

Before(r) == {q \in Log : entry[q].createdAt < entry[r].createdAt}

FollowsLatest(r) ==
    IF Before(r) = {}
    THEN entry[r].prev = Genesis
    ELSE /\ entry[r].prev \in Before(r)
         /\ \A q \in Before(r) : entry[q].createdAt <= entry[entry[r].prev].createdAt

OnePending == \A q, r \in Requests : Pending(q) /\ Pending(r) => q = r

LogIsOlder ==
    \A q \in Log, r \in Requests : Pending(r) => entry[q].createdAt < entry[r].createdAt

TimesDiffer == \A q, r \in Log : entry[q].createdAt = entry[r].createdAt => q = r

LogIsChain == \A r \in Requests : Chained(r) => FollowsLatest(r)

SerialInv ==
    /\ IsFiniteSet(Log)
    /\ serial => OnePending /\ LogIsOlder /\ TimesDiffer /\ LogIsChain

\* What an entry follows depends on the log and on times alone.
LEMMA FollowsKept ==
    ASSUME NEW r \in Requests, FollowsLatest(r),
           entry'[r].prev = entry[r].prev,
           \A q \in Log \cup {r} : entry'[q].createdAt = entry[q].createdAt,
           {q \in Log' : entry'[q].createdAt < entry'[r].createdAt} = Before(r)
    PROVE  FollowsLatest(r)'
  <1>1. Before(r)' = Before(r)
    BY DEF Before
  <1>2. CASE Before(r) = {}
    BY <1>1, <1>2 DEF FollowsLatest
  <1>3. CASE Before(r) # {}
    <2>1. entry[r].prev \in Before(r) /\ \A q \in Before(r) : q \in Log
      BY <1>3 DEF FollowsLatest, Before
    <2> QED
      BY <1>1, <1>3, <2>1 DEF FollowsLatest
  <1> QED
    BY <1>2, <1>3

\* A pending request takes a step that neither chooses nor commits, or fails.
LEMMA MovesOnSerially ==
    ASSUME AuditTypeOK, SerialInv, NEW r \in Requests, Pending(r),
           NEW phase \in {"locked", "read", "saved", "failed"},
           entry' = [entry EXCEPT ![r].phase = phase], serial' = serial,
           phase \in {"read", "saved"} => Chained(r)
    PROVE  SerialInv'
  <1>1. /\ \A q \in Requests \ {r} : entry'[q] = entry[q]
        /\ entry'[r].phase = phase
        /\ \A q \in Requests : /\ entry'[q].createdAt = entry[q].createdAt
                               /\ entry'[q].prev = entry[q].prev
    BY DEF AuditTypeOK, Entry
  <1>2. Log' = Log
    BY <1>1 DEF Log, In, Pending
  <1>3. \A q \in Requests : (Pending(q)' => Pending(q)) /\ (Chained(q)' => Chained(q))
    BY <1>1 DEF Pending, Chained
  <1> SUFFICES ASSUME serial PROVE (OnePending /\ LogIsOlder /\ TimesDiffer /\ LogIsChain)'
    BY <1>2 DEF SerialInv
  <1>4. Log \subseteq Requests
    BY DEF Log
  <1>5. (OnePending /\ LogIsOlder /\ TimesDiffer)'
    BY <1>1, <1>2, <1>3, <1>4 DEF SerialInv, OnePending, LogIsOlder, TimesDiffer
  <1>6. ASSUME NEW q \in Requests, Chained(q)' PROVE FollowsLatest(q)'
    <2>1. FollowsLatest(q)
      BY <1>3, <1>6 DEF SerialInv, LogIsChain
    <2>2. {p \in Log' : entry'[p].createdAt < entry'[q].createdAt} = Before(q)
      BY <1>1, <1>2, <1>4 DEF Before
    <2> QED
      BY <1>1, <1>4, <2>1, <2>2, FollowsKept
  <1> QED
    BY <1>5, <1>6 DEF LogIsChain

\* A draft that is serial is younger than the log, and nobody else is pending.
LEMMA DraftsSerially ==
    ASSUME AuditTypeOK, SerialInv, NEW r \in Requests, Draft(r)
    PROVE  SerialInv'
  <1>1. /\ \A q \in Requests \ {r} : entry'[q] = entry[q]
        /\ entry'[r].phase = "drafted" /\ entry'[r].createdAt = now
        /\ entry[r].phase = "none"
    BY DEF Draft, AuditTypeOK, Entry, In
  <1>2. Log' = Log /\ r \notin Log /\ Log \subseteq Requests
    BY <1>1 DEF Log, In
  <1> SUFFICES ASSUME serial' PROVE (OnePending /\ LogIsOlder /\ TimesDiffer /\ LogIsChain)'
    BY <1>2 DEF SerialInv
  <1>3. serial /\ \A q \in Requests \ {r} :
                      \/ entry[q].phase \in {"none", "failed"}
                      \/ entry[q].phase = "committed" /\ entry[q].createdAt < now
    BY DEF Draft, In
  <1>4. \A q \in Requests : Pending(q)' => q = r
    BY <1>1, <1>3 DEF Pending
  <1>5. OnePending'
    BY <1>4 DEF OnePending
  <1>6. \A q \in Log : q # r /\ entry[q].createdAt < now /\ entry'[q] = entry[q]
    BY <1>1, <1>2, <1>3 DEF Log, In
  <1>7. LogIsOlder'
    BY <1>1, <1>2, <1>4, <1>6 DEF LogIsOlder
  <1>8. TimesDiffer'
    BY <1>2, <1>3, <1>6 DEF SerialInv, TimesDiffer
  <1>9. ASSUME NEW q \in Requests, Chained(q)' PROVE FollowsLatest(q)'
    <2>1. q # r /\ entry'[q] = entry[q] /\ FollowsLatest(q)
      BY <1>1, <1>3, <1>9 DEF SerialInv, LogIsChain, Chained
    <2>2. {p \in Log' : entry'[p].createdAt < entry'[q].createdAt} = Before(q)
      BY <1>2, <1>6, <2>1 DEF Before
    <2> QED
      BY <1>6, <2>1, <2>2, FollowsKept
  <1> QED
    BY <1>5, <1>7, <1>8, <1>9 DEF LogIsChain

\* The pending request chooses the youngest entry of a log of older ones.
LEMMA ChoosesSerially ==
    ASSUME AuditAssumption, AuditTypeOK, SerialInv, NEW r \in Requests, Choose(r)
    PROVE  SerialInv'
  <1>1. PICK p \in IF Log = {} THEN {Genesis} ELSE LatestOf(Log) :
            entry' = [entry EXCEPT ![r].phase = "chosen", ![r].prev = p]
    BY DEF Choose, Snapshot, FirstPrev
  <1>2. /\ \A q \in Requests \ {r} : entry'[q] = entry[q]
        /\ entry'[r].phase = "chosen" /\ entry'[r].prev = p
        /\ entry[r].phase = "locked"
        /\ \A q \in Requests : entry'[q].createdAt = entry[q].createdAt
    BY <1>1 DEF Choose, In, AuditTypeOK, Entry
  <1>3. Log' = Log /\ r \notin Log /\ Log \subseteq Requests
    BY <1>2 DEF Log, In
  <1> SUFFICES ASSUME serial PROVE (OnePending /\ LogIsOlder /\ TimesDiffer /\ LogIsChain)'
    BY <1>3 DEF SerialInv, Choose
  <1>4. \A q \in Requests : (Pending(q)' <=> Pending(q))
    BY <1>2 DEF Pending
  <1>5. (OnePending /\ LogIsOlder /\ TimesDiffer)'
    BY <1>2, <1>3, <1>4 DEF SerialInv, OnePending, LogIsOlder, TimesDiffer
  <1>6. FollowsLatest(r)'
    <2>1. Before(r)' = Log
      BY <1>2, <1>3 DEF Before, SerialInv, LogIsOlder, Pending
    <2>2. CASE Log = {}
      BY <1>1, <1>2, <2>1, <2>2 DEF FollowsLatest
    <2>3. CASE Log # {}
      <3>1. p \in Log /\ \A q \in Log : entry[q].createdAt <= entry[p].createdAt
        BY <1>1, <2>3 DEF LatestOf
      <3> QED
        BY <1>2, <1>3, <2>1, <2>3, <3>1 DEF FollowsLatest
    <2> QED
      BY <2>2, <2>3
  <1>7. ASSUME NEW q \in Requests, q # r, Chained(q)' PROVE FollowsLatest(q)'
    <2>1. FollowsLatest(q)
      BY <1>2, <1>7 DEF SerialInv, LogIsChain, Chained
    <2>2. {s \in Log' : entry'[s].createdAt < entry'[q].createdAt} = Before(q)
      BY <1>2, <1>3 DEF Before
    <2> QED
      BY <1>2, <1>3, <1>7, <2>1, <2>2, FollowsKept
  <1> QED
    BY <1>5, <1>6, <1>7 DEF LogIsChain

\* The committed entry is the youngest of the log.
LEMMA CommitsSerially ==
    ASSUME AuditTypeOK, SerialInv, NEW r \in Requests, Commit(r)
    PROVE  SerialInv'
  <1>1. /\ \A q \in Requests \ {r} : entry'[q] = entry[q]
        /\ entry'[r].phase = "committed" /\ entry[r].phase = "saved"
        /\ \A q \in Requests : /\ entry'[q].createdAt = entry[q].createdAt
                               /\ entry'[q].prev = entry[q].prev
                               /\ entry[q].createdAt \in Nat
    BY DEF Commit, Goes, In, AuditTypeOK, Entry
  <1>2. Log' = Log \cup {r} /\ r \notin Log /\ Log \subseteq Requests
    BY <1>1 DEF Log, In
  <1>3. IsFiniteSet(Log')
    BY <1>2, FS_AddElement DEF SerialInv
  <1> SUFFICES ASSUME serial PROVE (OnePending /\ LogIsOlder /\ TimesDiffer /\ LogIsChain)'
    BY <1>3 DEF SerialInv, Commit
  <1>4. \A q \in Requests : ~Pending(q)'
    BY <1>1 DEF SerialInv, OnePending, Pending
  <1>5. (OnePending /\ LogIsOlder)'
    BY <1>2, <1>4 DEF OnePending, LogIsOlder
  <1>6. \A q \in Log : entry[q].createdAt < entry[r].createdAt
    BY <1>1 DEF SerialInv, LogIsOlder, Pending
  <1>7. TimesDiffer'
    BY <1>1, <1>2, <1>6 DEF SerialInv, TimesDiffer
  <1>8. ASSUME NEW q \in Requests, Chained(q)' PROVE FollowsLatest(q)'
    <2>1. FollowsLatest(q)
      BY <1>1, <1>8 DEF SerialInv, LogIsChain, Chained
    <2>2. q \in Log \cup {r}
      BY <1>1, <1>2, <1>4, <1>8 DEF Chained, Pending, Log, In
    <2>3. entry[q].createdAt <= entry[r].createdAt
      BY <1>1, <1>6, <2>2
    <2>4. {p \in Log' : entry'[p].createdAt < entry'[q].createdAt} = Before(q)
      BY <1>1, <1>2, <2>3 DEF Before
    <2> QED
      BY <1>1, <1>2, <2>1, <2>4, FollowsKept
  <1> QED
    BY <1>5, <1>7, <1>8 DEF LogIsChain

LEMMA SerialNext ==
    ASSUME AuditAssumption, AuditTypeOK, SerialInv, [AuditNext]_auditVars
    PROVE  SerialInv'
  <1>1. ASSUME UNCHANGED <<entry, serial>> PROVE SerialInv'
    BY <1>1 DEF SerialInv, OnePending, LogIsOlder, TimesDiffer, LogIsChain, Pending, Chained,
                FollowsLatest, Before, Log, In
  <1>2. ASSUME NEW r \in Requests, TakeLock(r) \/ LockRow(r) \/ SaveAndUnlock(r) \/ Fail(r)
        PROVE  SerialInv'
    <2>1. CASE TakeLock(r)
      BY <2>1, MovesOnSerially DEF TakeLock, Goes, In, Pending
    <2>2. CASE LockRow(r)
      BY <2>2, MovesOnSerially DEF LockRow, Goes, In, Pending, Chained
    <2>3. CASE SaveAndUnlock(r)
      BY <2>3, MovesOnSerially DEF SaveAndUnlock, Goes, In, Pending, Chained
    <2>4. CASE Fail(r)
      BY <2>4, MovesOnSerially DEF Fail, Pending
    <2> QED
      BY <1>2, <2>1, <2>2, <2>3, <2>4
  <1> QED
    BY <1>1, <1>2, DraftsSerially, ChoosesSerially, CommitsSerially
       DEF AuditNext, Append, Tick, auditVars
----------------------------------------------------------------------------
\* A listing of the log leaves out no entry.
LEMMA ListingsCover ==
    ASSUME IsFiniteSet(Log), NEW s \in Listings(Log), NEW r \in Log
    PROVE  \E i \in DOMAIN s : s[i] = r
  <1> DEFINE n == Cardinality(Log)
  <1>1. n \in Nat
    BY FS_CardinalityType
  <1>2. s \in [1 .. n -> Log] /\ \A i, j \in 1 .. n : s[i] = s[j] => i = j
    BY DEF Listings
  <1>3. s \in Injection(1 .. n, Log)
    BY <1>2 DEF Injection, IsInjective
  <1>4. Cardinality(1 .. n) = n
    BY <1>1, FS_Interval
  <1>5. s \in Surjection(1 .. n, Log)
    BY <1>3, <1>4, FS_Injection
  <1> QED
    BY <1>2, <1>5 DEF Surjection

\* The chain in the order of the times is the chain of the hashes.
LEMMA ChainVerifies ==
    ASSUME AuditTypeOK, SerialInv, serial, NEW s \in Listings(Log),
           NEW i \in DOMAIN s
    PROVE  ~Tampered(s, i)
  <1> DEFINE n    == Cardinality(Log)
             T(r) == entry[r].createdAt
             e    == s[i]
  <1>1. n \in Nat
    BY FS_CardinalityType DEF SerialInv
  <1>2. /\ s \in [1 .. n -> Log] /\ DOMAIN s = 1 .. n
        /\ \A j, k \in 1 .. n : j # k => s[j] # s[k]
        /\ \A j, k \in 1 .. n : j < k => T(s[j]) <= T(s[k])
    BY DEF Listings
  <1>3. Log \subseteq Requests /\ \A r \in Log : T(r) \in Nat /\ Chained(r)
    BY DEF Log, In, AuditTypeOK, Entry, Chained
  <1>4. e \in Log /\ FollowsLatest(e) /\ TimesDiffer /\ i \in 1 .. n
    BY <1>2, <1>3 DEF SerialInv, LogIsChain
  <1>5. \A j, k \in 1 .. n : j < k => T(s[j]) < T(s[k])
    BY <1>2, <1>3 DEF SerialInv, TimesDiffer
  <1>6. \A r \in Before(e) : \E j \in 1 .. n : s[j] = r /\ j < i
    <2> SUFFICES ASSUME NEW r \in Before(e) PROVE \E j \in 1 .. n : s[j] = r /\ j < i
      OBVIOUS
    <2>1. r \in Log /\ T(r) < T(e)
      BY DEF Before
    <2>2. PICK j \in 1 .. n : s[j] = r
      BY <1>2, <2>1, ListingsCover DEF SerialInv
    <2>3. ~(i < j) /\ i # j
      BY <1>3, <1>4, <1>5, <2>1, <2>2
    <2> QED
      BY <1>1, <1>4, <2>2, <2>3
  <1>7. CASE i = 1
    <2>1. Before(e) = {}
      BY <1>1, <1>6, <1>7
    <2> QED
      BY <1>4, <1>7, <2>1 DEF FollowsLatest, Tampered
  <1>8. CASE i # 1
    <2>1. i - 1 \in 1 .. n /\ i - 1 < i
      BY <1>1, <1>4, <1>8
    <2>2. s[i - 1] \in Before(e)
      BY <1>2, <1>4, <1>5, <2>1 DEF Before
    <2>3. /\ entry[e].prev \in Before(e)
          /\ T(s[i - 1]) <= T(entry[e].prev)
      BY <1>4, <2>2 DEF FollowsLatest
    <2>4. PICK j \in 1 .. n : s[j] = entry[e].prev /\ j < i
      BY <1>6, <2>3
    <2>5. ~(j < i - 1)
      BY <1>2, <1>3, <1>5, <2>1, <2>3, <2>4
    <2>6. j = i - 1
      BY <1>1, <1>4, <2>4, <2>5
    <2> QED
      BY <1>8, <2>4, <2>6 DEF Tampered
  <1> QED
    BY <1>7, <1>8

\* AuditVerifyService finds no fault with a log whose entries were appended one
\* after the other, however many there are and whatever append failed between.
THEOREM SerialLogsVerify == AuditSpec => []SerialLogVerifies
  <1>1. AuditInit => SerialInv
    <2> SUFFICES ASSUME AuditInit PROVE SerialInv
      OBVIOUS
    <2>1. Log = {} /\ \A r \in Requests : ~Pending(r) /\ ~Chained(r)
      BY DEF AuditInit, Log, In, Pending, Chained
    <2> QED
      BY <2>1, FS_EmptySet DEF SerialInv, OnePending, LogIsOlder, TimesDiffer, LogIsChain
  <1>2. AuditTypeOK /\ SerialInv /\ [AuditNext]_auditVars => SerialInv'
    BY SerialNext, AuditAssumption
  <1>3. AuditTypeOK /\ SerialInv => SerialLogVerifies
    BY ChainVerifies DEF SerialLogVerifies, Verifies
  <1> QED
    BY <1>1, <1>2, <1>3, AuditTypeCorrect, PTL DEF AuditSpec
-----------------------------------------------------------------------------
(* AccountErasure *)

\* The account a job works on is on record before anything of it is erased.
WorkIsAudited ==
    "audit" \notin Faults =>
        \A j \in Jobs : job[j].at \in {"reports", "account"} => job[j].user \subseteq audited

ErasureInv == ErasureTypeOK /\ AuditedFirst /\ WorkIsAudited

LEMMA IdleJobType == IdleJob \in Job
BY DEF IdleJob, Job

LEMMA ErasureInitInv == ErasureInit => ErasureInv
BY IdleJobType, ErasureAssumption
   DEF ErasureInit, ErasureInv, ErasureTypeOK, AuditedFirst, WorkIsAudited, Accounts, IdleJob

\* Type correctness is preserved: one step per action.
LEMMA ErasureTypeStep ==
    ASSUME ErasureTypeOK, [ErasureNext]_erasureVars
    PROVE  ErasureTypeOK'
<1> USE DEF ErasureTypeOK
<1>1. ASSUME NEW u \in Users, DeleteAccount(u) \/ Expire(u) PROVE ErasureTypeOK'
  BY <1>1 DEF DeleteAccount, Expire, Accounts
<1>2. ASSUME NEW j \in Jobs, StartJob(j) PROVE ErasureTypeOK'
  <2>1. [IdleJob EXCEPT !.at = "paging", !.due = Expired] \in Job
    BY DEF IdleJob, Job, Expired
  <2> QED BY <1>2, <2>1 DEF StartJob
<1>3. ASSUME NEW j \in Jobs, NextPage(j) PROVE ErasureTypeOK'
  <2>1. PICK p \in Pages(j) : job' = [job EXCEPT ![j].at = "audit", ![j].page = p]
    BY <1>3 DEF NextPage
  <2>2. p \subseteq Users
    BY DEF Pages, Remaining, Job
  <2>3. [[job[j] EXCEPT !.at = "audit"] EXCEPT !.page = p] \in Job
    BY <2>2 DEF Job
  <2>4. job' = [job EXCEPT ![j] = [[job[j] EXCEPT !.at = "audit"] EXCEPT !.page = p]]
    BY <2>1
  <2> QED BY <1>3, <2>3, <2>4 DEF NextPage
<1>4. ASSUME NEW j \in Jobs, EndJob(j) PROVE ErasureTypeOK'
  BY <1>4, IdleJobType DEF EndJob, End
<1>5. ASSUME NEW j \in Jobs, Crash(j) PROVE ErasureTypeOK'
  BY <1>5, IdleJobType, ErasureAssumption DEF Crash
<1>6. ASSUME NEW j \in Jobs, NEW u \in Users, Audit(j, u) PROVE ErasureTypeOK'
  <2> DEFINE next == [[job[j] EXCEPT !.at = "reports"] EXCEPT !.user = {u}]
  <2>1. job' = [job EXCEPT ![j] = next] /\ audited' \subseteq Users
    BY <1>6 DEF Audit
  <2>2. next \in Job
    BY DEF Job
  <2> HIDE DEF next
  <2> QED BY <1>6, <2>1, <2>2 DEF Audit
<1>7. ASSUME NEW j \in Jobs, EraseReports(j) PROVE ErasureTypeOK'
  BY <1>7 DEF EraseReports, Job
<1>8. ASSUME NEW j \in Jobs, EraseAccount(j) PROVE ErasureTypeOK'
  <2> DEFINE left == job[j].page \ job[j].user
             at   == IF left = {} THEN "paging" ELSE "audit"
             next == [[[job[j] EXCEPT !.at = at] EXCEPT !.page = left] EXCEPT !.user = {}]
  <2>1. job' = [job EXCEPT ![j] = next]
    BY <1>8 DEF EraseAccount
  <2>2. next \in Job
    <3>1. job[j] \in Job
      OBVIOUS
    <3>2. left \in SUBSET Users /\ {} \in SUBSET Users /\ at \in {"paging", "audit"}
      BY <3>1 DEF Job
    <3> HIDE DEF left, at
    <3> QED BY <3>1, <3>2 DEF Job
  <2>3. account' \in [Users -> Accounts]
    BY <1>8 DEF EraseAccount, Accounts
  <2>4. UNCHANGED <<reports, audited, lock, crashes>> /\ invited' \subseteq invited
    BY <1>8 DEF EraseAccount
  <2> HIDE DEF next
  <2> QED BY <2>1, <2>2, <2>3, <2>4
<1>9. ASSUME LockExpires PROVE ErasureTypeOK'
  BY <1>9 DEF LockExpires
<1>10. CASE UNCHANGED erasureVars
  BY <1>10 DEF erasureVars
<1>11. ASSUME NEW a \in Users, NEW u \in Users, Report(a, u) PROVE ErasureTypeOK'
  BY <1>11 DEF Report
<1> QED BY <1>1, <1>2, <1>3, <1>4, <1>5, <1>6, <1>7, <1>8, <1>9, <1>10, <1>11
        DEF ErasureNext, JobStep

\* The record comes before the erasure: only Audit and EraseAccount matter.
LEMMA ErasureRecordStep ==
    ASSUME ErasureInv, [ErasureNext]_erasureVars, "audit" \notin Faults
    PROVE  AuditedFirst' /\ WorkIsAudited'
<1> USE DEF ErasureInv, ErasureTypeOK, AuditedFirst, WorkIsAudited
<1>1. ASSUME NEW u \in Users, DeleteAccount(u) \/ Expire(u)
      PROVE  AuditedFirst' /\ WorkIsAudited'
  BY <1>1 DEF DeleteAccount, Expire
<1>2. ASSUME NEW j \in Jobs, StartJob(j) PROVE AuditedFirst' /\ WorkIsAudited'
  BY <1>2 DEF StartJob, IdleJob, Job
<1>3. ASSUME NEW j \in Jobs, NextPage(j) PROVE AuditedFirst' /\ WorkIsAudited'
  BY <1>3 DEF NextPage, Job
<1>4. ASSUME NEW j \in Jobs, EndJob(j) PROVE AuditedFirst' /\ WorkIsAudited'
  BY <1>4 DEF EndJob, End, IdleJob, Job
<1>5. ASSUME NEW j \in Jobs, Crash(j) PROVE AuditedFirst' /\ WorkIsAudited'
  BY <1>5 DEF Crash, IdleJob, Job
<1>6. ASSUME NEW j \in Jobs, NEW u \in Users, Audit(j, u)
      PROVE  AuditedFirst' /\ WorkIsAudited'
  <2>1. audited' = audited \cup {u}
    BY <1>6 DEF Audit
  <2>2. AuditedFirst'
    BY <1>6, <2>1 DEF Audit
  <2>3. ASSUME NEW k \in Jobs, job'[k].at \in {"reports", "account"}
        PROVE  job'[k].user \subseteq audited'
    BY <1>6, <2>1, <2>3 DEF Audit, Job
  <2> QED BY <2>2, <2>3
<1>7. ASSUME NEW j \in Jobs, EraseReports(j) PROVE AuditedFirst' /\ WorkIsAudited'
  BY <1>7 DEF EraseReports, Job
<1>8. ASSUME NEW j \in Jobs, EraseAccount(j) PROVE AuditedFirst' /\ WorkIsAudited'
  <2>1. job[j].user \subseteq audited
    BY <1>8 DEF EraseAccount
  <2>2. AuditedFirst'
    BY <1>8, <2>1 DEF EraseAccount
  <2>3. ASSUME NEW k \in Jobs, job'[k].at \in {"reports", "account"}
        PROVE  job'[k].user \subseteq audited'
    <3>1. job'[j].at \in {"paging", "audit"}
      BY <1>8 DEF EraseAccount, Job
    <3>2. k # j
      BY <2>3, <3>1
    <3>3. job'[k] = job[k] /\ audited' = audited
      BY <1>8, <3>2 DEF EraseAccount
    <3> QED BY <2>3, <3>3
  <2> QED BY <2>2, <2>3
<1>9. ASSUME LockExpires PROVE AuditedFirst' /\ WorkIsAudited'
  BY <1>9 DEF LockExpires
<1>10. CASE UNCHANGED erasureVars
  BY <1>10 DEF erasureVars
<1>11. ASSUME NEW a \in Users, NEW u \in Users, Report(a, u) PROVE AuditedFirst' /\ WorkIsAudited'
  BY <1>11 DEF Report
<1> QED BY <1>1, <1>2, <1>3, <1>4, <1>5, <1>6, <1>7, <1>8, <1>9, <1>10, <1>11
        DEF ErasureNext, JobStep

\* The inductive invariant of the erasure (AccountErasure).
THEOREM ErasureInvariant == ErasureSpec => []ErasureInv
<1>1. ErasureInv /\ [ErasureNext]_erasureVars => ErasureInv'
  <2> SUFFICES ASSUME ErasureInv, [ErasureNext]_erasureVars PROVE ErasureInv'
    OBVIOUS
  <2>1. ErasureTypeOK'
    BY ErasureTypeStep DEF ErasureInv
  <2>2. CASE "audit" \in Faults
    BY <2>1, <2>2 DEF ErasureInv, AuditedFirst, WorkIsAudited
  <2>3. CASE "audit" \notin Faults
    BY <2>1, <2>3, ErasureRecordStep DEF ErasureInv
  <2> QED BY <2>2, <2>3
<1> QED BY <1>1, ErasureInitInv, PTL DEF ErasureSpec

\* Type correctness of the accounts, the job and its lock.
THEOREM ErasureTypeCorrect == ErasureSpec => []ErasureTypeOK
<1>1. ErasureInv => ErasureTypeOK
  BY DEF ErasureInv
<1> QED BY <1>1, ErasureInvariant, PTL

\* "The audit row first": an account is never gone without a record of it,
\* when no audit row fails, whatever job dies or overtakes another one.
THEOREM ErasureIsOnRecord == ErasureSpec => []AuditedFirst
<1>1. ErasureInv => AuditedFirst
  BY DEF ErasureInv
<1> QED BY <1>1, ErasureInvariant, PTL

\* A step that ends a job without a crash finds nothing left to erase.
LEMMA EndingStep ==
    ASSUME ErasureTypeOK, [ErasureNext]_erasureVars,
           NEW j \in Jobs, Running(j), ~Running(j)', crashes' = crashes
    PROVE  \A u \in job[j].due : account[u] = "gone"
<1> USE DEF ErasureTypeOK, Running
<1>1. ASSUME NEW u \in Users, DeleteAccount(u) \/ Expire(u) PROVE FALSE
  BY <1>1 DEF DeleteAccount, Expire
<1>2. ASSUME NEW k \in Jobs, StartJob(k) PROVE FALSE
  BY <1>2 DEF StartJob, IdleJob
<1>3. ASSUME NEW k \in Jobs, NextPage(k) PROVE FALSE
  BY <1>3 DEF NextPage, Job
<1>4. ASSUME NEW k \in Jobs, EndJob(k) PROVE \A u \in job[j].due : account[u] = "gone"
  <2>1. k = j
    BY <1>4 DEF EndJob, End
  <2> QED BY <1>4, <2>1 DEF EndJob, Remaining
<1>5. ASSUME NEW k \in Jobs, Crash(k) PROVE FALSE
  BY <1>5, ErasureAssumption DEF Crash
<1>6. ASSUME NEW k \in Jobs, NEW u \in Users, Audit(k, u) PROVE FALSE
  BY <1>6 DEF Audit, Job
<1>7. ASSUME NEW k \in Jobs, EraseReports(k) PROVE FALSE
  BY <1>7 DEF EraseReports, Job
<1>8. ASSUME NEW k \in Jobs, EraseAccount(k) PROVE FALSE
  BY <1>8 DEF EraseAccount, Job
<1>9. ASSUME LockExpires PROVE FALSE
  BY <1>9 DEF LockExpires
<1>10. CASE UNCHANGED erasureVars
  BY <1>10 DEF erasureVars
<1>11. ASSUME NEW a \in Users, NEW u \in Users, Report(a, u) PROVE FALSE
  BY <1>11 DEF Report
<1> QED BY <1>1, <1>2, <1>3, <1>4, <1>5, <1>6, <1>7, <1>8, <1>9, <1>10, <1>11
        DEF ErasureNext, JobStep

\* A job only ends when every account that was due is gone: refetching the
\* first page misses nobody, for any number of users and any page size.
THEOREM JobLeavesNothing == ErasureSpec => NothingIsLeft
<1>1. ErasureInv /\ [ErasureNext]_erasureVars =>
        [\A j \in Jobs : Running(j) /\ ~Running(j)' /\ crashes' = crashes =>
            \A u \in job[j].due : account[u] = "gone"]_erasureVars
  BY EndingStep DEF ErasureInv
<1> QED BY <1>1, ErasureInvariant, PTL DEF ErasureSpec, NothingIsLeft
=============================================================================
