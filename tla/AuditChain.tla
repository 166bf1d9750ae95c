----------------------------- MODULE AuditChain -----------------------------
(***************************************************************************)
(* The audit log: AuditLogAspect drafts an entry when an audited request   *)
(* returns, AuditLogChainAppender chains it to the latest entry, and       *)
(* AuditVerifyService walks the chain.                                     *)
(*                                                                         *)
(* append is one REPEATABLE READ transaction.  Its body runs under a lock  *)
(* of the JVM, taken after the transaction began and released before it    *)
(* commits.  Its snapshot is that of its first statement, the SELECT ...   *)
(* FOR UPDATE of the latest entry, which waits while another transaction   *)
(* holds that row, and then goes on with the row it had chosen: the row    *)
(* was locked, never updated.  The hash of an entry is the entry itself    *)
(* (no collisions), so prev_hash is the entry it was computed from.        *)
(***************************************************************************)
EXTENDS Naturals, FiniteSets

CONSTANTS Requests,     \* audited requests; each leaves at most one entry
          Genesis,      \* GENESIS_PREV_HASH
          MaxTime       \* bounds the clock

ASSUME AuditAssumption ==
    /\ Genesis \notin Requests
    /\ MaxTime \in Nat

VARIABLES now,          \* the clock, in units of created_at
          entry,        \* [Requests -> Entry]
          chainLock,    \* chainLock: set of the requests that hold it
          serial        \* history: no append has yet met another one

auditVars == <<now, entry, chainLock, serial>>
----------------------------------------------------------------------------
\* phase, in the order of the code: "drafted" waits for chainLock, "locked"
\* holds it, "chosen" has its snapshot and waits for the row, "read" has the
\* row, "saved" has given chainLock back, "committed" or "failed".
Phases == {"none", "drafted", "locked", "chosen", "read", "saved",
           "committed", "failed"}

Entry == [phase : Phases, createdAt : Nat, prev : Requests \cup {Genesis}]

AuditTypeOK ==
    /\ now       \in 0 .. MaxTime
    /\ entry     \in [Requests -> Entry]
    /\ chainLock \in SUBSET Requests
    /\ serial    \in BOOLEAN

AuditInit ==
    /\ now       = 0
    /\ entry     = [r \in Requests |->
                      [phase |-> "none", createdAt |-> 0, prev |-> Genesis]]
    /\ chainLock = {}
    /\ serial    = TRUE

In(r, phase) == entry[r].phase = phase
Log          == {r \in Requests : In(r, "committed")}

Goes(r, from, to) == In(r, from) /\ entry' = [entry EXCEPT ![r].phase = to]
----------------------------------------------------------------------------
Tick ==
    /\ now < MaxTime
    /\ now' = now + 1
    /\ UNCHANGED <<entry, chainLock, serial>>

\* saveAuditLog fixes created_at before the append.  Entries that share a
\* created_at, or are drafted while another one is on its way, are not serial.
Draft(r) ==
    /\ In(r, "none")
    /\ entry' = [entry EXCEPT ![r].phase = "drafted", ![r].createdAt = now]
    /\ serial' = (serial /\ \A q \in Requests \ {r} :
                    \/ entry[q].phase \in {"none", "failed"}
                    \/ In(q, "committed") /\ entry[q].createdAt < now)
    /\ UNCHANGED <<now, chainLock>>

TakeLock(r) ==
    /\ chainLock = {}
    /\ Goes(r, "drafted", "locked")
    /\ chainLock' = {r}
    /\ UNCHANGED <<now, serial>>

\* Mutant: the ORDER BY is the one of the verification.
OldestOf(L) == {r \in L : \A q \in L : entry[r].createdAt <= entry[q].createdAt}

\* ORDER BY created_at DESC LIMIT 1: ties are the database's to break.
LatestOf(L) == {r \in L : \A q \in L : entry[q].createdAt <= entry[r].createdAt}

\* Mutant: the snapshot sees what others have saved and not committed.
SnapshotDirty == {r \in Requests : entry[r].phase \in {"saved", "committed"}}

\* What the first statement of a transaction sees.
Snapshot == Log

\* orElse(GENESIS_PREV_HASH)
FirstPrev == Genesis

\* findLatestWithHashForUpdate, up to the row lock.
Choose(r) ==
    /\ In(r, "locked")
    /\ \E p \in IF Snapshot = {} THEN {FirstPrev} ELSE LatestOf(Snapshot) :
          entry' = [entry EXCEPT ![r].phase = "chosen", ![r].prev = p]
    /\ UNCHANGED <<now, chainLock, serial>>

\* Transactions that hold the row of the entry p.
HoldersOf(p) ==
    {q \in Requests : entry[q].phase \in {"read", "saved"} /\ entry[q].prev = p}

\* There is no row to lock in an empty log.
LockRow(r) ==
    /\ Goes(r, "chosen", "read")
    /\ entry[r].prev = Genesis \/ HoldersOf(entry[r].prev) = {}
    /\ UNCHANGED <<now, chainLock, serial>>

\* save, and the unlock of the finally block.
SaveAndUnlock(r) ==
    /\ Goes(r, "read", "saved")
    /\ chainLock' = chainLock \ {r}
    /\ UNCHANGED <<now, serial>>

Commit(r) ==
    /\ Goes(r, "saved", "committed")
    /\ UNCHANGED <<now, chainLock, serial>>

\* Mutant: no finally block.
FailLocked(r) ==
    /\ entry[r].phase \in {"drafted", "locked", "chosen", "read", "saved"}
    /\ entry' = [entry EXCEPT ![r].phase = "failed"]
    /\ UNCHANGED <<now, chainLock, serial>>

\* A statement, the connection or the commit fails: the aspect logs it and the
\* request goes on.  The finally block has released the lock.
Fail(r) ==
    /\ entry[r].phase \in {"drafted", "locked", "chosen", "read", "saved"}
    /\ entry' = [entry EXCEPT ![r].phase = "failed"]
    /\ chainLock' = chainLock \ {r}
    /\ UNCHANGED <<now, serial>>

Append(r) ==
    \/ TakeLock(r)
    \/ Choose(r)
    \/ LockRow(r)
    \/ SaveAndUnlock(r)
    \/ Commit(r)

AuditNext ==
    \/ Tick
    \/ \E r \in Requests : Draft(r) \/ Append(r) \/ Fail(r)

AuditSpec == AuditInit /\ [][AuditNext]_auditVars

\* The threads of the requests are scheduled; chainLock is not fair, but only
\* finitely many requests come.
AuditFairness == \A r \in Requests : WF_auditVars(Append(r))

FairAuditSpec == AuditSpec /\ AuditFairness
----------------------------------------------------------------------------
(* AuditVerifyService: the committed entries in the order of created_at,   *)
(* each compared with the one before it.                                   *)

\* Sequences that list the set L in the order of created_at.
Listings(L) ==
    {s \in [1 .. Cardinality(L) -> L] :
        /\ \A i, j \in DOMAIN s : i # j => s[i] # s[j]
        /\ \A i, j \in DOMAIN s : i < j => entry[s[i]].createdAt <= entry[s[j]].createdAt}

Tampered(s, i) == entry[s[i]].prev # IF i = 1 THEN Genesis ELSE s[i - 1]

Verifies(s) == \A i \in DOMAIN s : ~Tampered(s, i)
----------------------------------------------------------------------------
(* Properties.                                                             *)

\* Every committed entry is chained to a committed one: an append that fails
\* after others have seen the log leaves no gap.
EntriesAreRooted == \A r \in Log : entry[r].prev \in Log \cup {Genesis}

\* The verification accepts every log whose entries were appended one after
\* the other, whatever failed in between.
SerialLogVerifies == serial => \A s \in Listings(Log) : Verifies(s)

\* An audited request is never held up for good by the audit log.
AppendsEnd ==
    \A r \in Requests : In(r, "drafted") ~> entry[r].phase \in {"committed", "failed"}

\* Appends wait for two locks that are not released in the order they are taken:
\* chainLock until save, the row of the latest entry until the commit.  None of
\* them ever waits for one that waits for it: while appends are on their way, one
\* of them can go on.
Pending(r) == entry[r].phase \in {"drafted", "locked", "chosen", "read", "saved"}
MayGoOn(r) ==
    \/ entry[r].phase \in {"locked", "read", "saved"}
    \/ In(r, "drafted") /\ chainLock = {}
    \/ In(r, "chosen") /\ (entry[r].prev = Genesis \/ HoldersOf(entry[r].prev) = {})
NoCircularWait ==
    (\E r \in Requests : Pending(r)) => \E r \in Requests : MayGoOn(r)

\* "The FOR UPDATE lock keeps others from reading while one transaction reads
\* a row and inserts the next": two entries never have the same predecessor
\* (AuditLogRepository).
ChainNeverForks ==
    \A q, r \in Log : entry[q].prev = entry[r].prev => q = r

\* The order of the chain is that of created_at, by which it is verified
\* (AuditLogChainAppender.append: "guarantees the order").
ChainFollowsTime ==
    \A r \in Log : entry[r].prev # Genesis =>
        entry[entry[r].prev].createdAt <= entry[r].createdAt
=============================================================================
