--------------------------- MODULE AccountErasure ---------------------------
(***************************************************************************)
(* The erasure of accounts (GDPR) in the backend: GdprService marks an     *)
(* account as deleted, and thirty days later the nightly GdprHardDeleteJob *)
(* erases it, page by page.  processExpiredAccounts calls processOneUser   *)
(* on itself, so that its @Transactional has no effect: the audit row, the *)
(* reports and the account are written in transactions of their own.       *)
(***************************************************************************)
EXTENDS Naturals, FiniteSets

CONSTANTS Users,
          Pinned,      \* users a row refers to that goes with no account: the
                       \* organizations they own, invitations to those
          Jobs,        \* executions of the job that can overlap
          BatchSize,   \* BATCH_SIZE
          MaxCrashes,  \* bound on the jobs that die with their backend
          MaxRows,     \* bound on the rows of reports and invited
          Faults       \* "audit": an audit row is not saved;
                       \* "late": the lock ends before its job does

ASSUME ErasureAssumption ==
    /\ IsFiniteSet(Users)
    /\ Pinned \subseteq Users
    /\ BatchSize \in Nat \ {0}
    /\ MaxCrashes \in Nat
    /\ MaxRows \in Nat
    /\ Faults \subseteq {"audit", "late"}

VARIABLES account,   \* [Users -> Accounts]
          reports,   \* <<author, owner of the project>> of each report
          invited,   \* <<guest, host>>: a row that goes with the guest's account
                     \* names the host without a cascade (invited_by of
                     \* team_members, org_members and team_invitations,
                     \* requested_by of security_doc_requests)
          audited,   \* users with an audit row GDPR_HARD_DELETE
          job,       \* [Jobs -> Job]
          lock,      \* the ShedLock: {the job that holds it}, or {}
          crashes

erasureVars == <<account, reports, invited, audited, job, lock, crashes>>
----------------------------------------------------------------------------
\* "deleted": marked, "expired": marked thirty days ago.
Accounts == {"active", "deleted", "expired", "gone"}

\* due: the accounts before the cutoff of the start.  page: those of the page
\* that are not yet done.  user: the one in work.  at: the next step.
Job == [at   : {"idle", "paging", "audit", "reports", "account"},
        due  : SUBSET Users,
        page : SUBSET Users,
        user : SUBSET Users]

IdleJob == [at |-> "idle", due |-> {}, page |-> {}, user |-> {}]

Running(j) == job[j].at # "idle"
Expired    == {u \in Users : account[u] = "expired"}

ErasureTypeOK ==
    /\ account \in [Users -> Accounts]
    /\ reports \subseteq Users \X Users
    /\ invited \subseteq Users \X Users
    /\ audited \subseteq Users
    /\ job     \in [Jobs -> Job]
    /\ lock    \subseteq Jobs
    /\ crashes \in 0 .. MaxCrashes

ErasureInit ==
    /\ account = [u \in Users |-> "active"]
    /\ reports \in SUBSET (Users \X Users)
    /\ invited \in SUBSET {r \in Users \X Users : r[1] # r[2]}
    /\ Cardinality(reports) + Cardinality(invited) <= MaxRows
    /\ audited = {}
    /\ job     = [j \in Jobs |-> IdleJob]
    /\ lock    = {}
    /\ crashes = 0
----------------------------------------------------------------------------
(* The accounts.                                                           *)

\* deleteAccount.
DeleteAccount(u) ==
    /\ account[u] = "active"
    /\ account' = [account EXCEPT ![u] = "deleted"]
    /\ UNCHANGED <<reports, invited, audited, job, lock, crashes>>

Expire(u) ==
    /\ account[u] = "deleted"
    /\ account' = [account EXCEPT ![u] = "expired"]
    /\ UNCHANGED <<reports, invited, audited, job, lock, crashes>>

\* requestGeneration: a member asks for a report on a project, whose owner may
\* have left.
Report(a, u) ==
    /\ account[a] = "active"
    /\ account[u] # "gone"
    /\ Cardinality(reports) + Cardinality(invited) < MaxRows
    /\ reports' = reports \cup {<<a, u>>}
    /\ UNCHANGED <<account, invited, audited, job, lock, crashes>>
----------------------------------------------------------------------------
(* The job and its lock.                                                   *)

StartJob(j) ==
    /\ ~Running(j)
    /\ lock = {}
    /\ lock' = {j}
    /\ job' = [job EXCEPT ![j] = [IdleJob EXCEPT !.at = "paging", !.due = Expired]]
    /\ UNCHANGED <<account, reports, invited, audited, crashes>>

\* lockAtMostFor: the lock outlives a dead job by thirty minutes at most, and
\* does not outlive them for a live one either.
LockExpires ==
    /\ lock # {}
    /\ "late" \in Faults \/ \A j \in lock : ~Running(j)
    /\ lock' = {}
    /\ UNCHANGED <<account, reports, invited, audited, job, crashes>>

Remaining(j) == {u \in job[j].due : account[u] # "gone"}

\* Page 0 of findExpiredSoftDeletedUsers, in no particular order.
Pages(j) ==
    {p \in SUBSET Remaining(j) :
        \/ Cardinality(p) = BatchSize
        \/ Cardinality(p) < BatchSize /\ p = Remaining(j)}

NextPage(j) ==
    /\ job[j].at = "paging"
    /\ Remaining(j) # {}
    /\ \E p \in Pages(j) : job' = [job EXCEPT ![j].at = "audit", ![j].page = p]
    /\ UNCHANGED <<account, reports, invited, audited, lock, crashes>>

End(j) ==
    /\ job' = [job EXCEPT ![j] = IdleJob]
    /\ lock' = lock \ {j}
    /\ UNCHANGED <<account, reports, invited, audited, crashes>>

\* Mutant: one page a night, and no look at what is left.
EndJobAfterPage(j) == job[j].at = "paging" /\ End(j)

EndJob(j) == job[j].at = "paging" /\ Remaining(j) = {} /\ End(j)

\* The backend dies under the job.
Crash(j) ==
    /\ Running(j)
    /\ crashes < MaxCrashes
    /\ crashes' = crashes + 1
    /\ job' = [job EXCEPT ![j] = IdleJob]
    /\ UNCHANGED <<account, reports, invited, audited, lock>>
----------------------------------------------------------------------------
(* One account of the page: processOneUser.                                *)

\* Mutant: only what has reports is recorded.
AuditReporters(j, u) ==
    /\ job[j].at = "audit" /\ u \in job[j].page
    /\ audited' = audited \cup {a \in {u} : \E b \in Users : <<a, b>> \in reports}
    /\ job' = [job EXCEPT ![j].at = "reports", ![j].user = {u}]
    /\ UNCHANGED <<account, reports, invited, lock, crashes>>

\* recordHardDeleteAudit, which swallows what fails.
Audit(j, u) ==
    /\ job[j].at = "audit" /\ u \in job[j].page
    /\ audited' \in {audited \cup {u}} \cup (IF "audit" \in Faults THEN {audited} ELSE {})
    /\ job' = [job EXCEPT ![j].at = "reports", ![j].user = {u}]
    /\ UNCHANGED <<account, reports, invited, lock, crashes>>

\* Mutant: the event has no listener.
KeepReports(j) ==
    /\ job[j].at = "reports"
    /\ job' = [job EXCEPT ![j].at = "account"]
    /\ UNCHANGED <<account, reports, invited, audited, lock, crashes>>

\* GdprHardDeleteReportHandler, in the thread of the publisher.
EraseReports(j) ==
    /\ job[j].at = "reports"
    /\ reports' = {r \in reports : r[1] \notin job[j].user}
    /\ job' = [job EXCEPT ![j].at = "account"]
    /\ UNCHANGED <<account, invited, audited, lock, crashes>>

\* Something refers to the account that its own erasure does not take away: the
\* report of somebody else on one of its projects, or a row of somebody else
\* that names it.
Held(u) ==
    \/ u \in Pinned
    \/ \E a \in Users \ {u} : <<a, u>> \in reports \cup invited

\* The database refuses to delete an account that is referred to.
Refused(u) == Held(u) \/ \E b \in Users : <<u, b>> \in reports

\* deleteById, which does not mind that the account is gone, and takes the rows
\* with it that cascade; when it is refused, the account is skipped.
EraseAccount(j) ==
    LET left   == job[j].page \ job[j].user
        erased == {u \in job[j].user : ~Refused(u)}
    IN  /\ job[j].at = "account"
        /\ account' = [u \in Users |-> IF u \in erased THEN "gone" ELSE account[u]]
        /\ invited' = {r \in invited : r[1] \notin erased}
        /\ job' = [job EXCEPT ![j].at   = IF left = {} THEN "paging" ELSE "audit",
                              ![j].page = left,
                              ![j].user = {}]
        /\ UNCHANGED <<reports, audited, lock, crashes>>
----------------------------------------------------------------------------
JobStep(j) ==
    \/ NextPage(j)
    \/ \E u \in Users : Audit(j, u)
    \/ EraseReports(j)
    \/ EraseAccount(j)
    \/ EndJob(j)

ErasureNext ==
    \/ \E u \in Users : DeleteAccount(u) \/ Expire(u)
    \/ \E a \in Users, u \in Users : Report(a, u)
    \/ \E j \in Jobs : StartJob(j) \/ JobStep(j) \/ Crash(j)
    \/ LockExpires

ErasureSpec == ErasureInit /\ [][ErasureNext]_erasureVars

\* Time passes, the job is started every night and its thread is scheduled.
ErasureFairness ==
    /\ \A u \in Users : WF_erasureVars(Expire(u))
    /\ WF_erasureVars(\E j \in Jobs : StartJob(j))
    /\ WF_erasureVars(LockExpires)
    /\ \A j \in Jobs : WF_erasureVars(JobStep(j))

FairErasureSpec == ErasureSpec /\ ErasureFairness
----------------------------------------------------------------------------
(* Properties.                                                             *)

\* An account is gone only when its erasure was put on record, whatever job
\* died or overtook another ("the audit row first", processOneUser).
AuditedFirst ==
    "audit" \notin Faults => \A u \in Users : account[u] = "gone" => u \in audited

\* A job that comes to its end has erased every account that was due when it
\* began, however many pages that takes.
NothingIsLeft ==
    [][\A j \in Jobs : Running(j) /\ ~Running(j)' /\ crashes' = crashes =>
          \A u \in job[j].due : account[u] = "gone"]_erasureVars

\* Who asked for it is erased in the end, although jobs die between any two
\* steps and overlap, and although accounts are skipped as long as others refer
\* to them: when those others have gone, the page that is fetched again comes
\* back to who was skipped.  The premise is that no expired account stays held:
\* one that does keeps its job from ending (JobEnds).
NobodyStaysHeld == <>[](\A u \in Users : account[u] = "expired" => ~Held(u))

DeletedAreErased ==
    NobodyStaysHeld =>
        \A u \in Users : account[u] = "deleted" ~> account[u] = "gone"

\* "When one user fails it is skipped and logged, the batch goes on": the job
\* comes to its end although an account cannot be deleted.
JobEnds == \A j \in Jobs : Running(j) ~> ~Running(j)
=============================================================================
