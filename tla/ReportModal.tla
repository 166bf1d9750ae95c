---------------------------- MODULE ReportModal ----------------------------
(***************************************************************************)
(* Two dialogs that wait for work of the backend.  PdfReportModal requests *)
(* a report per format and polls each by itself, a bounded number of       *)
(* times; CommitSecretScanModal starts a scan, waits once, and shows what  *)
(* has been found by then.                                                 *)
(***************************************************************************)
EXTENDS Naturals

CONSTANTS
    Formats,
    MaxPolls     \* MAX_POLL

VARIABLES
    modal,       \* configure, generating, or ready
    entry,       \* format -> none, posting, created, polling, ready, or failed
    tries,       \* format -> polls so far
    report,      \* format -> the report in the backend: none, working, or ended
    scanning,    \* no, posting, waiting, or asking
    job,         \* the scan in the backend: none, running, or done
    result       \* none, or what the scan had found: part or all

vars    == <<modal, entry, tries, report, scanning, job, result>>
reports == <<modal, entry, tries, report>>
secrets == <<scanning, job, result>>

Ended == {"COMPLETED", "FAILED"}

Init ==
    /\ modal = "configure"
    /\ entry = [f \in Formats |-> "none"]
    /\ tries = [f \in Formats |-> 0]
    /\ report = [f \in Formats |-> "none"]
    /\ scanning = "no" /\ job = "none" /\ result = "none"

Enter(f, how) == entry' = [entry EXCEPT ![f] = how]
-----------------------------------------------------------------------------
(* PdfReportModal *)

\* handleGenerate, with the formats that are ticked.
Generate(fs) ==
    /\ modal = "configure" /\ modal' = "generating"
    /\ entry' = [f \in Formats |-> IF f \in fs THEN "posting" ELSE "none"]
    /\ UNCHANGED <<tries, report, secrets>>

\* The request of one format; a failure is that format's.
Posted(f) ==
    /\ entry[f] = "posting"
    /\ \/ Enter(f, "created") /\ report' = [report EXCEPT ![f] = "working"]
       \/ Enter(f, "failed") /\ report' = report
    /\ UNCHANGED <<modal, tries, secrets>>

\* The first Promise.all: polling begins when no request is open.
AllPosted ==
    /\ modal = "generating"
    /\ \A f \in Formats : entry[f] # "posting"
    /\ \E f \in Formats : entry[f] = "created"
    /\ entry' = [f \in Formats |-> IF entry[f] = "created" THEN "polling" ELSE entry[f]]
    /\ UNCHANGED <<modal, tries, report, secrets>>

ReportEnds(f, how) ==
    /\ report[f] = "working" /\ how \in Ended
    /\ report' = [report EXCEPT ![f] = how]
    /\ UNCHANGED <<modal, entry, tries, secrets>>

\* pollOne: an answer, an answer from before the end, or an error.
Poll(f) ==
    /\ entry[f] = "polling"
    /\ \/ /\ tries[f] < MaxPolls
          /\ tries' = [tries EXCEPT ![f] = @ + 1]
          /\ \/ report[f] = "COMPLETED" /\ Enter(f, "ready")
             \/ report[f] = "FAILED" /\ Enter(f, "failed")
             \/ entry' = entry
       \/ tries[f] = MaxPolls /\ Enter(f, "failed") /\ tries' = tries
    /\ UNCHANGED <<modal, report, secrets>>

\* The second Promise.all.
AllReady ==
    /\ modal = "generating" /\ modal' = "ready"
    /\ \A f \in Formats : entry[f] \in {"none", "ready", "failed"}
    /\ UNCHANGED <<entry, tries, report, secrets>>

\* The dialog is closed, and opened again as a new one.
Reopen ==
    /\ modal # "configure" /\ modal' = "configure"
    /\ entry' = [f \in Formats |-> "none"]
    /\ tries' = [f \in Formats |-> 0]
    /\ report' = [f \in Formats |-> "none"]
    /\ UNCHANGED secrets
-----------------------------------------------------------------------------
(* CommitSecretScanModal, handleScan *)

Scan ==
    /\ scanning = "no" /\ scanning' = "posting" /\ result' = "none"
    /\ UNCHANGED <<reports, job>>
ScanPosted ==
    /\ scanning = "posting"
    /\ \/ scanning' = "waiting" /\ job' = "running"
       \/ scanning' = "no" /\ job' \in {job, "running"}
    /\ UNCHANGED <<reports, result>>
JobDone ==
    /\ job = "running" /\ job' = "done"
    /\ UNCHANGED <<reports, scanning, result>>
ScanWaited ==
    /\ scanning = "waiting" /\ scanning' = "asking"
    /\ UNCHANGED <<reports, job, result>>
\* A failure shows no result.
ScanAnswered ==
    /\ scanning = "asking" /\ scanning' = "no"
    /\ \/ result' = IF job = "done" THEN "all" ELSE "part"
       \/ result' = result
    /\ UNCHANGED <<reports, job>>

Next ==
    \/ \E fs \in SUBSET Formats : fs # {} /\ Generate(fs)
    \/ \E f \in Formats : \/ Posted(f) \/ Poll(f)
                          \/ \E how \in Ended : ReportEnds(f, how)
    \/ AllPosted \/ AllReady \/ Reopen
    \/ Scan \/ ScanPosted \/ JobDone \/ ScanWaited \/ ScanAnswered

\* Requests are answered and pauses end; nothing is assumed of the backend.
Fairness ==
    /\ \A f \in Formats : WF_vars(Posted(f)) /\ WF_vars(Poll(f))
    /\ WF_vars(AllPosted) /\ WF_vars(AllReady)
    /\ WF_vars(ScanPosted \/ ScanWaited \/ ScanAnswered)
Spec == Init /\ [][Next]_vars /\ Fairness
-----------------------------------------------------------------------------
(* Properties *)

ReportTypeOK ==
    /\ modal \in {"configure", "generating", "ready"}
    /\ entry \in [Formats -> {"none", "posting", "created", "polling", "ready", "failed"}]
    /\ tries \in [Formats -> 0 .. MaxPolls]
    /\ report \in [Formats -> Ended \cup {"none", "working"}]
    /\ scanning \in {"no", "posting", "waiting", "asking"}
    /\ job \in {"none", "running", "done"}
    /\ result \in {"none", "part", "all"}

\* Neither dialog waits for ever, whatever the backend does.
DialogsEnd ==
    /\ modal = "generating" ~> modal # "generating"
    /\ scanning # "no" ~> scanning = "no"

\* Hazard: the count that is announced as the result of the scan is not.
WholeCount == result # "part"
=============================================================================
