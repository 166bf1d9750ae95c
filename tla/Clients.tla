------------------------------ MODULE Clients ------------------------------
(***************************************************************************)
(* The clients, each by itself: they share no state, so a behaviour is one *)
(* of the parts in motion and the others at rest.  The findings panel is   *)
(* extended, the others are instances.                                     *)
(***************************************************************************)
EXTENDS FindingsPanel, Sequences

CONSTANTS
    None,
    Reqs, MaxRotations,                     \* ClientAuth
    Calls, Items, Root, Dirs, Contained, Quota,  \* McpTools
    Commands, MaxCodePolls,                 \* VsCodeClient
    Requests, MaxDocPolls,                  \* DocPolling
    Formats, MaxReportPolls,                \* ReportModal
    Runs                                    \* DastPanel
VARIABLES
    part,
    cookie, valid, issued, api_, store, user, req, renew, page,
    tool, asking, attempt, todo, out, answer, blank, quota,
    token, at, polls, session, problems,
    card, handle, doc, ticking, docPolls, inflight, download,
    modal, entry, tries, report, scanning, job, result,
    run, output, post, scan, results, batch, dastPage, engine, kept

authVars     == <<cookie, valid, issued, api_, store, user, req, renew, page>>
toolsVars    == <<tool, asking, attempt, todo, out, answer, blank, quota>>
codeVars     == <<token, at, polls, session, problems>>
docVars      == <<card, handle, doc, ticking, docPolls, inflight, download>>
reportVars   == <<modal, entry, tries, report, scanning, job, result>>
dastVars     == <<run, output, post, scan, results, batch, dastPage, engine, kept>>
allVars == <<part, vars, authVars, toolsVars, codeVars, docVars, reportVars, dastVars>>

Auth     == INSTANCE ClientAuth WITH api <- api_
Mcp      == INSTANCE McpTools WITH Nothing <- None
Code     == INSTANCE VsCodeClient WITH NoCommand <- None, MaxPolls <- MaxCodePolls
Docs     == INSTANCE DocPolling WITH
                polls <- docPolls, NoRequest <- None, MaxPolls <- MaxDocPolls
Reports  == INSTANCE ReportModal WITH MaxPolls <- MaxReportPolls
Dast     == INSTANCE DastPanel WITH
                session <- run, shown <- results, page <- dastPage, NoRun <- None

\* The bounds are numbers, a command polls once at least, no run has null for its
\* id, and what GitHub holds is a tree.
ASSUME ClientsAssumption ==
    /\ MaxRotations \in Nat \ {0} /\ MaxCodePolls \in Nat \ {0}
    /\ MaxDocPolls \in Nat /\ MaxReportPolls \in Nat /\ Quota \in Nat
    /\ None \notin Runs
    /\ Mcp!Tree

Parts == {"panel", "auth", "tools", "code", "docs", "reports", "dast"}

AllInit ==
    /\ part \in Parts
    /\ Init /\ Auth!Init /\ Mcp!Init /\ Code!Init
    /\ Docs!Init /\ Reports!Init /\ Dast!Init
    \* One initial state of each part that is at rest.
    /\ part # "auth" => cookie = 0 /\ valid = {} /\ ~user
    /\ part # "tools" => quota = Quota
    /\ part # "code" => token
    /\ part # "dast" => output
-----------------------------------------------------------------------------
PanelMoves == part = "panel" /\ Next
    /\ UNCHANGED <<part, authVars, toolsVars, codeVars, docVars, reportVars, dastVars>>
AuthMoves == part = "auth" /\ Auth!Next
    /\ UNCHANGED <<part, vars, toolsVars, codeVars, docVars, reportVars, dastVars>>
ToolsMove == part = "tools" /\ Mcp!Next
    /\ UNCHANGED <<part, vars, authVars, codeVars, docVars, reportVars, dastVars>>
CodeMoves == part = "code" /\ Code!Next
    /\ UNCHANGED <<part, vars, authVars, toolsVars, docVars, reportVars, dastVars>>
DocsMove == part = "docs" /\ Docs!Next
    /\ UNCHANGED <<part, vars, authVars, toolsVars, codeVars, reportVars, dastVars>>
ReportsMove == part = "reports" /\ Reports!Next
    /\ UNCHANGED <<part, vars, authVars, toolsVars, codeVars, docVars, dastVars>>
DastMoves == part = "dast" /\ Dast!Next
    /\ UNCHANGED <<part, vars, authVars, toolsVars, codeVars, docVars, reportVars>>

AllNext == PanelMoves \/ AuthMoves \/ ToolsMove \/ CodeMoves \/ DocsMove \/ ReportsMove \/ DastMoves

\* The fairness of each part, asked of the part that moves.
Fairness ==
    /\ \A r \in Reqs : WF_authVars(part = "auth" /\ (Auth!Answered(r) \/ Auth!Refused(r)))
    /\ WF_authVars(part = "auth" /\ (Auth!Renewed \/ Auth!RenewalFails))
    /\ \A k \in Commands : WF_codeVars(part = "code" /\ Code!Advances(k))
    /\ \A r \in Requests :
        /\ WF_docVars(part = "docs" /\ (Docs!Requested(r) \/ Docs!RequestFails(r)))
        /\ WF_docVars(part = "docs" /\ Docs!Tick(r))
    /\ \A f \in Formats :
        /\ WF_reportVars(part = "reports" /\ Reports!Posted(f))
        /\ WF_reportVars(part = "reports" /\ Reports!Poll(f))
    /\ WF_reportVars(part = "reports" /\ Reports!AllPosted)
    /\ WF_reportVars(part = "reports" /\ Reports!AllReady)
    /\ WF_reportVars(part = "reports" /\
               (Reports!ScanPosted \/ Reports!ScanWaited \/ Reports!ScanAnswered))
    /\ \A r \in Runs :
        /\ WF_dastVars(part = "dast" /\ (Dast!Accepted(r) \/ Dast!Rejected(r) \/ Dast!PostLost(r)))
        /\ WF_dastVars(part = "dast" /\ (Dast!ScanEnds(r) \/ Dast!ScanFails(r)))
        /\ WF_dastVars(part = "dast" /\ Dast!Result(r))
    /\ WF_dastVars(part = "dast" /\ Dast!BatchCompletes)
    /\ WF_dastVars(part = "dast" /\ Dast!BatchSummary)

AllSpec == AllInit /\ [][AllNext]_allVars /\ Fairness
-----------------------------------------------------------------------------
(* Properties, each that of a module *)

\* The state of every client has its types.
ClientsTypeOK ==
    /\ FindingsTypeOK /\ Auth!AuthTypeOK /\ Mcp!ToolsTypeOK
    /\ Code!VsCodeTypeOK /\ Docs!DocTypeOK /\ Reports!ReportTypeOK /\ Dast!DastPanelTypeOK

\* client.ts, SecurityDocPage, DastRunSection: what waits has something to wait
\* for, so that the ends below are not a matter of luck.
WaitsAreServed == Auth!WaitersAreServed /\ Docs!CardIsServed /\ Dast!RunIsServed
\* client.ts: a request that is refused is sent a second time at most.
RequestsSettle == Auth!RequestsSettle
\* list_directory.ts: a listing lacks nothing but what could not be listed.
ListingComplete == Mcp!ListingComplete
\* extension.ts: the progress of the analyze command ends.
CommandsEnd == Code!CommandsEnd
\* SecurityDocPage, PdfReportModal, CommitSecretScanModal: no waiting for ever.
GeneratingEnds == Docs!GeneratingEnds /\ Reports!DialogsEnd
\* VulnDetailPanel, useDastStream, DastWorkspacePage: a run does not block the
\* buttons for ever, when neither its request nor its end was lost.
DastRunEnds == Dast!DastRunEnds
=============================================================================
