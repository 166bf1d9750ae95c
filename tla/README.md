# SecureAI Engine: verification project

This directory holds TLA+ models of the SecureAI Engine, the TLC
configurations that check them on small instances, and proofs that TLAPS
checks for every instance. Every definition was translated from the source
(`src/apps/...`); `PROJECT.json` maps each one to the lines it stands for.

## 1. The system

SecureAI Engine audits the source code of a project with an LLM pipeline,
tests running targets, proposes patches, and shows the result in a browser, a
phone, an editor extension and pull requests. Its parts:

* **backend** (`apps/backend`, Spring Boot): owns PostgreSQL (sessions,
  findings, users, projects, audit log) and Redis (pub/sub, locks, caches);
  offers REST and SSE to the clients and an internal API to the engine.
* **AI engine** (`apps/ai_engine`, FastAPI and LangGraph): runs the audits as
  background tasks, checkpoints the graph in PostgreSQL, publishes events on
  Redis and posts findings to the backend.
* **MCP server** (`apps/mcp_server`): file access for the engine, a subprocess
  per analysis.
* **clients**: `apps/frontend` (Next.js), `apps/android`, `apps/vscode_ext`.
* **dast_runner**, `infra`, `nginx`, `grafana`: images and configuration.

### 1.1 How the parts interact

```
 user --HTTP--> backend --HTTP (inside a transaction)--> engine routes
                  ^  ^                                      |
                  |  '--HTTP /internal (findings, logs)-----+  background task
                  |                                         |  (one per call)
                  '---- Redis pub/sub agent:progress:* -----'
 browser <--SSE-- backend (progress, DAST stream)
```

* The backend calls the engine from *inside* the transaction that changes the
  session row (`AnalysisService`), so the engine may answer, fail or start
  publishing before the row is committed.
* The engine answers through Redis Pub/Sub, which keeps nothing for an absent
  subscriber and whose messages `RedisSubscriber` handles concurrently.
* Findings come back through `POST /internal/.../vulnerabilities`
  (`VulnerabilityService.saveFromAgent`), in a transaction that locks the
  session row, while other transactions write that row back without a lock.
* All runs of a session share one cancel flag in the memory of the engine and
  one checkpoint in PostgreSQL.
* Dynamic tests (DAST) bypass the session row: the backend admits a target and
  delegates to the engine, whose tasks publish on a channel of the session that
  the engine's own SSE endpoint serves.
* Audited requests of the backend end in an aspect that appends to a hash
  chain; nightly jobs under ShedLock work on the same tables as the requests.

### 1.2 Components

Per component: the state it keeps (S), its operations (O), what it interacts
with (I), what is hard about it (H) and what makes it correct (C). The lines of
the hazards are in `PROJECT.json`.

**Analysis sessions** (backend, `domain/analysis`) - *modelled*: `SessionRows`.
S: `analysis_sessions` rows (status, `vuln_count`, timestamps; written whole,
no version column), `vulnerabilities` (unique by fingerprint), the state of the
circuit breaker `aiAgent`. O: start (forced or not), resume, confirm, cancel,
handle an event, interrupt all running sessions (scheduler), save findings.
I: calls the engine inside the transaction, is called back by Redis and HTTP.
H: stale full-row writes, some transactions lock the row and some do not, the
call is made before the commit, events race the commit. C: outcomes are those
the engine announced, counts never exceed what is stored, locks exclude, a
forced start interrupts only what runs, a live analysis ends recorded.

**Analysis runs** (engine, `api/routes`, `agent/graph_builder.py`) -
*modelled*: `EngineRuns`. S: one background task per accepted call, the dict
`_cancel_flags`, LangGraph checkpoints, the graph with or without
`interrupt_after`. O: accept analyze / resume / confirm / cancel, begin, one
node after another, post findings, the confirmation gate, finish, fail,
restart. I: events on Redis, findings over HTTP. H: tasks of one session
overlap and share flag and checkpoint, and the end of one takes several steps;
any step may raise, in or out of the
`try`; the process may die; the checkpointer may be missing. C: every task
says how it ended, a flag never outlives its tasks, asking for confirmation is
the last thing a task does, every task ends.

**Audit hash chain** (backend, `global/aop`, `AuditVerifyService`) -
*modelled*: `AuditChain`. S: `audit_logs` rows with `prev_hash`, a JVM lock,
row locks. O: draft, take the lock, choose the latest row, lock it, save,
commit, fail; verify. H: the JVM lock ends before the transaction does,
snapshots are older than lock waits, `created_at` is taken before the lock.
C: no gaps, a serial log verifies, the log never holds up a request.

**DAST runs and streams** (engine, `api/routes/dast.py`, `agent/nodes/dast`) -
*modelled*: `DastStream`. S: scans, batches with a semaphore, the result key,
the channel, SSE connections. O: start a scan or a batch, try, store, notify,
fail, complete a batch, subscribe, look at the key, receive. H: a stream may
subscribe before, during or after anything; one key for all scans and batches
of a session; Redis may fail between storing and publishing. C: completions
are true and come after the results, tries are used up, streams end.

**Account erasure** (backend, `domain/user`) - *partly*: `AccountErasure`.
S: accounts, reports, audit rows, the ShedLock. O: delete, expire, run the
nightly job page by page, record, erase reports, erase the account, crash.
H: `processOneUser` is called on `this`, so its steps are separate
transactions; the lock may end before the job; page 0 is fetched until empty;
rows of others (invitations, reports) refer to an account without a cascade.
C: no erasure without a record, a job that ends has left nothing due, everyone
deleted is gone in the end unless such a row stays.

**Scan pipeline nodes** (engine, `agent/nodes`) - *partly*: only positions,
in `EngineRuns`. S: stages, file cursor, findings, cache. O: one node each
(scan, plan, next file, cache check, SAST, validate, aggregate, patch, verify).
H: retry of failed audits, the cursor across stages, a cached file skipping
nodes. C: every planned file is audited once, and the loop ends.

**Pull request review and webhooks** - *not yet*. S: `PrReviewHistory`,
installation tokens. O: start from a webhook, finalise on the run's event.
H: the history row and the session row are finalised separately; the session
row stays RUNNING when the engine refuses. C: a review ends exactly when its
session does.

**Live event streams** (`SseEmitterService`, `AnalysisController.streamSession`,
`RedisSubscriber`, the page's `useSse`) - *modelled*: `EventRelay`, which
implements `EventFeed`. S: one emitter per session in a map, the threads of the listener, connections
with what is written to them, the hook's status, reader and timer. O: handle an
event (look up, send, complete, commit), serve a stream (check, replay or
subscribe), the emitter's callbacks; connect, read, end, break, reconnect,
switch. H: the listener's threads overtake each other between send and commit;
the callbacks of a replaced emitter remove the new one by key; the end falls
between check and subscribe; a connection is given up with events on it; a quiet
stream is cut by the proxy and opened again. C: what is seen is the followed
session's, once each, in the order of the sends; an end that is on record is
learned.

**The clients** (`apps/frontend`, `apps/mcp_server`, `apps/vscode_ext`): single
threads whose handlers are atomic up to an `await`. H, of all of them: answers
come late, in any order, or never, and are applied to what is there by then.

* *Analysis view* - *partly*: `AnalysisView`. S: `useSecureStore` (project, lock,
  spinner, followed session, plan, findings, patches), requests in flight. O:
  start (whole, selective, again from a toast), load of a project, history,
  context menu, confirm, events of the stream. C: one list at a time, a spinner
  stops when there is something to stop it. Left out: stage results, restored DAST results, the lists of sessions.
* *Login and requests* - *modelled*: `ClientAuth`, with the rotation of
  refresh tokens in `AuthService`. S: access token in `client.ts` and in the
  store, refresh cookie, requests, one shared renewal. C: every request settles
  after one second attempt at most.
* *Triage* - *modelled*: `FindingsPanel`. S: statuses in the list and in the
  backend, operations under way with their snapshots, loads with their answers.
  H: three of the four loaders show every finding as open. C: settled findings
  agree, but for those.
* *Documents, reports, secret scan* - *modelled*: `DocPolling`, `ReportModal`.
  S: intervals, bounded polls, cards. C: no waiting for ever.
* *Dynamic tests* - *partly*: `DastPanel`. S: the id of the run in the store, the
  views that are mounted, runs and batches of the engine. C: a run does not
  disable the buttons for ever. Left out: logs, results, selection of targets.
* *MCP server* - *modelled*: `McpTools`. S: calls, their attempts, the listing
  under way, the quota of GitHub. C: a listing lacks nothing but directories that could not
  be listed.
* *VS Code extension* - *modelled*: `VsCodeClient`. S: commands, their polls, the
  Problems tab. C: a command's notification goes away.
* *Chat, workspace, translation, account pages* - *not yet*: forms over single
  requests, and layout. H: a chat stream that ends without `done` leaves
  `isStreaming` set.

**Progress log** (`ProgressLogService`) - *not yet*: find-then-insert of one row
per step; a late "started" reopens a step.

**DAST admission and sandbox** (`domain/dast` of the backend) - *not yet*.
S: an hourly counter, a domain lock in Redis, containers. H: the lock is never
released, its TTL is shorter than a scan can be, the counter counts refusals,
a container that does not start is not removed. C: one scan per domain, no
container outlives its scan.

**Accounts and login** (`domain/auth`) - *partly*: the rotation of refresh
tokens, in `ClientAuth`. S: users, refresh tokens, sessions in Redis, one column
for two kinds of mail token. H: what is written before a throwing return is
rolled back with it; two tabs refresh at once. C: a rotated token is used once;
the counter counts what failed.

**Scheduling** (`NightlyScanService`) - *not yet*. S: schedules and their last
scan. H: it starts the engine for a session id that has no row. C: a scheduled
scan leaves a session that ends.

**Organizations and invitations; credits, plans and usage; patches; reports** -
*not yet*: database transactions with a check and a write (accept an invitation
once, a monthly limit read before a start and written after it, a patch applied
after it was verified, a report generated after its row committed).

**Left out**: LLM access and prompts, agent tools, the stateless engine routes,
infrastructure clients, evaluation, finding validation, the patch sandbox,
SBOM, compliance texts, dashboard, notifications, backup and cleanup jobs,
administration, filters, Android application, deployment, the drafts of screens
under `docs/design` and `frontend-refactoring`. They are I/O around a remote service, pure transformations of data,
single statements on a timer, or clients without a protocol of their own;
`PROJECT.json` gives the reason for each.

## 2. The modules

| module | models | extends |
|---|---|---|
| `AnalysisTypes` | statuses of a session, terminal events | |
| `SessionRows` | the backend, with an engine that may do anything | `AnalysisTypes` |
| `EngineRuns` | the engine, with a backend that may do anything | `AnalysisTypes` |
| `AnalysisSystem` | both, joined by calls, events and findings | both |
| `AuditChain` | the audit log | |
| `DastStream` | the dynamic tests of one session and their streams | |
| `AccountErasure` | deleted accounts and the nightly job | |
| `EventFeed` | what a follower of a session is promised | |
| `EventRelay` | emitters, connections and `useSse`; implements `EventFeed` | |
| `AnalysisView` | the editor's store and the hooks that change it | |
| `ClientAuth`, `FindingsPanel`, `DocPolling`, `ReportModal`, `DastPanel` | the other parts of the page | |
| `McpTools`, `VsCodeClient` | the MCP server, the VS Code extension | |
| `Clients` | `FindingsPanel`, `ClientAuth`, `McpTools`, `VsCodeClient`, `DocPolling`, `ReportModal` and `DastPanel` side by side, one of them in motion | `FindingsPanel`, instances of the others |
| `MC*` | instances for TLC | the module of that name |
| `*Proofs` | theorems and their proofs: `AuditProofs` of `AuditChain` and (as an instance) `AccountErasure`, `ClientsProofs` of `Clients` and its parts | the module of that name |

`SessionRows` and `EngineRuns` are each a model of one side with an arbitrary
other one: `SessionRows` lets messages, findings and the outcome of calls come as
they like, `EngineRuns` lets calls come as they like. `AnalysisSystem` conjoins
their actions (a call is one step of both), so that every behaviour of it is one
of each by construction; `AnalysisSystemProofs` uses that as two lemmas, to carry
the invariants over. What the composition adds is what neither side can promise
alone: outcomes traced to announcements, runs to rows, the gate.

### 2.1 `SessionRows`

A thread has at most one transaction open (`tx[w]`). Transactions are split
where another one can come between: the read, the call, the commit.

* `Start` / `StartInterrupts` / `StartSaves` / `StartFails`: `startAnalysis` with
  its guard and its list of running sessions; the conditional UPDATEs of a forced
  start, one listed session after another (each waits for the row lock, looks at
  the status again and keeps the lock); the insert and `markRunning`; a refused
  call rolls everything back. Two forced starts that wait for each other's rows
  end in `StartFails`: the database fails one.
* `Resume`, `Confirm`, `Cancel`: check the status, read the row *and thereby
  fix what the commit will write*, call. `CallReturns` / `CallFails` are the
  outcomes of the call; a failed cancel is swallowed by the code.
* `OnMessage`: `markCompleted` and `markError` always dirty the row,
  `markAwaitingConfirmation` only when it changes something; a message for a
  row that is not committed is ignored.
* `DetectInterrupted`: the scheduler writes every running row when the breaker
  is open.
* `SaveFindings`: row lock, filter by fingerprint, insert, increment of
  `vuln_count` in the database.
* `Commit` writes what was fixed at the read, waiting for row locks.
  `BackendRestart` rolls every open transaction back.

The database is READ COMMITTED with the snapshot at the statement; the absence
of `@Version` and `@DynamicUpdate` on `AnalysisSession` is why a commit writes
the whole row.

### 2.2 `EngineRuns`

A task (`run[r]`) moves through positions of the graph: scanned, planned, one
position per audited file, patched, end. `said` is a history variable of what
it published. A node's completion (`NodeDone`) checkpoints first, then the loop
of the route sees the event and looks at the cancel flag (`SeesCancel`,
`Advance`, `PatchEvent`). The confirm route's task is the graph compiled with
`interrupt_after`; it rewrites the checkpoint as the output of `planning_node`
(`BeginConfirm`) and registers its flag only when the MCP session is open
(`ClearFlag`): a cancel accepted in between is lost. The end of a task is two
steps, the last event (`EndSaying`) and the `finally` block (`DropFlag`), with the
closing of the MCP session between them, which is taken not to raise. A resume
that cannot read the checkpoint's gate goes on without one (`GoOn`). Differences of the three loops that matter
are kept: `patch_verify_node` may report `None`, which two loops skip and
`_run_confirm` passes to `dict.update` (`VerifyEventOfNone`); `_run_confirm`
announces nothing after its loop; two early returns leave the flag as it is
(`ResumeWithoutCheckpointer`, `ConfirmUpdateFails`). Faults: a node raises, the
checkpoint store is away at start-up or a read of it fails, the process restarts. Redis failing
inside a publication is not a fault of this module. LLM calls, file contents,
staging and tokens are data.

### 2.3 `AnalysisSystem`

`CallStart`, `CallResume`, `CallConfirm`: accepted by the engine and answered,
or accepted and the answer lost (fault "calls"). `CallRefused`: breaker, refusal
or unreachable. `Handle` delivers a published event to a thread that opens a
transaction; Redis messages of one channel are handled concurrently, so any
order of two of them is possible. `Report` / `ReportAnswered` are the posting
of findings from inside a node; a client that times out does not wait for the
transaction. `BackendDies` also loses what Redis had on the way. Requests of
users are arbitrary.

### 2.4 `AuditChain`

`append` in the phases of one REPEATABLE READ transaction: `TakeLock` (JVM),
`Choose` (its first statement, hence its snapshot: the committed log),
`LockRow` (waits while another transaction holds that row; the row was never
updated, so the wait ends with the row chosen before), `SaveAndUnlock`,
`Commit`, and `Fail` anywhere. A hash is the entry it was computed from (no
collisions). `Verifies` is `AuditVerifyService` over any listing by
`created_at` (ties are the database's to break). Rows that `GdprService` writes
without the aspect have no hash and take no part. The bytes that are hashed are
abstracted: that `created_at` is hashed as text with its offset is recorded as
a hazard, not modelled.

### 2.5 `DastStream`

A scan is queued, tries up to `MaxTries` times, decides, stores its result
(SETEX), publishes it; in a batch it holds one of `Concurrency` permits.
A batch stores and publishes its completion when every scan has ended. A
stream subscribes, looks at the key, then receives; `_is_terminal_message` and
`_is_terminal_cache` are `Terminal` and `TerminalCache`. `during` and `before`
are history variables. Two consequences of the design are visible in the
properties' premises: a batch stream that subscribes before a batch, but looks
only after its end, is given the completion and loses its inbox; a single scan
of the same session overwrites the batch's result.

### 2.6 `AccountErasure`

A job fixes the accounts that are due (`due`), takes pages of those that are
not gone, and for each account writes the audit row, erases reports through the
synchronous event listener and deletes the account, in three separate
transactions; a refused deletion is skipped. `Refused` is the database's: an
account cannot go while a row refers to it that its deletion does not take
along. Those are the organizations it owns and invitations to them (`Pinned`,
for good), reports by the account itself or by others on its projects
(`reports`; V035:3-4), and rows that go with somebody else's account and name this one
(`invited`: `invited_by` of team_members V005:6, org_members V023:6 and
team_invitations V025:8, `requested_by` of security_doc_requests V040:4).
Cascading rows go with the account. `LockExpires` is
`lockAtMostFor`, after a crash or (fault "late") under a job still running.
Not modelled: revocation of refresh tokens, the audit row and the mail of
`deleteAccount`, and the export. With the fault "audit" a row is swallowed and
an account may go without a record; `AuditedFirst` is about its absence.

### 2.7 `EventRelay` and `EventFeed`

`EventFeed` is the promise: a follower sees events of the session it follows
only, in the order in which they were relayed, each at most once and some
perhaps never, and is told of the end by a replay only when the row has said so.
It promises no order of relaying: `RedisSubscriber` handles each message on a
thread of its own with database work in between, and the engine itself may say
"error" after "completed", so an event may be relayed after an end, and an end
twice.

`EventRelay` is the code. A thread (`thr`) takes up an event of any type and looks
up the emitter (`TakeUp`), sends (`SendEvent`), and after an end completes whatever
emitter is in the map by then (`CompleteEmitter`), before its transaction commits
(`RecordEnd`) or fails (`HandlerFails`). `RowReopens` is an older copy written back,
or a late awaiting_confirmation. A connection has a server side (`srv`: asked,
checked, live, ending, over) and at most one is read by the page. `emitter` is the
map of `SseEmitterService`, which only knows the latest connection of a session;
`EmitterEnds` and `OnCompletion` are its callbacks, which remove by key. The
check of `streamSession` (`ReadStatus`), its replay (`Replay`) and `subscribe`
(`Subscribe`) are separate steps, since the events and the commit of the end fall
between them. `Broken` is any failure of the page's fetch or read, the proxy's
cut among them: nginx.conf:68 ends a stream after two quiet minutes, the emitter
after thirty, and the page opens another. Nothing bounds how often. Events are
numbers with a type; a payload that cannot be parsed is skipped by the code and
is not modelled. The substitution of the refinement is `following <- sse`; all
other variables have the same names. What was written to a connection that is
given up is lost on purpose: `EventFeed` promises order, not completeness.

### 2.8 `AnalysisView`

Every `await` splits a handler: what it asked is in `asked`, the rest of the
handler is the action that takes the answer. Two handlers that ask the same
kind of thing of the same session or project are one request; the answers are
what the backend may say then. `Follow` is `setSseSessionId` with the first
effect of `useSse` for it (open, or refused for want of a token). The session's
life (`phase`) is the backend's: it may end with an event ("completed", "error") or
be "stopped", cancelled or interrupted, which is announced by nothing the page
knows, and a resume begins it anew. The stream is only open or closed here. One
that breaks is "reconnecting", which leaves the spinner on, and stays "live": that
it shows an end sooner or later, once the row says it, is `EndIsLearned` of
`EventRelay`. Before that nothing says that it ends, and none is assumed.

### 2.9 The other clients

* `ClientAuth`: `tryRefresh` is one renewal for all that wait (`renew`,
  "shared"); `initAuth` and other tabs renew beside it. `FindToken` and `Rotate`
  are the two halves of `AuthService.refresh`, which reads the token without a
  lock. The revocation of all tokens when an old one is seen is rolled back by
  the exception that follows it, so it is not a step.
* `FindingsPanel`: `prev` is the snapshot an operation puts back, `applied` what
  the backend changed. A load is two steps, the backend's answer (`LoadRead`) and
  its arrival: `useLoadLatestResults` takes the statuses (`Reload`), while the
  event "completed" (`AppHeader:146`), the history (`AnalysisHistoryModal:163`) and
  the context menu (`AppSidebar:723`) write "open" (`ReloadOpen`). `tangled` is a
  history variable: the findings of which the list may say something else,
  because operations overlapped on them, an answer was lost, `applyPatch` changed
  the list alone, or the list was loaded wrongly (open while it was not, or from
  an answer older than an operation, `crossed`).
* `McpTools`: `Limited` is the retry of `getContents` and `fetchWithRetry`, which
  also throws away a good answer that says the quota is used up with it.
  `Entry` is one item of `buildEntries`, depth first. A directory that is answered
  with something that is no array is passed over without a mark
  (`list_directory.ts:122`): `blank` is the history of those. The tree is taken not
  to move during a call, as that of a commit does not; of a branch that moves
  between two requests, only that a path is no directory any more is modelled.
* `VsCodeClient`: both commands, against the backend the extension expects; the
  real one answers otherwise (5), which here is `RequestFails`.
* `DocPolling`, `ReportModal`: intervals and loops with their bounds. A dialog of
  `ReportModal` that is opened again is a new component.
* `DastPanel`: the stream is open while the view that shows it is mounted
  (`Streaming`, `page`). A result is kept for five minutes (`Expires`), a failure
  is told to open streams only (`ScanFails`).

## 3. The runs

Every run is `tlc -config <cfg> <module>`. "Faults" lists what may go wrong.

| run | instance | checks |
|---|---|---|
| `engine_runs` | 1 session, 2 overlapping tasks, 2 files; node, postgres, restart | `EngineTypeOK`, `NoStaleFlag`, `NoSilentEnd`, `AskingIsAllItDoes`; `RunsEnd` |
| `session_rows` | 3 sessions of a project, 2 open transactions, 1 finding; any engine | `RowsTypeOK`, `CountNeverExceeds`, `LocksAreExclusive`; `StartInterruptsRunningOnly` |
| `system` | 1 session, 1 requester and 2 listeners, 2 tasks, 1 finding; calls, backend, circuit, restart | `OutcomeWasAnnounced` |
| `system_fair` | 1 session, 1 requester, 1 listener, 2 tasks; circuit, node; fair | `NoOrphanRun`; `RunningSettles` |
| `audit_chain` | 3 requests, clock up to 2; failures anywhere; fair | `EntriesAreRooted`, `SerialLogVerifies`, `NoCircularWait`; `AppendsEnd` |
| `dast_stream` | batches of 2 and 1 scans, 1 stream; raise; fair | `ResultsPrecedeCompletion`, `NobodyIsForgotten`; `BatchStreamsEnd` |
| `dast_redis` | a batch and a single scan of one session, 2 tries; raise, redis, ttl | `CompletionIsTrue`, `TriedEnough` |
| `erasure` | 2 accounts, pages of 1, 3 rows that refer to them, 2 jobs, 1 crash; late; fair | `AuditedFirst`; `NothingIsLeft`, `DeletedAreErased` |
| `event_relay` | 2 sessions, one of them with events, 2 connections, 2 threads of the listener with an event of any type each; fair | `FollowedOnce`; `FeedSpec`, `EndIsLearned` |
| `analysis_view` | 2 projects with a session each, 2 clicks, 2 requests in flight; fair | `ViewTypeOK`, `OneListAtATime`; `SpinnerEnds` |
| `clients` | see below; fair | `ClientsTypeOK`, `SettledAgrees`, `ListingComplete`, `WaitsAreServed`; `RequestsSettle`, `CommandsEnd`, `GeneratingEnds`, `DastRunEnds` |

`Clients` puts seven clients side by side; `MCClients` gives it 2 findings with the
bulk bar, a row and a load (`FindingsPanel`); 2 requests and 3 refresh
tokens (`ClientAuth`); 2 calls, directories down to the depth limit and a quota of 3 (`McpTools`); 2 commands
(`VsCodeClient`); 3 clicks (`DocPolling`); 2 formats (`ReportModal`); 2 runs and
batches (`DastPanel`). They share no state, so nothing is lost by moving only
one of them in a behaviour (`part`, chosen at the start), and the states add up
instead of multiplying.

What they show, in words:

* `engine_runs`: whatever two tasks of a session do to each other through the
  shared flag and checkpoint, each accepted task ends and says how, and no flag
  is left to stop a later one while the checkpoint store is up.
* `session_rows`: the stale full-row writes never make `vuln_count` exceed what
  is stored (they can make it too small, see 5), row locks exclude, and a
  forced start interrupts only running sessions of its project, though others
  confirm, end or are cancelled between its UPDATEs.
* `system`: COMPLETED, ERROR and AWAITING_CONFIRMATION in the database were
  each announced by a task of that session, through lost calls and restarts.
* `system_fair`: while calls are answered, no engine task works for a session
  without a row or an open start, and a session whose live analysis still has
  its outcome to announce leaves RUNNING. The premises of `RunningSettles`
  are what the code needs: with a transaction open, the commit of `confirmPlan`
  may write RUNNING over an outcome handled before it, and nothing moves the
  session again.
* `audit_chain`: failing appends leave no gap and hold nothing up, and a log
  whose entries were appended one after the other verifies. The two kinds of
  lock, of the JVM and of the rows, are never waited for in a circle.
* `dast_stream`: a batch stream opened at any moment ends once there was a
  batch, and one that listened before the batch has heard every result when it
  is told of the end. A stream that still waits when all is over has the
  completion before it, in the key or in its inbox.
* `dast_redis`: whatever Redis loses, nobody is told of an unfinished batch,
  and no scan gives up early.
* `erasure`: with jobs overlapping and dying, no account is erased without a
  record, and a job that ends has left nothing it found due. Accounts that are
  skipped because rows of others name them come back on page 0, and are erased
  once those others have gone. The premise (`NobodyStaysHeld`) is that no expired
  account stays held: a member's invitation or report that stays keeps the job
  running without end, and two expired accounts that name each other keep both
  (`MCErasureBlocked`).
* `event_relay`: with threads overtaking each other, emitters replaced, timed out
  and removed by key, and the page switching and reconnecting, no event comes
  twice, out of the order of the sends or for another session. The page never
  reads two streams.
  A page that follows a session does not miss for ever that
  its row says it is over, though its stream may be deaf to the event: a quiet
  stream is cut, by the proxy or at last by the emitter's timeout, and the next
  one replays the end. The only excuse is a network that breaks streams that are
  not quiet again and again. For a session whose row stays open (its process
  died, its event was lost) the page waits for ever; no property says otherwise.
* `analysis_view`: whatever answers meet, a list is never mixed of two sessions.
  A spinner stops that waits for a start, or whose stream has an end to show,
  unless the page follows a session by then that has none. A session that is
  cancelled or interrupted has none.
* `clients`: the list of findings agrees with the backend after partly skipped
  bulk operations, though other operations or loads are under way beside them;
  the findings it may be wrong about are those named in 2.9, and no others;
  requests settle after a renewal that fails, is overtaken or is
  lost; a listing interrupted by the rate limit lacks the items of a directory
  only when that could not be listed, which has a mark unless GitHub's answer was
  no list; commands,
  cards and dialogs stop waiting although nothing is assumed of the backend;
  and a dynamic test frees the buttons unless the engine never had it or
  nothing is left of its end.

### 3.1 Bounds

| bound | why it is enough |
|---|---|
| 2 tasks (`Runs`), each used once | every defect of shared flag and checkpoint is between two tasks; the theorems cover any number |
| 1-2 files | a position inside the audit and one at its end; the flag is looked at alike at each |
| 2-3 threads | a lost update needs a reader and a writer; the third is the second listener of one session |
| 1 finding | an increment and its loss; counting more is `Cardinality` of a set, which the proof covers |
| 3 audit requests, `MaxTime` 2 | a predecessor, and two that compete for it; equal, earlier and later times |
| 3 scans, 1 stream | a batch with an inner interleaving and another one after or beside it |
| `MaxTries` 1 or 2 | 2 where tries are counted, 1 where the message order is the question |
| `BatchSize` 1 of 2 accounts | two pages, and one that is fetched again after a refusal |
| `MaxRows` 3 | a row by somebody else, one by the account, one between two that are both due |
| `MaxCrashes` 1 | one crash between any two steps; `erasure` then needs the next night's job |
| 2 sessions, 2 connections, 2 threads, `MaxEvents` 1 | an old stream and a new one, of one session or of two; a thread begins while fewer events than that were sent, so two may be on their way at once and overtake each other. The theorem covers any number. Connections break without bound |
| 3 sessions of a project, one of which is reported on (`OneIsReportedOn`) | the new one of a forced start and two that it interrupts one by one |
| 1 load, `MaxPending` 2 | two operations that overlap, or a load and the operation it crosses; more at once are covered by the theorem |
| `MaxClicks` 2, `MaxAsked` 2 | a loading and a second intent that meets its answers; answers and events are not bounded by them |
| `MaxTangled` 1 | one finding tangled and one that must not be; the theorem covers any number |
| `MaxRotations` 3 | the cookie at hand, one that overtakes it, and one that overtakes that |
| `Quota` 3 | listings limited at any of their requests, in any window |
| `MaxPolls` 1 or 2 (for 10 to 60 in the code) | the last poll and one before it |

Counters of the code (retries, pages) are modelled exactly; the only
artificial bounds are `Runs`, `Requests`, `MaxTime`, `Scans`, `Jobs`,
`MaxCrashes`, `MaxRows`, `MaxEvents` and those named `Max...` in the modules of the
clients. Symmetry (threads of a kind, tasks) is used only in the runs
without liveness. Deadlock is not checked: every instance comes to rest when
its tasks, requests or scans are used up.

### 3.2 Fairness

* `EngineFairness`, `DastFairness`: weak fairness of each background task and
  connection: asyncio serves every ready coroutine, and calls of the engine to
  the backend have a timeout.
* `SystemFairness`: weak fairness of the threads with an open transaction, of the
  engine's tasks with the answers they wait for, and of delivery (Redis delivers
  to a connected subscriber), each as a kind: some of them goes on as long as one
  can. Nothing is assumed of users, the breaker or faults.
* `AuditFairness`: weak fairness of each append. `ReentrantLock` is unfair; with
  finitely many requests that makes no difference, and the model has finitely
  many.
* `ErasureFairness`: time passes for deleted accounts, the lock of a dead job
  ends, some job is started whenever one can be (each night), and a running
  job's thread is scheduled. No fairness for crashes, deletions or requests.
* `Fairness` of `EventRelay`: requests are served, completed emitters are dismissed,
  the page's event loop runs, a timer that is set fires, and a stream on which
  nothing comes is broken or ends: the proxy cuts it after two minutes
  (nginx.conf:68), without a proxy the emitter times out after thirty. Which of
  the two it is is left open. Nothing is assumed of the listener, the session,
  faults or the user.
* `Fairness` of the clients: `fetch` settles, `setTimeout` and `setInterval` fire.
  The backend's work is not assumed to end, with one exception: scans and
  batches in `DastPanel` (which end, `DastStream`, or fail). `AnalysisView` assumes
  that a stream whose session has ended shows the end or closes (`Over`, which
  `EndIsLearned` justifies), and nothing of one whose session has not. Nothing is
  assumed of the user.

## 4. The proofs

TLAPS proves, for every value of the constants that satisfies the named
`ASSUME`s (`EngineAssumption`, `RowsAssumption`, `SystemAssumption`,
`AuditAssumption`, `DastAssumption`, `ErasureAssumption`, `RelayAssumption`,
`ViewAssumption`, `ClientsAssumption`):

| module | invariant proved inductive | theorems |
|---|---|---|
| `EngineRunsProofs` | `EngineInv` | `EngineTypeCorrect`, `FlagsAreNeverStale`, `NoTaskEndsSilently`, `AskingEndsTheTask` |
| `SessionRowsProofs` | `RowsInv` | `RowsTypeCorrect`, `FindingsAreNeverOvercounted`, `RowLocksAreExclusive`, `ForcedStartSparesTheRest` |
| `AnalysisSystemProofs` | `SystemInv`; `TxTraced`, `RunsTraced` | `ComponentsStaySafe`, `OutcomesAreAnnounced`, `NoRunIsOrphaned` |
| `AuditProofs` | `AuditInv`, `SerialInv`, `OneHolder`; `ErasureInv` | `AuditTypeCorrect`, `EntriesStayRooted`, `SerialLogsVerify`, `AppendsNeverDeadlock`; `ErasureTypeCorrect`, `ErasureIsOnRecord`, `JobLeavesNothing` |
| `DastStreamProofs` | `DastInv`; `StreamInv`; `KeyTells`, `NoneForgotten` | `DastTypeCorrect`, `CompletionsAreTrue`, `EveryScanTriesEnough`, `ResultsComeBeforeCompletion`, `NoCompletionIsMissed` |
| `EventRelayProofs` | `RelayInv`; `Served` | `RelayTypeCorrect`, `RelayImplementsFeed`, `StreamsAreFollowedOnce` |
| `AnalysisViewProofs` | `ViewInv` | `ViewTypeCorrect`, `ListsAreOfOneSession` |
| `ClientsProofs` | `ClientsInv` (`PanelInv`, `ListingInv`, `AuthInv`, `CodeInv`, `DocInv` and types) | `ClientsTypeCorrect`, `PanelAgrees`, `ListingsAreComplete`, `WaitsStayServed` |

Why the invariants are stronger than the properties:

* `EngineInv`: a task that ends silently after the loop of `_run_confirm` must
  have announced completion at `patch_node`; so `TaskOK` relates a task's
  position to what it has said *so far*. `NoStaleFlag` is inductive only with
  the types: a flag falls with the first of the tasks of a session that ends.
* `RowsInv`: what a transaction will write is fixed before it commits, so the
  invariant speaks of open transactions: the count each carries is covered by
  the stored findings and those it inserts itself (`Counted`; findings are
  never removed, so staleness only lowers it), and the rows a forced start is
  about to interrupt are locked by it and still running (`InterruptsRunning`).
* `SystemInv`: both, and that what is on the channel or about to be written was
  announced (`Announced`): an outcome travels from a task through Redis and a
  transaction, possibly through the stale copies of other transactions, into
  the row.
* `TxTraced`, `RunsTraced`: no transaction writes a row away, all but a start
  work on a row that is there, and the start whose run the engine works on has
  its answer, so it can only be committed. That needs every call answered and
  the backend up: the theorem assumes `SystemFaults` without "calls" and
  "backend", and with them the property is false (a lost answer rolls the start
  back while its run goes on).
* `AuditInv`: a predecessor that was *chosen* is committed already
  (`PrevIsCommitted`), and committed entries stay.
* `SerialInv`: while no append has met another, at most one is pending, it is
  younger than the log, the times in the log differ, and whatever is chained
  follows the youngest of the older entries (`LogIsChain`). A listing by time
  leaves out no entry (an injection between sets of the same finite size), so
  the entry before is the one chained to.
* `OneHolder`: the JVM lock is held from `TakeLock` to `SaveAndUnlock`, by one
  append. Who waits for it waits for an append that waits for a row at most; and
  who holds a row waits for nothing any more.
* `DastInv`: a completion at hand anywhere (the key, an inbox, what a client
  has read) is of a batch that is over (`ToldIsOver`), a batch that is over has
  gathered its scans (`OverIsGathered`), scans start only in a batch that was
  started (`BatchWaits`), and a scan still running may try again (`MayTry`).
* `StreamInv`: a stream that listens since before the batch has each result
  published so far at hand, and wherever the completion stands in its inbox the
  results stand before it (`ResultsComeFirst`); a closed stream does not change,
  nor do the scans of a batch it was told is over.
* `KeyTells`, `NoneForgotten`: what the key holds when no batch has results left
  to store is a completion, because a scan that stores belongs to a batch that
  runs. So a stream that subscribes after the last publication finds one at its
  look, and one that subscribed before it was sent it.
* `ErasureInv`: the account in work is on record when its reports or the
  account itself are next (`WorkIsAudited`).
* `RelayInv`: unread events wait on the stream the page reads and on no other
  (`OneQueue`), that stream was opened for the session it follows
  (`ReaderFollows`), and what waits on it increases, is later than what was seen
  and was relayed, or is a replayed end that the row has (`QueuesInOrder`). No
  order of the threads is assumed: an event gets its number when it is sent, and
  may be sent after an end. What keeps the order is that a thread sends to the
  emitter it looked up, that this emitter is of the event's session
  (`HeldForSession`), and that a page opens no stream while it reads one. Then each
  step is one of `EventFeed` or a stutter: reading is `See` or `Tell`, sending is
  `Relay`, `RecordEnd` is `Record`.
* `Served`: a page that follows a session has its timer or a stream; with
  `RelayInv` (a stream it reads is for that session and was asked for) it has
  just one of them.
* `ViewInv`: the list is mixed only if two places in it are of two sessions. A
  finding is its session and its number there, and its number is its place
  (`InPlace`), whichever answer filled the list and whatever came before it.
* `ListingInv`, for the calls of `McpTools`: every item of a directory that was
  answered is still to be listed or has its line (`NothingForgotten`), a line
  comes after that of its directory (`DirectoryFirst`), an item is at one place
  only, in the list of what is to be done or in the answer (`ListedOnce`), a
  directory is asked for once it has its line (`AsksInOrder`), and the
  depth asked with is that of the directory in the tree (`DepthsAreLevels`), so
  that only what is below the limit is not asked for. A directory whose request
  GitHub answered with no list (`blank`) is passed over without a line of its
  own, and its items are not promised. At the end nothing is to be listed any
  more. It needs `Tree`: a path of GitHub is in one directory, once.
* `AuthInv`, `CodeInv`, `DocInv`: the types of the login need that nobody holds a
  refresh token that was not issued yet, those of the extension that it polls
  only before its deadline, those of a card that every answer under way has its
  tick.
* `PanelInv`: an operation that is the only one on an untangled finding knows
  what to put back: its snapshot is the backend's status, until the backend has
  applied it (`CanTakeBack`). The snapshots of finished operations are reset
  (`IdleKnowsNothing`). And the answer of a load still says what the backend has,
  except for findings an operation has changed since (`AnswersHold`), which are
  those the load `crossed`.

Five theorems are the safety half of a liveness property: what waits always has
something to wait for, which fairness then brings about.

| theorem | states | so that |
|---|---|---|
| `NoTaskEndsSilently` | a task that ended has said how | `RunsEnd` is heard |
| `AppendsNeverDeadlock` | while appends are pending, one of them can go on | `AppendsEnd` |
| `NoCompletionIsMissed` | a batch stream that waits when all is over has a completion at hand (no lost wake-up between the key and the channel) | `BatchStreamsEnd` |
| `StreamsAreFollowedOnce` | a page that follows has one timer or one stream | `EndIsLearned` |
| `WaitsStayServed` | a request waits for a renewal under way, a card for a request or an interval, a run for its answer or its end | `RequestsSettle`, `GeneratingEnds`, `DastRunEnds` |

Only model-checked: the liveness itself (`RunsEnd`, `RunningSettles`,
`AppendsEnd`, `BatchStreamsEnd`, `DeletedAreErased`, `EndIsLearned`,
`SpinnerEnds`, `RequestsSettle`, `CommandsEnd`, `GeneratingEnds`, `DastRunEnds`),
which is out of the prover's reach. The other way round, the types of
`AuditChain`, `DastStream`, `AccountErasure` and `EventRelay` are theorems that no
run repeats. Every invariant and every other property
that a passing run checks is a theorem, `NobodyIsForgotten`, `NoOrphanRun` and
`ResultsPrecedeCompletion` under the same conditions as in the runs.

## 5. Where the code and its documentation disagree

One run is expected to be violated; it checks what a comment of the repository
says (the quotations are under `findings`):

| run | property | what TLC finds |
|---|---|---|
| `system_gate` | `GateIsKept` | a gated session stops at its plan, is marked interrupted while the breaker is open, and is resumed: `_run_resume` (`analyze.py:236`) goes on past the gate without a confirmation |

Further configurations, kept beside the runs. Each ends with the violation
named, for the reason given:

| cfg (module) | property | what TLC finds |
|---|---|---|
| `MCRowsCount` (`MCSessionRows`) | `CountIsExact` | `confirmPlan`, `resumeSession`, `cancelSession` or an event read the row, `saveFromAgent` increments `vuln_count`, the former writes the old count back |
| `MCAuditFork` (`MCAuditChain`) | `ChainNeverForks` | two appends get the same predecessor: the lock is released before the commit, and the snapshot is older than the wait |
| `MCErasureBlocked` (`MCAccountErasure`) | `JobEnds` | an account that somebody else's report or invitation names (or that owns an organization) cannot be deleted; while that row stays, page 0 never becomes empty and the job runs on |
| `MCEventRelayDeaf` (`MCEventRelay`) | `NoDeafStream` | a page reads a stream whose emitter is not in the map: the end came between check and subscribe, or the callbacks of an older emitter removed it (`SseEmitterService:26`) |
| `MCEngineResult` (`EngineRuns`) | `ResultStands` | `confirm.py:236` passes the `None` of `patch_verify_node` to `dict.update`: "error" follows "completed". `analyze.py:147-150` explains why its own loop skips `None` |
| `MCSystemConfirm` (`MCAnalysisSystem`) | `ConfirmedOnce` | two confirmations pass the check of `AnalysisService:190` before either commits, although the comment at `:185` says it prevents that |
| `MCRowsTwoRunning` (`MCSessionRows`) | `OneRunningPerProject` | two starts pass `AnalysisService:44`; `ErrorCode.java:41` and `docs/12_API_SECURITY_CHECKLIST.md:107` promise a refusal |
| `MCAuditOrder` (`MCAuditChain`) | `ChainFollowsTime` | `created_at` is taken at `AuditLogAspect:59`, before the lock: a chain in the order of the locks is verified in the order of the times |
| `MCDastError` (`MCDastStream`) | `SingleStreamsEnd` | a scan that raises is announced on the channel once and stored nowhere (`dast.py:275`): a stream opened afterwards waits for good, although `dast.py:304` and `:369` mean to cover it |
| `MCDastStale` (`MCDastStream`) | `StreamOutlivesBatch` | the completion of the last batch is still in the key (`dast.py:242`), and a stream opened for the next one ends at its look (`dast.py:292` says it does not) |

The modules of the clients also state what does *not* hold there (below
"Hazards" or "Properties", in no configuration; each is violated when added to
that of its module):

| module | property | why |
|---|---|---|
| `AnalysisView` | `NoGhostSpinner` | a confirmation answered after the stream has ended turns the spinner on |
| | `PlanOfFollowed` | the dialog keeps its plan when another session is followed, and confirms that one (`PlanConfirmModal:72`) |
| | `OneStart` | the toast's button starts whatever is under way (`useStartAnalysis:108-118`) |
| | `LockedListStays` | a load asked for before the history is answered after it; `useSecureStore.ts:156` says the lock suppresses it |
| `ClientAuth` | `CookieKeepsUp` | another tab, or `initAuth` beside `tryRefresh`, rotates the cookie a renewal is on its way with: the tab is signed out |
| | `NoTokenAfterLogout` | a renewal that is answered after the logout puts its token into `client.ts` |
| `DocPolling` | `IntervalsKnown`, `DownloadIsLast` | a second request forgets the first one's interval, whose answer ends the second's |
| `ReportModal` | `WholeCount` | the scan's count is read once, after three seconds (`CommitSecretScanModal:57-63`) |
| `DastPanel` | `LostRunEnds`, `OwnResetOnly` | a `fetch` that throws leaves the run's id; a late refusal resets whatever run there is |

Three things the page cannot get right, which its properties therefore exclude.
A session that is cancelled or interrupted announces nothing the page knows
(`useSse` has a case for "completed" and one for "error"), so a spinner that follows
it keeps turning. While a session's row stays open (its process died, its event
was lost) nothing tells the page that it is over, however often its stream is cut
and opened again. And a list loaded by `ReloadOpen` shows a dismissed finding as
open until it is loaded with its statuses.

Where no property is needed to see it: the VS Code extension reads answers the
backend does not give (`data` is not unwrapped, statuses are lower-case, no
`projectId` is posted, there is no `/sessions/{id}/vulnerabilities`); the comment
tool of the MCP server reports a failure without `isError`; `AuthService:139`
revokes in the transaction its own exception rolls back.

## 6. The plan

Done, in this order: `EngineRuns`, `SessionRows`, `AnalysisSystem` (the core),
`AuditChain`, `DastStream`, `AccountErasure`, `EventRelay` with `EventFeed`,
`AnalysisView` and the other clients, and the proofs of section 4.

Next, in the order of what matters most:

1. `ScanPipeline` - the engine's graph by its nodes: stages, cursor, cache,
   retry; refines the positions of `EngineRuns` (`ScanPipeline => EngineRuns`'
   `Advance`). Properties: every planned file is audited or reported as failed,
   once; the loop ends. Theorem: the cursor never passes what was not audited.
2. `StartPaths` - the other two ways into the engine beside `startAnalysis`:
   the nightly scan (no session row) and the webhook (row committed as RUNNING
   when the engine refuses), with the finalisation of pull-request reviews;
   extends `SessionRows`.
3. `DastAdmission` - an hourly counter that also counts refused starts, a domain
   lock that nobody releases, containers that do not start and are not removed.
4. `MailTokens` and failed logins - one column for two kinds of token, a counter
   that is rolled back with the exception.
5. The progress log's upsert; invitations, usage limits, report generation: one
   check-then-write each.
6. `EventRelay` composed with `SessionRows` (whose `OnMessage` is its `RecordEnd`) and
   with `AnalysisView` (whose stream is its promise).

Abstract specifications worth adding: `SessionLedger`, the life of a session as
its user sees it, implemented by `SessionRows` without the stale writes; a log
that grows at its end, implemented by `AuditChain` for serial appends; a stream
that delivers all results and then the completion, implemented by `DastStream`.

Proofs worth adding: the refinement of `ScanPipeline`, and those of the abstract
specifications above.

The runs are kept few: when a module of the plan arrives, violation runs that
are documented above become further configurations to make room.

### 6.1 Not modelled

* The larger part of the TypeScript is layout: JSX with its styles, formatting,
  tables and forms over a single request, and drafts of screens
  (`docs/design`, `frontend-refactoring`). There is no state in it that two steps
  could disagree about. So the map covers the hooks, the store's setters and the
  handlers, and few of the lines around them; the core of the system is Java and
  Python.
* `useChat`, `useWorkspace` and `useTranslate`, the pages of the account, billing,
  members and onboarding: requests with one answer each.
* What a model call, a SAST program, a container or GitHub answers: data.
* The hash's text format in the audit log, mail, push and Slack.
