# Formal model of the Code Explorer server and its neighbours

The repository holds several tools. The one with most state, concurrency,
timeouts and failure is the **Code Explorer** (`packages/code-explorer`), a server
that lets MCP clients and browsers navigate a code base through language servers.
Two others share state between processes or with people: the **OpenSpec
dashboard** (`tools/openspec-dashboard`), which replaces itself and runs Code
Explorers, and the **closure helper** of dod-guard
(`plugins/dod-guard/skills/complete-pr/scripts/lib/closure-*.mjs`), which writes to
GitHub call by call. This directory models them in TLA+, checks them with TLC on
small instances and proves most of their safety with TLAPS for every value of the
constants. Paths below are relative to `packages/code-explorer/src` unless they
begin with another top-level directory.

## 1. Inventory

| Component | State | Operations | Talks to |
|---|---|---|---|
| Navigation sessions (`navigation/session-*.ts`) | sessions by id, each with retained requests, views, stale ids, history and position, a promise chain; two process-wide counters | start, execute, close connection, expiry, add view, restore, resolve handle | called by every tool call; holds backend work in its chain |
| Server calls (`server/*.ts`) | none of its own; captures the generation before waiting | focus, follow, history, search, landmarks, status, refresh | sessions, freshness, discovery, semantic backends |
| Workspace freshness (`freshness/*.ts`) | status, next generation, manifest, one reconciliation in flight, coalescing and poll timers, watcher | start, schedule, reconcile, close | files on disk; publishes the generation that sessions check |
| Project generation scheduler (`freshness/project-generation-scheduler.ts`, `server/server-refresh.ts`) | a promise tail, the refresh in progress | accept, refresh | freshness runtime, semantic adapters, discovery |
| Backend request limiter (`navigation/backend-request-limiter.ts`) | running and queued counts per backend | run with a timeout | wraps every backend call |
| Root access gate (`semantic/project-root/*.ts`) | gate state, monitor timer | check, handle loss, handle recovery | shuts down and starts the semantic adapters |
| Backend runtime (`semantic/runtime/*.ts`) | lazy adapters, the start in progress | start, refresh, query, shutdown | direct LSP clients |
| Direct LSP client (`semantic/direct-lsp/*.ts`) | process, pending requests, restart counters, timers | start, query, cancel, restart, shutdown | one child process |
| Discovery (`discovery/*.ts`) | indexed documents of one generation | search, landmarks | read by server calls |
| Process lifecycle (`stdio-lifecycle.ts`, `runtime-main.ts`, `semantic/workspace/owned-resources.ts`, `service-root*.ts`) | closing promise and signal count; owned children and temp roots; marker files on disk | start and sweep, spawn, make and release a root, close with a budget, second signal, crash | everything above; other processes through the temp directory |
| Browser server and client (`browser-server/*.ts`, `browser/*.ts`) | browser sessions over core sessions | create, call, expire | sessions |
| OpenSpec dashboard (`tools/openspec-dashboard`) | the owner file; per process: what it claims, whether it admits launches, the runtimes it runs | claim, release, launch, resolve, shutdown | other dashboards through the file and the shutdown route; Code Explorer runtimes in its process |
| Closure helper (dod-guard) | none of its own between runs; issues, comments and Project items on GitHub | snapshot, plan, write | GitHub, which people and other commands edit at the same time |
| Rest of dod-guard, fossil, knowledge base, quality guard (`plugins/`, `packages/`) | none shared between requests | classification, scoring, scanning, formatting | issue texts, repositories, an external store |

### Behaviours that are hard to test

* **Sessions.** Work of a session is a chain of promises, and a session can be
  deleted (expiry, closed connection) while its chain still runs. Making room
  for one session's view edits the history of another. A retry of a
  `request_id` can meet its original queued, running, answered, expired or
  trimmed. Correct means: a retry never runs twice, queue slots are neither
  leaked nor released twice, history, position and view map agree after any
  eviction, the shown view never disappears, an evicted view is stale, the
  counted bytes are the retained bytes, and every accepted request settles.
* **Freshness.** Files are saved while a reconciliation hashes them one by one;
  a watcher event, a poll, an explicit refresh and `close()` meet the single
  reconciliation in flight. Correct means: a generation is published only from
  a workspace that existed as a whole, generations only grow, the status says
  "refreshing" exactly while somebody works on a pending generation, saves
  become visible, a refresh that answers "ready" has what was saved before it.
* **Scheduler.** Every request of the process waits behind a refresh. Correct
  means: neither a failing backend nor a workspace that keeps changing blocks
  the queue.
* **Backend runtime, direct LSP.** Callbacks of a replaced process, restart
  timers, shutdown during start. Correct means: every query and shutdown settles,
  no process is left without an owner, a late callback revives nothing.
* **Root gate and lazy adapters.** Several checks, starts and refreshes await at
  once while the root disappears and returns. Correct means: a backend is built
  once, a gate that refuses calls has no running backend behind it, a lost root
  stays lost, an inaccessible root is looked at again.
* **Process lifetime.** Processes are closed, crash and are killed while they
  create children and temp directories; the next one cleans up by pids that may be
  in use again. Correct means: what a live process owns is never removed, and a
  process that exits leaves nothing.
* **Dashboards.** Two processes replace each other through one file and can crash
  between any two operations on it; a manager admits, reuses, evicts and closes
  runtimes with an `await` at every step. Correct means: the prior one stops
  admitting first, runtimes stay bounded and one per project, and shutdown leaves
  none, as far as their closes resolve: one that is rejected is given up.
* **Closure.** A run stops between any two calls and is repeated, and people edit
  the issues meanwhile. Correct means: one evidence comment per issue, parents
  close after their sub-issues, repeated runs finish the job.
* **Browser.** Capacity checked before an await and used after it.

`PROJECT.json` lists these hazards line by line with the properties that cover
them, and why no property covers the others.

## 2. What is modelled

### `Sessions.tla`: navigation sessions and the calls that change them

JavaScript runs each handler to completion. A handler with loops is a sequence
of steps under the variable `turn`; while a turn is under way only its own
steps are enabled, so nothing interleaves with it. Waiting for a backend is
where a turn ends in the middle of a request.

| Model | Code |
|---|---|
| `session[s]`, `live` | `runtime.sessions`; `requests`, `queued`, `views`, `stale`, `history`, `position` are the fields of `Session` (`session-state.ts`) |
| `queuedRequests`, `retainedBodyBytes` | the counters of the runtime |
| `queue[s]`, `running[s]` | `session.tail`: the chain of accepted operations, and the generation the head captured once dispatched |
| `Start`, `StartSession`, `Close`, `DeleteDoomed`, `Closed` | `tryStart`, `closeConnection`, `expireIdle`, `deleteSession` |
| `Execute`, `AnswerRetained`, `RefuseRequest`, `AcceptRequest` | `executeSession`, `queueRequest`, `trimRequests`, `expireRequests` |
| `Focus`, `Follow`, `History`, `AnswerAtOnce` | `performCall` and the focus, follow and history actions up to their backend call |
| `AnswerFocus`, `AnswerFollow`, `BackendFails` | what the backend answers, including its timeout |
| `EvictForRoom`, `RefuseView`, `AbandonForward`, `AppendView`, `TrimViews`, `ViewAdded` | the loops of `addView`, `makeViewCapacity`, `evictViews`, and the next candidate of a follow |
| `Tick`, `PublishGeneration` | the environment: time, and a generation published by freshness |

Random identifiers are numbered in the order they are minted, which is also the
iteration order of the maps. A request's canonical fingerprint is its call. The
body of a view is its size. `accepted` and `minted` record every accepted
request and retained view in order, the former also holding the operations the
chains run.

A deleted session's requests still run: the closures hold the session object.
Its record is therefore kept empty (with its `queued` count) and its chain goes
on; operations that look it up find no session.

### `Timeline.tla` and `Freshness.tla`: workspace freshness and its scheduler

`Timeline` is the abstract promise to readers: a generation that becomes
current is newer than the one before and its manifest was the whole content of
the workspace at some moment since the work on it began. It says nothing of
watchers, retries, refreshes or files read one by one.

`Freshness` is the code:

| Model | Code |
|---|---|
| `current`, `pending`, `state`, `next`, `manifest`, `forced` | `status`, `nextGeneration`, `currentManifest`, `forceRefresh` of `FreshnessRuntime` |
| `runAt`, `attempt`, `todo`, `captured`, `verified`, `analyzed` | the locals of the `reconcileWorkspace` in flight (`running`) |
| `mode`, `listening`, `coalesce`, `poll`, `unseen`, `closed`, `opened` | watcher or polling, whether there is a watcher that nobody has closed, the timers of `workspace-freshness.ts` and `workspace-scheduling.ts`, what the watcher has yet to deliver |
| `tail`, `phase` | the promise tail of `ProjectGenerationScheduler` and the refresh at its head |
| `ReadFile`, `ReadFails` | the manifest walk with its stability check and its errors |
| `ReuseCurrent`, `Analyze`, `Publish`, `Mismatch` | `canReuseCurrent`, `analyzeAndPublish`, `canPublishGeneration`, the retry loop and `workspace_churn` |
| `Start`, `WatcherEvent`, `WatcherError`, `CoalesceFires`, `PollFires`, `Close` | what asks for a reconciliation, and `close()` |
| `RequestAccept`, `Accept`, `RequestRefresh`, `JoinRefresh`, `BeginRefresh`, `RefreshRebuilt`, `RebuildFails` | the scheduler and `refreshProject` |

The promise reactions that follow the end of a reconciliation run before any
other event, so `EndRun` is part of every action that ends one. `start()` does not
look whether the server was closed: when the first call comes after `close()`, the
watcher it makes stays open (`listening`) and goes on to deliver events. `witnessed` is a
history variable: the contents of the workspace since the reconciliation began.
`RefreshHistory.tla` adds another, `asked`, what was current and on disk when a
refresh was requested, for the one property about it (finding 4). A file's content
is a version that only grows. A file that is saved back to an earlier content
between the two reads is left out: the code compares hashes, so it could not see
that, and `ReadyIsReal` is claimed only without it.

`Sessions` sees freshness only through the action `PublishGeneration`: a
generation that becomes current and is greater than the one before, which is
what `Timeline` promises.

### `LspBackend.tla`: a semantic backend and its direct LSP clients

| Model | Code |
|---|---|
| `backend` | `RuntimeLspState`: `client`, `inner`, `started`, `state`, `disposed`, `refreshRequired` (`created` counts the clients) |
| `lsp[c]` | a direct LSP client: `epoch`, `state`, `stopping`, `stopped`, its process, whether bytes are buffered, armed restart timers, crashes and timeouts in the window |
| `proc[p]` | a child process: the client and epoch its callbacks were attached with; `live`, `killed` (the exit is still to come) or `gone` |
| `wait[o]` | the pending entry of an operation: a query, the initialize of a client, the shutdown request. `lost` is an entry whose timer has returned without settling it |
| `Start`, `Query`, `StartFresh`, `Spawn` | `startRuntime` with its single flight, `startRuntimeProcess`, `startRuntime` of the client |
| `InitializeResumes`, `StartResumes`, `QueryResumes`, `ShutdownResumes`, `ExitResumes` | what follows each `await` |
| `RefreshRuntime`, `Shutdown` | `refresh()` and `shutdown()` of the backend |
| `Timeout`, `RestartFires`, `ForceShutdown`, `WindowPasses` | the timers, and a minute without failures |
| `Answer`, `ProtocolFailure`, `PartialFrame`, `ChunkEnds`, `HandleExit`, `ProcessError` | the output, exit and error callbacks of a process |
| `Fail`, `RecordCrash`, `RejectInflight`, `Kill` | `fail` and what it calls |

A callback of the event loop runs when no promise reaction is waiting (`Quiet`).
The frames of one chunk are an exception worth modelling: all are handled before
the reactions to the first (`chunk`). Callers of the backend are themselves
reactions of the server, so they may run between any two reactions.

`prepare`, `confirmInitialized` and the reading of the initial documents may each
succeed or fail. `spawn` throws at the latest when the processes of the model are
used up. Permitted notifications and requests of the server change nothing the
properties see; request ids are never reused, so a late answer of a settled
request finds no entry.

### `RootAccess.tla`: the root gate and the lazy adapters behind it

| Model | Code |
|---|---|
| `root` | what `revalidateRoot` answers |
| `gate`, `window`, `retry`, `checks` | `state`, `inaccessibleSince`, `retryTimer` of `RootAccessGate`, and where each call of `check()` awaits |
| `lazy[a]` | `LazyState`: `closed`, `inner`, and `starting` as the number of the call of `runStart` it remembers; `runs` says where each of those calls is |
| `refreshes`, `begun`, `closing`, `crashed` | calls of `refreshLazy` that await a start, `backendsStarted`, the end of the core, an unhandled rejection |
| `Check` and its five alternatives, `RestartResumes`, `StopResumes`, `FinalResumes` | `check()` up to its first `await`, and what follows it |
| `PresenceResumes`, `InnerStarted`, `StartCaught`, `Request`, `Refresh`, `RefreshResumes`, `ShutDown` | `startLazy`, `runStart`, `refreshLazy`, `shutdownLazy`, one action per piece between awaits |

The revalidation of the root and the handler that reads its result are one step:
the handlers act on the state they find when they run, and the root may change in
the step after. What the backend behind an adapter does is `LspBackend`'s. The
branch of `RestartResumes` that makes the gate ready again is never taken, which
is finding 7: it is in the model because it is in the code.

### `ProcessLifetime.tla`: what a process owns and leaves

| Model | Code |
|---|---|
| `procs[p]` | `closing` of the close controller; `sealed`, `hooked`, `children`, `tracked` of `OwnedResources`; `unswept`, the roots the sweep has yet to look at; `marking`, a root between `mkdtemp` and its marker |
| `tempdir[t]` | a temp root: whether it is there, the pid in its marker, whether a day has passed, whether its removal has failed |
| `SweepRoot`, `MakeRoot`, `MarkRoot`, `ReleaseRoot`, `SpawnBackend`, `ChildExits` | `sweepStaleServiceRoots`, `createOwnedServiceRoot`, `trackRoot`, `trackChild` |
| `CloseBegins`, `CloseSettles`, `BudgetPasses`, `StartFails`, `UncaughtError`, `KillProcess` | the ways a process ends, with `seal()` or without |

Processes of other programs do not appear, so a pid is one of ours or nobody's;
the check of the directory's user is left out. The verdict on a root and its
removal are one step: a live owner cannot appear for a root that has none, as
`mkdtemp` never makes a name twice. A marker is written less than a day after its
root is made. The serve mode, whose lifecycle is the browser server's, is left out.

### `DashboardOwnership.tla` and `DashboardRuntimes.tla`: the OpenSpec dashboard

`DashboardOwnership` is one action per file operation or answer of `claim()`
(`dashboard-ownership.mjs`) and of `managedShutdown` (`serve.mjs`): `owner` and
`complete` are the file, `phase[d]`, `prior[d]` the claim of a dashboard,
`accepting`, `stopping`, `alive` its process. Between the file operations that
`claim()` makes without an `await` other processes run, but no callback of its own
(`Busy`).

`DashboardRuntimes` is `code-explorer-manager.mjs`: `runtimes` are the records in
the order they were created, `records` those in the map, `admission` the promise
chain of launches, `reserving` the one at its head with what it awaits, `shutdown`
and `swept` the shutdown. `Launch`, `BeginReserve`, `JoinExisting`, `Reclaim`,
`CreateStartingRecord`, `StartEnds`, `CloseEnds`, `CloseRejects`, `Use`,
`BeginShutdown`, `Sweep` and `Swept` are the pieces of the manager between awaits.
Time is counted in half hours (`IDLE_MS`).

The `close()` of a runtime races its cleanup against ten seconds
(`browser-server/embedded-runtime-result.ts:46`, `runtime-core.ts:62-69`), and the
cleanup does not shut the adapters down when closing the server fails
(`runtime-core.ts:57-60`). A rejected close therefore does not mean that the runtime
has stopped: `CloseRejects` leaves it *abandoned*, `LateCleanup` is the cleanup
ending after all, which nothing promises. Its record has left the map before, the
admission that awaited the close fails, and the next one goes on without it.
*Discarded* is a runtime that nobody wants when its start ends, closed by the manager
or by the start itself (`browser-server/embedded-runtime.ts`, `startCore`).

### `Closure.tla`: the closure helper

| Model | Code |
|---|---|
| `github` | state, completion record, number of evidence comments and Project status of each issue, and which parents have scope of their own |
| `run` | the snapshot, the planned closes and repairs, and the call the run makes next |
| `ClosureEvidence`, `Delivery`, `Replaced`, `ClosesHierarchy`, `Settleable`, `StatusRepairs`, ... | the plan: `closure-evidence.mjs`, `closure-delivery.mjs`, `closure-plan.mjs`, `closure-walk.mjs`, `closure-holds.mjs` |
| `ReadBeforeClose`, `PostComment`, `CloseIssue`, `Readback`, `WriteDone`, `ReadBeforeRepair`, `WriteRepair` | `closure-close.mjs` and `closure-done.mjs`, one action per call to GitHub |
| `OthersEdit`, `Interrupt` | edits by people and other commands; a run that is killed or whose call fails, before or after it took effect |

The snapshot is taken in one step. One run goes on at a time. The record of a root
read before a close is that of the merged pull request it names (facts about pull
requests do not change), and the issue and its root are read in one step. Left out:
relations that are archived, malformed or held because two records disagree, and
how records are parsed from comments. `edits` counts what others did, capped by
`EditBound`; `quiet` remembers whether anybody edited since the snapshot.

### `MCComponents.tla`: one run for the components that share no state

The root gate, the process lifetime, both parts of the dashboard, the closure
helper and the progress of sessions share no variables. `MCComponents` checks them
in one run without multiplying their states: the variable `subject` is chosen in
the initial state and only that component moves, so that every behaviour is a
behaviour of one component. The root gate is the subject twice: as `gate` its root
comes and goes and no refresh waits for a start, as `starts` starts and waiting
refreshes overlap while the root stays as it is; the proofs cover both at once.
Every behaviour of the other components is there. Fairness is restated as
`subject = ... /\ A`.

How they meet in the code: an unhandled rejection (`RootAccess!crashed`) is
`ProcessLifetime!UncaughtError`; `CloseBegins` of a process is `CloseCore` of the
gate; an adapter's `inner` is an `LspBackend`, whose `ShutdownEnds` is the fairness
of `InnerStopped`; a runtime of a dashboard is a core with all of these.

## 3. Runs

The MC modules `MCSessions`, `MCFreshness`, `MCLspBackend`, `MCClosure` and
`MCComponents` give the constants small values.

| Run | Specification | Checks | Shows |
|---|---|---|---|
| `sessions_safety` | `Spec` | `TypeOK`, `RetryRunsOnce`, `SlotsNotLeaked`, `HistoryCoherent`, `EvictedViewsAreStale`, `BytesAccounted`, `ShownViewKept` | two sessions, two request ids, four requests and four views: retries, trims, expiry of requests and sessions, both kinds of eviction, abandoned branches, refusals |
| `freshness_timeline` | `ServingSpec` | `TypeOK`, `StatusTruthful`, `ClosedStopsPolling`, `ReadyIsReal`, `TimelineKept`, `EveryRequestServed` | two files saved between reads, two attempts, two requests, `start()` before and after `close()`; `TimelineKept` is the refinement of `Timeline` |
| `backend_lifecycle` | `FairSpec` | `TypeOK`, `PendingIsCurrent`, `ServersNotAbandoned`, `RestartsReplaceFailures`, `ReadyHasProcess`, `UnavailableIsFinal`, `NothingSpawnsAfterShutdown`, `QueriesSettle`, `ShutdownEnds` | two clients, two processes and one query through crashes, timeouts, malformed output, restarts, a refresh and shutdown |
| `components` | `ComponentsSpec` | `ComponentsTypeOK`; sessions: `EveryRequestSettles`; gate and starts: `BuiltOnce`, `BackendsFollowGate`, `RootLossIsFinal`, `ClosedAdaptersStayDown`, `InaccessibilityEnds`; process: `LiveRootsKept`, `ExitLeavesNothing`, `StdioCloseEnds`; dashboards: `PriorStopsFirst`; runtimes: `RuntimesBounded`, `OneRuntimePerProject`, `NothingOutlivesShutdown`, `AdmissionDrains`; closure: `EvidencePostedOnce`, `ParentsCloseLast`, `ClosuresConverge` | each component in an instance of its own, see the bounds |
| `sessions_queue` | `Spec` | `QueueBounded` **violated** | finding 1 |
| `sessions_handles` | `Spec` | `FreshHandlesResolve` **violated** | finding 2 |
| `freshness_missed` | `FairSpec` | `SavesBecomeVisible` **violated** | finding 3 |
| `freshness_refresh` | `HistorySpec` | `RefreshCompletes` **violated** | finding 4 |
| `backend_orphan` | `Spec` | `ShutdownStopsServers` **violated** | finding 5 |
| `backend_revive` | `Spec` | `RefreshRevives` **violated** | finding 6 |
| `root_recovery` | `RootSpec` | `SurvivesRetry` **violated** | finding 7 |
| `closure_hierarchy` | `ClosureSpec` | `ParentWaitsForDelivery` **violated** | finding 8 |

Each property of a passing run has a mutant in `PROJECT.json`: an operator of
the module, named in its comment, that changes one mapped definition the way a
plausible mistake in the code would, and under which TLC finds the property
violated.

### Bounds

Every model bound is a constant whose name ends in `Bound` and appears in the
guard of the action it caps: `SessionBound`, `RequestBound`, `ViewBound`,
`TimeBound`, `GenerationBound`, `VersionBound`, `ClientBound`, `ProcBound`,
`RefreshBound`, `RunBound`, `ChildBound`, `IdentityBound`, `LaunchBound`,
`ClockBound`, `EditBound`; the sets `Checks` and `Refreshes` of `RootAccess` bound
the calls in flight. The limits of the code
(`MaxViews`, `MaxBodyBytes`, `MaxQueued`, `MaxRequests`, `MaxAttempts`, ...) are
scaled down so that they are reached: two sessions are enough for one to evict
from another; four views of one byte overflow both limits, two views per session
and three bytes in the process; four requests over two identifiers give a retry
with another request between, and the trim at one retained request; one request
may be queued at a time, besides those of deleted sessions, and `components` and
`sessions_queue` reach further into the queue; two files are the least for which
reading them one by one can see a workspace that never was; two attempts give a
retry and a give-up.
`GenerationBound` only stops errors and polls from starting further
reconciliations for ever; saves still do, and are capped by `VersionBound`.

`backend_lifecycle` restarts once in a window (`RestartDelays = 1`; the code has
two delays) so that two processes already reach the client that has crashed too
often; a process of a second client, the callbacks of a replaced process and a
restart that races a new start all need two processes. The same safety properties
were also checked with three processes and both delays (2.3 million states),
which takes too long to be a run. The violation runs use the two delays of the
code.

In `components`:

* sessions make progress: two sessions and two requests, refused and evicted views
  and a closed connection, but no time; requests and sessions expire in
  `sessions_safety`;
* the gate has one adapter, one call of `check()` besides that of the retry timer,
  one refresh and three starts: a start that waits for the presence check, one a
  refresh begins meanwhile, and one after that. A waiting refresh and a root that
  changes are not in one behaviour (`gate`, `starts`). Adapters do not see each
  other, so one is enough for the races of one; several, and refreshes while the
  root changes, are covered by the proofs;
* two processes, of which the second starts while the first lives or after it
  ended, with the pid of the first or another; one root and one child each;
* two dashboards: one claims while the other is in any state. Three are covered by
  the proof of `PriorStopsFirst`;
* two projects for one place, two launches, two identities of a root and one
  idle period: the second launch can join, reuse, replace a stale record, evict the
  other project, wait or fail, and each close can resolve or be rejected;
* a chain of three issues whose leaf is replaced by a root, with one edit or stop,
  from initial states in which the replacement is delivered or not: the least in
  which a replacement, a hierarchy record and a parent close in one plan, and in
  which a run is stopped between any two calls and repeated.

Larger instances of the same runs (a refresh while the root changes, three
launches, two edits; 240 000 states in `components`) were checked while the project
was made; they take too long to be runs.

`CHECK_DEADLOCK FALSE` is set where the system may stop: a closed server whose
requests are served, a backend that has been shut down, and processes, dashboards
and issues that have come to their end have nothing left to do.

### Fairness

* `Sessions`: weak fairness of `Entered` and `Added` (a turn runs to its end, as
  JavaScript does), strong fairness of `Operate(s)`: the event loop comes back to
  each chain, and the wait for a backend ends because `BackendRequestLimiter`
  rejects at its timeout. Strong, because turns of other handlers disable it in
  between. Nothing is assumed of clients, time or the generation.
* `Freshness`: weak fairness of the reconciliation (file reads and their
  stability samples are bounded by timeouts) and of the scheduler (adapters are cut
  off by the limiter): `ServingFairness`, which is all that `EveryRequestServed`
  needs. `FairSpec` adds the coalescing timer and the watcher's delivery of what it
  has seen, so that finding 3 does not rest on a timer that never fires. None for
  saves, polls, errors, requests or `close()`.
* `LspBackend`: weak fairness of every promise reaction, of the end of a chunk, of
  the request timers and of the shutdown timer: Node's event loop comes back to its
  timers whatever a language server writes. Nothing is assumed of the servers, the restart timers or the callers.
* `RootAccess`: weak fairness of the continuations of `check()`, of the end of a
  backend that is shut down, of the retry timer and of the thirty seconds. The root
  itself may change or stay for ever.
* `ProcessLifetime`: weak fairness of the budget timer and of synchronous calls that
  return. Nothing is assumed of the core: that it settles, or of signals.
* `DashboardRuntimes`: weak fairness of the admission chain and of the end of starts
  and closes: a close resolves or is rejected within its ten seconds. None for the
  late cleanup of an abandoned runtime. Launches and shutdown may never come.
* `Closure`: a run goes on (weak), and goal-sdlc and complete-pr repeat it without
  naming a hierarchy record (strong, since runs in progress disable it). Edits and
  stops are finitely many, because `ClosuresConverge` is about what follows the last.

## 4. Findings

1. **Slots released twice** (`sessions_queue`). `deleteSession` subtracts the
   queued requests of the session from the process counter and does not clear
   them; each of them subtracts one again when it settles
   (`session-view-eviction.ts:19`, `session-request-queue.ts:47-51`). The
   counter then falls below the requests really queued, and more than the limit
   are admitted. `SlotsNotLeaked` shows that it never errs the other way.
2. **Follow candidates are born stale** (`sessions_handles`). The views a follow
   retains for its candidates carry generation 0 (`relation-operations.ts:63`
   calls `createFocusView` without one), so from generation 1 on a handle of
   such a view is answered `stale_view`.
3. **A save can be missed** (`freshness_missed`). A coalesced event that fires
   while a reconciliation runs joins it (`workspace-freshness.ts:66`) and is
   consumed; if the file was already read, nothing reads it again. The periodic
   reconciliation the specification asks for in watching mode is not in the code.
4. **A refresh can return the old project** (`freshness_refresh`). The refresh
   joins a reconciliation that began before it, and the end of that one clears
   `forceRefresh`.
5. **A server survives shutdown** (`backend_orphan`). A start that fails after
   its process was spawned leaves the client behind, with a restart timer armed
   or, when an initial document could not be read, with its server running. The
   next start creates another client and `shutdown()` reaches only that one
   (`runtime-lsp-start-process.ts:13`, `runtime-lsp-backend.ts:63`). Within one
   client nothing is abandoned (`ServersNotAbandoned`), and no timer spawns
   anything after the shutdown (`NothingSpawnsAfterShutdown`).
6. **Refresh does not revive a crashed backend** (`backend_revive`). After the
   third crash the client is unavailable; `refreshRuntime` answers only an
   identity change (`runtime-lsp-backend.ts:50`).

7. **A recovered root ends the process** (`root_recovery`). The adapters that are
   shut down when the root becomes inaccessible refuse every later start
   (`runtime-lazy-adapter.ts:73`), so the restart after the root has come back
   always rejects: a call answers an error and the gate stays inaccessible; when
   the retry timer has made the check, nothing handles the rejection
   (`root-access.ts:89`). `ProcessLifetime` shows that such a process at least
   leaves nothing behind.
8. **A parent closes before the delivery it waits for** (`closure_hierarchy`).
   `childReason` counts any planned child as settled (`closure-evidence.mjs:43`),
   also a hierarchy record that the same plan closes as not planned and whose
   delivery has moved to roots that are not verified. `ParentsCloseLast` shows that
   the order of the closes is kept.

Not runs of their own: when a malformed frame follows the answer to `initialize`
in one chunk, the client fails and kills its process, and the reaction to the
answer then makes it `ready` (`direct-lsp-runtime-initialize.ts:33`) until the
exit is seen. `ReadyHasProcess` is therefore claimed for processes that have not
exited, not for processes that have not been killed. With three dashboards,
`claim()` may unlink the file of one that has claimed meanwhile, as it removes the
file by name (`dashboard-ownership.mjs:269`); `PriorStopsFirst` therefore speaks of
the dashboard a replacement has found, not of all others.

A first `start()` that follows `close()` makes a watcher that nobody closes, and its
events arm the coalescing timer of a closed server (`workspace-freshness.ts:47-63`;
neither method looks at `closed`). `ClosedStopsPolling` therefore says of coalescing
only that it needs such a watcher; that no poll is armed after `close()` it says
without exception.

A runtime whose `close()` was rejected is abandoned while its servers may still run
(`embedded-runtime-result.ts:46`, `runtime-core.ts:57-68`), although its record is
gone (`code-explorer-manager.mjs:42`). It can then run besides eight others, beside
the runtime that the next launch of its project starts, and after `shutdown()` has
resolved, since both the admission chain and `Promise.allSettled` swallow the
rejection; the last is contrary to the launch specification's "shutdown completes
only after every child exit is observed". TLC finds each of the three within about
ten steps when abandoned runtimes are counted. `RuntimesBounded`,
`OneRuntimePerProject` and `NothingOutlivesShutdown` are therefore claimed for all
runtimes but the abandoned ones (`AttendedRuntimes`): they say that a rejected close
is the only way to lose sight of one.

## 5. Proofs

Checked by TLAPS for every value of the constants that satisfies
`LimitsAssumption`, `FreshnessAssumption`, `LspAssumption`, `RootAccessAssumption`,
`LifetimeAssumption`, `OwnershipAssumption`, `RuntimesAssumption` or
`ClosureAssumption`.

| Module | Theorem | States |
|---|---|---|
| `SessionsProof` | `TypeCorrect` | `Spec => []TypeOK` |
| `SessionsProof` | `OperationsInOrder` | `Spec => []QueuesInOrder` |
| `SessionsProof` | `ChainsAdvance` | `Spec => [][ChainsGoOn]_vars` |
| `SessionsProof` | `TurnsEnd` | `Spec => [][Entered \/ Added => NearerItsAnswer]_vars` |
| `SessionsHistoryProof` | `HistoriesStayCoherent` | `Spec => []HistoryCoherent` |
| `SessionsHistoryProof` | `EvictedStayStale` | `Spec => []EvictedViewsAreStale` |
| `SessionsHistoryProof` | `ShownViewsKept` | `Spec => ShownViewKept` |
| `SessionsAccountsProof` | `SlotsNeverLeak` | `Spec => []SlotsNotLeaked` |
| `SessionsAccountsProof` | `RetainedBytesAccounted` | `Spec => []BytesAccounted` |
| `SessionsAccountsProof` | `RetriesRunOnce` | `Spec => []RetryRunsOnce` |
| `FreshnessProof` | `TypeCorrect` | `Spec => []TypeOK` |
| `FreshnessProof` | `StatusStaysTruthful` | `Spec => []StatusTruthful` |
| `FreshnessProof` | `ReadyManifestsAreReal` | `Spec => ReadyIsReal` |
| `FreshnessProof` | `FreshnessImplementsTimeline` | `Spec => TimelineKept` |
| `FreshnessProof` | `ClosedStaysQuiet` | `Spec => []ClosedStopsPolling` |
| `FreshnessProof` | `WaitersAreServed` | `Spec => []WaitersHaveWork` |
| `FreshnessProof` | `ReconciliationsEnd` | `Spec => [][GoesOn]_vars` |
| `FreshnessProof` | `QueueIsServed` | `Spec => [][QueueAdvances]_vars` |
| `LspBackendProof` | `TypeCorrect` | `Spec => []TypeOK` |
| `LspBackendSafetyProof` | `RequestsStayCurrent` | `Spec => []PendingIsCurrent` |
| `LspBackendSafetyProof` | `ServersStayOwned` | `Spec => []ServersNotAbandoned` |
| `LspBackendSafetyProof` | `RestartsStayReplacements` | `Spec => []RestartsReplaceFailures` |
| `LspBackendSafetyProof` | `ReadyKeepsProcess` | `Spec => []ReadyHasProcess` |
| `LspBackendSafetyProof` | `UnavailableStays` | `Spec => UnavailableIsFinal` |
| `LspBackendSafetyProof` | `ShutdownSpawnsNothing` | `Spec => NothingSpawnsAfterShutdown` |
| `LspBackendSafetyProof` | `NobodyIsForgotten` | `Spec => []NobodyForgotten` |
| `LspBackendSafetyProof` | `CallsGoForward` | `Spec => [][NearerToTheEnd]_vars` |
| `RuntimeProof` | `RootTypesKept` | `RootSpec => []RootTypeOK` |
| `RuntimeProof` | `BackendBuiltOnce` | `RootSpec => []BuiltOnce` |
| `RuntimeProof` | `GateAndBackendsAgree` | `RootSpec => []BackendsFollowGate` |
| `RuntimeProof` | `RootLossHolds` | `RootSpec => RootLossIsFinal` |
| `RuntimeProof` | `ClosedAdaptersHold` | `RootSpec => ClosedAdaptersStayDown` |
| `RuntimeProof` | `InaccessibleRootWatched` | `RootSpec => []InaccessibilityWatched` |
| `RuntimeProof` | `RecoveryIsBounded` | `RootSpec => [][WindowRunsOut]_rootVars` |
| `RuntimeProof` | `LifeTypesKept` | `LifeSpec => []LifeTypeOK` |
| `RuntimeProof` | `LiveRootsHold` | `LifeSpec => []LiveRootsKept` |
| `RuntimeProof` | `ExitIsClean` | `LifeSpec => []ExitLeavesNothing` |
| `ComponentsProof` | `PriorStopsFirstHolds` | `OwnerSpec => PriorStopsFirst` |
| `ComponentsProof` | `RuntimesAreBounded` | `RuntimesSpec => []RuntimesBounded` |
| `ComponentsProof` | `OneRuntimeHolds` | `RuntimesSpec => []OneRuntimePerProject` |
| `ComponentsProof` | `ShutdownIsComplete` | `RuntimesSpec => []NothingOutlivesShutdown` |
| `ComponentsProof` | `RuntimesOnlyAge` | `RuntimesSpec => [][RuntimesAge]_runtimesVars` |
| `ComponentsProof` | `AdmissionsAdvance` | `RuntimesSpec => [][AdmissionGoesOn]_runtimesVars` |
| `ComponentsProof` | `EvidencePostedOnceHolds` | `ClosureSpec => []EvidencePostedOnce` |
| `ComponentsProof` | `ParentsCloseLastHolds` | `ClosureSpec => ParentsCloseLast` |
| `ComponentsProof` | `RunsEnd` | `ClosureSpec => [][RunStep => NearerItsEnd]_closureVars` |
| `ComponentsProof` | `ComponentsTypesKept` | `ComponentsSpec => []ComponentsTypeOK` |

With these every invariant and every action property that a run expects to hold is
a theorem; what is left to TLC is liveness, and of seven of the eight liveness
properties the part that needs no fairness is a theorem too (see *Progress*).

*Type correctness.* `TypeOK` is not inductive: settling takes the tail of a
chain, which must not be empty, evicting reads the bytes of a view, which must
have been minted, and starting a session must stay below `SessionBound`.
`TypeInv == TypeOK /\ Attended /\ ViewsMinted` adds those facts. `Min` over sets
of naturals and `RemoveAt` on sequences get lemmas of their own
(`MinOfNaturals`, from the well-founded order of the naturals, and
`RemoveAtProperties`).

*Histories.* `ViewInv == TypeInv /\ HistoryCoherent /\ EvictedViewsAreStale /\
MintedForStarted /\ TrimmingLive`. Coherence of a history needs its entries to be
increasing and to be exactly the view map; that a new entry is greater than the
others follows from `EvictedViewsAreStale` (retained views were minted), and that
evictions during a trim hit a live session from `TrimmingLive`. The central lemma
is `EvictingCoherent`: taking any entry other than the shown one out of a
coherent history leaves a coherent history that shows the same view. Coherence is
claimed for sessions that no handler is in the middle of deleting, since
`deleteSession` discards views without touching the history.

*Shown views.* `ShownViewsKept` is an action property and follows from `ViewInv`:
one lemma per kind of splice says that it changes no shown view.

*Sums and sizes.* Three invariants of sessions count. `BytesAccounted` compares a
counter with `SumFunctionOnSet` over the retained views, which the community modules
define by taking out one arbitrary element after the other. The lemmas `SumEmpty`,
`SumTakesOut`, `SumSame` and `SumChangesAt` are what the invariant needs of it. They
are proved by induction over finite sets in the form a prover without operator
parameters can use: `MinimalSubset` says that a set of counterexamples has one that
contains no other, and removing an element from it gives a contradiction.
`SumsAgree` and `SumsExist` prove that way that the recursion has exactly one
solution.

*Slots.* `SlotInv == TypeInv /\ SlotsCounted /\ NoSlotsBeforeStart /\
SlotsNotLeaked`. The counter that refuses requests must not exceed what is queued or
running, but that is not inductive: a settling operation returns a slot to its
session, and only `SlotsCounted`, that a session has exactly as many slots as
operations in its chain, says that it took one. Every step takes a slot, returns
one, gives up those of a deleted session or moves none (`MovesSlots`).

*Bytes.* `BytesInv == ViewInv /\ BytesAccounted`. That each view is counted once
rests on the histories: coherence says that an evicted view was in the map of its
session and `EvictedViewsAreStale` that a new one was in none. Every step keeps the
retained views, drops one or adds one (`RetainedMoves`), and the sum follows.

*Retries.* `RetryInv` adds to `RetryRunsOnce` that what a session retains of a
request is what was accepted (`EntriesTrue`), and that a live session has forgotten
only requests whose retention is over and those that `MaxRequests` later ones
displaced (`AllRemembered`). The last is the heart: a request that is trimmed is the
oldest of more than `MaxRequests`, so the others map one to one to later accepted
ones, and there are at least as many of those (`FS_Injection`).

*Status.* `StatusInv` adds that the current generation and the one being analysed
are behind the next one, so that a reserved generation is always the newest. The
proof then needs only what each action does to the status; the case to watch is a
refresh that fails while a reconciliation goes on.

*Reads.* `ReadsInv` is why reading files one by one is enough. While a
reconciliation captures, some content the workspace had since it began lies
between the current manifest and what was captured so far; while it verifies,
some such content lies between what was captured and what was verified so far.
When the two ends are equal, the content between them is equal to both. Contents
only grow, which is the assumption named above. `FreshnessImplementsTimeline`
uses the same invariant: `StepsOfWork` says that every step saves a file or
joins, begins, continues or ends a reconciliation, and each of these is a step of
`Timeline` or leaves what it speaks of unchanged.

*Backend types.* `TypeInv` of `LspBackendProof` adds to `TypeOK` that requests
wait for, and processes belong to, clients that were created; that a client which
was not created yet is untouched; that a shutdown under way has a client; and
that a client stops only after the backend was disposed, so that a start always
finds one that is not stopping. The lemmas are about what handlers are built from
(`FailEffect`, `SpawnEffect`, `TerminateEffect`, ...), and `Kept` says what a
handler may have changed before it ends, fails, terminates or spawns.

*Backend safety.* The four invariants do not hold by themselves; they are proved
together as `LspInv`, which adds what links requests, processes and timers:

* `EpochInv`: epochs only grow, and two processes of a client never share one;
* `InitializeAlone`: while a client initializes it is not ready and nobody else
  waits for it, so the reaction to a failed `initialize` has no other request to
  strand, and a retry of a query never meets a restart;
* `InitializePending`, `InitializeAnswered`: an unanswered `initialize` means an
  initializing client that is not stopping; an answered one in the current epoch
  means that its process has not exited, which is what makes `ready` sound;
* `RestartInv`: when a restart timer is armed every request of the client has
  been rejected and no process of it runs, so the timer spawns into an empty place;
* `UnavailableInv`, `StoppedInv`: an unavailable client waits for no answer, a
  stopped one is not ready and runs nothing.

There is one lemma per way a handler can end: `TouchedSafe` (it changed flags,
ended requests, saw a process go), `FailSafe`, `InvalidatedSafe`, `SendSafe`,
`SpawnSafe`, `StateSafe`, `AnswerSafe`; `LspStep` assigns every action to one of
them. `FailSafe` has the premise that matters: a failure that restarts comes when
no answer to a request of that client is still to be looked at. Timers and exits
run when no reaction is waiting, and the failed `initialize` waits alone; a
malformed frame may come with such answers, and does not restart. The mutant
`ProtocolFailureRestarts` breaks exactly this.

*Root gate.* `RootInv == RootTypeOK /\ StartsBegun /\ AdapterInv /\
BackendsFollowGate`. That a lost root stays lost rests on `StartsBegun`: a restart
that awaits was begun behind closed adapters, and a closed adapter stays closed, so
it is refused and never sets the gate ready. `AdapterInv` ties the number of builds
to `inner`, which the code reads again after the presence check.

*Process lifetime.* `LifeInv` says of every process that what it tracks implies the
exit hook (`ProcInv`), that no two live processes share a pid and no two processes a
root (`OwnersUnique`), and that a root of a live process is on disk and carries its
pid, or no pid and less than a day of age while it is being marked (`RootsOwned`).
The last is what makes `classifyServiceRoot` safe against pids that are used again.

*Dashboards.* `OwnerInv`: a claim that went past the dashboard it found implies that
the latter is stopping or dead, and neither is undone. `RuntimesInv`: the map holds
running records and every open one (`MapInv`); an admission awaits at most one
record outside the map, and after the stale ones are gone every record of its
project is of the identity it read (`ReserveInv`); the map together with what is
awaited fits into `MaxRuntimes` (`CapacityInv`); and what runs is in the map, awaited,
swept or abandoned (`ShutdownInv`). `RuntimesBounded` is not inductive without the
last two: a record leaves the map before its runtime has closed. A rejected close
ends the admission that awaited it, and what it awaited is then abandoned, so
nothing attended is forgotten.

*Closure, evidence.* The comment is a call of its own after the one that counted;
`EvidenceInv` adds that while a run is about to comment, the count it read is still
zero. It holds because nobody else posts evidence and one run goes on at a time,
which are the assumptions of the model.

*Closure, order.* `ParentsCloseLast` speaks of a call that is made long after the
plan. `OrderInv` says, while nobody edits, that every sub-issue of a parent that is
to close is closed or has its own close earlier (`InOrder`), that planning works on
the issues as they are, and that an issue leaves the closes only once it was read
back closed. The step to watch is `WalkParents`: that a settleable parent has only
planned or closed sub-issues (`SettleableChildren`) needs the recursion of
`SettledChildren` over the hierarchy to have a solution. `AnswersExist` proves it
from the smallest set of issues without one, by taking out an issue whose parent is
elsewhere. For that `ClosureAssumption` says that there are finitely many issues and
that sub-issues form trees, as GitHub keeps them; of a cycle in what it has read the
code says "sub-issue relationship cycle" and closes nothing on the strength of it
(`closure-evidence.mjs:135`), which the model leaves out.

*Closure, end.* `NearerItsEnd` is a rank: the phase of a run and, in it, the issues
that are not planned yet or the calls its closes and repairs have left. `RunsEnd`
says that every step of a run lowers it and that it stays a pair of naturals, so the
passes of `walkParents`, which repeat until one adds no close, cannot go on for ever.
It is the part of `ClosuresConverge` that needs no fairness.

*Progress.* A liveness property can fail in two ways that have nothing to do with
fairness: somebody waits for what can no longer come, or work goes on for ever
without getting nearer to an end. Theorems exclude these, for every value of the
constants; what TLC alone checks is that fair steps then lead to the end.

* `EveryRequestSettles`: the chain of a session holds its accepted requests in order
  (`OperationsInOrder`); each step of the chain starts, answers or settles its head,
  and nothing else takes anything out of it (`ChainsAdvance`); and the loops of a
  handler each make something finite smaller, `NearerItsAnswer` (`TurnsEnd`).
* `EveryRequestServed`: whoever awaits a reconciliation (the refresh at the head of
  the queue, the poll, `start()`) awaits one that is in flight (`WaitersAreServed`);
  a reconciliation lowers a rank of attempts, halves and files
  with every step, so saves cannot prolong it beyond its attempts
  (`ReconciliationsEnd`); and the queue is taken from its head (`QueueIsServed`).
* `QueriesSettle` and `ShutdownEnds`: whoever waits has a request whose timer runs
  or a reaction that is due (`NobodyIsForgotten`), and only goes forward
  (`CallsGoForward`). The invariant `Awaits` links the stage of each caller to its
  pending entry, and the start in progress to the initialize request of the client it
  was begun with; with `PendingIsCurrent`, no entry is one whose timer has given up.
* `InaccessibilityEnds`: an inaccessible root has an armed timer or a check that will
  arm it (`InaccessibleRootWatched`), and its thirty seconds are not begun again
  (`RecoveryIsBounded`).
* `AdmissionDrains`: runtimes only age, an abandoned one too (`RuntimesOnlyAge`), and
  an admission passes
  its awaits one after the other and waits for what, once ended, stays ended
  (`AdmissionsAdvance`).

*Side by side.* No component of `MCComponents` writes a variable of another, so a
behaviour of the composition is one of each component (`ComponentsRunFreely`), and
`ComponentsTypesKept` follows from the type invariants of the five. `ClosureTypeOK`
needs `PlanHeld`, which parts of its plan a run holds where; it is what makes the
head of the closes and of the repairs an issue when a call is made for it.

Only model-checked: the eight liveness properties `EveryRequestSettles`,
`EveryRequestServed`, `QueriesSettle`, `ShutdownEnds`, `InaccessibilityEnds`,
`StdioCloseEnds`, `AdmissionDrains` and `ClosuresConverge`, and the runs that show a
violation. Liveness under fairness and `ENABLED` are out of the prover's reach; so
are the library's induction theorems, which take an operator, and recursive
operators, of which the modules have none. What the proofs say of recursive
functions rests on a least counterexample in a finite set instead.

## 6. Not modelled

* The browser server: a map of browser sessions in front of the sessions modelled
  here. Two of its hazards (`router-session.ts:14`, `:38`) are listed without a
  property. The browser client is user interface.
* The counters of the backend request limiter; only its timeout is used.
* Discovery, backend launch policy, the Python mirror, the queue classifier and the
  parsing of issue texts in dod-guard, fossil, knowledge base and quality guard: pure
  computation, file copying or formatting, with no state shared between requests.
  They make up most of the repository, which is why the map covers a small share of
  its lines.
* Request validation, search and status bodies: they change no state modelled
  here (`AnswerAtOnce` stands for a call that ends without touching the session).
* Hashing and directory walks: a file is read in one step that returns its
  version, or fails.
* The discovery data that a refresh replaces before its reconciliation ends.
* Pages, launch validation and quality reports of the dashboard; the serve mode.

## 7. Plan

What is left, in order:

1. The browser server over `Sessions`: capacity checked before an `await`, browser
   sessions that outlive or lose their core session; the limiter's counters.
2. A composition of `Sessions` with `Timeline` in place of `PublishGeneration`, with
   the discovery data of a refresh, and of `RootAccess` with `LspBackend` in place of
   `inner`.
3. Three dashboards in one instance and what the unlink by name can do.
4. Ranks for `StdioCloseEnds`; and the step from the theorems under *Progress* to the
   liveness properties, should a prover for fairness become available.
