# TLA+ models of yishan

yishan runs coding agents on the machines of its users. Four programs and a
family of agent extensions take part:

* the **API service** (`apps/api-service`, TypeScript on Cloudflare Workers with
  Postgres) owns the jobs and the rows of their runs;
* the **relay** (`apps/relay`, Go) keeps one WebSocket session per connected
  daemon and forwards runs, terminal streams and change notices;
* the **daemon** (`apps/cli`, Go) on a user's machine schedules and executes runs,
  keeps an outbox in SQLite and reports results;
* the **desktop application** (`apps/desktop`, Electron) is a client of daemon and
  API and keeps its own copy of projects and workspaces;
* **pi-subagents** (`packages/pi-subagents`) runs inside an agent and delegates
  work to child sessions.

The models follow a run from the API to the agent process, the desktop's
connection and its copy of the data, and the delegation inside an agent. These
are the parts of the repository with concurrency, failure and recovery in them:
goroutines between two locks, timers that race answers, sessions that are
replaced, state read before an await and used after it, messages that come
twice, and a daemon that stops anywhere.

```
 Run Now handler ── queue ── consumer ──HTTP──► relay job queue ──job.run──► daemon goroutine
      │                         │                 ▲  (JobQueue)               │ (ManualRuns)
      ▼                         ▼                 │ NodeTransport             ▼
 ┌────────── scheduled_job_runs (RunRecords) ◄────┼──── start / complete ─────┤
 └──────────────────▲───────────────────────┘  sessions (RelaySessions)       │
        │           └── claim / start / complete ── due worker, outbox, recovery
        │                                           (ScheduledRuns)
        └── reconcile / claim ── local scheduler (LocalScheduler)
                                  inside the runtime (ScheduledJobsRuntime)

 desktop: socket and calls to the daemon (DaemonRpc), stores and loads (WorkspaceSnapshot)
 agent:   child sessions (AgentRuns), their completions to the parent (CompletionOwner)
```

## 1. Inventory

| component | state it keeps | operations | what is hard | correct when |
|---|---|---|---|---|
| relay job queue, `relay/internal/jobqueue` | map of runs, two timer maps, gauges | Dispatch, HandleAck, HandleResult, HandleNodeDisconnect/Reconnect, two timeouts, PruneCompleted | every method unlocks in the middle; timers fire while their run moves on | no run is stranded, retries are bounded, outcomes are final, gauges are exact |
| relay sessions, `relay/internal/relay/session.go` | session per node, state per session | Register, DisconnectSession, Close, EvictStale | old and new connection of a node end and start concurrently | the newest connection is the session, every loss is announced |
| relay server and streams, `server.go`, `relay_stream.go` | stream subscribers and owners, clients, metrics cache | message handlers, event wiring | subscriptions race disconnects | nothing leaks |
| API run records, `node-scheduled-job-run-service.ts`, `job-evaluator-service.ts` | rows of runs, summary of the job | claim, Run Now, start, complete, skip, clean-up | transactions of daemon, consumer and clean-up on one row | an ended run is final, a run not run never ran |
| Run Now path, `handlers/scheduled-job.ts`, `scheduled/queue.ts`, `scheduled/consumer.ts`, `node/system/scheduler.go` | queue messages, goroutines of the daemon | publish, consume, dispatch, start, run, report | duplicated messages and deliveries, lost answers | at most one agent per run |
| scheduled runs, `scheduled_job_executor.go`, `scheduled_run_outbox.go` | outbox rows, active runs | claim, save, start, run, save result, report, acknowledge, recover | crash between any two steps; live recovery beside the worker | everything saved is delivered, once |
| local scheduler, `scheduler_local.go`, `scheduler_local_claim.go` | armed, claiming and running jobs, a due queue of one | arm, enqueue, claim, re-arm, reconcile, close | snapshots race claims; a full queue drops | the timers are those of the API's schedule, a claimed occurrence is run |
| scheduled jobs runtime, `app/scheduled_jobs.go`, `app/handlers.go` | life-cycle state, two request channels, active runs | Start, recovery, RequestRefresh, Close | hand-over between recovery and the enabled scheduler; Close with everything under way | no edit is lost, Close returns |
| desktop RPC client, `renderer/rpc` | current socket, open under way, reconnect timer, pending calls, subscriptions | request, subscribe, invalidate, reconnect, dispose | late events of old sockets, callers sharing one open | calls settle, subscriptions survive, the status is true |
| desktop snapshots, `workspaceSnapshotFlow.ts` and the commands around it | project and workspace stores, the session's organizations, the selection, loads, mutations, refresh timer | load, create, delete, close, select, switch, leave and create an organization, invalidate | a snapshot fetched before a command is applied after it | nothing deleted comes back, nothing visible vanishes, no load moves the user |
| delegation, `pi-subagents/src/delegation` | records, queue of readers and writers, runner per child, timers | start, stop, limits, shutdown | assembly that outlives its run, turns that never settle, four reasons to stop | slots are exact, writers alone, every interrupted run ends |
| completion delivery, `pi-subagents/src/delivery` | an entry per run, retry timers | enroll, terminal event, drain, retry, close | the send calls back into the owner | taken once, none forgotten |
| API authentication, cloud session of the daemon | sessions, refresh tokens | login, refresh, revoke | rotation with concurrent refreshes | planned |
| daemon terminals, workspaces, git, tasks, memory; other desktop stores; other pi extensions | own stores and processes | many | mostly I/O | candidates for later modules |

Components talk through HTTP calls (consumer to relay, daemon to API), JSON-RPC
over WebSockets (relay to daemon, desktop to daemon), callbacks (session events
to the queue, Pi back into the completion owner) and shared tables (rows of runs,
outbox). `PROJECT.json` lists every component with its sources, and under
`hazards` every place where something could go wrong that a test would hardly
reach, with the properties that would show it.

## 2. Modules and how they correspond to the code

**RunLifecycle** is the abstract promise of the relay about a run: queued,
offered a bounded number of times, accepted at most once, one final outcome.

**NodeTransport** is the interface between sessions and queue: whether a node is
online, and the announcements of connections and losses still on their way. The
queue is written against it and the sessions are shown to implement it, so the
two large modules are checked apart and still fit together.

**JobQueue** models `jobqueue.Manager`. One critical section under `Manager.mu`
is one action; a goroutine between two of them is a record in `thread` with its
local variables. `status`, `attempts`, `ackTimers`, `resultTimers` and `metrics`
are the fields of the code; `attempts` also stands for `attemptGeneration`,
which moves with it. A run is an object <<run ID, incarnation>>, because after
`PruneCompleted` a run ID can be dispatched again while pointers to the old
object are still held. Timers fire in a goroutine of their own that may run late.
`answers` (what callers of Dispatch were told) is a history variable. Payloads
are abstracted to the identity that `matchesDispatchIdentity` compares.

**RelaySessions** models `SessionManager` and the goroutine of each daemon
connection: Register, the end of the replaced session, reading, and the deferred
DisconnectSession, each split at its locks. `wire` says whether the connection
still works; `lost` counts announcements of a loss. Stream owners and
subscribers are the two maps of `relay_stream.go`.

**RunRecords** holds the rows of `scheduled_job_runs` and one operator per
transaction. Each writes through an UPDATE that names the status it expects, so
each is one atomic step. A result is abstracted to its cause, which stands for
the fields `completeRun` compares. The job is one flag (active and assigned to
this node) and its summary. Ownership and membership hold throughout.

**ScheduledRuns** extends RunRecords by the daemon's side of a recurring run:
the due worker step by step with every failing step, the outbox with its
compare-and-swap statements, the recovery goroutine over a *copy* of the listed
rows (at startup until a pass is clean, then live), lost and late requests, the
three kinds of API errors the code tells apart, and Restart, which keeps the
outbox and nothing else of the daemon.

**ManualRuns** extends RunRecords by the path of a Run Now request: the handler,
a queue that may store a message although the send failed and may hand it out
again, consumers, a relay that may deliver `job.run` several times or after it
answered node_offline, and one daemon goroutine per delivery.

**LocalScheduler** models the goroutines of the daemon's scheduler (due
coordinator, due worker, reconcile loop, hourly loop) with the API transactions
they call. `call` is the call under way with the mutex `api` held; between its
request and its answer everything else may move. Time is a counter and a job's
cron expression the set `Instants`. **ScheduledJobsRuntime** extends it by what
surrounds a scheduler: recovery, which builds one per attempt, the flags and
channels on which an edit travels to a refresh, active runs and Close. What the
worker *does* with a claimed occurrence is ScheduledRuns; here it is the pair of
calls that register and unregister it.

**DaemonRpc** models the desktop's `SocketSession` and `DaemonRpcClient`: every
callback of a socket, timer or caller is one action with its microtasks. A
socket's `readyState` may change before the renderer is told. **WorkspaceSnapshot**
models the loads, commands and invalidations that share the renderer's stores;
an action is what runs between two awaits, and a request reaches the backend in
a step of its own. A project has one workspace, which carries its name. A load
is for the selected organization, for the first one of a list that does not have
it, or for none (`noOrganization`, which empties the workspaces and leaves the
projects and the selection). Local folders are one value of `active`, `Folder`:
which folders the daemon has is abstracted away, that a load restores the folder
which was active when it began is not.

**AgentRuns** models `AgentManager`, `ConcurrencyQueue` and the runner of a child
session. An action is one macrotask; shutdown is split because its loop calls
into the queue while it runs. `cancelling` are the tasks that await `cancelRun`
before the completion (`agentManager.ts:302`): they go on when the SDK's `abort()`
settles or the grace timer fires, and the runner disposes of that timer when it
completes (`agentRunner.ts:164`). **CompletionOwner** models the owner of the
deliveries visit by visit, because the send it makes may call back into it.

**MCJobQueue**, **MCScheduledRuns**, **MCManualRuns** and
**MCScheduledJobsRuntime** give model values and symmetry sets to TLC; the other
modules are instantiated by their configurations directly. **JobQueueProofs**,
**RelaySessionsProofs**, **ScheduledRunsProofs**, **ManualRunsProofs**,
**ScheduledJobsRuntimeProofs**, **DaemonRpcProofs**, **WorkspaceSnapshotProofs**
and **SubagentsProofs** (AgentRuns and CompletionOwner, which share no variable)
hold the proofs.

Definitions with a comment that says *mutant* are plausible mistakes in the
definition that follows them; they are not part of any specification. Every
property of a passing run is violated when the mutant named in `PROJECT.json`
takes the place of its definition.

## 3. Runs

| run | instance | distinct states | shows |
|---|---|---|---|
| `queue_attempts` | 1 run, 2 identities, 2 goroutines, 2 retries, fair | 99,644 | NoStrandedRun: an unfinished run always has a goroutine, a timer or an event that will move it; GaugesExact; FollowsLifecycle: refinement of RunLifecycle; FinishesWhenOnline |
| `queue_reuse` | 1 run ID, 2 incarnations, 2 goroutines | 448,383 | NoStaleTimer: no timer outlives the attempt it was armed for; OfflineAnswerIsFinal |
| `relay_sessions` | 2 connections, 2 nodes, 1 stream, fair | 15,189 | OnlyItsOwnEndTakesANodeOffline; ImplementsTransport: refinement of NodeTransport with its fairness; ReplacedSessionsEnd |
| `scheduled_runs_safety` | 2 occurrences, 1 crash, 1 late request, all errors | 936,024 | SkippedNeverRan, OneOwner, DeliveredIsRecorded, EndedIsFinal, ResultsAreSavedFirst |
| `scheduled_runs_restart` | 1 occurrence, 2 crashes, 1 late request, all errors, fair | 8,902 | RestartDrains, RecoveryEnds |
| `outbox_stuck` | 1 occurrence, no crash, fair | violation | the live outbox goroutine hangs on a stale row |
| `manual_runs` | 1 run, 2 consumers, 3 deliveries, fair | 31,086 | RunsOnce, NotRunNeverRan, EveryRunEnds |
| `job_scheduler` | 2 jobs, 2 occurrences, 1 edit | 3,561,511 | TimersFollowSchedule, ClaimedIsRun, CloseReturns, RefreshIsComing |
| `daemon_rpc` | 2 calls, 1 subscription, 3 sockets, fair | 145,072 | SubscriptionsRestored, CallsSettle |
| `workspace_snapshot` | 2 organizations, 2 projects, 2 loads, 3 commands | 1,413,256 | SelectionSurvivesLoads, NoLostInvalidation, DeletedStaysDeleted, VisibleStaysVisible, AppearsInItsOrganization |
| `agent_runs` | 3 runs, 2 reader slots, fair | 390,230 | SlotsExact, WriterAlone, NoLostWakeup, OutcomesAgree, ClosedForGood, NoOvertaking, InterruptedRunsEnd |
| `completion_owner` | 3 runs, 3 retries, fair | 5,772 | AcceptedOnce, NothingForgotten, Delivered |

Invariants that TLAPS proves for every instance (section 5), the type invariants
among them, are not repeated by a run. The modules without proofs still state
their TypeOK; as an INVARIANT of the run of its module each one holds.

*Bounds.* Runs of the queue interact only through the loops of a disconnect or a
reconnect and through the gauges: one run suffices for the properties of one
run. The loops over two runs of one node were checked with the same module and
`RunIDs = {r1, r2}`, one retry (145,156 states). Two goroutines are a race; two
retries make an attempt that is neither first nor last. `MaxIncarnations` 2 is
one reuse of a run ID; undelivered session events of one kind are bounded by
`MaxPendingEvents` 1, and an old event overtaken by newer changes still occurs.
Two connections are one replacing the other; that a chain of replacements adds
nothing is proved (section 5), and three connections were checked as well. Two
outbox rows let the recovery work on one while the worker executes the other; a
second crash in `scheduled_runs_restart` hits the recovery of the first. Three
deliveries are a winner, a loser and one whose answer is lost. Two jobs are one
in the worker while the other finds the due queue full; with one edit the flag
`pending` of the relay handler is never set, so RefreshIsComing was also checked
with one job and `MaxChanges = 2` (944,505 states). Three sockets are a first, a
lost one and a successor. Three sub-agent runs are two readers and a writer
behind them; three completions are one behind and one ahead of the loop. Three
commands are a creation and a switch there and back, or a creation, a deletion
and a selection; four were checked once (4,206,310 states, both organizations
listed in the beginning).

*Deadlock* is checked except where a run really ends: all connections, sockets,
edits, commands or child sessions of an instance may have come and gone.

*Fairness.* Weak fairness for the steps of goroutines that are running: the Go
scheduler runs them. Strong fairness where the model's bound on goroutines, not
the code, could keep a timer callback or an event handler from starting, and for
a failing read on a closed connection. In ScheduledRuns an agent process ends
(it is killed after its timeout), and strong fairness for listing rows and
finishing a pass says that a query which is repeated for ever succeeds at last.
A missed deadline or a 4xx answer ends an attempt of recovery, which then waits,
without a timer, until a reconnect or an invalidation asks for the next one
(`scheduled_jobs.go:203-220`). Nothing in the daemon makes the refusals stop or
the request come, so both are premises of RestartDrains and RecoveryEnds and not
fairness of the specification: RefusalsEnd and ParkedIsAsked. Without them a
daemon that stays logged out never enables its scheduler. What the properties then
say is that no refusal, in whatever step, leaves a row behind that a later
attempt cannot settle.
In ManualRuns only the daily clean-up is fair. In AgentRuns the timers fire, the
transcript is written and a synchronous loop goes on; a session may never
assemble and a turn never settle. Of the SDK one thing is assumed, as the premise
of InterruptedRunsEnd: `abort()` settles for a session that was never prompted and
whose runner has completed (AwaitsAbort), because on that path the grace timer is
gone and the task waits for `abort()` alone. In
CompletionOwner a synchronous call returns or throws and timers fire; nothing
says that a send ever succeeds. In DaemonRpc the timers fire and an opening
socket opens or fails; answers are not assumed. Nothing is assumed of nodes,
callers, the network or the user. LocalScheduler and WorkspaceSnapshot are
checked for safety only: a step that remains enabled stands for progress
(CloseReturns), a pending flag or timer for what will follow
(NoLostInvalidation, RefreshIsComing).

## 4. Findings

`outbox_stuck`: a row is listed while its run executes, the executor finishes
and unregisters before the row's turn comes, and recovery works from the stale
copy; saving its result can never apply, counts as retryable, and the only
outbox goroutine retries until the daemon restarts. `scheduled_runs_restart`
shows that a restart does repair it.

Other behaviour that the models reach and that a reader of the code may not
expect. The properties name these cases as exceptions, or the module that meets
them allows them:

* *A run skipped although its node is online.* The relay's README
  (`apps/relay/README.md:87`) says a run is `skipped_offline` when its node has no
  active session. `skipOffline` acts on an answer from before the lock was
  released, or on a failed write to a connection just replaced.
* *A loss announced twice.* `session_test.go` expects one event per session;
  `DisconnectSession` tests and marks in two critical sections (`session.go:251`),
  so a connection that fails while it is replaced is announced twice, the second
  time to a queue that may already have sent runs over the new connection. The
  queue survives it (NodeTransport allows it), at the price of a retry.
* *A daemon that cannot stop.* `recoverAndEnable` closes the scheduler while it
  holds `lifecycleMu` (`scheduled_jobs.go:165`); if the due worker is about to
  register or unregister its run, both wait for ever. `CloseReturns` excepts
  exactly this state, `Caught`, which TLC reaches in 18 steps.
* *A job that sleeps until the hourly reconcile.* An answer whose occurrence has
  passed on arrival arms nothing and asks for nothing; a snapshot applied between
  the answer of a claim and `rearmClaimed` arms nothing either. These jobs are
  `excused` in TimersFollowSchedule.
* *A refresh request in a channel nobody reads.* `RequestRefresh` chooses the
  channel by the state it has read and sends afterwards; a request that still
  saw "recovering" is read by nobody once the runtime is enabled.
* *A subscription that is not restored.* The client restores subscriptions when
  the status goes from disconnected to connected (`client.ts:209`). A socket in
  CLOSING that `ensureSocket` replaces was never announced as disconnected.
  SubscriptionsFollow, the property without the exception, fails.
* *A closed workspace that comes back.* A load under way that still lists a
  workspace shows it again after it was closed, and the "closed" event is skipped
  because the store no longer has it (`workspaceEventHandlers.ts:343`); projects
  have a fence against this, workspaces have none.
* *A removed workspace that stays active.* After the last organization was left, a
  load empties the workspaces (`workspaceSnapshotFlow.ts:114`) and resets neither
  the projects nor `activeWorkspaceId`. That the active workspace is one the store
  has is therefore no property of this code.
* *A load that moves the user back to a folder.* `restoreFolderSelectionIfNeeded`
  (`localFolderCommands.ts:73`) restores the folder that was active when the load
  began, also if the user has selected a workspace since. SelectionSurvivesLoads
  excepts this step and fails without the exception.
* *A slot that waits for the SDK.* The comment in `cancel()` (`agentRunner.ts:176`)
  says never to wait for `abort()` beyond the settle bound. For a run cancelled in
  assembly the completion comes first and clears the timer behind that bound.
* *A turn that is no longer waited for.* After the grace period a child turn that
  ignores its abort gives up its slot and may still run beside a writer;
  WriterAlone speaks of the turns that are waited for.

## 5. Proofs

The theorems hold for every value of the constants that meets the named
assumptions: natural bounds and a finite set of run IDs for the queue, disjoint
sets of scheduled and manual run IDs for the records, a natural horizon, cut-off
and bound on edits for the scheduler, disjoint calls and subscriptions for the
RPC client, no assumption on the sets of nodes,
connections, streams, organizations and projects but that the values "none" are
not among them. Each inductive invariant was an INVARIANT of a TLC run before it
was proved.

* `JobQueueProofs!TypeCorrect`. TypeOK is not inductive: a goroutine dereferences
  its run, so the invariant is TypeOK with Bookkeeping, which says that run IDs
  map to their latest object or to none and that every pointer in a goroutine, a
  loop or a timer names an object that exists.
* `JobQueueProofs!RetryLimit`, `!Refinement`, `!OfflineIsFinal`. From the
  same invariant: a run is retrying only below the limit, every step of the queue
  maps to a step of RunLifecycle for every run it touches (a disconnect moves
  many) or to a stutter, and a skipped run never moves again.
* `JobQueueProofs!MetricsAreExact`. A gauge counts the runs whose status is in one
  set (Counts); a step changes it by the sizes of the sets of runs that enter and
  leave (CountMoved), also when one disconnect fails some runs and retries others.
* `JobQueueProofs!EveryRunIsWatched`, `!TimersAreCurrent`. QueueInv proves the two
  together, since neither is inductive alone: a timer that fires hands its run to
  a goroutine that carries it only because the timer was current, and the timer
  that is armed is current only because a run that is waited for stays tracked. A
  third part is needed for a send that fails, which gives the run up and clears
  no timer: SendersAlone says that an attempt has one sender and, while that
  sender is under way, no timer. Then every step hands each run it stops
  watching to somebody else: the sender to the timer, the timer to its callback,
  the callback to a retry loop, the loop to the next "connected" event.
* `ManualRunsProofs!AtMostOneAgent`, `!NoAgentWhenNotRun`, `!SuccessHasAgent`,
  `!TypeCorrect`. The inductive invariant RunInv adds to TypeOK: Fresh, a run that
  is absent or pending has no agent and no goroutine past its start; Winner, at
  most one delivery of a run is past its start; Counted, the number of agents
  follows from where that delivery is. The start transaction is the only step
  that makes a winner, and it takes the run out of pending.
* `RelaySessionsProofs`. For any number of nodes, connections and streams: a node
  goes offline only by the end of its own session (OnlyOwnEnd), a connection that
  is read and not replaced is its node's session (Reached), a replaced session has
  somebody who ends it (EveryReplacedIsEnded), no loss is swallowed
  (NoLossSwallowed), no stream owner leaks (NoOwnerLeaks), and every step is one
  of NodeTransport (TransportRefinement, the safety part of ImplementsTransport). The invariant says
  who has which session in hand: a session is begun once and registered only by
  its own goroutine (BegunOnce, MapOwned), what a goroutine holds as *old* was
  replaced and is held by nobody else (OldIsReplaced, OldIsHeld), and one that is
  marked was marked by a goroutine on its way to the announcement (LossIsMarked,
  EndedIsDown). For the refinement, every lock region maps to one step of
  NodeTransport or to a stutter; UpsBounded keeps the count of pending
  announcements equal to the goroutines that will deliver them.
* `ScheduledRunsProofs`. A run recorded as skipped never had an agent process
  (SkippedRunsNeverRan), the recovery never works on the run the due worker is
  executing (RunsHaveOneOwner), a row that was delivered and not rejected belongs to
  a run that has ended at the API (DeliveredRowsAreRecorded), an ended record is
  final (EndedRunsAreFinal) and a result the API records is in the daemon's outbox
  at that moment (ResultsWereSaved). All five hold
  across crashes. The invariant says what may be concluded from state that is
  older than the record: what the worker, a listed copy of an outbox row, the
  recovery or a request still on its way says of a run remains true until the
  record of that run has ended (WorkerOK, ListedOK, RecoveryOK, LateOK), records
  and rows agree (RecordsOK, OutboxOK), and only then a step that acts on a stale
  copy can be shown to change nothing it should not.
* `WorkspaceSnapshotProofs`. A load does not move the user off a workspace that is
  there (SelectionsSurviveLoads), no invalidation is lost (InvalidationsAreKept), and for the snapshots that
  replace the store: a deleted project does not come back, a visible one does not
  vanish, and a project appears in its own organization only, unless the session
  lists none. The invariant says what a load whose answer will be applied may rely
  on (LoadOK): no project is being deleted, its organization is still the selected
  one or the session lists none, and the projects it listed are those the backend
  had and still has, with every workspace among them that is not closed since; CreateOK, DeleteOK and HomeOK say where
  the backend, the store and a command stand for one project, and RefreshOK that
  a refresh which loads has left room for the timer its end may set.
* `ScheduledJobsRuntimeProofs`. A claimed occurrence stays with the worker until it
  is executed (ClaimedRunsAreRun), an edit is on its way to a refresh
  (EditsAreSignalled), at rest the timers are the API's schedule
  (TimersAreTheSchedule) and a Close is stuck in the one state that is Caught and in
  no other (CloseGetsStuckOnlyWhenCaught). The invariant says who has what in hand:
  a claim is in the channel or with the worker, never in both and never beside a
  timer of its job (ClaimsOK, TimerOrClaim); the mutex `api` has one call, which
  belongs to the goroutine whose state says so (CallsOK), hence an answer is the
  API's schedule until the next edit (AnswerOK); a scheduler that was not started
  has done nothing (LifecycleOK); Close has cancelled what it waits for
  (ClosingOK). TimersFollowSchedule speaks of rest only and is not inductive:
  TimersOK says for every state without a refresh under way that the timer of a
  job is the schedule's, or that a granted claim of it carries the next occurrence.
  Excused jobs are the ones for which the code waits for the hourly reconcile, and
  no others. In EditsAreSignalled a request that recovery leaves unread in its
  channel when it enables the runtime (`scheduled_jobs.go:307`) counts as a signal,
  although nobody reads it again: that edit waits for the hourly reconcile.
* `SubagentsProofs`, for AgentRuns. Slots are neither lost nor given twice
  (SlotsAreExact), a writer runs alone (WritersAreAlone), the queue does not sleep while its head
  could run (NoWakeupLost), the record and the settlement of a run agree
  (OutcomesDoAgree), nothing starts after shutdown (ShutdownIsForGood) and no run
  overtakes another (FirstComeFirstServed). Every change of the queue is a drain,
  so the queue's part is the state a drain leaves behind: the counters are the
  tasks that hold a slot, a writer holds them alone, and the head cannot start
  (HeadWaits; also in the middle of the shutdown loop, which is why NoLostWakeup
  alone is not inductive). The part of a run, RunOK, says that the stage of its
  runner follows from its record and back: a record ends before its runner only
  for a run that was interrupted, and a runner before its record only for one whose
  task still awaits cancelRun.
* `DaemonRpcProofs`. Subscriptions are restored (Restoration), a lost connection is
  always being reopened (KeepsReconnecting), the announced status is true
  (ShownStatus) and no call waits for an open that nobody makes (WaitsAreLive).
  The four hold together only with
  OpensWhenNeeded (an open is under way only while no socket is open) and
  FirstOpenSendsAll (before the first socket every subscription still waits, so
  opening it, which restores nothing, loses none).
* `SubagentsProofs!TakenOnce`, `!NoneForgotten`, `!OwnerTypeCorrect`, for
  CompletionOwner. SendUnderWay ties the loop, the entry being sent and
  the count of deliveries together: until the send settles nobody changes that
  entry but a shutdown, and no new owner takes over. RetriesCounted says that an
  entry is exhausted exactly when its retries are one past the delays.

Only model-checked: everything under fairness, the liveness half of
ImplementsTransport included, and CloseReturns: liveness and ENABLED are out of
the prover's reach. CloseIsNotStuck, which is proved, is CloseReturns with the guards
of the steps written out in place of ENABLED; that those guards do enable a
step was checked with TLC on the instance of the run.

## 6. Not modelled

* Time itself, except in LocalScheduler: every timer may fire at any moment, and
  any set of finished runs may be old enough to prune.
* Payloads, output texts, prompts and transcripts; authentication and
  permissions; HTTP and JSON parsing; the client passthrough and organization
  broadcasts of the relay; its metrics cache.
* The relay's heartbeat: a half-open connection is an online node that does not
  answer. A subscription whose stream owner disconnects between `setStreamOwner`
  and `addStreamSub` (`server.go:377`) receives nothing and harms nobody.
* The rows of jobs beyond "active" and the next occurrence: editing, deleting and
  reassigning are one flag, so the resume that undoes a delete
  (`scheduled-job-service.ts:377`) cannot be seen.
* In WorkspaceSnapshot the creation and renaming of workspaces, the saved project
  filter, which local folders the store lists, and `updateProjectConfig`, which
  holds the same mutation fence as a deletion and so only skips more loads.
* Dispatches the relay refuses as `invalid_payload`, which change nothing, and in
  ScheduledJobsRuntime the goroutine `runOutboxRetries`: Close waits for it too,
  but it starts when recovery is done and watches the context wherever it waits.
* User interfaces, generated icon maps, landing pages, migrations, database
  schemas, agent set-up, git and PTY handling: most of the repository's lines.
  They render, declare or call other programs and have no interleaving of their
  own. The components marked `not_modelled` in `PROJECT.json` give the reasons.

## 7. Plan

1. Job life cycle (pause, resume, delete, reassign) with full rows; cron
   evaluation against a naive reference.
2. Refresh tokens: rotation at the API against the cloud session of the daemon.
3. Daemon terminals (remote subscriptions) with the relay's streams; workspace
   creation with rollback.
