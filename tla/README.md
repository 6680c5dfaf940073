# Formal verification of reins-core

TLA+ models of the parts of reins-core whose correctness depends on the order
in which things happen: background tasks and the delivery of their results, the
cron scheduler, the agent loops with their tools and sub-agents, the
conversation behind a chat post and the connections that watch its answer, the
channels, the lifecycle of the daemon, of an integration, of the browser, of a
plugin, the stores on disk (memory, credentials, sessions, documents, watchers,
configuration) and the sign-ins. TLC checks every model on small instances;
TLAPS proves the properties that matter most for every value of the constants.

Contents: 1 how the code runs and how that becomes TLA+; 2 the system's parts;
3 the modules, against the code; 4 the runs; 5 fairness; 6 the proofs; 7 what
the code does that one might not expect; 8 what is not modelled; 9 the plan.

## 1. How the code runs

The daemon is one JavaScript thread. A function runs uninterrupted from one
`await` to the next, so an **action is the code between two awaits**, and the
models explore every interleaving of calls ("fibers") at awaits. Three rules
follow from the runtime and are used throughout:

* A SQLite statement (bun:sqlite) takes effect when it is issued, even inside an
  `async` function; its caller sees the answer after the await. File writes take
  effect in a step of their own, between the call and its continuation; where a
  write is in place, a crash or a failure in it leaves a torn file.
* A promise that settles only *schedules* its continuation. "Settled" and
  "continued" are different states wherever something can happen in between
  (a semaphore's grant, an abort between `runTask` and its result).
* A signal, a timer, a message of a worker thread, a socket's event or a request
  of a client may come at any await. A crash loses every variable and keeps
  tables and files.

A variable is named as the field or local it stands for, an action after the
function whose piece of code it is. Variables marked *history* in the modules
exist only for properties. A definition whose comment begins with "Mutant" is
not used: it is the buggy form of the definition after it, kept to show that
some property would notice.

## 2. The parts of the system

| part | state | operations | what is hard | what makes it correct |
|---|---|---|---|---|
| **tasks** (`tasks/`) | rows in SQLite, pending ids, running workers, delivered flags | enqueue, spawn, cancel, retry, shutdown, recover, deliver | several drains at once; abort against result; restart with running rows; overlapping deliveries | one run per task, nobody stranded in `running`, queued tasks served, a task marked delivered has been seen |
| **cron** (`cron/`) | job map, a file per job, running flag | create, update, pause, resume, remove, list, start, stop, tick | the tick holds a copy of a job while others change it; failing writes | active jobs have a next slot, stop stops, executions accounted for, removed stays removed |
| **harness** (`harness/`, `tools/executor.ts`) | messages and blocks of a turn, guard counters, permits | one turn with a provider, one run of steps, a pool of sub-agents | abort at any await, parallel tools, unanswered permission | well-formed requests, no tool after an abort or without permission, loops end, permits neither lost nor made |
| **conversation** (`conversation/`) | one row per conversation, session file | create, load, add, complete, fail, compact, delete, fork | whole-row load, edit, save; compaction that takes long; reads that write | no message lost, order kept, session not stuck compacting, one main session |
| **daemon: chat** (`daemon/server.ts`, `ws-stream-registry.ts`) | active executions, subscriptions in three maps | POST message, execution, WebSocket subscribe, close, heartbeat | disconnects in the subscription window; stop and crash | accepted posts are answered, announced answers are stored, abandoned executions are aborted |
| **daemon: process** (`daemon/runtime.ts`, `index.ts`) | daemon state, services, signal handlers | start, stop, restart, signals | overlapping calls, shutdown timeout, two handlers | no transient state for good, running means all services up, exit after the stop |
| **channels** (`channels/`, `daemon/channel-service.ts`) | poll offset, poll timer, gateway session, channel per id | add, enable, disable, remove; connect, poll, reconnect, resume | redelivery, heartbeat loss, overlapping configuration calls | no update dispatched twice, no channel that nobody owns, one link |
| **integrations** (`integrations/`) | state machine, tools, credential, queue, refresh timer | enable, disable, suspend, resume, service start and stop, token refresh | chained promises, half-failed disable, refresh beside a disable | one operation at a time, tools only when active, a disable leaves nothing, the vault keeps the accepted token |
| **browser** (`browser/`) | Chrome process, CDP socket, pending commands, watchers and their jobs | launch, restart, stop, connect, send, reconnect; watch, check | shared launch promise, a reconnect beside a disconnect, saves side by side | one Chrome; every command settles; watchers, jobs and file agree |
| **memory** (`memory/`) | rows, markdown files, notes, consolidation queue, chunks of documents | remember, update, forget, reconcile, ingest; consolidate; index, remove, watch | one record kept three times; retries of a batch; a source indexed by several calls | row, file and note agree, facts are not lost or doubled silently, chunks are of the text on disk |
| **providers, credentials** (`providers/`) | encrypted file, token pairs, sign-ins in progress | set, update, revoke; refresh by chat and keepalive; connect, callback | read-change-write of one file; refresh in parallel; two sign-ins | no credential dropped but by overlap, the session stays signed in |
| **plugins, skills, marketplace, conversion** | worker threads, registry, cached texts, directories | load, event, unload; scan, rescan; install, migrate; import | a worker that dies, a half-done installation, answers to conflicts | threads end, offered skills are those on disk, an import takes what it was given |
| **onboarding, environment** | checkpoint file, configuration file, runtime of the active one | next, back, skip; switch, reload | overlapping writes, leaving at any time | resume where one stopped; what runs is the environment's |
| **heartbeat, proactive memory, HTTP routes, CLI, voice, sync, persona, tools, logging** | little of their own, or a remote service's | request handlers, prompts, parsers | I/O and text | conversions |

Interactions. A POST stores the user's message and an empty placeholder, then
schedules an execution that waits up to a window for a subscriber, runs
`AgentLoop.runWithProvider` over the stored history, streams to the registry
and completes or fails the placeholder (`Conversations`, `StreamSubscriptions`,
`AgentLoop` are these three views of it). The provider takes its token from the
credential file (`CredentialStore`, `OAuthSession`), a channel's messages enter
by the same post (`TelegramPolling`, `DiscordChannel` under `ChannelService`).
Inside a loop the tool executor runs built-in tools, the active integrations'
operations, the browser, the cron tool (which calls the scheduler while its own
tick may be running an agent turn), `index_document`, `remember`, and
`delegate`, which runs a `SubAgentPool`. The worker manager runs agent turns of
tasks in the background and hands their results to `TaskDelivery`. The runtime
starts and stops the HTTP server and the other services; `main()` starts the
schedulers behind it. The system prompt of a conversation is of the active
environment (`EnvironmentRuntime`).

## 3. Modules and code

| module | stands for (below `src/src`) |
|---|---|
| `TaskLifecycle` | abstract: what a task promises, its legal status transitions |
| `WorkerManager` | `tasks/worker-manager.ts` over `task-queue.ts`, `task-store.ts`; implements `TaskLifecycle` |
| `TaskDelivery` | `tasks/delivery-pipeline.ts` for one task |
| `CronScheduler` | `cron/scheduler.ts` over `cron/store.ts` |
| `AgentLoop` | `runWithProvider` of `harness/agent-loop.ts` as `server.ts` calls it, turn after turn |
| `StepLoop` | `run` of `harness/agent-loop.ts` with `permissions.ts`, `tool-pipeline.ts`, `tools/executor.ts`, `doom-loop-guard.ts` |
| `SubAgentPool` | `harness/sub-agent-pool.ts`, its semaphore included |
| `Conversations` | a chat's posts over `conversation/manager.ts`, `sqlite-store.ts`, `compaction.ts` and the execution part of `daemon/server.ts` |
| `StreamSubscriptions` | the WebSocket handlers of `server.ts` with `ws-stream-registry.ts` |
| `SessionRepository` | `conversation/session-repository.ts` |
| `ChannelService` | `daemon/channel-service.ts` for one platform |
| `TelegramPolling`, `DiscordChannel` | `channels/telegram/channel.ts`; `channels/discord/channel.ts` and `gateway.ts` |
| `DaemonRuntime`, `DaemonMain` | `daemon/runtime.ts`; `daemon/index.ts` with the signal handlers, extending it |
| `IntegrationLifecycle` | `integrations/lifecycle.ts`, `start`/`stop` of `service.ts` |
| `OAuthRefresh` | `integrations/credentials/oauth-refresh.ts` |
| `BrowserService`, `CdpClient` | `browser/browser-daemon-service.ts`; `browser/cdp-client.ts` |
| `BrowserWatchers` | `browser/watcher-cron-manager.ts`, `watcher-registry.ts`, `watcher.ts` |
| `SkillWatcher`, `SkillInstall` | `skills/` scan, registry and watcher; `marketplace/install/installer.ts`, `migration/` |
| `PluginHost` | `plugins/loader.ts`, `plugins/sandbox/` |
| `OpenClawImport` | `conversion/` and `daemon/conversion-routes.ts`, beside `agents/store.ts` |
| `MemoryStore` | `memory/storage/memory-repository.ts`, `memory/services`, `memory/io` |
| `Consolidation` | `memory/consolidation/`, `cron/jobs/memory-consolidation-job.ts` |
| `DocumentIndex` | `memory/rag/` indexer, sources and watch service, the tool and the routes |
| `CredentialStore`, `OAuthSession`, `OAuthConnect` | `providers/credentials/store.ts`; the two records of the Anthropic sign-in with the keepalive and `auth-service.ts`; the sign-in flows |
| `Onboarding` | `onboarding/engine.ts`, `checkpoint-service.ts`, `first-run-detector.ts` |
| `EnvironmentRuntime` | `environment/switch-service.ts`, `config/store.ts` and what `server.ts` runs for an environment |
| `MCAgents`, `MCConversations`, `MCServices`, `MCStores`, `MCUpkeep` | instances for TLC; each runs components that share nothing side by side: `part`, chosen by the initial state, says which one moves |
| `MCCronScheduler` | the scheduler's instance, on its own and as the base of two of these |
| `...Proofs` | theorems and their proofs |

**WorkerManager.** `store` is the status column, `pending` is
`pendingTaskIds`, `running` the keys of `runningWorkers`, `abort` each
controller's reason. The fibers are calls of `spawn()` and each task's
`executeWorker`; `pc` is the await a fiber is at, `cur` and `won` the task and
the answer it waits for. `Drain` is one evaluation of the loop condition of
`drainQueue` with the `shift` and the `queue.start` that follow without an
await: that the worker is registered only in the continuation (`StartWorker`)
is what the finding on the pool size is about. A store call may throw
(`StoreThrows`), a crash keeps only `store`.

**TaskDelivery.** Each call of `deliver()` stores its result, sends it to the
TUI or to every enabled channel, and marks the row in a later step; `seen` is
what the user has received.

**CronScheduler.** `jobs` is the Map, `disk` the files, `fiber[f]` the await of
the tick or of a user's call with the job (or list of jobs) it holds in locals.
`runTick` iterates the live Map, so `todo` is the set of entries its iterator
has not reached, and a job re-inserted during the tick is reached again
(`Reaches`). The schedule is reduced to slots every `Period` minutes; a one-time
schedule is a job whose `maxRuns` is 1.

**AgentLoop.** `history` is stored, `messages` is what a turn adds to it for the
provider; `Expand` is the daemon's expansion of stored blocks into provider
messages. Message contents are groups of blocks with the ids of tool calls,
because pairing is what properties are about. The consumer of the generator may
hold the loop at each yield, so an abort fits between `tool_call_start` and the
call.

**StepLoop.** Calls are named by their signature. Delegation and permission run
one call after the other (`Turn`), what is left in parallel. `guard` holds the
three fields of `DoomLoopGuard`.

**SubAgentPool.** Grants are handed over in `release()` before the waiter runs:
`granted` and `running` are separate places, and continuations run in the order
of the grants (microtasks).

**Conversations.** Each turn goes through the awaits of `handlePostMessage`,
`sendMessage`, the compaction gate, the execution and its `completeAssistant`
or `failAssistant`. `held` and `base` are the object a fiber has loaded and the
row it came from; `Save` replaces the whole row and records in `overlap` when
the row was no longer `base`. The calls of the session repository are steps of
their own: `sessions.json` is read (`SessionRead`), written back as it was read
(`WritesBack`, also by the `getMain` of the gate) and, by an update, written
once more; each may fail, and `leftover` records the three ways in which a mark
is left behind. Only the turns of this conversation use the file here; those of
other conversations would meet it in the same steps.

**StreamSubscriptions.** The three maps are three variables; `exec` says
whether an execution is waiting in its window or registered in
`activeExecutions`. A peer may go silent without a close; then only the
heartbeat or a failing send notices.

**ChannelService, TelegramPolling, DiscordChannel.** A channel object is named
by the call that created it. A poll loop of Telegram is the chain of a timer,
its poll and the timer that the poll sets: nothing names it in the code, so that
two of them are possible and must be excluded. A gateway keeps no record of a
link that is still opening; `links` are numbered as they are dialled.

**DaemonRuntime / DaemonMain.** `sweep[c]` is how far the `stopServices` of call
`c` has got: it goes on behind `withTimeout`, so it may outlive its call.
`DaemonMain` adds the process: `main`'s start, the handler that `runtime.start`
installs and the one `main` installs after it.

**IntegrationLifecycle.** `tail` is the entry of `operationQueues`,
`previous[o]` the promise that call was chained to. Operations are the awaits of
adapter, cleanup handler and vault, each of which may fail. A credential may be
stored at any time.

**OAuthRefresh, OAuthSession, OAuthConnect.** Tokens are numbered in the order
in which the provider, which is external, issues them; it accepts the newest. A
refresh that callers join is named by the call that began it.

**BrowserService, CdpClient.** A process is named by the call that spawned it, a
socket by its number; `launch` is `launchPromise`, `connecting` is
`connectPromise`, `attempt` is `reconnectPromise`. The browser sees its client
as connected or not, the client sees Chrome as sockets that open or fail.

**The stores.** `MemoryStore` keeps row, file and note of each memory apart, with
the transaction that encloses a file write; `CredentialStore` is one file that
calls read and later write as a whole, and a call is answered only after the
chmod behind its write; `SessionRepository` repairs and rewrites
its file at every call; `DocumentIndex` follows each indexing call from file to
file and batch to batch; `BrowserWatchers` relates registry, jobs and file;
`EnvironmentRuntime` relates the name in the configuration to what runs.

**The rest.** `PluginHost` counts calls of a kind in a bag; `SkillWatcher` reads a
SKILL.md twice as the code does; `OpenClawImport` names an item by what the
installation calls it and its content by whose it is; `Consolidation` follows the
written records one by one; `Onboarding` lets keys be pressed while a call is in
progress; `SkillInstall` follows the steps of an installation and who is told
about them. Each module's header says what is left out.

## 4. The runs

Components that share nothing are checked side by side: an instance has one
part per component, the initial state chooses one `part`, and only that one
moves. A run with several parts is thus the union of the runs of its parts.

| run | parts, instance and bounds | distinct states | shows |
|---|---|---|---|
| `agents` | workers: 2 tasks, 2 spawners, pool of 1, one crash, shutdown or failing store call; delivery: 2 deliveries of 2 results over 2 channels; turn: 2 turns of 2 steps of 2 calls, aborts; loop: 4 kinds of tool, 3 steps of 2 calls, limits of 3, window of 4; pool: 4 sub-tasks on 2 permits | 341 254 | `RunsOnce`, `NoOrphanRunning`, `AbortBeatsResult`, `RefinesLifecycle`; `DeliveredIsReceived`; `MessagesKept` (requests are paired, no tool's result is lost); `ToolsGuarded` (no tool without its permission, failures bounded); `PermitsConserved`; `NothingStartsAfterAbort`; `WorkEnds` |
| `chat` | turns: 2 posts, 2 recent messages kept, 1 ms, 1 restart; watch: 2 sockets, 2 streams; channels: 3 calls; telegram: 3 updates, 2 connects, 1 crash; discord: 2 links, 2 gateways, 2 connects | 363 407 | `OnlyOverlapLoses`, `AnnouncedIsStored`, `CompactionEnds`; `WatchersHeld` (who may watch is tracked, unwatched executions are aborted); `ChannelsServe` (no channel without an owner, one poll loop, a known link); `MessagesAnswered` |
| `services` | runtime: 3 calls, 2 services; main: 1 start, 2 stops; integration: 2 calls reused for ever; refresh: 2 refreshes, 3 tokens, 2 attempts; browser: 2 ensurers, 1 manager; cdp: 2 commands, 3 attempts, 3 sockets; skills: 2 directories, 2 names, 2 versions, 3 changes; import: 2 agents, an API key and an OAuth profile, 1 channel, 2 imports, 1 trouble; plugins: 2 loads, 2 requests | 501 098 | `TransientOwned`, `RunIsWhole`; `IntegrationsHeld` (tools only when active, a disable leaves nothing); `OneRefreshKeepsToken`; `BrowserHeld` (one Chrome, every waiter on a socket that is heard); `SkillsMirrored`; `PluginsHeld`; `ImportTakesWhatIsGiven`; `CallsEnd` |
| `stores` | cron: 1 job, 2 users, 3 calls, 2 minutes, a crash or a failing save; memory: 2 calls and the ingester, 3 ids, 1 crash; credentials: 3 calls on 2 records; session: a chat, the keepalive, a user, 3 pairs; documents: 2 documents, 2 calls, queue of 1, 2 changes; watchers: 2 requests, 2 numbers, limit 1, 1 fault, 2 starts; environment: 2 environments, 2 calls, 2 switches, 1 edit | 787 687 | `NoDeadActiveJob`, `StopHolds`, `RunsAccounted` (a count is undone only by a copy held meanwhile); `RecordsKept` (memory, index, watchers, environment); `CredentialsHeld` (nothing dropped but by overlap, the keepalive keeps the session) |
| `upkeep` | cron: 2 jobs, create, start and stop, 5 calls, 1 crash, 1 failing write; consolidation: 2 records, 3 texts, 2 facts, 2 runs, chain of 2; sessions: 2 calls, 3 sessions, 4 loads; connect: 2 sign-ins, 2 callers; wizard: 3 steps, 2 calls, 1 restart; install: 2 installs of 2 versions | 691 673 | `DueJobsRun`; `ConsolidationHeld`; `SessionsKept`; `ConnectHeld`; `SetupHeld` |
| `workers_limit` | `WorkerManager` without faults | violation | `ConcurrencyLimit`: two drains pass the check before either registers |
| `cron_remove` | `MCCronScheduler`, 1 job, 1 user | violation | `RemovedStaysRemoved`: the tick puts the job back |
| `agent_limit` | `AgentLoop`, 2 turns, 1 round of 1 call | violation | `RequestsPaired`, after a turn that met its step limit |
| `chat_order` | turns part, one millisecond for a question and its answer | violation | `HistoryInOrder`, on random ids |
| `services_exit` | main part | violation | `GracefulExit`: the process exits under a running stop |
| `memory_forget` | `MemoryStore` | violation | `ForgottenStaysForgotten`: the note is ingested again |
| `keepalive_guard` | `OAuthSession` | violation | `KeepaliveYields`: the keepalive does not see a chat's refresh |

The first five also check the type invariants of their modules (`...TypeOK`).
Every property is stated in words above its definition. Where one name stands
for properties of several components, its definition is their conjunction.

Why the bounds are enough. The races are between two: two drains, the tick and
a user (two, for create against create), two tools of a step, two executions,
two chained calls, two indexings, with a third present where a hand-over is
possible (three runtime calls: one that starts, one that stops, one that comes
late; four sub-tasks on two permits: two waiters behind two holders). One
failure of each kind reaches each error path; what follows it is the ordinary
code again. Limits are so small that they are met (a pool, a queue and a watcher
limit of one, a guard of three failures). Cycles are real where the code has
them: integration calls are reused without end, and a turn must end against a
provider that asks for tools for ever. One millisecond gives the two cases that
matter to the order of messages, same and later.

`OneTrouble` is a CONSTRAINT of three of the runs. In `agents` the workers meet
one of a crash, a shutdown and a failing store call, and only the last turn has
steps of several calls; in `chat` the turns meet one kind of trouble (a delete,
a stop or exit, the clock, an overlap, a session left marked without a crash, or a
changed prompt, the latter at the first post); in `stores` the scheduler meets a
crash or a failing save, not both, a memory crash excludes an edited note, the watchers
meet an overlap of saves or a failed save only with one start and no other
failure, and the environment meets at most one of a failure, overlapped switches
and a second start. Combinations are therefore not covered by TLC there; they
are by the theorems of section 6 where there is one. `FewTangled` is the constraint of
`services`: once a plugin's load has met an earlier sandbox or its calls, one
request at most is made of it and five of its calls are in progress at once;
`PluginsHeldAlways` has no such bound. TLC does not follow a
behaviour beyond a constraint, so the liveness properties of these runs are
about behaviours within it.

The cron part of `upkeep` has the calls create, start and stop of one user, which
is what `DueJobsRun` is about; every call of two users is in `stores`.
`SkillWatcher` assumes that two directories do not take the same name.

Liveness is stated with the exceptions the code really has: `WorkEnds` excuses
a task that is shut down, lost in a crash or refused by the store, and a loop
that asked the user; `CallsEnd` is about calls under way; `MessagesAnswered`
says that the chat comes to rest again and again, with every accepted message
answered or given up.

## 5. Fairness

| module | assumed | why |
|---|---|---|
| WorkerManager | weak fairness of fiber steps, of rejections and `finally`, of the timer while not aborted, of `runTask` settling once aborted, of recovery and of shutdown's resolution | continuations are run; `setTimeout` fires; a task without an abort need not end by itself |
| CronScheduler | of the tick and of each user's call in progress | the interval fires, file operations return, `onExecute` settles |
| AgentLoop, StepLoop | of the loop's step; not of a user's answer to a permission request | streams and tools are bounded by timers |
| SubAgentPool | of some task's progress | microtasks; a task that ignores its abort still ends through its loop |
| Conversations, TelegramPolling, DiscordChannel | weak, of the daemon's next step (`DaemonStep`); **strong**, of an answer from outside (`OutsideAnswer`: fetched updates, an opened gateway, its hello, its acknowledgement) | provider and window time-outs, awaited I/O returns; the outside is asked again and again and answers at last |
| DaemonRuntime, DaemonMain | of the timers; of main and its handler | services need not answer, `withTimeout` is there for those that hang |
| IntegrationLifecycle, OAuthRefresh, BrowserService, CdpClient, SkillWatcher, OpenClawImport, PluginHost | of each call's next step | adapters, handlers, the vault, file operations and timers answer: nothing else bounds them in the code |

No call of a client, no change from outside and no crash is fair. The `stores`
run states safety only.

## 6. What is proved

All proofs are by tlapm, for arbitrary constants under the named ASSUMEs of the
modules (finite or infinite sets of tasks, jobs, calls, clients and connections,
any bound), and so also without the constraints of the runs. The proof module of
a composition extends the module of its run, so a theorem is about the very
formula that TLC checks; a component that shares a composition with others is
proved on its own first, and the theorem of the composition follows because a
step of one component leaves the variables of the others unchanged.

* **`CronSchedulerProofs`**: `TypeCorrect`, `NoDeadActiveJobHolds`,
  `StopHoldsAlways`, `RunsAccountedHolds`. The strengthening of the first three:
  not only the map and the files but every job *held by a fiber across an await*,
  and every list read from the directory, is consistent; otherwise a stale save
  would bring an inconsistent job back. `RunsAccounted` relates the count on disk to
  the executions. It is a theorem for any number of users whose calls overlap as
  they like, with every call of the scheduler. What can undo a count is a copy of
  the job that a call took before an execution and writes after it: an update that
  awaits its save, a second `createJob`, a list of the directory with which the map
  is filled again. The history variable `copied` collects the jobs executed while a
  user's call held such a copy, and the property claims nothing of them. Of every
  other job `RunsInv` says, for the file, the map, the copies held by calls and the
  job in the hands of the tick, by how much each may be behind the executions. That
  a call without a copy, such as a `remove`, a reload that has not read yet, a crash
  or a failed save, undoes nothing is what the proof shows.
* **`DaemonProofs`** (assumptions `ServicesRegistered`, `MainCalls`,
  `ServicesLimits`): of the runtime alone `TypeCorrect`, `TransientOwnedHolds`
  (whoever makes the transition into a state stays at the place that leaves it, and
  no other call can take the state away), `RunIsWholeHolds`. For the latter a
  starting call must be alone and have the services before its cursor up
  (`Undisturbed`), and no call other than a stop owns a sweep (`NoSweepElsewhere`).
  `TransientOwnedAlways` and `RunIsWholeAlways` say the same of the whole service
  layer: what `main()` and its signal handlers do to the runtime are calls of it, so
  its invariant carries over. `SkillsMirroredHolds`: the registry is compared with
  the disk skill by skill while the disk changes, so the invariant says what the
  scan has registered of the directories behind it (`ScannedSoFar`), that the watcher
  knows what is registered (`KnownIsRegistered`), and that a rescan has brought the
  directories it has passed up to date unless a change was missed
  (`PassedIsRegistered`). `PluginsHeldAlways`: the calls under way are a bag, of
  which the lemmas say what adding and removing does; a sandbox that still starts has
  not been used (`StartsUnused`), a live thread has someone who will end it
  (`Watched`), and as long as no load overlaps an earlier sandbox there is one
  (`OneSandbox`).
* **`ImportProofs`** (assumption `ServicesLimits`): `ImportTakesHolds`, an action
  property and two invariants of one inductive invariant. That an import replaces
  nothing unasked needs that everything the user has in a detected category is asked
  about, was answered, or was not seen (`AskedAbout`), also while the user edits
  behind the detector; that nobody holds an old copy of `agents.json` unless two calls
  overlapped in it (`OneCopy`); and that it leaves nothing out, that the categories
  behind the one being mapped have arrived (`ArrivedSoFar`), where skipped categories
  are never entered (`FirstThatRuns`, `NextCategoryIs`). The proof attempt corrected
  the property: a user's identity files are safe only while no two calls overlap in
  `agents.json`, because a lost update can hide the agent from the detector of the
  next import. The run's bound is too small to reach that; five edits and failures do.
* **`AgentsProofs`** (assumption `AgentsLimits` and those of `WorkerManager`): `AgentsTypes`;
  `DeliveredIsReceivedHolds` (a row that is delivered was received, by the call
  that marked it: `DeliveryInv`); `MessagesKeptHolds` (`TurnInv`: where a turn
  stands decides what of its messages is stored, `TurnShape`);
  `ToolsGuardedHolds` (`LoopInv`); `PermitsConservedHolds` (`QueueShape`: the queue
  of the pool holds waiting tasks, each once, so a released permit goes to one that
  waits); `NothingStartsAfterAbortHolds`, an action property.
  Of the worker pool: `TypeCorrect`, `RunsOnceHolds`,
  `NoOrphanRunningHolds`, `AbortBeatsResultHolds`, and `Refinement`
  (`Spec => RefinesLifecycle`). Types are not inductive alone: a fiber that awaits
  an answer must be concerned with a task (`AwaitsTask`). `RunsOnce` needs
  `RunInv`: a task that was run, or whose start is in flight, has left `pending`
  for good, and at most one start of a task is in flight. This is where the
  conditional UPDATE enters: duplicates in the queue are harmless because only one
  `UPDATE ... WHERE status = 'pending'` hits. `NoOrphanRunning` adds that the
  worker of a row that is executing has been run. The refinement needs, for each
  action, that the rows it changes go along an edge of the lifecycle.
* **`ConversationsProofs`** (assumptions `ConversationConstants`, `ChatLimits`):
  `ChatTypes`; `WatchersHeldAlways` (`FollowersTracked`: who followed an execution
  is tracked while its connection is open); `OnlyOverlapLosesHolds`,
  `AnnouncedIsStoredHolds` and `CompactionEndsHolds`, from `PostsInv`: a
  conversation held across an await is a past one, it extends the stored one
  unless saves overlapped (`HeldKeepsBase`), every event of an execution occurs
  once (`EventsOnce`), and a reply that will be announced is stored
  (`RepliesStored`); a mark on the session that nothing excuses is under the turn
  that will take it off; `ChannelsServeHolds`: a Telegram channel has one polling loop,
  whose offset is ahead of what it passed on (`OneLoop`, `Progressed`), messages
  are handed over in order, and a Discord channel has one link.
* **`ServicesProofs`** (assumption `ServicesLimits`): `OneAtATimeHolds` and
  `IntegrationsHeldAlways`: the promise chain of an integration is a queue by a
  rank that numbers the unsettled calls consecutively along `previous`, so only the
  first can be in progress; that dropping the map entry when the last call leaves
  keeps this shape is the heart of it. The tools then follow the state because one
  operation at a time moves both. `OneRefreshKeepsTokenHolds` (at most one refresh is
  under way, and who waits for it may try again after it fails).
  `BrowserHeldAlways` (one launch under way, one connection, what a dial opens is
  apart from it). `ServicesTyped` puts the types of all parts together.
* **`StoresProofs`** (assumption `StoresLimits`): `CredentialsHeldAlways`. What a
  writer of the credential file read is still what the file holds, unless writers
  overlapped, and what it holds is the change of the last call that wrote each
  record (`ReadIsCurrent`); a keepalive that is alone does not lose the token it
  got (`KeepaliveAlone`). `RecordsKeptAlways`, from one invariant for each of four
  stores. *Memory*: one call at a time is between BEGIN and COMMIT (`Writer`), and
  what it has written is the only difference between the rows, the rows saved for a
  rollback and the files (`FilesAgree`). *Documents*: one call at most puts in the
  chunks of a file, and those there are the whole of one text when none does
  (`DocWhole`); a file whose chunks are not those of its text has a change in the
  queue or in the hands of a call, or is yet to be read or scanned (`DocCovered`).
  *Watchers*: while no save met another or failed, the file holds every watcher whose
  creation returned and none whose removal did, and so does what the one call that
  saves is about to write (`WatchFile`); a number given in a process is that of no
  other call and of no watcher that lasts (`WatchNumbers`), and the limit is kept by
  counting with the call that still awaits its baseline (`WatchRoom`). *Environment*:
  unless switches overlapped one fiber at most stops and starts what runs, and the
  three fields of the daemon say what that is (`EnvTracked`, `EnvAimed`); unless
  renewals overlapped, a stale prompt is followed by another renewal (`EnvFresh`).
  `StoresTyped` is a corollary of the same invariants: types do not hold alone there,
  because a number, a queue or a counter keeps its bound only for who is about to use it.
  `RunsAccountedAlways` is the claim of `CronSchedulerProofs` for the composition.
* **`UpkeepProofs`** (assumption `UpkeepLimits`): `ConnectHeldAlways` (each sign-in
  that waits has its callback server, and one exchange has one call: `Servers`,
  `Waiters`, `OneCall`); `SessionsKeptAlways` (the repository a call holds agrees
  with the file unless calls overlapped, and what a call will say of a session is
  so: `RepoInHand`, `WillSay`); `SetupHeldAlways` (the key press in hand has
  answered every step before it, `KeyInHand`, `AnsweredSoFar`; an installation is
  in place before its callback, `InPlace`, `Callback`).
  `ConsolidationHeldAlways`: of a merge the invariant is about any prefix of the facts
  of a batch. What the first n facts make of the records (`Merging`) has every fact
  known or skipped, keeps the records that were there but for those it lists, and
  leaves them sound: a superseded record names its successor (`Backed`), a text that is
  there twice was superseded before the second (`Single`). That is shown fact by fact,
  `Reinforces`, `Creates`, `Skips` and `Supersedes` each preserving it. Writing the
  result one record at a time passes through states that are not the merge's: there the
  invariant says of every record that it is as merged, or still to be created with all
  later ones, or only not yet marked as superseded (`HalfWritten`), and that what a
  failed attempt leaves behind is again a sound beginning for the next run.
  `UpkeepTyped`: for the wizard and the installation the invariants above hold only
  while nothing overlaps, so their types have invariants of their own, which hold also
  when calls do. A key pressed during a call takes the wizard past its last step, once
  at most for each call that executes: its index and the number of those calls
  together stay below the number of steps and of calls (`WizardReach`).

Only model-checked:

* the liveness properties (`WorkEnds`, `MessagesAnswered`, `CallsEnd`, `DueJobsRun`).
  Liveness under fairness, and ENABLED, are beyond the proof system as it is used here.

Every safety property that a passing run checks, invariant or action property, is
stated by a theorem. Two of the proofs made the models more exact.
`ConsolidationHeld` used to say that no text is alive twice. The induction over the
facts of a batch failed there for a reason: facts A, B, A, where B contradicts A,
create a second A beside the first, which is superseded and no duplicate any more;
and when the run gives up before the superseded records are written, both are alive.
The bounds of the run were too small for a chain of two. What holds is that a record
older than the second A supersedes the first, which is now the property, and the
bounds reach it. Likewise the first duplicate is taken, not the one updated last, as
`findDuplicate` does. Where the merge was a fold it is now a recursive function over
the number of facts merged (`Merging`), so that its definition can be proved, once,
and be used for each prefix: the least-number principle stands in for the induction
theorems, which take an operator and cannot be used.

## 7. What the code does that one might not expect

Seven runs end in a violation, each of something a test, a comment or a doc
says; `PROJECT.json` lists them under "findings" with the line they contradict.
What follows is behaviour of the code that the models contain and that no
property forbids, because nothing in the repository promises otherwise.

**Tasks and cron.** `shutdown()` of the worker manager awaits a snapshot: a
start in flight registers its worker afterwards, unaborted and unawaited. A
crash or a rejected send leaves a result received but not marked delivered.
`listJobs()` refills the map with files read before another fiber changed them,
so a job may execute once more than `maxRuns`; a job paused while its tick is
under way is still executed.

**Agents and chat.** A tool that times out runs on (`tools/executor.ts:108`);
text streamed in the step in which a turn is aborted is not stored; an abort does
not end an unanswered permission request. Two saves of one conversation that
overlap undo one another, a compaction that took long included. A crash leaves
placeholders pending and may leave the session marked as compacting, which
disables compaction from then on; so does a post that reads `sessions.json`
while another compacts and writes it back after the end (`loadState` writes
what it read), and a failure of the update in the `finally` of `compact`, which
is ignored.

**Channels.** `addChannel` over an existing channel deletes the token it has just
saved; overlapping calls leave a channel without a handler or with two. On
Discord, a disconnect during a connect leaves a socket the channel does not
know; after RESUME nothing sets the status back to connected; heartbeat
acknowledgements are never checked.

**The process.** `stop()` during `start()` lets the start loop go on; the first of
two overlapping starts to end declares the daemon running; a stop that timed out
goes on to stop the services of the next start. A signal that comes while main
wires its services stops them, and the process stays up.

**Integrations and sign-ins.** A `disable` that fails half-way leaves an active
integration without tools; one that failed after the disconnect can be suspended
and resumed, and then offers the tools of a disconnected adapter.
`IntegrationService.stop` (`service.ts:228`) reads states without the queue and
skips an integration whose `enable` is in progress. A chat's token refresh
through one record leaves the other stale; `revokeProvider` leaves the first;
the keepalive is not rescheduled after a failed load. The local callback server's
`redirectUri` is never put in the authorization URL (`provider.ts:36`, `:54`); a
failing wait stops whatever sign-in is pending by then; a second wait on one
sign-in leaves the first hanging; a finished older exchange drops a newer
sign-in's verifier; a code whose tokens could not be stored is spent. A credential
call that fails at the chmod behind its write, or dies there, has changed the file
although it returned an error or nothing (`store.ts:669-680`).

**Browser.** A CDP disconnect during a reconnect, or a timed-out `waitForOpen`,
leaves a socket; a restart or stop that overlaps a launch can orphan Chrome. A
watcher resumed after a restart has no baseline, so `checkForChanges` throws
before its `try`: nothing is recorded or told ever again, though comments say
that watchers survive a restart. The baseline is never renewed, so one change is
announced at every check; the status stays "error" after one failure; overlapping
saves share one `.tmp` name, and a torn file is taken for an empty one. The
limit is checked before an awaited baseline; a job whose check is running is
saved again after its removal. The tool's watch action is never available in the
daemon (`server.ts:2556`).

**Memory.** A forgotten memory comes back at the next start, because its note is
not deleted; an update through the service is undone then, because the note is
not updated; a note without a row is ingested under a new id each time. A write
that meets another's open transaction fails. In the consolidation, records never
change, so after a restart all are consolidated again; a writer that throws
leaves candidates "processing"; only the latest contradictory record is
superseded; facts A, B, A store A twice, and both are alive when a run gives up before
it has written what is superseded; beyond `maxSupersessionChainDepth` a contradicting
fact is dropped while its candidate is marked consolidated; a memory forgotten during the
distillation still becomes a fact. In the index, a removal during a reindex is
undone; a change queued before a removal brings chunks back; an emptied file
keeps its chunks, a deleted file too when its source is indexed; a delete event
empties the whole source first; two indexings of one file mix two texts.

**Sessions, onboarding, environment.** Every read (`getMain`, `get`, `list`)
rewrites `sessions.json`, so one that overlaps a change can undo it; two first
calls make two main sessions; deleting the main session can make an archived one
main. In the wizard, `next()` past the last step announces completion and saves
nothing; overlapping key presses pass a step over, and their saves may land out
of order; `back()` is not saved. Overlapping switches leak a file watcher and may
mix two texts in the configuration; a switch that fails in `resolveAll` leaves
the configuration changed and the runtime as it was; a crash during the write
leaves it torn, and every later switch fails; a switch that ends after the
daemon's stop starts watchers again.

**Skills, plugins, imports.** The comment "Seed content cache for known skills" is
above a call of an empty method, so the first change of a skill is not seen; a
rescan asked for during a rescan is dropped; a renamed skill keeps its old name
registered; the skill tool returns the text read at start (`skill-tool.ts:62`). The
plugin sandbox's "CPU limit" is a wall-clock timer (5 s by default), so every
plugin is unloaded then; a thread ended by force counts as failed and starts a
second stop, whose end can drop the entry of a sandbox loaded meanwhile; two loads
at once make two sandboxes, and so does a load after one that timed out: `start()`
rejects without stopping the worker (`sandbox.ts:64-71`), and the two run side by
side until the time limit of each; a `start()` during an earlier stop orphans the new
worker. An import ignores the `conflictStrategy` of its request when there are
conflicts; no mapper tells "overwrite" from "merge"; an existing agent's files are
replaced although its creation then fails, and the report says "applied"; one
skip skips the category; an unanswered conflict blocks imports until a restart;
overlapping writes of `agents.json` lose updates; the import log is never written.
The conflict detector looks for the API key of a provider only (`conflict.ts:246-252`):
a token or OAuth profile stored earlier is replaced unasked. An OAuth profile whose
second write fails keeps a new access token beside the old refresh token; a failed
write of `channels.json` leaves tokens without their channels; a workspace that cannot
be listed ends the memory category.
A failing validation of an installation destroys the one before it; registration
changes nothing, because the registry is given a path and its error is caught.

Several of these parts (`OAuthRefreshManager`, `ReindexService`, the plugin
loader and sandbox, the consolidation, the onboarding engine, the installer, the
heartbeat, `DocumentWatchService`) are exported by the package and not constructed
by the daemon: the models are of what they do when used as exported.

## 8. What is not modelled

`PROJECT.json` lists every component with its status and the reason. Inside the
modelled ones these are left out: configuration and construction; event
listeners and logs; `TaskQueue.dequeue`, which nothing calls; fork, search,
titles and transcripts of conversations; the contents of messages, prompts and
tool results; the cron expression beyond its period; the event transport, retry
policy and context budget of the harness; HTTP routes that only pass a call on;
adapters and encryption of integrations; the embedding reindex. Wall-clock time
appears only as the order of events, the minute of the scheduler and the
millisecond of a message.

External code, modelled from its use: the semantics of bun:sqlite, the file
system, timers, process signals, worker threads, sockets and their peers.

## 9. Plan

* To model: the plugin lifecycle and its permissions, the heartbeat, the rate
  limits, backoff and cron expressions as operators checked against a reference
  definition, the retry policy and event transport of the harness, the reindex of
  embeddings, and the capture of memories.
* To prove: the properties of the parts to come, each with an inductive invariant
  that a run checks first.
