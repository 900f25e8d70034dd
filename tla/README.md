# Formal models of ObjectOS

TLA+ models of the parts of this repository whose correctness depends on the
order of events: queues that poll while callers cancel, hosts that supervise
child processes, workflow calls that overlap at every `await`, a cache held
together by four pointer maps, a client that syncs over an unreliable link,
migrations and dead letters in a process that may die between two writes.
Each model is translated from the source, checked by TLC on small instances,
and, for the properties listed under *Proofs*, proved by TLAPS for every value
of its constants.

Run one check with `tlc -config <run>.cfg <module>.tla` (the table of runs names
both), one proof module with `tlapm <module>.tla`.

## 1. The system

ObjectOS is a TypeScript monorepo: a kernel that loads plugins (`packages/*`),
a web client (`apps/web`) and an HTTP entry point (`api`). Everything runs in
single-threaded JavaScript, so what happens between two `await`s is atomic.
All races are between continuations: a call reads something, awaits, and acts
on what it read. Real parallelism exists only between a plugin host and the
child process or worker thread it supervises, and between client and server.

| Component | State it keeps | Operations | What is hard |
|---|---|---|---|
| Job queue `packages/jobs/src/queue.ts, storage.ts` | jobs in the storage, handlers, `processing`, `activeJobs` | enqueue, loop, processJob, retry, cancel, start, stop | polled copies go stale at awaits; a stop and an enqueue leave two loops; a job in backoff keeps its slot |
| Notification queue `packages/notification/src/queue.ts` | array of notifications, interval timer, channels | enqueue, tick, send, retry, clear, stop | ticks overlap slow sends; an array index is kept across an await |
| Plugin hosts `packages/storage/src/*-plugin-host.ts, *-entry.ts` | child, `alive`, pending calls | start, stop, restart, call, heartbeat; the child's messages and exit | late answers, timeouts, crashes during boot, stop and restart; who waits for whose exit |
| Watchdog `packages/storage/src/plugin-watchdog.ts` | per plugin: restart count, `restarting` flag, timer | watch, unwatch, destroy, tick, heartbeat, backoff, restart | overlapping heartbeats; restart limit; acting on an entry after a backoff; the owner calls the same host |
| Workflow engine `packages/workflow/src/api.ts, engine.ts, storage.ts, plugin.ts` | definitions by version, instances, history | register, start, transition, abort | calls work on copies and store them after arbitrary user code; histories are shared by all copies; a version that is registered again is replaced under its instances |
| Approval tasks `packages/workflow/src/approval.ts, api.ts` | tasks of a chain | chain, complete, reject, delegate, escalate | status tested before an awaited write |
| Flow engine `packages/workflow/src/flow-engine.ts` | current node, visits, history | execute | cycles, decisions, dangling edges, node limit |
| LRU cache `packages/cache/src/lru-backend.ts` | map, doubly linked list in four maps, expiry | get, set, delete, has, clear, sweep | pointer surgery at both ends; eviction at the limit |
| Sync engine `apps/web/src/lib/sync-engine.ts` | mutation log, conflicts, cursor | push, pull, resolve, clear | requests and answers overtake one another or are lost |
| Job scheduler `packages/jobs/src/scheduler.ts` | scheduled jobs with their next run, an interval | schedule, unschedule, reschedule, check, start, stop | a check that takes over a second overlaps with the next; a refused execution must stay due |
| Dead letters `packages/jobs/src/persistent-storage.ts` | job records and letters in a key-value store | letter, replay, purge | each is two or more calls to the store, and the process may die in between |
| Automation `packages/automation/src/queue.ts, triggers.ts, storage.ts, plugin.ts` | rules, cron timers, event subscriptions, the action queue | register, fire, execute, retry, start, stop, destroy | rules change while their jobs wait; several loops after a restart; counts written from copies |
| GraphQL `packages/graphql/src/dataloader.ts, pubsub.ts, subscriptions.ts, resolvers.ts` | the batches, caches and queued events of requests and subscribers | load, clear, mutate, publish, next, return | answers of overlapping batches; events and waiting promises |
| Realtime `packages/realtime/src/plugin.ts` | connected clients and their state, heartbeat timer | handshake, heartbeat, destroy; subscribe, broadcast | a handshake and a heartbeat await the auth service while sockets close |
| Remote loader `packages/federation/src/remote-loader.ts` | cache, states and loads of remotes | load, reload, unload | overlapping loads, retries, a timeout |
| Marketplace `packages/marketplace/src/*.ts` | registered manifests, installed plugins, upgrade history | register, install, upgrade, rollback, uninstall | what a long sequence of them leaves of the dependencies |
| Migrations `packages/storage/src/migration-*.ts` | applied migrations and the schema in a store | up, down | each is several awaited writes; processes overlap and die |
| Telemetry spans `packages/telemetry/src/span-manager.ts` | span buffer, counters, timer | span end, flush, export | flushes overlap and fail while spans end |
| Mutation queue of the web client, Agent, Analytics, Browser runtime, Permissions, Audit, Auth, I18n, Metrics, UI metadata, HTTP API, web pages, the ObjectQL and Redis back ends | records, counters, external services | | little or no ordering of their own (section 6) |

Interactions. The workflow plugin calls the API, which calls the engine and the
storage; approvals share that storage. The watchdog owns nothing but timers and
entries and acts through the host's `sendHeartbeat` and `restart`. Both queues
call user code (handlers, channels) and wait for it. The cache and the flow
engine are called and never call back. The sync engine calls the `sendFn` and
`fetchFn` it is given. The scheduler hands due jobs to the job queue, which takes
them or refuses; a job that fails for good there becomes a dead letter when the
storage is the persistent one. Automation listens to the events of the data
service and awaits the storage and the actions of its rules. GraphQL and realtime
stand between the data service and clients: the loader reads it through the
broker, mutations publish what they wrote, sockets relay broadcasts. The
marketplace's install route asks the validator and the sandbox review before it
calls the installer. Migration commands are separate processes over one store.

What makes each correct, in one line:

* job queue: every job runs at most once at a time, no oftener than configured,
  is settled in the end, and the books (`activeJobs`, 'running') are right;
* notification queue: a notification is being sent once at most, leaves the
  queue when it is finished and not before, and first sends are in order;
* hosts: one child at a time, every call is told its outcome once;
* watchdog: every restart is counted, none overlaps another, a failed plugin
  comes back or is given up at the limit and not before;
* workflow: an instance behaves as the state machine of its own version;
* approval: a decision stands and the record of who was asked is kept;
* flow: the history is a walk, decisions follow one rule, every flow ends;
* cache: the list and the map agree, the size is bounded, the victim is the
  least recently used key;
* sync: nothing is forgotten before the server accepted it, nothing skipped;
* scheduler: a due occurrence is handed over, and handed over once;
* dead letters: a letter goes only for a stored job or by age;
* automation: a job is executed by one loop, ends, and counts only successes;
* GraphQL: every load is answered, with its own record and no older than the
  call; a subscriber gets events in order;
* realtime: a client's state lives and dies with its socket, an expired session
  is closed where the auth service can tell;
* remote loader: the state shown is that of the cache and the loads;
* marketplace: what an installed plugin depends on is installed;
* migrations: records have no gap, and the schema is theirs when nothing failed;
* spans: each is exported, dropped with count, or in one place.

## 2. Modules and the code

Conventions. An action is what runs between two awaits; a call that waits is
a record with a phase (`pc`). User code (handlers, guards, actions, channels,
node handlers) is a nondeterministic outcome. Data that no property tells apart
is left out. A definition preceded by `Mutant:` is a plausible bug kept beside
the definition it would replace: it is not part of the model, and every checked
property is known to fail when one of them takes the place of the original.

| Module | Models | State and actions |
|---|---|---|
| `JobQueue` | `JobQueue` and the storage contract | `jobs` is the storage, `loops` the `startProcessing` calls, `runs` the `processJob` calls. `LoopWake` polls and `Dispatch` starts the polled copy; `CallHandler`, `Complete`, `HandlerFails`, `RetryJob`, `Finish` are the awaits of `processJob`; `Enqueue`/`EnqueueSaved` and `Cancel`/`CancelWrite` the two halves of those calls; `StopProcessing`/`StopTick` the stop and its polling |
| `JobLifecycle` | (abstract) the life of one job | submit, claim, run, settle or wait again |
| `NotificationQueue` | `NotificationQueue` | `inFlight` are the `processNext` calls at `await channel.send`, with the index each of them found; `disturbed` marks the overlaps that displace indices |
| `PluginHost` | both hosts and their child entries | `proc` the children, `events` what is on its way from them, `call`/`to`/`answers` the RPC; `isolation` tells the process from the worker host, whose `stop` waits differently; `stopping`, `restarters` and `first` are the `stop` calls that wait for the end of the child, which may be many, and which `restart` of whom goes on first; `maker` tells for whom a child was made |
| `PluginWatchdog` | `PluginWatchdog`; EXTENDS `PluginHost` and composes with it | each `watch()` makes an entry with its own `phase` (backoff and restart) and `restarts`, and what an old entry has under way goes on; `beat` tells which entry sent a heartbeat; `OwnerCall` is the owner's `start`, `stop`, `restart` and `callPlugin` on the watched host; the host's steps leave the entries alone |
| `Workflow` | API, engine, in-memory storage, the plugin's `transition` | `registered` holds the definition of each version, `RegisterWorkflow` replaces it in place (`storage.ts:33`); `call` are the API calls with their copies and the definition each has read; `history` is one array per instance, since all copies share it |
| `WorkflowMachine` | (abstract) one instance | create, begin, fire, abort; each step by one edition of the instance's version |
| `ApprovalTasks` | task part of the API, `ApprovalService` | each operation tests and then writes, two actions |
| `FlowEngine` | `FlowEngine.execute` | a visit of a node per step |
| `LruCache` | `LruCacheBackend` | `list` holds `accessOrder`'s keys, `head`, `tail`, `prev`, `next`; every method is one action, the sweep one per key |
| `LruOrder` | (abstract) a sequence of keys by recency | touch, insert, drop, clear |
| `SyncEngine` | `SyncEngine`; the server is external | `pushes` and `pulls` are the calls at their await; requests and answers may be reordered or fail |
| `JobScheduler` | `JobScheduler` over the storage contract | `check` are the runs of `checkScheduledJobs` with what each holds; a cron expression is a period; the writes of the calls may fail or be late |
| `DeadLetters` | the dead-letter part of `PersistentJobStorage` and `failJob` | one action per call to the store; `moving`, `replay` and `purge` are what lives in the process and is lost by `Crash` |
| `Automation` | `AutomationPlugin`, `TriggerManager`, storage, `AutomationQueue` | loops, jobs with the copy of their rule, cron timers, events between read and queueing |
| `GraphQL` | `DataLoader`, the update mutation, `PubSub`, subscriptions | batches under way, mutations between write, audit and publish, subscribers with queue or waiting promise |
| `Realtime` | the WebSocket server | `auth` is who authenticates: a service that can verify a session, the option `validator`, the service of `packages/auth`, or nobody; each connection from handshake to close, the heartbeats under way with the client each of them verifies |
| `RemoteLoader` | `RemotePluginLoader` | `Loads` are the calls at their await, with attempt and timeout |
| `Marketplace` | registry, installer, validator, install route | one action per call; `unchecked` marks the pairs that an upgrade or rollback has left unchecked |
| `Migrations` | runner, CLI, generated migrations | a process per command, one action per read or write of the store, failures and deaths anywhere; the list of columns is kept as how many there are of each name |
| `Telemetry` | `SpanManager` | `exporting` are the batches at `await export` |

`MC*` modules give the constants their values. `*Proofs` modules hold the
proofs. `WorkflowMachine`, `JobLifecycle` and `LruOrder` are the abstract
specifications; the detailed modules carry the refinement mapping
(`ImplementsMachine`, `ImplementsLifecycle`, `ImplementsOrder`).

Components that run in one process and share state are composed (`PluginWatchdog`
with `PluginHost`). Those that share none are checked in one run by a module that
EXTENDS them all: `MCJobsPackage`, `MCWorkflowPackage`, `MCClientData` and
`MCKernelServices` have a variable `part`, chosen at first, and the steps of a
behaviour are those of its part. This loses nothing, since a step of one part
neither reads nor writes the variables of another, so the properties of one do
not depend on how the others' steps come in between. Where a part has fairness,
the formulas of the others ask for nothing: their variables keep initial values,
in which none of their fair actions is enabled.

## 3. Runs

| Run | Instance | Properties and what they show |
|---|---|---|
| `job_queue_one_start` (`MCJobQueue`, `JobQueueOneStart.cfg`) | 2 jobs of different priority, one retry, 2 workers, one start | `ImplementsLifecycle`: the queue implements the life of a job; `OneRunPerJob`; `EveryJobServed` unless the queue stops |
| `jobs_package` (`MCJobsPackage`, `JobsPackage.cfg`) | queue: 2 jobs, 1 worker, a second loop after stop and enqueue; scheduler: one job, two periods, two checks at a time, three ticks | `Overshoot`: one job over the limit per extra loop; `ActiveJobsExact`; `NoStuckRunning`; `StopReturns`; `OncePerOccurrence` where checks do not overlap; `EveryOccurrenceRuns` |
| `notification_queue` (`MCNotificationQueue`, `NotificationQueue.cfg`) | 3 notifications, 2 attempts, 2 overlapping sends, one clear | `OneSendAtATime`, `FirstSendsInOrder`, `QueueHoldsUnfinished`, `EveryNotificationEnds` |
| `notification_stale_index` (`MCNotificationQueue`, `NotificationLost.cfg`) | same, no clear | **fails** `SentIsRemoved`: a sent notification can stay in the queue (*Findings*) |
| `watchdog` (`MCPluginWatchdog`, `Watchdog.cfg`) | worker host, 2 calls or heartbeats, 1 restart per entry, 2 entries, 1 child of the owner, 3 children, 6 acts (below) | `FailedIsRestarted`: a failed plugin is restarted or given up at the limit, or waits for a start that its child left open |
| `watchdog_process` (`MCPluginWatchdog`, `WatchdogProcess.cfg`) | process host, 1 heartbeat, 2 restarts, 1 entry, 3 children | **fails** `FailedIsRestarted`: a crashed process is never restarted (*Findings*) |
| `automation` (`MCAutomation`, `Automation.cfg`) | an event rule and a cron rule of 2 actions each, 2 jobs, 2 attempts, 2 starts, 1 event or call of the plugin, 3 calls that wait | `OneLoopPerJob`, `CountNeverAhead`, `EveryJobEnds` |
| `automation_shutdown` (`MCAutomation`, `AutomationShutdown.cfg`) | same | **fails** `ShutdownClearsAll`: a timer survives the shutdown (*Findings*) |
| `workflow_package` (`MCWorkflowPackage`, `WorkflowPackage.cfg`) | workflow: 3 definitions of 2 versions, 2 instances, 4 calls; approval: a chain of 2 tasks, 2 callers; flow: a graph with a loop, a dead end, a dangling and a default edge, 8 visits | `StatusMatchesState`, `OnlyDefinedTransitions`, `ImplementsMachine` (refinement of `WorkflowMachine`), `DecisionStands`, `HistoryIsWalk` |
| `kernel_services` (`MCKernelServices`, `KernelServices.cfg`) | cache: 5 keys, size 4; marketplace: 3 plugins, 10 manifests with ranges of every kind, one with an operator that nothing satisfies; migrations: 2 changes of 1 and 3 operations, 2 processes, 3 commands; host: both isolations, 2 calls, 3 children, crashes during boot; letters: 2 jobs of one name, 2 letters, 2 replays; spans: 5 spans, buffer of 3, batches of 2 | `ListIsSound`, `ImplementsOrder` (refinement of `LruOrder`), `DependenciesMet`, `RecordedWithoutGap`, `SchemaMatchesRecords`, `OneChild`, `NoForgottenCall`, `SettledOnce`, `LettersKept`, `SpansAccounted` |
| `client_data` (`MCClientData`, `ClientData.cfg`) | GraphQL: 2 records, 3 loads, 2 updates, one subscriber; realtime: 2 clients, 2 heartbeats, each of the four ways to authenticate; sync: 3 mutations, 2 pushes, 3 pulls, 2 server changes; loader: 2 remotes, 3 calls, one retry | `AnswersAreOwnAndFresh`, `EveryLoadAnswered`, `EventsInOrder`, `StatesFollowSockets`, `ExpiredIsClosed`, `PushedInOrder`, `NoChangeSkipped`, `StateTellsTheLoads` |
| `dead_letter_replay` (`MCDeadLetters`, `DeadLetterReplay.cfg`) | 2 jobs of one name, 2 letters, 2 replays | **fails** `ReplayedHaveJobs`: two replays in a millisecond get one job (*Findings*) |

Bounds, and why they suffice. `MaxStarts = 2` is the first value with two loops,
in the job queue and in automation; the proofs cover the rest. Two workers and
two jobs let every pair of runs overlap, and ranks make the poll's order matter.
Two checks are the fewest that overlap, and two periods let an edit move a next
run either way. Three notifications with two sends in flight are the fewest for
which an index is displaced while a third entry is waiting. Three forks allow
start, crash, restart and a second crash, and in `watchdog` one child of the owner
and one restart of each of two entries; so an entry reaches its limit of one
restart while the other one's is under way. `MaxActs` of `watchdog` bounds what the
environment adds: entries and children of the owner, twice each, and calls in use.
It is a bound on steps that never have to be taken (watching, the owner's starts
and restarts, sending a heartbeat: none of them has fairness), so no step that the
fairness asks for is taken away and every behaviour of `BoundedSpec` is one of
`FairSpec`; two heartbeats overlap unless the host has been watched twice and its
owner has made a child, too. In the workflow part
four calls let an instance be started, moved twice and disturbed once, and the
two editions of its first version differ in transitions and in final states, so a
state that completes an instance by one is left again by the other; `i2` belongs to callers that wait for
each other and `i1` to overlapping callers and throwing actions, so the
refinement is stated for the first, the invariants for both; likewise
`SerialTasks` of approvals. The flow's graph has one edge of each kind and its
loop reaches the limit. Size 4 has a head, a tail and two inner nodes, which are
the cases of every pointer operation, and a fifth key forces evictions. The
second migration drops, adds and alters, so that the order of an undo matters;
three commands let one be run again after one that failed. Two letters of one
name are the fewest that can collide and three calls to the store can lie
between any two crashes. Five spans are the fewest that fill a buffer of three
by two failed batches and push out the oldest. Three pulls allow a cursor to be
set back and to be used again; three loads, a batch that is full and one after
it. Other bounds (`MaxNotifs`, `MaxForks`, `MaxMutations`, ...) only cap
counters. Symmetry is used for the calls of workflows and approvals and never
with liveness.

Deadlock is checked for both job runs and both notification runs. It is not
checked where the system really may stop or a bound ends a behaviour: a host
without forks, an ended flow, a decided task, a destroyed watchdog, commands and
calls that have all been made.

Fairness. *Job queue*: timers and microtasks run, so loops, storage answers,
backoffs and the stop's polling go on; a handler may hang, for the job's timeout
ends it; callers owe nothing. *Scheduler*: a check that has begun goes on, and
the queue does not refuse one due job for ever (strong fairness of the
hand-over: `EveryOccurrenceRuns` says that a refusal is retried, not that
retrying helps against a queue that always refuses). *Notification queue*: the
interval and the delays run, and a channel answers in the end; the queue has no
timeout, so this is an assumption about channels. *Automation*: started loops,
timers of retries and awaited actions go on. *GraphQL*: the microtask that
dispatches a batch runs and the broker answers in the end, with a result or an
error. *Realtime*: the heartbeat's timer fires, and the auth service answers and,
asked about one client again and again, does not fail for ever. That is an
assumption about a service with `verifySession`, which the code asks for
(`plugin.ts:532`) and which this repository does not contain: it speaks of
`auth = "sessions"` alone, since in the other three cases no client is ever
verified, and `ExpiredIsClosed` promises nothing for them. *Watchdog*: events are delivered, a boot
comes to an end, a signalled child dies, intervals and backoffs end; a child
never has to crash nor to answer, and its owner never has to act. The other models are checked for safety only.

## 4. Proofs

TLAPS proves, for all values of the constants allowed by the named assumptions:

| Theorem | Says |
|---|---|
| **`JobQueueProofs`** | |
| `BookkeepingCorrect` | `activeJobs` counts the runs in progress |
| `OvershootBounded` | at most one job over the limit per extra loop |
| `RunningJobsFinish` | a job stored as 'running' has a run that will write its outcome |
| `OneRunAtATime` | until a second start, no job has two runs, whatever is retried, cancelled and stopped |
| `OneStartIsLifecycle` | a queue that is started once implements `JobLifecycle` |
| `OccurrencesRunOnce` | the scheduler hands an occurrence over once, but for the disturbances the property names |
| `OccurrencesNotSkipped` | an action property: the stored next run of a job moves on only when its occurrence was handed over, unless two checks held the job or it was edited |
| `PendingJobsArePolledFor` | a pending job has its save to come, or a loop that polls for it, or was left by a stop |
| `SlotAlwaysFree` | the model's bound on runs disables no dispatch |
| **`NotificationProofs`** | |
| `NeverSentTwiceAtOnce` | one send of a notification at a time, for any number of overlapping sends |
| `SentInOrder` | first sends start in the order of the enqueues |
| `NothingUnfinishedLeaves` | an undisturbed queue holds the unfinished notifications and no other |
| `TriedOftenEnough` | no more attempts than `maxRetries`, and failure only after so many |
| `FinishedStays` | an action property: what was sent or given up is never taken up again |
| `QueuedIsTimed` | a queue that is not empty has its timer set, unless it was stopped |
| **`PluginProofs`** | |
| `AtMostOneChild`, `WatchedHasOneChild` | only the child the host knows is running, whatever starts, stops and restarts overlap, also under its watchdog and with its owner's calls |
| `EveryCallHasChild`, `WatchedCallsHaveChild` | a waiting call has a child, or an exit the host has still to hear of |
| `CallsSettleOnce` | an action property: what a call was told is not told otherwise |
| `EveryRestartCounted`, `RestartsDoNotOverlap` | an entry makes a child only by a restart it has counted, at most `maxRestarts`, and one at a time, for any number of entries of one host and any calls of its owner |
| `StartsAreAnswered` | if children report before they end, no host waits for a report that cannot come |
| `RestartsComeToAnEnd` | under the same condition a restart of a worker waits for nothing that it has missed |
| **`AutomationProofs`** | |
| `AutomationTypes` | type correctness of rules, jobs, timers and loops |
| `JobsHaveOneLoop` | a job is executed by one loop, for any number of restarts |
| `CountsOnlySuccesses` | a stored count is never ahead of the executions |
| `JobsAreTriedEnough` | a job makes at most the attempts it is allowed, and fails only after the last |
| `EndedJobsStay` | an action property: a job that completed or failed stays as it is |
| `RunningWorkerGoesOn` | a queue that runs has a loop that ticks or executes |
| **`WorkflowProofs`** | |
| `StatusFitsState`, `OnlyOwnTransitions` | for all definitions, registered again at any time, and any overlap of calls |
| `OrderlyIsMachine` | calls that do not overlap on an instance implement `WorkflowMachine` |
| `DecisionsStand` | an action property: a decided approval task stays as it was decided |
| `HistoryRetraces` | for every graph, a flow's history is a walk from its start to where it is |
| **`LruCacheProofs`** | |
| `ListStaysSound`, `SizeStaysBounded` | for every set of keys and every size |
| `KeepsOrder` | the cache implements `LruOrder` |
| **`ClientDataProofs`** | |
| `AnswersAreTrue` | a load gets a version of its own record, no older than the call unless cached |
| `SubscribersGetAll` | a subscriber has all events since it subscribed, in order |
| `ClientsAreSockets` | the states of clients are those of their sockets |
| `NoLoadForgotten` | a load without an answer is carried by one call, or in a batch that will be dispatched |
| `LoadAnsweredOnce` | an action property: the answer of a load stays |
| `NoSocketEscapes` | an open socket is among those that the heartbeats verify, and they go on |
| `SentInTurn` | the server gets mutations in the order they were made; none is forgotten unaccepted |
| `NothingSkipped` | the cursor skips no change, for any number of pulls |
| `StateIsTrue` | the state told of a remote is that of the cache and the loads |
| **`ServicesProofs`** | |
| `RecordsHaveNoGap` | for any changes and processes that fail, die and overlap, downs excepted |
| `SchemaIsRecorded` | the columns in the store are those the recorded migrations make, unless something failed half way or overlapped |
| `NoLetterIsLost` | an action property: for any jobs, replays, purges and crashes |
| `NoSpanIsLost` | every ended span is in one place, for any number of flushes |
| `DependenciesAreMet` | for any plugins whose versions `satisfiesRange` can compare |

All but the refinements follow the same argument: an inductive invariant that
holds initially, is kept by every action (one step per action) and implies the
property. The refinements show that initial states map to initial states and
every step to a step of the abstract specification or a stutter, from such an
invariant. The less obvious invariants were checked by TLC first.

* *Job queue, count and overshoot.* The count is exact because each slot enters
  and leaves `Busy` together with an increment or a decrement; the overshoot needs
  the polled loops in the sum, since a loop that has polled will dispatch without
  testing the limit again.
* *Job queue, one start.* `SingleLoop`: there is one loop, the copy it polled is the
  stored job (or has been cancelled since), and a run that has still to write an
  outcome holds the attempt that is stored. The last part makes a job's retry
  wait until its run has ended. `OneStartIsLifecycle` has the hypothesis
  `MaxStarts = 1`, because the abstract life allows one claim at a time and two
  loops may poll one job; `OneRunAtATime` has none, since its property speaks of
  the time before the second start.
* *Scheduler.* Of a job that is neither disturbed nor unsaved, `Calm`: at most one
  check holds it, for the run that is stored or with a later one to store, and
  only runs before the stored one have been handed over, or also the stored one
  while its successor is about to be saved. The new next run is later than the
  present, a fact of the arithmetic of periods.
* *Scheduler, no occurrence skipped.* A check that holds a job has the next run it
  read: as long as no other holds the job and nobody edits it, that is the stored
  one, or the occurrence has been handed over and the later one is about to be
  saved (`Hold`). A write that fails or is refused leaves the stored one where it is.
* *Job queue, nobody forgotten.* Whoever sets `processing` starts a loop, and a loop
  ends only when it finds `processing` unset; while the queue is off and nobody has
  stopped it, it was never on, and what is pending still awaits its save, after
  which `enqueue` starts the first loop.
* *Notification queue.* A send removes the entry at the index it found, so the
  invariant must say what is there (`PlacesKnown`): a queue that is not disturbed
  has at most one send under way, whose index is still that of its entry.
  `OneSendAtATime` does not depend on that, as the status alone keeps two ticks
  apart. For the order, numbers rise in the queue and among the first sends, and a
  queued one that was never sent is greater than all that were.
  Every step takes every notification on (`Advances`): it counts an attempt while
  one is left, or gives up when none is, and leaves what is finished alone. This
  needs `OneSendAtATime`, since a send that ends writes to its notification
  without looking at it.
* *Host.* One child is not inductive alone: the invariant adds that all
  events on their way are the current child's, that an exit among them means
  the child is gone, so the late exit of an old child cannot make room for a
  second one, and that while a `stop` waits its child is the one the host has and
  is no longer running (`StopsWait`): of several restarts that wait for one end,
  the first makes a child and the others find it. For the calls, an exit is the last event of its child and a pending
  call's child is there or its exit is on its way.
  Under the watchdog the same invariants are kept, since each of its steps is a
  step of the host or leaves the children and calls alone.
  For the starts: a child that has reported has its report among the events until
  the host takes it, and an exit comes after it, so a host that waits has a child
  that boots, a report to come, or a stop under way.
* *Watchdog.* A child is charged to the caller that made it. What an entry has
  made and what it is still owed, as one restart under way, is no more than the
  restarts it has counted (`Budget`): a restart is counted when the backoff begins,
  its child comes later. Children of the owner and of the other entries of the host
  count for them, not for it. An entry knows when its own restart is under way, and
  a start that waits is that of the one child that runs or of one that has ended
  without a report, so two restarts of an entry do not overlap (`OneRestart`).
  For the end of a restart: it waits for the exit of a child that a `stop` has
  signalled, or for a report that is to come, or its child left it open. The
  theorem is about workers, whose `terminate` resolves for a thread that is gone; a
  process that was gone before its restart is waited for in vain (section 5).
* *Automation.* A loop takes a job by marking it 'processing' in the step that
  picks it, and only that loop takes the mark away. The count is written from the
  copy of a rule, so the invariant speaks of all copies: none is ahead of the
  executions that have succeeded.
  Every step moves every job along its life (`JobsMoved`), and only the loop that
  executes a job does: that loop keeps its job unfinished, so no other loop, left
  over from an earlier start, can touch one that has ended.
* *Workflow.* What a call read at its start stays true of the stored instance
  in the parts it relies on: the version of an instance never changes, and the
  definition that a call has read is one of its editions, though it may have been
  replaced since, so its transition is always one of that version. For the refinement, the copy of a call that works
  alone on its instance (`OneAtATime`) is the stored instance up to what the call
  has itself changed (`Fresh`), so each write is one step of the machine.
* *Approval.* A call that has read an undecided task of those that are served one
  call at a time is the only one on it; other calls leave the task alone.
* *Flow.* A walk that ends where the flow stands is extended by the edge it takes;
  the edge is one of the outgoing ones whichever rule chose it.
* *Cache.* The checked property speaks of neighbours and admits a ring of nodes
  beside the list, from which a removal can break it; the invariant says that
  the list is the layout of a sequence without repetitions. Three lemmas give
  the sequence after an insertion, a removal and a move; a move is shown to be
  a removal followed by an insertion. The size follows because the tail of a
  list that is not empty is in the map. The refinement maps the list to that
  sequence, so the same lemmas show each operation to be the abstract one.
* *Data loader.* Versions of a record only grow, and whatever is kept under its key
  (in the store, in the cache, in an answer) is a version of that record. The
  values of a batch stand in the order of its items and are read after the
  calls of its loads, so each is as new as its load; only what the cache gave may
  be older.
  For the loads that wait, the invariant says where each of them is: none is in
  two calls or twice in the batch, every call carries some, a batch that is not empty
  has a microtask scheduled or was left by a full one whose dispatch goes on, and
  what no place carries has its answer (`PlacesInv`).
* *Subscriptions.* What an iterator has given out followed by what it has queued is
  the part of the published events in which it was subscribed; an iterator that
  waits has an empty queue.
* *Realtime.* A client gets into the Map and is listened to in one step, so the
  state of a socket that has closed is there only if the close came during the
  handshake.
  A handshake that ends leaves its client listened to or its socket closing, and
  `destroy` closes every socket when it clears the interval: so no open one is
  left out by the heartbeats.
* *Sync, pushing.* Every mutation waits in the log or was accepted, ids rise in the
  log and in every batch, and what a batch on its way skips was accepted. Hence
  what the server takes of a batch for the first time is the run of numbers that
  follows those it has: otherwise there is a least place where it is not, and the
  number missing there is neither in the batch nor accepted.
* *Sync, pulling.* The cursor's invariant must hold of every cursor a pull under
  way started from, too.
* *Remote loader.* The states of a load that is alone on its name follow its phase;
  overlapping loads of a name are noted when the second begins.
* *Migrations.* A version that a running `up` has no longer to apply has a
  record, and a `down` that overlaps with nothing runs alone and deletes the
  greatest record. The next version of an `up` is the least of those left, which
  exists because the naturals are well-founded.
* *Migrations, the schema.* While commands run one at a time and none has failed,
  the recorded versions are the first ones and the operations that a command has
  left lead from the columns in the store to those its record will stand for. A
  change that fits the columns before it leads to those after it, and its inverse
  back, so the argument is about one change at a time, taken from the front or
  the end of its migration. `ChangesFit` is the hypothesis that a migration adds
  what is not there and drops or alters what is, which is what `SchemaDiffer`
  makes of two schemas (`schema-differ.ts:56-85`); TLC checks that the changes of
  the run meet it.
* *Dead letters.* A call that is about to remove its letter has stored a job for
  it; only that call and a purge remove letters, and a crash forgets the call
  before it forgets the job.
* *Spans.* The buffer and the batches under way have no span in common and none
  twice, and their number with the exported, dropped and cut ones is that of
  the spans that have ended; a failed batch goes back in front and is cut to the
  size of the buffer.
* *Marketplace.* An install checks what it depends on, and an uninstall that nothing
  depends on the plugin; upgrades and rollbacks put all pairs of the plugin among
  `unchecked`. `satisfiesRange` compares versions by
  `major * 1000000 + minor * 1000 + patch` (`manifest-validator.ts:230-231`),
  which is the order of versions only for minor and patch numbers below 1000:
  `SmallVersions` is the hypothesis that says so, and the theorem is about
  manifests that meet it.

Filtered sequences. The provers cannot expand `SelectSeq`, which the library
defines by recursion. Where a proof depends on a filter the model says which
element comes where: `Kept` (`SyncEngine`) is the elements at some indices in
their order, and elements are removed with `RemoveAt` or `RemoveFirst`
(`LruOrder`, `Realtime`). Columns are counted by name for the same reason
(`Migrations`). The operations of a migration are a `FlattenSeq`, which the library
defines by a recursive function: its equations are proved from the definition
(`FlattenIs`), and what holds of every number of changes by a least
counterexample, so that no induction theorem is needed.

Model-checked only: the liveness properties, since TLAPS does not reach fairness.
Every other property of the passing runs is stated by a theorem. Of each liveness
property the part that needs no fairness is proved, for every instance: that what
is owed is carried by something that can still move, so that only the fairness
of the event loop is left to TLC.

| Model-checked | Proved of it |
|---|---|
| `EveryJobServed` | `PendingJobsArePolledFor`: a job that waits in a queue nobody stopped has a loop, or the call that starts it |
| `StopReturns` | `BookkeepingCorrect`: the counter that the stop waits for is the number of runs that still have to decrement it |
| `EveryOccurrenceRuns` | `OccurrencesNotSkipped`: the next run of a job that nobody edits moves on only past an occurrence handed over |
| `EveryNotificationEnds` | `TriedOftenEnough`, `FinishedStays`, `QueuedIsTimed`: bounded attempts, an end that stays, a timer for what waits |
| `FailedIsRestarted` | `StartsAreAnswered`, `RestartsComeToAnEnd`: a start or restart waits only for what is still to come, unless a child ended before it reported |
| `EveryJobEnds` | `JobsAreTriedEnough`, `EndedJobsStay`, `RunningWorkerGoesOn`: the same for the action queue |
| `EveryLoadAnswered` | `NoLoadForgotten`, `LoadAnsweredOnce`: a load is in one place until it is answered |
| `ExpiredIsClosed` | `NoSocketEscapes`: every open socket is among those that the heartbeats verify where the service can, and they go on |

## 5. Findings

1. *Notification queue, stale index* (`notification_stale_index`).
   `processNext` removes the index it found before the send
   (`packages/notification/src/queue.ts:99, 140, 145`). If another tick's send
   removed an entry meanwhile, another notification is dropped and the sent one
   stays. `queue.test.ts:99` expects "Should be removed after success". This is
   why `QueueHoldsUnfinished` is stated for undisturbed queues.
2. *Watchdog, crashed process* (`watchdog_process`). After a process has ended
   by itself `ChildProcessPluginHost` keeps `this.child`, and `restart` calls
   `stop`, which waits for an 'exit' that has been emitted before
   (`process-plugin-host.ts:100-105, 124`). The restart never ends and the plugin
   stays down. The worker host, whose `terminate()` resolves, does not
   have the problem.

3. *Automation, shutdown* (`automation_shutdown`). A scheduled rule that is
   registered twice, as `registerRule` before `start()` and `start()` itself do
   (`packages/automation/src/plugin.ts:125-147, 401-412`), has two chains of timers
   under one key of `scheduledJobs`; `shutdown()` clears one of them, although
   `triggers.ts:210` says "Clear all scheduled jobs" and the test
   `triggers.test.ts:333` is named "should clear all scheduled jobs on shutdown".
4. *Dead letters, two replays in a millisecond* (`dead_letter_replay`). The id of
   the new job is the name and the time (`persistent-storage.ts:293`), so letters
   of one name replayed in the same millisecond share it; the second save replaces
   the first job, and both letters are removed. The comment at line 279 says
   "Re-enqueue a dead letter entry as a new pending job".

Known divergences met while modelling that are described here and not checked by
a run of their own:

* jobs: stop followed by enqueue exceeds the concurrency (`queue.ts:97-113`; bounded
  by `Overshoot`); a job polled before a stop is dispatched after
  `stopProcessing` returned (`queue.ts:147-148`); `cancel` overwrites the record of
  a job that started meanwhile (`queue.ts:258-264`), and a cancelled job may be
  run from a stale copy (`queue.ts:122`);
* scheduler: checks that overlap run an occurrence twice or skip one, a
  reschedule during a check is overwritten by the next run of the old cron, and a
  job may run once after it was unscheduled (`scheduler.ts:101, 150-171`); a
  failed save of the next run repeats an execution (`scheduler.ts:167`); a
  `scheduleJob` whose save is pending restarts a stopped scheduler
  (`scheduler.ts:59-70`); the plugin stops the queue before the scheduler, so
  that a due job starts the queue again;
* dead letters: overlapping replays of one letter make two jobs; a crash between
  storing 'failed' and the letter leaves no letter (`queue.ts:230-238`); `update`
  reads and then saves, so it brings back a job deleted in between
  (`persistent-storage.ts:83-90`);
* automation: a `stop` while `start` still reads the rules leaves the triggers armed
  that `start` then arms (`packages/automation/src/plugin.ts:129-139`); executions
  that overlap lose updates of `executionCount`
  (`plugin.ts:310-312`); a job of a deleted rule fails at the count and is tried
  again, and a retry repeats the actions that had succeeded (`storage.ts:66`);
  `stop` clears the timeout of one loop and a start during a batch leaves two
  (`queue.ts:117, 130-133`); `destroy` does not stop the worker (`plugin.ts:615`);
  the configured concurrency is ignored;
* workflow: the history entry is pushed before `onEnter` may throw
  (`engine.ts:160, 166`); an abort that ends during a transition is overwritten
  (`api.ts:109, 128`); the plugin picks a transition by its target from another
  read (`plugin.ts:256, 290`); registering a version again replaces it under the
  instances that run (`storage.ts:33`), so a state may be final by one edition of the
  version and left by another, or be lost to the new one, and then neither a
  transition nor an abort gets anywhere (the model lets such an abort succeed, too); the ObjectQL storage neither keeps nor finds
  definitions, so the API over it starts nothing (`objectql-storage.ts:28-38`);
* approval: overlapping decisions overwrite each other (`api.ts:207-239`); a
  delegated task can be neither completed nor rejected (`api.ts:212, 235`); the
  ObjectQL `updateTask` drops the assignee (`objectql-storage.ts:157-161`); the
  automatic escalation finds no task (`approval.ts:114-118`);
* flow: a decision with no condition that holds and no default takes its first edge
  (`flow-engine.ts:293-295`);
* watchdog and hosts: a host that was unwatched during its backoff is restarted
  (`plugin-watchdog.ts:184`); an entry from before an `unwatch` that gives up removes
  the entry that the host has now, whatever restarts that one has left
  (`plugin-watchdog.ts:173`); `start()` has no timeout of its own, so a restart whose
  child ends before it has reported stays under way, and the entry never acts again:
  `FailedIsRestarted` excepts it (`LeftOpen`); after a clean exit calls wait for
  their timers;
* sync: overlapping pulls set the cursor back, overlapping pushes send a
  mutation twice, and `resolveConflict` drops the choice and leaves the mutation
  pending (`sync-engine.ts:137, 110, 167`); the hook's `clearCompleted` removes
  pending mutations, too (`use-mutation-queue.ts:97-99`);
* GraphQL: `clearCache` with a batch in flight caches the older value again; a
  failing audit after the write answers with an error and publishes nothing;
  overlapping mutations may publish in another order than the database's; of two
  overlapping `next()` the first promise is lost, and `return()` leaves a waiting
  `next()` for good;
* realtime: a socket that closes while its handshake awaits the auth service
  leaves its entry in `clientStates` for good; the auth service of this repository
  answers `{ success, user, session: { userId } }`
  (`packages/auth/src/plugin.ts:231-243`), while the handshake looks for a `userId`
  at the top (`packages/realtime/src/plugin.ts:347`), so with it every handshake is
  rejected, although the comment there says "Use kernel auth service when available";
  nor has it a `verifySession`, and a heartbeat skips every client when there is none
  or when a validator is configured (`packages/realtime/src/plugin.ts:527-532`), so
  in this repository no expired session is ever closed;
* remote loader: an unload during a load is undone, and an older load that fails
  sets 'error' over a module that is cached (`remote-loader.ts:87-152`);
* marketplace: an upgrade or a rollback checks no dependency and asks for no
  review, and an upgrade may go to an older version (`installer.ts:188-294`);
  `satisfiesRange` compares major*1000000 + minor*1000 + patch, which confuses
  1.0.1000 with 1.1.0 (`manifest-validator.ts:231`); the download counter is that
  of the latest entry;
* migrations: operations are not idempotent, a `down` that dies leaves its record
  with the column gone, a dropped column comes back as a stub of type text,
  `up`s that overlap apply a change twice or lose one, and a `down` that overlaps
  may leave a gap;
* telemetry: a failed batch is put back from its oldest span on, so what does not
  fit is its newest and is not counted as dropped (`span-manager.ts:354`), while a
  full buffer drops its oldest; two batches that fail in the order of their
  flushes come back in the opposite order;
* rate limiter: described as a sliding window (`api/middleware/rate-limit.ts:4`), it
  counts in fixed windows, so up to twice the limit passes within one window's
  length; its `skip...` options are not read.

## 6. Not modelled

Left out of the modelled components: queries that change no state, statistics,
logging, message texts, the data of jobs, workflows, flows, records and
mutations, log and route handlers of automation, subscriptions, broadcasts and the
relays of presence, cursors and edits in realtime, which change only what a client is
sent, and the contents of spans. The storage of the job queue answers in the end
and does not fail in the loop and in `processJob`. In the code a poll that throws is
logged and repeated after a second (`queue.ts:133-136`); a write of 'completed' that
throws counts as a failure of the job, which is then run again (`queue.ts:189-202`);
and a write of 'running', 'pending' or 'failed' that throws ends the run and leaves
the record as it was. The writes of the scheduler and of dead
letters may fail in their models.

Components without a model, and why:

* *ObjectQL, Redis, SQLite and memory back ends; job and cache plugins*: they map a
  contract that is modelled to an external store, call by call.
* *Workflow definitions, automation formulas and actions, schema differ, sandbox
  review, GraphQL schema and resolvers*: functions of their arguments over texts
  and records, or calls of external services, with arbitrary outcome in the
  models that use them.
* *Permissions*: look-ups in loaded metadata and a conjunction of filters, without
  state across calls; a model would repeat the code line by line.
* *Agent, analytics, browser runtime*: a bounded loop around an external model, a
  timer per report, and the protocol of service workers and OPFS, which is the
  browser's.
* *Mutation queue of the web client*: effects of React hooks; the protocol with the
  server is `SyncEngine`'s.
* *Federation host and hot reload*: configuration and a file watcher over the
  remote loader.
* *Audit, auth, i18n, metrics, telemetry plugin and exporters, UI metadata, HTTP
  API, web pages*: synchronous updates, an external library, or rendering.

What could be proved next: that the watchdog's entry and the host agree after
every overlap of a crash with a restart of a process (now only counted, and proved
for workers), the refinement of the life of a job for several starts, and type
correctness of the models whose invariants carry no more of the types than they
need.
