# Road Beyond the Pines: verification of the backend

This directory holds TLA+ models of the Python backend under `src/backend`, the
TLC configurations that check them on small instances, and proofs checked by
TLAPS that hold for every value of the constants. `PROJECT.json` lists
components, runs, faults, findings, hazards, theorems and, for every definition
that models code, the lines it stands for.

## 1. The system

The backend turns a development request into a plan of tasks, runs each task as
a job of an in-process runtime, lets an agent execute it, and records the
outcome. Beside that path it talks to an Unreal editor over a bridge.

```
app.main lifespan: builds, starts and stops what follows
      |
API / DevelopmentRequestService --- Brain                ProjectMemory (file)
      |
Orchestrator --- Planner, Scheduler, ProgressTracker, ResultCollector
      | enqueue_job, wait_for_job, cancel_job
Runtime  --- TaskQueue <--- Worker ---> handler threads ---> AgentManager ---> agents
      |  \-- EventBus, PluginLoader, CommandBus, ServiceRegistry, StateManager
UnrealMCPManager --- client --- transport (mock, HTTP) ---> bridge in the editor
```

| Component | State | Operations | What makes it correct | Hard behaviour |
|---|---|---|---|---|
| `TaskQueue` | heap, job store, results, closed flag | enqueue, dequeue, mark_running, complete, cancel, shutdown | each job is settled once, a cancellation is honoured, served in order, nothing dropped | every operation may come between any two others |
| `Worker` | current thread, stop flags, job in hand, handler threads | start, stop, the loop | one loop, each job settled with its own handler's verdict | handlers that hang or answer late, timeouts, death of the loop |
| `Runtime` | started/stopped flags, lifecycle lock, handlers | start, stop, enqueue_job, cancel_job, register/unregister_handler | stop returns, drains, leaves nothing open; restart works | stop against a running handler, refused start, plugins and subscribers that raise |
| `EventBus`, `PluginLoader` | subscribers; plugins and metadata by name | subscribe, publish; load, unload, reload, unload_all | everybody is told once, stop unloads what was loaded | exceptions half way, subscriptions changed while they are gone through |
| `Orchestrator`, `ProgressTracker` | remaining tasks, results, one tracker for all requests | execute_plan | a task's reported result is its job's result; dependents of a failed task do not run | wait timeout against a late success, concurrent requests, stale pre-flight test, a tracker without a lock |
| `AgentManager`, agents | registry, agent status | dispatch_task, start/stop/restart_agent, pause, resume, register, unregister | a report is what the agent answered, no agent is left BUSY | check-then-set of BUSY without a lock, restart during a dispatch, the ways out of `execute` |
| Agent loading | three tables of names | load_all, create_agent, register | every built-in agent is loaded once | names that have to agree in three places |
| `UnrealMCPManager`, client, HTTP transport | connection info, HTTP client, write lock | start, stop, connect, disconnect, health_check, execute | one write at a time, no client forgotten, a success is the bridge's | answers after a timeout or a disconnect |
| Command catalogue, policy, mock transport | none | validate, is_enabled, execute | what is listed as enabled is accepted everywhere | tables that have to agree |
| Public models, stored summaries | none | the two recursive sanitizers | nothing sensitive survives any nesting | recursion that misses a kind of nesting |
| `ProjectMemory` | store, index, history, file | store, update, delete, snapshot, restore | store, index and file agree | failed or interrupted write, restart, two callers of one entry |
| `app.main` lifespan, container, health | the container | startup, shutdown | what was started is stopped; what serves is healthy | a part that fails, a shutdown that is cancelled in the middle |
| Request service, Brain, Planner | goals | analyze, execute | an answer tells what has happened | the runtime stops between two steps |
| `CommandBus`, `ServiceRegistry`, `StateManager`, AI providers, other routes, legacy agents, front end | little | text and record construction, adapters | | no protocol; section 7 |

How they interact: each request runs in a thread of its own and calls the
Orchestrator, which calls the Runtime; one worker thread serves the queue; each
job's handler runs in a thread of its own and calls the AgentManager; a thread
that calls `start` or `stop` holds the lifecycle lock. They share the queue (one
reentrant lock and condition), the flags of the worker (its lock), the handler
table (its lock), the fields of each `Job`, which the worker reads without a
lock, and the agents, the tracker and the memory, which have none. The Unreal
calls share one event loop and leave it for threads that a timeout does not end.

## 2. Modules

| Module | Models | Kind |
|---|---|---|
| `ExecutionStatus` | `core/execution.py`, `JobResult` | definitions |
| `JobLifecycle` | what the runtime promises about a job | abstract specification |
| `TaskQueue` | `runtime/task_queue.py` under arbitrary clients | component, refines `JobLifecycle` |
| `HandlerResult` | `Worker._normalise_result` | operators |
| `Worker` | `runtime/worker.py` and the handler threads; extends `TaskQueue` | component |
| `Runtime` | `runtime/runtime.py`; composes queue, worker and handlers | composition, refines `JobLifecycle` |
| `Plugins` | `runtime/plugin_loader.py`, `event_bus.py`, and the runtime's use of them | component |
| `AgentResult` | answers of agents and what `AgentManager`, handler and worker make of them | operators |
| `AgentManager` | registry, selection, dispatch, lifecycle calls; extends `AgentResult` | component |
| `PlanContract` | what `execute_plan` promises about the tasks of a plan | abstract specification |
| `Orchestrator` | `orchestrator/orchestrator.py`, tracker and scheduler; extends `AgentManager`, instantiates `JobLifecycle` | composition, keeps to `JobLifecycle`, implements `PlanContract` |
| `AgentLoading` | `agent_loader.py`, `agent_factory.py`, the default agents' names | operators |
| `UnrealErrors` | error types, what a reply comes to, HTTP status of an error | operators |
| `UnrealMCP` | manager, client and HTTP transport on one event loop | component |
| `UnrealCommand` | catalogue, policy, argument checks, mock transport | operators |
| `PublicValue` | the two sanitizers and the public models | operators |
| `ProjectMemory` | `backend/memory` and its file | component |
| `Application` | the lifespan and what it starts and stops | component |
| `Requests` | endpoints, request service, Brain, Planner; extends `Application` | composition |
| `Tables` | asks `UnrealCommand`, `PublicValue` and `AgentLoading` about any input | composition |
| `MCRuntime`, `MCAgentManager`, `MCOrchestrator`, `MCUnrealMCP`, `MCProjectMemory`, `MCRequests`, `MCPlugins`, `MCTables` | constants of the TLC instances | model checking |
| `TaskQueueProofs`, `RuntimeProofs` (with the worker), `OrchestratorProofs` (with the agents), `UnrealMCPProofs`, `ProjectMemoryProofs`, `RequestsProofs` (with the application), `PluginsProofs`, `TablesProofs` | theorems | proofs |

**Queue.** Every public operation of `TaskQueue` runs under `_condition`, so each
is one action. A job is an element of `Jobs` with its id; its fields are
functions on `Jobs`. The heap is the set of jobs that have an entry: a job is
enqueued at most once (a known id is rejected), so `(-priority, sequence, id)` is
determined by the job, and `Before` is the order of those tuples. `dequeue`
pops stale entries until it finds a QUEUED job: `Dequeue` removes that job and
everything before it. `job.result`, `_results[id]` and the completion event
change in the same lines, so `result` stands for all three, and `wait_for_job`
and the getters change nothing. A result is its status, its code and whether its
timestamps can be subtracted (`datable`); messages, payloads, progress and the
timestamps themselves are left out.

**Worker.** `wpc[t]` is the place of thread `t` in `_run_loop`: *checking* (the
loop condition), *fetching* (in `dequeue`), *marking* (before `mark_running`),
*starting* (before the handler is looked up), *waiting* (in `_execute_job`),
*completing* (before `complete`). Between two places other threads run.
`waiting` has three exits, as the code has: the cancellation flag, the clock, and
the handler's value; a handler that never returns leaves only the first two. A
handler thread survives the worker's giving up on it (`LateReturn`).
`HandInRaises` is `complete()` raising: no handler in the loop catches it and the
thread ends.

**Runtime.** `call` is how far the call that holds the lifecycle lock has got.
`stop` is `BeginStop`, `DrainEnds`, perhaps `ForceShutdown` and `ForcedJoinEnds`,
then `UnloadRaises` or `CloseQueue`, then `Announce`. `start` is `BeginStart`,
then `FinishStart` or `StartRefused`. `cancel_job` and the handler table do not
take the lock and may happen anywhere. Reads of `is_alive()` and of
`worker.running` after one join are one step: a loop that ends between the two
leaves a dead thread behind, which every later reader treats like no thread. A
subscriber of `RuntimeStarted` that raises changes no state, since the flags
are set before; one of `RuntimeStopped` that raises leaves `_stopped` unset,
which `Announce` allows.

**What a handler can leave.** `RawValue` is the value as the tests of
`_normalise_result` see it, `Producible` the combinations Python lets exist
(`JobResult.__post_init__` refuses a status that is not terminal), `Normalise` the
result. A handler that ends in `SystemExit` leaves no value and is the form
`None`. Which of these values the handlers of an instance return is the constant
`Returns`; the theorems hold for any subset of `Producible`.

**Agents.** An agent is an instance; several may share a name, of which one is
registered. `dispatch[t]` is the place of `dispatch_task` for task `t`, cut where
another thread can get in: *called*, *selected* (an agent was IDLE), *executing*
(its status is BUSY by now, whatever it was), *returned*, *freeing* (the `finally`
found it BUSY), *done* or *raised*. `execute` has four ways out: an answer, one whose
timing raises in the `try` with the `finally`, an `Exception`, and an exception that is
none (`SystemExit`), which passes the `except` and never reaches the `finally`: the
dispatch is *exited* and the agent stays as it is (`ExecuteExits`). The lifecycle calls write their statuses one
by one (`Script`), and `restart_agent` looks its agent up twice. An answer is its
form, status and the few facts `_normalise_result` tests; `NormaliseRaises` is an
answer whose timing cannot be subtracted.

**Plans.** `request[r]` is the place of `execute_plan`: *starting* (the tracker names
the plan and does not list it yet), *picking* (the ready tasks
are collected), *next*, *checking*, *queuing*, *waiting*, *abandoning* (the wait
timed out, `cancel_job` not yet called), *failing* and *showing* (the tracker is told
of the unresolvable tasks, and at the end of all of them, one by one). `batch` and `remaining` are what is left of
the code's two lists, as sets: both keep the order of the plan, so the head of either
is the plan's first task in it (`FirstOf`). `outcome` is its `results_by_task` with the
result's status and who made it (`AGENT` or a code).
The tracker has no lock. `ProgressTracker.start` is two assignments and two steps,
`StartPlan` and `ListPlan`. An `update` goes through the list it found: if a start
replaces the list meanwhile, what the update changes is dropped with the old one, as if
it had come before the start, or it finds no entry and appends to the new list, as if
it had come after. So an update is one step. The runtime appears as `JobLifecycle`, in which a job is
accepted, begun and settled; the handler is `AgentManager`'s dispatch. That the
worker runs one handler at a time but gives it up after a timeout, so that two
dispatches may be at work, is `HandlerStarts` and `WorkerGivesUp`.
`PlanContract` has none of this: a request is refused, or taken up and answered; a task
is reported as tried (`Try`), skipped (`Skip`) or, with all that is left, unresolvable
(`GiveUp`), each with the condition on its dependencies that justifies the report.
`StageOf` maps the places of the loop to the contract's stages, `outcome` is its `report`.

**Unreal.** A step of a call is what runs on the event loop between two awaits. A
request, and the closing of an HTTP client, run in threads (`ThreadEnds`) that a
timeout leaves running. An HTTP client is named after the call that made it.
`connect` and `disconnect` are the steps of `start` and `stop` without the manager.
A reply is what decides the outcome: which exception, which status, whether the
body fits, and what it says.

**Tables.** `UnrealCommand`, `PublicValue` and `AgentLoading` are functions of their
input. Arguments, keys and texts are members of the classes that the lists,
patterns and type tests in the code tell apart. A list or an object as an argument is
a class (*nested*), because the check of `run_python_readonly` cannot look it up. The
classes of texts are those two patterns make, the models', which replaces a whole
text, and the summaries', which replaces what it matches: `Substituted` says what is
left of each class. *basic* is the class of "Authorization: Basic x", of which the
summaries' pattern matches all but the secret; *raw* gives one that only the models
know ("Bearer x"); *auth* one that only the summaries know ("auth: x"). A map is a total function on the
keys, with `Absent` where it has none. The sanitizers recurse over the depth of a
value (`Depth`), as the code does over its structure: `PublicAt[n]` is
`sanitize_public_value` on the values nested at most `n` deep. `Tables` picks an input
and asks; its properties say what the answers owe.

**Memory.** A call stores, indexes, lists the entries, opens the file (which
empties it) and writes it, five steps between which others may run. Any caller may
change any entry: the entries of executions have fresh ids, but `POST /memory/entries`
takes the id from its client. The history variables `writers` (who has changed an
entry since nobody was between its store and its index) and `sole` (the caller whose
call no other has overlapped) say which calls met; no action reads them but to keep
them. The file
is whole or torn, with a size (`TextSize`, any), because a shorter text written over a longer one
by a second open leaves the old end. `Restart` is the process ending at any moment.

**Application and requests.** `lifespan` is the place of `application_lifespan`. Runtime
and manager appear with the flags the lifespan and the health check can see; a
worker is *hanging* when its handler is. Every part of startup and shutdown may
fail where the code may. `pc[r]` is how far a request has got. Its text is its
first word and the few properties that the Brain's and the Planner's rules look
for. The plan is one step here: `Orchestrator` has its inside, as `ProjectMemory`
has that of storing the entry.

**Plugins.** One call at a time, as nothing in the program calls the loader or the
bus from two threads. A publication goes through the bus's own list until
somebody unsubscribes, which gives the bus a new one (`live`). `lost` is history:
plugins the loader has given up, popped before an `unload` that raised or replaced.

Definitions named `Fault...` are mistakes that could be made in the definition
below them. No specification uses them; each is caught by a property (section 4).

## 3. Runs

| Run | Instance | Shows |
|---|---|---|
| `faults` | 2 jobs of equal priority (one timed), 2 threads, handlers that may kill the loop | types; `OneLoop`, `NothingLost`, `SuccessIsEarned`, `StoppedIsSettled`, `SettledNeverStarts`, `NoOvertaking`; `Runtime` implements `JobLifecycle` |
| `fair` | 2 jobs of different priority (one timed), 2 threads, values that can be stored, fair | `RunningIsHeld`, `DrainedBeforeClose` (both fail when a value kills the loop, finding 1); `CallsReturn`, `CancellationSettles`, `AcceptedIsSettled` |
| `agents` | 3 tasks, one cancelled; 2 agents of one name, answers of six kinds; start, restart and pause | `BusyIsServed`, `ReportsAreTerminal` |
| `plans` | plans of 3 tasks and of 1, 2 agents, one timed task | `SuccessIsExecuted`, `DependentsWait`, `AbandonedIsStopped`, `AllReported`, `TrackerIsHonest`; `Orchestrator` implements `PlanContract` (`ContractSpec`) |
| `plans_return` | a plan of 2 timed tasks and one that cannot be resolved; an agent that may hang and be resumed while it is BUSY; fair | `RequestsReturn` |
| `bridge` | a start or health check, a write, a read or write, a stop; 3 kinds of reply; fair | `NoClientForgotten`, `SuccessIsAnswered`, `ClosingIsNotUsed`, `CallsReturn` |
| `memory` | 2 callers that share 2 entries, one content | `AnsweredIsRemembered`, `PersistedIsOnDisk`, `StoreIsIndexed` |
| `tables` | all bounded inputs, below | `EnabledIsUsable`, `RefusedBeforehand`, `ShownIsHarmless`, `StoredIsRedacted`, `LoadingIsComplete` |
| `application` | one application, one request of any kind, fair | `ServingIsHealthy`, `DownIsStopped`, `AnswersTellWhatHappened`, `ShutdownEnds` |
| `plugins` | 3 plugins, two of one name; 2 subscribers, 3 subscriptions | `AllAreTold`, `StopUnloads` |
| `bad_value` | as `faults`, different priorities | violated: `WorkerSurvivesHandlers` (finding 1) |
| `refused_start` | as `fair`, without fairness | violated: `StoppedQueueIsClosed` (finding 2) |

**Bounds.** *Runtime*: two jobs give every race between a job in hand and one behind
it, and the operations touch one job at a time or all unfinished ones. Each start
takes a thread of `Threads`, so two threads are one restart, with the old loop
possibly still alive; this bounds the number of starts, and with it that of stops,
except that a stop that ends in an exception can be repeated for ever. One handler
name, registered and unregistered at will, since the table is only read by name.
Equal priorities in one run, different ones in the other: `NoOvertaking` is about
the first, where the sequence number decides. *Agents*: two dispatches can share
an agent, the third is refused; a spare of the same name may replace the agent
at any moment. stop and resume write nothing that restart and start do not.
*Plans*: the first lists a dependent before its dependency and a
task whose dependency no plan contains; the second competes for the agents, the
worker and the tracker. The task the dependent waits for
may be given up at any moment of the other plan's way. In `plans_return` an agent is
resumed while it hangs, so that the next task is queued behind the job of the one that
was given up. One request is enough there: requests share nothing to wait for but the
worker, which the job given up keeps from the next task as another request's would.
*Bridge*: one connection, two commands to contend for the
lock and the client, one disconnection. *Memory*: two callers are all it
takes to meet between store and index, or on the file; one may store what the other
deletes, so one content is enough to tell them apart; the length of the text is the
number of entries, so that a list with one entry less is a shorter text.
*Tables*: every command with every pair of arguments; values of two levels of maps and
lists, and all of those again under a key or in a list, so that every kind of
nesting has every other inside; every set of agents already there and at most one
that is not built in. *Application*: lifespans without end; requests do not touch what others
have, and the proof covers any number. *Plugins*: three subscriptions, so that one
can be removed before and one behind the subscriber that is being told.

Worker threads are interchangeable, as are the two tasks that are not cancelled, the
callers of the memory and its entries; the `faults`, `agents` and `memory` runs use
that symmetry, no run with a liveness property does.

**Deadlock** is checked where the system can always go on: in `faults`, `fair` and
the two runs of findings (handlers can be registered for ever), `memory`,
`application` and `plugins`. In `agents`, `plans`, `plans_return`, `bridge` and
`tables` each call is made once and the system may stop when all are
answered; that nothing stops earlier is said by `RequestsReturn` and `CallsReturn`.

**Fairness.** *Runtime*: weak fairness of each worker thread and of the lifecycle
call in progress: they are threads the operating system schedules, and their waits
have timeouts (`poll_interval`, the two joins, a job's own timeout), so a clock that
runs enables their next step for good. None of clients (nobody has to call
`stop`), none of handlers: a handler may never return. `AcceptedIsSettled` therefore
speaks of jobs with a timeout; without one, `CallsReturn` and `CancellationSettles`
remain. *Plans*: of each request's thread and of the worker, nothing of dispatch:
an agent may hang. The timeouts are what makes `RequestsReturn` true. *Bridge*: of
each call's next step on the event loop, timers included; nothing of the threads,
so a bridge may never answer. *Application*: a lifespan that is starting or stopping goes on
(its waits are bounded) and a request's thread runs.

Each module with variables of its own states a type invariant. `TypeOK` of the
runtime is checked by a run; the others are theorems or parts of the proved
invariants (section 6) and in no run, as are the queue's `RecordsAgree`,
`CancellationWins`, `VerdictIsFinal` and `ServedInOrder`, theorems for arbitrary clients,
`ListedIsLoaded` of `Plugins`, and `ReportsAreFinal`, which `ContractSpec` implies.

## 4. Faults

Each property is told from an empty statement by a fault it rejects.

| Fault | The mistake | Rejected by |
|---|---|---|
| `TaskQueue!FaultEnqueue` | queued but not recorded in `_jobs` | `TypeOK` |
| `TaskQueue!FaultSettlement` | handler's result stored over a cancellation | `SuccessIsEarned` |
| `TaskQueue!FaultBefore` | last in, first out | `NoOvertaking` |
| `TaskQueue!FaultMayRun` | `mark_running` does not look at the state | `SettledNeverStarts` |
| `TaskQueue!FaultUnfinished` | shutdown leaves the running job | `StoppedIsSettled` |
| `TaskQueue!FaultShutdown` | shutdown empties the heap, finishes the running job only | `NothingLost` |
| `Worker!FaultJoined` | the thread is forgotten when the join times out | `OneLoop` |
| `Worker!FaultShouldStop` | no drain | `DrainedBeforeClose` |
| `Worker!FaultHandlerMissing` | a job without handler is skipped | `RunningIsHeld` |
| `Worker!FaultNoticeCancellation` | flag read only after the handler returned | `CancellationSettles` |
| `Worker!FaultTimeOut` | clock read only after the handler returned | `AcceptedIsSettled` |
| `Runtime!FaultCancelJob` | the flag is raised without asking the queue | `LifecycleSpec` |
| `Runtime!FaultDrainEnds` | join without timeout | `CallsReturn` |
| `AgentManager!FaultExecuteReturns` | no `finally` after an answer | `BusyIsServed` |
| `AgentResult!FaultNormalised` | a failure without an error text becomes a success | `ReportsAreTerminal` |
| `Orchestrator!FaultJobOutcome` | the dispatch's report taken for the job's result | `SuccessIsExecuted` |
| `Orchestrator!FaultDependenciesFailed` | only FAILED counts as a failed dependency | `DependentsWait` |
| `Orchestrator!FaultCancelAbandoned` | no `cancel_job` after the wait | `AbandonedIsStopped` |
| `Orchestrator!FaultCollectResults` | done without the unresolvable tasks | `AllReported` |
| `Orchestrator!FaultRecord` | every end shown as a success | `TrackerIsHonest` |
| `Orchestrator!FaultAbandon` | waits again after giving up | `ContractSpec` |
| `Orchestrator!FaultQueueRefused` | the runtime's refusal of a job is not caught | `RequestsReturn` |
| `UnrealMCP!FaultGetOrCreateClient` | a client for every request | `NoClientForgotten` |
| `UnrealMCP!FaultReplyError` | a reply taken for a success by its form, whatever it says | `SuccessIsAnswered` |
| `UnrealMCP!FaultDetach` | the client is closed but not let go of | `ClosingIsNotUsed` |
| `UnrealMCP!FaultTimeOut` | no timeout for closing a client | `CallsReturn` (bridge) |
| `ProjectMemory!FaultIndexEntry` | deletes not indexed | `AnsweredIsRemembered`, `StoreIsIndexed` |
| `ProjectMemory!FaultListEntries` | the file is patched instead of written from memory | `PersistedIsOnDisk` |
| `UnrealCommand!FaultIsEnabled` | dangerous commands listed with the other writes | `EnabledIsUsable` |
| `UnrealErrors!FaultErrorFromInfo` | one of the domain's codes is not recognised | `RefusedBeforehand` |
| `PublicValue!FaultBuild` | only texts made public, maps and lists kept as they are | `ShownIsHarmless` |
| `PublicValue!FaultStored` | neither lists nor what is deeper than one level gone through | `StoredIsRedacted` |
| `AgentLoading!FaultLoadOne` | agents that exist already left out of what is returned | `LoadingIsComplete` |
| `Application!FaultStartRuntime` | `_stopped` not reset by a restart | `ServingIsHealthy` |
| `Application!FaultStopRuntime` | the worker is left running | `DownIsStopped` |
| `Application!FaultWaitingStopRuntime` | join without timeout | `ShutdownEnds` |
| `Requests!FaultStore` | a failed memory write answered with 500 | `AnswersTellWhatHappened` |
| `Plugins!FaultHandlerUnsubscribes` | unsubscribing changes the list that is gone through | `AllAreTold` |
| `Plugins!FaultRegister` | not registered while there are subscribers to tell | `StopUnloads` |

## 5. Findings

1. **A handler value ends the worker** (`bad_value`). `TaskQueue._finish_locked`
   subtracts the timestamps of the result (`task_queue.py:253-256`). A handler
   that returns a `JobResult` with a naive `started_at` makes that raise, in
   `complete()`, called from the loop, which has only a `finally`
   (`worker.py:135-138`). The thread ends; the job stays RUNNING, later jobs stay
   QUEUED, `enqueue_job` still accepts them, and `start()` returns at once because
   `_started` is set. Only `stop()` settles them (`StoppedIsSettled` holds even
   here). The comment at `worker.py:156` says the "boundary converts arbitrary
   handlers safely". Running the code gives the same outcome. A value whose own
   attributes or truth value raise while `_normalise_result` reads them takes the
   same path; the model has no such value.
2. **A refused start opens the queue of a stopped runtime** (`refused_start`).
   `start()` calls `task_queue.initialize()` before `worker.start()`
   (`runtime.py:85-86`), which raises while the previous thread is still alive.
   `_stopped` stays set, `stop()` is a no-op, and the queue accepts jobs that no
   worker serves, against `docs/runtime.md:46`. It needs a worker that outlives
   both joins, which a handler that does not let other threads run can cause;
   running the code gives the same outcome.

Observations made while modelling, which have no run of their own. The models
behave as the code does, so no property of section 3 says otherwise:

- An agent that returns the same `AgentResult` object for two tasks has the second
  dispatch rename the first one's result: the dispatcher writes identity and timing
  into the agent's object (`agent_manager.py:196-198`, "an agent cannot accidentally
  report a different task or agent"). The model gives each dispatch its own result.
- ERROR, left by an exception, is overwritten by another dispatch that was about to
  set BUSY and then frees the agent (`agent_manager.py:88`, against the comment at
  `:112-116`, "An exception leaves the agent in ERROR above").
- An agent whose `execute` ends in an exception that is no `Exception` (`SystemExit`) is
  BUSY from then on and no longer dispatchable, until a lifecycle call writes its
  status: line 91 of `agent_manager.py` catches `Exception` only, and the `finally` of
  line 111 belongs to a later `try`. `BusyIsServed` has this as its one exception.
- Two starts of a plan at a time can leave the tracker with the id of one plan and the
  list of the other (`progress_tracker.py:33-36`). `TrackerIsHonest` says what holds all
  the same, and when id and list are of one plan.
- `run_python_readonly` with a list or an object as its action is answered with 500: the
  set of actions is asked for a value that cannot be hashed (`commands.py:219`), and a
  `TypeError` is none of the domain errors, for which `docs/UNREAL_MCP.md:319` says
  "400 for invalid input". `RefusedBeforehand` has this as its one exception.
- Of "Authorization: Basic x" the stored summary keeps the secret, since the pattern
  ends after the first word (`development_request_service.py:21-23`), and it keeps a
  secret without a name ("Bearer x"); `docs/EXECUTION_PIPELINE.md:67-69` says that
  "common `api_key`, token, password, authorization, and secret values are redacted". `StoredIsRedacted`
  says that nothing else remains. The public models, on the other hand, show "auth: x":
  their pattern has no `auth` by itself (`models.py:28-32`).
- Two calls of `POST /memory/entries` with one id may leave one's content in the store
  and the other's in the index, which is what is listed and written to the file, until
  the entry is changed again (`memory_manager.py:46-47`). `StoreIsIndexed` excludes
  entries whose changes have met so, and no others.
- A write that times out leaves its request running while the next write is sent
  (`manager.py:87`; `docs/UNREAL_MCP.md:92` says writes "are serialized"). What holds
  is `OneWriteAtATime`: one write is past the lock, not at work in the editor.
- `client.connection_info` may say connected after a disconnect, when a connect or a
  health check was answered before it and noted after it (`client.py:61-64`).
- An error code that only the bridge knows becomes the base class of the errors
  (`errors.py:103`), which has no HTTP status of its own and is answered with 500,
  where `docs/UNREAL_MCP.md:320-322` lists what domain errors map to. The offline
  fixtures send no such code, so no command of `Tables` meets it.
- A plugin is popped before its `unload` is called, so that one whose `unload` raises
  can neither be unloaded again nor reloaded but stays listed (`plugin_loader.py:70-73`).
- The Brain takes a text that begins with "echoes" for a diagnostic, the Planner
  does not (`decision_engine.py:15-18`, `planner.py:82-91`): the goal says
  execute-diagnostic and the answer is 422. The other direction does not occur
  (`AnswersTellWhatHappened`).

## 6. Proofs

**Queue, runtime, worker.** `TaskQueueProofs` proves, for any set of jobs, any
priorities and any offered results, under clients that call anything at any time:
`QueueTypeOK`, `RecordsAgree`, `CancellationWins`, `VerdictIsFinal`, `ServedInOrder`,
and that `QueueSpec` implements `JobLifecycle!Spec`. The inductive invariant `QueueInv` is the
conjunction of the first three: that a settled job keeps its result is only
inductive with the fact that result and status come from one call, and the
refinement needs the flag of a settled job to imply CANCELLED.

`RuntimeProofs` proves that every step of `Runtime` is an operation of the queue
or leaves the queue alone (`RuntimeUsesQueue`), from `BaseInv`: the types, and that
what the worker has in hand is a known job, a value the handler really left and a
result the queue may be offered. With it the queue's theorems carry over to the
composed system for any number of threads, jobs and handler values.

Its second part proves the worker's and the lifecycle's safety properties. The
invariants, each inductive relative to those before it:

| Invariant | Says | Gives |
|---|---|---|
| `LoopInv` | a live thread is the current one | `OneLoop`; and that while a thread steps, no other holds a job |
| `NothingLost` itself | a queued job is in the heap or in hand | `NothingLost` |
| `HoldInv` | the job in hand is RUNNING or was cancelled; its handler starts once; a success on its way in is the handler's own | `SuccessIsEarned`, `SettledNeverStarts` |
| `RestInv` | only an idle, unstopped runtime is started; nothing is open once the queue was closed for good | `StoppedIsSettled` |
| `OrderInv` | nothing queued should have gone before the job in hand | `NoOvertaking` |
| `CareInv` | an unsettled job has a live loop that will look at it | `RunningIsHeld`, `DrainedBeforeClose`, `WorkerSurvivesHandlers` |

`SuccessIsEarned` does not follow from its own truth: between `mark_running` and
`complete` a cancellation or a forced shutdown may settle the job, and only
`HoldInv` shows that it can then only be CANCELLED, so that a handler started
late never touches the value of a job that has succeeded. `NoOvertaking` needs
`NothingLost` and `LoopInv` (at a dequeue every queued job is in the heap). The
results of `CareInv` carry the assumption `StorableValues`: no handler leaves a
result whose timestamps cannot be subtracted. That is the condition finding 1
violates, so the theorem `WorkerSurvives` and the run `bad_value` together say
that it is the only way a handler's value, once read, ends the loop.

**Agents.** `AgentInv` adds to types and `BusyIsServed` (an agent is BUSY only for a
dispatch that will free it, or after an `execute` of its own that left by no
`Exception`) that no lifecycle call writes BUSY, that
a registered agent has the name it is registered under, and what a dispatch has
in hand at each place (`Reporting`). The second makes the names of candidates
distinct, so that the scan is a choice from a total order on a finite set and has
a first element (`SelectionIsDefined`). Proved for any agents, tasks and calls.

**Plans.** The loop of a request is described by its tasks that are *due* (`Due`): those
that remain, of which the batch is a part, and the one in hand (`Held`). Every
step of the system stands still for a request, reports one due task, which then is
not due (`Reports`), or reports all that are due as unresolvable (`Resolves`): the
lemmas about steps say so once, and each invariant is then kept by those three forms.

| Invariant | Says | Gives |
|---|---|---|
| `LoopInv` | what is due lies in the request's own plan, the task in hand is due, nothing is due in a plan that is done | `PlanTypeOK` |
| `LedgerInv` | a task of a plan is reported exactly if it is not due | `AllReported`, `ReportsAreFinal` |
| `DeliveredIsReported` | a job that carries an agent's result is settled with what the dispatch of that very task reported, for good | `SuccessIsExecuted` |
| `JobsFollow` | of the due tasks only the one that is awaited has a job; no other task has a job waiting to be started | `AllReported`, `AbandonedIsStopped` |
| `ReadyInv` | dependencies of a batch are reported; those of the task in hand and of every task with a job have succeeded | `DependentsWait` |
| `TrackerInv` | what is listed is on its way or as reported; a reported task is listed as such, unless its request is still showing what it found unresolvable (`Lags`); the list has a whole plan; a request that was started alone (`Alone`) is the one named and listed | `TrackerIsHonest` |

`ReportsAreFinal` needs that plans of different requests share no task (`PlanAssumption`;
a task's id is a fresh UUID, `task_decomposer.py:19`) and that a report is only written for a due task,
which by `LedgerInv` has none. `DependentsWait` needs `ReportsAreFinal` in turn: that a
dependency once found SUCCEEDED stays so while the batch is worked off. Agents and
jobs are treated through their own modules: every step is one of `AgentNext` or leaves the
agents alone, and one of `JobLifecycle` or leaves the jobs alone. The second is
`ContractIsKept`, a refinement; with `RuntimeKeepsLifecycle` it says that orchestrator and
runtime meet at one contract.

`PlansKeepTheirContract` is the refinement of `PlanContract`. What the contract finds
unsettled is what is due (`ContractTerms`, from `LedgerInv`), so that the step that fails
all that remains is `GiveUp` only because nothing is in hand while tasks are picked. A
report of the task in hand is `Try`, since `ReadyInv` has kept its dependencies' success
from the batch on (`InHandIsTried`); the code of a result from the queue or an agent is
never one of those the loop gives to a task that was not tried (`JobOutcomeIsTried`).

**Unreal.** `BridgeInv` has four parts: types; `LockInv` (the lock's queue has no call
twice, only its head may be inside, and every write under way is in it);
`ClientInv` (a client that is in use by requests is taken by no disconnect, and
one not yet made is used by nobody); `AnswerInv` (an answer without an error is a
reply of the call's own thread). `OneWriteAtATime` follows from `LockInv`;
`ClosingIsNotUsed` from `ClientInv`, at the step that sends.

**Memory.** Nothing is supposed of who changes what. `MemoryInv` is types,
`StoreIsIndexed` and, for each call, where its content is already (`CallIsKept`): whoever
is between store and index is among the `writers` of the entry, and while a call is
the only one (`Only`), what it has stored or indexed is there. A second caller that
changes the store becomes a writer, and one that changes the index has been one
before, so that a call that is still the only writer has not been touched.
`PersistedIsOnDisk` is about a call no other overlapped (`sole`): `FileInv` says that it
has in hand what the index has, that the file is empty while it is open, and that after a
persisted answer it reads back as the index. Writes that failed or were cut off before
may have left anything, since opening empties the file.

**Plugins.** `EventInv` is about a publication: the list it goes through begins with the
one it began with, because subscribing appends and unsubscribing makes the bus a
new list, and those told so far are its first ones. `LoaderInv` says which plugin is
loaded under which name (`NamesInv`), that one whose `unload` is still owed is loaded,
in hand or given up (`ActiveInv`), what may be listed without being loaded (`ListInv`),
and that what a stop has still to unload is among the names it has listed (`StopInv`).
Plugins, names, subscribers and their changes are arbitrary.

**Tables.** The theorems of `TablesProofs` hold for arguments in any number, values nested
to any depth, with maps of any keys and lists of any length, and registries with
any names taken.

- `EnabledIsUsable`: for each command `Suitable` gives arguments and the proof goes through
  catalogue, policy and transport; for the others the policy refuses whatever is sent.
- `RefusedBeforehand`: what the policy lets through has the arguments the mock transport asks
  for; each refusal's code has a 4xx status, but for the one action that cannot be
  looked up, and no other way leads to a 500.
- `LoadingIsComplete`: `OneTurn` computes one turn of the loop from a closed form of what
  the loop has done after `n` turns, and `LoadAll` follows by induction over `n`. It rests on
  the agreement of the three tables (`TablesAgree`), proved entry by entry.
- `ShownIsHarmless`: by induction over depth, `ShowsWell(n)`: a sanitized value is of the
  same depth, a second pass changes nothing, its texts are harmless, and none that was harmless
  is lost. One lemma each for maps, lists and leaves.
- `StoredIsRedacted`: the same with `StoresWell(n)`, which traces each text that still
  holds a secret back to one of the input, under the same keys, in a form the pattern
  does not cover.

A recursive function of TLA+ is a CHOOSE, about which nothing is known until a function
with its equation exists. `NestedUnfolds`, `PublicUnfolds`, `StoredUnfolds` and
`TextsUnfolds` (and `WithoutIsList` of `PluginsProofs`) show that one exists for every bound
and cite `Induction`, which is induction over a *set* of numbers by its least missing
member: a theorem with an operator parameter cannot be used.

**Application and requests.** `AppInv` ties the lifespan's place to the flags of what it
has started; `RequestInv` gives for each place of a request what it has queued, stored
and decided. Steps of requests leave the application alone and the other way round.

The assumptions are those of the modules (`QueueAssumption`, `WorkerAssumption`,
`RuntimeAssumption`, `AgentAssumption`, `PlanAssumption`, `McpAssumption`,
`MemoryAssumption`, `PluginAssumption`, `DepthAssumption`, `TablesAssumption`), which TLC
evaluates in the runs, and the one hypothesis named above, `StorableValues`.

**Only model-checked.** Liveness (`CallsReturn` of the runtime and of the bridge,
`CancellationSettles`, `AcceptedIsSettled`, `RequestsReturn`, `ShutdownEnds`), which is
outside the reach of the proof system. Every other property of a passing run is a
theorem for all values of the constants.

The proofs suppose what the modules do: that each queue operation is atomic, which
its lock ensures, and that the model's steps are those of the code.

## 7. Not modelled

- `CommandBus` and `StateManager` have no caller but their tests. `ServiceRegistry` is a
  dictionary whose one caller registers names nobody else uses. `task_graph.py`,
  `capability_registry.py`, `orchestrator/agent_registry.py` and
  `ProgressTracker.update_from_schedule` have no caller in the program.
- AI providers: a registry and a deterministic mock that the execution path never calls.
- Routes and services that hand a call on or return constants, and the websocket
  manager, to which nothing connects; legacy agents, shared code, database and front end.
- The JSON on the wire, the transport registry and factory (a class by name), the
  memory's history (a log nobody reads) and its queries.
- Jobs enqueued on `runtime.context.task_queue` directly, past the Runtime API,
  belong to `TaskQueue` (whose clients are arbitrary), not to `Runtime`.
- A subscriber that calls `start` or `stop` from inside `publish`: the lifecycle
  lock is reentrant and would let it through. No code of the repository does so.
- A handler that calls `enqueue_job` while `stop` drains is not told from one that hangs.
- `_register_core_services` raising in `start`: it happens before any state changes.
- Retries: `Job.retries` and `max_retries` are never read by the runtime.
- What the file holds after two callers have written it at the same time:
  `docs/EXECUTION_PIPELINE.md:92` disclaims it. The model has the writes; of the file
  the property says what a later call makes of it that no other overlaps.

## 8. Plan

Done: the execution core with its refinement and theorems; agents and orchestrator
over the runtime's contract; the Unreal layer; memory; plugins and events; the
application and its requests; the tables; a theorem for every safety property of
a passing run, the two refinements (`JobLifecycle`, `PlanContract`) among them.

Left, in order of worth:

1. An abstract specification of the memory, a map that each answered call changes at once,
   implemented by `ProjectMemory` for entries that no two calls change at once.
2. One instance that composes `Runtime` itself, instead of its contract, with
   `Orchestrator`; the state space is beyond a run of minutes today, the refinements meet
   at `JobLifecycle`.
