# A TLA+ model of agentomatic

agentomatic serves agents, ML plugins, pipelines, endpoints and ingestors over HTTP, and runs
them as background *tasks*. This directory models the parts of it whose correctness depends on
the order in which things happen: the task manager, the resumable event stream of a task, the
pipeline engine and its fan-out steps, conversations with their human-in-the-loop approvals, ML
plugins that are reloaded while they serve, and the replay of streamed answers. TLC checks the
modules on small instances; TLAPS proves every safety and action property that a passing run checks,
for every number of tasks, events, clients, steps, requests, threads, plugins, items or streams.

Paths below are relative to the package, `src/src/agentomatic/`, unless they start with `docs/`.

## 1. The system

### Inventory

| Component | State it keeps | Operations | What is hard about it |
|---|---|---|---|
| Task manager `tasks/manager.py` | `_semaphore`, `_running`, `_cancel_requested`, `_subscribers`, `_sequences`, the live `TaskRecord`s | `submit`, `_run`, `_finalize`, `cancel`, `shutdown`, `_emit`, `subscribe`, `resume` | every `await` is a point where another coroutine runs and where `CancelledError` may arrive |
| Task stores `tasks/store.py`, `tasks/sql_store.py` | rows | `save`, `get`, `delete`, eviction | SQL calls suspend, can fail, and are read-modify-write |
| Background reports `tasks/progress.py` | none | `report_stage_sync` | a save that runs beside the task it is about |
| Task event log `tasks/event_log.py` | `_events`, `_sizes`, `_total_bytes` | `append` with three trims, `replay`, `earliest_sequence`, `latest_sequence`, `resolve_resumption` | ceilings interact; truncation is inferred from one number |
| Task event stream `tasks/routes.py` | per connection: queue, cursor | `stream_events` | joins history, snapshot and live queue while events keep coming |
| Pipeline ordering `pipelines/ordering.py` | none | `compute_execution_order` | ties, cycles, unknown names |
| Pipeline engine `pipelines/engine.py`, `pipelines/steps.py` | one `PipelineResult` per run | `run`, `_execute_steps`, `execute_with_retry`, `_run_rollbacks`, `_execute_sub_pipeline` | four step policies, three pipeline policies, two timeouts |
| Fan-out `tasks/manager.py` `_run_batch`, `pipelines/steps.py` map and parallel steps | results, counters, one semaphore per call | item and branch coroutines, gather, cancellation | what is still running when the call returns |
| Stream replay buffer `streaming/replay.py` | frames per stream, owners, bytes | `record`, `replay`, `knows`, eviction | eviction of a stream that is still producing |
| Approvals `core/router_factory.py:1981-2067` | suspended states in the thread store | suspend, approve, reject | read, delete and resume are three awaits |
| Conversation memory `core/memory_manager.py` | none of its own | `get_or_create_thread`, `load_history`, `save_turn` | two saves that belong together, a window over a prefix |
| Thread store `storage/memory.py`, `storage/sqlalchemy.py` | threads, messages, suspended states | create, update, delete, fork, add, evict | two stores behind one interface that differ in what they refuse, cap and expire |
| LLM providers `providers/` | OAuth token, fallback position | `get_token`, fallback, retry | shared token under a lock, retry limits |
| Rate limiter `middleware/rate_limit.py` | hits per client | `dispatch` | sliding window edges |
| Plugins `plugins/`, lifespan in `core/platform.py` | per plugin a model, a lock, a flag; the watcher's last version | load, reload, predict, poll | a reload that fails or is cancelled beside predictions |
| Artifact registry `artifacts/registry.py` | `registry.json` | register, promote, roll back, from other processes | read-modify-write of a file |
| Connections `connections/` | open connections | open, close | one of several fails at start |
| The rest: platform assembly, other storage, agents, optimisation, studio, CLI, logs, stacks | configuration, files | | sequential, or driven by model calls |

### How they interact

The HTTP routes call `TaskManager.submit` and `cancel` on the server's event loop. `submit` saves
the record, emits `queued` and creates a coroutine (`_run`) which it registers in `_running`. The
coroutine takes a permit, saves, emits, and calls a *dispatcher*, which runs an agent, a plugin or
a `PipelineEngine`. The target reports progress through `TaskContext.report`; synchronous code
reports through `report_stage_sync`, which schedules a separate coroutine. Every state change is
saved first and then emitted: `_emit` appends to the event log, then puts the event on the queue
of every subscriber. `stream_events` subscribes, reads the log, sends a snapshot and then follows
its queue. `shutdown`, an application stop hook, cancels everything that runs, waits and closes
the store.

A chat goes through `ConversationMemoryManager` to the same thread store as the thread routes, and
an agent that asks for approval leaves a suspended state there. Training jobs in other processes
write `registry.json`; the lifespan, the watcher and the reload routes read it and reload plugins
that the prediction routes and pipeline steps call. `/invoke/stream` records every frame in the
replay buffer before it yields it.

There is one event loop, so code between two awaits is atomic. With the default in-memory store
and event log the awaits on them do not suspend; with the SQL store they do. Both are modelled,
by one constant (`AsyncBackends`).

### What makes each component correct

* **Task manager.** A task follows the diagram of `TaskStatus` and never leaves a terminal
  status; its terminal event is broadcast once, after the row was saved; a cancel that was
  acknowledged stops the target and ends the record; permits are neither lost nor invented;
  nobody starves; shutdown ends, and only when no coroutine can still save.
* **Event log.** Byte accounting is exact, ceilings hold after every append, what is retained
  of a task is a run of sequence numbers without a gap, up to its newest event.
* **Event stream.** A client that reconnects misses nothing without being told, is sent nothing
  twice, and is shown the outcome before `[DONE]`.
* **Pipeline.** Steps run in the least topological order; nothing runs downstream of a failure;
  the final status is honest; a failed run under `rollback` compensates what succeeded, newest
  first; `continue` leaves no step without a result.
* **Fan-out.** The status of a call is earned by its items and final; what still runs after it was
  told to stop; progress events count the finished items one by one, unless the targets report counts
  of their own; everything ends and gives its permit back.
* **Conversations.** In a history every answer follows its own question; a suspended state is
  decided once; eviction takes the least recently updated threads; the agent sees the end of its
  thread.
* **Plugins.** A prediction runs on one model that was loaded whole; a promoted version is applied
  by every plugin that can load it; a broken promotion is tried once.
* **Stream replay.** Accounting and ceilings hold, the newest frame stays, a returning client is
  sent what is retained and told when something is gone.

## 2. The modules

| Module | Models | Relation |
|---|---|---|
| `TaskLifecycle` | what a client may rely on about a task: `TaskStatus` in `tasks/models.py` | abstract specification |
| `TaskManager` | `tasks/manager.py` (`submit`, `_run`, `_finalize`, `cancel`, `shutdown`) with its stores and background reports | implements `TaskLifecycle` when the backends do not suspend |
| `TaskManager_proofs` | theorems about `TaskManager`, the refinement among them | |
| `Lists` | a comprehension and a sum over a list (`Among`, `Total`) | recursive functions that proofs can unfold; used by the log, the order and the replay buffer |
| `TaskEventLog` | `InMemoryTaskEventLog` and `resolve_resumption` | state and operators, no `Next` of its own |
| `TaskStream` | `_emit`, `subscribe` and the generator of `stream_events` | extends `TaskEventLog`: producers, log and clients composed |
| `TaskStream_proofs` | theorems about `TaskEventLog` and `TaskStream` | |
| `StepOrder` | `compute_execution_order` | pure, with a declarative reference (`Topological`, `Before`) |
| `PipelineEngine` | one `PipelineEngine.run` | extends `StepOrder` |
| `PipelineEngine_proofs` | theorems about `StepOrder` and `PipelineEngine` | |
| `FanOut` | `_run_batch`, `execute_parallel_step`, `execute_map_step` with `execute_with_retry` | what `TaskManager` and `PipelineEngine` see as one await |
| `FanOut_proofs` | theorems about `FanOut` | |
| `ThreadStore` | `MemoryStore` and `SQLAlchemyStore`: threads, messages, suspended states | state and operators |
| `Conversation` | `/chat`, the thread, fork and approval routes, `ConversationMemoryManager` | extends `ThreadStore`: concurrent requests over one store |
| `Conversation_proofs` | theorems about `Conversation` and the store's operators | |
| `PluginServing` | `BaseMLPlugin`, `PluginRegistry`, `PluginAutoReloader`, the lifespan's loading, the plugin routes, `ArtifactRegistry` | composes five source files |
| `PluginServing_proofs` | theorems about `PluginServing` | |
| `StreamReplay` | `StreamReplayBuffer`, `/invoke/stream` and its replay route | |
| `StreamReplay_proofs` | theorems about `StreamReplay` | |
| `ListLemmas` | lemmas: induction over the naturals, least elements, what the operators of `Lists` return | cited by the modules with `_proofs` in their name that reason about lists |
| `MCTaskManager`, `MCTaskStream`, `MCPipelineEngine`, `MCFanOut`, `MCConversation`, `MCPluginServing`, `MCStreamReplay` | small instances | |

Most modules keep a few operators marked `bug:`. They are plausible mistakes in the code, written
beside the definition they would replace; no specification uses them. Substituting one makes TLC
report the property it is listed with in `PROJECT.json`, which is how we know that the property
constrains the code.

### TaskManager

A task's coroutine is a program counter: `pc[t]` names the await at which it is suspended.

| `pc` | where the coroutine stands |
|---|---|
| `submit_save`, `submit_emit` | `submit` (manager.py:215-216), before the coroutine exists |
| `ready` | created, first step not run |
| `acquire` | `async with self._semaphore` |
| `start_save`, `start_emit` | lines 363, 364 |
| `attempt_save` | line 380 |
| `dispatch` | the dispatcher call, lines 382-389 |
| `backoff` | `asyncio.sleep`, line 409 |
| `final_save`, `final_emit`, `webhook` | `_finalize`, lines 555-558 |
| `ended` | returned or raised |

An action is the code from one await to the next. `status` and `attempts` are the live record,
`stored` the row that other readers see; they differ while a save is in flight. `asyncio.Task.cancel`
sets `interrupt[t]`; the only step an interrupted coroutine can take is `Interrupt(t)`, which either
goes to `_finalize(CANCELLED)` (`InTry`: the await lies inside the `try`) or leaves `_run`. Whether
the save or POST it cut short had taken effect is left open. `SaveFailed(t)` is a store that raises.
A permit goes back on every way out (`Leave`), as `async with` does; `waiters` is the FIFO of
`asyncio.Semaphore`. `cancel()` is two steps, `CancelRead` and `CancelAct`, with the row read before
the await and acted upon after it; a read that raises ends the request like one that finds a terminal
row, without a change. `shutdown()` calls `cancel()` for every entry of `_running` as one
more caller, waits for the snapshot it took, and closes the store. If one of those reads raises
(`ShutdownFails`), `shutdown()` raises too: what is left is neither cancelled nor waited for, and the
store stays open.

Abstractions: a batch is one dispatch (its inside is `FanOut`); what a target returns is a choice (success or exception);
backoff delays are an await of unknown length; a save that raises has not written; the transfer of
a released permit to the first waiter happens when the waiter takes it, and nobody overtakes the
queue (`Start` only takes a permit if nobody waits). The record payload (progress, checkpoints,
result) is left out. Submissions stop before shutdown begins, as the server drains its requests
before it runs stop hooks.

### TaskEventLog and TaskStream

`Record(t, event)` is `append` under the log's lock, hence one step: cap by number, forget least
recently appended tasks, trim the task's own bucket. The loops of the code become the least number
of rounds after which they stop (`Rounds`).

`TaskStream` follows one task. `saved`, `emitted` and `fanned` count the states saved, the events
appended and the events handed to queues; they differ only between two awaits of `_emit`. Other
tasks write to the same log and evict this one's history. A client's generator stands at
`subscribed`, `resuming`, `replaying`, `snapshot` or `live`, the awaits and yields of
`stream_events`. A client may lose its connection at any of them and returns with the last id it
was given. `delivered`, `covered` and `informed` are what the client knows: events received, events
reflected by a snapshot or announced as truncated, and whether it was shown the outcome. The task
emits nothing after its terminal event (see the hazard at manager.py:593).

### StepOrder and PipelineEngine

Steps are numbered by their place in the list, so the heap of Kahn's algorithm pops the minimum of
`Ready`. The execution order is a recursive function, compared with the set of all topological
permutations. In `PipelineEngine` the environment chooses what a step returns, what a condition
evaluates to, and when the pipeline's timeout fires; the pipeline itself is any configuration of
the constant `Pipelines`. Recording a result, applying the policy and reporting progress are one
step: the only thing that could be seen between them is a timeout, after which the run has failed
whatever the last result reads. Validation, data mappings and the inside of loop steps are left out,
that of parallel and map steps is `FanOut`; a rollback block that raises is logged and leaves no trace in the state.

### FanOut

The three callers share one shape: a coroutine per item, a semaphore, and a coordinator that takes
what they return. `kind` says which of them runs; an action that belongs to one of them is guarded
by it. A *job* is an item of a round, because the task above a batch attempts it again when a
progress save fails (`ReportFails`), while the jobs of the round before go on.

| `job` | where the coroutine stands |
|---|---|
| `idle` | of a round that has not begun |
| `waiting` | at the semaphore |
| `running`, `fallback` | in the agent or dispatcher |
| `backoff` | asleep between two attempts of a map item, keeping its permit |
| `counting` | a batch item that waits for the lock |
| `reporting` | inside the lock: counted, its progress being saved |
| `ok`, `failed`, `cancelled` | ended |

`gather` (batch, and the strategies `all` and `majority`), `asyncio.wait` (map) and `as_completed`
(`first`) differ in what the coordinator takes one by one (`Take`), whom a cancellation reaches
(`ToldToStop`) and when it is over (`Cancelled`: a cancelled `gather` returns at the first child
that is). The progress and checkpoint callbacks of a map step are one await, `calling`; each saves
before it emits, so if both raised nothing was emitted (`CalledBack`).

The targets of the items report on the same record, through the same context (tasks/dispatchers.py:77,
258, 274, 300, 344 and 348-373, `report_stage` in an agent), outside the lock of `_run_batch`. Such a
report is two steps: `TargetReports` changes the record, which now waits for its save, and
`TargetReported` emits an event that shows the record as it then is, or nothing when the save raised or
an item was cancelled meanwhile. `aside` counts the reports between the two.
Synchronous code reports in a coroutine that nobody waits for, so it may begin and end after its item.
Most reports give no count and leave `record.progress.current` as it is; the callbacks of a pipeline
give its step numbers. `counts` is what the targets of the call report: nothing, or `TargetCounts`.
`progress` is the count in the record, `emitted` that in the last progress event, by sequence number.

A dispatcher's error is a batch item's result, so `BatchItemReturns` has one outcome. Left out: what
items compute, resolution and merging of data, an empty list (it succeeds at once), resumption from
`completed_indices` (the engine hands them on and no step reads them). The `timeout` fields of map
and parallel steps have no effect in the code; an item's own timeout is one of the ways it fails.

### ThreadStore and Conversation

`recency` lists the existing threads by `updated_at`; only the order matters to eviction. An
operator of `ThreadStore` is one call of a store, with the differences between the two: only the
memory store has a cap, overwrites an existing id, and looks at `expires_at`; only the SQL store
has foreign keys, suspends and fails.

`pc[r]` names the await a request stands at. With the memory store awaits on the store do not
suspend, so a handler that stands at one (`Calling`) excludes the others (`CanRun`); with the SQL
store everything interleaves and every call may raise (`StoreFails`). Routes that are one store call
are one action. A chat is `lookup`, `create`, `load`, `run`, `save_user`, `save_assistant`; an agent
that suspends goes to `suspend` instead. An approval is a read (`Approve`), `approve_delete`,
`resume`, and perhaps `resuspend`. `decisions` is a history variable. A message stands for its turn
and role; a request is the turn it saves.

What reading the code for this module showed, beyond section 5: with the SQL store two decisions on
one state may both act, because nobody looks at what `delete_suspended_state` returns; turns of two
chats interleave there, and half a turn stays when the second save fails. The suspended state is
deleted before the run is resumed, so a resumption that raises cannot be repeated. The answer of an
approved run is not saved to its thread. Approval compares neither the thread in the URL nor the
agent with the state. An SQL state that has expired can still be approved, and nothing calls
`cleanup_expired_states`. A fork or an explicit create onto an existing id replaces that thread in
the memory store, and a fork may exceed `max_threads` until the next create. A chat without history
to a thread that does not exist loses its turn. The document store has no suspended states.

### PluginServing

`file` is `registry.json`; a writer is a job in another process that reads it (`ReadFile`) and
replaces it (`Register`, `Promote`), two steps with anything between. Plugins load by reading the
promoted version, replacing their model in place and returning: between `LoadBegins` and
`LoadReturns` the model is `Partial`. `lock[p]` is the operation lock; its owner is a request or the
watcher. `todo` holds what a reload has yet to go through, in any order, one at a time. `Abandon` is
a cancellation: of the watcher by `stop()`, of a reload request by a client that leaves. The
lifespan loads without the lock, before anything is served (`stage`).

Which plugin can load which version is the constant `Broken`. A load takes the version it began
with, so a promotion during a load leaves an older model in place, until the watcher's next poll
sees a version that differs from `observed`; a roll back to the version observed before is not seen.
A plugin whose first load raised keeps whatever its `load_model` had assigned and is refused by
`/predict`; pipeline steps call `invoke`, which does not look at the flag, and are not among the
requests modelled. An unreadable `registry.json` counts as no promoted version in the code; here the
file is always readable.

### StreamReplay

The buffer's lock is never held across another await, so `record` is one step and the replay route
reads in one. `TrimStream` and `TrimTotal` give the outcome of their loops as the least number of
frames, or streams, to drop; `Forget` drops that many streams at once, and `Since` is the
comprehension of `replay`. `buffer.streams` is the order of the dictionary of streams, from the one
written to longest ago. A frame carries its sequence, as in the code, and its position in the
answer, which the code does not have: properties compare the two. `Produce` records and sends a
frame; a client that left gets nothing until `Replay`. A client that asks from 0 is never told
that frames are gone, whatever was trimmed. `drop` has no caller and is left out, as are owners,
which are compared before anything else happens.

## 3. The runs

| Run | What it shows |
|---|---|
| `task_memory` | default backends: the rows and terminal events implement `TaskLifecycle`; the outcome is announced once; a cancel of an executing target takes effect; shutdown ends |
| `task_sql` | suspending, failing store with a background report: permits conserved, no dispatch after cancel, closed store quiet, failed and cancelled rows final, no starvation |
| `task_stream` | log accounting and ceilings, contiguity, no silent gap while the task keeps a place in the log, ids never go back, a stream of a finished task ends |
| `pipeline` | order, cascade, status, compensation and `continue` over every graph of three steps |
| `conversation` | three requests, three threads of which the memory store keeps two, two suspended states, both stores: histories are turns, states are decided once, eviction takes the oldest, threads no longer than what is read are seen to their end |
| `plugin_serving` | two plugins, two versions of which one cannot load one, two registry changes, two requests: predictions see one whole model, the watcher rests, a change is applied |
| `fan_out` | three items under two permits, two attempts, two rounds, and a report of a target beside them: status earned, stragglers told, events count up, everything ends |
| `stream_replay` | three streams in a buffer of two, two frames and three bytes, frames of size 1 and 4: budget kept, replay honest, newest frame retained |
| `stuck_cancel`, `nested_timeout`, `frozen_window`, `stale_baseline` | four places where the code does not do what its documentation says (section 5) |

All runs are finite because every counter is capped: `MaxAttempts` and `MaxConcurrency` are
configuration values of the code, as are those of `FanOut` (`MaxRounds` is the task's
`max_attempts`), `MaxThreads` and the ceilings of `StreamReplay`; `MaxCancels`, `MaxSequence`,
`MaxNoise`, `MaxDrops` and `MaxAside` (reports of targets under way at a time) are bounds of the
model, as are `Slack` (50 in the code), `Produces` (frames per answer) and `Returning` (streams whose client comes back). Requests, writers and calls are used
once. Deadlock checking is off: each system may stop legitimately (all tasks ended,
the stream done, the run returned).

Why the bounds are enough:

* Two tasks and one permit give one holder and one waiter, the smallest contention; two attempts
  give a retry with its backoff; two cancels cancel both tasks, or one of them twice.
* Three events of the streamed task against a log of two events per task, two tasks and four
  bytes (events of size 1 and 3) make each of the three trims happen, alone and after another;
  two neighbours are needed to push a task out of a log that holds two. Two lost connections let a
  client resume a resumed stream.
* Three steps have every shape of dependency that matters to the cascade: chain, fork, join,
  cycle, self-reference, unknown name. Step 2 has a condition, a retry and a fallback, step 3 is
  a sub-pipeline, steps 1 and 2 have rollback blocks, and all four failure policies occur except
  `retry`, which the engine treats as `fallback` without an agent.

* Three chats on a memory store of two threads make a create evict, once or twice after a fork;
  two approvals and a rejection meet on one state; a window of one message over three read has
  threads on either side of each threshold. Ids of a kind are interchangeable, so the run uses
  symmetry; its properties are safety properties.
* Two plugins are one that fails and one that does not; two writers are two changes, or one that
  races another; two requests are a prediction against a reload, or two reloads. Ids stay apart:
  the run has liveness properties.
* Three items under two permits have a holder, a second holder and a waiter; of three, two are a
  majority and one is not; two rounds let leftovers meet the next attempt. One report of a
  target at a time, and any number of them one after the other, may begin and end anywhere around an
  item's own; its count (2) is one that an item's report may give too. The theorem
  `EventsGoUpByOne` is for any number at a time.
* In `stream_replay` a frame of size 4 exceeds every budget alone, and three streams in a buffer of
  two make each eviction happen. Only one stream's client returns; the two others are
  interchangeable.

### Fairness

`TaskManager` assumes weak fairness of each coroutine's own steps (`Proceed`), of an open
`cancel()` call and of `shutdown()`: the event loop runs what is due, and store calls, log calls
and the webhook (10 s timeout) end. Nothing makes a target return: `Dispatched` is not fair.
`EveryTaskEnds` therefore has the premise that targets keep returning. Weak fairness is enough at
the semaphore because it is a FIFO. `TaskStream` assumes that what was saved is emitted and that
generators run; nothing makes the task end or a client return. `PipelineEngine` has safety
properties only and assumes no fairness, and neither do `Conversation` and `StreamReplay`.

`FanOut` assumes that the event loop does not stand still while a coroutine of the call has something to
do; `AllEnds` needs no fairness between coroutines, since a call has finitely much to do. Agents and dispatchers return
(`item_timeout` ends those that do not), saves and callbacks end and cancellations arrive; nobody has to
cancel, no target has to report, and nothing has to succeed.

`PluginServing` assumes that the watcher polls, that loads and predictions end and that
coroutines that can run do; no job has to promote, no client has to ask or to leave. Weak fairness is
enough for a reload that waits for a lock because requests are finite.

## 4. The proofs

Eight modules hold proofs. Each theorem is for every value of the constants allowed by the named
assumptions of the module (`TaskManagerAssumption`, `TaskEventLogAssumption`,
`TaskStreamAssumption`, `StepCountAssumption`, `PipelineAssumption`, `ThreadStoreAssumption`,
`ConversationAssumption`, `PluginServingAssumption`, `FanOutAssumption` and
`StreamReplayAssumption`), which ask for natural
bounds, ceilings of at least one (the code raises smaller ones to it), a `None` that is no id and, for
`FanOut`, finitely many items. Three theorems need more and say so: `Prompt` (backends that neither
suspend nor fail, as the default ones) and `QueueSuffices` (a live queue holds what the task emits;
section 5 shows what happens when it does not).

| Theorem | Statement |
|---|---|
| `TaskManager_proofs!TypeCorrect` | `Spec => []TypeOK` |
| `SemaphoreConserved` | `Spec => []PermitsConserved` |
| `CancelStopsDispatch` | `Spec => NoDispatchAfterCancel` |
| `ShutdownDrains` | `Spec => []ClosedStoreIsQuiet` |
| `FatalRowsStay` | `Spec => FailedAndCancelledAreFinal` |
| `OutcomeToldOnce` | `Spec => []OutcomeAnnouncedOnce`, assuming `Prompt` |
| `RefinesLifecycle` | `Spec => ImplementsLifecycle`, assuming `Prompt`: `TaskManager` implements `TaskLifecycle` |
| `TaskStream_proofs!StreamTypes` | `Spec => []TypeOK` |
| `BytesAddUp`, `LogIsBounded`, `HistoryIsARun` | `Spec => []AccountingHonest`, `[]CeilingsKept`, `[]HistoryContiguous` |
| `FreshStreamsAreInformed` | `Spec => []FreshStreamInformed` |
| `IdsOnlyGrow` | `Spec => IdsNeverGoBack` |
| `NothingIsLostSilently` | `Spec => []NoSilentGapWhileRetained`, assuming `QueueSuffices` |
| `PipelineEngine_proofs!OrderIsLeast` | `ExecutionOrder` is the least topological permutation, and refuses exactly when there is none |
| `PipelineEngine_proofs!TypeCorrect` | `Spec => []TypeOK` |
| `RunsInLeastOrder`, `StatusCorrect` | `Spec => []OrderIsLeastTopological`, `[]StatusIsHonest` |
| `ContinueCorrect`, `RollbackCorrect` | `Spec => []ContinueLeavesNoStepOut`, `[]RollbackUnwinds` |
| `CascadeIsTransitive` | `Spec => NoStepAfterFailedUpstream` |
| `FanOut_proofs!TypeCorrect` | `Spec => []TypeOK` |
| `StragglersAreTold` | `Spec => []StragglersWereTold` |
| `StatusesAreEarned` | `Spec => []StatusIsEarned` |
| `EventsGoUpByOne` | `Spec => EventsCountUp` |
| `Conversation_proofs!TypeCorrect` | `Spec => []TypeOK` |
| `SuspensionDecidedOnce` | `Spec => []DecidedOnce` |
| `HistoriesAreTurns` | `Spec => []HistoryIsTurns` |
| `CreateEvicts`, `ShortThreadsAreSeen` | `Spec => CreateEvictsOldest`, `ShortThreadIsSeen` |
| `PluginServing_proofs!PredictionsAreWhole` | `Spec => []PredictionsSeeOneModel` |
| `StreamReplay_proofs!AccountsAreKept` | `Spec => []BudgetKept` |
| `RepliesAreHonest` | `Spec => []ReplayIsHonest` |
| `NewestSurvives` | `Spec => NewestIsRetained` |

The arguments:

* `TaskManager`: `TypeOK` is not inductive: that `attempts` stays within `MaxAttempts` depends on
  where the coroutine stands (`AttemptInv`), that events are terminal statuses depends on
  `_finalize` having set one (`OutcomeInv`), and that `permits` stays within `0..MaxConcurrency`
  depends on the holders. `PermitsConserved` in turn needs the set of holders to be finite and a task
  finalized as succeeded to hold a permit (`SlotInv`: only that one can go back into the attempt
  loop, by a failed save). Their conjunction `TypeInv` is inductive. `ReleaseKeepsSum` and
  `AdmitKeepsSum` carry the arithmetic; `QuietStep`, `FinalizeStep`, `AttemptFailedStep`,
  `LeaveStep`, `AdmitStep`, `SlotStep` and `ControlStep` treat the actions by what they disturb.
  `NoDispatchAfterCancel` follows from `CancelInv`: a flagged coroutine that stands inside the slot,
  or finalizes a success that a failed save could send back, has `CancelledError` due; and an
  interrupted coroutine takes no step but `Interrupt`, which never leads to `dispatch`.
  `ClosedStoreIsQuiet` follows from `DrainInv`: from the moment shutdown takes its snapshot no
  coroutine is created, so `Running` only shrinks and stays inside the snapshot.
  `FailedAndCancelledAreFinal` needs `RowInv`: a coroutine that can still save to such a row saves
  what the row already says.
* The refinement, and that an outcome is told once, rest on `SyncInv`: with prompt backends a save
  or an append is one piece, so no other coroutine is in one, no `cancel()` stands between its read
  and its act, and an interrupt is only ever due where a coroutine really waits. `Recorded` then ties
  the row to the program counter and the live status, and `Told` the announcements to the row. Each
  action of `TaskManager` is shown to be a step of `TaskLifecycle` or a stutter.
* `TaskEventLog` and `TaskStream`: the log's part of `StreamInv` is `LogInv` (types, ceilings, byte
  totals, every task listed once) and `Runs`: what is retained of a task is numbered without gaps up
  to its newest event. One lemma per trim of `append` says what it keeps; the three loops end at the
  least number of rounds, whose existence is the lemma `LeastElement`. `Ahead(c)` bounds a client's
  id and its queue by what was emitted. `NoSilentGapWhileRetained` needs `GapInv` besides: while a
  client is connected, its queue is a run up to the newest event (here `QueueSuffices` is used), and what came
  before the queue lies within what the client has, its replay or its snapshot (`Joined(c)`).
* `StepOrder` and `PipelineEngine`: `OrderIsLeast` is proved by induction along the recursive
  function: what has been taken so far is closed under upstreams, and the least permutation cannot
  start differently. `PipelineInv` adds to the types what the results say at each point
  (`LoopInv`: the steps in front have results, the others none, and what was not unsuccessful has no
  unsuccessful upstream), what a rollback has still to undo (`RollbackInv`), and what an error and a
  policy imply for the verdict (`VerdictInv`, `CompleteInv`, `FinalInv`). The cascade is transitive
  because the code keeps skipped steps in the same set as failed ones.
* `FanOut`: `StopInv` extends `StragglersWereTold` to a call that is being cancelled; it needs that
  the coordinator has taken only jobs that ended (`TakenInv`) and that later rounds are idle
  (`RoundInv`). `EventsCountUp` is about targets without counts and follows from `CountInv`: at most one
  item of the first round stands between its count and its event, the record's progress is `done`, and
  `emitted` is `done`, or the number before it while that item waits, since a target's event may have
  shown the new count first (`BatchCountInv`); for a map step, the record's count is the number of
  items taken and the events do not run ahead of it (`MapCountInv`). A report of a target leaves the record's count
  (`TargetKeepsCount`), and until a later round begins all that counts is of the first
  (`FirstRoundRuns`). `StatusIsEarned` needs `EarnInv`: what a
  verdict was given for stays so, since items that ended stay ended (`VerdictInv`), and a batch that
  is over has counted its items (`DoneInv`).
* `Conversation`: the types rest on lemmas about each store call (`OthersType`, `EvictType`,
  `PrefixType`, `CreateType`, ...) and on `PlaceInv`: a handler under way knows its thread, and its
  approval when it decides one. The next two theorems need `OneCaller`: with the memory store at most
  one handler stands at a store call, since `CanRun` lets nobody else take a step. `DecidedOnce`
  then needs `DecidingInv` (a decision between its read and its delete is about a state nobody has
  decided on) and `HistoryIsTurns` needs `HalfTurnInv` (between its two messages a handler's
  question is the last message of its thread). Cutting a history anywhere keeps it in turns
  (`PrefixInTurns`), which covers forks. `CreateEvictsOldest` and `ShortThreadIsSeen` follow from
  the types and from what `Evict` and the window compute.
* `PluginServing`: that a prediction sees one model depends on who may change a model meanwhile.
  `HeldInv` says that a held lock belongs to a reload whose load is under way or to a prediction,
  `OneLockInv` that nobody holds two, `ReloadInv` that after the start a plugin loads only under its
  lock and that what was saved of it is what it was, so that a load that raises or is cancelled puts
  back a whole model (`WholeInv`). `StartingInv` and `StartedInv` keep the lifespan's unlocked loads
  apart from requests. `ServingInv` is their conjunction; one lemma per action shows it kept.
* `StreamReplay`: first, `record` as a function of the buffer. `Sound(b)` is the accounting;
  `AppendedFacts`, `DropOldestFacts`, `TrimStreamFacts`, `ForgetFacts` and `TrimTotalFacts` say of each
  of its parts that it keeps it, which ceiling it establishes, and that the frames of the stream
  written to are only cut at the front (`Shortened`); `RecordFacts` puts them together. Then
  `ReplayInv`: what is retained of a stream is a run of positions up to the last produced and a run
  of sequences up to the last given (`RunOf`), and the two agree, for the stream's client too, as long
  as the stream was not evicted while it ran (`Numbered`).

Induction over data is not beyond this prover as long as the property is given as a set: `SetInduction` and
`RecursionExists` follow from the well-foundedness of `<` on the naturals, and with them
`ListLemmas` proves what `Among` and `Total` return for every list. The operators that proofs reason
about use these two and recursive functions; folds and `SelectSeq`, whose arguments are operators,
stay opaque to the provers.

Only model-checked: the liveness properties (`ShutdownCompletes`, `RunningCancelTakesEffect`,
`EveryTaskEnds`, `StreamEnds`, `WatcherRests`, `ChangeIsApplied`, `AllEnds`), which rest on fairness and
hence on ENABLED, out of the prover's reach; and the four violations of section 5, which are
counterexamples.

## 5. What the code does otherwise

Each of these is a run that TLC ends with a counterexample; `PROJECT.json` quotes the statement it
refutes.

1. `stuck_cancel` (tasks/manager.py:304): a cancel before the target is invoked ends the coroutine
   outside the `try`; the record stays `queued` or `running`.
2. `nested_timeout` (pipelines/engine.py:732): a sub-pipeline's timeout is taken for the pipeline's
   own; its policy is not applied and nothing is rolled back.
3. `frozen_window` (core/memory_manager.py:196): the window is taken from the first `limit + 50`
   messages, so in a longer thread the agent never sees what was said last.
4. `stale_baseline` (plugins/autoreload.py:53): a version promoted while the lifespan loads plugins
   becomes the watcher's baseline and is never applied to those loaded before it, which serve an older
   version, or none if their first load failed.

The following statements are defined in their modules and TLC refutes them too; no configuration
beside this file repeats it. Put the property, alone, into the configuration named.

| Property | Configuration | What TLC shows |
|---|---|---|
| `TaskManager!TerminalIsFinal` | `MCTaskManager_sql.cfg` | `cancel` (tasks/manager.py:298) acts on a status read before an await: a `succeeded` row becomes `cancelled`. A late background report rewrites a finished row as well. |
| `TaskManager!ShutdownCompletes` | `MCTaskManager_sql.cfg` | A failed save of the outcome (line 390) runs the finished target again under a row that reads `succeeded`; `shutdown` cannot cancel it and waits. |
| `TaskStream!StreamInformed` | `MCTaskStream.cfg` | A resumed stream whose task ends during the replay (tasks/routes.py:244) says `[DONE]` without the terminal event. |
| `TaskStream!NoSilentGap` | `MCTaskStream.cfg` | A history evicted as a whole is not reported as truncated (tasks/event_log.py:449). |
| `TaskStream!NoSilentGapWhileRetained` | `MCTaskStream.cfg` with `QueueSize = 1`, `MaxEventsPerTask = 3` and `MaxBytesTotal = 20` | An event dropped at a full queue (tasks/manager.py:584) is skipped for good, because later ids overtake it. |
| `PluginServing!OnlyPromotionMoves` | `MCPluginServing.cfg` | A registration that read the file before a promotion and wrote it after takes the promotion back; `docs/guide/ml-plugins.md:159` calls `promote` an "atomic flip of `current`". |
| `StreamReplay!SequenceIsPosition` | `MCStreamReplay.cfg` | A stream evicted while it runs is numbered from 1 again (streaming/replay.py:278). |
| `FanOut!BoundedConcurrency` | `MCFanOut.cfg` | A batch attempted again after a failed report runs beside the leftovers of the attempt before: more than `batch_concurrency` items at a time (tasks/manager.py:461). |
| `FanOut!EventsCountItems` | `MCFanOut.cfg` | In a batch of pipelines the steps of each pipeline overwrite the count of the batch (tasks/dispatchers.py:348-362, tasks/manager.py:513-531): the progress that is published, which `docs/guide/tasks.md:190` shows as the number of finished items, jumps between the two. |

`docs/guide/pipelines.md:285-286` describes `first` and `majority` as if the step ended at the first
success or majority and dropped the rest. The code does end `first` at the first success but leaves
the slower branches running, also past the pipeline's timeout, and `majority` waits for every branch.
`StragglersWereTold` names the first exception.

## 6. Not modelled, and the plan

Not modelled at all, and not planned: optimisation, CLI, studio, logs, configuration, the document
store, checkpoints and feedback, agent base classes (sequential code, or numeric and textual work
around calls to models), endpoints and ingestion (HTTP and file parsing), token and JWT verification
(cryptography and parsing), and the legacy demo application. They are most of the lines of the
repository.

Planned, in this order:

1. `TaskManager`: `submit_and_wait`, deletion, store eviction, restart with rows whose coroutines
   are gone; the background report composed with the event stream (sequence numbers after the
   terminal event).
2. The OAuth token provider and the provider fallback: a token's lifetime is measured from the
   response, an `invalidate` may drop a token newer than the one that was refused, and a stream that
   falls back midway repeats itself to its reader.
3. Loop steps with checkpoints; the rate limiter, whose table of clients only grows; connections,
   which the lifespan closes before the tasks that use them have been shut down.
