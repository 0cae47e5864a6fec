# A TLA+ verification of axrl

axrl is an online reinforcement-learning system for language models on Ray:
rollout engines (SGLang) generate conversations, a controller assembles groups of
them, packs them into training samples, trains Megatron workers on them and
brings the new weights back to the engines. The modules in this directory model
the parts of it that keep state and run concurrently. TLC checks them on small
instances, and TLAPS proves safety properties of ten of them for every instance.
Paths below are relative to `src/axrl` unless they start with `src/`.

Every module is translated from the code. `PROJECT.json` maps each definition to
the lines it stands for. Definitions whose comment begins with "Slip:" are
plausible mistakes in the definition that follows them; no specification uses them.
They exist to show that each property can fail (`mutants` in `PROJECT.json`).

## 1. Inventory

| Part | State | Operations | Correct if |
|---|---|---|---|
| **Task queue** `utils/ray_task_queue.py` | per-key deques, running assignments, completed ids, parked callers | put, get (blocking, with a deadline), get_nowait, complete | the running limit holds; nobody sleeps beside a runnable task; a task is in one place; every task is served |
| **Pipeline controller** `pipeline/controller.py` with **rollout actors** `pipeline/rollout_actor.py` | rollout and result queue, partial and valid groups, steps, engine version, tensor-store handles | schedule, stream results, filter, train, sync, evaluate, health check | groups are whole, staleness is bounded, tensors are freed exactly once, failures surface, schedules end |
| **Stage managers** `controller/stage_manager.py` | which model is on the GPU | switch to train / value train / weight sync / rollout | the GPU is never shared by two that do not fit; every phase completes |
| **Rollout engine** `worker/sglang_worker.py`, `ray/ray_rollout_worker.py` | ready event, pause flag, requests worked on, memory tags, weights, actor slots | generate, pause, resume, release, resume memory, update weights | nothing decodes under an update; outputs keep to their budget; calls return |
| **Inference router** `worker/infer_router.py` | workloads, session tables | assign, account, clean up, clear | counters agree with what is in flight, tables are bounded, load is balanced |
| **Processor pool** `processor/processor_pool.py` | processes, in and out queue, reader lock, task table, futures | generate, timeout and restart, listener, close | a call has one answer and ends; no task runs twice |
| **OpenAI proxy** `openai_proxy/server.py` | sessions, queues, registered requests | create, close, submit, timeout, wait, respond | no request waits in a closed session |
| **Black-box environment** `src/axis_recipe/blackbox_rl/` | where the rollout is, current request, attempt, runtime | start with relaunch, step, end, finish | every rollout ends; every request is answered; attempts do not mix |
| **Rollout trace** `data/rollout_trace.py`, `data/token_trace.py` | prompt chunks, routing handles, turn samples | append, compact, summarise, fresh prompt, export | routing rows belong to the tokens before them |
| **Prefix-tree packing** `utils/megatron/prefix_tree.py` | none (pure) | insert, lay out, merge, pack greedily | every output token is trained once, in its own context |
| **Checkpoints** `controller/base_controller.py`, `pipeline/controller.py` | what is on disk, steps in memory | save with retries, export, clean up, load | what is loaded belongs together; bounded loss |
| **GRPO controller** `controller/grpo_controller.py` over `controller/base_controller.py` | asyncio tasks of rollouts and packing, valid groups, score table, stored routing | sample, stream, filter, pack, train, sync, evaluate, snapshot, checkpoint | batches are whole and packed; nothing leaks; the policy lag is bounded; streams end |
| **Data-parallel batches** `data/global_batch_iterator.py`, `utils/megatron/seqlen_balancing.py`, `utils/megatron/pack_utils.py` | none (pure) | group, pad, deal, balance, pack, unpack | every sample once, with its own outputs |
| **Megatron worker** `worker/megatron_worker.py`, `ray/ray_megatron_worker.py` | weights and their copies, batches, gradients, spike history and snapshot | train, eval, logprobs, values, reproduce a spike | ranks never wait in different collectives; every row keeps its logprobs |
| **Routing replay** `utils/megatron/routing_materialiser.py`, `routing_caches.py`, `router_replay.py` | prefetch ring, merged cache, replay queues | prefetch, merge, replay, release | a router replays the routing of its own token, layer and trajectory |
| **Forward functions** `utils/megatron/magi_forward.py`, `model_forward.py` | context of the micro-batch | pack, shard, attend, recompute, unpack | an output belongs to its token; contexts do not mix |
| **Losses** `trainer/` | none (pure) | clip, mask, normalise, GAE | the split does not matter; updates stay in the trust region |
| **Search-R1** `src/axis_recipe/search_r1/` | trace, searches, connections, server rotation | step, search with retries, answer, score | budgets hold; every search is answered; the reward sees the format |
| Tensor store `utils/tensor_store.py` | tensors in shared memory | put, get, delete | only the handles are modelled |
| Inference workers, verifiers, datasets, tokenizers, configuration, runners | interfaces, text or declarative | | not modelled (section 8) |

How they interact. The controller puts rollouts on the rollout queue; parallel
workers of the rollout actors get them, run an environment (white-box or
black-box), call `generate` on the engines, publish the result on the result
queue and complete the assignment. A black-box environment launches a runtime
that talks HTTP to the OpenAI proxy, whose handlers wait until the environment has
taken and answered their request. The controller collects results, decides when
a batch is full, and moves the GPU through the stage manager, which makes control
calls on the engine actors while rollouts keep calling generate. Rollout traces are packed
by the prefix tree before they are trained on; the driver deals the packed samples to
data-parallel ranks, each splits its rows into micro-batches, fetches their routing from
the tensor store ahead of time, and runs forward, loss and backward on them.

What is hard. asyncio conditions and events shared by many coroutines; control
calls that race the generate calls in the same actor; killed worker processes
with inherited queue locks; deadlines that race answers on both sides of the
proxy; batches trained while rollouts of an older policy are in flight; compaction
that invalidates captured state; a crash between the parts of a checkpoint; ranks that
must agree on the number of collectives; forwards and recomputes of several
micro-batches that share one context. The
`hazards` of `PROJECT.json` give the line where each bites and the properties
that would catch it.

## 2. Modules

| Module | Models | Uses |
|---|---|---|
| `RayTaskQueue` | the queue actor: parked callers, `notify_all`, deadlines | |
| `RayTaskQueueProofs` | theorems about it | `RayTaskQueue`, TLAPS |
| `RolloutPipeline` | the online RL loop and its workers | instance `Queue` of `RayTaskQueue` |
| `RolloutPipelineProofs` | theorems about it, and that it refines the queue | `RolloutPipeline`, TLAPS |
| `SGLangWorker` | all rollout engines and the calls in them | |
| `OnlineTrain` | a pipeline run in every run mode: phases, stage managers, Megatron placement | extends `SGLangWorker` |
| `OnlineTrainProofs` | theorems about the engines and about the run | `OnlineTrain`, TLAPS |
| `InferRouter` | the session-affine router | |
| `ProcessorPool` | processes, listener thread, event loop | |
| `ChatAdapter` | chat requests to generations and back, tool calls | |
| `OpenAIProxy` | session registry and HTTP handlers | extends `ChatAdapter` |
| `BlackBoxEnv` | the environment of a black-box rollout and its runtime | extends `OpenAIProxy` |
| `BlackBoxEnvProofs` | theorems about it | `BlackBoxEnv`, TLAPS |
| `PrefixTree` | trie, layout, attention ranges, merge, greedy packing | |
| `RolloutTrace` | the recorder of a rollout and its export | extends `PrefixTree` |
| `Checkpoint` | parts of a checkpoint, crashes, restart | |
| `CrashProofs` | theorems about the processor pool and about checkpoints | `ProcessorPool`, `Checkpoint`, TLAPS |
| `GrpoLoop` | the GRPO controller over the group stream | |
| `GrpoLoopProofs` | theorems about it | `GrpoLoop`, TLAPS |
| `SeqlenBalancing` | number of micro-batches, Karmarkar-Karp balancing | |
| `DataParallel` | global batches, padding, dealing, reassembly | |
| `MegatronWorker` | data-parallel ranks, routing prefetch, weight swaps, spikes | extends `DataParallel`, `SeqlenBalancing` |
| `MegatronWorkerProofs` | theorems about it | `MegatronWorker`, TLAPS |
| `PackedSeqs` | token layout under tensor, context and pipeline parallelism | |
| `PolicyLoss` | the losses by the gradient on each token | |
| `ForwardStep` | one update of a model-parallel group | extends `PackedSeqs`, `PolicyLoss`; instance of `PrefixTree` |
| `QaEmFormat` | retrieval and reward of Search-R1 | |
| `SearchR1` | its environments and their search client | extends `QaEmFormat` |
| `RoutedSearchProofs` | theorems about the router and about Search-R1 | `InferRouter`, `SearchR1`, TLAPS |

`MC*.tla` with `MC*.cfg` instantiate them. The configurations give values to constants
only.

**RayTaskQueue.** `PutMany`, `GetNowait`, `Get`, `Complete` are the public
methods; `Get` either takes a task or parks the caller (`caller[w].pc =
"waiting"`). A notified caller re-acquires the condition in `Resume`, or its
deadline passes first (`Timeout`). One actor method runs at a time between two awaits, so each
action is one stretch without await.

**RolloutPipeline.** `pc` is the place of the controller in
`_run_online_rl_loop`; `GetRollout`, `PublishResult`, `CompleteRollout`,
`FailRollout`, `FailComplete` are the parallel workers: a worker whose `complete` raises has published its
result and keeps its assignment (`stage[w] = "unreleased"`). `StreamResult` is one round of
`stream_rollout_groups` together with the filter and the decision that follows
it; `PrepareBatch`, `TrainBatch`, `SyncWeights`, `EvalsIfNeeded`, `StartEval`,
`CollectEval` are the rest of the loop. `HealthCheckRaises` is the wait that ends
with no result. Rollouts are reduced to their identity, a 0/1 score and the
version they were started with.

**SGLangWorker and OnlineTrain.** An engine is an async Ray actor with `Slots`
concurrent calls; a `generate` call that waits for `generation_ready_event`
holds a slot. `call[c]` is a generate call: waiting in the inbox, parked, worked on,
or idle; `out` is the sequence of weight versions its tokens came from. The
control calls (`PauseGeneration` ... `UpdateWeights`) are made by the driver on all
engines and awaited together. In `OnlineTrain` the controller's program is the
sequence `todo`: the stage managers' methods and the run modes are sequences of steps,
composed the way the controller calls them. `setup` is the run mode with or without
colocation, a value model and a teacher. `params` and `copied` are the weights the
actor holds and its CPU copy, `Fails` is a step that raises, and `Shutdown` is the
`finally` of `start`.

**InferRouter.** `Assign` is everything under the lock before the remote call,
`OnConversationsFinish` what follows it, `Raise` a remote call that raises.

**ProcessorPool.** Worker processes (`LockQueue`, `Receive`, `Announce`,
`Answer`, `WorkerCrash`), the listener thread (`Listen`), the callbacks it
schedules on the loop (`Callback`), and the coroutines (`Generate`, `Return`,
`Timeout`). A process that waits in `in_queue.get()` holds the reader lock of the
queue, and a killed one keeps it. `late` chooses whether an answer may be
sent but not yet received when its deadline passes.

**ChatAdapter, OpenAIProxy and BlackBoxEnv.** `http[q]` is the handler of one HTTP request,
`queue[s]` the request queue of a session. The environment's coroutine goes
through `pc[s]`; the runtime is arbitrary: it may send, wait, exit or hang.
`late` chooses whether a request of a terminated runtime may still arrive. A
generation is the tool-call syntax the model wrote and the calls in it; worker, environment and
adapter each parse it their own way.

**PrefixTree and RolloutTrace.** A tree node is a run of tokens with children
and owners; `Merge` is the tree-packed sample with its attention ranges,
positions, labels and routing sources. A routing row is represented by the
tokens it was computed from, so that a stale row is visible. `replay` is whether the engine records routing,
`capture` whether the generation state of the conversation asks for it; a rewrite that summarises goes on with the
state of the summary conversation, which may ask otherwise.

**Checkpoint.** The actor, the score history, the HF export with its cleanup, and
the value model are written one after the other; `Crash` may happen between any
two, and restarting loads what is there. A write of the actor that ends midway may leave the directory
it made. `stopped` remembers where the last process ended, for the properties. Megatron's own checkpoint commits atomically
(its tracker file, external).

**GrpoLoop.** `pc` is the place of the controller in `run_train` and in the generator
`stream_rollouts`, which is suspended while a batch is trained. `task` is the asyncio
task of each rollout, `open` groups are being assembled, `valid` ones wait, with their
packing task in `pack`. A training step blocks the event loop and is one action;
rollouts that generated during it are read afterwards.

**DataParallel, SeqlenBalancing and MegatronWorker.** The first two are
operators. In `MegatronWorker` a process is a data-parallel rank with its
model-parallel group; ranks meet in collectives that pair whatever they bring. `WorkerStep` is the
program of a rank and `FetchRouting` a background fetch (`Misses` are the rows it asks the store for, `Merged` the
cache it leaves), `Compute` a forward or backward of the ranks that dispatch tokens together, `Collective` a
completed collective. Weights are counted by optimizer steps, and a routing tensor is named by the handle it
was first stored under.

**PackedSeqs, PolicyLoss and ForwardStep.** Layouts are functions from slots to
(row, position). Losses are given by the coefficient each puts on the gradient of a token's
log-probability; ratios are powers of two, thresholds their logarithms. With `opd_scale` the log-probabilities of the student
are scaled by sums over the micro-batch (`ScaledStudent`). `ForwardStep` runs a case: forwards,
recomputes and backwards of micro-batches in every order the schedule allows, each of which
may raise.

**QaEmFormat and SearchR1.** A text is a sequence of tags and pieces of content. So are queries and documents
(`Raw`), which the model and the corpus may have written tags in, and the environment's note on a search together with an
answer (`CoexistenceNote`), which holds an `<answer>`. A rollout is
at one of the awaits of `SearchEnv.step`, its search at one of those of `SearchClient`.

## 3. Runs

| Run | Instance | Properties |
|---|---|---|
| `queue` | 4 tasks, 1 key, 3 workers, limit 2, puts of one and of two | `NoLostWakeup` `ExactlyOnce` `EveryTaskServed` |
| `pipeline` | 2 workers, groups of 2, an overlapping and a strict configuration, 2 schedules, evaluations | `GroupsWhole` `BoundedStaleness` `HandlesExact` `NoResultLost` `UsesTaskQueue` `FailureSurfaces` |
| `online_train` | 2 engines with 3 slots, 2 clients, 2 updates, 8 setups: colocated PPO and GRPO with a teacher, disaggregated GRPO, mismatch test colocated and not, SFT, replay with a teacher, evaluation only | `PolicyServed` `QuietWhenPaused` `CallsReturn` |
| `router` | 2 workers, 5 sessions, 4 requests, symmetric | `CountsExact` |
| `pool` | 2 tasks, 2 workers, with and without late answers | `TasksExact` `EveryCallReturns` |
| `blackbox` | 1 session, 3 requests of two kinds, 2 launches, 2 model calls, 4 generations, with and without late requests | `SessionsServed` `RuntimeAgrees` `RolloutEnds` |
| `trace` | 2 tokens, up to 3 turns, 2 results, 2 rewrites, packs of 4 and 6 with alignment 2, an engine with and without routing replay | `RoutingExact` `PackingExact` |
| `checkpoint` | calls of 2 updates, interval 4, 16 updates, warmup 3, 2 exports kept, 2 attempts, 3 crashes | `LoadsMatch` `LostWorkBounded` |
| `grpo` | batches of 2 groups of 2, 3 rollouts at once, 2 updates, evaluation every second, 4 modes | `TrainableBatch` `StoreExact` `OffPolicyBounded` `StreamEnds` |
| `train` | 2 sample sets, 6 configurations over 1 or 2 ranks, 2 calls, prefetch depth 2, gradient norms 1 and 3, any shuffle | `EachSampleOnce` `LogprobsAligned` `RoutingOwn` `SpikeReplays` `CallReturns` |
| `forward` | 449 cases: layouts on up to 4 ranks in each forward function, pipeline stages, and every loss on pairs of rows, with a teacher whose student is scaled or not | `OutputsOwn` `RoutingAligned` `ContextOwn` `UpdateIndependent` `TrustRegion` |
| `search` | 2 rollouts, 2 servers, 1 connection, 1 retry, length 12 with 3 reserved, 1 search, a query and a document with tags | `BudgetKept` `FormatFaithful` `SearchAnswered` `RolloutsEnd` |

What each property says stands above its definition. Why the bounds are enough for what they ask:

* `queue`: three callers and a limit of two let one be parked while two run, one
  complete release a slot that two parked callers race for, and a put arrive
  while the limit is reached. Any number of keys and tasks is covered by the proof.
* `pipeline`: the overlapping configuration schedules two batches, so one is
  trained and synced while the other's rollouts are in flight, and its leftovers
  meet the next schedule. The strict one needs two groups per batch, so that a
  filtered group leaves the batch short.
* `online_train`: two engines complete a control call at different times, two
  clients may both sit in one engine, a third slot keeps the control call admitted, and a
  budget of two tokens lets an output be continued after an abort. Two updates let a call
  live through two syncs, and a checkpoint may be found at step 0 or 1.
* `router`: five sessions against a cache limit of five with four requests
  reach the cleanup both with idle sessions and with none.
* `pool`: two tasks and two processes are the least where the process that is
  killed may have taken another task.
* `blackbox`: three requests let one be answered, one queued and one arrive late; the
  generations hold good, unvalidated, truncated and unparsable calls.
* `trace`: three turns produce chains, forks, forks below a shared
  prefix and second roots; two rewrites let one compaction follow another.
* `checkpoint`: four due checkpoints with two exports kept make the cleanup
  remove exports more than once; a warmup of three is no multiple of the training
  call of two.
* `grpo`: three concurrent rollouts with groups of two keep one group whole and another
  half-started while the first is filtered or packed; a second update lets a rollout
  live through a sync, and a checkpoint may be found at step 1.
* `train`: one sample set splits a trajectory into two samples, the other merges two paths into one; three
  rows over two ranks need padding, and a rank may hold fewer micro-batches than the other. Two
  calls let a spike follow the warmup and be replayed after a later call.
* `forward`: rows shorter than a context-parallel chunk, ones that end inside one and ones that need several
  alignment blocks; forests with shared prefixes; stages with dense and expert layers. Two
  micro-batches in flight are the least where a recompute follows another's forward. Losses
  get ratios on both sides of every threshold.
* `search`: the first rollout says anything (no call, invalid query, two calls, a long turn, an answer
  with a call, its own tags), the second holds the connection meanwhile. With one retry, two servers
  and a shared rotation, a retry may meet either server.

Deadlock checking is off where the system may rightly stop (all tasks served, the
run over, the trace exported, the last crash, no further call).

## 4. Fairness

* `RayTaskQueue`: the event loop runs each notified coroutine; workers of the
  rollout actors loop forever on `get`; what a worker was assigned it completes.
* `RolloutPipeline`: the controller and each worker go on. Failing is one of
  the steps of a worker.
* `OnlineTrain`: the controller never idles inside a phase, an exception that a call returned ends
  the run, engines serve the control calls they admitted, requests start, decode and finish.
  Nothing obliges a batch to come, or a step to fail.
* `ProcessorPool`: strong fairness for taking the reader lock (the operating system hands
  a free lock to a waiting process in the end), weak fairness for receiving, announcing, the listener,
  the callbacks, timers and close. A processor may run forever: `Answer` is not fair.
* `BlackBoxEnv`: the environment's coroutine runs and its waits end by their timeout;
  the registry's handlers run and time out. The runtime owes nothing.
* `GrpoLoop`: the event loop resumes the controller, engines that serve and pools answer.
* `MegatronWorker`: ranks, collectives and fetches go on; the driver owes no further call.
* `SearchR1`: the model answers, results are appended, verifiers return, a posted request ends by its timeout and a
  pause ends. A server that answers is not assumed, nor a free connection: `AttemptFails` covers waiting for one, as the
  client's timeout does.
* `InferRouter`, `RolloutTrace`, `Checkpoint`, `ForwardStep`: safety only.

## 5. Refinement

`UsesTaskQueue` in `RolloutPipeline` states that the rollout queue inside the pipeline
implements `RayTaskQueue`: the pending sequence is its backlog, the workers'
assignments are its running set, and callers never park, because `get` is one
action here. The run `pipeline` checks it, and the theorem `RolloutQueueRefined` proves it for
every instance. The instance meets the queue's assumption (rollouts are finitely many, a
schedule puts none twice), so what is proved of the queue holds of the queue in the pipeline.

## 6. Proofs

Each proofs module has an inductive invariant, a conjunction of named parts; Init
establishes it, every action preserves it, and it implies the property. The parts a property
needs besides itself are what is worth reading. TLC checked every one of these invariants on
the instance of the run before it was proved; the one part it cannot evaluate is `Phase` of `OnlineTrainProofs`,
which speaks of all sequences of sets of facts.

`RayTaskQueueProofs` (assumption `QueueAssumption`: finitely many tasks, a positive limit,
batches without repetition):

* `TypeCorrect`: `Spec => []TypeOK`.
* `QueueSafety` and `NoTaskTwice`: `RunningBound`, `NoLostWakeup` and `ExactlyOnce` always hold.
  The inductive invariant is their conjunction with `TypeOK`. None of the three is
  inductive alone: the limit and `Runnable` count the running set, which is finite
  because `ExactlyOnce` makes its tasks distinct (`RunningFinite`), and `Take` adds exactly one to the
  count only if the task was not running already.

`OnlineTrainProofs`, on the engines (assumption `WorkerAssumption`):

* `WorkerSafety`: types, at most one driver call per engine (`OneDriverCall`), quiet once
  paused (`QuietWhenPaused`), and outputs within their budget (`OutputBounded`), for every
  number of engines, clients and slots. `QuietWhenPaused` needs `OneDriverCall`: a pause
  is under way once the driver's call has left the inbox, which tells nothing if another
  call of the driver could still be waiting there.
* `QuietUpdates`: the action property that no step replaces an engine's
  weights while the engine works on a request.

`OnlineTrainProofs`, on the run (assumption `TrainAssumption`: there is an engine, epochs and updates are positive,
PPO is a configuration of the online run; hypothesis `NoWarmup`: no configuration trains the value model
alone first, see section 7):

* `PolicyIsServed`: `PolicyServed` and `QuietWhenPaused` always hold, in every run mode, colocated or not, with PPO,
  a teacher, any number of engines, clients, epochs, updates and saved steps, and a failure at any step.
* `RunUpdatesQuietly`: `UpdatesAreQuiet` holds of the run too, whose start and shutdown are no steps of `WorkerSpec`.

  What the controller may do next is in `todo`, a sequence, so the invariant has to say that a sequence of steps is
  safe. A *state of facts* is a set of names: `ready`, the memory tags, `fresh` (the engines hold the weights of the
  last update), `actor`, `value`, `current`, `copy`, ... (`Facts`). Each step has facts it needs, adds and removes (`Needs`,
  `After`), and `Fine` facts share the GPU as planned. `Runs(b, plan, c)` says that a plan takes `b` to `c`
  with every need met on the way, and `Leads(P, plan, Q)` that it does so from all of `P` to some of `Q`. Plans
  compose (`Then`), so there is one lemma per method of the stage managers and of the run modes, in the order they
  call each other, up to `StartLeads` (a run, from the start of its workers to its first wait for rollouts)
  and `BatchLeads` (a batch, from one wait to the next). `Phase` ties the facts to the variables: those that hold
  once the engines have answered (`Matches`, `Answers`) run along `todo` to `Resting`, where rollouts are served. An engine
  that has not answered yet is before its call, draining, or after it, and each of these serves the policy.
  `Tokens` is the part about calls: their tokens are in the order of the steps, and with `ClearAfterAbort` of one step.
  A disaggregated run is in it as it is: the engines refuse the first update (`raises`), after which only the
  shutdown follows.

`RolloutPipelineProofs` (assumption `PipelineAssumption`: finitely many workers and
configurations, groups of at least two, a strict configuration syncs after each batch):

* `PipelineInvariant`, and from it `PipelineTypeCorrect`, `GroupsAreWhole` (`GroupsWhole`),
  `TrainingDataBoundedStale` (`BoundedStaleness`) and `TensorsDeletedExactly` (`HandlesExact`).
  The parts: an outstanding rollout is in one place, once (`InOnePlace`); in a schedule every
  group is outstanding as a whole or not at all, and `generated` counts the latter
  (`Conserved`), which is what makes a full `partial` a whole group; valid groups share no
  rollout with each other nor with what is outstanding (`ValidWhole`), without which deleting the
  tensors of one group could take those of another. Staleness is a budget
  argument (`Young`): each weight sync used up `Target` groups, out of fewer than `Target`
  that were left over and those generated since, so a rollout of this schedule has seen `n` syncs
  with `n * Target` at most that budget. `MaxLag` is this bound at the end of a
  schedule and not one sync more.
* `RolloutQueueRefined`: `Spec => UsesTaskQueue`. One lemma per step: a schedule or an evaluation that is
  enqueued is `PutMany`, `GetRollout` is `GetNowait`, `CompleteRollout` is `Complete`, and every other step
  leaves the queue alone. `PutMany` takes only tasks that were never put: that needs `NoneAhead`.

`GrpoLoopProofs` (assumption `GrpoAssumption`; group ids are finitely many numbers):

* `GrpoInvariant`, and from it `StoreIsExact`, `BatchTrainable` and `OffPolicyIsBounded`. The parts: outside a
  stream every rollout has been read (`Settled`), ids tell groups in flight from
  valid ones (`OwnIds`; the tensors of a group are deleted by its id), the number of valid groups at each place of the
  loop (`Held`), and the same budget of syncs as in the pipeline, for streams whose leftovers stay valid
  (`Versions`). That `Fresh` ids suffice for a batch is a lemma on counting into a finite set of numbers.

`CrashProofs` is about the two components whose processes die under them: the controller with its checkpoints, and the
processor pool with its workers.

Checkpoints (assumption `CheckpointAssumption`; the interval is a multiple of the
stride, as `pipeline/controller.py:206` and `controller/grpo_controller.py:532` assert; retries and the number of
exports that are kept are arbitrary):

* `CheckpointTypeCorrect`; `RestartConsistent` (`LoadsMatch`): no score history exists for a step that is being
  written, whichever attempt it is (`HistoryOfActor`), and the label of the value model runs ahead only after the
  warmup (`ValueWarm`).
* `CrashCostBounded` (`LostWorkBounded`): unless the process ends between the two writes of `save_checkpoint`, the actor and its
  history, a restart resumes and repeats at most one interval. What is on disk is a multiple of the interval and
  memory a multiple of the stride, so memory reaches the next due step and cannot step over it (`WithinInterval`; lemmas on
  divisibility); and the newest actor on disk has its history unless the last process ended between the writes
  (`Resumes`). Nothing is proved of an end between them: all work is lost then (section 7).

The processor pool (assumption `PoolAssumption`: finitely many workers):

* `PoolTasksExact` (`TasksExact`), with any number of replacements of a process and queues of any length, which the run
  bounds. What it needs: a callback that is scheduled, and a result that is set, belong to a call that was made
  (`Called`), and only `close` answers in no process's name (`Named`).

`RoutedSearchProofs` is about the two services a rollout goes through: the router, with its generations, and
the search client, with its tool calls. The router (assumption `RouterAssumption`: finitely many requests):

* `RouterTypeCorrect` and `RouterCountsExact` (`CountsExact`). A cleanup keeps the sessions with a request in
  flight, so the tables are bounded by the requests when the limit is smaller; `argmin` exists by the least
  element of a set of loads.

Search-R1 (`SearchAssumption`; `GenerationAssumption`: what a generation consists of, with queries the corpus
knows and a text of pieces; `CorpusAssumption`: the corpus has at least `topk` documents, as a search for `num` of an
index returns `num`, and queries and documents are any texts, tags included):

* `SearchBudget` (`BudgetKept`). The limit on searches is a limit on answered calls, and those are counted against
  turns: at every await of `step`, `Budget` says how many turns are not answered yet and how many calls may still come. A
  rollout waits exactly while its request is in progress (`Idle`, `Requested`), so that a search which returns is
  counted once.
* `SearchesAnswered` (`SearchAnswered`), an action property. The dense retriever answers a batch from one flat list of
  documents that is cut every `num`: for the one query of a request the fold and the cut give its own documents
  (`FoldOfOne`, `AnswerIsOfTheQuery`). The attempts that a request counts are never more than the retries, so the
  note comes with the last one and not before.
* `FormatKept` (`FormatFaithful`), for texts, turns, queries and documents of any length: an accepted text consists of
  turns that are well-formed by themselves, whatever tags were inserted between them, and well-formed turns are accepted
  unless a search that was asked for inserts a tag. The notes make no difference: the only one with a tag follows a turn that
  was not well-formed. `TextInv` says where the automaton of the verifier stands at every place of `step` (`Standing`): where a
  thought may begin or after a search, or `"invalid"` for good as soon as a turn was not `Proper`. A message that
  is dropped leaves it after a search, where no text ends. A message that is appended is an information block
  (`Follows`), whose content keeps the automaton inside it or makes the text invalid, so tags can break a format and never mend
  one (`LeadsCompatible`, `InsertedIsText`). What a text leads to is the last state of a walk over its pieces
  (`EndStateLeads`), and two texts lead where the second leads from the end of the first (`LeadsConcat`); such a walk, and the
  joined text of the documents, exist because the recursion of a fold has a solution (`FoldExists`). A walk is
  between a tag and its closing tag exactly while one more was opened than closed (`MovesInside`), so an accepted
  text is `Balanced` and the automaton alone decides (`ValidIsEnd`). Induction over a text is done on a set of numbers that
  holds 0 and with k - 1 also k (`Counting`, from the least number outside it): the library's induction theorems
  cannot be used here, their parameter is an operator.
* The attempt to prove the first step of a turn showed that two cases of `CASE` overlapped there, whose order TLC takes from the
  text and TLA+ leaves open. The cases of every module now exclude each other.

`MegatronWorkerProofs` (assumptions `MegatronAssumption` and `SampleAssumption`: sizes are positive, a call has at
least one sample, and with routing replay the last chunk of a sample's last path is its own, as each turn sample ends
with the handle of the generation it was made for; the padding handle is nobody's):

* `WorkerRoutesOwn` (`RoutingOwn`), for any number of ranks, samples, passes, micro-batches, prefetches and calls. A router
  is given the routing that was found under the key of its row, in the merged cache of the rank, which outlives
  the passes of a call, or in the store, and in the backward once more from the replay queue. The invariant `WorkerInv` says of
  all rows in play, on all ranks and in all batches, that a key stands for one row's paths (`Identified`; padding
  rows share a key and their paths) and that their handles are live (`StoreKept`); of a rank, that each entry of its cache
  under such a key is right, that what is fetched is each row's own, and that the replay queue is exactly what was forwarded
  and not yet recomputed, in order (`Running`); of a snapshot, that it can be put back, under
  handles above all others (`SnapshotKept`). That rows in play come from the call is followed through grouping, padding,
  permuting and dealing, and through the selection of micro-batches: of the balancing the proof uses what the code asserts of
  its result (`PartitionsChecked`), not what the algorithm computes. A replay is the last thing a worker does
  (`calls` then exceeds `MaxCalls`), so restored handles and those of calls are never in play together.
* `WorkerRoutingAlive`: no slot of a prefetch ring is ever `Lost`. The driver frees the routing of a call only when every
  rank has left it, and a replayed spike has put back all it needs.
* `WorkerLogprobsAligned` (`LogprobsAligned`), with or without routing replay. The logprobs a row trains with were gathered
  by index, in earlier passes that cut the rows into other micro-batches and loaded other weights. The
  invariant `LogInv` says which weights each rank trains, loaded or kept aside while the teacher or
  the reference policy is loaded, and that all ranks agree on them (`Current`, `WeightsKept`); that the outputs of a pass are
  those of the rank's rows under the weights of the pass, and that no row of the micro-batches and batches gone over
  lacks one (`Batched`, `Collecting`); and that the passes before the one under way have left every row its value (`Logged`).
  Two rows may have one index only if it is the same sample, or padding, whose logprobs are never looked at:
  so the order of outputs does not matter, only that none is missing. Of static micro-batches
  it is proved that consecutive runs leave no row out (`ChunkRows`), of balanced ones again only what is asserted is used.
* `WorkerSpikeReplays` (`SpikeReplays`), with balanced and with static micro-batches. The snapshot and the replay never meet
  in one step: training goes on, routing is freed, the rows come back under new handles. The invariant `RepInv` therefore
  describes both by one definition: what a rank has done with a batch is the micro-batches that went backward (`DidOf`), and
  those follow from the rows of all ranks (`SplitOf`), since the count of micro-batches is agreed. That needs the ranks
  to be in the same pass and batch whenever they agree (`Lockstep`): an `all_reduce` pairs whatever ranks bring. Two
  facts close the argument: a row under new handles has the same index, length and recorded routing (`PutBack`), and lists of
  equal lengths are split alike (`SameSplit`), whatever the balancing computes, because it looks at nothing but lengths.
  A rank trains a batch once (`Fresh`), so nothing of an earlier batch is in what a snapshot keeps.

`BlackBoxEnvProofs` (assumption `EnvAssumption`: what a request and a generation consist of, and that a text
without calls has none after its reasoning is removed):

* `EnvInvariant`. The invariant is one of each session (`Local`), and a lemma says that a step which does not
  take part in a session keeps it (`Elsewhere`). Its parts: a current request is one of this session
  (`CurrentKnown`), queues hold submitted requests once (`QueueKnown`), and between the end of a
  runtime and the next launch nothing of the session is pending (`Launches`).
* `SessionsAreServed` (`SessionsServed`).
* `RuntimeInAgreement` (`RuntimeAgrees`), an invariant and an action property. It was an invariant before: the answer
  the runtime waits for is that of the last message of the trace. That is true only while answers are
  read before the next one is recorded. An attempt to prove it showed the state that breaks it, an old answer
  of an abandoned HTTP call, which the three requests of the run never reach. What the code
  does promise is about the step that answers, and is now stated so (`ToldAsRecorded`).
  The proof needs that worker, environment and adapter find the same calls (`RespondsAsValidated`).

Only model-checked:

* All liveness: `EveryTaskServed`, `FailureSurfaces`, `CallsReturn`, `EveryCallReturns`, `RolloutEnds`,
  `StreamEnds`, `CallReturns`, `RolloutsEnd`. Temporal reasoning under fairness
  and ENABLED are out of the prover's reach.
* `RolloutTrace` and `ForwardStep`: the tree operators of `PrefixTree` are recursive, and what they compute
  for every input cannot be proved in a module that declares them so.
* `NoResultLost` of `RolloutPipeline`, an equation of cardinalities over the counters of a schedule.
* `EachSampleOnce` of `MegatronWorker`: that no row is in two micro-batches is what Karmarkar-Karp
  differencing computes and no assert says, and needs induction over its merges.

## 7. What the checks show

The passing runs confirm what the code means to do. What they exclude, because the code
does something else there, was found with the same modules:

1. *One engine, few slots.* With one engine, `max_concurrency` of the actor equals the number
   of rollouts that may run (`pipeline/utils.py:74`). Generate calls parked by a pause can hold
   every slot; `resume_generation` is then never admitted and the sync
   hangs (`ray/ray_rollout_worker.py:127`). `CallsReturn` is checked with a spare slot; an instance
   of one engine with two slots and two clients shows the hang.
2. *Value-only warmup.* During it the engines release their weights without a backup and serve
   again without an update (`pipeline/controller.py:1607`). `PolicyServed` is checked with
   `NumValueOnly = 0`.
3. *A late answer.* A deadline that passes just after the answer was sent kills a process that may
   already wait for the next task with the reader lock of `in_queue`
   (`processor/processor_pool.py:166`); later tasks wait until close, although
   `src/tests/processor/test_processor_pool.py:154` expects the pool to go on.
   `EveryCallReturns` excludes late answers, except for what `close` promises.
4. *Shared slots.* The label-aware rule of the prefix tree compares a new path with one
   node at a time (`utils/megatron/prefix_tree.py:177`). Where a node ends, because a turn ended there or an
   earlier fork cut it, the slot before the fork is shared by turns that go on differently.
   If two of them train it, packing the rollout raises (`:688`). `PackingExact` says that
   this is the only way turns with different outputs collide, and that two turns alone never do.
5. *Disaggregated mode.* `controller/stage_manager.py:92` updates weights without a pause, and
   `update_weights` asserts one (`worker/sglang_worker.py:788`): a run with
   `colocated=False` ends at its first sync. The disaggregated setups of `online_train` show that it
   ends in order, with every call returned.
6. *Token mean over sequences.* `UpdateIndependent` holds where the denominator counts what the
   loss averages. `src/axis_recipe/grpo_dapo17k_moe/pipeline_config.yaml:195` combines `token-mean`
   with the denominator `sequence`: the weight of a token then depends on how rows are split into micro-batches.
7. *A scaled student.* `normalize_student_logprob_scale` (`trainer/grpo_trainer.py:519`) scales the student by a ratio of
   means over the micro-batch, so with it the gradient of a token depends on the split by definition. `UpdateIndependent`
   compares splits only without it; that padding changes nothing is checked with it too.
8. *Between the writes of a checkpoint.* `load_checkpoint` asserts that the score history of the newest actor exists
   (`controller/base_controller.py:234`). A process that ends after the actor was written and before its history (`:173`), or
   whose attempts are used up there, leaves none: this load and all later ones raise (`LoadFails`), and all training is
   lost. `LostWorkBounded` excludes exactly this (`BetweenWrites`); `pc = "down" /\ actor.step > 0 => extra[actor.step] # -1` as an
   invariant of `MCCheckpoint` shows it.
9. *An `<answer>` in a note.* The note on a search together with an answer holds a literal `<answer>` without a closing tag
   (`src/axis_recipe/search_r1/search_env.py:249`). The verifier takes the last `<answer>...</answer>`, which then starts in the
   note, so a right answer in the next turn scores 0, where the test of the reward expects 0.8 for a right
   answer in a bad format (`src/axis_recipe/search_r1/test_em_format.py:81`). `FormatFaithful` is about the format and holds: the turn
   that was answered with this note breaks it already. The rollouts of `MCSearchR1` reach such a score.
10. *A run that stopped.* `StoreExact` speaks of a run that goes on: when a rollout raises, the loop ends and the
    routing of the rollouts in flight stays in the store.
11. *Discounting.* Returns are modelled with `gamma = lambda = 1`, the values of the recipes' PPO (`Earned`).

Met while modelling, and not the subject of a run.

Pipeline and controllers:

* `pipeline/controller.py:1143-1153`: with `strict_on_policy`, a schedule
  whose last group is filtered leaves a full batch that is trained only with the
  next schedule.
* `max_global_updates` may be overshot by a training call of several updates.
* `pipeline/controller.py:1604`: the value step is restored from the global step. After
  a crash before the value checkpoint, the label can exceed the number of updates the value model has
  had, and the value model can be an interval behind the actor.
* `controller/grpo_controller.py:571`: rollouts of an earlier mismatch test are loaded from disk with handles of
  routing that is no longer stored; rollouts for a snapshot are saved after their handles
  were deleted.
* `controller/grpo_controller.py:823`: the docstring of eval-only mode promises
  `FileNotFoundError`; the load is called with `strict=False`.
* `stream_group_results` says "in original group order" and yields groups as they complete. When one
  rollout raises, the others of the stream go on unobserved.

Engines, pools and proxy:

* `worker/infer_router.py:92`: a remote call that raises leaves its workload counted
  (`CountsExact` counts it, as the code does).
* A request's `tool_choice` never reaches the engine: the worker resolves `auto` even if the client says
  `none`, so the test of the environment for another choice than `none` is always true.
* `_looks_like_unparsed_tool_call` looks for the tag of the recipe's parser. Under a parser with another syntax a call that
  the worker missed gets past it, and the adapter's own parse, which nobody guards, raises or hands
  unvalidated calls to the runtime. `BlackBoxEnv` assumes the recipe's parser; with it the
  adapter's fallback parse is never reached.
* `src/axis_recipe/blackbox_rl/openhands_env.py:180`: the first non-empty solution is kept
  across relaunches.

Training:

* `utils/megatron/seqlen_balancing.py:317`: rounding the number of micro-batches for virtual pipelines can exceed the
  number of rows, which the assertion below refuses; every rank meets it at once
  (`CallReturns`).
* `split_into_balanced_microbatches` does not guarantee its `max_token_len` (lengths 3, 3, 3 with 5 give a
  micro-batch of 6). The `equal_size` branch of the balancing has no caller, and
  `reconstruct_batch_from_microbatches` only the module's own demonstration.
* `worker/megatron_worker.py:956`: "Peak routing-tensor memory is bounded by `prefetch_depth`" is not
  so; a micro-batch keeps its routing until the call has ended.
* `reproduce_spike` puts the snapshot's weights and routing in place without `try`/`finally`, and leaves the
  handles it stored.
* `utils/megatron/magi_forward.py:307`: `patched_backward` resets the context without `try`/`finally`.
* The partition of a gated delta net needs an alignment, lcm of `tp * cp` and the block, that is divisible by `2 * cp`.
* `trainer/grpo_trainer.py`: the `seq_turn` denominator is truncated to an integer in every micro-batch; the entropy term is
  normalised by micro-batch.
* `utils/megatron/prefix_tree.py:312`: the docstring says that duplicate writes to a
  trainable slot are accepted; two turns that begin alike after the same prompt raise (`:688`).
* `data/rollout_trace_packing.py` and `utils/megatron/prefix_tree.py`: a `max_pack_length` that is no multiple of
  the alignment could make the padding raise; `TraceAssumption` asks for multiples.
* `data/rollout_trace.py:412`: a rewrite adopts the generation state of the summary conversation. When that does not ask for
  routing while the engine records it, later turns have none, and packing the rollout raises
  (`utils/megatron/prefix_tree.py:741`).
* The examples in the comments of `build_tree_packed_sequence` and
  `PrefixMergeInfo` (`[[1,2,3],[1,2,4]]`) describe a layout without labels;
  the code keeps the last shared slot apart.

Search-R1:

* `src/axis_recipe/search_r1/search_client.py:68`: "retry attempts on different servers"; the rotation is shared by all
  searches, so a retry may meet the same server.
* `request_timeout` also bounds the wait for a connection, so a busy pool costs attempts.
* A search that is retried while the client is closed opens a new client.
* A rollout may write search and information blocks itself; the verifier accepts them
  (`FormatFaithful` counts them as part of its turn).
* Queries and documents enter the transcript as they are (`search_env.py:189`, `:234`): a tag in a document breaks the format of a
  rollout whose turns are all well-formed.

## 8. Not modelled

* Floating point: kernels, quantisation, the numerical value of losses beyond the sign and
  size of a token's coefficient, metrics, entropy.
* Text and files: verifiers other than that of Search-R1, datasets, tokenizers, chat templates, reports.
* Configuration, launching and runners; HTTP authentication and body validation beyond accept or reject.
* The tensor store's shared memory and transport: only its handles appear. In `RolloutPipeline` a rollout has its handles
  with its result. The engine stores them turn by turn (`worker/sglang_worker.py:440`), so the tensors of a rollout that
  raises before its result are outside `HandlesExact`.
* `replay_routing_for_loss_tokens_only`, which masks routing rows of tokens without loss, in `ForwardStep`.
* The streaming generators of `worker/infer_worker.py`, which nothing calls.
* The inside of SGLang, Megatron, Ray and the retrieval index: modelled only by how the code uses them.

## 9. Plan

Done: every component with state of its own: the queue, the pipeline in all run modes, the engines,
the router, the processor pool, the black-box environment with adapter and proxy, the trace with its
packing, the checkpoints, the GRPO loop, the training worker with its batches and routing, the forward
step with the losses, Search-R1; the safety proofs of the queue, the engines, the pipeline run in every mode, the rollout loop and its use of
the queue, the GRPO loop, the checkpoints, the router, the pool, the black-box environment and Search-R1, and of the routing in the
training worker.

Next:

1. Proofs: of `MegatronWorker`, that ranks meet in the same collective; of `RolloutPipeline`, `NoResultLost`.
2. Composition of `GrpoLoop` with `InferRouter`, whose counters survive a rollout that raised.
3. A tensor store with nodes: a handle whose node is gone.
