------------------------------ MODULE GrpoLoop ------------------------------
(***************************************************************************)
(* GrpoController (axrl/controller/grpo_controller.py) over                *)
(* BaseController.stream_group_results: a batch of groups is sampled, every*)
(* rollout of it is an asyncio task, groups are filtered and packed as they*)
(* complete, and each time enough valid groups have gathered the generator *)
(* is suspended at a yield while the controller trains and synchronises    *)
(* weights.  The tasks of the other groups stay alive meanwhile.           *)
(*                                                                         *)
(* MegatronWorker calls block the event loop, so a training step is one    *)
(* action; rollouts and packing tasks move at the awaits between them.  A  *)
(* policy version is the global step whose weights the engines hold.       *)
(***************************************************************************)
EXTENDS Integers, FiniteSets, FiniteSetsExt

CONSTANTS
    BatchGroups,        \* get_num_groups_per_batch_rollout()
    SyncGroups,         \* get_num_groups_per_model_sync()
    GroupSize,          \* num_rollouts_per_conversation
    SyncEvery,          \* model_sync_every_n_global_updates
    MaxConcurrent,      \* max_running_requests
    MaxGlobalUpdates,   \* max_global_updates
    EvalEvery,          \* eval_every_n_global_updates
    FilterZeroStd,      \* filter_zero_std
    CheckpointSteps,    \* global steps a checkpoint may be found at
    Modes,              \* what start() dispatches to
    GroupIds            \* names of live groups; bounds how many a run carries

\* The divisibility that the two getters assert, check_configs, and what
\* normalize_group_rewards asserts of a group.
ASSUME GrpoAssumption ==
    /\ {BatchGroups, SyncGroups, SyncEvery, MaxConcurrent} \subseteq Nat \ {0}
    /\ GroupSize \in Nat /\ GroupSize > 1
    /\ (SyncGroups * GroupSize) % SyncEvery = 0
    /\ {MaxGlobalUpdates, EvalEvery} \cup CheckpointSteps \subseteq Nat
    /\ FilterZeroStd \in BOOLEAN
    /\ Modes \subseteq {"train", "eval_only", "mismatch", "debug_train"}
    /\ GroupIds \subseteq Nat /\ IsFiniteSet(GroupIds)

VARIABLES
    pc,             \* where the controller's coroutine is
    mode,           \* the branch start() took
    strict,         \* strict_on_policy
    global_step,
    served,         \* the version the engines hold
    serving,        \* the engines are in the rollout stage and not paused
    evaluating,     \* the stream is one of eval_dataset's
    prev_eval,      \* prev_eval_global_step
    task,           \* request of the stream |-> where its task is
    done_tasks,     \* what asyncio.wait returned and the loop has not read
    group,          \* group of the stream |-> its id and its oldest version
    generated,      \* generated_groups
    valid,          \* valid_rollouts, each group with its packing task
    store           \* ids of groups with routing tensors in the tensor store

stream == <<task, done_tasks, group, evaluating>>
vars == <<pc, mode, strict, global_step, served, serving, prev_eval, stream, generated, valid, store>>

Requests == 1..(BatchGroups * GroupSize)
Groups == 1..BatchGroups
GroupOf(r) == (r - 1) \div GroupSize + 1
Items(g) == {r \in Requests : GroupOf(r) = g}
NoVersion == -1
Idle == [r \in Requests |-> "merged"]
Active == {r \in Requests : task[r] \in {"generating", "verifying", "returned", "raised"}}
Ids(groups) == {v.id : v \in groups}

Init ==
    /\ pc = "start" /\ mode \in Modes
    /\ strict \in IF mode = "mismatch" THEN {FALSE} ELSE BOOLEAN
    /\ strict => SyncEvery = 1 /\ BatchGroups = SyncGroups
    /\ global_step = 0 /\ served = NoVersion /\ serving = FALSE
    /\ evaluating = FALSE /\ prev_eval = 0
    /\ task = Idle /\ done_tasks = {}
    /\ group = [g \in Groups |-> [id |-> 0, version |-> NoVersion]]
    /\ generated = 0 /\ valid = {} /\ store = {}

---------------------------------------------------------------------------
(* Start-up *)

\* start() dispatches and initialize builds the pools, datasets and workers.
Initialize ==
    /\ pc = "start" /\ mode # "debug_train"
    /\ pc' = IF mode = "mismatch" THEN "first_updates" ELSE "load"
    /\ UNCHANGED <<mode, strict, global_step, served, serving, prev_eval, stream, generated, valid, store>>

\* train_from_snapshot_rollouts builds the trainer only, trains once on a saved
\* snapshot and returns.
TrainFromSnapshotRollouts ==
    /\ pc = "start" /\ mode = "debug_train"
    /\ global_step' = SyncEvery
    /\ pc' = "shutdown"
    /\ UNCHANGED <<mode, strict, served, serving, prev_eval, stream, generated, valid, store>>

\* load_checkpoint_if_existed: a run that finds none starts from step 0.
LoadCheckpointIfExisted ==
    /\ pc = "load"
    /\ global_step' \in {0} \cup CheckpointSteps
    /\ pc' = "first_sync"
    /\ UNCHANGED <<mode, strict, served, serving, prev_eval, stream, generated, valid, store>>

\* run_train up to its loop: the first weight update and, with eval_on_start, an
\* evaluation.  stream_rollouts starts by noting the step.
RunTrain ==
    /\ pc = "first_sync" /\ mode = "train"
    /\ served' = global_step
    /\ prev_eval' = global_step
    /\ pc' \in {"eval", "sample"}
    /\ UNCHANGED <<mode, strict, global_step, serving, stream, generated, valid, store>>

RunEvalOnly ==
    /\ pc = "first_sync" /\ mode = "eval_only"
    /\ served' = global_step
    /\ pc' = "eval"
    /\ UNCHANGED <<mode, strict, global_step, serving, prev_eval, stream, generated, valid, store>>

\* _rollout_for_first_updates: rollouts of an earlier test are read from their
\* file, or the engines get the weights and the stream starts.
RolloutForFirstUpdates ==
    /\ pc = "first_updates"
    /\ \/ pc' = "report" /\ UNCHANGED served
       \/ pc' = "sample" /\ served' = global_step
    /\ UNCHANGED <<mode, strict, global_step, serving, prev_eval, stream, generated, valid, store>>

---------------------------------------------------------------------------
(* stream_group_results *)

Opened(ids) ==
    /\ task' = [r \in Requests |-> "pending"]
    /\ done_tasks' = {}
    /\ group' = [g \in Groups |-> [id |-> ids[g], version |-> NoVersion]]
    /\ serving' = TRUE
    /\ pc' = "fill"

\* eval_dataset: no routing is captured, results are only counted.
BeginEval ==
    /\ pc = "eval"
    /\ evaluating' = TRUE
    /\ Opened([g \in Groups |-> 0])
    /\ UNCHANGED <<mode, strict, global_step, served, prev_eval, generated, valid, store>>

\* The head of the loop of stream_rollouts: sample_groups, switch_to_rollout.
Fresh == GroupIds \ (Ids(valid) \cup store)
FirstFresh(g) == CHOOSE i \in Fresh : Cardinality({j \in Fresh : j < i}) = g - 1
SampleGroups ==
    /\ pc = "sample" /\ global_step < MaxGlobalUpdates
    /\ Cardinality(Fresh) >= BatchGroups
    /\ generated' = 0
    /\ evaluating' = FALSE
    /\ Opened([g \in Groups |-> FirstFresh(g)])
    /\ UNCHANGED <<mode, strict, global_step, served, prev_eval, valid, store>>

\* Tasks are created in request order while fewer than max_concurrent are active.
Started == {r \in Requests : /\ task[r] = "pending"
                             /\ Cardinality(Active)
                                  + Cardinality({q \in Requests : q <= r /\ task[q] = "pending"})
                                  <= MaxConcurrent}
FillSlots ==
    /\ pc = "fill"
    /\ task' = [r \in Requests |-> IF r \in Started THEN "generating" ELSE task[r]]
    /\ group' = [g \in Groups |->
                    IF group[g].version = NoVersion /\ Started \cap Items(g) # {}
                      THEN [group[g] EXCEPT !.version = served] ELSE group[g]]
    /\ pc' = "wait"
    /\ UNCHANGED <<mode, strict, global_step, served, serving, prev_eval, done_tasks,
                   evaluating, generated, valid, store>>

\* asyncio.wait(..., FIRST_COMPLETED) returns every task that has ended.
Wait ==
    /\ pc = "wait"
    /\ LET ended == {r \in Active : task[r] \in {"returned", "raised"}}
       IN ended # {} /\ done_tasks' = ended
    /\ pc' = "process"
    /\ UNCHANGED <<mode, strict, global_step, served, serving, prev_eval, task, group,
                   evaluating, generated, valid, store>>

\* rollout_from_env: the generation, which needs a serving engine and leaves the
\* routing tensors in the store, then the verifier, which does not.
Generate(r) ==
    /\ task[r] = "generating" /\ serving
    /\ task' = [task EXCEPT ![r] = "verifying"]
    /\ store' = IF evaluating THEN store ELSE store \cup {group[GroupOf(r)].id}
    /\ UNCHANGED <<pc, mode, strict, global_step, served, serving, prev_eval, done_tasks,
                   group, evaluating, generated, valid>>
Verify(r) ==
    /\ task[r] = "verifying"
    /\ \E end \in {"returned", "raised"} : task' = [task EXCEPT ![r] = end]
    /\ UNCHANGED <<pc, mode, strict, global_step, served, serving, prev_eval, done_tasks,
                   group, evaluating, generated, valid, store>>

\* The stream is exhausted once every group has been yielded; otherwise the loop
\* returns to the head when the tasks asyncio.wait returned have been read.
AfterRead(left, tasks) ==
    IF \A r \in Requests : tasks[r] = "merged" THEN "exhausted"
    ELSE IF left = {} THEN "fill" ELSE "process"

\* task.result() raises what the rollout raised, through the whole controller.
\* run_train has no handler: nothing is shut down.
ReadRaised(r) ==
    /\ pc = "process" /\ r \in done_tasks /\ task[r] = "raised"
    /\ pc' = "crashed"
    /\ UNCHANGED <<mode, strict, global_step, served, serving, prev_eval, stream, generated, valid, store>>

\* A result that does not complete its group, or completes one of an evaluation.
Merged(r) == [task EXCEPT ![r] = "merged"]
Completes(r) == \A q \in Items(GroupOf(r)) : Merged(r)[q] = "merged"
ReadResult(r) ==
    /\ pc = "process" /\ r \in done_tasks /\ task[r] = "returned"
    /\ evaluating \/ ~Completes(r)
    /\ task' = Merged(r)
    /\ done_tasks' = done_tasks \ {r}
    /\ pc' = AfterRead(done_tasks \ {r}, Merged(r))
    /\ UNCHANGED <<mode, strict, global_step, served, serving, prev_eval, group, evaluating,
                   generated, valid, store>>

---------------------------------------------------------------------------
(* stream_rollouts, on a completed group *)

\* _delete_r3_handles_and_caches: the store without the tensors of some groups.
WithoutHandles(ids) == store \ ids

\* Scores in halves.  normalize_group_rewards gives every rollout of the group
\* the group's mean and deviation; get_filter_type reads them.
Scores == [1..GroupSize -> 0..2]
ZeroStd(scores) == \A i, j \in 1..GroupSize : scores[i] = scores[j]
FilterType(scores) ==
    CASE ~FilterZeroStd \/ ~ZeroStd(scores) -> "pass"
      [] FilterZeroStd /\ ZeroStd(scores) /\ scores[1] = 2 -> "zero_std_all_success"
      [] FilterZeroStd /\ ZeroStd(scores) /\ scores[1] = 0 -> "zero_std_all_fail"
      [] OTHER -> "pass"
Verdicts == {FilterType(scores) : scores \in Scores}

Read(r) ==
    /\ pc = "process" /\ r \in done_tasks /\ task[r] = "returned"
    /\ ~evaluating /\ Completes(r)
    /\ task' = Merged(r)
    /\ done_tasks' = done_tasks \ {r}
    /\ generated' = generated + 1

\* Slip: the routing tensors of a filtered group are left behind.
SkipGroupKeepsHandles(r) ==
    /\ Read(r) /\ \E v \in Verdicts : v # "pass"
    /\ pc' = AfterRead(done_tasks \ {r}, Merged(r))
    /\ UNCHANGED <<mode, strict, global_step, served, serving, prev_eval, group, evaluating, valid, store>>

\* A filtered group: its routing tensors are deleted at once.
SkipGroup(r) ==
    /\ Read(r) /\ \E v \in Verdicts : v # "pass"
    /\ store' = WithoutHandles({group[GroupOf(r)].id})
    /\ pc' = AfterRead(done_tasks \ {r}, Merged(r))
    /\ UNCHANGED <<mode, strict, global_step, served, serving, prev_eval, group, evaluating, valid>>

\* Slip: strict_on_policy is forgotten, the batch is trained on as it streams.
TrainsNowEagerly(held, n) == held >= SyncGroups

\* Whether the groups held are trained on now.  A strict run waits for the whole
\* batch.
TrainsNow(held, n) == held >= SyncGroups /\ (strict => n >= BatchGroups)

\* A group that passes: its packing task is created.
KeepGroup(r) ==
    LET g == group[GroupOf(r)]
        kept == valid \cup {[id |-> g.id, version |-> g.version, pack |-> "running"]}
    IN /\ Read(r) /\ "pass" \in Verdicts
       /\ valid' = kept
       /\ pc' = IF TrainsNow(Cardinality(kept), generated + 1)
                  THEN "collect" ELSE AfterRead(done_tasks \ {r}, Merged(r))
       /\ UNCHANGED <<mode, strict, global_step, served, serving, prev_eval, group, evaluating, store>>

\* _pack_rollout_group in the packing pool: it may time out or raise.
Pack(v) ==
    /\ v \in valid /\ v.pack = "running"
    /\ \E end \in {"packed", "failed"} :
         valid' = (valid \ {v}) \cup {[v EXCEPT !.pack = end]}
    /\ UNCHANGED <<pc, mode, strict, global_step, served, serving, prev_eval, stream, generated, store>>

\* Awaiting the packing tasks in the order they end raises what one raised.
PackingRaises ==
    /\ pc = "collect" /\ \E v \in valid : v.pack = "failed"
    /\ pc' = "crashed"
    /\ UNCHANGED <<mode, strict, global_step, served, serving, prev_eval, stream, generated, valid, store>>

\* Slip: the packing tasks are not awaited.
AllPackedUnawaited == \A v \in valid : v.pack # "failed"

\* Every packing task has ended well.
AllPacked == \A v \in valid : v.pack = "packed"

\* The groups are shuffled, those beyond a model sync dropped with their routing
\* tensors, and the engines paused; then the generator yields.
YieldRollouts ==
    /\ pc = "collect" /\ AllPacked
    /\ \E kept \in kSubset(SyncGroups, valid) :
         /\ valid' = kept
         /\ store' = WithoutHandles(Ids(valid \ kept))
    /\ serving' = FALSE
    /\ pc' = "train"
    /\ UNCHANGED <<mode, strict, global_step, served, prev_eval, stream, generated>>

---------------------------------------------------------------------------
(* run_train, on a yielded batch *)

\* What _collect_async_packed_sample_tensor_dict asserts of a batch.
Collectable == valid # {} /\ \A v \in valid : v.pack = "packed"

\* switch_to_train, the training call, then the trained groups' routing tensors
\* and caches go and a snapshot or a checkpoint is written.
TrainStep ==
    /\ pc = "train" /\ mode = "train" /\ Collectable
    /\ global_step' = global_step + SyncEvery
    /\ store' = WithoutHandles(Ids(valid))
    /\ valid' = {}
    /\ pc' = "weight_sync"
    /\ UNCHANGED <<mode, strict, served, serving, prev_eval, stream, generated>>

\* run_mismatch_test has its groups after the first yield: log-probabilities of
\* the initial and the current weights, then the report and shutdown.
ReportMismatch ==
    /\ pc = "report" \/ (pc = "train" /\ mode = "mismatch")
    /\ store' = WithoutHandles(Ids(valid))
    /\ valid' = {}
    /\ pc' = "shutdown"
    /\ UNCHANGED <<mode, strict, global_step, served, serving, prev_eval, stream, generated>>

\* Slip: the stage is not switched back to rollout.
WeightSyncStaysPaused ==
    /\ pc = "weight_sync"
    /\ served' = global_step
    /\ pc' = AfterRead(done_tasks, task)
    /\ UNCHANGED <<mode, strict, global_step, serving, prev_eval, stream, generated, valid, store>>

\* switch_to_weight_sync, update_rollout_model_weights, switch_to_rollout; the
\* generator resumes where it was suspended.
WeightSync ==
    /\ pc = "weight_sync"
    /\ served' = global_step
    /\ serving' = TRUE
    /\ pc' = AfterRead(done_tasks, task)
    /\ UNCHANGED <<mode, strict, global_step, prev_eval, stream, generated, valid, store>>

\* The stream is over: run_evals_if_needed, and the loop's condition.
EndBatch ==
    /\ pc = "exhausted" /\ ~evaluating
    /\ pc' = IF global_step - prev_eval >= EvalEvery THEN "eval" ELSE "sample"
    /\ UNCHANGED <<mode, strict, global_step, served, serving, prev_eval, stream, generated, valid, store>>
EndEval ==
    /\ pc = "exhausted" /\ evaluating
    /\ prev_eval' = global_step
    /\ pc' = IF mode = "eval_only" THEN "shutdown" ELSE "sample"
    /\ UNCHANGED <<mode, strict, global_step, served, serving, stream, generated, valid, store>>
Shutdown ==
    /\ pc = "sample" /\ global_step >= MaxGlobalUpdates
    /\ pc' = IF mode = "mismatch" THEN "crashed" ELSE "shutdown"
    /\ UNCHANGED <<mode, strict, global_step, served, serving, prev_eval, stream, generated, valid, store>>

---------------------------------------------------------------------------

Reads == \E r \in Requests : ReadRaised(r) \/ ReadResult(r) \/ SkipGroup(r) \/ KeepGroup(r)
Controller ==
    \/ Initialize \/ TrainFromSnapshotRollouts \/ LoadCheckpointIfExisted \/ RunTrain
    \/ RunEvalOnly \/ RolloutForFirstUpdates \/ BeginEval \/ SampleGroups \/ FillSlots \/ Wait \/ Reads
    \/ PackingRaises \/ YieldRollouts \/ TrainStep \/ ReportMismatch \/ WeightSync
    \/ EndBatch \/ EndEval \/ Shutdown
Stopped == pc \in {"crashed", "shutdown"}
Background ==
    ~Stopped /\ ((\E r \in Requests : Generate(r) \/ Verify(r)) \/ (\E v \in valid : Pack(v)))
Next == Controller \/ Background

\* The event loop resumes a coroutine whose await is over, engines that serve
\* finish their requests, and the pools answer or time out.
Fairness == WF_vars(Controller) /\ WF_vars(Background)
Spec == Init /\ [][Next]_vars /\ Fairness

---------------------------------------------------------------------------
(* Properties *)

\* A batch the controller trains on has exactly the groups of one model sync,
\* every one packed and with its routing tensors still in the store, although
\* groups are filtered, packed and dropped while others are in flight.
TrainableBatch ==
    pc = "train" =>
        /\ Cardinality(valid) = SyncGroups
        /\ \A v \in valid : v.pack = "packed" /\ v.id \in store

\* The tensor store holds the routing of the groups in flight and of the valid
\* ones that wait, and of no other: nothing leaks while a run lasts, whatever is
\* filtered or dropped, and no group loses its routing early.
InFlight(g) ==
    /\ ~evaluating
    /\ \E r \in Items(g) : task[r] # "merged"
    /\ \E r \in Items(g) : task[r] \notin {"pending", "generating"}
StoreExact ==
    ~Stopped => store = Ids(valid) \cup {group[g].id : g \in {h \in Groups : InFlight(h)}}

\* How far behind a trained group can be.  A group trained now began under the
\* version the engines hold or one that the model syncs of its own batch have
\* replaced since; a strict run trains on the version it holds.
OffPolicyBounded ==
    pc = "train" => \A v \in valid :
        /\ v.version \in 0..served
        /\ served - v.version <=
             SyncEvery * (IF strict THEN 0 ELSE (BatchGroups + SyncGroups - 2) \div SyncGroups)

\* A stream that has been opened ends, although every training step pauses the
\* engines under the rollouts in flight, unless a rollout or packing task raises.
StreamEnds == pc = "fill" ~> (pc \in {"exhausted"} \/ Stopped)
=============================================================================
