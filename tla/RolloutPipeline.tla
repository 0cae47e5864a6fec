-------------------------- MODULE RolloutPipeline --------------------------
(***************************************************************************)
(* The online RL loop of axrl/pipeline: PipelineController schedules       *)
(* groups of rollouts on the rollout queue, the parallel workers of the    *)
(* rollout actors (axrl/pipeline/rollout_actor.py) run them and publish    *)
(* results on the result queue, and the controller assembles groups,       *)
(* filters them, trains on a batch as soon as it may, syncs the new        *)
(* weights and evaluates, while rollouts of the same schedule are still    *)
(* in flight (unless strict_on_policy).                                    *)
(*                                                                         *)
(* The queues are the task queues of module RayTaskQueue with one key;     *)
(* their get is one action here (RayTaskQueueProofs shows that no caller   *)
(* sleeps through a runnable task).  The result queue has one consumer,    *)
(* which completes a result before it asks for the next, so its limit is   *)
(* never reached.                                                          *)
(*                                                                         *)
(* A rollout's conversation, trace and packed samples are reduced to its   *)
(* identity, the 0/1 score its verifier gives and the version of the       *)
(* weights it was started with.                                            *)
(***************************************************************************)
EXTENDS Integers, Sequences, FiniteSets, SequencesExt, FiniteSetsExt

CONSTANTS
    Workers,            \* parallel rollout workers of all rollout actors
    MaxRunning,         \* controller.max_running_requests
    GroupSize,          \* num_rollouts_per_conversation
    Configs,            \* configurations of the batch: see Config
    FilterZeroStd,      \* filter_zero_std
    MaxGlobalUpdates,   \* max_global_updates
    EvalInterval,       \* eval_every_n_global_updates
    EvalOnStart,        \* eval_on_start
    EvalRollouts,       \* number of conversations of the test datasets
    MaxSchedules        \* bound: how many schedules a behaviour enqueues

\* groups_per_update is global_batch_size / num_rollouts_per_conversation,
\* sync_every model_sync_every_n_global_updates, batch_for
\* batch_rollout_for_n_global_updates, strict strict_on_policy.
Config == [groups_per_update : Nat \ {0}, sync_every : Nat \ {0},
           batch_for : Nat \ {0}, strict : BOOLEAN]

\* check_configs (and GRPO needs at least two rollouts per group).
ASSUME PipelineAssumption ==
    /\ IsFiniteSet(Workers)
    /\ MaxRunning \in Nat \ {0}
    /\ GroupSize \in Nat \ {0, 1}
    /\ IsFiniteSet(Configs) /\ Configs # {}
    /\ \A c \in Configs : c \in Config /\ (c.strict => c.sync_every = 1 /\ c.batch_for = 1)
    /\ MaxGlobalUpdates \in Nat \ {0}
    /\ EvalInterval \in Nat
    /\ {EvalRollouts, MaxSchedules} \subseteq Nat \ {0}
    /\ {FilterZeroStd, EvalOnStart} \subseteq BOOLEAN

\* get_num_groups_per_batch_rollout and get_num_groups_per_model_sync.
ScheduledGroups(c) == c.groups_per_update * c.batch_for
TargetGroups(c) == c.groups_per_update * c.sync_every
MostGroups == Max({ScheduledGroups(c) : c \in Configs})

\* A rollout is named by its schedule id, which group_id and session_id carry;
\* an evaluation is told apart by the schedule it follows.
ScheduleIds == 0..MaxSchedules
TrainRollout == [kind : {"train"}, sched : ScheduleIds,
                 group : 1..MostGroups, index : 1..GroupSize]
EvalRollout == [kind : {"eval"}, sched : ScheduleIds, index : 1..EvalRollouts]
Rollout == TrainRollout \cup EvalRollout
Score == 0..1
Result == [rollout : Rollout, score : Score, born : Nat]

VARIABLES
    config,         \* config.online_rl_train: never changes
    pending,        \* rollout_queue: rollouts not handed out
    running,        \* rollout_queue: worker |-> its assignment, until complete()
    completed,      \* rollout_queue: rollouts whose complete() ran
    results,        \* result_queue: results not collected
    stage,          \* worker |-> see Stages
    born,           \* worker |-> weight version its current rollout started with
    pc,             \* where the controller is
    sched,          \* _rollout_schedule_id of the latest schedule
    generated,      \* generated_groups of the latest schedule
    partial,        \* pending_groups of stream_rollout_groups
    valid,          \* valid_rollouts: complete groups that wait to be trained on
    batch,          \* TrainGroupBatch.valid_groups being trained on
    collected,      \* results of the evaluation in progress
    global_step,    \* actor updates done
    version,        \* global_step of the weights the rollout engine serves
    prev_eval,      \* prev_eval_global_step
    handles         \* rollouts whose routing tensors are live in the tensor store

Scheduled == ScheduledGroups(config)
Target == TargetGroups(config)

queueVars == <<pending, running, completed, results, stage, born>>
collectVars == <<sched, generated, partial, valid>>
vars == <<config, queueVars, collectVars, pc, batch, collected, global_step, version,
          prev_eval, handles>>

NoTask == [kind |-> "none"]

\* What a parallel worker is doing.  It has ended, and run() with it, if its
\* rollout failed or its slot could not be released after the result was out.
Stages == {"idle", "rollout", "published", "failed", "unreleased"}
Ended == {w \in Workers : stage[w] \in {"failed", "unreleased"}}

Init ==
    /\ config \in Configs
    /\ pending = <<>>
    /\ running = [w \in Workers |-> NoTask]
    /\ completed = {}
    /\ results = <<>>
    /\ stage = [w \in Workers |-> "idle"]
    /\ born = [w \in Workers |-> 0]
    /\ pc = IF EvalOnStart THEN "run_evals" ELSE "schedule"
    /\ sched = 0
    /\ generated = 0
    /\ partial = {}
    /\ valid = {}
    /\ batch = {}
    /\ collected = {}
    /\ global_step = 0
    /\ version = 0
    /\ prev_eval = 0
    /\ handles = {}

---------------------------------------------------------------------------
(* Rollout workers: _run_parallel_rollout_worker, _run_rollout_assignment. *)

RunningCount == Cardinality({w \in Workers : running[w] # NoTask})

\* Slip: the newest rollout is handed out first.
GetNewestRollout(w) ==
    /\ stage[w] = "idle"
    /\ pending # <<>>
    /\ RunningCount < MaxRunning
    /\ running' = [running EXCEPT ![w] = Last(pending)]
    /\ pending' = Front(pending)
    /\ stage' = [stage EXCEPT ![w] = "rollout"]
    /\ born' = [born EXCEPT ![w] = version]
    /\ UNCHANGED <<completed, results, collectVars, pc, batch, collected, global_step,
                   version, prev_eval, handles>>

\* rollout_queue.get: the oldest rollout, if a running slot is free.
GetRollout(w) ==
    /\ stage[w] = "idle"
    /\ pending # <<>>
    /\ RunningCount < MaxRunning
    /\ running' = [running EXCEPT ![w] = Head(pending)]
    /\ pending' = Tail(pending)
    /\ stage' = [stage EXCEPT ![w] = "rollout"]
    /\ born' = [born EXCEPT ![w] = version]
    /\ UNCHANGED <<completed, results, collectVars, pc, batch, collected, global_step,
                   version, prev_eval, handles>>

\* run_rollout, annotate, pack, result_queue.put.  A training rollout has stored
\* its routing tensors by then.
PublishResult(w) ==
    /\ stage[w] = "rollout"
    /\ \E s \in Score :
         results' = Append(results, [rollout |-> running[w], score |-> s, born |-> born[w]])
    /\ handles' = IF running[w].kind = "train" THEN handles \cup {running[w]} ELSE handles
    /\ stage' = [stage EXCEPT ![w] = "published"]
    /\ UNCHANGED <<pending, running, completed, born, collectVars, pc, batch, collected,
                   global_step, version, prev_eval>>

\* Slip: the slot is released first, and publishing the result then fails.
CompleteRolloutFirst(w) ==
    /\ stage[w] = "rollout"
    /\ running' = [running EXCEPT ![w] = NoTask]
    /\ completed' = completed \cup {running[w]}
    /\ stage' = [stage EXCEPT ![w] = "failed"]
    /\ UNCHANGED <<pending, results, born, collectVars, pc, batch, collected,
                   global_step, version, prev_eval, handles>>

\* rollout_queue.complete: the slot is free and the worker loops.
CompleteRollout(w) ==
    /\ stage[w] = "published"
    /\ running' = [running EXCEPT ![w] = NoTask]
    /\ completed' = completed \cup {running[w]}
    /\ stage' = [stage EXCEPT ![w] = "idle"]
    /\ UNCHANGED <<pending, results, born, collectVars, pc, batch, collected,
                   global_step, version, prev_eval, handles>>

\* The rollout raises: the exception ends this parallel worker (and run(), which
\* check_health inspects); its assignment stays in the running table, and the
\* actor's other parallel workers go on.
FailRollout(w) ==
    /\ stage[w] = "rollout"
    /\ stage' = [stage EXCEPT ![w] = "failed"]
    /\ UNCHANGED <<pending, running, completed, results, born, collectVars, pc, batch,
                   collected, global_step, version, prev_eval, handles>>

\* rollout_queue.complete raises: the result is out, the worker ends and its
\* assignment stays in the running table.
FailComplete(w) ==
    /\ stage[w] = "published"
    /\ stage' = [stage EXCEPT ![w] = "unreleased"]
    /\ UNCHANGED <<pending, running, completed, results, born, collectVars, pc, batch,
                   collected, global_step, version, prev_eval, handles>>

---------------------------------------------------------------------------
(* The controller: stream_online_train_group_batches and run_online_rl_train. *)

\* build_train_rollout_conversations: the rollouts of a group are adjacent.
TrainSchedule(s, groups) ==
    [i \in 1..(groups * GroupSize) |->
        [kind |-> "train", sched |-> s,
         group |-> ((i - 1) \div GroupSize) + 1, index |-> ((i - 1) % GroupSize) + 1]]

\* _build_eval_rollout_conversations.
EvalSchedule(s) ==
    [i \in 1..EvalRollouts |-> [kind |-> "eval", sched |-> s, index |-> i]]

\* One iteration of the outer loop: enqueue a schedule and open a new stream,
\* whose pending_groups start empty.
ScheduleGroups ==
    /\ pc = "schedule"
    /\ sched < MaxSchedules
    /\ sched' = sched + 1
    /\ pending' = pending \o TrainSchedule(sched + 1, Scheduled)
    /\ generated' = 0
    /\ partial' = {}
    /\ pc' = "collect"
    /\ UNCHANGED <<running, completed, results, stage, born, valid, batch, collected,
                   global_step, version, prev_eval, handles>>

\* Slip: groups keyed by the schedule only.
GroupOfSchedule(r) == [sched |-> r.sched]

\* get_rollout_group_id: the id carries the schedule and the group index.
GroupOf(r) == [sched |-> r.sched, group |-> r.group]
Rollouts(rs) == {x.rollout : x \in rs}

\* get_group_filter_type on 0/1 scores: zero standard deviation is all-success
\* or all-fail.
Passes(group) == FilterZeroStd => \E x, y \in group : x.score # y.score

\* Where the inner loop goes after a group: train, go on collecting, or leave
\* it (run_evals_if_needed).  A skipped group never starts a training step,
\* even if it is the last one of the schedule.
AfterGroup(passed, nvalid, ngenerated) ==
    IF passed /\ nvalid >= Target /\ (config.strict => ngenerated >= Scheduled)
      THEN "prepare"
      ELSE IF ngenerated < Scheduled THEN "collect" ELSE "evals_if_needed"

\* stream_rollout_groups takes one result; the result that makes its group
\* whole is normalised and filtered, and a skipped group's tensors are deleted
\* before the group reaches the inner loop.
StreamResult ==
    /\ pc = "collect"
    /\ results # <<>>
    /\ results' = Tail(results)
    /\ LET x == Head(results)
           group == {x} \cup {y \in partial : GroupOf(y.rollout) = GroupOf(x.rollout)}
       IN IF Cardinality(group) < GroupSize
            THEN /\ partial' = partial \cup {x}
                 /\ UNCHANGED <<generated, valid, handles, pc>>
            ELSE /\ partial' = partial \ group
                 /\ generated' = generated + 1
                 /\ valid' = IF Passes(group) THEN valid \cup {group} ELSE valid
                 /\ handles' = IF Passes(group) THEN handles
                                                ELSE handles \ Rollouts(group)
                 /\ pc' = AfterGroup(Passes(group), Cardinality(valid'), generated + 1)
    /\ UNCHANGED <<pending, running, completed, stage, born, sched, batch, collected,
                   global_step, version, prev_eval>>

\* Slip: the evaluation loop does not check the actors.
HealthCheckRaisesInTrainOnly ==
    /\ pc = "collect"
    /\ results = <<>>
    /\ Ended # {}
    /\ pc' = "raised"
    /\ UNCHANGED <<queueVars, collectVars, batch, collected, global_step, version,
                   prev_eval, handles>>

\* The get of stream_rollout_groups, or of _collect_expected_rollout_results,
\* timed out on an empty queue, and _check_rollout_actor_health re-raises what
\* ended a rollout actor.  (With healthy actors the loop only logs.)
HealthCheckRaises ==
    /\ pc \in {"collect", "eval"}
    /\ results = <<>>
    /\ Ended # {}
    /\ pc' = "raised"
    /\ UNCHANGED <<queueVars, collectVars, batch, collected, global_step, version,
                   prev_eval, handles>>

\* Slip: what the batch leaves over is kept for the next one.
PrepareBatchKeepsExtras ==
    /\ pc = "prepare"
    /\ \E b \in kSubset(Target, valid) : batch' = b
    /\ pc' = "train"
    /\ UNCHANGED <<queueVars, collectVars, collected, global_step, version,
                   prev_eval, handles>>

\* _prepare_online_train_group_batch: shuffle, keep Target groups, delete the
\* tensors of the others.
PrepareBatch ==
    /\ pc = "prepare"
    /\ \E b \in kSubset(Target, valid) :
         /\ batch' = b
         /\ handles' = handles \ UNION {Rollouts(g) : g \in valid \ b}
    /\ pc' = "train"
    /\ UNCHANGED <<queueVars, collectVars, collected, global_step, version, prev_eval>>

\* train_online_sample_dataset: sync_every actor updates, then the trained
\* groups' tensors are deleted.
TrainBatch ==
    /\ pc = "train"
    /\ global_step' = global_step + config.sync_every
    /\ handles' = handles \ UNION {Rollouts(g) : g \in batch}
    /\ pc' = "sync"
    /\ UNCHANGED <<queueVars, collectVars, batch, collected, version, prev_eval>>

\* Slip: the engine goes on with the weights it has.
SyncWeightsSkipped ==
    /\ pc = "sync"
    /\ batch' = {}
    /\ IF global_step >= MaxGlobalUpdates
         THEN /\ pc' = "done"
              /\ UNCHANGED valid
         ELSE /\ pc' = IF generated < Scheduled THEN "collect" ELSE "evals_if_needed"
              /\ valid' = {}
    /\ UNCHANGED <<queueVars, sched, generated, partial, collected, global_step, version,
                   prev_eval, handles>>

\* sync_rollout_after_online_train, then the main loop's test, then the
\* generator resumes: its lists are cleared and the inner loop goes on where
\* the batch interrupted it.
SyncWeights ==
    /\ pc = "sync"
    /\ version' = global_step
    /\ batch' = {}
    /\ IF global_step >= MaxGlobalUpdates
         THEN /\ pc' = "done"
              /\ UNCHANGED valid
         ELSE /\ pc' = IF generated < Scheduled THEN "collect" ELSE "evals_if_needed"
              /\ valid' = {}
    /\ UNCHANGED <<queueVars, sched, generated, partial, collected, global_step,
                   prev_eval, handles>>

\* run_evals_if_needed: the interval test.
EvalsIfNeeded ==
    /\ pc = "evals_if_needed"
    /\ pc' = IF global_step - prev_eval < EvalInterval THEN "schedule" ELSE "run_evals"
    /\ UNCHANGED <<queueVars, collectVars, batch, collected, global_step, version,
                   prev_eval, handles>>

\* run_eval_rollouts: enqueue one test dataset.
StartEval ==
    /\ pc = "run_evals"
    /\ pending' = pending \o EvalSchedule(sched)
    /\ collected' = {}
    /\ pc' = "eval"
    /\ UNCHANGED <<running, completed, results, stage, born, collectVars, batch, global_step,
                   version, prev_eval, handles>>

\* _collect_expected_rollout_results counts results, whatever they belong to.
CollectEval ==
    /\ pc = "eval"
    /\ results # <<>>
    /\ results' = Tail(results)
    /\ LET c == collected \cup {Head(results)}
       IN /\ collected' = IF Cardinality(c) < EvalRollouts THEN c ELSE {}
          /\ pc' = IF Cardinality(c) < EvalRollouts THEN "eval" ELSE "schedule"
          /\ prev_eval' = IF Cardinality(c) < EvalRollouts THEN prev_eval ELSE global_step
    /\ UNCHANGED <<pending, running, completed, stage, born, collectVars, batch, global_step,
                   version, handles>>

Controller ==
    \/ ScheduleGroups \/ StreamResult \/ HealthCheckRaises \/ PrepareBatch
    \/ TrainBatch \/ SyncWeights \/ EvalsIfNeeded \/ StartEval \/ CollectEval

Worker(w) ==
    \/ GetRollout(w) \/ PublishResult(w) \/ CompleteRollout(w)
    \/ FailRollout(w) \/ FailComplete(w)

Next ==
    /\ Controller \/ \E w \in Workers : Worker(w)
    /\ UNCHANGED config

Spec == Init /\ [][Next]_vars

(***************************************************************************)
(* Fairness: the controller is one coroutine that never stops on its own,  *)
(* and every rollout ends (the recipes bound turns, tokens and time) or    *)
(* raises.                                                                 *)
(***************************************************************************)
Fairness ==
    /\ WF_vars(Controller /\ UNCHANGED config)
    /\ \A w \in Workers : WF_vars(Worker(w) /\ UNCHANGED config)

FairSpec == Spec /\ Fairness

---------------------------------------------------------------------------
(* Properties *)

Pcs == {"schedule", "collect", "prepare", "train", "sync", "evals_if_needed",
        "run_evals", "eval", "done", "raised"}

\* Every variable keeps its type.
TypeOK ==
    /\ config \in Configs
    /\ ToSet(pending) \subseteq Rollout
    /\ running \in [Workers -> Rollout \cup {NoTask}]
    /\ completed \subseteq Rollout
    /\ ToSet(results) \subseteq Result
    /\ stage \in [Workers -> Stages]
    /\ born \in [Workers -> Nat]
    /\ pc \in Pcs
    /\ sched \in ScheduleIds
    /\ generated \in 0..Scheduled
    /\ partial \subseteq Result
    /\ \A g \in valid \cup batch : g \subseteq Result
    /\ collected \subseteq Result
    /\ {global_step, version, prev_eval} \subseteq Nat
    /\ handles \subseteq TrainRollout

\* A group that reaches training is exactly the GroupSize rollouts of one
\* prompt of one schedule, although results of all groups arrive interleaved
\* and a stream is opened anew for every schedule.  Nothing of the previous
\* schedule is in flight when the next one, or an evaluation, is enqueued: a
\* stream's pending_groups are never lost with it.
GroupsWhole ==
    /\ \A g \in valid \cup batch : \E s \in ScheduleIds, k \in 1..Scheduled :
        /\ Rollouts(g) = {[kind |-> "train", sched |-> s, group |-> k, index |-> i] :
                             i \in 1..GroupSize}
        /\ Cardinality(g) = GroupSize
    /\ pc \in {"schedule", "run_evals"} =>
        /\ pending = <<>> /\ results = <<>> /\ partial = {}
        /\ \A w \in Workers : stage[w] \in {"idle", "published", "unreleased"}

\* How many weight syncs old a trained rollout may be: none with
\* strict_on_policy; otherwise the batches that one schedule, and what the
\* previous one left over, can fill.
MaxLag == IF config.strict THEN 0 ELSE (Scheduled + Target - 2) \div Target

\* Training never uses a rollout that was started more than MaxLag weight syncs
\* ago, although batches are trained in the middle of a schedule and valid
\* groups are carried into the next one.
BoundedStaleness ==
    pc = "train" => \A g \in batch : \A x \in g :
        global_step - x.born <= config.sync_every * MaxLag

\* The routing tensors in the store are those of the results that are still
\* wanted: every skipped, surplus or trained group is deleted exactly then, and
\* no group waits or trains with its tensors gone.
HandlesExact ==
    handles =
        Rollouts({x \in ToSet(results) \cup partial : x.rollout.kind = "train"})
        \cup UNION {Rollouts(g) : g \in CASE pc = "train" -> batch
                                           [] pc \in {"sync", "done"} -> {}
                                           [] OTHER -> valid}

\* The books of the rollout queue and of the controller agree, although neither
\* actor sees the other's: during a schedule, and during an evaluation, the rollouts
\* that left the running table, or are about to, are as many as the results the
\* controller has counted or can still collect.  A worker that ends at any point
\* loses no result that the queue counts as completed.
NoResultLost ==
    LET out == completed \cup {running[w] : w \in {v \in Workers : stage[v] \in {"published", "unreleased"}}}
        given(kind) == Cardinality({r \in out : r.kind = kind /\ r.sched = sched})
    IN /\ pc \in {"collect", "prepare", "train", "sync"} =>
             given("train") = generated * GroupSize + Cardinality(partial) + Len(results)
       /\ pc = "eval" => given("eval") = Cardinality(collected) + Len(results)

\* A rollout that raised always ends the run with an error, unless the run
\* reaches max_global_updates first: "the driver may keep waiting" only until
\* the results that are still coming run out.  And a schedule and an evaluation
\* always end, although workers that have ended keep their running slots: the
\* last result arrives, batches are trained on the way, or the run ends with an
\* error.
FailureSurfaces ==
    /\ (\E w \in Workers : stage[w] = "failed") ~> pc \in {"raised", "done"}
    /\ pc = "collect" ~> pc \in {"prepare", "evals_if_needed", "raised"}
    /\ pc = "eval" ~> pc \in {"schedule", "raised"}

---------------------------------------------------------------------------

\* The rollout queue inside this model, as an instance of its own specification.
Queue == INSTANCE RayTaskQueue WITH
    Tasks <- Rollout,
    Keys <- {"default"},
    Batches <- {TrainSchedule(s, ScheduledGroups(c)) : s \in ScheduleIds, c \in Configs} \cup {EvalSchedule(s) : s \in ScheduleIds},
    Limited <- TRUE,
    pending <- [k \in {"default"} |-> pending],
    running <- {[task |-> running[w], worker |-> w, key |-> "default"] :
                    w \in {v \in Workers : running[v] # NoTask}},
    consumed <- {},
    caller <- [w \in Workers |-> [pc |-> "idle"]]

\* The pipeline drives the rollout queue only in ways the queue's own
\* specification has: what is proved of the queue holds in the pipeline.
UsesTaskQueue == Queue!Spec
============================================================================
