---------------------------- MODULE OnlineTrain ----------------------------
(***************************************************************************)
(* The run of a pipeline, from the start of its workers to their shutdown: *)
(* start and the run modes of axrl/pipeline/controller.py drive the stage  *)
(* manager (axrl/controller/stage_manager.py), the Megatron actor and      *)
(* value workers and the rollout engines of SGLangWorker, whose clients    *)
(* keep generating meanwhile.                                              *)
(*                                                                         *)
(* The controller is sequential: todo is the sequence of the steps that    *)
(* are left of what it is doing.  A step that calls the engines ends when  *)
(* every engine has answered.  When todo is empty it waits for rollouts;   *)
(* module RolloutPipeline says when a batch is complete, here one may be   *)
(* complete at any time.                                                   *)
(***************************************************************************)
EXTENDS SGLangWorker

CONSTANTS
    Setups,             \* configurations: run_mode, colocated, grpo.ppo_value, grpo.opd
    SavedSteps,         \* steps a checkpoint may be found at, 0 if there is none
    NumEpochs,          \* megatron_worker.num_epochs of SFT
    NumValueOnly,       \* ppo_value.num_value_only_updates
    UpdatesPerBatch,    \* optimizer updates of one train() call
    MaxGlobalUpdates,   \* online_rl_train.max_global_updates
    EvalOnStart         \* online_rl_train.eval_on_start

RunModes == {"online_rl_train", "replay_rl_train", "eval_only", "sft_train", "mismatch_test"}

ASSUME TrainAssumption ==
    /\ Engines # {}
    /\ Setups \subseteq [mode : RunModes, colocated : BOOLEAN, ppo : BOOLEAN, opd : BOOLEAN]
    /\ \A c \in Setups : c.ppo => c.mode = "online_rl_train"
    /\ EvalOnStart \in BOOLEAN
    /\ SavedSteps \subseteq Nat
    /\ NumEpochs \in Nat \ {0}
    /\ NumValueOnly \in Nat
    /\ UpdatesPerBatch \in Nat \ {0}
    /\ MaxGlobalUpdates \in Nat

VARIABLES
    setup,          \* the configuration of this run; its mode is "ended" after shutdown
    todo,           \* steps of the controller that are still to run
    enqueued,       \* rollouts have been put on the rollout queue
    actor,          \* is_on_gpu of the actor's Megatron worker
    value,          \* is_on_gpu of the value model's Megatron worker
    params,         \* version of the actor's weights: the step that made them
    copied,         \* version of the copy of the weights kept on the CPU meanwhile
    global_step,    \* actor updates done
    value_step      \* value updates done

modelVars == <<params, copied, global_step, value_step>>
trainVars == <<setup, todo, enqueued, actor, value, modelVars>>
vars == <<workerVars, trainVars>>

Teacher == -2
\* initialize_stage_manager takes the colocated manager, or the disaggregated one.
Colocated == setup.colocated
Ppo == setup.ppo

---------------------------------------------------------------------------
(* Workers of a run mode (axrl/pipeline/utils.py). *)

NeedsRolloutWorker == setup.mode \in {"online_rl_train", "eval_only", "mismatch_test"}
NeedsMegatronWorker ==
    setup.mode \in {"online_rl_train", "replay_rl_train", "sft_train", "mismatch_test"}

\* get_worker_placement: the resource groups of the rollout and Megatron workers;
\* get_pipeline_worker_placement gives the value worker the actor's.
NoGroup == 0
MegatronGroup ==
    IF ~NeedsMegatronWorker THEN NoGroup
    ELSE IF NeedsRolloutWorker /\ Colocated THEN 1 ELSE 2
Placement ==
    [rollout |-> IF NeedsRolloutWorker THEN 1 ELSE NoGroup,
     megatron |-> MegatronGroup,
     value |-> IF Ppo THEN MegatronGroup ELSE NoGroup]

\* initialize_pipeline_workers: where engines and Megatron workers are both there,
\* each leaves the GPU before the next one starts.
InitializeWorkers ==
    (IF NeedsRolloutWorker THEN <<"start_engines">> ELSE <<>>)
    \o (IF NeedsRolloutWorker /\ NeedsMegatronWorker THEN <<"release">> ELSE <<>>)
    \o (IF NeedsMegatronWorker THEN <<"start_actor">> ELSE <<>>)
    \o (IF NeedsMegatronWorker /\ NeedsRolloutWorker THEN <<"actor_to_cpu">> ELSE <<>>)
    \o (IF Ppo THEN <<"start_value", "value_to_cpu">> ELSE <<>>)

\* initialize_megatron_teacher_weights.
InitializeTeacher ==
    IF setup.opd THEN <<"copy_weights", "load_teacher", "apply_copy">> ELSE <<>>

---------------------------------------------------------------------------
(* Stage managers: what each switch does, step by step.                    *)

ValueToCpu == IF Ppo THEN <<"value_to_cpu">> ELSE <<>>

SwitchToWeightSync ==
    IF Colocated
    THEN <<"pause", "release", "resume_weights">> \o ValueToCpu \o <<"actor_to_gpu">>
    ELSE ValueToCpu \o <<"actor_to_gpu">>

\* Slip: generation is not resumed.
SwitchToRolloutPaused ==
    <<"actor_to_cpu">> \o ValueToCpu \o <<"resume_weights", "resume_kv_cache">>

SwitchToRollout ==
    (IF Colocated THEN <<"actor_to_cpu">> \o ValueToCpu ELSE <<>>)
    \o <<"resume_weights", "resume_kv_cache", "resume">>

SwitchToTrain ==
    (IF Colocated THEN <<"pause", "release">> ELSE <<>>)
    \o ValueToCpu \o <<"actor_to_gpu">>

SwitchToValueTrain ==
    (IF Colocated THEN <<"pause", "release">> ELSE <<>>)
    \o <<"actor_to_cpu", "value_to_gpu">>

\* switch_to_online_train_phase.
SwitchToOnlineTrainPhase == IF Ppo THEN SwitchToValueTrain ELSE SwitchToTrain

---------------------------------------------------------------------------
(* The steps of run_online_rl_train. *)

\* prepare_ppo_training_samples.
PrepareSamples ==
    IF Ppo THEN <<"actor_to_cpu", "value_to_gpu", "compute_values">> ELSE <<>>

\* train_online_sample_dataset: during the value-only warmup it stops after the
\* value update.
TrainsActor == ~Ppo \/ value_step >= NumValueOnly

TrainSamples ==
    (IF Ppo THEN <<"train_value", "value_to_cpu">> ELSE <<>>)
    \o (IF Ppo /\ TrainsActor THEN <<"actor_to_gpu">> ELSE <<>>)
    \o (IF TrainsActor THEN <<"train_actor">> ELSE <<>>)

\* Slip: the weights are not sent.
SyncRolloutWithoutUpdate == SwitchToWeightSync \o SwitchToRollout

\* sync_rollout_after_online_train.
SyncRollout ==
    IF TrainsActor THEN SwitchToWeightSync \o <<"update">> \o SwitchToRollout
    ELSE SwitchToRollout

\* The start of a schedule or of an evaluation.
StartRollouts == SwitchToRollout \o <<"enqueue">>

\* run_online_rl_train up to the first schedule.
RunOnlineRlTrain ==
    SwitchToTrain \o <<"load_checkpoint">> \o SwitchToWeightSync \o <<"update">>
    \o (IF EvalOnStart THEN StartRollouts ELSE <<>>)
    \o StartRollouts

\* run_sft_train: epochs, each with the evaluation after it.
Epochs == [i \in 1..(2 * NumEpochs) |-> IF i % 2 = 1 THEN "train_actor" ELSE "eval"]
RunSftTrain == <<"load_checkpoint">> \o Epochs \o <<"shutdown">>

RunReplayRlTrain == <<"load_checkpoint", "train_actor", "shutdown">>

\* run_mismatch_test after its rollouts: compute_ref_and_old_logprobs_for_mismatch.
MismatchLogprobs ==
    SwitchToTrain \o <<"copy_weights", "apply_init", "compute_ref", "apply_copy", "compute_old",
                        "shutdown">>

\* load_or_generate_mismatch_rollouts: the rollouts of an earlier run, or new ones.
GenerateMismatchRollouts == SwitchToWeightSync \o <<"update">> \o StartRollouts

\* start: initialize, then the run mode.
Start ==
    \E run \in
         IF setup.mode = "mismatch_test" THEN {MismatchLogprobs, GenerateMismatchRollouts}
         ELSE {[online_rl_train |-> RunOnlineRlTrain, replay_rl_train |-> RunReplayRlTrain,
                sft_train |-> RunSftTrain, eval_only |-> <<"enqueue">>][setup.mode]} :
      todo = InitializeWorkers \o InitializeTeacher \o run

\* Nothing runs yet.
Init ==
    /\ WorkerInit
    /\ onGpu = [e \in Engines |-> {}]
    /\ setup \in Setups
    /\ enqueued = FALSE
    /\ actor = FALSE
    /\ value = FALSE
    /\ params = 0
    /\ copied = 0
    /\ global_step = 0
    /\ value_step = 0
    /\ Start

---------------------------------------------------------------------------
(* Actions of the controller. *)

EngineOps == {"pause", "release", "resume_weights", "resume_kv_cache", "resume"}
Returned == \A e \in Engines : control[e] = NoCall

\* The next step is s, the calls before it have returned and none has raised.
Step(s) ==
    /\ todo # <<>>
    /\ Head(todo) = s
    /\ Returned
    /\ ~raised
    /\ todo' = Tail(todo)
    /\ UNCHANGED setup

\* create_rollout_worker: the engines load the model.
StartEngines ==
    /\ Step("start_engines")
    /\ onGpu' = [e \in Engines |-> Tags]
    /\ weights' = [e \in Engines |-> 0]
    /\ UNCHANGED <<ready, inbox, call, control, raised, enqueued, actor, value, modelVars>>

\* create_megatron_worker: the worker starts on the GPU, with the weights that
\* also become its init_weights.
StartMegatronWorker ==
    /\ \/ Step("start_actor") /\ actor' = TRUE /\ UNCHANGED value
       \/ Step("start_value") /\ value' = TRUE /\ UNCHANGED actor
    /\ UNCHANGED <<workerVars, enqueued, modelVars>>

\* RayRolloutWorker forwards a call to every engine.
CallRolloutWorker(s) ==
    /\ Step(s)
    /\ CallEngines([e \in Engines |-> Op(s)])
    /\ UNCHANGED <<enqueued, actor, value, modelVars>>

\* update_rollout_model_weights: the actor's weights go to every engine.
UpdateRolloutModelWeights ==
    /\ Step("update")
    /\ CallEngines([e \in Engines |-> Update(params)])
    /\ UNCHANGED <<enqueued, actor, value, modelVars>>

\* to_gpu and to_cpu of the two Megatron workers.
MoveWorker ==
    /\ \/ Step("actor_to_gpu") /\ actor' = TRUE /\ UNCHANGED value
       \/ Step("actor_to_cpu") /\ actor' = FALSE /\ UNCHANGED value
       \/ Step("value_to_gpu") /\ value' = TRUE /\ UNCHANGED actor
       \/ Step("value_to_cpu") /\ value' = FALSE /\ UNCHANGED actor
    /\ UNCHANGED <<workerVars, enqueued, modelVars>>

\* copy_weights_to_cpu, load_hf_weights and apply_weights_from_cpu.
SwapWeights ==
    /\ \/ Step("copy_weights") /\ copied' = params /\ UNCHANGED params
       \/ Step("load_teacher") /\ params' = Teacher /\ UNCHANGED copied
       \/ Step("apply_init") /\ params' = 0 /\ UNCHANGED copied
       \/ Step("apply_copy") /\ params' = copied /\ UNCHANGED copied
    /\ UNCHANGED <<workerVars, enqueued, actor, value, global_step, value_step>>

\* load_checkpoint_if_existed, with the value worker's.
LoadCheckpoint ==
    /\ Step("load_checkpoint")
    /\ global_step' \in SavedSteps
    /\ params' = global_step'
    /\ value_step' = IF Ppo THEN global_step' ELSE value_step
    /\ UNCHANGED <<workerVars, enqueued, actor, value, copied>>

\* compute_values, compute_logprobs and eval leave no state behind.
Compute ==
    /\ \E s \in {"compute_values", "compute_ref", "compute_old", "eval"} : Step(s)
    /\ UNCHANGED <<workerVars, enqueued, actor, value, modelVars>>

\* value_worker.train.
TrainValue ==
    /\ Step("train_value")
    /\ value_step' = value_step + UpdatesPerBatch
    /\ UNCHANGED <<workerVars, enqueued, actor, value, params, copied, global_step>>

\* megatron_worker.train.
TrainActor ==
    /\ Step("train_actor")
    /\ global_step' = global_step + UpdatesPerBatch
    /\ params' = global_step'
    /\ UNCHANGED <<workerVars, enqueued, actor, value, copied, value_step>>

\* enqueue_rollout_conversations.
EnqueueRollouts ==
    /\ Step("enqueue")
    /\ enqueued' = TRUE
    /\ UNCHANGED <<workerVars, actor, value, modelVars>>

ShutdownRolloutActors ==
    /\ enqueued' = FALSE
    /\ call' = [c \in Clients |-> GenCall("idle", call[c].eng, <<>>, 0)]
    /\ inbox' = [e \in Engines |-> <<>>]

ShutdownPipelineWorkers ==
    /\ onGpu' = [e \in Engines |-> {}]
    /\ weights' = [e \in Engines |-> Lost]
    /\ actor' = FALSE /\ value' = FALSE

\* shutdown: the rollout actors are killed with their calls, then the workers.
Shutdown ==
    /\ todo = <<"shutdown">> /\ Returned
    /\ todo' = <<>>
    /\ setup' = [setup EXCEPT !.mode = "ended"]
    /\ ShutdownRolloutActors
    /\ ShutdownPipelineWorkers
    /\ UNCHANGED <<ready, control, raised, modelVars>>

\* A step raises, or an engine's answer was an exception: start ends the run.
Fails ==
    /\ todo \notin {<<>>, <<"shutdown">>} /\ Returned
    /\ todo' = <<"shutdown">>
    /\ UNCHANGED <<workerVars, setup, enqueued, actor, value, modelVars>>

\* A rollout that is running calls the model.
RolloutGenerates(c, e) ==
    /\ enqueued
    /\ Generate(c, e)
    /\ UNCHANGED trainVars

\* The controller has nothing left to do but wait for rollouts.
Waiting == todo = <<>> /\ setup.mode # "ended" /\ Returned

\* The wait is over, and the controller goes on with steps.
Continue(steps) ==
    /\ Waiting
    /\ todo' = steps
    /\ UNCHANGED <<workerVars, setup, enqueued, actor, value, modelVars>>

\* stream_online_train_group_batches yields a batch and run_online_rl_train
\* trains on it.
BeginBatch ==
    /\ setup.mode = "online_rl_train" /\ global_step < MaxGlobalUpdates
    /\ value_step < MaxGlobalUpdates + NumValueOnly
    /\ Continue(SwitchToOnlineTrainPhase \o PrepareSamples \o TrainSamples \o SyncRollout)

\* A schedule ends: run_evals_if_needed and the next schedule switch again.
EndSchedule ==
    /\ setup.mode = "online_rl_train" /\ global_step < MaxGlobalUpdates
    /\ Continue(StartRollouts)

\* run_mismatch_test has its rollouts.
BeginMismatchLogprobs == setup.mode = "mismatch_test" /\ Continue(MismatchLogprobs)

\* max_global_updates are done, or run_eval_only has its results.
EndRun ==
    /\ \/ setup.mode = "online_rl_train" /\ global_step >= MaxGlobalUpdates
       \/ setup.mode = "eval_only"
    /\ Continue(<<"shutdown">>)

Controller ==
    \/ StartEngines
    \/ StartMegatronWorker
    \/ \E s \in EngineOps : CallRolloutWorker(s)
    \/ UpdateRolloutModelWeights
    \/ MoveWorker
    \/ SwapWeights
    \/ LoadCheckpoint
    \/ Compute
    \/ TrainValue
    \/ TrainActor
    \/ EnqueueRollouts
    \/ Shutdown

Next ==
    \/ Controller
    \/ Fails
    \/ BeginBatch
    \/ EndSchedule
    \/ BeginMismatchLogprobs
    \/ EndRun
    \/ \E c \in Clients, e \in Engines : RolloutGenerates(c, e)
    \/ WorkerStep /\ UNCHANGED trainVars

Spec == Init /\ [][Next]_vars

\* asyncio and Ray run what is runnable, SGLang decodes and answers aborts, and
\* the controller never idles inside a phase.  Nothing obliges a batch to come.
Fairness ==
    /\ WF_vars(Controller)
    /\ WF_vars(raised /\ Fails)
    /\ \A e \in Engines : WF_vars(ControlStep(e) /\ UNCHANGED trainVars)
    /\ \A c \in Clients :
          /\ WF_vars(StartGenerate(c) /\ UNCHANGED trainVars)
          /\ WF_vars((Decode(c) \/ Finish(c) \/ Abort(c)) /\ UNCHANGED trainVars)

FairSpec == Spec /\ Fairness

---------------------------------------------------------------------------
(* Properties. *)

Steps == EngineOps \cup {"update", "actor_to_gpu", "actor_to_cpu", "value_to_gpu",
                         "value_to_cpu", "compute_values", "train_value", "train_actor",
                         "enqueue", "start_engines", "start_actor", "start_value", "eval",
                         "copy_weights", "load_teacher", "apply_init", "apply_copy",
                         "load_checkpoint", "compute_ref", "compute_old", "shutdown"}

\* Every variable keeps its type.
TypeOK ==
    /\ WorkerTypeOK
    /\ todo \in Seq(Steps)
    /\ {enqueued, actor, value} \subseteq BOOLEAN
    /\ {global_step, value_step} \subseteq Nat
    /\ {params, copied} \subseteq Nat \cup {Teacher}

\* Whatever the controller is doing, a request the engine works on runs on
\* resident memory and on the actor's current weights: no token is sampled by
\* weights that training has already replaced, that were released, or that were
\* the teacher's.
ServesCurrentPolicy ==
    \A e \in Engines :
        Working(e) # {} => onGpu[e] = Tags /\ weights[e] = global_step

\* The two Megatron workers are never on the GPU together; where they share their
\* GPUs with the engines the actor never shares it with an engine's KV cache, nor
\* the value model with any memory of an engine, from the start of the workers on.
\* A Megatron worker computes, trains or exports weights only when it is the one
\* that is there, and with the weights of its last update, whichever weights it
\* held in between; the reference logprobs are the exception.
GpuShared ==
    /\ ~(actor /\ value)
    /\ Placement.rollout = Placement.megatron =>
          \A e \in Engines : /\ actor => "kv_cache" \notin onGpu[e]
                             /\ value => onGpu[e] = {}
    /\ todo # <<>> /\ Head(todo) \in {"train_actor", "update", "compute_old", "eval"} =>
          actor /\ params = global_step
    /\ todo # <<>> /\ Head(todo) = "compute_ref" => actor /\ params = 0
    /\ todo # <<>> /\ Head(todo) \in {"train_value", "compute_values"} => value

\* A generate call that is aborted by weight syncs returns tokens of ever newer
\* versions, all of weights that were once in service, and of a single version
\* if clear_partial_outputs_after_abort.
PolicySegments ==
    \A c \in Clients : LET out == call[c].out IN
        \A i, j \in DOMAIN out :
            /\ out[i] # Lost
            /\ i < j => out[i] <= out[j]
            /\ ClearAfterAbort => out[i] = out[j]

\* The three together: in every phase the engines serve the current policy, calls
\* return tokens of policies in their order, and the GPU is shared as planned.
PolicyServed == ServesCurrentPolicy /\ PolicySegments /\ GpuShared

Ended == setup.mode = "ended"
Serving == Waiting /\ \A e \in Engines : ready[e]

\* Every phase the controller enters ends with the engines serving again, or the
\* run ends; and every generate call returns, however often weight syncs abort
\* it, or ends with the run.
CallsReturn ==
    /\ todo # <<>> ~> Ended \/ Serving
    /\ \A c \in Clients : call[c].st # "idle" ~> call[c].st = "idle"
=============================================================================
