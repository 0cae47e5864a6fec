----------------------------- MODULE Checkpoint -----------------------------
(***************************************************************************)
(* Checkpoints of an online RL run and what survives a crash               *)
(* (base_controller.py, controller.py).  A checkpoint is written in parts, *)
(* one after the other: the actor, the score history of the dataset        *)
(* (extra_info), the HF export with the removal of old ones, and, with PPO,*)
(* the value model.  The process may die at any point and is started       *)
(* again, which loads what is there.                                       *)
(*                                                                         *)
(* What Megatron writes is external: the actor's and the value model's     *)
(* checkpoints are replaced atomically (the tracker file), and the latest  *)
(* one is loaded.  Weights are represented by how often they were updated, *)
(* the score history by its length.                                        *)
(***************************************************************************)
EXTENDS Integers, FiniteSets

CONSTANTS
    Stride,             \* global updates per training call
    Interval,           \* checkpoint_every_n_global_updates
    MaxUpdates,         \* max_global_updates
    NumValueOnly,       \* num_value_only_updates
    MostRecentK,        \* most_recent_checkpoint_k
    MaxRetries,         \* max_retries
    MaxCrashes          \* bound: times the process dies

ASSUME CheckpointAssumption ==
    /\ {Stride, Interval, MaxUpdates, MaxRetries} \subseteq Nat \ {0}
    /\ {NumValueOnly, MostRecentK, MaxCrashes} \subseteq Nat
    /\ Interval % Stride = 0

VARIABLES
    ppo,            \* there is a value worker
    save_hf,        \* save_hf_checkpoint
    pc,             \* what the controller does next
    attempt,        \* attempt of the checkpoint that is being saved
    global_step, value_step,
    scores,         \* length of train_dataset._score_history
    value_updates,  \* updates the value model really has had
    actor,          \* on disk: [step, scores], scores when it was saved; step 0: none
    dir,            \* on disk: checkpoint_dir exists
    extra,          \* on disk: the score history of each step, -1 where there is none
    hf,             \* on disk: the HF export of each step
    value,          \* on disk: [step, updates]; step 0: none
    reached,        \* highest global step ever trained
    hf_newest,      \* newest step whose HF export was completed
    stopped,        \* where the process ended that runs no more, "none" while one trains
    crashes

memory == <<attempt, global_step, value_step, scores, value_updates>>
disk == <<actor, dir, extra, hf, value>>
vars == <<ppo, save_hf, pc, memory, disk, reached, hf_newest, stopped, crashes>>

Steps == 0..MaxUpdates + Stride

Init ==
    /\ ppo \in BOOLEAN
    /\ save_hf \in BOOLEAN
    /\ pc = "down"
    /\ attempt = 0
    /\ global_step = 0 /\ value_step = 0 /\ scores = 0 /\ value_updates = 0
    /\ actor = [step |-> 0, scores |-> 0]
    /\ dir = FALSE
    /\ extra = [s \in Steps |-> -1]
    /\ hf = [s \in Steps |-> "none"]
    /\ value = [step |-> 0, updates |-> 0]
    /\ reached = 0
    /\ hf_newest = 0
    /\ stopped = "none"
    /\ crashes = 0

---------------------------------------------------------------------------
(* Loading. *)

\* load_checkpoint of the base controller: the history of the loaded step must
\* be there; three tries change nothing about that.
Loadable == actor.step > 0 /\ extra[actor.step] # -1

\* load_value_checkpoint_if_exists: the value step is what the checkpoint was
\* labelled with.
LoadValue ==
    IF ppo /\ value.step > 0
      THEN value_step' = value.step /\ value_updates' = value.updates
      ELSE value_step' = 0 /\ value_updates' = 0

\* load_checkpoint_if_existed, at the start of run_online_rl_train.
LoadCheckpointIfExisted ==
    /\ pc = "down"
    /\ dir => Loadable
    /\ pc' = "train"
    /\ attempt' = 0
    /\ global_step' = actor.step
    /\ scores' = IF dir THEN extra[actor.step] ELSE 0
    /\ IF dir THEN LoadValue ELSE value_step' = 0 /\ value_updates' = 0
    /\ stopped' = "none"
    /\ UNCHANGED <<ppo, save_hf, disk, reached, hf_newest, crashes>>

\* "Failed to load checkpoint after multiple attempts."
LoadFails ==
    /\ pc = "down"
    /\ dir /\ ~Loadable
    /\ pc' = "failed"
    /\ UNCHANGED <<ppo, save_hf, memory, disk, reached, hf_newest, stopped, crashes>>

---------------------------------------------------------------------------
(* Training. *)

\* Slip: the interval counts training calls that skipped the actor too.
DueAnyway(actor_trained, step) == step % Interval = 0

\* save_checkpoint_if_needed.
CheckpointDue(actor_trained, step) == actor_trained /\ step % Interval = 0

\* train_online_sample_dataset: during the warmup only the value model learns.
ShouldTrainActor == ppo => value_step >= NumValueOnly

\* One turn of run_online_rl_train up to the checkpoint.  The weight sync is in
\* OnlineTrain.
TrainOnlineSampleDataset ==
    /\ pc = "train"
    /\ global_step < MaxUpdates
    /\ global_step' = IF ShouldTrainActor THEN global_step + Stride ELSE global_step
    /\ value_step' = IF ppo THEN value_step + Stride ELSE value_step
    /\ value_updates' = IF ppo THEN value_updates + Stride ELSE value_updates
    /\ scores' = scores + 1
    /\ reached' = IF global_step' > reached THEN global_step' ELSE reached
    /\ pc' = IF CheckpointDue(ShouldTrainActor, global_step') THEN "save_actor" ELSE "train"
    /\ attempt' = 1
    /\ UNCHANGED <<ppo, save_hf, disk, hf_newest, stopped, crashes>>

---------------------------------------------------------------------------
(* Saving: save_checkpoint of the base controller. *)

\* megatron_worker.save_checkpoint: makes the directory, writes, commits.
SaveActor ==
    /\ pc = "save_actor"
    /\ pc' = "save_extra"
    /\ dir' = TRUE
    /\ actor' = [step |-> global_step, scores |-> scores]
    /\ UNCHANGED <<ppo, save_hf, memory, extra, hf, value, reached, hf_newest, stopped, crashes>>

\* Slip: after an error in the history the checkpoint counts as saved.
SkipAfterError(made) ==
    /\ pc \in {"save_actor", "save_extra"}
    /\ pc' = "save_value"
    /\ dir' = (dir \/ made)
    /\ UNCHANGED <<ppo, save_hf, memory, actor, extra, hf, value, reached, hf_newest, stopped, crashes>>

\* An exception of either write: another attempt from the start, or the end of
\* the run.  The directory may have been made.
SaveAttemptFails(made) ==
    /\ pc \in {"save_actor", "save_extra"}
    /\ dir' = (dir \/ made)
    /\ IF attempt < MaxRetries
         THEN attempt' = attempt + 1 /\ pc' = "save_actor" /\ stopped' = stopped
         ELSE attempt' = attempt /\ pc' = "down" /\ stopped' = pc
    /\ UNCHANGED <<ppo, save_hf, global_step, value_step, scores, value_updates,
                   actor, extra, hf, value, reached, hf_newest, crashes>>

\* save_zst of the score history.
SaveExtraInfo ==
    /\ pc = "save_extra"
    /\ pc' = IF save_hf THEN "save_hf" ELSE "save_value"
    /\ extra' = [extra EXCEPT ![global_step] = scores]
    /\ UNCHANGED <<ppo, save_hf, memory, actor, dir, hf, value, reached, hf_newest, stopped, crashes>>

\* save_hf_checkpoint (save_hf): the directory first, then its content.
MakeHfDir ==
    /\ pc = "save_hf"
    /\ pc' = "fill_hf"
    /\ hf' = [hf EXCEPT ![global_step] = "partial"]
    /\ UNCHANGED <<ppo, save_hf, memory, actor, dir, extra, value, reached, hf_newest, stopped, crashes>>

SaveHfPretrained ==
    /\ pc = "fill_hf"
    /\ pc' = "cleanup"
    /\ hf' = [hf EXCEPT ![global_step] = "complete"]
    /\ hf_newest' = global_step
    /\ UNCHANGED <<ppo, save_hf, memory, actor, dir, extra, value, reached, stopped, crashes>>

\* An exception of the export is logged; nothing is removed.
SaveHfFails ==
    /\ pc = "fill_hf"
    /\ pc' = "save_value"
    /\ UNCHANGED <<ppo, save_hf, memory, disk, reached, hf_newest, stopped, crashes>>

\* The directories beyond the newest MostRecentK.
OldHfDirs ==
    LET dirs == {s \in Steps : hf[s] # "none"}
    IN {s \in dirs : MostRecentK > 0 /\ Cardinality({t \in dirs : t > s}) >= MostRecentK}

\* _cleanup_old_hf_checkpoints: an rmtree that fails leaves part of its directory.
CleanupOldHfCheckpoints(failed) ==
    /\ pc = "cleanup"
    /\ pc' = "save_value"
    /\ hf' = [s \in Steps |-> CASE s \in OldHfDirs \ failed -> "none"
                                [] s \in OldHfDirs \cap failed -> "partial"
                                [] OTHER -> hf[s]]
    /\ UNCHANGED <<ppo, save_hf, memory, actor, dir, extra, value, reached, hf_newest, stopped, crashes>>

\* value_worker.save_checkpoint(global_step), labelled with the actor's step.
SaveValue ==
    /\ pc = "save_value"
    /\ pc' = "train"
    /\ value' = IF ppo THEN [step |-> global_step, updates |-> value_updates] ELSE value
    /\ UNCHANGED <<ppo, save_hf, memory, actor, dir, extra, hf, reached, hf_newest, stopped, crashes>>

---------------------------------------------------------------------------
\* The process dies: what is in memory is lost with the next load.  The write of
\* the actor may have made the directory already.
Crash(made) ==
    /\ pc \notin {"down", "failed"}
    /\ crashes < MaxCrashes
    /\ crashes' = crashes + 1
    /\ pc' = "down"
    /\ stopped' = pc
    /\ made => pc = "save_actor"
    /\ dir' = (dir \/ made)
    /\ UNCHANGED <<ppo, save_hf, memory, actor, extra, hf, value, reached, hf_newest>>

\* The loop ends; a finished run stays finished.
Finished ==
    /\ pc = "train"
    /\ global_step >= MaxUpdates
    /\ UNCHANGED vars

Next ==
    \/ LoadCheckpointIfExisted \/ LoadFails
    \/ TrainOnlineSampleDataset
    \/ SaveActor \/ SaveExtraInfo
    \/ \E made \in BOOLEAN : SaveAttemptFails(made)
    \/ MakeHfDir \/ SaveHfPretrained \/ SaveHfFails
    \/ \E failed \in SUBSET OldHfDirs : CleanupOldHfCheckpoints(failed)
    \/ SaveValue
    \/ \E made \in BOOLEAN : Crash(made)
    \/ Finished

Spec == Init /\ [][Next]_vars

---------------------------------------------------------------------------
(* Properties. *)

\* Where a running process is.
Places == {"train", "save_actor", "save_extra", "save_hf", "fill_hf", "cleanup", "save_value"}

TypeOK ==
    /\ ppo \in BOOLEAN /\ save_hf \in BOOLEAN /\ dir \in BOOLEAN
    /\ pc \in {"down", "failed"} \cup Places
    /\ stopped \in {"none"} \cup Places
    /\ {global_step, value_step, scores, value_updates, attempt, reached, hf_newest, crashes}
         \subseteq Nat
    /\ global_step \in Steps /\ hf_newest \in Steps
    /\ actor \in [step : Steps, scores : Nat]
    /\ value \in [step : Steps, updates : Nat]
    /\ extra \in [Steps -> Nat \cup {-1}]
    /\ hf \in [Steps -> {"none", "partial", "complete"}]

\* What a restart would load belongs together (load_checkpoint): the score history
\* is the one of the moment the actor was saved, the value model is never ahead
\* of the actor, and a value model on disk is past its warmup.
LoadsMatch ==
    /\ Loadable => extra[actor.step] = actor.scores
    /\ value.step <= actor.step
    /\ value.step > 0 => value.updates > NumValueOnly

\* Where the process is, or was when it ended.
LastPlace == IF pc \in {"down", "failed"} THEN stopped ELSE pc

\* The two writes of save_checkpoint are not one: the actor is written and the score
\* history is not, in whichever attempt, or the first actor ever is being written.
BetweenWrites ==
    /\ LastPlace \in {"save_actor", "save_extra"}
    /\ actor.step \in {0, global_step}

\* What the end of the process costs, wherever it comes (save_checkpoint,
\* save_checkpoint_if_needed).  Outside the two writes, also after any number of
\* earlier crashes and failed attempts, a restart resumes, from a checkpoint that
\* can be loaded or, before there is one, from the start, and repeats at most one
\* interval of updates.  Nothing is said of a process that ends between the writes:
\* it may lose everything (LoadFails).  And the newest completed HF export
\* is never removed or damaged, whatever exports and removals failed since
\* (_cleanup_old_hf_checkpoints).
LostWorkBounded ==
    /\ ~BetweenWrites => (dir => Loadable) /\ reached <= actor.step + Interval
    /\ hf_newest > 0 => hf[hf_newest] = "complete"
=============================================================================
