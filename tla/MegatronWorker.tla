--------------------------- MODULE MegatronWorker ---------------------------
(***************************************************************************)
(* The training worker: RayMegatronWorker (the driver side, in             *)
(* axrl/ray/ray_megatron_worker.py) and MegatronWorker (one per GPU, in    *)
(* axrl/worker/megatron_worker.py) with the routing materialiser and the   *)
(* router replay state that a forward pass uses.                           *)
(*                                                                         *)
(* A process is one data-parallel rank together with its model-parallel    *)
(* group: those GPUs hold the same rows and run the same program, and one  *)
(* of them, the output owner, returns outputs.  Ranks meet in collectives: *)
(* the all_reduce of the micro-batch count and the reduction of gradients. *)
(* A collective pairs whatever its ranks bring to it, in order, without    *)
(* looking at which batch each is in.  Background threads fetch routing.   *)
(*                                                                         *)
(* A weights version counts optimizer steps.  A routing tensor is named by *)
(* the handle it was first stored under; store maps a live handle to it.   *)
(***************************************************************************)
EXTENDS DataParallel, SeqlenBalancing, TLC

CONSTANTS
    Configs,            \* the worker configurations that are tried
    SampleSets,         \* sample lists a call may be given
    TrainTokens,        \* train_micro_batch_size * seq_length
    EvalTokens,         \* eval_micro_batch_size * seq_length
    TrainMicro,         \* train_micro_batch_size, eval_micro_batch_size:
    EvalMicro,          \*   rows per micro-batch without dynamic batches
    PaddingLength,      \* padding_sample_length
    PadHandle,          \* the driver's padding routing handle
    PrefetchDepth,      \* prefetch_depth of make_iterator
    WarmupForwards,     \* forwards the pipeline schedule runs ahead
    ResetInitEvery,     \* reset_init_weights_every_k_steps
    SpikeWarmup,        \* spike_debug.warmup_steps
    SpikeRatio,         \* spike_debug.spike_ratio
    HistoryWindow,      \* spike_debug.history_window
    GradNorms,          \* norms a gradient may have
    MaxCalls,           \* bound on the calls of a run
    Restored            \* handles above it name routing put back from a snapshot

NaN == -1
Pending == [state |-> "pending", rows |-> <<>>]
Lost == [state |-> "lost", rows |-> <<>>]
Ready(routing) == [state |-> "ready", rows |-> routing]
NoCall == [kind |-> "none", rows |-> <<>>, step |-> 0]
NoSnapshot == [step |-> -1]

ASSUME MegatronAssumption ==
    /\ {TrainTokens, EvalTokens, TrainMicro, EvalMicro, PaddingLength, ResetInitEvery} \subseteq Nat \ {0}
    /\ {PrefetchDepth, WarmupForwards, SpikeWarmup, SpikeRatio, MaxCalls} \subseteq Nat
    /\ HistoryWindow \in Nat \ {0} /\ GradNorms \subseteq Nat
    /\ \A c \in Configs : {c.dp, c.gbs} \subseteq Nat \ {0}

\* What a rollout leaves in a sample.  With routing replay a path has the handles
\* of its chunks, of which the last one of the last path is the packed sample's
\* own (traj_key_of asserts that there is one).  A handle is minted once, so none
\* is the padding handle.
Handles == 1..Restored
Sample == [traj : Nat \cup {-1}, len : Nat, paths : Seq(Seq(Handles \ {PadHandle}))]
ASSUME SampleAssumption ==
    /\ Restored \in Nat /\ PadHandle \in Handles
    /\ \A samples \in SampleSets :
          /\ samples \in Seq(Sample) /\ samples # <<>>
          /\ (\E c \in Configs : c.r3) => \A i \in DOMAIN samples :
                /\ samples[i].paths # <<>> /\ Last(samples[i].paths) # <<>>
                /\ \A j \in DOMAIN samples :
                      Last(Last(samples[i].paths)) = Last(Last(samples[j].paths)) => i = j

VARIABLES
    cfg,            \* one of Configs
    calls,          \* calls made so far
    call,           \* the driver's call: kind, rows, global_step
    global_step,    \* what the controller passes to the next train call
    batches,        \* rank |-> its slice of every global batch
    pc,             \* rank |-> where the worker is
    pass,           \* rank |-> index of the forward pass in Passes
    batch,          \* rank |-> index of the global batch
    micro,          \* rank |-> micro-batches of the batch
    routed,         \* rank |-> micro-batch |-> routed_experts of its rows
    fwd, bwd,       \* rank |-> micro-batches forwarded, backwarded
    merged_cache,   \* rank |-> RoutingMergedCache
    replay,         \* rank |-> indices queued for the recompute of backward
    weights,        \* rank |-> version of the weights
    cpu_snapshots,  \* rank |-> name |-> version
    logprobs,       \* rank |-> field |-> sample index |-> output
    outputs,        \* rank |-> outputs of the pass so far
    store,          \* tensor store: live handle |-> the routing it holds
    grad_norms,     \* _grad_norm_history, the same on every rank
    snapshot,       \* the newest of spike_snapshots/
    trained,        \* history: rows that took part in a backward pass
    start           \* history: versions when the call began

fetching == <<routed, merged_cache>>
model == <<weights, cpu_snapshots>>
driver == <<cfg, calls, call, global_step, batches, start>>
spikes == <<grad_norms, snapshot>>
vars == <<driver, pc, pass, batch, micro, fetching, fwd, bwd, replay, model,
          logprobs, outputs, store, spikes, trained>>

Ranks == 0..(cfg.dp - 1)
Fields == {"teacher", "ref", "old"}
NoLogprobs == [f \in Fields |-> <<>>]

\* The passes of a train call over its local batches.
TrainPasses(logprobsFirst) ==
    IF ~logprobsFirst THEN <<"train">>
    ELSE IF cfg.teacher THEN <<"teacher", "ref", "old", "train">>
    ELSE <<"ref", "old", "train">>

\* eval, compute_logprobs, compute_values and reproduce_spike make one pass.
Passes ==
    CASE call.kind = "train" -> TrainPasses(TRUE)
      [] call.kind = "sft" -> TrainPasses(FALSE)
      [] OTHER -> <<call.kind>>
PassOf(r) == Passes[pass[r]]
Trains(r) == PassOf(r) \in {"train", "reproduce"}
Everyone(where) == \A r \in Ranks : pc[r] = where

\* With expert parallelism the ranks meet in the token dispatch of every forward
\* and backward; otherwise each runs its micro-batches on its own.
Crews == IF cfg.ep THEN {Ranks} ELSE {{r} : r \in Ranks}

Init ==
    /\ cfg \in Configs
    /\ calls = 0 /\ call = NoCall /\ global_step = 0 /\ start = [cur |-> 0, init |-> 0]
    /\ batches = [r \in Ranks |-> <<>>]
    /\ pc = [r \in Ranks |-> "idle"]
    /\ pass = [r \in Ranks |-> 1] /\ batch = [r \in Ranks |-> 1]
    /\ micro = [r \in Ranks |-> <<>>] /\ routed = [r \in Ranks |-> <<>>]
    /\ fwd = [r \in Ranks |-> 0] /\ bwd = [r \in Ranks |-> 0]
    /\ merged_cache = [r \in Ranks |-> <<>>]
    /\ replay = [r \in Ranks |-> <<>>]
    /\ weights = [r \in Ranks |-> 0]
    /\ cpu_snapshots = [r \in Ranks |-> [cur_weights |-> 0, init_weights |-> 0, teacher |-> -1]]
    /\ logprobs = [r \in Ranks |-> NoLogprobs]
    /\ outputs = [r \in Ranks |-> <<>>]
    /\ store = [h \in {PadHandle} |-> h]
    /\ grad_norms = <<>> /\ snapshot = NoSnapshot /\ trained = {}

---------------------------------------------------------------------------
(* The driver *)

\* torch.randperm.
Orders(n) == {p \in [1..n -> 1..n] : \A i, j \in 1..n : p[i] = p[j] => i = j}
Shuffles(sizes, shuffle) ==
    IF shuffle THEN {p \in [DOMAIN sizes -> UNION {Orders(sizes[b]) : b \in DOMAIN sizes}] :
                        \A b \in DOMAIN sizes : Len(p[b]) = sizes[b]}
    ELSE {[b \in DOMAIN sizes |-> [i \in 1..sizes[b] |-> i]]}

\* Handles travel with the samples only when routing replay is on.
WithRouting(rows) ==
    IF cfg.r3 THEN rows ELSE [i \in DOMAIN rows |-> [rows[i] EXCEPT !.paths = <<>>]]

\* _split_samples_for_dp, with the permutations drawn.
SplitSamplesForDp(rows, perms) ==
    [r \in Ranks |-> GlobalBatchesForDpRank(rows, cfg.gbs, cfg.dp, r, perms, PaddingLength, PadHandle)]

\* train (with or without logprobs), eval, compute_logprobs and compute_values
\* split the samples per rank and call every worker; train checks the trajectory
\* count first.  Rollouts have put the routing of the samples in the store.
StartCall(kind, samples) ==
    LET rows == WithRouting(Tensorize(samples))
        handles == UniqueHandles(rows)
        trains == kind \in {"train", "sft"}
    IN  /\ Everyone("idle") /\ calls < MaxCalls
        /\ trains => TrajectoryCountDivisible(rows, cfg.gbs)
        /\ Groupable(Trajectories(rows))
        /\ \E perms \in Shuffles(PaddedSizes(rows, cfg.gbs, cfg.dp), trains /\ cfg.shuffle) :
              batches' = SplitSamplesForDp(rows, perms)
        /\ call' = [kind |-> kind, rows |-> rows, step |-> global_step]
        /\ store' = [h \in DOMAIN store \cup handles |-> IF h \in handles THEN h ELSE store[h]]
        /\ calls' = calls + 1
        /\ pc' = [r \in Ranks |-> "begin"]
        /\ pass' = [r \in Ranks |-> 1] /\ batch' = [r \in Ranks |-> 1]
        /\ logprobs' = [r \in Ranks |-> NoLogprobs]
        /\ trained' = {}
        /\ start' = [cur |-> weights[0],
                     init |-> IF trains /\ global_step % ResetInitEvery = 0
                              THEN weights[0] ELSE cpu_snapshots[0].init_weights]
        /\ UNCHANGED <<cfg, global_step, micro, fetching, fwd, bwd, replay, model, outputs, spikes>>

\* ray.get returns when every worker has, and the outputs of compute_logprobs and
\* compute_values are merged.  The controller then frees the routing of the
\* samples and has the workers clear their caches.
AllOutputs == FlattenSeq([i \in 1..cfg.dp |-> outputs[i - 1]])
EndCall ==
    /\ call.kind # "none" /\ Everyone("done")
    /\ call.kind \in {"logprobs", "values"} => Mergeable(AllOutputs, Len(call.rows))
    /\ global_step' = IF call.kind \in {"train", "sft"} THEN call.step + Len(batches[0])
                                                         ELSE global_step
    /\ store' = [h \in DOMAIN store \ UniqueHandles(call.rows) |-> store[h]]
    /\ merged_cache' = [r \in Ranks |-> <<>>]
    /\ pc' = [r \in Ranks |-> "idle"]
    /\ call' = NoCall
    /\ micro' = [r \in Ranks |-> <<>>] /\ routed' = [r \in Ranks |-> <<>>]
    /\ batches' = [r \in Ranks |-> <<>>]
    /\ UNCHANGED <<cfg, calls, start, pass, batch, fwd, bwd, replay, model,
                   logprobs, outputs, spikes, trained>>

---------------------------------------------------------------------------
(* Weights of a pass *)

\* copy_weights_to_cpu and apply_weights_from_cpu in
\* _update_teacher_logprobs_for_batches and
\* _update_ref_and_old_logprobs_for_batches: the weights a pass runs with, and the
\* CPU copies it leaves.
\* Slip: the current weights are not put back before the old logprobs.
PassWeightsKeepInit(r) ==
    LET snap == cpu_snapshots[r]
    IN  CASE PassOf(r) = "ref" -> <<snap.init_weights, [snap EXCEPT !.cur_weights = weights[r]]>>
          [] PassOf(r) = "teacher" -> <<snap.teacher, [snap EXCEPT !.cur_weights = weights[r]]>>
          [] OTHER -> <<weights[r], snap>>

PassWeights(r) ==
    LET snap == cpu_snapshots[r]
    IN  CASE PassOf(r) = "ref" -> <<snap.init_weights, [snap EXCEPT !.cur_weights = weights[r]]>>
          [] PassOf(r) = "teacher" -> <<snap.teacher, [snap EXCEPT !.cur_weights = weights[r]]>>
          [] PassOf(r) = "old" -> <<snap.cur_weights, snap>>
          [] OTHER -> <<weights[r], snap>>

\* The first lines of _train_from_local_batches may take a new reference policy.
ResetInitWeights(r) ==
    IF call.kind \in {"train", "sft"} /\ pass[r] = 1 /\ call.step % ResetInitEvery = 0
    THEN [cpu_snapshots[r] EXCEPT !.init_weights = weights[r]] ELSE cpu_snapshots[r]

BeginCall(r) ==
    /\ pc[r] = "begin"
    /\ cpu_snapshots' = [cpu_snapshots EXCEPT ![r] = ResetInitWeights(r)]
    /\ pc' = [pc EXCEPT ![r] = "pass"]
    /\ UNCHANGED <<driver, pass, batch, micro, fetching, fwd, bwd, replay, weights,
                   logprobs, outputs, store, spikes, trained>>

BeginPass(r) ==
    /\ pc[r] = "pass"
    /\ weights' = [weights EXCEPT ![r] = PassWeights(r)[1]]
    /\ cpu_snapshots' = [cpu_snapshots EXCEPT ![r] = PassWeights(r)[2]]
    /\ outputs' = [outputs EXCEPT ![r] = <<>>]
    /\ batch' = [batch EXCEPT ![r] = 1]
    /\ pc' = [pc EXCEPT ![r] = "split"]
    /\ UNCHANGED <<driver, pass, micro, fetching, fwd, bwd, replay,
                   logprobs, store, spikes, trained>>

---------------------------------------------------------------------------
(* forward_backward_batch *)

Batch(r) == batches[r][batch[r]]
Lens(r) == [i \in DOMAIN Batch(r) |-> Batch(r)[i].len]
LocalCount(r) == LocalMicroBatches(Lens(r), IF Trains(r) THEN TrainTokens ELSE EvalTokens)

\* The all_reduce(MAX) of the micro-batch count over the data-parallel group.
\* Slip: every rank keeps its own count.
OwnCount(r) == LocalCount(r)
AgreedCount(r) == Max({LocalCount(s) : s \in Ranks})

\* The batch runs with no routing fetched and nothing forwarded.
Begins(ranks, split) ==
    /\ micro' = [r \in Ranks |-> IF r \in ranks THEN split[r] ELSE micro[r]]
    /\ routed' = [r \in Ranks |->
          IF r \in ranks THEN [i \in DOMAIN split[r] |-> IF cfg.r3 THEN Pending ELSE Ready(<<>>)]
                         ELSE routed[r]]
    /\ fwd' = [r \in Ranks |-> IF r \in ranks THEN 0 ELSE fwd[r]]
    /\ bwd' = [r \in Ranks |-> IF r \in ranks THEN 0 ELSE bwd[r]]
    /\ pc' = [r \in Ranks |-> IF r \in ranks THEN "run" ELSE pc[r]]

RowsOf(rows, parts) == [j \in DOMAIN parts |-> SelectRows(rows, InOrder(parts[j]))]

\* use_dynamic_batch_size: the ranks agree on the count; with virtual stages it
\* is rounded up and may exceed the rows, which is an assertion failure.
SplitDynamic ==
    LET count(r) == RoundedCount(AgreedCount(r), cfg.vpp, cfg.group)
        split(r) == IF count(r) > Len(Batch(r)) THEN <<>>
                    ELSE SplitIntoBalancedMicrobatches(Lens(r), count(r))
    IN  /\ cfg.dynamic /\ Everyone("split")
        /\ \E parts \in {[r \in Ranks |-> split(r)]} :
              \/ /\ \A r \in Ranks : PartitionsChecked(parts[r], count(r), Lens(r))
                 /\ \E s \in {[r \in Ranks |-> RowsOf(Batch(r), parts[r])]} : Begins(Ranks, s)
              \/ /\ \E r \in Ranks : ~PartitionsChecked(parts[r], count(r), Lens(r))
                 /\ pc' = [r \in Ranks |-> "raised"]
                 /\ UNCHANGED <<micro, routed, fwd, bwd>>
        /\ UNCHANGED <<driver, pass, batch, merged_cache, replay, model, logprobs, outputs,
                       store, spikes, trained>>

\* batch.split and realign_non_tensor_keys_after_split: the handles are cut like
\* the tensors.
SplitStatic(r) ==
    LET size == IF Trains(r) THEN TrainMicro ELSE EvalMicro
        chunk(j) == SubSeq(Batch(r), (j - 1) * size + 1, Min({j * size, Len(Batch(r))}))
    IN  /\ ~cfg.dynamic /\ pc[r] = "split"
        /\ Begins({r}, [s \in {r} |-> [j \in 1..CeilDiv(Len(Batch(r)), size) |-> chunk(j)]])
        /\ UNCHANGED <<driver, pass, batch, merged_cache, replay, model, logprobs, outputs,
                       store, spikes, trained>>

\* iter_microbatches_with_prefetched_routing: micro-batch i has been submitted to
\* the pool, which starts submissions in order on PrefetchDepth threads.
Submitted(r, i) == i <= fwd[r] + 1 + PrefetchDepth
OnThread(r, i) ==
    Cardinality({j \in 1..(i - 1) : routed[r][j] = Pending}) < Max({1, PrefetchDepth})

\* The per-path routing of a row, concatenated from its chunks.
Stored(paths) == [p \in DOMAIN paths |-> [k \in DOMAIN paths[p] |-> store[paths[p][k]]]]

\* RoutingMaterialiser.materialise: the rows whose key is not in the merged cache
\* are fetched in one call and put there; of rows with one key, the first is.
KeyOf(row) == TrajKeyOf(row.paths)
Misses(r, i) == {j \in DOMAIN micro[r][i] : KeyOf(micro[r][i][j]) \notin DOMAIN merged_cache[r]}
Merged(r, i) ==
    LET rows == micro[r][i]
        new == {KeyOf(rows[j]) : j \in Misses(r, i)}
        first(key) == Min({j \in Misses(r, i) : KeyOf(rows[j]) = key})
    IN  [key \in new \cup DOMAIN merged_cache[r] |->
            IF key \in new THEN Stored(rows[first(key)].paths) ELSE merged_cache[r][key]]
FetchRouting(r, i) ==
    LET rows == micro[r][i]
        alive == UniqueHandles([j \in Misses(r, i) |-> rows[j]]) \subseteq DOMAIN store
    IN  /\ pc[r] = "run" /\ i \in DOMAIN micro[r] /\ routed[r][i] = Pending
        /\ Submitted(r, i) /\ OnThread(r, i)
        /\ routed' = [routed EXCEPT ![r] = [@ EXCEPT ![i] =
              IF alive THEN Ready([j \in DOMAIN rows |-> Merged(r, i)[KeyOf(rows[j])]]) ELSE Lost]]
        /\ merged_cache' = IF alive THEN [merged_cache EXCEPT ![r] = Merged(r, i)] ELSE merged_cache
        /\ UNCHANGED <<driver, pc, pass, batch, micro, fwd, bwd, replay, model, logprobs,
                       outputs, store, spikes, trained>>

\* The schedule of Megatron's forward_backward_func (external): one forward, one
\* backward, after WarmupForwards forwards.
ForwardNext(r) ==
    /\ pc[r] = "run" /\ fwd[r] < Len(micro[r])
    /\ Trains(r) => fwd[r] - bwd[r] <= WarmupForwards
BackwardNext(r) == pc[r] = "run" /\ Trains(r) /\ bwd[r] < fwd[r] /\ ~ForwardNext(r)

\* The forward of the next micro-batch: its routing is loaded into the routers,
\* which keep it for the recompute, and its outputs are collected by index.
OutputsOf(r) ==
    LET i == fwd[r] + 1
    IN  [j \in DOMAIN micro[r][i] |->
            [index |-> micro[r][i][j].index,
             value |-> [row |-> micro[r][i][j].index, weights |-> weights[r]]]]
Forward(crew) ==
    /\ \A r \in crew : ForwardNext(r) /\ routed[r][fwd[r] + 1] # Pending
    /\ IF \E r \in crew : routed[r][fwd[r] + 1] = Lost
       THEN /\ pc' = [r \in Ranks |-> IF r \in crew THEN "raised" ELSE pc[r]]
            /\ UNCHANGED <<fwd, replay, outputs>>
       ELSE /\ fwd' = [r \in Ranks |-> IF r \in crew THEN fwd[r] + 1 ELSE fwd[r]]
            /\ replay' = [r \in Ranks |->
                  IF r \in crew /\ cfg.r3 THEN Append(replay[r], routed[r][fwd[r] + 1].rows) ELSE replay[r]]
            /\ outputs' = [r \in Ranks |->
                  IF r \in crew THEN outputs[r] \o OutputsOf(r) ELSE outputs[r]]
            /\ UNCHANGED pc
    /\ UNCHANGED <<driver, pass, batch, micro, fetching, bwd, model, logprobs, store, spikes, trained>>

\* The backward of the oldest forwarded micro-batch; with recompute its routers
\* pop the indices queued first.
BackwardRows(r) ==
    LET i == bwd[r] + 1
        rows == micro[r][i]
        again == IF cfg.r3 /\ cfg.recompute THEN Head(replay[r]) ELSE routed[r][i].rows
        at(f, j) == IF rows[j].index \in DOMAIN logprobs[r][f] THEN logprobs[r][f][rows[j].index]
                                                               ELSE <<>>
    IN  {[rank |-> r, batch |-> batch[r], micro |-> i, pos |-> j, row |-> rows[j],
          weights |-> weights[r], given |-> [f \in Fields |-> at(f, j)],
          routing |-> IF cfg.r3 THEN routed[r][i].rows[j] ELSE <<>>,
          replayed |-> IF cfg.r3 THEN again[j] ELSE <<>>] : j \in DOMAIN rows}
Backward(crew) ==
    /\ \A r \in crew : BackwardNext(r)
    /\ bwd' = [r \in Ranks |-> IF r \in crew THEN bwd[r] + 1 ELSE bwd[r]]
    /\ trained' = trained \cup UNION {BackwardRows(r) : r \in crew}
    /\ replay' = [r \in Ranks |->
          IF r \in crew /\ cfg.r3 /\ cfg.recompute THEN Tail(replay[r]) ELSE replay[r]]
    /\ UNCHANGED <<driver, pc, pass, batch, micro, fetching, fwd, model, logprobs, outputs, store, spikes>>

\* clear_router_replay_state.
ClearedReplay(queued) == <<>>

\* forward_backward_batch returns.
EndBatch(r) ==
    /\ pc[r] = "run" /\ fwd[r] = Len(micro[r])
    /\ Trains(r) => bwd[r] = fwd[r]
    /\ replay' = [replay EXCEPT ![r] = ClearedReplay(@)]
    /\ pc' = [pc EXCEPT ![r] = CASE PassOf(r) = "train" -> "update"
                                 [] PassOf(r) = "reproduce" -> "done"
                                 [] ~Trains(r) /\ batch[r] < Len(batches[r]) -> "split"
                                 [] OTHER -> "gather"]
    /\ batch' = [batch EXCEPT ![r] = IF pc'[r] = "split" THEN @ + 1 ELSE @]
    /\ UNCHANGED <<driver, pass, micro, fetching, fwd, bwd, model, logprobs, outputs, store, spikes, trained>>

\* _cat_logprobs_by_index and _logprobs_for_batch: the value a row is given.
LogprobsByIndex(r) == MergeOutputs(outputs[r])

\* _compute_logprobs_from_local_batches gathers the outputs of the shard and gives
\* every row its own; the teacher pass puts the current weights back.
Gather(r) ==
    /\ pc[r] = "gather"
    /\ logprobs' = IF PassOf(r) \in Fields
                   THEN [logprobs EXCEPT ![r] = [@ EXCEPT ![PassOf(r)] = LogprobsByIndex(r)]]
                   ELSE logprobs
    /\ weights' = IF PassOf(r) = "teacher"
                  THEN [weights EXCEPT ![r] = cpu_snapshots[r].cur_weights] ELSE weights
    /\ pc' = [pc EXCEPT ![r] = IF pass[r] < Len(Passes) THEN "pass" ELSE "done"]
    /\ pass' = [pass EXCEPT ![r] = IF pass[r] < Len(Passes) THEN @ + 1 ELSE @]
    /\ UNCHANGED <<driver, batch, micro, fetching, fwd, bwd, replay, cpu_snapshots, outputs,
                   store, spikes, trained>>

---------------------------------------------------------------------------
(* The optimizer step and the spike snapshot *)

StepOf(r) == call.step + batch[r] - 1

\* _detect_spike, on the window that the new norm has joined.
Window(norm) ==
    LET all == Append(grad_norms, norm)
    IN  SubSeq(all, Max({1, Len(all) + 1 - HistoryWindow}), Len(all))
Spiked(norm, step) ==
    LET before == SortSeq(Front(Window(norm)), <)
        median == before[(Len(before) \div 2) + 1]
    IN  /\ step >= SpikeWarmup /\ Len(Window(norm)) >= 2
        /\ median > 0 /\ norm > SpikeRatio * median

\* What a rank trained on in this batch, without where.
Did(rank, b) == {[row |-> t.row.index, weights |-> t.weights, given |-> t.given,
                  routing |-> t.routing, replayed |-> t.replayed, micro |-> t.micro] :
                 t \in {x \in trained : x.rank = rank /\ x.batch = b}}

\* _snapshot_spike_debug_info: the checkpoint, the batch with its logprobs and the
\* bytes behind its handles.
\* Slip: the snapshot is taken after the optimizer step.
SavedWeightsUpdated == weights[0] + 1
SavedWeights == weights[0]
RoutingPayloads == [h \in UNION {UniqueHandles(Batch(r)) : r \in Ranks} |-> store[h]]
SpikeSnapshot ==
    [step |-> StepOf(0), weights |-> SavedWeights,
     rows |-> [r \in Ranks |-> Batch(r)], logprobs |-> logprobs,
     payload |-> RoutingPayloads,
     did |-> [r \in Ranks |-> Did(r, batch[r])]]

\* The gradients are reduced over the ranks and every rank steps, or none does.
Update(norm) ==
    /\ Everyone("update")
    /\ IF norm = NaN THEN UNCHANGED <<weights, grad_norms, snapshot>>
       ELSE /\ grad_norms' = Window(norm)
            /\ snapshot' = IF Spiked(norm, StepOf(0)) THEN SpikeSnapshot ELSE snapshot
            /\ weights' = [r \in Ranks |-> weights[r] + 1]
    /\ pc' = [r \in Ranks |-> IF batch[r] < Len(batches[r]) THEN "split" ELSE "done"]
    /\ batch' = [r \in Ranks |-> IF batch[r] < Len(batches[r]) THEN batch[r] + 1 ELSE batch[r]]
    /\ UNCHANGED <<driver, pass, micro, fetching, fwd, bwd, replay, cpu_snapshots, logprobs,
                   outputs, store, trained>>

\* reproduce_spike: the snapshot's weights, batch and routing, the latter under
\* new handles; the worker is not used again for training.
RestoredRows(rows) ==
    [i \in DOMAIN rows |-> [rows[i] EXCEPT !.paths =
        [p \in DOMAIN @ |-> [k \in DOMAIN @[p] |-> @[p][k] + Restored]]]]
ReproduceSpike ==
    /\ Everyone("idle") /\ snapshot # NoSnapshot
    /\ call' = [kind |-> "reproduce", rows |-> <<>>, step |-> snapshot.step]
    /\ calls' = MaxCalls + 1
    /\ calls <= MaxCalls
    /\ batches' = [r \in Ranks |-> <<RestoredRows(snapshot.rows[r])>>]
    /\ logprobs' = snapshot.logprobs
    /\ weights' = [r \in Ranks |-> snapshot.weights]
    /\ store' = [h \in DOMAIN store \cup {k + Restored : k \in DOMAIN snapshot.payload} |->
                    IF h \in DOMAIN store THEN store[h] ELSE snapshot.payload[h - Restored]]
    /\ merged_cache' = [r \in Ranks |-> <<>>]
    /\ pass' = [r \in Ranks |-> 1] /\ batch' = [r \in Ranks |-> 1]
    /\ pc' = [r \in Ranks |-> "split"]
    /\ trained' = {}
    /\ UNCHANGED <<cfg, global_step, start, micro, routed, fwd, bwd, replay, cpu_snapshots, outputs, spikes>>

---------------------------------------------------------------------------
Kinds == {"train", "sft", "eval", "logprobs", "values"}
WorkerStep(r) ==
    \/ BeginCall(r) \/ BeginPass(r) \/ SplitStatic(r) \/ EndBatch(r) \/ Gather(r)
    \/ \E i \in DOMAIN micro[r] : FetchRouting(r, i)
Compute == \E crew \in Crews : Forward(crew) \/ Backward(crew)
Collective == SplitDynamic \/ \E norm \in GradNorms \cup {NaN} : Update(norm)
Next ==
    \/ \E kind \in Kinds, samples \in SampleSets : StartCall(kind, samples)
    \/ ReproduceSpike
    \/ EndCall
    \/ \E r \in Ranks : WorkerStep(r)
    \/ Compute
    \/ Collective

\* Every worker, its threads and its collectives make progress; the driver need
\* not make another call.
Spec ==
    /\ Init /\ [][Next]_vars
    /\ WF_vars(EndCall) /\ WF_vars(Collective) /\ WF_vars(Compute)
    /\ WF_vars(\E r \in Ranks : WorkerStep(r))

---------------------------------------------------------------------------
(* Properties *)

\* A call to the workers returns.  Ranks never wait for each other in different
\* collectives, whatever the rows each was dealt, and no routing is missing when
\* a forward needs it.  The one failure the code has, a rounded micro-batch count
\* above the number of rows, is met by every rank at once.
CallReturns ==
    (call.kind # "none") ~> (call.kind = "none" \/ (cfg.vpp > 0 /\ Everyone("raised")))

\* Training goes over every sample exactly once, samples of one trajectory in the
\* same optimizer step, and padding rows are the only other rows
\* (build_global_batches_for_dp_rank and the micro-batch splits).
RealTrained == {t \in trained : IsReal(t.row)}
EachSampleOnce ==
    (call.kind \in {"train", "sft"} /\ Everyone("done")) =>
        /\ {t.row.index : t \in RealTrained} = 0..(Len(call.rows) - 1)
        /\ Cardinality(RealTrained) = Len(call.rows)
        /\ \A t, u \in RealTrained : t.row.traj = u.row.traj => t.batch = u.batch

\* Every row trains with its own logprobs: the reference ones under the weights
\* of the last reset, the old ones under the weights the call began with, although
\* the passes ran other micro-batches and swapped the weights under them.
LogprobsAligned ==
    call.kind = "train" => \A t \in RealTrained :
        /\ t.given.ref = [row |-> t.row.index, weights |-> start.init]
        /\ t.given.old = [row |-> t.row.index, weights |-> start.cur]
        /\ cfg.teacher => t.given.teacher = [row |-> t.row.index, weights |-> -1]

\* The routers of a row are given the routing that its own rollout recorded, in
\* the forward and again in the recompute of the backward, through the cache that
\* three passes share and the queue that micro-batches in flight share.
NameOf(h) == IF h > Restored THEN h - Restored ELSE h
Recorded(paths) == [p \in DOMAIN paths |-> [k \in DOMAIN paths[p] |-> NameOf(paths[p][k])]]
RoutingOwn ==
    cfg.r3 => \A t \in trained :
        t.routing = Recorded(t.row.paths) /\ t.replayed = Recorded(t.row.paths)

\* Replaying a spike snapshot runs what the spiking step ran: the same rows in the
\* same micro-batches, under the same weights, logprobs and routing, even though
\* training went on and the routing was freed in between.
SpikeReplays ==
    (call.kind = "reproduce" /\ Everyone("done")) =>
        \A r \in Ranks : Did(r, 1) = snapshot.did[r]
===========================================================================
