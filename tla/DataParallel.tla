---------------------------- MODULE DataParallel ----------------------------
(***************************************************************************)
(* axrl/data/global_batch_iterator.py and the tensor-dict helpers of       *)
(* axrl/data/sample.py: the driver groups packed samples into global       *)
(* batches by trajectory, pads each batch to a multiple of the data-       *)
(* parallel size and deals its rows to the ranks; outputs come back by     *)
(* index.                                                                  *)
(*                                                                         *)
(* A row is [index, traj, len, paths].  Its tensor columns all move        *)
(* together, so len stands for them; paths is the per-row non-tensor list  *)
(* routing_handles_per_path, <<>> when the row has none.  A padding row    *)
(* has index -1 and trajectory -1.                                         *)
(***************************************************************************)
EXTENDS Integers, Sequences, SequencesExt, FiniteSets, FiniteSetsExt

Padding == -1
IsReal(row) == row.index # Padding
\* _tensorize_sample_batch: a sample's index is its position.
Tensorize(samples) ==
    [i \in DOMAIN samples |-> [index |-> i - 1, traj |-> samples[i].traj,
                               len |-> samples[i].len, paths |-> samples[i].paths]]

\* Positions in ascending order.
InOrder(S) ==
    [k \in 1..Cardinality(S) |-> CHOOSE i \in S : Cardinality({j \in S : j <= i}) = k]

HasHandles(batch) == \E i \in DOMAIN batch : batch[i].paths # <<>>

\* select_sample_tensor_dict_rows
SelectRows(batch, positions) == [j \in DOMAIN positions |-> batch[positions[j]]]

\* Forward-only callers may pass samples that no trajectory groups; each is
\* then its own trajectory.
Trajectories(rows) ==
    IF \A i \in DOMAIN rows : rows[i].traj = -1 THEN [i \in DOMAIN rows |-> i - 1]
    ELSE [i \in DOMAIN rows |-> rows[i].traj]

NumTrajectories(trajs) == Max({trajs[i] : i \in DOMAIN trajs}) + 1

\* assert_trajectory_count_divisible
TrajectoryCountDivisible(rows, gbs) ==
    /\ \A i \in DOMAIN rows : rows[i].traj >= 0
    /\ NumTrajectories(Trajectories(rows)) % gbs = 0

\* The asserts of _group_row_indices_by_global_batch.
Groupable(trajs) == {trajs[i] : i \in DOMAIN trajs} = 0..(NumTrajectories(trajs) - 1)

\* Slip: rows are cut into batches by position, not by trajectory.
GroupRowsByPosition(trajs, gbs) ==
    [b \in 1..((Len(trajs) + gbs - 1) \div gbs) |->
        InOrder({i \in DOMAIN trajs : (i - 1) \div gbs = b - 1})]

\* Positions of the rows of each global batch; the last batch may hold fewer
\* trajectories.
GroupRowIndicesByGlobalBatch(trajs, gbs) ==
    [b \in 1..((NumTrajectories(trajs) + gbs - 1) \div gbs) |->
        InOrder({i \in DOMAIN trajs : trajs[i] \div gbs = b - 1})]

\* _make_padding_tensor_dict: zero-loss rows that carry the shared padding
\* handle when the batch carries handles.
PaddingRows(batch, count, padLen, padHandle) ==
    [j \in 1..count |-> [index |-> Padding, traj |-> -1, len |-> padLen,
                         paths |-> IF HasHandles(batch) THEN <<<<padHandle>>>> ELSE <<>>]]

PadToDpMultiple(batch, dp, padLen, padHandle) ==
    IF Len(batch) % dp = 0 THEN batch
    ELSE batch \o PaddingRows(batch, dp - (Len(batch) % dp), padLen, padHandle)

\* perm[dp_rank::dp_size] for a rank counted from 0.
RoundRobin(perm, dp, rank) ==
    [j \in 1..((Len(perm) - rank + dp - 1) \div dp) |-> perm[rank + 1 + (j - 1) * dp]]

\* build_global_batches_for_dp_rank.  perms[b] is the permutation drawn for
\* batch b; every rank draws the same one, from the same seed.
GlobalBatchesForDpRank(rows, gbs, dp, rank, perms, padLen, padHandle) ==
    LET grouped == GroupRowIndicesByGlobalBatch(Trajectories(rows), gbs)
    IN  [b \in DOMAIN grouped |->
            LET batch == PadToDpMultiple(SelectRows(rows, grouped[b]), dp, padLen, padHandle)
            IN  SelectRows(batch, RoundRobin(perms[b], dp, rank))]

\* The sizes of the padded batches, for which permutations are drawn.
PaddedSizes(rows, gbs, dp) ==
    LET grouped == GroupRowIndicesByGlobalBatch(Trajectories(rows), gbs)
    IN  [b \in DOMAIN grouped |-> ((Len(grouped[b]) + dp - 1) \div dp) * dp]

\* traj_key_of: the last handle of the last path names a packed sample.
\* Slip: the first handle of the first path does.
TrajKeyOfFirst(paths) == Head(Head(paths))
TrajKeyOf(paths) == Last(Last(paths))

\* collect_unique_handles_from_sample_tensor_dict, without its order.
UniqueHandles(batch) ==
    UNION {UNION {ToSet(batch[i].paths[p]) : p \in DOMAIN batch[i].paths} : i \in DOMAIN batch}

\* _merge_tensor_outputs: outputs are [index, value] rows; padding is dropped
\* and every sample has exactly one value, or an assert fails.
RealOutputs(outputs) == {j \in DOMAIN outputs : IsReal(outputs[j])}
MergeOutputs(outputs) ==
    [i \in {outputs[j].index : j \in RealOutputs(outputs)} |->
        outputs[CHOOSE j \in RealOutputs(outputs) : outputs[j].index = i].value]

Mergeable(outputs, n) ==
    /\ {outputs[j].index : j \in RealOutputs(outputs)} = 0..(n - 1)
    /\ Cardinality(RealOutputs(outputs)) = n
===========================================================================
