----------------------------- MODULE PackedSeqs -----------------------------
(***************************************************************************)
(* The token layout of a forward pass under tensor, context and pipeline   *)
(* parallelism (axrl/utils/megatron/pack_utils.py, magi_forward.py and     *)
(* router_replay.py).  The rows of a micro-batch are packed into one       *)
(* sequence; context parallelism gives each rank two chunks of every row,  *)
(* sequence parallelism cuts what a rank holds over the tensor-parallel    *)
(* group.  Labels, positions and the routing to replay are laid out by the *)
(* same rules on their own, so that every rank finds them at the place of  *)
(* its tokens.                                                             *)
(*                                                                         *)
(* A tensor is a function on 0..(n-1); ranks, layers and stages count from *)
(* 0, the rows of a micro-batch from 1.                                    *)
(***************************************************************************)
EXTENDS Integers, Sequences, FiniteSets, SequencesExt, FiniteSetsExt

CONSTANT
    Block       \* the 128 tokens per rank that FP8 kernels ask for, scaled down

ASSUME BlockAssumption == Block \in Nat \ {0}

---------------------------------------------------------------------------
(* Arithmetic. *)

Gcd(a, b) == Max({d \in 1..Min({a, b}) : a % d = 0 /\ b % d = 0})
Lcm(a, b) == (a * b) \div Gcd(a, b)
RoundUp(n, k) == n + ((-n) % k)
SumTo(lens, i) == FoldLeft(+, 0, SubSeq(lens, 1, i))
Total(lens) == SumTo(lens, Len(lens))

\* The row that holds a position of the packed sequence.
RowAt(lens, q) == CHOOSE i \in DOMAIN lens : SumTo(lens, i - 1) <= q /\ q < SumTo(lens, i)

---------------------------------------------------------------------------
(* preprocess_packed_seqs and postprocess_packed_seqs. *)

AlignSize(tp, cp) == IF cp > 1 THEN tp * cp * 2 ELSE tp

\* seqlens_in_batch_padded: the last row takes the padding of the whole pack.
PaddedLens(lens, tp, cp) ==
    LET padded == [i \in DOMAIN lens |-> RoundUp(lens[i], AlignSize(tp, cp))]
        rest == RoundUp(Total(padded), Lcm(AlignSize(tp, cp), Block * tp * cp)) - Total(padded)
    IN [padded EXCEPT ![Len(lens)] = @ + rest]

\* Where in its row the token at an offset of a rank's part comes from: a chunk
\* of the first half, then the mirrored chunk of the second.
RowOffset(padded, cp, rank, off) ==
    LET half == (padded \div cp) \div 2
    IN IF cp <= 1 THEN off
       ELSE IF off < half THEN half * rank + off
       ELSE padded - half * (rank + 1) + (off - half)

\* What one context-parallel rank gets of the rows.
PreprocessPackedSeqs(rows, tp, cp, rank, pad) ==
    LET lens == [i \in DOMAIN rows |-> Len(rows[i])]
        padded == PaddedLens(lens, tp, cp)
        local == [i \in DOMAIN rows |-> padded[i] \div cp]
        cell(i, off) ==
            LET at == RowOffset(padded[i], cp, rank, off)
            IN IF at < lens[i] THEN rows[i][at + 1] ELSE pad
    IN [p \in 0..(Total(local) - 1) |->
          LET i == RowAt(local, p) IN cell(i, p - SumTo(local, i - 1))]

\* The rows again, from what all ranks computed (all_gather over cp).
PostprocessPackedSeqs(shards, lens, tp, cp) ==
    LET padded == PaddedLens(lens, tp, cp)
        half(i) == (padded[i] \div cp) \div 2
        start(i) == SumTo(padded, i - 1) \div cp
        tmp(i, t) ==
            IF cp <= 1 THEN shards[0][SumTo(padded, i - 1) + t]
            ELSE IF t < half(i) * cp
              THEN shards[t \div half(i)][start(i) + (t % half(i))]
              ELSE LET j == (padded[i] - 1 - t) \div half(i)
                   IN shards[j][start(i) + half(i) + (t - (padded[i] - (j + 1) * half(i)))]
    IN [i \in DOMAIN lens |-> [t \in 1..lens[i] |-> tmp(i, t - 1)]]

\* scatter_to_sequence_parallel_region: contiguous parts over tensor-parallel ranks.
ScatterToSequenceParallel(x, tp, tpRank) ==
    LET n == Cardinality(DOMAIN x) \div tp
    IN [p \in 0..(n - 1) |-> x[tpRank * n + p]]

---------------------------------------------------------------------------
(* Magi: a key gives each context-parallel rank a list of chunks. *)

\* _build_megatron_cp_partitions: the layout of PreprocessPackedSeqs, in chunks.
BuildMegatronCpPartitions(lens, cp) ==
    LET halves == [i \in DOMAIN lens |-> lens[i] \div (2 * cp)]
        chunk == FoldLeft(Gcd, halves[1], halves)
        first(i) == SumTo(lens, i - 1) \div chunk
        per(i) == halves[i] \div chunk
        runs(i, at) == [x \in 1..per(i) |-> at + x - 1]
        of(rank) == FoldLeftDomain(LAMBDA acc, i :
                        acc \o runs(i, first(i) + rank * per(i))
                            \o runs(i, first(i) + (2 * cp - rank - 1) * per(i)),
                        <<>>, lens)
    IN IF cp = 1 THEN [chunk |-> Total(lens), parts |-> [r \in 0..0 |-> <<0>>]]
       ELSE [chunk |-> chunk, parts |-> [r \in 0..(cp - 1) |-> of(r)]]

\* The partition asserts that every row divides into 2 * cp chunks.
PartitionAsserts(lens, cp) == cp = 1 \/ \A i \in DOMAIN lens : lens[i] % (2 * cp) = 0

\* magi_attn_flex_key: Magi's own solver deals the chunks out, the same number
\* to every rank.
FlexKeys(lens, cp) ==
    LET chunk == Gcd(Total(lens) \div cp, Block)
        n == Total(lens) \div chunk
        chunks == 0..(n - 1)
        dealt == {f \in [chunks -> 0..(cp - 1)] :
                    \A r \in 0..(cp - 1) : Cardinality({c \in chunks : f[c] = r}) * cp = n}
    IN {[chunk |-> chunk,
         parts |-> [r \in 0..(cp - 1) |-> SetToSortSeq({c \in chunks : f[c] = r}, <)]] : f \in dealt}

\* dispatch: what a rank holds of a packed tensor; undispatch: the inverse.
Dispatch(x, key, rank) ==
    [p \in 0..(Len(key.parts[rank]) * key.chunk - 1) |->
        x[key.parts[rank][p \div key.chunk + 1] * key.chunk + (p % key.chunk)]]
Undispatch(shards, key) ==
    LET home(c) == CHOOSE r \in DOMAIN key.parts : \E k \in DOMAIN key.parts[r] : key.parts[r][k] = c
        slot(c) == (CHOOSE k \in DOMAIN key.parts[home(c)] : key.parts[home(c)][k] = c) - 1
        n == FoldLeft(+, 0, [r \in 1..Cardinality(DOMAIN key.parts) |-> Len(key.parts[r - 1])]) * key.chunk
    IN [q \in 0..(n - 1) |->
          shards[home(q \div key.chunk)][slot(q \div key.chunk) * key.chunk + (q % key.chunk)]]

\* _pack_rows_by_merge_info and _unpack_packed_to_batch.
PackRows(rows, padded, pad) ==
    [q \in 0..(Total(padded) - 1) |->
        LET i == RowAt(padded, q)
            t == q - SumTo(padded, i - 1)
        IN IF t < Len(rows[i]) THEN rows[i][t + 1] ELSE pad]
UnpackRows(x, padded) ==
    [i \in DOMAIN padded |-> [t \in 1..padded[i] |-> x[SumTo(padded, i - 1) + t - 1]]]

---------------------------------------------------------------------------
(* Which routers a stage has and which routing they replay.  A model has    *)
(* layers moe[0..n-1]; the stage (pp, vp) of pps x vpps builds one chunk.   *)

\* get_num_layers_to_build and get_transformer_layer_offset (Megatron).
LayersPerStage(m) == Cardinality(DOMAIN m.moe) \div (m.pps * m.vpps)
LayerInfo(m, pp, vp) ==
    [start |-> (vp * m.pps + pp) * LayersPerStage(m),
     end |-> (vp * m.pps + pp + 1) * LayersPerStage(m)]

MoeLayers(m, lo, hi) == SetToSortSeq({l \in lo..(hi - 1) : m.moe[l]}, <)
MoeNumLayersToBuild(m, pp, vp) ==
    Len(MoeLayers(m, LayerInfo(m, pp, vp).start, LayerInfo(m, pp, vp).end))

\* RouterReplay.global_router_replay_instances of a pipeline rank, named by
\* layer: one per MoE layer it builds, chunk after chunk.
RouterInstances(m, pp) ==
    FoldLeft(LAMBDA acc, vp : acc \o MoeLayers(m, LayerInfo(m, pp, vp - 1).start, LayerInfo(m, pp, vp - 1).end),
             <<>>, [v \in 1..m.vpps |-> v])

\* get_micro_batch_router_list.
MicroBatchRouterList(m, pp, vp) ==
    LET offset == SumTo([v \in 1..m.vpps |-> MoeNumLayersToBuild(m, pp, v - 1)], vp)
    IN SubSeq(RouterInstances(m, pp), offset + 1, offset + MoeNumLayersToBuild(m, pp, vp))

\* Slip: routing of MoE layers only is counted from the stage's first layer.
LocalReplayLayersFromZero(m, pp, vp, recorded) ==
    LET info == LayerInfo(m, pp, vp)
        local == MoeLayers(m, info.start, info.end)
    IN [k \in DOMAIN local |->
          IF recorded = Cardinality(DOMAIN m.moe) THEN local[k] ELSE k - 1]

\* select_local_router_replay_tensors: the index of the recorded layer each local
\* router replays; rollouts record all layers or the MoE layers only.
LocalReplayLayers(m, pp, vp, recorded) ==
    LET info == LayerInfo(m, pp, vp)
        local == MoeLayers(m, info.start, info.end)
    IN [k \in DOMAIN local |->
          IF recorded = Cardinality(DOMAIN m.moe) THEN local[k]
          ELSE Len(MoeLayers(m, 0, info.start)) + k - 1]

\* The layer a recorded index stands for.
RecordedLayer(m, recorded, index) ==
    IF recorded = Cardinality(DOMAIN m.moe) THEN index
    ELSE MoeLayers(m, 0, Cardinality(DOMAIN m.moe))[index + 1]

\* expand_routed_experts_to_token_positions: one entry per token but the last.
ExpandRoutedExperts(entries, len, filler) ==
    [t \in 1..len |-> IF t < len THEN entries[t] ELSE filler]
=============================================================================
