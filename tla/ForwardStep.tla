----------------------------- MODULE ForwardStep ----------------------------
(***************************************************************************)
(* One training step of a model-parallel group, micro-batch by             *)
(* micro-batch: forward_step of the trainers, the forward functions        *)
(* gptmodel_forward, magi_merged_gptmodel_forward and                      *)
(* magi_flat_gptmodel_forward, the recompute in backward, and the          *)
(* accumulation of the loss.                                               *)
(*                                                                         *)
(* A case is what the step is given:                                       *)
(*   fn        "packed", "merged", "flat", or "gdn" (merged on a gated     *)
(*             delta net, whose context-parallel layout is Megatron's)     *)
(*   tp, cp    sizes of the tensor- and context-parallel groups            *)
(*   model     [moe, pps, vpps]: its layers and pipeline stages            *)
(*   recorded  how many layers the rollout recorded routing for            *)
(*   scattered whether embeddings are scattered for sequence parallelism   *)
(*   rows      the token records of every row (PolicyLoss)                 *)
(*   paths     for merged rows, the paths of every trajectory              *)
(*   c         the trainer's configuration                                 *)
(*   values, score   the critic's values and the rewards (PPO)             *)
(* The forward of a later micro-batch may run before the backward of an    *)
(* earlier one; each of the two may be cut short by an exception.          *)
(***************************************************************************)
EXTENDS PackedSeqs, PolicyLoss

CONSTANTS
    Cases,
    MaxInFlight,    \* micro-batches forwarded and not yet backwarded
    MaxPads         \* zero-loss rows that pad a micro-batch

VARIABLES
    case,
    next,       \* the first row that is in no micro-batch yet
    mbs,        \* the micro-batches so far
    current,    \* the ContextVar _current: a micro-batch or 0
    running,    \* [step, mb]: what the group is computing
    back,       \* micro-batches whose backward is done
    acc,        \* what Megatron accumulated: [num, div] per trained token, and the denominator
    returns

vars == <<case, next, mbs, current, running, back, acc, returns>>

PT == INSTANCE PrefixTree WITH Align <- Block

Idle == [step |-> "idle", mb |-> 0]
Magi == case.fn # "packed"

---------------------------------------------------------------------------
(* The layout of a micro-batch of rows lo..hi. *)

Cell(i, t) == [row |-> i, pos |-> t]
Filler == Cell(0, 0)

\* _build_single_path_merge_info: a row is a tree of one node.
SinglePathInfo(i) ==
    [nodes |-> <<[start |-> 0, end |-> RoundUp(Len(case.rows[i]), Lcm(case.tp * case.cp, Block)), parent |-> 0]>>,
     leaf |-> <<1>>,
     real |-> Len(case.rows[i])]

\* build_prefix_merge_info: the tree of a trajectory's paths.
TreeInfo(i) ==
    LET tree == PT!PackTreeAligned(case.paths[i])
    IN [nodes |-> tree.nodes, leaf |-> tree.leaf, real |-> Len(PT!BuildTreePackedSequence(case.paths[i]).packed)]

\* magi_merged_gptmodel_forward takes the tree of the sample,
\* magi_flat_gptmodel_forward makes one per row.
MergeInfo(i) == IF case.fn \in {"packed", "flat"} THEN SinglePathInfo(i) ELSE TreeInfo(i)
PaddedTotal(info) == Last(info.nodes).end

\* compute_max_path_length.
MaxPathLen(info) ==
    Max({FoldLeft(LAMBDA n, x : n + info.nodes[x].end - info.nodes[x].start, 0,
                  PT!Chain(info.nodes, info.leaf[p])) : p \in DOMAIN info.leaf})

\* Slip: parents keep their index in their own tree.
MergePrefixMergeInfosUnshifted(infos) ==
    LET pos(i) == FoldLeft(+, 0, [j \in 1..(i - 1) |-> PaddedTotal(infos[j])])
        shift(i, nd) == [start |-> nd.start + pos(i), end |-> nd.end + pos(i), parent |-> nd.parent]
        moved(i, S) == {x + pos(i) : x \in S}
    IN [nodes |-> FoldLeftDomain(LAMBDA acc0, i :
                      acc0 \o [n \in DOMAIN infos[i].nodes |-> shift(i, infos[i].nodes[n])], <<>>, infos),
        ranges |-> UNION {{[r EXCEPT !.q = moved(i, @), !.k = moved(i, @)] :
                              r \in PT!Ranges(infos[i].nodes)} : i \in DOMAIN infos},
        max_path_len |-> Max({MaxPathLen(infos[i]) : i \in DOMAIN infos})]

\* merge_prefix_merge_infos: a forest; nodes, parents and ranges are shifted by
\* what comes before.
MergePrefixMergeInfos(infos) ==
    LET pos(i) == FoldLeft(+, 0, [j \in 1..(i - 1) |-> PaddedTotal(infos[j])])
        before(i) == FoldLeft(+, 0, [j \in 1..(i - 1) |-> Len(infos[j].nodes)])
        shift(i, nd) == [start |-> nd.start + pos(i), end |-> nd.end + pos(i),
                         parent |-> IF nd.parent = 0 THEN 0 ELSE nd.parent + before(i)]
        moved(i, S) == {x + pos(i) : x \in S}
    IN [nodes |-> FoldLeftDomain(LAMBDA acc0, i :
                      acc0 \o [n \in DOMAIN infos[i].nodes |-> shift(i, infos[i].nodes[n])], <<>>, infos),
        ranges |-> UNION {{[r EXCEPT !.q = moved(i, @), !.k = moved(i, @)] :
                              r \in PT!Ranges(infos[i].nodes)} : i \in DOMAIN infos},
        max_path_len |-> Max({MaxPathLen(infos[i]) : i \in DOMAIN infos})]

\* magi_attn_flex_key or _build_megatron_cp_magi_key.
Keys(lens) ==
    CASE case.fn = "packed" -> {[chunk |-> 0, parts |-> <<>>]}
      [] case.fn = "gdn" /\ PartitionAsserts(lens, case.cp) -> {BuildMegatronCpPartitions(lens, case.cp)}
      [] case.fn = "gdn" /\ ~PartitionAsserts(lens, case.cp) -> {}
      [] OTHER -> FlexKeys(lens, case.cp)

\* A micro-batch in batch layout: its merge infos, the tokens (and labels) of its
\* rows, the padded length of each row, and the forest the model is called with.
MicroBatch(lo, hi, pads, infos, lens, key) ==
    [lo |-> lo, hi |-> hi, pads |-> pads, infos |-> infos, lens |-> lens, key |-> key,
     rows |-> [k \in DOMAIN lens |->
                 [t \in 1..(IF Magi THEN infos[k].real ELSE lens[k]) |-> Cell(lo + k - 1, t)]],
     fused |-> IF Magi THEN MergePrefixMergeInfos(infos) ELSE [nodes |-> <<>>],
     ctx |-> 0, out |-> <<>>]

\* The routing recorded for the rows, one entry short of their tokens.
Routing(mb) ==
    [k \in DOMAIN mb.rows |-> ExpandRoutedExperts(Front(mb.rows[k]), Len(mb.rows[k]), Filler)]

\* What context-parallel rank r gets of a tensor given in batch layout.
Local(x, mb, r) ==
    IF Magi THEN Dispatch(PackRows(x, mb.lens, Filler), mb.key, r)
    ELSE PreprocessPackedSeqs(x, case.tp, case.cp, r, Filler)

\* Hidden states are cut over the tensor-parallel group, unless a gated delta
\* net keeps them whole (_uses_gdn_without_embedding_sequence_parallel).
Shard(x, tpRank) ==
    IF case.fn = "gdn" /\ ~case.scattered THEN x
    ELSE ScatterToSequenceParallel(x, case.tp, tpRank)

\* compute_tree_rel_positions, dispatched: the RoPE patch reads them by place.
LocalPositions(mb, r) ==
    Dispatch([q \in 0..(Total(mb.lens) - 1) |-> PT!RelPosition(mb.fused.nodes, q + 1)], mb.key, r)

\* _magi_attention_forward: the tokens that the token at a place of rank r attends
\* to, by the fused ranges and the key.
LocalAttention(mb, r) ==
    LET sees(w) == UNION {{x \in s.k : s.causal => x <= w} : s \in {x \in mb.fused.ranges : w \in x.q}}
        packed == PackRows(mb.rows, mb.lens, Filler)
    IN Dispatch([q \in 0..(Total(mb.lens) - 1) |-> {packed[x - 1] : x \in sees(q + 1)}], mb.key, r)

\* The outputs in batch layout: for every cell the token, label and position it
\* was computed from (_unpack_packed_to_batch or postprocess_packed_seqs).
LocalOutputs(mb, r) ==
    LET toks == Local(mb.rows, mb, r)
        poss == IF Magi THEN LocalPositions(mb, r) ELSE [p \in DOMAIN toks |-> 0]
        sees == IF Magi THEN LocalAttention(mb, r) ELSE [p \in DOMAIN toks |-> {}]
    IN [p \in DOMAIN toks |-> [tok |-> toks[p], pos |-> poss[p], sees |-> sees[p]]]
Outputs(mb) ==
    LET local == [r \in 0..(case.cp - 1) |-> LocalOutputs(mb, r)]
    IN IF Magi THEN UnpackRows(Undispatch(local, mb.key), mb.lens)
       ELSE PostprocessPackedSeqs(local, mb.lens, case.tp, case.cp)

---------------------------------------------------------------------------
(* The loss of a micro-batch. *)

\* Rows are right-padded to one width; padding rows hold nothing that is trained.
Blank == [loss |-> FALSE, adv |-> 0, cur |-> 0, old |-> 0, roll |-> 0, ref |-> 0, turn |-> -1]
Widened(row) ==
    [t \in 1..Max({Len(case.rows[i]) : i \in DOMAIN case.rows}) |->
        IF t \in DOMAIN row THEN row[t] ELSE Blank]
LossRows(lo, hi, pads) ==
    [k \in 1..(hi - lo + 1 + pads) |->
        Widened(IF lo + k - 1 <= hi THEN case.rows[lo + k - 1] ELSE <<>>)]

\* loss_func of the trainer the step runs with.
Share(lo, rows, k, t) ==
    CASE case.c.loss_type = "sft" -> SftShare(rows)
      [] case.c.loss_type = "value" -> ValueShare(rows, k, t, case.values[lo + k - 1][t], returns[lo + k - 1][t])
      [] OTHER -> GrpoShare(case.c, rows, k, t)

\* wrapped_loss_func: the mean loss of a micro-batch times its denominator, and the
\* denominator, are summed over micro-batches.
Accumulate(lo, rows) ==
    LET trained == UNION {{<<k, t>> : t \in Trained(rows[k])} : k \in DOMAIN rows}
    IN [grads |-> {[row |-> lo + x[1] - 1, pos |-> x[2], share |-> Share(lo, rows, x[1], x[2])] : x \in trained},
        denom |-> IF case.c.loss_type \in {"sft", "value"} THEN TokenCount(rows)
                  ELSE MicroBatchDenominator(case.c, rows)]

---------------------------------------------------------------------------
(* Steps. *)

Init ==
    /\ case \in Cases
    /\ next = 1
    /\ mbs = <<>>
    /\ current = 0
    /\ running = Idle
    /\ back = {}
    /\ acc = [grads |-> {}, denom |-> 0]
    /\ returns = <<>>

\* prepare_ppo_training_samples: returns from the frozen critic's values.
PrepareReturns ==
    /\ case.c.loss_type \in {"ppo", "value"} /\ returns = <<>>
    /\ returns' = [i \in DOMAIN case.rows |->
                     LET loss == [t \in DOMAIN case.rows[i] |-> case.rows[i][t].loss]
                     IN ComputeGae(TerminalTokenRewards(case.score[i], loss), case.values[i], loss)]
    /\ UNCHANGED <<case, next, mbs, current, running, back, acc>>

\* forward_step up to the model call: the next rows make a micro-batch, tokens
\* and routing are laid out, the Magi context is set.
BeginForward ==
    /\ running = Idle /\ next <= Len(case.rows)
    /\ case.c.loss_type \in {"ppo", "value"} => returns # <<>>
    /\ Len(mbs) - Cardinality(back) < MaxInFlight
    /\ \E hi \in next..Len(case.rows), pads \in 0..MaxPads :
         \E infos \in {[k \in 1..(hi - next + 1) |-> MergeInfo(next + k - 1)]} :
            \E lens \in {[k \in DOMAIN infos |-> IF Magi THEN PaddedTotal(infos[k]) ELSE infos[k].real]} :
               \E key \in Keys(lens) : mbs' = Append(mbs, MicroBatch(next, hi, pads, infos, lens, key))
         /\ next' = hi + 1
    /\ running' = [step |-> "forward", mb |-> Len(mbs')]
    /\ current' = IF Magi THEN Len(mbs') ELSE 0
    /\ UNCHANGED <<case, back, acc, returns>>

\* Slip: the checkpoint function captures no context.
EndForwardUnsaved ==
    /\ running.step = "forward"
    /\ \E mb \in {mbs[running.mb]} :
         /\ mbs' = [mbs EXCEPT ![running.mb].out = Outputs(mb), ![running.mb].ctx = 0]
         /\ \E sum \in {Accumulate(mb.lo, LossRows(mb.lo, mb.hi, mb.pads))} :
              acc' = [grads |-> acc.grads \cup sum.grads, denom |-> acc.denom + sum.denom]
    /\ current' = 0
    /\ running' = Idle
    /\ UNCHANGED <<case, next, back, returns>>

\* The model returns: the checkpoint functions have captured the context, which
\* is reset; the outputs are unpacked and the loss accumulated.
EndForward ==
    /\ running.step = "forward"
    /\ \E mb \in {mbs[running.mb]} :
         /\ mbs' = [mbs EXCEPT ![running.mb].out = Outputs(mb), ![running.mb].ctx = current]
         /\ \E sum \in {Accumulate(mb.lo, LossRows(mb.lo, mb.hi, mb.pads))} :
              acc' = [grads |-> acc.grads \cup sum.grads, denom |-> acc.denom + sum.denom]
    /\ current' = 0
    /\ running' = Idle
    /\ UNCHANGED <<case, next, back, returns>>

\* The model raises: the context is reset in the finally clause and the step
\* is abandoned.
ForwardRaises ==
    /\ running.step = "forward"
    /\ current' = 0
    /\ running' = [running EXCEPT !.step = "raised"]
    /\ UNCHANGED <<case, next, mbs, back, acc, returns>>

\* Backward of the oldest micro-batch: patched_backward sets the context that its
\* forward had, and the recompute reads it.
BeginBackward ==
    /\ running = Idle /\ Cardinality(back) < Len(mbs)
    /\ \E m \in {Cardinality(back) + 1} :
         /\ running' = [step |-> "backward", mb |-> m]
         /\ current' = mbs[m].ctx
    /\ UNCHANGED <<case, next, mbs, back, acc, returns>>

EndBackward ==
    /\ running.step = "backward"
    /\ back' = back \cup {running.mb}
    /\ current' = 0
    /\ running' = Idle
    /\ UNCHANGED <<case, next, mbs, acc, returns>>

\* An exception in the recompute leaves the context set.
BackwardRaises ==
    /\ running.step = "backward"
    /\ running' = [running EXCEPT !.step = "raised"]
    /\ UNCHANGED <<case, next, mbs, current, back, acc, returns>>

Next ==
    \/ PrepareReturns
    \/ BeginForward \/ EndForward \/ ForwardRaises
    \/ BeginBackward \/ EndBackward \/ BackwardRaises

Spec == Init /\ [][Next]_vars

---------------------------------------------------------------------------
(* Properties. *)

StepDone == next > Len(case.rows) /\ Cardinality(back) = Len(mbs)

\* Every output a loss reads was computed from its own token.  Under Magi the
\* token also had the position it has in its own tree, within the RoPE table
\* sized by max_path_len, and attended exactly to what it attends to in its own
\* tree: packing, the context-parallel shards and the fused forest mix up no rows.
OutputsOwn ==
    \A m \in DOMAIN mbs : \A k \in DOMAIN mbs[m].out : \A t \in DOMAIN mbs[m].rows[k] :
        LET mb == mbs[m]
            i == mb.lo + k - 1
        IN /\ mb.out[k][t].tok = Cell(i, t)
           /\ Magi => /\ mb.out[k][t].pos = PT!RelPosition(mb.infos[k].nodes, t)
                      /\ mb.out[k][t].pos <= mb.fused.max_path_len
                      /\ mb.out[k][t].sees = {Cell(i, x) : x \in PT!Sees(mb.infos[k].nodes, t)}

\* While the model runs, every router of every rank and pipeline stage replays, at
\* the place of each token, the routing recorded for that token in the router's own
\* layer; a row's last token and padding replay the filler.  A gated delta net's
\* ranks hold the tokens Megatron's context-parallel kernels expect of them.
RoutingAligned ==
    running.step = "forward" =>
        LET mb == mbs[running.mb]
            m == case.model
            lasts == {Last(mb.rows[k]) : k \in DOMAIN mb.rows}
        IN /\ \A r \in 0..(case.cp - 1), s \in 0..(case.tp - 1) :
                \E hidden \in {Shard(Local(mb.rows, mb, r), s)},
                   replay \in {Shard(Local(Routing(mb), mb, r), s)} :
                    /\ DOMAIN hidden = DOMAIN replay
                    /\ \A p \in DOMAIN hidden : replay[p] = IF hidden[p] \in lasts THEN Filler ELSE hidden[p]
           /\ \A pp \in 0..(m.pps - 1), vp \in 0..(m.vpps - 1) :
                \E routers \in {MicroBatchRouterList(m, pp, vp)},
                   layers \in {LocalReplayLayers(m, pp, vp, case.recorded)} :
                    /\ Len(routers) = Len(layers)
                    /\ \A k \in DOMAIN routers : RecordedLayer(m, case.recorded, layers[k]) = routers[k]
           /\ case.fn = "gdn" =>
                \A r \in 0..(case.cp - 1) :
                   \E local \in {[i \in DOMAIN mb.lens |-> mb.lens[i] \div case.cp]},
                      held \in {Dispatch([q \in 0..(Total(mb.lens) - 1) |-> q], mb.key, r)} :
                      \A p \in DOMAIN held :
                        \E i \in {RowAt(local, p)} :
                           held[p] = SumTo(mb.lens, i - 1)
                                     + RowOffset(mb.lens[i], case.cp, r, p - SumTo(local, i - 1))

\* The attention, RoPE and recompute of a micro-batch read the context of that
\* micro-batch, also when forwards of others came in between, and none is left
\* behind between them.
ContextOwn ==
    /\ running.step \in {"forward", "backward"} => current = IF Magi THEN running.mb ELSE 0
    /\ running.step = "idle" => current = 0

\* The gradient a token gets in the update is the same however the rows were split
\* into micro-batches, where the denominator counts what the loss is a mean of and
\* the student is not scaled to the teacher, which the code does by the means of
\* a micro-batch; and padding rows and columns change it under no configuration.
UpdateIndependent ==
    StepDone =>
        LET matched == \/ case.c.loss_type \in {"sft", "value"}
                       \/ /\ <<case.c.agg, case.c.denom>> \in {<<"token-mean", "token">>, <<"seq-mean-token-mean", "sequence">>}
                          /\ case.c.opd = "off" \/ ~case.c.opd_scale
            batches == IF matched THEN <<[lo |-> 1, hi |-> Len(case.rows)]>> ELSE mbs
        IN \E ref \in {[m \in DOMAIN batches |->
                           Accumulate(batches[m].lo, LossRows(batches[m].lo, batches[m].hi, 0))]} :
              LET refDenom == FoldLeft(LAMBDA sum, a : sum + a.denom, 0, ref)
              IN \A g \in acc.grads : \E h \in UNION {ref[m].grads : m \in DOMAIN ref} :
                    /\ h.row = g.row /\ h.pos = g.pos
                    /\ g.share.coef * g.share.denom * h.share.div * refDenom
                         = h.share.coef * h.share.denom * g.share.div * acc.denom

\* With gamma and lambda 1 a token earns the score of the rollout if its run of trained
\* tokens is the row's last, and else 0: the score reaches no turn but the last.
Earned(i, t) ==
    LET trained == Trained(case.rows[i])
    IN IF t..Max(trained) \subseteq trained THEN case.score[i] ELSE 0

\* No update pushes a token farther from the base policy once its ratio has left
\* the clip range in the direction of its advantage (losses that clip softly only
\* keep the sign), and a token the mismatch filters reject keeps its KL pull and
\* nothing else.  The critic is pulled to what a token earned (compute_gae), whatever it
\* predicts elsewhere in the row, and no longer once its prediction is value_clip past
\* its old value on the way there.
TrustRegion ==
    \A g \in acc.grads :
        LET c == case.c
            mb == mbs[CHOOSE m \in DOMAIN mbs : g.row \in mbs[m].lo..mbs[m].hi]
            row == WithOpd(c, LossRows(mb.lo, mb.hi, mb.pads), Widened(case.rows[g.row]))
            a == row[g.pos].adv
            coef == g.share.coef
            lrs == [t \in DOMAIN row |-> row[t].cur - BaseLogprob(c, row[t])]
            ratio == IF c.loss_type = "gspo" THEN SeqSum(row, lrs) ELSE lrs[g.pos]
            n == IF c.loss_type = "gspo" THEN SeqLen(row) ELSE 1
            kl == 2 * c.kl * KlCoef(c, row[g.pos]) * Unit * Unit
            hard == c.loss_type \notin {"tis", "topr"}
            v == row[g.pos].cur
            old == case.values[g.row][g.pos]
            ret == Earned(g.row, g.pos)
        IN /\ returns = <<>> \/ returns[g.row][g.pos] = ret
           /\ CASE c.loss_type = "sft" -> coef < 0
                [] c.loss_type = "value" ->
                     /\ coef * (v - ret) >= 0
                     /\ (v > old + 1 /\ ret > v) \/ (v < old - 1 /\ ret < v) => coef = 0
                [] OTHER ->
                     /\ (coef - kl) * a <= 0
                     /\ ~SeqKeeps(c, row) \/ ~IcepopKeeps(c, row, g.pos) => coef = kl
                     /\ (hard /\ ((a > 0 /\ ratio > c.clip_high * n) \/ (a < 0 /\ ratio < c.clip_low * n)))
                           => coef = kl
=============================================================================
