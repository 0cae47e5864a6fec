---------------------------- MODULE RolloutTrace ----------------------------
(***************************************************************************)
(* The recorder of one rollout (axrl/data/rollout_trace.py and             *)
(* token_trace.py): the live prompt as typed chunks of tokens, the routing *)
(* rows captured for it, and one immutable sample per assistant turn.      *)
(* A white-box environment appends tool results and compacts old ones; a   *)
(* black-box runtime sends every prompt afresh.  At the end the turns are  *)
(* packed into training samples (PrefixTree).                              *)
(*                                                                         *)
(* A routing row is represented by what it was computed from: the tokens   *)
(* up to its own.  Row i is valid for a prompt exactly if it is the        *)
(* prompt's first i tokens.  The text of messages, log-probabilities and   *)
(* rewards travel with the tokens and are left out.                        *)
(***************************************************************************)
EXTENDS PrefixTree

CONSTANTS
    Prompts,        \* seeds, fresh prompts and summaries
    Results,        \* tokens of one tool result or user message
    Outputs,        \* tokens of one generation
    Placeholder,    \* placeholder_tokens
    Boundary,       \* assistant_boundary_token_id
    MaxLength,      \* max_length
    MaxPacks,       \* values of max_pack_length
    MaxTurns,       \* bound: assistant turns
    MaxResults,     \* bound: results and user messages in the live prompt
    MaxCompactions  \* bound: compactions and fresh prompts

ASSUME TraceAssumption ==
    /\ \A p \in Prompts : p # <<>> /\ Len(p) <= MaxLength
    /\ \A m \in MaxPacks : m > 0 /\ m % Align = 0

VARIABLES
    blackbox,       \* the environment sends full prompts
    replay,         \* enable_routing_replay of the rollout worker
    capture,        \* gen_state.capture_routing
    token_infos,    \* the chunks: [type, tokens, compacted]
    handles,        \* routing handles: [chunk, rows]
    captured,       \* gen_state.captured_routing_rows
    turn_samples,   \* [ids, start, rows, routed], see PrefixTree
    rewrites,       \* compactions and fresh prompts so far
    status,         \* "live", "packed", "flat", "rejected" or "raised"
    packed          \* the export: [max_pack, samples]

vars == <<blackbox, replay, capture, token_infos, handles, captured, turn_samples, rewrites, status, packed>>

---------------------------------------------------------------------------
(* TokenTrace. *)

Chunk(type, tokens) == [type |-> type, tokens |-> tokens, compacted |-> FALSE]
TokenIds(infos) == FlattenSeq([i \in DOMAIN infos |-> infos[i].tokens])
RoutingRows(hs) == FlattenSeq([i \in DOMAIN hs |-> hs[i].rows])

Live == TokenIds(token_infos)

\* The rows the engine computes for a sequence, from row `from` + 1 on.
RowsFrom(ids, from) == [i \in 1..(Len(ids) - 1 - from) |-> SubSeq(ids, 1, from + i)]

\* TokenTrace.to_last_turn_sample: only the last chunk is trained on.
ToLastTurnSample(infos, hs) ==
    [ids |-> TokenIds(infos),
     start |-> Len(TokenIds(infos)) - Len(Last(infos).tokens),
     rows |-> RoutingRows(hs),
     routed |-> hs # <<>>]

\* _append_assistant_boundary_if_needed: one token, unless the output ends
\* with it or there is no room.
BoundaryChunk(ids, output) ==
    IF (output = <<>> \/ Last(output) # Boundary) /\ Len(ids) + 1 <= MaxLength
      THEN <<Chunk("assistant_boundary", <<Boundary>>)>>
      ELSE <<>>

\* The first `rows` rows of the handles.  A handle of a chunk before `stale` is
\* kept whole while it fits; the next one is cut and the rest dropped.
RoutingPrefix(hs, rows, stale) ==
    LET keep(acc, h) ==
            LET left == rows - Len(RoutingRows(acc.kept))
                whole == h.chunk < stale /\ Len(h.rows) <= left
                full == acc.done \/ left <= 0
            IN CASE full -> [acc EXCEPT !.done = TRUE]
                 [] whole /\ ~full -> [acc EXCEPT !.kept = Append(@, h)]
                 [] OTHER -> [kept |-> IF h.rows = <<>> THEN acc.kept
                                       ELSE Append(acc.kept,
                                              [chunk |-> Max({1, stale - 1}),
                                               rows |-> SubSeq(h.rows, 1, Min({left, Len(h.rows)}))]),
                              done |-> TRUE]
    IN FoldLeft(keep, [kept |-> <<>>, done |-> FALSE], hs).kept

---------------------------------------------------------------------------
(* The operations of RolloutTrace. *)

Init ==
    /\ blackbox \in BOOLEAN
    /\ replay \in BOOLEAN
    /\ capture = replay
    /\ token_infos \in {<<Chunk("init", p)>> : p \in Prompts}
    /\ handles = <<>>
    /\ captured = 0
    /\ turn_samples = <<>>
    /\ rewrites = 0
    /\ status = "live"
    /\ packed = [max_pack |-> 0, samples |-> <<>>]

\* A generation follows a prompt.
AwaitsGeneration == Last(token_infos).type \in {"init", "tool_result", "user"}

\* append_assistant_message: an engine that replays routing has, if it was asked
\* to, computed the rows from gen_state.captured_routing_rows on; the turn's sample is taken before the
\* boundary token is appended.
AppendAssistantMessage(output) ==
    LET infos == Append(token_infos, Chunk("assistant", output))
        ids == Live \o output
        hs == IF replay /\ capture
                THEN Append(handles, [chunk |-> Len(infos), rows |-> RowsFrom(ids, captured)])
                ELSE handles
    IN /\ status = "live"
       /\ AwaitsGeneration
       /\ Len(turn_samples) < MaxTurns
       /\ Len(ids) <= MaxLength
       /\ token_infos' = infos \o BoundaryChunk(ids, output)
       /\ handles' = hs
       /\ turn_samples' = Append(turn_samples, ToLastTurnSample(infos, hs))
       /\ captured' = IF capture THEN Len(RoutingRows(hs)) ELSE captured
       /\ UNCHANGED <<blackbox, replay, capture, rewrites, status, packed>>

\* append_user_or_tool_message.
AppendUserOrToolMessage(type, tokens) ==
    /\ status = "live"
    /\ ~blackbox
    /\ turn_samples # <<>>
    /\ Cardinality({i \in DOMAIN token_infos : token_infos[i].type \in {"tool_result", "user"}})
         < MaxResults
    /\ Len(Live) + Len(tokens) <= MaxLength
    /\ token_infos' = Append(token_infos, Chunk(type, tokens))
    /\ UNCHANGED <<blackbox, replay, capture, handles, captured, turn_samples, rewrites, status, packed>>

Uncompacted(infos) ==
    {i \in DOMAIN infos : infos[i].type = "tool_result" /\ ~infos[i].compacted}

\* Slip: the rewritten chunk's rows are kept too.
RowsThrough(infos, earliest) == Len(TokenIds(SubSeq(infos, 1, earliest)))

\* _invalidate_stale_r3_handles: the rows of the chunks before the first
\* rewritten one stay valid.
RowsBefore(infos, earliest) == Len(TokenIds(SubSeq(infos, 1, earliest - 1)))

\* compact with max_recent_tool_results: the oldest tool results become
\* placeholders.  The assertion at the end wants a strictly shorter prompt.
Compact(max_recent) ==
    LET open == Uncompacted(token_infos)
        masked == {i \in open : Cardinality({j \in open : j > i}) >= max_recent}
        earliest == Min(masked)
        infos == [i \in DOMAIN token_infos |->
                    IF i \in masked
                      THEN [token_infos[i] EXCEPT !.tokens = Placeholder, !.compacted = TRUE]
                      ELSE token_infos[i]]
        hs == RoutingPrefix(handles, Min({RowsBefore(token_infos, earliest), captured}), earliest)
    IN /\ status = "live"
       /\ ~blackbox
       /\ rewrites < MaxCompactions
       /\ masked # {}
       /\ Len(TokenIds(infos)) < MaxLength
       /\ token_infos' = infos
       /\ IF capture
            THEN handles' = hs /\ captured' = Len(RoutingRows(hs))
            ELSE UNCHANGED <<handles, captured>>
       /\ rewrites' = rewrites + 1
       /\ UNCHANGED <<blackbox, replay, capture, turn_samples, status, packed>>

\* compact with conv_with_summary: later turns branch from the summary, and the
\* environment's conversation says whether they capture routing.
CompactToSummary(summary) ==
    /\ status = "live"
    /\ ~blackbox
    /\ turn_samples # <<>>
    /\ rewrites < MaxCompactions
    /\ token_infos' = <<Chunk("init", summary)>>
    /\ handles' = <<>>
    /\ captured' = 0
    /\ capture' \in BOOLEAN
    /\ rewrites' = rewrites + 1
    /\ UNCHANGED <<blackbox, replay, turn_samples, status, packed>>

\* _common_prefix_len of the live prompt and a fresh one.
SharedPrefix(ids) == CommonPrefixLen(Live, ids)

\* prepare_generation_input: a fresh prompt keeps the rows of the tokens it
\* shares with the live one, but for the last of them.
PrepareGenerationInput(ids) ==
    LET rows == Min({Max({SharedPrefix(ids) - 1, 0}), Len(RoutingRows(handles))})
        kept == RoutingPrefix(handles, rows, Len(token_infos) + 1)
    IN /\ status = "live"
       /\ blackbox
       /\ rewrites < MaxCompactions
       /\ Len(ids) <= MaxLength
       /\ token_infos' = <<Chunk("init", ids)>>
       /\ handles' = IF capture THEN [i \in DOMAIN kept |-> [kept[i] EXCEPT !.chunk = 1]] ELSE <<>>
       /\ captured' = IF capture THEN rows ELSE 0
       /\ rewrites' = rewrites + 1
       /\ UNCHANGED <<blackbox, replay, capture, turn_samples, status, packed>>

\* A merged sample as it is exported.
Exported(group) == [group |-> group, merged |-> Merge(group)]

\* Packing reads turn_samples only, so it is enough to pack right after they
\* change.
JustAppended == Last(token_infos).type \in {"assistant", "assistant_boundary"}

\* RolloutTracePackRequest takes the turns along and nothing else.
DropLive ==
    /\ token_infos' = <<>>
    /\ handles' = <<>>
    /\ captured' = 0
    /\ rewrites' = 0
    /\ UNCHANGED <<blackbox, replay, capture, turn_samples>>

\* to_packed_samples and _pad_sample_to (sample.py).  A turn that does not fit is
\* a ValueError; the merge fails an assertion on a slot that two turns train and
\* on turns only some of which were captured.
ToPackedSamples(max_pack_length) ==
    LET groups == PackedGroups(turn_samples, max_pack_length)
        samples == [g \in DOMAIN groups |-> Exported(groups[g])]
        too_long == \E i \in DOMAIN turn_samples : Len(turn_samples[i].ids) > max_pack_length
        outcome == CASE too_long -> "rejected"
                     [] ~too_long /\ (\E g \in DOMAIN groups : samples[g].merged.raises) -> "raised"
                     [] OTHER -> "packed"
    IN /\ status = "live"
       /\ JustAppended
       /\ status' = outcome
       /\ packed' = IF status' = "packed" THEN [max_pack |-> max_pack_length, samples |-> samples]
                                          ELSE packed
       /\ DropLive

\* _to_flat_single_sample (allow_prefix_sharing = False).
ToFlatSingleSample(max_pack_length) ==
    LET flat == Exported(turn_samples)
        longest == Len(turn_samples[LongestTurn(turn_samples)].ids)
        fits == flat.merged.real_total \in {longest} \cap 1..max_pack_length
        outcome == CASE ~LinearChain(turn_samples) -> "rejected"
                     [] LinearChain(turn_samples) /\ flat.merged.raises -> "raised"
                     [] LinearChain(turn_samples) /\ ~flat.merged.raises /\ ~fits -> "rejected"
                     [] OTHER -> "flat"
    IN /\ status = "live"
       /\ JustAppended
       /\ status' = outcome
       /\ packed' = IF status' = "flat" THEN [max_pack |-> max_pack_length, samples |-> <<flat>>]
                                        ELSE packed
       /\ DropLive

Next ==
    \/ \E o \in Outputs : AppendAssistantMessage(o)
    \/ \E type \in {"tool_result", "user"}, r \in Results : AppendUserOrToolMessage(type, r)
    \/ \E k \in 0..1 : Compact(k)
    \/ \E p \in Prompts : CompactToSummary(p)
    \/ \E p \in Prompts \cup {Live \o r : r \in Results} : PrepareGenerationInput(p)
    \/ \E m \in MaxPacks : ToPackedSamples(m) \/ ToFlatSingleSample(m)

Spec == Init /\ [][Next]_vars

---------------------------------------------------------------------------
(* Properties. *)

Reads(s) == DOMAIN s.ids
PrefixRows(rows, ids) == \A i \in DOMAIN rows : rows[i] = SubSeq(ids, 1, i)

\* Routing rows are never stale: through any sequence of turns, compactions and
\* fresh prompts, every captured row was computed from the tokens that now stand
\* before it (_invalidate_stale_r3_handles, prepare_generation_input), the engine
\* always has a row left to compute, and a finished turn that was captured keeps
\* one row for every token but its last.
RoutingFresh ==
    /\ captured = Len(RoutingRows(handles))
    /\ status = "live" => captured < Len(Live)
    /\ PrefixRows(RoutingRows(handles), Live)
    /\ \A i \in DOMAIN turn_samples :
          LET s == turn_samples[i]
          IN /\ Len(s.rows) = IF s.routed THEN Len(s.ids) - 1 ELSE 0
             /\ PrefixRows(s.rows, s.ids)

\* Two turns generate from the same tokens and begin alike (or a third turn
\* already forks there, where the node of the tree ends).
Collide ==
    \E i, j \in DOMAIN turn_samples : i < j /\ \E r \in 1..(Len(turn_samples[i].ids) - 1) :
        LET a == turn_samples[i]
            b == turn_samples[j]
        IN /\ Trainable(a, r) /\ Trainable(b, r)
           /\ SubSeq(a.ids, 1, r) = SubSeq(b.ids, 1, r)
           /\ a.ids[r + 1] = b.ids[r + 1] \/ Len(turn_samples) > 2

\* Packing loses and repeats nothing (pack_rollout_traces_for_train_batches): in
\* a packed sample every turn reads, at each of its positions, exactly its own
\* prefix and its own position, every token of an output is trained once, with
\* the turn's own label, and nothing else is trained.  The merge fails only where
\* turns collide, which two that leave a prompt differently never do, or where a
\* summary has switched the capture off or on between turns.
TrainedOnce ==
    /\ status = "raised" => Collide \/ PartlyRouted(turn_samples)
    /\ status \in {"packed", "flat"} =>
      /\ FlattenSeq([g \in DOMAIN packed.samples |-> packed.samples[g].group]) = turn_samples
      /\ \A g \in DOMAIN packed.samples :
           LET group == packed.samples[g].group
               m == packed.samples[g].merged
           IN /\ \A p \in DOMAIN group : \A r \in Reads(group[p]) :
                   LET w == m.slots[p][r]
                   IN /\ m.ids[w] = group[p].ids[r]
                      /\ Sees(m.nodes, w) = {m.slots[p][q] : q \in 1..r}
                      /\ RelPosition(m.nodes, w) = r
                      /\ Trainable(group[p], r) => m.label[w] = group[p].ids[r + 1]
              /\ Cardinality(m.loss) =
                   MapThenSumSet(LAMBDA p : Len(group[p].ids) - group[p].start, DOMAIN group)

\* Greedy packing keeps to its bound and wastes nothing (to_packed_samples): each
\* packed sample, alignment padding included, fits max_pack_length, and a new one
\* is begun only for a turn that would really not have fitted into the last.
PackedFits ==
    status = "packed" =>
      /\ \A g \in DOMAIN packed.samples : Len(packed.samples[g].merged.ids) <= packed.max_pack
      /\ \A g \in 1..(Len(packed.samples) - 1) :
           Merge(Append(packed.samples[g].group, packed.samples[g + 1].group[1])).real_total
             > packed.max_pack

\* The routing replayed at a slot from which some turn goes on was computed from
\* that turn's own prefix (gather_merged_routing_per_path), and the routing of no
\* turn of a sample is missing beside that of another.
RoutingSourced ==
    status = "packed" =>
      \A g \in DOMAIN packed.samples :
        LET group == packed.samples[g].group
            m == packed.samples[g].merged
        IN (\E p \in DOMAIN group : group[p].routed) =>
           \A p \in DOMAIN group : \A r \in 1..(Len(group[p].ids) - 1) :
             RoutingRow(m, group, m.slots[p][r]) = SubSeq(group[p].ids, 1, r)

\* Routing replay is exact, from the capture to the packed sample.
RoutingExact == RoutingFresh /\ RoutingSourced

\* Packing is exact: what is trained, and how much of it fits.
PackingExact == TrainedOnce /\ PackedFits
=============================================================================
