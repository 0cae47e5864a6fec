----------------------------- MODULE PrefixTree -----------------------------
(***************************************************************************)
(* Merging the turns of one rollout into training samples                  *)
(* (axrl/utils/megatron/prefix_tree.py).  Every assistant turn is a path:  *)
(* the tokens of its prompt and of its output.  Paths that share a prefix  *)
(* share its slots in a packed sequence, which is laid out as the          *)
(* depth-first order of a label-aware trie; attention ranges, positions,   *)
(* labels and routing rows are computed on that layout.                    *)
(*                                                                         *)
(* Slots, reads, nodes and paths are counted from 1; 0 is "no parent".     *)
(* A turn sample is [ids, start, rows, routed]: its tokens, how many of    *)
(* them come before the turn's own output, its routing rows (one per token *)
(* but the last) and whether it has any handle to routing rows.            *)
(* Log-probabilities, advantages and rewards are copied along with the     *)
(* label and left out.                                                     *)
(***************************************************************************)
EXTENDS Integers, Sequences, FiniteSets, SequencesExt, FiniteSetsExt

CONSTANT
    Align       \* lcm(align_size, 128), scaled down

ASSUME AlignAssumption == Align \in Nat \ {0}

---------------------------------------------------------------------------
(* The trie. *)

Node(tokens, children, owners) == [tokens |-> tokens, children |-> children, owners |-> owners]
Drop(s, k) == SubSeq(s, k + 1, Len(s))

CommonPrefixLen(a, b) ==
    Max({k \in 0..Min({Len(a), Len(b)}) : \A i \in 1..k : a[i] = b[i]})

\* Slip: the last slot before a fork is shared too.
PlainCommonPrefixLen(tokens, suffix) == CommonPrefixLen(tokens, suffix)

\* _label_aware_common_prefix_len: where both go on after the shared run, its
\* last position has two labels and is not shared.
LabelAwareCommonPrefixLen(tokens, suffix) ==
    LET k == CommonPrefixLen(tokens, suffix)
    IN IF k > 0 /\ k < Len(suffix) /\ k < Len(tokens) THEN k - 1 ELSE k

\* The first child that shares a slot with the suffix, or 0.
Matching(children, suffix) ==
    LET ms == {i \in DOMAIN children : LabelAwareCommonPrefixLen(children[i].tokens, suffix) > 0}
    IN IF ms = {} THEN 0 ELSE Min(ms)

\* A child cut after k tokens.
Split(child, k) ==
    IF k < Len(child.tokens)
      THEN Node(SubSeq(child.tokens, 1, k),
                <<Node(Drop(child.tokens, k), child.children, child.owners)>>, {})
      ELSE child

\* _insert_path.
RECURSIVE InsertPath(_, _, _)
InsertPath(node, suffix, path) ==
    IF suffix = <<>> THEN [node EXCEPT !.owners = @ \cup {path}]
    ELSE LET i == Matching(node.children, suffix)
             k == LabelAwareCommonPrefixLen(node.children[i].tokens, suffix)
         IN IF i = 0
              THEN [node EXCEPT !.children = Append(@, Node(suffix, <<>>, {path}))]
              ELSE [node EXCEPT !.children[i] = InsertPath(Split(@, k), Drop(suffix, k), path)]

\* _added_len_if_insert, _added_len_if_insert_from_children and
\* _added_len_after_split: the length a path would add, without inserting it.
RECURSIVE AddedLenIfInsert(_, _), AddedLenAfterSplit(_, _, _)
AddedLenIfInsert(children, suffix) ==
    LET i == Matching(children, suffix)
        k == LabelAwareCommonPrefixLen(children[i].tokens, suffix)
    IN IF suffix = <<>> \/ i = 0 THEN Len(suffix)
       ELSE IF k < Len(children[i].tokens)
         THEN AddedLenAfterSplit(Drop(children[i].tokens, k), children[i].children, Drop(suffix, k))
         ELSE AddedLenIfInsert(children[i].children, Drop(suffix, k))
AddedLenAfterSplit(tokens, children, suffix) ==
    LET k == LabelAwareCommonPrefixLen(tokens, suffix)
    IN IF suffix = <<>> \/ k = 0 THEN Len(suffix)
       ELSE IF k < Len(tokens)
         THEN AddedLenAfterSplit(Drop(tokens, k), children, Drop(suffix, k))
         ELSE AddedLenIfInsert(children, Drop(suffix, k))

\* MergingTree: its root after add_path of every path.
EmptyTree == Node(<<>>, <<>>, {})
TreeOf(paths) ==
    FoldLeftDomain(LAMBDA root, p : InsertPath(root, paths[p], p), EmptyTree, paths)

\* to_packed_sequence: _emit of the children, in depth-first order.
RECURSIVE Emit(_, _, _)
Emit(children, parent, acc) ==
    IF children = <<>> THEN acc
    ELSE LET c == Head(children)
             this == Len(acc.nodes) + 1
             emitted == [packed |-> acc.packed \o c.tokens,
                         nodes |-> Append(acc.nodes, [start |-> Len(acc.packed),
                                                      end |-> Len(acc.packed) + Len(c.tokens),
                                                      parent |-> parent]),
                         leaf |-> [p \in DOMAIN acc.leaf |->
                                     IF p \in c.owners THEN this ELSE acc.leaf[p]]]
         IN Emit(Tail(children), parent, Emit(c.children, this, emitted))

\* build_tree_packed_sequence.
BuildTreePackedSequence(paths) ==
    Emit(TreeOf(paths).children, 0,
         [packed |-> <<>>, nodes |-> <<>>, leaf |-> [p \in DOMAIN paths |-> 0]])

\* pack_tree_aligned_as_list: the padding belongs to the last node.
PackTreeAligned(paths) ==
    LET tree == BuildTreePackedSequence(paths)
        pad == (-Len(tree.packed)) % Align
        last == Len(tree.nodes)
    IN [tree EXCEPT !.packed = @ \o [i \in 1..pad |-> 0],
                    !.nodes[last].end = @ + pad]

---------------------------------------------------------------------------
(* What the forward pass reads off the nodes. *)

\* path_chain_root_to_leaf.
RECURSIVE Chain(_, _)
Chain(nodes, n) == IF n = 0 THEN <<>> ELSE Append(Chain(nodes, nodes[n].parent), n)

Range0(nd) == (nd.start + 1)..nd.end

\* build_prefix_tree_ranges_as_lists: a node attends its ancestors in full and
\* itself causally.
Ranges(nodes) ==
    UNION {{[q |-> Range0(nodes[n]), k |-> Range0(nodes[a]), causal |-> a = n] :
                a \in ToSet(Chain(nodes, n))} : n \in DOMAIN nodes}

Sees(nodes, w) ==
    UNION {{x \in r.k : r.causal => x <= w} : r \in {s \in Ranges(nodes) : w \in s.q}}

\* compute_tree_rel_positions_as_list (_node_prefix_len plus the offset).
RelPosition(nodes, w) ==
    LET n == CHOOSE m \in DOMAIN nodes : w \in Range0(nodes[m])
    IN MapThenSumSet(LAMBDA a : nodes[a].end - nodes[a].start, ToSet(Chain(nodes, nodes[n].parent)))
       + (w - nodes[n].start)

\* iter_path_segments_in_packed: the slot of every read of a path.
Slots(tree, path, len) ==
    LET chain == Chain(tree.nodes, tree.leaf[path])
        all == FoldLeft(LAMBDA s, n : s \o [i \in 1..(tree.nodes[n].end - tree.nodes[n].start) |->
                                               tree.nodes[n].start + i], <<>>, chain)
    IN SubSeq(all, 1, Min({len, Len(all)}))

---------------------------------------------------------------------------
(* merge_trajectory_samples. *)

\* to_last_turn_sample shifts the mask left: read r is trained on if token r + 1
\* belongs to the turn's output.
Trainable(s, r) == r \in s.start..(Len(s.ids) - 1)

\* The path whose routing wins at a slot: a trainable one, else the lowest.
SourcePath(visits, trainers) ==
    IF trainers # {} THEN Max({v.path : v \in trainers}) ELSE Min({v.path : v \in visits})

\* The reads of all paths, with the slot of each.
Visits(slots) ==
    UNION {{[path |-> p, read |-> r, slot |-> slots[p][r]] : r \in DOMAIN slots[p]} : p \in DOMAIN slots}

\* Which visit routes a slot, among the visits to it.
SourceVisit(at, samples) ==
    CHOOSE v \in at :
        v.path = SourcePath(at, {x \in at : Trainable(samples[x.path], x.read)})

\* routing_handles_per_path is there on some paths and None on others.
PartlyRouted(samples) ==
    \E p, q \in DOMAIN samples : samples[p].routed /\ ~samples[q].routed

\* The scatter loop, given the layout and the visits: what is trained on where,
\* and for every slot the path and read that route it.  raises: two paths train
\* the same slot, or some paths carry routing handles and others do not.
Scatter(samples, tree, slots, visits, trained) ==
    [ids |-> tree.packed,
     nodes |-> tree.nodes,
     slots |-> slots,
     loss |-> {v.slot : v \in trained},
     label |-> [w \in {v.slot : v \in trained} |->
                  LET v == CHOOSE x \in trained : x.slot = w IN samples[v.path].ids[v.read + 1]],
     source |-> [w \in {v.slot : v \in visits} |->
                   SourceVisit({v \in visits : v.slot = w}, samples)],
     real_total |-> Cardinality({v.slot : v \in visits}),
     raises |-> Cardinality(trained) # Cardinality({v.slot : v \in trained}) \/ PartlyRouted(samples)]

ScatterVisits(samples, tree, slots, visits) ==
    Scatter(samples, tree, slots, visits, {v \in visits : Trainable(samples[v.path], v.read)})

ScatterSlots(samples, tree, slots) == ScatterVisits(samples, tree, slots, Visits(slots))

LaidOut(samples, tree) ==
    ScatterSlots(samples, tree, [p \in DOMAIN samples |-> Slots(tree, p, Len(samples[p].ids))])

Paths(samples) == [p \in DOMAIN samples |-> samples[p].ids]

\* A merged sample.
Merge(samples) == LaidOut(samples, PackTreeAligned(Paths(samples)))

\* gather_merged_routing_per_path and pack_routing_for_magi: the row a slot is
\* routed by.  Row j is gathered for slot j + 1 and replayed at slot j; the row
\* before a path's first is its last (a negative index).
RoutingRow(merged, samples, w) ==
    LET v == merged.source[w + 1]
        rows == samples[v.path].rows
    IN IF v.read > 1 THEN rows[v.read - 1] ELSE rows[Len(rows)]

---------------------------------------------------------------------------
(* RolloutTrace.to_packed_samples: consecutive turns, greedily. *)

\* get_packed_len_if_merge.
PackedLenIfMerge(group, s) ==
    Len(BuildTreePackedSequence(Paths(group)).packed)
    + AddedLenIfInsert(TreeOf(Paths(group)).children, s.ids)

Fits(group, s, max_pack_length) == PackedLenIfMerge(group, s) <= max_pack_length

\* The groups of turns that are merged into one sample each.
PackedGroups(samples, max_pack_length) ==
    LET add(groups, s) ==
            IF Fits(Last(groups), s, max_pack_length)
              THEN Append(Front(groups), Append(Last(groups), s))
              ELSE Append(groups, <<s>>)
    IN FoldLeft(add, <<<<>>>>, samples)

\* _to_flat_single_sample: the longest turn, if every turn is a prefix of it.
LongestTurn(samples) ==
    Min({i \in DOMAIN samples : \A j \in DOMAIN samples : Len(samples[j].ids) <= Len(samples[i].ids)})
LinearChain(samples) ==
    \A i \in DOMAIN samples : IsPrefix(samples[i].ids, samples[LongestTurn(samples)].ids)
=============================================================================
