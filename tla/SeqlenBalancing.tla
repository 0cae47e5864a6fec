-------------------------- MODULE SeqlenBalancing --------------------------
(***************************************************************************)
(* axrl/utils/megatron/seqlen_balancing.py: how the rows one data-parallel *)
(* rank holds of a global batch become micro-batches.  The number of them  *)
(* follows from the token budget, agreed with the other ranks; the rows    *)
(* are dealt to that many micro-batches by Karmarkar-Karp differencing.    *)
(*                                                                         *)
(* A differencing state is k sets of rows in decreasing order.  The two    *)
(* states of largest spread are merged, largest set with smallest, until   *)
(* one is left.                                                            *)
(***************************************************************************)
EXTENDS Integers, Sequences, SequencesExt, FiniteSets, FiniteSetsExt

CeilDiv(a, b) == (a + b - 1) \div b
RoundupDivisible(a, b) == CeilDiv(a, b) * b
SumOver(rows, lens) == FoldSet(LAMBDA i, acc : acc + lens[i], 0, rows)
MaxLen(lens) == Max({lens[i] : i \in DOMAIN lens})

\* Set.__lt__: by sum, then by size, then by the row added first.  A set keeps
\* the rows in the order they were added.
SetLess(a, b) ==
    \/ a.sum < b.sum
    \/ a.sum = b.sum /\ Len(a.items) < Len(b.items)
    \/ /\ a.sum = b.sum /\ Len(a.items) = Len(b.items) /\ a.items # <<>>
       /\ a.items[1] < b.items[1]

Decreasing(sets) == SortSeq(sets, LAMBDA a, b : SetLess(b, a))

NewState(i, len, k) ==
    [j \in 1..k |-> IF j = 1 THEN [sum |-> len, items |-> <<i>>]
                             ELSE [sum |-> 0, items |-> <<>>]]

Spread(state) == state[1].sum - state[Len(state)].sum

\* State.__lt__: which of two states heappop returns first.
PopsBefore(a, b) ==
    \/ Spread(a) > Spread(b)
    \/ Spread(a) = Spread(b) /\ SetLess(b[1], a[1])

Merge(a, b) ==
    Decreasing([i \in DOMAIN a |->
        LET o == b[Len(b) + 1 - i]
        IN  [sum |-> a[i].sum + o.sum, items |-> a[i].items \o o.items]])

\* heappop
Popped(states) == {s \in states : \A t \in states \ {s} : PopsBefore(s, t)}

MergeTwo(states) ==
    UNION {UNION {(states \ {a, b}) \cup {Merge(a, b)} : b \in Popped(states \ {a})} :
           a \in Popped(states)}

\* One state is left after a merge for every row but one.
KarmarkarKarp(lens, k) ==
    LET after[n \in Nat] == IF n = 0 THEN {NewState(i, lens[i], k) : i \in DOMAIN lens}
                            ELSE UNION {MergeTwo(states) : states \in {after[n - 1]}}
        partitions == {[j \in 1..k |-> ToSet(s[j].items)] : s \in after[Len(lens) - 1]}
    IN  CHOOSE p \in partitions : TRUE

\* The sum of squared lengths stands for the attention work of a micro-batch;
\* the heaviest goes first.
Work(part, lens) == FoldSet(LAMBDA i, acc : acc + lens[i] * lens[i], 0, part)

HeaviestFirst(parts, lens) ==
    SortSeq(parts, LAMBDA a, b :
        \/ Work(a, lens) > Work(b, lens)
        \/ Work(a, lens) = Work(b, lens) /\ a # {} /\ b # {} /\ Min(a) > Min(b))

\* What a rank would take on its own.  A merged row longer than the budget
\* raises the budget to its length.
LocalMicroBatches(lens, maxTokens) ==
    LET budget == Max({maxTokens, MaxLen(lens)})
    IN  Min({Len(lens), CeilDiv(SumOver(DOMAIN lens, lens), budget)})

\* After the all_reduce: with virtual pipeline stages the count is rounded up
\* to whole groups.  vpp = 0 stands for None.
RoundedCount(agreed, vpp, group) ==
    IF vpp = 0 THEN agreed
    ELSE RoundupDivisible(RoundupDivisible(agreed, vpp), group)

\* The partitions of split_into_balanced_microbatches; its caller has checked
\* that count <= number of rows, which the code asserts.
SplitIntoBalancedMicrobatches(lens, count) ==
    HeaviestFirst(KarmarkarKarp(lens, count), lens)

\* The asserts of _check_and_sort_partitions: as many partitions as were asked
\* for, none empty, and every row in one.
PartitionsChecked(parts, count, lens) ==
    /\ parts \in Seq((SUBSET DOMAIN lens) \ {{}}) /\ Len(parts) = count
    /\ UNION {parts[j] : j \in DOMAIN parts} = DOMAIN lens
===========================================================================
