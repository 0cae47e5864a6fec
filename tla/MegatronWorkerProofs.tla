----------------------- MODULE MegatronWorkerProofs ------------------------
(***************************************************************************)
(* Proofs about the training workers, for any number of ranks, samples,    *)
(* passes, micro-batches, threads and calls: the routers of every row that *)
(* trains are given the routing its own rollout recorded, the row is given *)
(* its own logprobs, of the weights each of them is for, and the replay of *)
(* a spike does on every rank what the spiking step did.                   *)
(*                                                                         *)
(* Routing is found by the key of a row: in the merged cache of its rank,  *)
(* which outlives the passes of a call, or else in the store, which the    *)
(* driver fills before a call and empties after it.  The invariant         *)
(* therefore says of the rows in play that their handles are live, and     *)
(* that a key stands for one row's paths, on all ranks and in all batches, *)
(* padding included; of a snapshot, that it can be put back under handles  *)
(* of its own; and of a rank, what each entry of its cache and each slot   *)
(* of its prefetch ring and of its replay queue holds.                     *)
(*                                                                         *)
(* Logprobs are found by the index of a row, in what the passes before the *)
(* training pass have gathered.  A second invariant says which weights a   *)
(* rank has loaded and which it keeps aside, that the ranks agree on the   *)
(* weights they train, and that a pass has outputs, all under its weights, *)
(* for every row of the micro-batches and batches it has gone over.        *)
(*                                                                         *)
(* A replay meets its snapshot through what both follow from.  A third     *)
(* invariant says that the micro-batches a rank trains follow from the     *)
(* rows of all ranks, which train the same batch when they agree on their  *)
(* number, and what was done from the micro-batches that went backward.    *)
(***************************************************************************)
EXTENDS MegatronWorker, FiniteSetTheorems, WellFoundedInduction, TLAPS

\* Every non-empty set of naturals has a least element.
LEMMA LeastNatural ==
    ASSUME NEW S \in SUBSET Nat, S # {}
    PROVE  \E x \in S : \A y \in S : x <= y
<1> DEFINE R == OpToRel(<, Nat)
<1>1. IsWellFoundedOn(R, Nat)
  BY NatLessThanWellFounded
<1> HIDE DEF R
<1>2. PICK x \in S : \A y \in S : ~(<<y, x>> \in R)
  BY <1>1, WFMin
<1>3. \A y \in S : x <= y
  <2> SUFFICES ASSUME NEW y \in S PROVE x <= y
    OBVIOUS
  <2>1. ~(y < x)
    BY <1>2 DEF R, OpToRel
  <2> QED BY <2>1
<1> QED BY <1>3

\* The least member of a set of naturals is in it.
LEMMA MinOfSome ==
    ASSUME NEW S \in SUBSET Nat, S # {}
    PROVE  Min(S) \in S
<1>1. \E x \in S : \A y \in S : x =< y BY LeastNatural
<1> QED BY <1>1 DEF Min

\* Induction, for a set: what holds of 0 and passes from k to k + 1 holds up to n.
LEMMA Counting ==
    ASSUME NEW n \in Nat, NEW S, 0 \in S, \A k \in 1..n : k - 1 \in S => k \in S
    PROVE  0..n \subseteq S
<1> SUFFICES ASSUME NEW j \in 0..n, j \notin S PROVE FALSE OBVIOUS
<1>1. PICK T : T = (0..n) \ S OBVIOUS
<1>2. T \in SUBSET Nat /\ T # {} BY <1>1
<1>3. PICK x \in T : \A y \in T : x <= y BY <1>2, LeastNatural
<1>4. x \in 0..n /\ x \notin S BY <1>1
<1>5. x # 0 BY <1>4
<1>6. x \in 1..n /\ x - 1 \in 0..n /\ ~(x <= x - 1) BY <1>4, <1>5
<1>7. x - 1 \in S BY <1>1, <1>3, <1>6
<1> QED BY <1>4, <1>6, <1>7

---------------------------------------------------------------------------
(* Rows and positions *)

\* A set of positions has an element of every rank.
LEMMA RankedElement ==
    ASSUME NEW n \in Nat, NEW S \in SUBSET (1..n), NEW k \in 1..Cardinality(S)
    PROVE  \E i \in S : Cardinality({j \in S : j <= i}) = k
<1> DEFINE Upto(x) == {j \in S : j <= x}
           T == {x \in 0..n : \A m \in 1..Cardinality(Upto(x)) :
                                \E i \in S : Cardinality(Upto(i)) = m}
<1>0. \A j \in S : j \in Int /\ 1 <= j /\ j <= n OBVIOUS
<1>1. IsFiniteSet(S) /\ Cardinality(S) \in Nat
  <2>1. IsFiniteSet(1..n) BY FS_Interval
  <2> QED BY <2>1, FS_Subset, FS_CardinalityType
<1>2. 0 \in T
  <2>0. \A j \in S : ~(j <= 0) BY <1>0
  <2>1. Upto(0) = {} BY <2>0
  <2>2. Cardinality(Upto(0)) = 0 BY <2>1, FS_EmptySet
  <2>3. 1..Cardinality(Upto(0)) = {} BY <2>2
  <2> QED BY <2>3
<1>3. ASSUME NEW x \in 1..n, x - 1 \in T PROVE x \in T
  <2>1. CASE x \notin S
    <3>1. \A j \in S : j <= x <=> j <= x - 1 BY <1>0, <2>1
    <3>2. Upto(x) = Upto(x - 1) BY <3>1
    <3> QED BY <1>3, <3>2
  <2>2. CASE x \in S
    <3>0. /\ \A j \in S : j <= x <=> (j <= x - 1 \/ j = x)
          /\ x <= x /\ ~(x <= x - 1) BY <1>0
    <3>1. Upto(x) = Upto(x - 1) \cup {x} /\ x \notin Upto(x - 1) BY <2>2, <3>0
    <3>2. IsFiniteSet(Upto(x - 1)) BY <1>1, FS_Subset
    <3> DEFINE U == Upto(x - 1)
    <3>3. Cardinality(U \cup {x}) = Cardinality(U) + 1
      <4> HIDE DEF U
      <4>1. IsFiniteSet(U) /\ x \notin U BY <3>1, <3>2 DEF U
      <4> QED BY <4>1, FS_AddElement
    <3>4. Cardinality(Upto(x)) = Cardinality(U) + 1 /\ Cardinality(U) \in Nat
      BY <3>1, <3>2, <3>3, FS_CardinalityType
    <3>5. ASSUME NEW m \in 1..Cardinality(Upto(x))
          PROVE  \E i \in S : Cardinality(Upto(i)) = m
      <4>1. CASE m = Cardinality(Upto(x)) BY <2>2, <4>1
      <4>2. CASE m # Cardinality(Upto(x))
        <5>1. m \in 1..Cardinality(U) BY <3>4, <4>2
        <5> QED BY <1>3, <5>1
      <4> QED BY <4>1, <4>2
    <3> QED BY <3>5
  <2> QED BY <2>1, <2>2
<1>4. n \in T
  <2> HIDE DEF T
  <2>1. 0..n \subseteq T BY <1>2, <1>3, Counting
  <2> QED BY <2>1
<1>5. Upto(n) = S BY <1>0
<1> QED BY <1>4, <1>5

\* The positions of a set, in order, are its own.
LEMMA InOrderOf ==
    ASSUME NEW n \in Nat, NEW S \in SUBSET (1..n)
    PROVE  InOrder(S) \in Seq(S) /\ (S # {} => InOrder(S) # <<>>)
<1>1. IsFiniteSet(S) /\ Cardinality(S) \in Nat
  <2>1. IsFiniteSet(1..n) BY FS_Interval
  <2> QED BY <2>1, FS_Subset, FS_CardinalityType
<1>2. \A k \in 1..Cardinality(S) : InOrder(S)[k] \in S BY RankedElement DEF InOrder
<1>3. InOrder(S) \in [1..Cardinality(S) -> S] BY <1>2 DEF InOrder
<1>4. S # {} => Cardinality(S) # 0 BY <1>1, FS_EmptySet
<1> QED BY <1>1, <1>3, <1>4

\* Whole parts and what is left of a division.
LEMMA Division ==
    ASSUME NEW a \in Nat, NEW d \in Nat \ {0}
    PROVE  /\ a \div d \in Nat /\ a % d \in 0..(d - 1)
           /\ a = d * (a \div d) + (a % d)
OBVIOUS

\* A quotient and a remainder are determined by their equation.
LEMMA DivisionUnique ==
    ASSUME NEW a \in Nat, NEW d \in Nat \ {0}, NEW q \in Nat, NEW m \in 0..(d - 1), a = d * q + m
    PROVE  a \div d = q /\ a % d = m
<1>1. PICK p \in Nat : p = a \div d BY Division
<1>2. PICK k \in 0..(d - 1) : k = a % d BY Division
<1>3. d * p + k = d * q + m BY <1>1, <1>2, Division
<1>4. ASSUME p < q PROVE FALSE
  <2>1. PICK e \in Nat : q = p + 1 + e
    <3>1. q - p - 1 \in Nat /\ q = p + 1 + (q - p - 1) BY <1>4
    <3> QED BY <3>1
  <2>2. d * q = d * p + d + d * e BY <2>1
  <2>3. d * e \in Nat /\ d * p \in Nat /\ d * q \in Nat OBVIOUS
  <2> QED BY <1>3, <2>2, <2>3
<1>5. ASSUME q < p PROVE FALSE
  <2>1. PICK e \in Nat : p = q + 1 + e
    <3>1. p - q - 1 \in Nat /\ p = q + 1 + (p - q - 1) BY <1>5
    <3> QED BY <3>1
  <2>2. d * p = d * q + d + d * e BY <2>1
  <2>3. d * e \in Nat /\ d * p \in Nat /\ d * q \in Nat OBVIOUS
  <2> QED BY <1>3, <2>2, <2>3
<1>6. p = q BY <1>4, <1>5
<1>7. k = m
  <2>1. d * p \in Nat /\ d * p = d * q BY <1>6
  <2> QED BY <1>3, <2>1
<1> QED BY <1>1, <1>2, <1>6, <1>7

\* The positions dealt to a rank are positions of the permutation.
LEMMA DealtPosition ==
    ASSUME NEW n \in Nat, NEW dp \in Nat \ {0}, NEW rank \in 0..(dp - 1),
           NEW j \in 1..((n - rank + dp - 1) \div dp)
    PROVE  rank + 1 + (j - 1) * dp \in 1..n
<1>1. PICK a \in Nat : a = n - rank + dp - 1 OBVIOUS
<1>2. PICK q \in Nat : q = a \div dp BY Division
<1>3. dp * q <= a
  <2>1. a = dp * q + (a % dp) /\ a % dp \in 0..(dp - 1) BY <1>2, Division
  <2>2. dp * q \in Nat OBVIOUS
  <2> QED BY <2>1, <2>2
<1>4. PICK e \in Nat : q = j + e
  <2>1. q - j \in Nat /\ q = j + (q - j) BY <1>1, <1>2
  <2> QED BY <2>1
<1>5. PICK h \in Nat : j = h + 1
  <2>1. j - 1 \in Nat /\ j = (j - 1) + 1 OBVIOUS
  <2> QED BY <2>1
<1>6. dp * q = h * dp + dp + dp * e BY <1>4, <1>5
<1>7. h * dp \in Nat /\ dp * e \in Nat /\ dp * q \in Nat OBVIOUS
<1>8. (j - 1) * dp = h * dp BY <1>5
<1>9. PICK x \in Nat : x = h * dp BY <1>7
<1>10. x + dp <= n - rank + dp - 1 BY <1>1, <1>3, <1>6, <1>7, <1>9
<1> QED BY <1>8, <1>9, <1>10

\* The length of a padded batch.
LEMMA PaddedLength ==
    ASSUME NEW n \in Nat, NEW dp \in Nat \ {0}
    PROVE  ((n + dp - 1) \div dp) * dp = (IF n % dp = 0 THEN n ELSE n + (dp - (n % dp)))
<1>1. PICK q \in Nat : q = n \div dp BY Division
<1>2. PICK m \in 0..(dp - 1) : m = n % dp BY Division
<1>3. n = dp * q + m BY <1>1, <1>2, Division
<1>4. dp * q \in Nat /\ q * dp = dp * q OBVIOUS
<1>5. n + dp - 1 \in Nat OBVIOUS
<1>6. CASE m = 0
  <2>1. n + dp - 1 = dp * q + (dp - 1) /\ dp - 1 \in 0..(dp - 1) BY <1>3, <1>4, <1>6
  <2>2. (n + dp - 1) \div dp = q BY <1>5, <2>1, DivisionUnique
  <2> QED BY <1>2, <1>3, <1>4, <1>6, <2>2
<1>7. CASE m # 0
  <2>1. dp * (q + 1) = dp * q + dp /\ (q + 1) * dp = dp * q + dp OBVIOUS
  <2>2. n + dp - 1 = dp * (q + 1) + (m - 1) /\ m - 1 \in 0..(dp - 1) /\ q + 1 \in Nat
    BY <1>3, <1>4, <1>7, <2>1
  <2>3. (n + dp - 1) \div dp = q + 1 BY <1>5, <2>2, DivisionUnique
  <2> QED BY <1>2, <1>3, <1>4, <1>7, <2>1, <2>3
<1> QED BY <1>6, <1>7

\* A permutation drawn for a batch is a list of its positions.
LEMMA ShuffleOf ==
    ASSUME NEW sizes, NEW shuffle, NEW perms \in Shuffles(sizes, shuffle), NEW b \in DOMAIN sizes,
           \A c \in DOMAIN sizes : sizes[c] \in Nat
    PROVE  perms[b] \in [1..sizes[b] -> 1..sizes[b]]
<1>1. CASE shuffle
  <2>1. /\ perms[b] \in UNION {Orders(sizes[c]) : c \in DOMAIN sizes}
        /\ Len(perms[b]) = sizes[b]
    BY <1>1 DEF Shuffles
  <2>2. PICK c \in DOMAIN sizes : perms[b] \in Orders(sizes[c]) BY <2>1
  <2>3. PICK n \in Nat : n = sizes[c] OBVIOUS
  <2>4. perms[b] \in [1..n -> 1..n] BY <2>2, <2>3 DEF Orders
  <2>5. Len(perms[b]) = n BY <2>4
  <2> QED BY <2>1, <2>4, <2>5
<1>2. CASE ~shuffle
  <2>1. perms = [c \in DOMAIN sizes |-> [i \in 1..sizes[c] |-> i]] BY <1>2 DEF Shuffles
  <2> QED BY <2>1
<1> QED BY <1>1, <1>2

---------------------------------------------------------------------------
(* What the ranks are dealt *)

\* A numbered list of integers has a largest.
LEMMA LargestOf ==
    ASSUME NEW n \in Nat \ {0}, NEW f \in [1..n -> Int]
    PROVE  Max({f[i] : i \in 1..n}) \in {f[i] : i \in 1..n}
<1> DEFINE T == {k \in 0..n : k = 0 \/ \E i \in 1..k : \A j \in 1..k : f[i] >= f[j]}
<1>1. 0 \in T OBVIOUS
<1>2. ASSUME NEW k \in 1..n, k - 1 \in T PROVE k \in T
  <2>1. CASE k = 1
    <3>1. \A j \in 1..k : j = k BY <2>1
    <3>2. f[k] >= f[k] OBVIOUS
    <3>3. \A j \in 1..k : f[k] >= f[j] BY <3>1, <3>2
    <3>4. k \in 1..k OBVIOUS
    <3> QED BY <3>3, <3>4
  <2>2. CASE k # 1
    <3>1. PICK i \in 1..(k - 1) : \A j \in 1..(k - 1) : f[i] >= f[j] BY <1>2, <2>2
    <3>2. \A j \in 1..k : j \in 1..(k - 1) \/ j = k OBVIOUS
    <3>3. f[i] \in Int /\ f[k] \in Int /\ \A j \in 1..k : f[j] \in Int OBVIOUS
    <3>4. CASE f[i] >= f[k]
      <4>1. \A j \in 1..k : f[i] >= f[j] BY <3>1, <3>2, <3>4
      <4>2. i \in 1..k OBVIOUS
      <4> QED BY <4>1, <4>2
    <3>5. CASE ~(f[i] >= f[k])
      <4>1. \A j \in 1..k : f[k] >= f[j] BY <3>1, <3>2, <3>3, <3>5
      <4>2. k \in 1..k OBVIOUS
      <4> QED BY <4>1, <4>2
    <3> QED BY <3>4, <3>5
  <2> QED BY <2>1, <2>2
<1>3. n \in T
  <2> HIDE DEF T
  <2>1. 0..n \subseteq T BY <1>1, <1>2, Counting
  <2> QED BY <2>1
<1>4. PICK i \in 1..n : \A j \in 1..n : f[i] >= f[j] BY <1>3
<1>5. PICK S : S = {f[j] : j \in 1..n} OBVIOUS
<1>6. f[i] \in S /\ \A y \in S : f[i] >= y BY <1>4, <1>5
<1>7. Max(S) \in S BY <1>6 DEF Max
<1> QED BY <1>5, <1>7

\* A row that pads a batch with handles.
PaddingRow(padLen, padHandle) ==
    [index |-> Padding, traj |-> -1, len |-> padLen, paths |-> <<<<padHandle>>>>]

\* n, rounded up to a multiple of dp.
RoundedUp(n, dp) == ((n + dp - 1) \div dp) * dp

\* What a batch is padded with.
PadOf(rows, padLen, padHandle) ==
    [index |-> Padding, traj |-> -1, len |-> padLen,
     paths |-> IF HasHandles(rows) THEN <<<<padHandle>>>> ELSE <<>>]

\* A padded batch holds its own rows and padding, and is as long as it is said to be.
LEMMA PaddedList ==
    ASSUME NEW W, NEW rows \in Seq(W), NEW dp \in Nat \ {0}, NEW padLen, NEW padHandle,
           NEW V, W \subseteq V, rows # <<>> => PadOf(rows, padLen, padHandle) \in V
    PROVE  /\ PadToDpMultiple(rows, dp, padLen, padHandle) \in Seq(V)
           /\ Len(PadToDpMultiple(rows, dp, padLen, padHandle)) = RoundedUp(Len(rows), dp)
<1>0. rows \in Seq(V) OBVIOUS
<1>1. PICK n \in Nat : n = Len(rows) OBVIOUS
<1>2. RoundedUp(n, dp) = (IF n % dp = 0 THEN n ELSE n + (dp - (n % dp)))
  BY PaddedLength DEF RoundedUp
<1>3. CASE n % dp = 0
  <2>1. PadToDpMultiple(rows, dp, padLen, padHandle) = rows BY <1>1, <1>3 DEF PadToDpMultiple
  <2> QED BY <1>0, <1>1, <1>2, <1>3, <2>1
<1>4. CASE n % dp # 0
  <2>1. PICK k \in Nat : k = dp - (n % dp)
    <3>1. PICK m \in 0..(dp - 1) : m = n % dp BY Division
    <3>2. dp - m \in Nat OBVIOUS
    <3> QED BY <3>1, <3>2
  <2>2. rows # <<>>
    <3>1. 0 = dp * 0 + 0 /\ 0 \in 0..(dp - 1) OBVIOUS
    <3>2. 0 % dp = 0 BY <3>1, DivisionUnique
    <3> QED BY <1>1, <1>4, <3>2
  <2>3. PICK x \in V : x = PadOf(rows, padLen, padHandle) BY <2>2
  <2>4. PICK pad : pad = PaddingRows(rows, k, padLen, padHandle) OBVIOUS
  <2>5. pad = [j \in 1..k |-> x] BY <2>3, <2>4 DEF PaddingRows, PadOf
  <2>6. pad \in Seq(V) /\ Len(pad) = k BY <2>5
  <2>7. rows \o pad \in Seq(V) /\ Len(rows \o pad) = n + k BY <1>0, <1>1, <2>6
  <2>8. PadToDpMultiple(rows, dp, padLen, padHandle) = rows \o pad
    BY <1>1, <1>4, <2>1, <2>4 DEF PadToDpMultiple
  <2> QED BY <1>1, <1>2, <1>4, <2>1, <2>7, <2>8
<1> QED BY <1>3, <1>4

\* A batch whose rows have handles is padded with the padding handle.
LEMMA PaddedBatch ==
    ASSUME NEW W, NEW rows \in Seq(W), \A w \in W : w.paths # <<>>,
           NEW dp \in Nat \ {0}, NEW padLen, NEW padHandle
    PROVE  /\ PadToDpMultiple(rows, dp, padLen, padHandle) \in Seq(W \cup {PaddingRow(padLen, padHandle)})
           /\ Len(PadToDpMultiple(rows, dp, padLen, padHandle)) = RoundedUp(Len(rows), dp)
<1>1. PICK V : V = W \cup {PaddingRow(padLen, padHandle)} OBVIOUS
<1>2. ASSUME rows # <<>> PROVE PadOf(rows, padLen, padHandle) \in V
  <2>1. 1 \in DOMAIN rows /\ rows[1] \in W BY <1>2
  <2>2. HasHandles(rows) BY <2>1 DEF HasHandles
  <2> QED BY <1>1, <2>2 DEF PadOf, PaddingRow
<1>3. W \subseteq V BY <1>1
<1> QED BY ONLY <1>1, <1>2, <1>3, rows \in Seq(W), dp \in Nat \ {0}, PaddedList

\* Every rank is dealt lists of what batches are padded to, and at least one list.
LEMMA DealtLists ==
    ASSUME NEW W, NEW rows \in Seq(W), rows # <<>>,
           \A w \in W : w.traj \in Nat \cup {-1}, Groupable(Trajectories(rows)),
           NEW gbs \in Nat \ {0}, NEW dp \in Nat \ {0}, NEW rank \in 0..(dp - 1), NEW shuffle,
           NEW perms \in Shuffles(PaddedSizes(rows, gbs, dp), shuffle),
           NEW padLen, NEW padHandle, NEW V,
           \A s \in Seq(W) : /\ PadToDpMultiple(s, dp, padLen, padHandle) \in Seq(V)
                             /\ Len(PadToDpMultiple(s, dp, padLen, padHandle)) = RoundedUp(Len(s), dp),
           NEW dealt,
           dealt = GlobalBatchesForDpRank(rows, gbs, dp, rank, perms, padLen, padHandle)
    PROVE  dealt \in Seq(Seq(V)) /\ dealt # <<>>
<1>0. \A s \in Seq(W) : /\ PadToDpMultiple(s, dp, padLen, padHandle) \in Seq(V)
                        /\ Len(PadToDpMultiple(s, dp, padLen, padHandle)) = RoundedUp(Len(s), dp)
  OBVIOUS
<1>1. PICK n \in Nat \ {0} : n = Len(rows) /\ DOMAIN rows = 1..n
  <2>1. Len(rows) \in Nat \ {0} /\ DOMAIN rows = 1..Len(rows) OBVIOUS
  <2> QED BY ONLY <2>1
<1>2. PICK ts : ts = Trajectories(rows) OBVIOUS
<1>3. ts \in [1..n -> Int] /\ DOMAIN ts = 1..n
  <2>1. \A i \in 1..n : rows[i].traj \in Int BY <1>1
  <2>2. [i \in 1..n |-> i - 1] \in [1..n -> Int] OBVIOUS
  <2>3. [i \in 1..n |-> rows[i].traj] \in [1..n -> Int] BY <2>1
  <2>4. ts = [i \in 1..n |-> i - 1] \/ ts = [i \in 1..n |-> rows[i].traj]
    BY <1>1, <1>2 DEF Trajectories
  <2>5. ts \in [1..n -> Int] BY <2>2, <2>3, <2>4
  <2> QED BY <2>5
<1>4. PICK N \in Nat \ {0} : N = NumTrajectories(ts)
  <2>1. Max({ts[i] : i \in 1..n}) \in {ts[i] : i \in 1..n} BY <1>3, LargestOf
  <2>2. PICK S : S = {ts[i] : i \in DOMAIN ts} OBVIOUS
  <2>3. Max(S) \in S /\ S \in SUBSET Int BY <1>3, <2>1, <2>2
  <2>4. NumTrajectories(ts) = Max(S) + 1 BY <2>2 DEF NumTrajectories
  <2>5. PICK m \in Int : m = Max(S) BY <2>3
  <2>6. S = 0..(m + 1 - 1)
    <3>1. Groupable(ts) BY <1>2
    <3>2. S = 0..(NumTrajectories(ts) - 1) BY <2>2, <3>1 DEF Groupable
    <3> QED BY <2>4, <2>5, <3>2
  <2>7. m \in Nat BY <2>3, <2>5, <2>6
  <2>8. m + 1 \in Nat \ {0} /\ m + 1 = NumTrajectories(ts) BY <2>4, <2>5, <2>7
  <2> QED BY <2>8
<1>5. PICK G \in Nat \ {0} : G = (N + gbs - 1) \div gbs
  <2>1. N + gbs - 1 \in Nat OBVIOUS
  <2>2. PICK q \in Nat : q = (N + gbs - 1) \div gbs BY <2>1, Division
  <2>3. (N + gbs - 1) % gbs \in 0..(gbs - 1) /\ N + gbs - 1 = gbs * q + ((N + gbs - 1) % gbs)
    BY <2>1, <2>2, Division
  <2>4. q # 0
    <3>1. SUFFICES ASSUME q = 0 PROVE FALSE OBVIOUS
    <3>2. gbs * q = 0 BY <3>1
    <3> QED BY <2>3, <3>2
  <2> QED BY <2>2, <2>4
<1>6. PICK grouped : grouped = GroupRowIndicesByGlobalBatch(ts, gbs) OBVIOUS
<1>7. DOMAIN grouped = 1..G /\ \A b \in 1..G : grouped[b] \in Seq(1..n)
  <2>1. grouped = [b \in 1..G |-> InOrder({i \in 1..n : ts[i] \div gbs = b - 1})]
    BY <1>3, <1>4, <1>5, <1>6 DEF GroupRowIndicesByGlobalBatch
  <2>2. ASSUME NEW b \in 1..G PROVE grouped[b] \in Seq(1..n)
    <3>1. PICK S : S = {i \in 1..n : ts[i] \div gbs = b - 1} OBVIOUS
    <3>2. S \in SUBSET (1..n) /\ grouped[b] = InOrder(S) BY <2>1, <3>1
    <3>3. PICK g \in Seq(S) : g = InOrder(S) BY <3>2, InOrderOf
    <3>4. \A k \in 1..Len(g) : g[k] \in S BY <3>3
    <3>5. \A k \in 1..Len(g) : g[k] \in 1..n BY <3>2, <3>4
    <3>6. g \in Seq(1..n) BY ONLY g \in Seq(S), n \in Nat, <3>5
    <3> QED BY <3>2, <3>3, <3>6
  <2> QED BY <2>1, <2>2
<1>8. PICK sizes : sizes = PaddedSizes(rows, gbs, dp) OBVIOUS
<1>9. sizes = [b \in 1..G |-> ((Len(grouped[b]) + dp - 1) \div dp) * dp]
  BY <1>2, <1>6, <1>7, <1>8 DEF PaddedSizes
<1> DEFINE padded(b) == PadToDpMultiple(SelectRows(rows, grouped[b]), dp, padLen, padHandle)
<1>10. ASSUME NEW b \in 1..G
       PROVE  padded(b) \in Seq(V) /\ Len(padded(b)) = sizes[b] /\ sizes[b] \in Nat
  <2>1. PICK g \in Seq(1..n) : g = grouped[b] BY <1>7
  <2>2. PICK s : s = SelectRows(rows, g) OBVIOUS
  <2>3. s = [j \in 1..Len(g) |-> rows[g[j]]] BY <2>2 DEF SelectRows
  <2>4. \A j \in 1..Len(g) : rows[g[j]] \in W BY <1>1
  <2>5. s \in Seq(W) /\ Len(s) = Len(g) BY <2>3, <2>4
  <2>6. /\ PadToDpMultiple(s, dp, padLen, padHandle) \in Seq(V)
        /\ Len(PadToDpMultiple(s, dp, padLen, padHandle)) = ((Len(s) + dp - 1) \div dp) * dp
    <3>1. /\ PadToDpMultiple(s, dp, padLen, padHandle) \in Seq(V)
          /\ Len(PadToDpMultiple(s, dp, padLen, padHandle)) = RoundedUp(Len(s), dp)
      BY ONLY <1>0, <2>5
    <3> QED BY <3>1 DEF RoundedUp
  <2>7. sizes[b] = ((Len(s) + dp - 1) \div dp) * dp BY <1>9, <2>1, <2>5
  <2>8. padded(b) = PadToDpMultiple(s, dp, padLen, padHandle) BY <2>1, <2>2
  <2>9. Len(padded(b)) \in Nat BY <2>6, <2>8
  <2> QED BY <2>6, <2>7, <2>8, <2>9
<1>11. PICK sizesNat : sizesNat = sizes /\ \A c \in DOMAIN sizesNat : sizesNat[c] \in Nat
  BY <1>9, <1>10
<1>12. ASSUME NEW b \in 1..G PROVE SelectRows(padded(b), RoundRobin(perms[b], dp, rank)) \in Seq(V)
  <2>1. PICK n2 \in Nat : n2 = sizes[b] BY <1>10
  <2>2. perms[b] \in [1..n2 -> 1..n2]
    <3>1. b \in DOMAIN sizes /\ perms \in Shuffles(sizes, shuffle) BY <1>8, <1>9
    <3> QED BY <1>11, <2>1, <3>1, ShuffleOf
  <2>3. Len(perms[b]) = n2 BY <2>2
  <2>4. PICK x \in Seq(V) : x = padded(b) /\ Len(x) = n2 BY <1>10, <2>1
  <2>5. PICK q \in Nat : q = (n2 - rank + dp - 1) \div dp
    <3>1. n2 - rank + dp - 1 \in Nat OBVIOUS
    <3> QED BY <3>1, Division
  <2>6. PICK rr : rr = RoundRobin(perms[b], dp, rank) OBVIOUS
  <2>7. rr = [j \in 1..q |-> perms[b][rank + 1 + (j - 1) * dp]]
    BY <2>3, <2>5, <2>6 DEF RoundRobin
  <2>8. ASSUME NEW j \in 1..q PROVE rr[j] \in 1..n2
    <3>1. rank + 1 + (j - 1) * dp \in 1..n2 BY <2>5, DealtPosition
    <3> QED BY <2>2, <2>7, <3>1
  <2>9. \A j \in 1..q : x[rr[j]] \in V BY <2>4, <2>8
  <2>10. SelectRows(x, rr) = [j \in 1..q |-> x[rr[j]]] BY <2>7 DEF SelectRows
  <2>11. SelectRows(x, rr) \in Seq(V) BY <2>9, <2>10
  <2> QED BY <2>4, <2>6, <2>11
<1>13. dealt = [b \in 1..G |-> SelectRows(padded(b), RoundRobin(perms[b], dp, rank))]
  BY <1>2, <1>6, <1>7 DEF GlobalBatchesForDpRank
<1>14. \A b \in 1..G : dealt[b] \in Seq(V) BY <1>12, <1>13
<1>15. dealt \in Seq(Seq(V)) /\ Len(dealt) = G
  <2>1. dealt \in [1..G -> Seq(V)] BY <1>13, <1>14
  <2> QED BY <2>1
<1> QED BY <1>15

\* Every rank is dealt batches of rows of the call and padding.
LEMMA DealtRows ==
    ASSUME NEW W, NEW rows \in Seq(W), rows # <<>>, \A w \in W : w.paths # <<>>,
           \A w \in W : w.traj \in Nat \cup {-1}, Groupable(Trajectories(rows)),
           NEW gbs \in Nat \ {0}, NEW dp \in Nat \ {0}, NEW rank \in 0..(dp - 1), NEW shuffle,
           NEW perms \in Shuffles(PaddedSizes(rows, gbs, dp), shuffle),
           NEW padLen, NEW padHandle, NEW dealt,
           dealt = GlobalBatchesForDpRank(rows, gbs, dp, rank, perms, padLen, padHandle)
    PROVE  dealt \in Seq(Seq(W \cup {PaddingRow(padLen, padHandle)})) /\ dealt # <<>>
<1>1. PICK V : V = W \cup {PaddingRow(padLen, padHandle)} OBVIOUS
<1>2. \A s \in Seq(W) : /\ PadToDpMultiple(s, dp, padLen, padHandle) \in Seq(V)
                        /\ Len(PadToDpMultiple(s, dp, padLen, padHandle)) = RoundedUp(Len(s), dp)
  <2>1. \A s \in Seq(W) :
          /\ PadToDpMultiple(s, dp, padLen, padHandle) \in Seq(W \cup {PaddingRow(padLen, padHandle)})
          /\ Len(PadToDpMultiple(s, dp, padLen, padHandle)) = RoundedUp(Len(s), dp)
    BY ONLY \A w \in W : w.paths # <<>>, dp \in Nat \ {0}, PaddedBatch
  <2> QED BY ONLY <1>1, <2>1
<1>3. dealt \in Seq(Seq(V)) /\ dealt # <<>> BY <1>2, DealtLists
<1> QED BY <1>1, <1>3

---------------------------------------------------------------------------
(* The invariant *)

\* Rows as the routing of a forward needs them.
Paths == {paths \in Seq(Seq(Nat)) : paths # <<>> /\ Last(paths) # <<>>}
Row == [index : Int, traj : Int, len : Nat, paths : Paths]
HandlesOf(row) == UNION {ToSet(row.paths[p]) : p \in DOMAIN row.paths}
Identified(rows) == \A x, y \in rows : KeyOf(x) = KeyOf(y) => x.paths = y.paths

\* The rows of the call, and those of the snapshot.
InPlay == UNION {UNION {ToSet(batches[r][b]) : b \in DOMAIN batches[r]} : r \in Ranks}
Saved == UNION {ToSet(snapshot.rows[r]) : r \in Ranks}

\* What a micro-batch is to be routed by.
Own(rows) == Ready([j \in DOMAIN rows |-> Recorded(rows[j].paths)])

Shape ==
    /\ calls \in Nat
    /\ DOMAIN pc = Ranks /\ DOMAIN batch = Ranks /\ DOMAIN batches = Ranks
    /\ DOMAIN micro = Ranks /\ DOMAIN routed = Ranks /\ DOMAIN fwd = Ranks /\ DOMAIN bwd = Ranks
    /\ DOMAIN merged_cache = Ranks /\ DOMAIN replay = Ranks
    /\ \A r \in Ranks : batches[r] \in Seq(Seq(Row))

\* The store holds every routing under its handle; the handles in play are live,
\* and a key stands for one row's paths.
StoreKept ==
    /\ \A h \in DOMAIN store : store[h] = NameOf(h)
    /\ PadHandle \in DOMAIN store /\ PadHandle \notin UniqueHandles(call.rows)
    /\ Identified(InPlay)
    /\ \A x \in InPlay : HandlesOf(x) \subseteq DOMAIN store
    /\ calls <= MaxCalls => \A x \in InPlay : HandlesOf(x) \subseteq Handles

\* So does a snapshot, until it is put back.
SnapshotKept ==
    (calls <= MaxCalls /\ snapshot # NoSnapshot) =>
        /\ \A r \in Ranks : snapshot.rows[r] \in Seq(Row)
        /\ Identified(Saved)
        /\ \A x \in Saved : HandlesOf(x) \subseteq DOMAIN snapshot.payload
        /\ \A h \in DOMAIN snapshot.payload : h \in Handles /\ snapshot.payload[h] = h

\* A batch that runs: what has been fetched is each row's own, what has been
\* forwarded was fetched, and the queue holds what was forwarded and not yet
\* recomputed.
Running(r) ==
    /\ micro[r] \in Seq(Seq(InPlay))
    /\ fwd[r] \in 0..Len(micro[r]) /\ bwd[r] \in 0..fwd[r]
    /\ DOMAIN routed[r] = DOMAIN micro[r]
    /\ \A i \in DOMAIN micro[r] : routed[r][i] \in {Pending, Own(micro[r][i])}
    /\ \A i \in 1..fwd[r] : routed[r][i] = Own(micro[r][i])
    /\ cfg.recompute => replay[r] = [k \in 1..(fwd[r] - bwd[r]) |-> Own(micro[r][bwd[r] + k]).rows]

RankKept(r) ==
    /\ batch[r] \in Nat \ {0}
    /\ pc[r] \in {"begin", "pass", "gather"} => batches[r] # <<>>
    /\ pc[r] \in {"split", "run", "update"} => batch[r] <= Len(batches[r])
    /\ pc[r] = "idle" => merged_cache[r] = <<>>
    /\ \A x \in InPlay : KeyOf(x) \in DOMAIN merged_cache[r] =>
                            merged_cache[r][KeyOf(x)] = Recorded(x.paths)
    /\ pc[r] = "run" => Running(r)
    /\ pc[r] \notin {"run", "raised"} => replay[r] = <<>>

WorkerInv ==
    /\ cfg \in Configs
    /\ cfg.r3 => /\ Shape /\ StoreKept /\ SnapshotKept
                 /\ \A r \in Ranks : RankKept(r)
                 /\ RoutingOwn

---------------------------------------------------------------------------
(* What leaves the invariant as it is *)

\* What the parts about the call, the store and the snapshot look at.
callState == <<cfg, calls, call, batches, store, snapshot>>

\* A step that leaves the call, the store and the snapshot alone leaves the rows
\* in play and what is kept of them.
LEMMA CallFrame ==
    ASSUME UNCHANGED callState
    PROVE  /\ Ranks' = Ranks /\ InPlay' = InPlay
           /\ StoreKept => StoreKept'
           /\ SnapshotKept => SnapshotKept'
<1>1. /\ cfg' = cfg /\ calls' = calls /\ call' = call /\ batches' = batches
      /\ store' = store /\ snapshot' = snapshot
  BY DEF callState
<1>2. Ranks' = Ranks BY <1>1 DEF Ranks
<1>3. InPlay' = InPlay BY <1>1, <1>2 DEF InPlay
<1>4. Saved' = Saved BY <1>1, <1>2 DEF Saved
<1>5. StoreKept => StoreKept' BY <1>1, <1>3 DEF StoreKept
<1>6. SnapshotKept => SnapshotKept' BY <1>1, <1>2, <1>4 DEF SnapshotKept
<1> QED BY <1>2, <1>3, <1>5, <1>6

\* What a rank's part looks at.
RankState(r) == <<pc[r], batch[r], micro[r], routed[r], fwd[r], bwd[r], merged_cache[r], replay[r]>>

\* A step that also leaves a rank alone leaves what is kept of the rank.
LEMMA RankFrame ==
    ASSUME NEW r \in Ranks, RankKept(r), UNCHANGED callState, RankState(r)' = RankState(r)
    PROVE  RankKept(r)'
<1>1. cfg' = cfg /\ batches' = batches BY DEF callState
<1>2. InPlay' = InPlay BY CallFrame
<1>3. /\ pc'[r] = pc[r] /\ batch'[r] = batch[r] /\ micro'[r] = micro[r] /\ routed'[r] = routed[r]
      /\ fwd'[r] = fwd[r] /\ bwd'[r] = bwd[r] /\ merged_cache'[r] = merged_cache[r]
      /\ replay'[r] = replay[r]
  BY DEF RankState
<1>4. Running(r) => Running(r)' BY <1>1, <1>2, <1>3 DEF Running
<1> QED BY <1>1, <1>2, <1>3, <1>4 DEF RankKept

\* A step of one rank, or of some, within a call.
LEMMA WithinCall ==
    ASSUME WorkerInv, cfg.r3, UNCHANGED callState,
           DOMAIN pc' = Ranks, DOMAIN batch' = Ranks, DOMAIN micro' = Ranks, DOMAIN routed' = Ranks,
           DOMAIN fwd' = Ranks, DOMAIN bwd' = Ranks, DOMAIN merged_cache' = Ranks,
           DOMAIN replay' = Ranks,
           \A r \in Ranks : RankKept(r)',
           RoutingOwn'
    PROVE  WorkerInv'
<1>1. cfg' = cfg /\ calls' = calls /\ batches' = batches BY DEF callState
<1>2. Ranks' = Ranks BY CallFrame
<1>3. Shape /\ StoreKept /\ SnapshotKept BY DEF WorkerInv
<1>4. Shape' BY <1>1, <1>2, <1>3 DEF Shape
<1>5. StoreKept' /\ SnapshotKept' BY <1>3, CallFrame
<1> QED BY <1>1, <1>2, <1>4, <1>5 DEF WorkerInv

\* A step that trains nothing leaves RoutingOwn.
LEMMA OwnFrame ==
    ASSUME RoutingOwn, cfg' = cfg, trained' = trained
    PROVE  RoutingOwn'
BY DEF RoutingOwn

\* The rows of the call.
LEMMA PlayRows ==
    ASSUME Shape
    PROVE  /\ InPlay \subseteq Row
           /\ \A r \in Ranks : \A b \in DOMAIN batches[r] : batches[r][b] \in Seq(InPlay)
<1>1. ASSUME NEW r \in Ranks, NEW b \in DOMAIN batches[r]
      PROVE  batches[r][b] \in Seq(Row) /\ batches[r][b] \in Seq(InPlay)
  <2>1. PICK s \in Seq(Row) : s = batches[r][b] BY DEF Shape
  <2>2. ToSet(s) \subseteq InPlay BY <2>1 DEF InPlay
  <2>3. \A i \in 1..Len(s) : s[i] \in InPlay BY <2>2 DEF ToSet
  <2>4. s \in Seq(InPlay) BY <2>1, <2>3
  <2> QED BY <2>1, <2>4
<1>2. ASSUME NEW x \in InPlay PROVE x \in Row
  <2>1. PICK r \in Ranks : \E b \in DOMAIN batches[r] : x \in ToSet(batches[r][b]) BY DEF InPlay
  <2>2. PICK b \in DOMAIN batches[r] : x \in ToSet(batches[r][b]) BY <2>1
  <2>3. PICK s \in Seq(Row) : s = batches[r][b] BY <1>1
  <2>4. PICK i \in DOMAIN s : x = s[i] BY <2>2, <2>3 DEF ToSet
  <2> QED BY <2>3, <2>4
<1> QED BY <1>1, <1>2

\* The batch a rank works on consists of rows in play.
LEMMA BatchRows ==
    ASSUME Shape, NEW r \in Ranks, RankKept(r), pc[r] \in {"split", "run", "update"}
    PROVE  Batch(r) \in Seq(InPlay)
<1>1. batch[r] \in 1..Len(batches[r]) /\ batches[r] \in Seq(Seq(Row)) BY DEF RankKept, Shape
<1>2. batch[r] \in DOMAIN batches[r] BY <1>1
<1> QED BY <1>2, PlayRows DEF Batch

\* Before the first call nothing is in play and the store holds the padding only.
LEMMA InitKept == Init => WorkerInv
<1> SUFFICES ASSUME Init PROVE WorkerInv OBVIOUS
<1>1. cfg \in Configs BY DEF Init
<1>2. InPlay = {} BY DEF Init, InPlay
<1>3. Shape BY DEF Init, Shape
<1>4. StoreKept
  <2>1. store = [h \in {PadHandle} |-> h] /\ call = NoCall BY DEF Init
  <2>2. DOMAIN store = {PadHandle} /\ store[PadHandle] = PadHandle BY <2>1
  <2>3. UniqueHandles(call.rows) = {} BY <2>1 DEF NoCall, UniqueHandles
  <2>4. PadHandle \in Nat /\ PadHandle <= Restored BY SampleAssumption DEF Handles
  <2>5. NameOf(PadHandle) = PadHandle BY <2>4, SampleAssumption DEF NameOf
  <2> QED BY <1>2, <2>2, <2>3, <2>5 DEF StoreKept, Identified
<1>5. SnapshotKept BY DEF Init, SnapshotKept
<1>6. ASSUME NEW r \in Ranks PROVE RankKept(r)
  <2>1. /\ pc[r] = "idle" /\ batch[r] = 1 /\ merged_cache[r] = <<>> /\ replay[r] = <<>> BY DEF Init
  <2> QED BY <1>2, <2>1 DEF RankKept
<1>7. RoutingOwn BY DEF Init, RoutingOwn
<1> QED BY <1>1, <1>3, <1>4, <1>5, <1>6, <1>7 DEF WorkerInv

\* A rank that goes to another place outside a batch's run.
LEMMA RankMoves ==
    ASSUME NEW r \in Ranks, RankKept(r), UNCHANGED callState,
           pc[r] \notin {"idle", "run", "raised"}, pc'[r] \notin {"idle", "run"},
           batch'[r] \in Nat \ {0},
           pc'[r] \in {"begin", "pass", "gather"} => batches[r] # <<>>,
           pc'[r] \in {"split", "update"} => batch'[r] <= Len(batches[r]),
           merged_cache'[r] = merged_cache[r], replay'[r] = replay[r]
    PROVE  RankKept(r)'
<1>1. cfg' = cfg /\ batches' = batches BY DEF callState
<1>2. InPlay' = InPlay BY CallFrame
<1> QED BY <1>1, <1>2 DEF RankKept

---------------------------------------------------------------------------
(* The driver *)

\* The rows of a call: those of the samples, with the paths of the samples.
LEMMA SampleRows ==
    ASSUME NEW samples \in SampleSets, NEW c \in Configs, c.r3,
           NEW rows, rows = Tensorize(samples)
    PROVE  /\ rows \in Seq(Row) /\ rows # <<>>
           /\ \A i \in DOMAIN rows : /\ rows[i].paths # <<>> /\ rows[i].traj \in Nat \cup {-1}
                                     /\ HandlesOf(rows[i]) \subseteq Handles \ {PadHandle}
                                     /\ KeyOf(rows[i]) \in Handles \ {PadHandle}
           /\ \A i, j \in DOMAIN rows : KeyOf(rows[i]) = KeyOf(rows[j]) => i = j
           /\ UniqueHandles(rows) \subseteq Handles \ {PadHandle}
<1> DEFINE H == Handles \ {PadHandle}
<1>1. H \subseteq Nat BY SampleAssumption DEF Handles
<1>2. samples \in Seq(Sample) /\ samples # <<>> BY SampleAssumption
<1>3. \A i \in DOMAIN samples :
          /\ samples[i].paths # <<>> /\ Last(samples[i].paths) # <<>>
          /\ \A j \in DOMAIN samples :
                Last(Last(samples[i].paths)) = Last(Last(samples[j].paths)) => i = j
  BY SampleAssumption
<1>4. PICK n \in Nat \ {0} : n = Len(samples) /\ DOMAIN samples = 1..n
  <2>1. Len(samples) \in Nat \ {0} /\ DOMAIN samples = 1..Len(samples) BY <1>2
  <2> QED BY <2>1
<1>5. rows = [i \in 1..n |-> [index |-> i - 1, traj |-> samples[i].traj,
                              len |-> samples[i].len, paths |-> samples[i].paths]]
  BY <1>4 DEF Tensorize
<1>6. ASSUME NEW i \in 1..n
      PROVE  /\ samples[i].traj \in Nat \cup {-1} /\ samples[i].len \in Nat
             /\ samples[i].paths \in Seq(Seq(H)) /\ samples[i].paths \in Paths
  <2>1. samples[i] \in Sample BY <1>2, <1>4
  <2>2. samples[i].paths \in Seq(Seq(H)) BY <2>1 DEF Sample
  <2>3. Seq(Seq(H)) \subseteq Seq(Seq(Nat))
    <3>1. Seq(H) \subseteq Seq(Nat)
      <4> HIDE DEF H
      <4> SUFFICES ASSUME NEW s \in Seq(H) PROVE s \in Seq(Nat) OBVIOUS
      <4>1. \A k \in 1..Len(s) : s[k] \in H OBVIOUS
      <4>2. \A k \in 1..Len(s) : s[k] \in Nat BY <1>1, <4>1
      <4> QED BY <4>2
    <3> QED BY <3>1
  <2> QED BY <1>3, <1>4, <2>1, <2>2, <2>3 DEF Sample, Paths
<1>7. ASSUME NEW i \in 1..n
      PROVE  /\ rows[i] \in Row /\ rows[i].paths = samples[i].paths /\ rows[i].traj = samples[i].traj
  BY <1>5, <1>6 DEF Row
<1>8. rows \in Seq(Row) /\ DOMAIN rows = 1..n /\ rows # <<>>
  <2>1. rows \in [1..n -> Row] BY <1>5, <1>7
  <2> QED BY <2>1
<1>9. ASSUME NEW i \in 1..n
      PROVE  HandlesOf(rows[i]) \subseteq H /\ KeyOf(rows[i]) \in H
  <2>1. PICK q \in Seq(Seq(H)) : q = rows[i].paths BY <1>6, <1>7
  <2>2. ASSUME NEW p \in DOMAIN q PROVE ToSet(q[p]) \subseteq H
    <3>1. q[p] \in Seq(H) BY <2>1
    <3> HIDE DEF H
    <3> QED BY <3>1 DEF ToSet
  <2>3. HandlesOf(rows[i]) \subseteq H BY <2>1, <2>2 DEF HandlesOf
  <2>4. q # <<>> /\ Last(q) # <<>> BY <1>3, <1>4, <1>7, <2>1
  <2>5. Last(q) \in Seq(H) BY <2>1, <2>4 DEF Last
  <2>6. Last(Last(q)) \in H
    <3> HIDE DEF H
    <3>1. PICK z \in Seq(H) : z = Last(q) BY <2>5
    <3>2. z # <<>> BY <2>4, <3>1
    <3>3. z[Len(z)] \in H BY <3>2
    <3> QED BY <3>1, <3>3 DEF Last
  <2>7. KeyOf(rows[i]) = Last(Last(q)) BY <2>1 DEF KeyOf, TrajKeyOf
  <2> QED BY <2>3, <2>6, <2>7
<1>10. \A i, j \in 1..n : KeyOf(rows[i]) = KeyOf(rows[j]) => i = j
  BY <1>3, <1>4, <1>7 DEF KeyOf, TrajKeyOf
<1>11. UniqueHandles(rows) \subseteq H
  <2>1. \A i \in 1..n : UNION {ToSet(rows[i].paths[p]) : p \in DOMAIN rows[i].paths} \subseteq H
    BY <1>9 DEF HandlesOf
  <2> QED BY <1>8, <2>1 DEF UniqueHandles
<1> QED BY <1>3, <1>4, <1>6, <1>7, <1>8, <1>9, <1>10, <1>11

\* train, eval, compute_logprobs, compute_values: each rank is dealt rows of the
\* call and of padding, whose handles are all put into the store.
LEMMA StartCallKept ==
    ASSUME WorkerInv, cfg.r3, NEW kind, NEW samples \in SampleSets, StartCall(kind, samples)
    PROVE  WorkerInv'
<1>1. Shape /\ StoreKept /\ SnapshotKept /\ \A r \in Ranks : RankKept(r) BY DEF WorkerInv
<1>2. PICK rows : rows = Tensorize(samples) OBVIOUS
<1>3. WithRouting(Tensorize(samples)) = rows BY <1>2 DEF WithRouting
<1>4. /\ Everyone("idle") /\ calls < MaxCalls /\ Groupable(Trajectories(rows))
      /\ store' = [h \in DOMAIN store \cup UniqueHandles(rows) |->
                      IF h \in UniqueHandles(rows) THEN h ELSE store[h]]
      /\ calls' = calls + 1 /\ trained' = {} /\ call'.rows = rows
      /\ pc' = [r \in Ranks |-> "begin"] /\ batch' = [r \in Ranks |-> 1]
      /\ UNCHANGED <<cfg, micro, routed, merged_cache, fwd, bwd, replay, snapshot>>
  BY <1>2, <1>3 DEF StartCall, fetching, spikes
<1>5. PICK shuffle, perms :
          /\ perms \in Shuffles(PaddedSizes(rows, cfg.gbs, cfg.dp), shuffle)
          /\ batches' = SplitSamplesForDp(rows, perms)
  BY <1>2, <1>3 DEF StartCall
<1>6. cfg' = cfg /\ Ranks' = Ranks BY <1>4 DEF Ranks
<1>7. /\ cfg \in Configs /\ cfg.dp \in Nat \ {0} /\ cfg.gbs \in Nat \ {0}
      /\ \A r \in Ranks : r \in 0..(cfg.dp - 1)
  <2>1. cfg \in Configs BY DEF WorkerInv
  <2>2. {cfg.dp, cfg.gbs} \subseteq Nat \ {0} BY <2>1, MegatronAssumption
  <2> QED BY <2>1, <2>2 DEF Ranks
<1> DEFINE H == Handles \ {PadHandle}
           W == ToSet(rows)
           Pad == PaddingRow(PaddingLength, PadHandle)
           V == W \cup {Pad}
<1>8. /\ rows \in Seq(Row) /\ rows # <<>>
      /\ \A i \in DOMAIN rows : /\ rows[i].paths # <<>> /\ rows[i].traj \in Nat \cup {-1}
                                /\ HandlesOf(rows[i]) \subseteq H /\ KeyOf(rows[i]) \in H
      /\ \A i, j \in DOMAIN rows : KeyOf(rows[i]) = KeyOf(rows[j]) => i = j
      /\ UniqueHandles(rows) \subseteq H
  BY <1>2, <1>7, SampleRows
<1>9. /\ W \subseteq Row
      /\ \A w \in W : /\ w.paths # <<>> /\ w.traj \in Nat \cup {-1}
                      /\ HandlesOf(w) \subseteq H /\ KeyOf(w) \in H
                      /\ HandlesOf(w) \subseteq UniqueHandles(rows)
      /\ Identified(W)
      /\ rows \in Seq(W)
  <2>1. W \subseteq Row BY <1>8 DEF ToSet
  <2>2. \A i \in DOMAIN rows : HandlesOf(rows[i]) \subseteq UniqueHandles(rows)
    BY DEF HandlesOf, UniqueHandles
  <2>3. Identified(W) BY <1>8 DEF Identified, ToSet
  <2>4. \A i \in DOMAIN rows : rows[i] \in W BY DEF ToSet
  <2>5. rows \in Seq(W)
    <3> HIDE DEF W
    <3> QED BY <1>8, <2>4
  <2> QED BY <1>8, <2>1, <2>2, <2>3, <2>5 DEF ToSet
<1>10. /\ Pad \in Row /\ HandlesOf(Pad) = {PadHandle} /\ KeyOf(Pad) = PadHandle
       /\ PadHandle \in Handles /\ PadHandle \in Nat
  <2>1. PadHandle \in Handles /\ PadHandle \in Nat BY SampleAssumption DEF Handles
  <2>2. PaddingLength \in Nat BY MegatronAssumption
  <2>3. PICK q : q = <<<<PadHandle>>>> OBVIOUS
  <2>4. q \in Seq(Seq(Nat)) /\ q # <<>> /\ Len(q) = 1 /\ q[1] = <<PadHandle>> BY <2>1, <2>3
  <2>5. Last(q) = <<PadHandle>> BY <2>4 DEF Last
  <2>6. Last(Last(q)) = PadHandle BY <2>5 DEF Last
  <2>7. q \in Paths BY <2>4, <2>5 DEF Paths
  <2>8. Pad = [index |-> -1, traj |-> -1, len |-> PaddingLength, paths |-> q]
    BY <2>3 DEF PaddingRow, Padding
  <2>9. Pad \in Row /\ Pad.paths = q BY <2>2, <2>7, <2>8 DEF Row
  <2>10. HandlesOf(Pad) = {PadHandle}
    <3>1. DOMAIN q = {1} /\ ToSet(q[1]) = {PadHandle} BY <2>3 DEF ToSet
    <3> HIDE DEF Pad
    <3> QED BY <2>9, <3>1 DEF HandlesOf
  <2>11. KeyOf(Pad) = PadHandle
    <3> HIDE DEF Pad
    <3> QED BY <2>6, <2>9 DEF KeyOf, TrajKeyOf
  <2> QED BY <2>1, <2>9, <2>10, <2>11
<1>11. /\ V \subseteq Row /\ Identified(V)
       /\ \A v \in V : /\ HandlesOf(v) \subseteq Handles
                       /\ HandlesOf(v) \subseteq {PadHandle} \cup UniqueHandles(rows)
  <2> HIDE DEF W, Pad
  <2>1. \A w \in W : KeyOf(w) # KeyOf(Pad) BY <1>9, <1>10
  <2>2. Identified(V) BY <1>9, <2>1 DEF Identified
  <2> QED BY <1>9, <1>10, <2>2
<1>12. batches' = [r \in Ranks |-> GlobalBatchesForDpRank(rows, cfg.gbs, cfg.dp, r, perms,
                                                          PaddingLength, PadHandle)]
  BY <1>5 DEF SplitSamplesForDp
<1>13. ASSUME NEW r \in Ranks PROVE batches'[r] \in Seq(Seq(V)) /\ batches'[r] # <<>>
  <2>1. PICK dealt : dealt = GlobalBatchesForDpRank(rows, cfg.gbs, cfg.dp, r, perms,
                                                    PaddingLength, PadHandle)
    OBVIOUS
  <2>2. PICK dp \in Nat \ {0} : dp = cfg.dp BY <1>7
  <2>3. PICK gbs \in Nat \ {0} : gbs = cfg.gbs BY <1>7
  <2>4. r \in 0..(dp - 1) BY <1>7, <2>2
  <2>5. perms \in Shuffles(PaddedSizes(rows, gbs, dp), shuffle) BY <1>5, <2>2, <2>3
  <2>6. dealt = GlobalBatchesForDpRank(rows, gbs, dp, r, perms, PaddingLength, PadHandle)
    BY <2>1, <2>2, <2>3
  <2>7. /\ \A w \in W : w.paths # <<>> /\ w.traj \in Nat \cup {-1}
        /\ rows \in Seq(W) /\ rows # <<>> /\ Groupable(Trajectories(rows))
    BY <1>4, <1>8, <1>9
  <2>8. dealt \in Seq(Seq(W \cup {PaddingRow(PaddingLength, PadHandle)})) /\ dealt # <<>>
    <3> HIDE DEF W
    <3> QED BY ONLY gbs \in Nat \ {0}, dp \in Nat \ {0}, <2>4, <2>5, <2>6, <2>7, DealtRows
  <2> QED BY <1>12, <2>1, <2>8
<1>14. InPlay' \subseteq V
  <2> HIDE DEF V
  <2>1. ASSUME NEW r \in Ranks, NEW b \in DOMAIN batches'[r] PROVE ToSet(batches'[r][b]) \subseteq V
    <3>1. PICK bs \in Seq(Seq(V)) : bs = batches'[r] BY <1>13
    <3>2. PICK s \in Seq(V) : s = bs[b] BY <3>1
    <3>3. ToSet(s) \subseteq V BY <3>2 DEF ToSet
    <3> QED BY <3>1, <3>2, <3>3
  <2> QED BY <1>6, <2>1 DEF InPlay
<1>15. Shape'
  <2>1. \A r \in Ranks : batches'[r] \in Seq(Seq(Row))
    <3> HIDE DEF V
    <3>1. Seq(V) \subseteq Seq(Row) BY <1>11
    <3>2. Seq(Seq(V)) \subseteq Seq(Seq(Row)) BY <3>1
    <3> QED BY <1>13, <3>2
  <2>2. DOMAIN pc' = Ranks /\ DOMAIN batch' = Ranks /\ DOMAIN batches' = Ranks BY <1>4, <1>12
  <2>3. calls' \in Nat BY <1>1, <1>4 DEF Shape
  <2> QED BY <1>1, <1>4, <1>6, <2>1, <2>2, <2>3 DEF Shape
<1>16. StoreKept'
  <2> HIDE DEF V
  <2>1. \A h \in DOMAIN store' : store'[h] = NameOf(h)
    <3>1. ASSUME NEW h \in UniqueHandles(rows) PROVE NameOf(h) = h
      <4>1. h \in Handles BY <1>8
      <4>2. h \in Nat /\ Restored \in Nat /\ h <= Restored BY <4>1, SampleAssumption DEF Handles
      <4> QED BY <4>2 DEF NameOf
    <3> QED BY <1>1, <1>4, <3>1 DEF StoreKept
  <2>2. PadHandle \in DOMAIN store' /\ PadHandle \notin UniqueHandles(call'.rows)
    BY <1>1, <1>4, <1>8 DEF StoreKept
  <2>3. Identified(InPlay') BY <1>11, <1>14 DEF Identified
  <2>4. \A x \in InPlay' : HandlesOf(x) \subseteq DOMAIN store'
    BY <1>4, <1>11, <1>14, <2>2
  <2>5. \A x \in InPlay' : HandlesOf(x) \subseteq Handles BY <1>11, <1>14
  <2> QED BY <2>1, <2>2, <2>3, <2>4, <2>5 DEF StoreKept, Identified
<1>17. SnapshotKept'
  <2>1. calls' <= MaxCalls => calls <= MaxCalls
    <3>1. MaxCalls \in Nat BY MegatronAssumption
    <3> QED BY <1>1, <1>4, <3>1 DEF Shape
  <2>2. snapshot' = snapshot /\ Saved' = Saved BY <1>4, <1>6 DEF Saved
  <2> QED BY <1>1, <1>6, <2>1, <2>2 DEF SnapshotKept
<1>18. ASSUME NEW r \in Ranks PROVE RankKept(r)'
  <2>1. pc[r] = "idle" BY <1>4 DEF Everyone
  <2>2. merged_cache'[r] = <<>> /\ replay'[r] = <<>> BY <1>1, <1>4, <2>1 DEF RankKept
  <2>3. pc'[r] = "begin" /\ batch'[r] = 1 BY <1>4
  <2>4. DOMAIN merged_cache'[r] = {} BY <2>2
  <2>5. batches'[r] # <<>> BY <1>13
  <2> QED BY <2>2, <2>3, <2>4, <2>5 DEF RankKept
<1>19. RoutingOwn' BY <1>4 DEF RoutingOwn
<1> QED BY <1>6, <1>7, <1>15, <1>16, <1>17, <1>18, <1>19 DEF WorkerInv

\* The end of a call: its handles leave the store when no row is in play.
LEMMA EndCallKept ==
    ASSUME WorkerInv, cfg.r3, EndCall
    PROVE  WorkerInv'
<1>1. Shape /\ StoreKept /\ SnapshotKept /\ \A r \in Ranks : RankKept(r) BY DEF WorkerInv
<1>2. /\ Everyone("done") /\ store' = [h \in DOMAIN store \ UniqueHandles(call.rows) |-> store[h]]
      /\ merged_cache' = [r \in Ranks |-> <<>>] /\ pc' = [r \in Ranks |-> "idle"]
      /\ call' = NoCall /\ micro' = [r \in Ranks |-> <<>>] /\ routed' = [r \in Ranks |-> <<>>]
      /\ batches' = [r \in Ranks |-> <<>>]
      /\ UNCHANGED <<cfg, calls, batch, fwd, bwd, replay, snapshot, trained>>
  BY DEF EndCall, spikes
<1>3. Ranks' = Ranks BY <1>2 DEF Ranks
<1>4. InPlay' = {}
  <2>1. \A r \in Ranks : DOMAIN batches'[r] = {} BY <1>2
  <2> QED BY <1>3, <2>1 DEF InPlay
<1>5. Shape'
  <2>1. \A r \in Ranks : batches'[r] \in Seq(Seq(Row)) BY <1>2
  <2> QED BY <1>1, <1>2, <1>3, <2>1 DEF Shape
<1>6. StoreKept'
  <2>1. UniqueHandles(call'.rows) = {} BY <1>2 DEF NoCall, UniqueHandles
  <2>2. PadHandle \in DOMAIN store' BY <1>1, <1>2 DEF StoreKept
  <2>3. \A h \in DOMAIN store' : store'[h] = NameOf(h) BY <1>1, <1>2 DEF StoreKept
  <2> QED BY <1>4, <2>1, <2>2, <2>3 DEF StoreKept, Identified
<1>7. SnapshotKept'
  <2>1. Saved' = Saved BY <1>2, <1>3 DEF Saved
  <2> QED BY <1>1, <1>2, <1>3, <2>1 DEF SnapshotKept
<1>8. ASSUME NEW r \in Ranks PROVE RankKept(r)'
  <2>1. pc[r] = "done" BY <1>2 DEF Everyone
  <2>2. pc'[r] = "idle" /\ merged_cache'[r] = <<>> /\ replay'[r] = <<>> BY <1>1, <1>2, <2>1 DEF RankKept
  <2> QED BY <1>1, <1>2, <1>4, <2>2 DEF RankKept
<1>9. RoutingOwn' BY <1>2, OwnFrame DEF WorkerInv
<1>10. cfg' \in Configs BY <1>2 DEF WorkerInv
<1> QED BY <1>3, <1>5, <1>6, <1>7, <1>8, <1>9, <1>10 DEF WorkerInv

\* A row of a snapshot, under its new handles.
RestoredPaths(paths) == [p \in DOMAIN paths |-> [k \in DOMAIN paths[p] |-> paths[p][k] + Restored]]

\* A restored row keeps its paths, its key and its handles, all of them renumbered.
LEMMA RestoredRow ==
    ASSUME NEW x \in Row, NEW y, y = [x EXCEPT !.paths = RestoredPaths(x.paths)]
    PROVE  /\ y \in Row /\ KeyOf(y) = KeyOf(x) + Restored /\ KeyOf(x) \in Nat
           /\ y.paths = RestoredPaths(x.paths)
           /\ HandlesOf(y) = {h + Restored : h \in HandlesOf(x)}
<1>1. PICK q \in Paths : q = x.paths BY DEF Row
<1>2. q \in Seq(Seq(Nat)) /\ q # <<>> /\ Last(q) # <<>> BY <1>1 DEF Paths
<1>3. PICK t : t = RestoredPaths(q) OBVIOUS
<1>4. Restored \in Nat BY SampleAssumption
<1>5. DOMAIN t = 1..Len(q) /\ \A p \in 1..Len(q) : t[p] = [k \in DOMAIN q[p] |-> q[p][k] + Restored]
  BY <1>2, <1>3 DEF RestoredPaths
<1>6. ASSUME NEW p \in 1..Len(q)
      PROVE  /\ t[p] \in Seq(Nat) /\ Len(t[p]) = Len(q[p]) /\ DOMAIN t[p] = DOMAIN q[p]
             /\ \A k \in DOMAIN q[p] : t[p][k] = q[p][k] + Restored
  <2>1. PICK s \in Seq(Nat) : s = q[p] BY <1>2
  <2>2. t[p] = [k \in 1..Len(s) |-> s[k] + Restored] BY <1>5, <2>1
  <2>3. \A k \in 1..Len(s) : s[k] + Restored \in Nat BY <1>4
  <2> QED BY <2>1, <2>2, <2>3
<1>7. t \in Seq(Seq(Nat)) /\ Len(t) = Len(q)
  <2>1. PICK n \in Nat : n = Len(q) BY ONLY <1>2
  <2>2. t \in [1..n -> Seq(Nat)]
    <3>1. t = [p \in 1..n |-> t[p]] BY <1>2, <1>3, <2>1 DEF RestoredPaths
    <3> QED BY <1>6, <2>1, <3>1
  <2> QED BY <2>1, <2>2
<1>8. PICK n \in Nat \ {0} : n = Len(q)
  <2>1. Len(q) \in Nat \ {0} BY <1>2
  <2> QED BY <2>1
<1>9. n \in 1..Len(q) /\ Last(q) = q[n] /\ Last(t) = t[n] BY <1>7, <1>8 DEF Last
<1>10. PICK s \in Seq(Nat) : s = q[n] BY <1>2, <1>9
<1>11. PICK m \in Nat \ {0} : m = Len(s) /\ m \in DOMAIN s
  <2>1. s # <<>> BY <1>2, <1>9, <1>10
  <2>2. Len(s) \in Nat \ {0} /\ Len(s) \in DOMAIN s BY <2>1
  <2> QED BY <2>2
<1>12. Last(Last(t)) = s[m] + Restored /\ Last(Last(q)) = s[m] /\ s[m] \in Nat
  BY <1>6, <1>9, <1>10, <1>11 DEF Last
<1>13. t \in Paths
  <2>1. t[n] \in Seq(Nat) /\ Len(t[n]) = m BY <1>6, <1>9, <1>10, <1>11
  <2>2. t # <<>> /\ Last(t) # <<>> BY <1>7, <1>8, <1>9, <1>11, <2>1
  <2> QED BY <1>7, <2>2 DEF Paths
<1>14. y \in Row /\ y.paths = t BY <1>1, <1>3, <1>13 DEF Row
<1>15. HandlesOf(y) = {h + Restored : h \in HandlesOf(x)}
  <2>1. DOMAIN q = 1..Len(q) BY <1>2
  <2>2. \A p \in DOMAIN q : ToSet(t[p]) = {h + Restored : h \in ToSet(q[p])}
    BY <1>6, <2>1 DEF ToSet
  <2>3. HandlesOf(y) = UNION {ToSet(t[p]) : p \in DOMAIN q} BY <1>5, <1>14, <2>1 DEF HandlesOf
  <2>4. HandlesOf(x) = UNION {ToSet(q[p]) : p \in DOMAIN q} BY <1>1 DEF HandlesOf
  <2>5. ASSUME NEW h \in HandlesOf(y) PROVE h \in {g + Restored : g \in HandlesOf(x)}
    <3>1. PICK p \in DOMAIN q : h \in ToSet(t[p]) BY <2>3
    <3>2. PICK g \in ToSet(q[p]) : h = g + Restored BY <2>2, <3>1
    <3> QED BY <2>4, <3>2
  <2>6. ASSUME NEW g \in HandlesOf(x) PROVE g + Restored \in HandlesOf(y)
    <3>1. PICK p \in DOMAIN q : g \in ToSet(q[p]) BY <2>4
    <3>2. g + Restored \in ToSet(t[p]) BY <2>2, <3>1
    <3> QED BY <2>3, <3>2
  <2> QED BY <2>5, <2>6
<1> QED BY <1>1, <1>3, <1>12, <1>14, <1>15 DEF KeyOf, TrajKeyOf

\* reproduce_spike: the rows of the snapshot are put in play under new handles.
LEMMA ReproduceSpikeKept ==
    ASSUME WorkerInv, cfg.r3, ReproduceSpike
    PROVE  WorkerInv'
<1>1. Shape /\ StoreKept /\ SnapshotKept /\ \A r \in Ranks : RankKept(r) BY DEF WorkerInv
<1>2. /\ Everyone("idle") /\ snapshot # NoSnapshot
      /\ calls' = MaxCalls + 1 /\ calls <= MaxCalls /\ call'.rows = <<>>
      /\ batches' = [r \in Ranks |-> <<RestoredRows(snapshot.rows[r])>>]
      /\ merged_cache' = [r \in Ranks |-> <<>>] /\ batch' = [r \in Ranks |-> 1]
      /\ pc' = [r \in Ranks |-> "split"] /\ trained' = {}
      /\ UNCHANGED <<cfg, micro, routed, fwd, bwd, replay, snapshot>>
  BY DEF ReproduceSpike, spikes
<1>3. store' = [h \in DOMAIN store \cup {k + Restored : k \in DOMAIN snapshot.payload} |->
                   IF h \in DOMAIN store THEN store[h] ELSE snapshot.payload[h - Restored]]
  BY DEF ReproduceSpike
<1>4. Ranks' = Ranks BY <1>2 DEF Ranks
<1>5. /\ \A r \in Ranks : snapshot.rows[r] \in Seq(Row)
      /\ Identified(Saved)
      /\ \A x \in Saved : HandlesOf(x) \subseteq DOMAIN snapshot.payload
      /\ \A h \in DOMAIN snapshot.payload : h \in Handles /\ snapshot.payload[h] = h
  BY <1>1, <1>2 DEF SnapshotKept
<1>6. MaxCalls \in Nat /\ ~(MaxCalls + 1 <= MaxCalls) BY MegatronAssumption
<1> DEFINE Again(x) == [x EXCEPT !.paths = RestoredPaths(x.paths)]
<1>7. Saved \subseteq Row
  <2>1. ASSUME NEW r \in Ranks PROVE ToSet(snapshot.rows[r]) \subseteq Row
    <3>1. PICK s \in Seq(Row) : s = snapshot.rows[r] BY <1>5
    <3> QED BY <3>1 DEF ToSet
  <2> QED BY <2>1 DEF Saved
<1>8. ASSUME NEW r \in Ranks
      PROVE  batches'[r] \in Seq(Seq(Row)) /\ Len(batches'[r]) = 1
             /\ \A b \in DOMAIN batches'[r] : ToSet(batches'[r][b]) \subseteq {Again(x) : x \in Saved}
  <2>1. PICK s \in Seq(Row) : s = snapshot.rows[r] BY <1>5
  <2>2. PICK t : t = RestoredRows(s) OBVIOUS
  <2>3. t = [i \in 1..Len(s) |-> Again(s[i])] BY <2>2 DEF RestoredRows, RestoredPaths
  <2>4. \A i \in 1..Len(s) : s[i] \in Row /\ s[i] \in Saved BY <2>1 DEF Saved, ToSet
  <2>5. \A i \in 1..Len(s) : Again(s[i]) \in Row BY <2>4, RestoredRow
  <2>6. t \in Seq(Row) /\ DOMAIN t = 1..Len(s)
    <3> HIDE DEF Again
    <3> QED BY <2>3, <2>5
  <2>7. ToSet(t) \subseteq {Again(x) : x \in Saved}
    <3> HIDE DEF Again
    <3> QED BY <2>3, <2>4 DEF ToSet
  <2>8. batches'[r] = <<t>> BY <1>2, <2>1, <2>2
  <2>9. <<t>> \in Seq(Seq(Row)) /\ Len(<<t>>) = 1 /\ DOMAIN <<t>> = {1} /\ <<t>>[1] = t BY <2>6
  <2> QED BY <2>7, <2>8, <2>9
<1>9. ASSUME NEW x \in InPlay' PROVE \E y \in Saved : x = Again(y)
  <2> HIDE DEF Again
  <2>1. PICK r \in Ranks : \E b \in DOMAIN batches'[r] : x \in ToSet(batches'[r][b])
    BY <1>4 DEF InPlay
  <2>2. PICK b \in DOMAIN batches'[r] : x \in ToSet(batches'[r][b]) BY <2>1
  <2> QED BY <1>8, <2>2
<1>10. Shape'
  <2>1. DOMAIN batches' = Ranks /\ DOMAIN merged_cache' = Ranks BY <1>2
  <2> QED BY <1>1, <1>2, <1>4, <1>6, <1>8, <2>1 DEF Shape
<1>11. StoreKept'
  <2>1. Restored \in Nat /\ \A h \in Handles : h \in Nat /\ 1 <= h /\ h <= Restored
    BY SampleAssumption DEF Handles
  <2>2. ASSUME NEW k \in DOMAIN snapshot.payload
        PROVE  snapshot.payload[(k + Restored) - Restored] = NameOf(k + Restored)
    <3>1. k \in Nat /\ 1 <= k /\ snapshot.payload[k] = k BY <1>5, <2>1
    <3>2. (k + Restored) - Restored = k /\ k + Restored > Restored BY <2>1, <3>1
    <3> QED BY <3>1, <3>2 DEF NameOf
  <2>3. \A h \in DOMAIN store' : store'[h] = NameOf(h) BY <1>1, <1>3, <2>2 DEF StoreKept
  <2>4. PadHandle \in DOMAIN store' BY <1>1, <1>3 DEF StoreKept
  <2>5. UniqueHandles(call'.rows) = {} BY <1>2 DEF UniqueHandles
  <2>6. ASSUME NEW x \in InPlay', NEW y \in InPlay', KeyOf(x) = KeyOf(y) PROVE x.paths = y.paths
    <3>1. PICK u \in Saved : x = Again(u) BY <1>9
    <3>2. PICK v \in Saved : y = Again(v) BY <1>9
    <3>3. /\ KeyOf(x) = KeyOf(u) + Restored /\ KeyOf(u) \in Nat /\ x.paths = RestoredPaths(u.paths)
      BY <1>7, <3>1, RestoredRow
    <3>4. /\ KeyOf(y) = KeyOf(v) + Restored /\ KeyOf(v) \in Nat /\ y.paths = RestoredPaths(v.paths)
      BY <1>7, <3>2, RestoredRow
    <3>5. KeyOf(u) = KeyOf(v)
      <4>1. PICK a \in Nat : a = KeyOf(u) BY <3>3
      <4>2. PICK b \in Nat : b = KeyOf(v) BY <3>4
      <4>3. a + Restored = b + Restored BY <2>6, <3>3, <3>4, <4>1, <4>2
      <4>4. a = b BY <2>1, <4>3
      <4> QED BY <4>1, <4>2, <4>4
    <3>6. u.paths = v.paths BY <1>5, <3>5 DEF Identified
    <3> QED BY <3>3, <3>4, <3>6
  <2>7. ASSUME NEW x \in InPlay' PROVE HandlesOf(x) \subseteq DOMAIN store'
    <3>1. PICK u \in Saved : x = Again(u) BY <1>9
    <3>2. HandlesOf(x) = {h + Restored : h \in HandlesOf(u)} BY <1>7, <3>1, RestoredRow
    <3>3. HandlesOf(u) \subseteq DOMAIN snapshot.payload BY <1>5
    <3> QED BY <1>3, <3>2, <3>3
  <2>8. ~(calls' <= MaxCalls) BY <1>2, <1>6
  <2> HIDE DEF Again
  <2> QED BY <2>3, <2>4, <2>5, <2>6, <2>7, <2>8 DEF StoreKept, Identified
<1>12. SnapshotKept' BY <1>2, <1>6 DEF SnapshotKept
<1>13. ASSUME NEW r \in Ranks PROVE RankKept(r)'
  <2>1. pc[r] = "idle" BY <1>2 DEF Everyone
  <2>2. replay'[r] = <<>> BY <1>1, <1>2, <2>1 DEF RankKept
  <2>3. pc'[r] = "split" /\ batch'[r] = 1 /\ merged_cache'[r] = <<>> BY <1>2
  <2>4. DOMAIN merged_cache'[r] = {} BY <2>3
  <2>5. Len(batches'[r]) = 1 BY <1>8
  <2> QED BY <2>2, <2>3, <2>4, <2>5 DEF RankKept
<1>14. RoutingOwn' BY <1>2 DEF RoutingOwn
<1>15. cfg' \in Configs BY <1>2 DEF WorkerInv
<1> QED BY <1>4, <1>10, <1>11, <1>12, <1>13, <1>14, <1>15 DEF WorkerInv

---------------------------------------------------------------------------
(* The workers: moves between batches *)

\* One rank goes elsewhere, outside a batch's run.
LEMMA MoveKept ==
    ASSUME WorkerInv, cfg.r3, NEW r \in Ranks, NEW place,
           UNCHANGED callState, UNCHANGED <<micro, routed, fwd, bwd, merged_cache, replay, trained>>,
           pc' = [pc EXCEPT ![r] = place], DOMAIN batch' = Ranks,
           \A s \in Ranks \ {r} : batch'[s] = batch[s],
           pc[r] \notin {"idle", "run", "raised"}, place \notin {"idle", "run"},
           batch'[r] \in Nat \ {0},
           place \in {"begin", "pass", "gather"} => batches[r] # <<>>,
           place \in {"split", "update"} => batch'[r] <= Len(batches[r])
    PROVE  WorkerInv'
<1>1. Shape /\ \A s \in Ranks : RankKept(s) BY DEF WorkerInv
<1>2. pc'[r] = place /\ DOMAIN pc' = Ranks /\ \A s \in Ranks \ {r} : pc'[s] = pc[s] BY <1>1 DEF Shape
<1>3. ASSUME NEW s \in Ranks PROVE RankKept(s)'
  <2>1. CASE s = r BY <1>1, <1>2, <2>1, RankMoves
  <2>2. CASE s # r BY <1>1, <1>2, <2>2, RankFrame DEF RankState
  <2> QED BY <2>1, <2>2
<1>4. RoutingOwn' BY OwnFrame DEF WorkerInv, callState
<1> QED BY <1>1, <1>2, <1>3, <1>4, WithinCall DEF Shape

\* BeginCall only moves the rank.
LEMMA BeginCallKept ==
    ASSUME WorkerInv, cfg.r3, NEW r \in Ranks, BeginCall(r)
    PROVE  WorkerInv'
<1>1. Shape /\ RankKept(r) BY DEF WorkerInv
<1>2. /\ pc[r] = "begin" /\ pc' = [pc EXCEPT ![r] = "pass"] /\ UNCHANGED callState
      /\ UNCHANGED <<batch, micro, routed, fwd, bwd, merged_cache, replay, trained>>
  BY DEF BeginCall, driver, fetching, spikes, callState
<1>3. batches[r] # <<>> /\ batch'[r] \in Nat \ {0} /\ DOMAIN batch' = Ranks
  BY <1>1, <1>2 DEF RankKept, Shape
<1>4. PICK place : place = "pass" OBVIOUS
<1>5. /\ pc' = [pc EXCEPT ![r] = place] /\ place \notin {"idle", "run"}
      /\ place \in {"begin", "pass", "gather"} => batches[r] # <<>>
      /\ place \in {"split", "update"} => batch'[r] <= Len(batches[r])
      /\ pc[r] \notin {"idle", "run", "raised"}
      /\ \A s \in Ranks \ {r} : batch'[s] = batch[s]
  BY <1>2, <1>3, <1>4
<1> QED BY <1>2, <1>3, <1>5, MoveKept

\* BeginPass moves the rank to the first batch of the pass.
LEMMA BeginPassKept ==
    ASSUME WorkerInv, cfg.r3, NEW r \in Ranks, BeginPass(r)
    PROVE  WorkerInv'
<1>1. Shape /\ RankKept(r) BY DEF WorkerInv
<1>2. /\ pc[r] = "pass" /\ pc' = [pc EXCEPT ![r] = "split"] /\ UNCHANGED callState
      /\ batch' = [batch EXCEPT ![r] = 1]
      /\ UNCHANGED <<micro, routed, fwd, bwd, merged_cache, replay, trained>>
  BY DEF BeginPass, driver, fetching, spikes, callState
<1>3. batch'[r] = 1 /\ DOMAIN batch' = Ranks /\ \A s \in Ranks \ {r} : batch'[s] = batch[s]
  BY <1>1, <1>2 DEF Shape
<1>4. 1 <= Len(batches[r])
  <2>1. batches[r] # <<>> /\ batches[r] \in Seq(Seq(Row)) BY <1>1, <1>2 DEF RankKept, Shape
  <2> QED BY <2>1
<1>5. PICK place : place = "split" OBVIOUS
<1>6. /\ pc' = [pc EXCEPT ![r] = place] /\ place \notin {"idle", "run"}
      /\ place \in {"begin", "pass", "gather"} => batches[r] # <<>>
      /\ place \in {"split", "update"} => batch'[r] <= Len(batches[r])
      /\ batch'[r] \in Nat \ {0} /\ pc[r] \notin {"idle", "run", "raised"}
  BY <1>2, <1>3, <1>4, <1>5
<1> QED BY <1>2, <1>3, <1>6, MoveKept

\* Gather moves the rank to its next pass, or ends its call.
LEMMA GatherKept ==
    ASSUME WorkerInv, cfg.r3, NEW r \in Ranks, Gather(r)
    PROVE  WorkerInv'
<1>1. Shape /\ RankKept(r) BY DEF WorkerInv
<1>2. /\ pc[r] = "gather" /\ UNCHANGED callState
      /\ pc' = [pc EXCEPT ![r] = IF pass[r] < Len(Passes) THEN "pass" ELSE "done"]
      /\ UNCHANGED <<batch, micro, routed, fwd, bwd, merged_cache, replay, trained>>
  BY DEF Gather, driver, fetching, spikes, callState
<1>3. batches[r] # <<>> /\ batch'[r] \in Nat \ {0} /\ DOMAIN batch' = Ranks
  BY <1>1, <1>2 DEF RankKept, Shape
<1>4. PICK place : place = (IF pass[r] < Len(Passes) THEN "pass" ELSE "done") OBVIOUS
<1>5. place \in {"pass", "done"} BY <1>4
<1>6. /\ pc' = [pc EXCEPT ![r] = place] /\ place \notin {"idle", "run"}
      /\ place \in {"begin", "pass", "gather"} => batches[r] # <<>>
      /\ place \in {"split", "update"} => batch'[r] <= Len(batches[r])
      /\ pc[r] \notin {"idle", "run", "raised"}
      /\ \A s \in Ranks \ {r} : batch'[s] = batch[s]
  BY <1>2, <1>3, <1>4, <1>5
<1> QED BY <1>2, <1>3, <1>6, MoveKept

\* The optimizer step: every rank goes on to its next batch or is done, and what
\* a snapshot keeps is what the store has for the rows in play.
LEMMA UpdateKept ==
    ASSUME WorkerInv, cfg.r3, NEW norm, Update(norm)
    PROVE  WorkerInv'
<1>1. Shape /\ StoreKept /\ SnapshotKept /\ \A r \in Ranks : RankKept(r) BY DEF WorkerInv
<1>2. /\ Everyone("update")
      /\ pc' = [r \in Ranks |-> IF batch[r] < Len(batches[r]) THEN "split" ELSE "done"]
      /\ batch' = [r \in Ranks |-> IF batch[r] < Len(batches[r]) THEN batch[r] + 1 ELSE batch[r]]
      /\ UNCHANGED <<cfg, calls, call, batches, store, micro, routed, fwd, bwd, merged_cache, replay, trained>>
      /\ snapshot' = snapshot \/ snapshot' = SpikeSnapshot
  BY DEF Update, driver, fetching
<1>3. Ranks' = Ranks /\ InPlay' = InPlay BY <1>2 DEF Ranks, InPlay
<1>4. ASSUME NEW r \in Ranks
      PROVE  /\ pc[r] = "update" /\ batch[r] \in Nat \ {0} /\ batches[r] \in Seq(Seq(Row))
             /\ Batch(r) \in Seq(InPlay)
  BY <1>1, <1>2, BatchRows DEF RankKept, Shape, Everyone
<1>5. Shape' BY <1>1, <1>2, <1>3 DEF Shape
<1>6. StoreKept' BY <1>1, <1>2, <1>3 DEF StoreKept
<1>7. SnapshotKept'
  <2>1. CASE snapshot' = snapshot
    <3>1. Saved' = Saved BY <1>3, <2>1 DEF Saved
    <3> QED BY <1>1, <1>2, <1>3, <2>1, <3>1 DEF SnapshotKept
  <2>2. CASE snapshot' = SpikeSnapshot
    <3> SUFFICES ASSUME calls <= MaxCalls
                 PROVE  /\ \A r \in Ranks : snapshot'.rows[r] \in Seq(Row)
                        /\ Identified(Saved')
                        /\ \A x \in Saved' : HandlesOf(x) \subseteq DOMAIN snapshot'.payload
                        /\ \A h \in DOMAIN snapshot'.payload : h \in Handles /\ snapshot'.payload[h] = h
      BY <1>2, <1>3 DEF SnapshotKept, Identified
    <3>1. snapshot'.rows = [r \in Ranks |-> Batch(r)] /\ snapshot'.payload = RoutingPayloads
      BY <2>2 DEF SpikeSnapshot
    <3>2. ASSUME NEW r \in Ranks
          PROVE  snapshot'.rows[r] \in Seq(Row) /\ ToSet(snapshot'.rows[r]) \subseteq InPlay
      <4>1. PICK s \in Seq(InPlay) : s = Batch(r) BY <1>4
      <4>2. InPlay \subseteq Row BY <1>1, PlayRows
      <4>3. \A i \in 1..Len(s) : s[i] \in InPlay OBVIOUS
      <4>4. \A i \in 1..Len(s) : s[i] \in Row BY <4>2, <4>3
      <4>5. s \in Seq(Row) BY <4>4
      <4>6. ToSet(s) \subseteq InPlay BY <4>3 DEF ToSet
      <4> QED BY <3>1, <4>1, <4>5, <4>6
    <3>3. Saved' \subseteq InPlay BY <1>3, <3>2 DEF Saved
    <3>4. Identified(Saved') BY <1>1, <3>3 DEF StoreKept, Identified
    <3>5. UNION {UniqueHandles(Batch(r)) : r \in Ranks} = UNION {HandlesOf(x) : x \in Saved'}
      <4>1. \A r \in Ranks : UniqueHandles(Batch(r)) = UNION {HandlesOf(x) : x \in ToSet(Batch(r))}
        BY DEF UniqueHandles, HandlesOf, ToSet
      <4>2. Saved' = UNION {ToSet(Batch(r)) : r \in Ranks} BY <1>3, <3>1 DEF Saved
      <4> QED BY <4>1, <4>2
    <3>6. /\ DOMAIN snapshot'.payload = UNION {HandlesOf(x) : x \in Saved'}
          /\ \A h \in DOMAIN snapshot'.payload : snapshot'.payload[h] = store[h]
      BY <3>1, <3>5 DEF RoutingPayloads
    <3>7. ASSUME NEW h \in DOMAIN snapshot'.payload PROVE h \in Handles /\ snapshot'.payload[h] = h
      <4>1. h \in Handles /\ h \in DOMAIN store BY <1>1, <3>3, <3>6 DEF StoreKept
      <4>2. NameOf(h) = h
        <5>1. h \in Nat /\ Restored \in Nat /\ h <= Restored BY <4>1, SampleAssumption DEF Handles
        <5> QED BY <5>1 DEF NameOf
      <4> QED BY <1>1, <3>6, <4>1, <4>2 DEF StoreKept
    <3> QED BY <3>2, <3>4, <3>6, <3>7
  <2> QED BY <1>2, <2>1, <2>2
<1>8. ASSUME NEW r \in Ranks PROVE RankKept(r)'
  <2>1. PICK n \in Nat : n = Len(batches[r]) BY <1>4
  <2>2. PICK b \in Nat \ {0} : b = batch[r] BY <1>4
  <2>3. /\ pc'[r] = IF b < n THEN "split" ELSE "done"
        /\ batch'[r] = IF b < n THEN b + 1 ELSE b
    BY <1>2, <2>1, <2>2
  <2>4. merged_cache'[r] = merged_cache[r] /\ replay'[r] = <<>> /\ batches'[r] = batches[r]
    BY <1>1, <1>2, <1>4 DEF RankKept
  <2> QED BY <1>1, <1>3, <1>4, <2>1, <2>2, <2>3, <2>4 DEF RankKept
<1>9. RoutingOwn' BY <1>2, OwnFrame DEF WorkerInv
<1>10. cfg' \in Configs BY <1>2 DEF WorkerInv
<1> QED BY <1>3, <1>5, <1>6, <1>7, <1>8, <1>9, <1>10 DEF WorkerInv

---------------------------------------------------------------------------
(* The workers: a batch is split *)

\* Ranks whose batches are split into micro-batches of rows in play begin to run:
\* nothing is fetched yet and the replay queue is empty.
LEMMA BeginsKept ==
    ASSUME WorkerInv, cfg.r3, NEW ranks \in SUBSET Ranks, NEW split, Begins(ranks, split),
           UNCHANGED callState, UNCHANGED <<batch, merged_cache, replay, trained>>,
           \A r \in ranks : pc[r] = "split" /\ split[r] \in Seq(Seq(InPlay))
    PROVE  WorkerInv'
<1>1. Shape /\ \A r \in Ranks : RankKept(r) BY DEF WorkerInv
<1>2. InPlay' = InPlay /\ cfg' = cfg /\ batches' = batches BY CallFrame DEF callState
<1>3. ASSUME NEW r \in Ranks PROVE RankKept(r)'
  <2>1. CASE r \in ranks
    <3>1. PICK s \in Seq(Seq(InPlay)) : s = split[r] BY <2>1
    <3>2. /\ micro'[r] = s /\ fwd'[r] = 0 /\ bwd'[r] = 0 /\ pc'[r] = "run"
          /\ routed'[r] = [i \in DOMAIN s |-> Pending]
      BY <2>1, <3>1 DEF Begins
    <3>3. replay'[r] = <<>> /\ replay[r] = <<>> BY <1>1, <2>1 DEF RankKept
    <3>4. <<>> = [k \in 1..(0 - 0) |-> Own(s[0 + k]).rows] OBVIOUS
    <3>5. Running(r)'
      <4>1. Len(s) \in Nat /\ 0 \in 0..Len(s) /\ 0 \in 0..0 /\ 1..0 = {} OBVIOUS
      <4>2. \A i \in DOMAIN s : routed'[r][i] = Pending BY <3>2
      <4> QED BY <1>2, <3>1, <3>2, <3>3, <3>4, <4>1, <4>2 DEF Running, Own
    <3> QED BY <1>1, <1>2, <2>1, <3>2, <3>5 DEF RankKept
  <2>2. CASE r \notin ranks
    <3>1. /\ micro'[r] = micro[r] /\ fwd'[r] = fwd[r] /\ bwd'[r] = bwd[r] /\ pc'[r] = pc[r]
          /\ routed'[r] = routed[r]
      BY <2>2 DEF Begins
    <3>2. RankState(r)' = RankState(r) BY <3>1 DEF RankState
    <3> QED BY <1>1, <3>2, RankFrame
  <2> QED BY <2>1, <2>2
<1>4. RoutingOwn' BY <1>2, OwnFrame DEF WorkerInv
<1>5. /\ DOMAIN pc' = Ranks /\ DOMAIN micro' = Ranks /\ DOMAIN routed' = Ranks
      /\ DOMAIN fwd' = Ranks /\ DOMAIN bwd' = Ranks
  BY DEF Begins
<1> QED BY <1>1, <1>3, <1>4, <1>5, WithinCall DEF Shape

\* Rows picked by sets of positions are rows.
LEMMA PickedRows ==
    ASSUME NEW V, NEW rows \in Seq(V), NEW parts \in Seq(SUBSET DOMAIN rows)
    PROVE  RowsOf(rows, parts) \in Seq(Seq(V))
<1>1. PICK n \in Nat : n = Len(rows) /\ DOMAIN rows = 1..n OBVIOUS
<1>2. PICK m \in Nat : m = Len(parts) /\ DOMAIN parts = 1..m OBVIOUS
<1>3. ASSUME NEW j \in 1..m PROVE SelectRows(rows, InOrder(parts[j])) \in Seq(V)
  <2>1. PICK S : S = parts[j] OBVIOUS
  <2>2. S \in SUBSET (1..n) BY <1>1, <1>2, <2>1
  <2>3. InOrder(S) \in Seq(S) BY <2>2, InOrderOf
  <2>4. PICK g \in Seq(S) : g = InOrder(S) BY <2>3
  <2>5. \A k \in 1..Len(g) : g[k] \in 1..n
    <3>1. \A k \in 1..Len(g) : g[k] \in S OBVIOUS
    <3> QED BY <2>2, <3>1
  <2>6. \A k \in 1..Len(g) : rows[g[k]] \in V BY <1>1, <2>5
  <2>7. SelectRows(rows, g) = [k \in 1..Len(g) |-> rows[g[k]]] BY DEF SelectRows
  <2>8. SelectRows(rows, g) \in Seq(V) BY <2>6, <2>7
  <2> QED BY <2>1, <2>4, <2>8
<1>4. RowsOf(rows, parts) = [j \in 1..m |-> SelectRows(rows, InOrder(parts[j]))] BY <1>2 DEF RowsOf
<1>5. RowsOf(rows, parts) \in [1..m -> Seq(V)] BY <1>3, <1>4
<1> QED BY <1>5

\* SplitDynamic: the partitions that passed the asserts select rows of the batch.
LEMMA SplitDynamicKept ==
    ASSUME WorkerInv, cfg.r3, SplitDynamic
    PROVE  WorkerInv'
<1>1. Shape /\ \A r \in Ranks : RankKept(r) BY DEF WorkerInv
<1>2. /\ UNCHANGED callState /\ UNCHANGED <<batch, merged_cache, replay, trained>>
      /\ \A r \in Ranks : pc[r] = "split"
  BY DEF SplitDynamic, driver, model, spikes, callState, Everyone
<1> DEFINE Count(r) == RoundedCount(AgreedCount(r), cfg.vpp, cfg.group)
<1>3. PICK parts :
          \/ /\ \A r \in Ranks : PartitionsChecked(parts[r], Count(r), Lens(r))
             /\ Begins(Ranks, [r \in Ranks |-> RowsOf(Batch(r), parts[r])])
          \/ /\ pc' = [r \in Ranks |-> "raised"]
             /\ UNCHANGED <<micro, routed, fwd, bwd>>
  <2>1. PICK parts :
            \/ /\ \A r \in Ranks : PartitionsChecked(parts[r], Count(r), Lens(r))
               /\ \E s \in {[r \in Ranks |-> RowsOf(Batch(r), parts[r])]} : Begins(Ranks, s)
            \/ /\ pc' = [r \in Ranks |-> "raised"]
               /\ UNCHANGED <<micro, routed, fwd, bwd>>
    BY DEF SplitDynamic
  <2>2. CASE \E s \in {[r \in Ranks |-> RowsOf(Batch(r), parts[r])]} : Begins(Ranks, s)
    <3>1. Begins(Ranks, [r \in Ranks |-> RowsOf(Batch(r), parts[r])]) BY <2>2
    <3> HIDE DEF Count
    <3> QED BY <2>1, <3>1
  <2> HIDE DEF Count
  <2> QED BY <2>1, <2>2
<1> HIDE DEF Count
<1>4. CASE /\ \A r \in Ranks : PartitionsChecked(parts[r], Count(r), Lens(r))
           /\ Begins(Ranks, [r \in Ranks |-> RowsOf(Batch(r), parts[r])])
  <2>1. PICK split : split = [r \in Ranks |-> RowsOf(Batch(r), parts[r])] OBVIOUS
  <2>2. ASSUME NEW r \in Ranks PROVE split[r] \in Seq(Seq(InPlay))
    <3>1. PICK rows \in Seq(InPlay) : rows = Batch(r) BY <1>1, <1>2, BatchRows
    <3>2. DOMAIN Lens(r) = DOMAIN rows BY <3>1 DEF Lens
    <3>3. parts[r] \in Seq((SUBSET DOMAIN rows) \ {{}}) BY <1>4, <3>2 DEF PartitionsChecked
    <3>4. PICK part : part = parts[r] OBVIOUS
    <3>5. \A j \in 1..Len(part) : part[j] \in SUBSET DOMAIN rows BY <3>3, <3>4
    <3>6. part \in Seq(SUBSET DOMAIN rows) BY <3>3, <3>4, <3>5
    <3>7. RowsOf(rows, part) \in Seq(Seq(InPlay)) BY <3>6, PickedRows
    <3> QED BY <2>1, <3>1, <3>4, <3>7
  <2>3. Begins(Ranks, split) BY <1>4, <2>1
  <2>4. Ranks \in SUBSET Ranks OBVIOUS
  <2> QED BY <1>2, <2>2, <2>3, <2>4, BeginsKept
<1>5. CASE pc' = [r \in Ranks |-> "raised"] /\ UNCHANGED <<micro, routed, fwd, bwd>>
  <2>1. cfg' = cfg /\ batches' = batches BY <1>2 DEF callState
  <2>2. \A r \in Ranks : RankKept(r)'
    <3> SUFFICES ASSUME NEW r \in Ranks PROVE RankKept(r)' OBVIOUS
    <3>1. pc[r] = "split" /\ pc'[r] = "raised" BY <1>2, <1>5
    <3>2. batch'[r] \in Nat \ {0} BY <1>1, <1>2 DEF RankKept
    <3> QED BY <1>1, <1>2, <1>5, <3>1, <3>2, RankMoves
  <2>3. RoutingOwn' BY <1>2, <2>1, OwnFrame DEF WorkerInv
  <2> QED BY <1>1, <1>2, <1>5, <2>2, <2>3, WithinCall DEF Shape
<1> QED BY <1>3, <1>4, <1>5

\* SplitStatic: consecutive runs of the batch.
LEMMA SplitStaticKept ==
    ASSUME WorkerInv, cfg.r3, NEW r \in Ranks, SplitStatic(r)
    PROVE  WorkerInv'
<1>1. Shape /\ RankKept(r) BY DEF WorkerInv
<1>2. /\ UNCHANGED callState /\ UNCHANGED <<batch, merged_cache, replay, trained>> /\ pc[r] = "split"
  BY DEF SplitStatic, driver, model, spikes, callState
<1>3. PICK rows \in Seq(InPlay) : rows = Batch(r) BY <1>1, <1>2, BatchRows
<1>4. PICK size \in Nat \ {0} : size = (IF Trains(r) THEN TrainMicro ELSE EvalMicro)
  BY MegatronAssumption
<1>5. PICK n \in Nat : n = Len(rows) OBVIOUS
<1>6. PICK m \in Nat : m = CeilDiv(n, size)
  <2>1. n + size - 1 \in Nat OBVIOUS
  <2> QED BY <2>1, Division DEF CeilDiv
<1>7. PICK s : s = [j \in 1..m |-> SubSeq(rows, (j - 1) * size + 1, Min({j * size, n}))] OBVIOUS
<1>8. ASSUME NEW j \in 1..m PROVE s[j] \in Seq(InPlay)
  <2>1. PICK a \in Nat : a = (j - 1) * size
    <3>1. j - 1 \in Nat OBVIOUS
    <3> QED BY <3>1
  <2>2. PICK b \in Nat : b = j * size OBVIOUS
  <2>3. PICK e : e = Min({b, n}) OBVIOUS
  <2>4. e \in Nat /\ e <= n
    <3>1. {b, n} \in SUBSET Nat /\ {b, n} # {} OBVIOUS
    <3>2. \E x \in {b, n} : \A y \in {b, n} : x <= y BY <3>1, LeastNatural
    <3>3. e \in {b, n} /\ \A y \in {b, n} : e <= y BY <2>3, <3>2 DEF Min
    <3> QED BY <3>1, <3>3
  <2>5. \A k \in (a + 1)..e : rows[k] \in InPlay BY <1>5, <2>4
  <2>6. SubSeq(rows, a + 1, e) \in Seq(InPlay) BY <1>5, <2>4, <2>5
  <2> QED BY <1>7, <2>1, <2>2, <2>3, <2>6
<1>9. s \in Seq(Seq(InPlay))
  <2>1. s \in [1..m -> Seq(InPlay)] BY <1>7, <1>8
  <2> QED BY <2>1
<1>10. PICK split : split = [q \in {r} |-> s] OBVIOUS
<1>11. Begins({r}, split) BY <1>3, <1>4, <1>5, <1>6, <1>7, <1>10 DEF SplitStatic
<1>12. split[r] \in Seq(Seq(InPlay)) /\ {r} \in SUBSET Ranks BY <1>9, <1>10
<1> QED BY <1>2, <1>11, <1>12, BeginsKept

---------------------------------------------------------------------------
(* The workers: a batch runs *)

\* What the store has for a row in play is what its rollout recorded.
LEMMA StoredIsRecorded ==
    ASSUME StoreKept, NEW x \in InPlay
    PROVE  Stored(x.paths) = Recorded(x.paths)
<1>1. PICK q : q = x.paths OBVIOUS
<1>2. ASSUME NEW p \in DOMAIN q, NEW k \in DOMAIN q[p] PROVE store[q[p][k]] = NameOf(q[p][k])
  <2>1. q[p][k] \in HandlesOf(x) BY <1>1 DEF HandlesOf, ToSet
  <2> QED BY <2>1 DEF StoreKept
<1>3. \A p \in DOMAIN q : [k \in DOMAIN q[p] |-> store[q[p][k]]] = [k \in DOMAIN q[p] |-> NameOf(q[p][k])]
  BY <1>2
<1>4. Stored(q) = Recorded(q) BY <1>3 DEF Stored, Recorded
<1> QED BY <1>1, <1>4

\* The parts of a running batch that a rank reads.
LEMMA RunningRows ==
    ASSUME WorkerInv, cfg.r3, NEW r \in Ranks, pc[r] = "run"
    PROVE  /\ Running(r) /\ RankKept(r)
           /\ \A i \in DOMAIN micro[r] : micro[r][i] \in Seq(InPlay)
           /\ DOMAIN micro[r] = 1..Len(micro[r]) /\ Len(micro[r]) \in Nat
<1>1. Running(r) /\ RankKept(r) BY DEF WorkerInv, RankKept
<1>2. PICK s \in Seq(Seq(InPlay)) : s = micro[r] BY <1>1 DEF Running
<1>3. DOMAIN s = 1..Len(s) /\ Len(s) \in Nat /\ \A i \in DOMAIN s : s[i] \in Seq(InPlay) OBVIOUS
<1> QED BY <1>1, <1>2, <1>3

\* FetchRouting: a row is given what the cache or the store has under its key, which
\* is its own, and what is new in the cache is right for every row with that key.
LEMMA FetchRoutingKept ==
    ASSUME WorkerInv, cfg.r3, NEW r \in Ranks, NEW i \in DOMAIN micro[r], FetchRouting(r, i)
    PROVE  WorkerInv'
<1>1. Shape /\ StoreKept /\ RankKept(r) /\ \A s \in Ranks : RankKept(s) BY DEF WorkerInv
<1>2. /\ pc[r] = "run" /\ UNCHANGED callState
      /\ UNCHANGED <<pc, batch, micro, fwd, bwd, replay, trained>>
  BY DEF FetchRouting, driver, model, spikes, callState
<1>3. Running(r) /\ micro[r][i] \in Seq(InPlay) BY <1>2, RunningRows
<1>4. PICK rows \in Seq(InPlay) : rows = micro[r][i] BY <1>3
<1>5. PICK cache : cache = merged_cache[r] OBVIOUS
<1>6. PICK misses : misses = Misses(r, i) /\ misses = {j \in DOMAIN rows : KeyOf(rows[j]) \notin DOMAIN cache}
  BY <1>4, <1>5 DEF Misses
<1>7. PICK new : new = {KeyOf(rows[j]) : j \in misses} OBVIOUS
<1>8. PICK fresh :
          /\ fresh = [key \in new \cup DOMAIN cache |->
                      IF key \in new
                      THEN Stored(rows[Min({j \in misses : KeyOf(rows[j]) = key})].paths)
                      ELSE cache[key]]
          /\ fresh = Merged(r, i)
  BY <1>4, <1>5, <1>6, <1>7 DEF Merged
<1>9. UniqueHandles([j \in misses |-> rows[j]]) \subseteq DOMAIN store
  <2>1. ASSUME NEW j \in misses PROVE HandlesOf(rows[j]) \subseteq DOMAIN store
    <3>1. rows[j] \in InPlay BY <1>6
    <3> QED BY <1>1, <3>1 DEF StoreKept
  <2> QED BY <2>1 DEF UniqueHandles, HandlesOf
<1>10. /\ routed' = [routed EXCEPT ![r] = [@ EXCEPT ![i] =
                        Ready([j \in DOMAIN rows |-> fresh[KeyOf(rows[j])]])]]
       /\ merged_cache' = [merged_cache EXCEPT ![r] = fresh]
  <2>1. UniqueHandles([j \in Misses(r, i) |-> micro[r][i][j]]) \subseteq DOMAIN store
    BY <1>4, <1>6, <1>9
  <2>2. /\ routed' = [routed EXCEPT ![r] = [@ EXCEPT ![i] =
                        Ready([j \in DOMAIN micro[r][i] |-> Merged(r, i)[KeyOf(micro[r][i][j])]])]]
        /\ merged_cache' = [merged_cache EXCEPT ![r] = Merged(r, i)]
    BY <2>1 DEF FetchRouting
  <2> QED BY <1>4, <1>8, <2>2
<1>11. ASSUME NEW x \in InPlay, KeyOf(x) \in DOMAIN fresh PROVE fresh[KeyOf(x)] = Recorded(x.paths)
  <2>1. CASE KeyOf(x) \in new
    <3>1. PICK S : S = {j \in misses : KeyOf(rows[j]) = KeyOf(x)} OBVIOUS
    <3>2. S \in SUBSET Nat /\ S # {}
      <4>1. misses \in SUBSET Nat BY <1>6
      <4>2. \E j \in misses : KeyOf(rows[j]) = KeyOf(x) BY <1>7, <2>1
      <4> QED BY <3>1, <4>1, <4>2
    <3>3. PICK k : k = Min(S) /\ k \in S BY <3>2, MinOfSome
    <3>4. rows[k] \in InPlay /\ KeyOf(rows[k]) = KeyOf(x) BY <1>6, <3>1, <3>3
    <3>5. rows[k].paths = x.paths BY <1>1, <3>4 DEF StoreKept, Identified
    <3>6. fresh[KeyOf(x)] = Stored(rows[k].paths) BY <1>8, <2>1, <3>1, <3>3
    <3>7. Stored(x.paths) = Recorded(x.paths) BY <1>1, StoredIsRecorded
    <3> QED BY <3>5, <3>6, <3>7
  <2>2. CASE KeyOf(x) \notin new
    <3>1. KeyOf(x) \in DOMAIN cache /\ fresh[KeyOf(x)] = cache[KeyOf(x)] BY <1>8, <1>11, <2>2
    <3> QED BY <1>1, <1>5, <3>1 DEF RankKept
  <2> QED BY <2>1, <2>2
<1>12. ASSUME NEW j \in DOMAIN rows PROVE fresh[KeyOf(rows[j])] = Recorded(rows[j].paths)
  <2>1. rows[j] \in InPlay OBVIOUS
  <2>2. KeyOf(rows[j]) \in DOMAIN fresh BY <1>6, <1>7, <1>8
  <2> QED BY <1>11, <2>1, <2>2
<1>13. Ready([j \in DOMAIN rows |-> fresh[KeyOf(rows[j])]]) = Own(rows)
  <2>1. [j \in DOMAIN rows |-> fresh[KeyOf(rows[j])]] = [j \in DOMAIN rows |-> Recorded(rows[j].paths)]
    BY <1>12
  <2> QED BY <2>1 DEF Own
<1>14. /\ DOMAIN routed' = Ranks /\ DOMAIN merged_cache' = Ranks /\ merged_cache'[r] = fresh
       /\ routed'[r] = [routed[r] EXCEPT ![i] = Own(rows)]
       /\ \A s \in Ranks \ {r} : routed'[s] = routed[s] /\ merged_cache'[s] = merged_cache[s]
  BY <1>1, <1>10, <1>13 DEF Shape
<1>15. InPlay' = InPlay /\ cfg' = cfg /\ batches' = batches BY <1>2, CallFrame DEF callState
<1>16. Running(r)'
  <2>1. DOMAIN routed'[r] = DOMAIN micro[r] BY <1>3, <1>14 DEF Running
  <2>2. ASSUME NEW k \in DOMAIN micro[r]
        PROVE  /\ routed'[r][k] \in {Pending, Own(micro[r][k])}
               /\ k \in 1..fwd[r] => routed'[r][k] = Own(micro[r][k])
    <3>1. CASE k = i BY <1>3, <1>4, <1>14, <3>1 DEF Running
    <3>2. CASE k # i
      <4>1. routed'[r][k] = routed[r][k] BY <1>3, <1>14, <3>2 DEF Running
      <4> QED BY <1>3, <4>1 DEF Running
    <3> QED BY <3>1, <3>2
  <2>3. \A k \in 1..fwd[r] : k \in DOMAIN micro[r] BY <1>2, <1>3, RunningRows DEF Running
  <2>4. \A k \in 1..fwd[r] : routed'[r][k] = Own(micro[r][k]) BY <2>2, <2>3
  <2> QED BY <1>2, <1>3, <1>15, <2>1, <2>2, <2>4 DEF Running, Own
<1>17. ASSUME NEW s \in Ranks PROVE RankKept(s)'
  <2>1. CASE s = r
    <3>1. \A x \in InPlay : KeyOf(x) \in DOMAIN merged_cache'[r] =>
                               merged_cache'[r][KeyOf(x)] = Recorded(x.paths)
      BY <1>11, <1>14
    <3> QED BY <1>1, <1>2, <1>15, <1>16, <2>1, <3>1 DEF RankKept
  <2>2. CASE s # r
    <3>1. RankState(s)' = RankState(s) BY <1>2, <1>14, <2>2 DEF RankState
    <3> QED BY <1>1, <1>2, <3>1, RankFrame
  <2> QED BY <2>1, <2>2
<1>18. RoutingOwn' BY <1>2, <1>15, OwnFrame DEF WorkerInv
<1> QED BY <1>1, <1>2, <1>14, <1>17, <1>18, WithinCall DEF Shape

\* A table of the first values of a function, with the next one appended, and
\* without its first.
LEMMA AppendTable ==
    ASSUME NEW n \in Nat, NEW f, NEW s, s = [k \in 1..n |-> f[k]]
    PROVE  Append(s, f[n + 1]) = [k \in 1..(n + 1) |-> f[k]]
<1>1. PICK A : A = {f[k] : k \in 1..(n + 1)} OBVIOUS
<1>2. \A k \in 1..n : k \in 1..(n + 1) /\ f[k] \in A BY <1>1
<1>3. s \in Seq(A) /\ Len(s) = n BY <1>2
<1>4. f[n + 1] \in A BY <1>1
<1>5. PICK t : t = Append(s, f[n + 1]) OBVIOUS
<1>6. t \in Seq(A) /\ Len(t) = n + 1 BY <1>3, <1>4, <1>5
<1>7. ASSUME NEW k \in 1..(n + 1) PROVE t[k] = f[k]
  <2>1. CASE k = n + 1 BY <1>3, <1>4, <1>5, <2>1
  <2>2. CASE k # n + 1
    <3>1. k \in 1..n BY <2>2
    <3> QED BY <1>3, <1>4, <1>5, <3>1
  <2> QED BY <2>1, <2>2
<1>8. t = [k \in 1..(n + 1) |-> t[k]] BY <1>6
<1> QED BY <1>5, <1>7, <1>8

\* The tail of a list that is given by its entries.
LEMMA TailTable ==
    ASSUME NEW n \in Nat \ {0}, NEW f, NEW s, s = [k \in 1..n |-> f[k]]
    PROVE  /\ Head(s) = f[1]
           /\ Tail(s) = [k \in 1..(n - 1) |-> f[k + 1]]
<1>1. PICK A : A = {f[k] : k \in 1..n} OBVIOUS
<1>2. s \in Seq(A) /\ Len(s) = n /\ s # <<>> BY <1>1
<1>3. PICK t : t = Tail(s) OBVIOUS
<1>4. t \in Seq(A) /\ Len(t) = n - 1
  <2>1. PICK m \in Nat : n = m + 1
    <3>1. n - 1 \in Nat /\ n = (n - 1) + 1 OBVIOUS
    <3> QED BY <3>1
  <2>2. Tail(s) \in Seq(A) /\ Len(Tail(s)) = Len(s) - 1 BY ONLY <1>2, n \in Nat \ {0}
  <2> QED BY <1>2, <1>3, <2>2
<1>5. \A k \in 1..(n - 1) : k + 1 \in 1..n /\ t[k] = s[k + 1] BY <1>2, <1>3
<1>6. t = [k \in 1..(n - 1) |-> t[k]] BY <1>4
<1>7. \A k \in 1..(n - 1) : t[k] = f[k + 1] BY <1>5
<1>8. [k \in 1..(n - 1) |-> t[k]] = [k \in 1..(n - 1) |-> f[k + 1]] BY <1>7
<1>9. Head(s) = f[1]
  <2>1. 1 \in 1..n OBVIOUS
  <2> QED BY <1>2, <2>1
<1> QED BY <1>3, <1>6, <1>8, <1>9

\* Forward: what is replayed was fetched, and joins the replay queue at its end.
LEMMA ForwardKept ==
    ASSUME WorkerInv, cfg.r3, NEW crew \in SUBSET Ranks, Forward(crew)
    PROVE  WorkerInv'
<1>1. Shape /\ \A r \in Ranks : RankKept(r) BY DEF WorkerInv
<1>2. /\ UNCHANGED callState /\ UNCHANGED <<batch, micro, routed, merged_cache, bwd, trained>>
      /\ \A r \in crew : ForwardNext(r) /\ routed[r][fwd[r] + 1] # Pending
  BY DEF Forward, driver, fetching, model, spikes, callState
<1>3. ASSUME NEW r \in crew
      PROVE  /\ pc[r] = "run" /\ fwd[r] + 1 \in 1..Len(micro[r])
             /\ routed[r][fwd[r] + 1] = Own(micro[r][fwd[r] + 1])
             /\ routed[r][fwd[r] + 1] # Lost
  <2>1. pc[r] = "run" /\ fwd[r] < Len(micro[r]) BY <1>2 DEF ForwardNext
  <2>2. Running(r) /\ DOMAIN micro[r] = 1..Len(micro[r]) /\ Len(micro[r]) \in Nat BY <2>1, RunningRows
  <2>3. PICK n \in Nat : n = Len(micro[r]) BY <2>2
  <2>4. PICK f \in 0..n : f = fwd[r] BY <2>2, <2>3 DEF Running
  <2>5. f + 1 \in 1..n BY <2>1, <2>3, <2>4
  <2>6. routed[r][f + 1] \in {Pending, Own(micro[r][f + 1])} BY <2>2, <2>3, <2>5 DEF Running
  <2>7. routed[r][f + 1] = Own(micro[r][f + 1]) BY <1>2, <2>4, <2>6
  <2>8. Own(micro[r][f + 1]).state = "ready" /\ Lost.state = "lost" BY DEF Own, Ready, Lost
  <2> QED BY <2>1, <2>3, <2>4, <2>5, <2>7, <2>8
<1>4. /\ fwd' = [r \in Ranks |-> IF r \in crew THEN fwd[r] + 1 ELSE fwd[r]]
      /\ replay' = [r \in Ranks |->
            IF r \in crew /\ cfg.r3 THEN Append(replay[r], routed[r][fwd[r] + 1].rows) ELSE replay[r]]
      /\ pc' = pc
  BY <1>3 DEF Forward
<1>5. InPlay' = InPlay /\ cfg' = cfg /\ batches' = batches BY <1>2, CallFrame DEF callState
<1>6. ASSUME NEW r \in Ranks PROVE RankKept(r)'
  <2>1. CASE r \notin crew
    <3>1. RankState(r)' = RankState(r) BY <1>2, <1>4, <2>1 DEF RankState
    <3> QED BY <1>1, <1>2, <3>1, RankFrame
  <2>2. CASE r \in crew
    <3>1. pc[r] = "run" /\ fwd[r] + 1 \in 1..Len(micro[r]) BY <1>3, <2>2
    <3>2. Running(r) /\ Len(micro[r]) \in Nat BY <3>1, RunningRows
    <3>3. PICK f \in Nat : f = fwd[r] BY <3>2 DEF Running
    <3>4. PICK b \in 0..f : b = bwd[r] BY <3>2, <3>3 DEF Running
    <3>5. fwd'[r] = f + 1 /\ bwd'[r] = b /\ b \in 0..(f + 1) /\ f + 1 \in 0..Len(micro[r])
      BY <1>2, <1>4, <2>2, <3>1, <3>2, <3>3, <3>4
    <3>6. routed[r][f + 1] = Own(micro[r][f + 1]) BY <1>3, <2>2, <3>3
    <3>7. \A i \in 1..(f + 1) : routed[r][i] = Own(micro[r][i])
      <4>1. \A i \in 1..(f + 1) : i \in 1..f \/ i = f + 1 OBVIOUS
      <4> QED BY <3>2, <3>3, <3>6, <4>1 DEF Running
    <3>8. ASSUME cfg.recompute
          PROVE  replay'[r] = [k \in 1..((f + 1) - b) |-> Own(micro[r][b + k]).rows]
      <4>1. PICK n \in Nat : n = f - b BY <3>4
      <4>2. PICK g : g = [k \in 1..(n + 1) |-> Own(micro[r][b + k]).rows] OBVIOUS
      <4>3. replay[r] = [k \in 1..n |-> g[k]]
        <5>1. replay[r] = [k \in 1..n |-> Own(micro[r][b + k]).rows]
          BY <3>2, <3>3, <3>4, <3>8, <4>1 DEF Running
        <5>2. \A k \in 1..n : g[k] = Own(micro[r][b + k]).rows BY <4>2
        <5> QED BY <5>1, <5>2
      <4>4. g[n + 1] = routed[r][f + 1].rows
        <5>1. n + 1 \in 1..(n + 1) /\ b + (n + 1) = f + 1 BY <4>1
        <5>2. g[n + 1] = Own(micro[r][b + (n + 1)]).rows BY <4>2, <5>1
        <5> QED BY <3>6, <5>1, <5>2
      <4>5. Append(replay[r], g[n + 1]) = [k \in 1..(n + 1) |-> g[k]] BY <4>3, AppendTable
      <4>6. replay'[r] = Append(replay[r], routed[r][f + 1].rows) BY <1>4, <2>2, <3>3
      <4>7. (f + 1) - b = n + 1 BY <4>1
      <4> QED BY <4>2, <4>4, <4>5, <4>6, <4>7
    <3>9. Running(r)'
      <4>1. /\ micro[r] \in Seq(Seq(InPlay)) /\ DOMAIN routed[r] = DOMAIN micro[r]
            /\ \A i \in DOMAIN micro[r] : routed[r][i] \in {Pending, Own(micro[r][i])}
        BY <3>2 DEF Running
      <4>2. micro' = micro /\ routed' = routed BY <1>2
      <4>3. \A i \in 1..fwd'[r] : routed'[r][i] = Own(micro'[r][i]) BY <3>5, <3>7, <4>2
      <4>4. cfg'.recompute => replay'[r] = [k \in 1..(fwd'[r] - bwd'[r]) |-> Own(micro'[r][bwd'[r] + k]).rows]
        BY <1>5, <3>5, <3>8, <4>2
      <4>5. fwd'[r] \in 0..Len(micro'[r]) /\ bwd'[r] \in 0..fwd'[r] BY <3>5, <4>2
      <4> QED BY <1>5, <4>1, <4>2, <4>3, <4>4, <4>5 DEF Running, Own
    <3> QED BY <1>1, <1>2, <1>4, <1>5, <3>1, <3>9 DEF RankKept
  <2> QED BY <2>1, <2>2
<1>7. RoutingOwn' BY <1>2, <1>5, OwnFrame DEF WorkerInv
<1> QED BY <1>1, <1>2, <1>4, <1>6, <1>7, WithinCall DEF Shape

\* Backward: the head of the replay queue is the routing of the micro-batch that is
\* recomputed, so what is recorded as trained is routed by its own.
LEMMA BackwardKept ==
    ASSUME WorkerInv, cfg.r3, NEW crew \in SUBSET Ranks, Backward(crew)
    PROVE  WorkerInv'
<1>1. Shape /\ \A r \in Ranks : RankKept(r) BY DEF WorkerInv
<1>2. /\ UNCHANGED callState /\ UNCHANGED <<pc, batch, micro, routed, merged_cache, fwd>>
      /\ \A r \in crew : BackwardNext(r)
      /\ bwd' = [r \in Ranks |-> IF r \in crew THEN bwd[r] + 1 ELSE bwd[r]]
      /\ trained' = trained \cup UNION {BackwardRows(r) : r \in crew}
      /\ replay' = [r \in Ranks |->
            IF r \in crew /\ cfg.r3 /\ cfg.recompute THEN Tail(replay[r]) ELSE replay[r]]
  BY DEF Backward, driver, fetching, model, spikes, callState
<1>3. InPlay' = InPlay /\ cfg' = cfg /\ batches' = batches BY <1>2, CallFrame DEF callState
<1>4. ASSUME NEW r \in crew
      PROVE  /\ pc[r] = "run" /\ Running(r) /\ fwd[r] \in Nat /\ bwd[r] \in Nat /\ bwd[r] + 1 \in 1..fwd[r]
             /\ routed[r][bwd[r] + 1] = Own(micro[r][bwd[r] + 1])
  <2>1. pc[r] = "run" /\ bwd[r] < fwd[r] BY <1>2 DEF BackwardNext
  <2>2. Running(r) /\ Len(micro[r]) \in Nat BY <2>1, RunningRows
  <2>3. PICK f \in Nat : f = fwd[r] BY <2>2 DEF Running
  <2>4. PICK b \in 0..f : b = bwd[r] BY <2>2, <2>3 DEF Running
  <2>5. b + 1 \in 1..f BY <2>1, <2>3, <2>4
  <2>6. \A i \in 1..f : routed[r][i] = Own(micro[r][i]) BY <2>2, <2>3 DEF Running
  <2>7. routed[r][b + 1] = Own(micro[r][b + 1]) BY <2>5, <2>6
  <2> QED BY <2>1, <2>2, <2>3, <2>4, <2>5, <2>7
\* With recompute the queue starts with the micro-batch that goes backward.
<1>5. ASSUME NEW r \in crew, cfg.recompute
      PROVE  /\ Head(replay[r]) = Own(micro[r][bwd[r] + 1]).rows
             /\ Tail(replay[r]) = [k \in 1..(fwd[r] - (bwd[r] + 1)) |-> Own(micro[r][bwd[r] + 1 + k]).rows]
  <2>1. PICK f \in Nat : f = fwd[r] BY <1>4
  <2>2. PICK b \in Nat : b = bwd[r] /\ b + 1 \in 1..f BY <1>4, <2>1
  <2>3. PICK n \in Nat \ {0} : n = f - b BY <2>2
  <2>4. PICK g : g = [k \in 1..n |-> Own(micro[r][b + k]).rows] OBVIOUS
  <2>5. replay[r] = [k \in 1..n |-> g[k]]
    <3>1. replay[r] = [k \in 1..n |-> Own(micro[r][b + k]).rows]
      BY <1>4, <1>5, <2>1, <2>2, <2>3 DEF Running
    <3> QED BY <2>4, <3>1
  <2>6. Head(replay[r]) = g[1] /\ Tail(replay[r]) = [k \in 1..(n - 1) |-> g[k + 1]] BY <2>5, TailTable
  <2>7. 1 \in 1..n /\ g[1] = Own(micro[r][b + 1]).rows BY <2>4
  <2>8. \A k \in 1..(n - 1) : g[k + 1] = Own(micro[r][b + 1 + k]).rows
    <3>1. \A k \in 1..(n - 1) : k + 1 \in 1..n /\ b + (k + 1) = b + 1 + k OBVIOUS
    <3> QED BY <2>4, <3>1
  <2>9. [k \in 1..(n - 1) |-> g[k + 1]] = [k \in 1..(n - 1) |-> Own(micro[r][b + 1 + k]).rows] BY <2>8
  <2>10. f - (b + 1) = n - 1 BY <2>2, <2>3
  <2> QED BY <2>1, <2>2, <2>6, <2>7, <2>9, <2>10
<1>6. ASSUME NEW r \in Ranks PROVE RankKept(r)'
  <2>1. CASE r \notin crew
    <3>1. RankState(r)' = RankState(r) BY <1>2, <2>1 DEF RankState
    <3> QED BY <1>1, <1>2, <3>1, RankFrame
  <2>2. CASE r \in crew
    <3>1. PICK f \in Nat : f = fwd[r] BY <1>4, <2>2
    <3>2. PICK b \in Nat : b = bwd[r] /\ b + 1 \in 1..f BY <1>4, <2>2, <3>1
    <3>3. bwd'[r] = b + 1 /\ fwd'[r] = f /\ b + 1 \in 0..f BY <1>2, <2>2, <3>1, <3>2
    <3>4. cfg.recompute => replay'[r] = [k \in 1..(f - (b + 1)) |-> Own(micro[r][b + 1 + k]).rows]
      BY <1>2, <1>5, <2>2, <3>1, <3>2
    <3>5. Running(r)'
      <4>1. /\ micro[r] \in Seq(Seq(InPlay)) /\ DOMAIN routed[r] = DOMAIN micro[r]
            /\ \A i \in DOMAIN micro[r] : routed[r][i] \in {Pending, Own(micro[r][i])}
            /\ \A i \in 1..fwd[r] : routed[r][i] = Own(micro[r][i])
            /\ fwd[r] \in 0..Len(micro[r])
        BY <1>4, <2>2 DEF Running
      <4>2. micro' = micro /\ routed' = routed /\ fwd' = fwd BY <1>2
      <4>3. cfg'.recompute => replay'[r] = [k \in 1..(fwd'[r] - bwd'[r]) |-> Own(micro'[r][bwd'[r] + k]).rows]
        BY <1>3, <3>3, <3>4, <4>2
      <4>4. bwd'[r] \in 0..fwd'[r] BY <3>3
      <4> QED BY <1>3, <4>1, <4>2, <4>3, <4>4 DEF Running, Own
    <3> QED BY <1>1, <1>2, <1>3, <1>4, <2>2, <3>5 DEF RankKept
  <2> QED BY <2>1, <2>2
<1>7. RoutingOwn'
  <2>1. ASSUME NEW r \in crew, NEW t \in BackwardRows(r)
        PROVE  t.routing = Recorded(t.row.paths) /\ t.replayed = Recorded(t.row.paths)
    <3>1. PICK rows : rows = micro[r][bwd[r] + 1] OBVIOUS
    <3>2. PICK again : again = (IF cfg.r3 /\ cfg.recompute THEN Head(replay[r])
                                                           ELSE routed[r][bwd[r] + 1].rows)
      OBVIOUS
    <3>3. PICK j \in DOMAIN rows :
              /\ t.row = rows[j]
              /\ t.routing = IF cfg.r3 THEN routed[r][bwd[r] + 1].rows[j] ELSE <<>>
              /\ t.replayed = IF cfg.r3 THEN again[j] ELSE <<>>
      <4>1. PICK j \in DOMAIN rows :
                t = [rank |-> r, batch |-> batch[r], micro |-> bwd[r] + 1, pos |-> j, row |-> rows[j],
                     weights |-> weights[r],
                     given |-> [f \in Fields |->
                         IF rows[j].index \in DOMAIN logprobs[r][f]
                         THEN logprobs[r][f][rows[j].index] ELSE <<>>],
                     routing |-> IF cfg.r3 THEN routed[r][bwd[r] + 1].rows[j] ELSE <<>>,
                     replayed |-> IF cfg.r3 THEN again[j] ELSE <<>>]
        BY ONLY t \in BackwardRows(r), <3>1, <3>2 DEF BackwardRows
      <4> QED BY <4>1
    <3>4. Own(rows).rows = [k \in DOMAIN rows |-> Recorded(rows[k].paths)]
      <4>1. PICK own : own = [k \in DOMAIN rows |-> Recorded(rows[k].paths)] OBVIOUS
      <4>2. Own(rows) = Ready(own) BY <4>1 DEF Own
      <4>3. Ready(own).rows = own BY ONLY DEF Ready
      <4> QED BY <4>1, <4>2, <4>3
    <3>5. routed[r][bwd[r] + 1].rows = Own(rows).rows BY <1>4, <3>1
    <3>6. again = Own(rows).rows BY <1>5, <3>1, <3>2, <3>5
    <3> QED BY <3>3, <3>4, <3>5, <3>6
  <2>2. \A t \in trained : t.routing = Recorded(t.row.paths) /\ t.replayed = Recorded(t.row.paths)
    BY DEF WorkerInv, RoutingOwn
  <2>3. \A t \in trained' : t.routing = Recorded(t.row.paths) /\ t.replayed = Recorded(t.row.paths)
    BY <1>2, <2>1, <2>2
  <2> QED BY <2>3 DEF RoutingOwn
<1> QED BY <1>1, <1>2, <1>6, <1>7, WithinCall DEF Shape

\* EndBatch: the replay queue of a batch that was recomputed in full is empty.
LEMMA EndBatchKept ==
    ASSUME WorkerInv, cfg.r3, NEW r \in Ranks, EndBatch(r)
    PROVE  WorkerInv'
<1>1. Shape /\ \A s \in Ranks : RankKept(s) BY DEF WorkerInv
<1>2. PICK place :
          place = CASE PassOf(r) = "train" -> "update"
                    [] PassOf(r) = "reproduce" -> "done"
                    [] ~Trains(r) /\ batch[r] < Len(batches[r]) -> "split"
                    [] OTHER -> "gather"
  OBVIOUS
<1>3. place \in {"update", "done", "gather"} \/ (place = "split" /\ batch[r] < Len(batches[r]))
  BY <1>2 DEF Trains
<1>4. /\ pc[r] = "run" /\ UNCHANGED callState
      /\ UNCHANGED <<micro, routed, fwd, bwd, merged_cache, trained>>
      /\ replay' = [replay EXCEPT ![r] = <<>>] /\ pc' = [pc EXCEPT ![r] = place]
      /\ batch' = [batch EXCEPT ![r] = IF pc'[r] = "split" THEN @ + 1 ELSE @]
  BY <1>2 DEF EndBatch, ClearedReplay, driver, fetching, model, spikes, callState
<1>5. /\ DOMAIN replay' = Ranks /\ DOMAIN pc' = Ranks /\ DOMAIN batch' = Ranks
      /\ replay'[r] = <<>> /\ pc'[r] = place
      /\ batch'[r] = (IF place = "split" THEN batch[r] + 1 ELSE batch[r])
      /\ \A s \in Ranks \ {r} : replay'[s] = replay[s] /\ pc'[s] = pc[s] /\ batch'[s] = batch[s]
  BY <1>1, <1>4 DEF Shape
<1>6. InPlay' = InPlay /\ cfg' = cfg /\ batches' = batches BY <1>4, CallFrame DEF callState
<1>7. ASSUME NEW s \in Ranks PROVE RankKept(s)'
  <2>1. CASE s = r
    <3>1. PICK n \in Nat : n = Len(batches[r])
      <4>1. batches[r] \in Seq(Seq(Row)) BY <1>1 DEF Shape
      <4> QED BY <4>1
    <3>2. PICK b \in 1..n : b = batch[r] BY <1>1, <1>4, <3>1 DEF RankKept
    <3>3. batches[r] # <<>> BY <3>1, <3>2
    <3>4. batch'[r] \in Nat \ {0} /\ (place = "split" => batch'[r] <= n)
          /\ (place = "update" => batch'[r] <= n)
      BY <1>3, <1>5, <3>1, <3>2
    <3>5. place \in {"update", "done", "gather", "split"} BY <1>3
    <3>6. \A x \in InPlay : KeyOf(x) \in DOMAIN merged_cache[r] =>
                               merged_cache[r][KeyOf(x)] = Recorded(x.paths)
      BY <1>1 DEF RankKept
    <3> QED BY <1>4, <1>5, <1>6, <2>1, <3>1, <3>3, <3>4, <3>5, <3>6 DEF RankKept
  <2>2. CASE s # r
    <3>1. RankState(s)' = RankState(s) BY <1>4, <1>5, <2>2 DEF RankState
    <3> QED BY <1>1, <1>4, <3>1, RankFrame
  <2> QED BY <2>1, <2>2
<1>8. RoutingOwn' BY <1>4, <1>6, OwnFrame DEF WorkerInv
<1> QED BY <1>1, <1>4, <1>5, <1>7, <1>8, WithinCall DEF Shape

---------------------------------------------------------------------------
(* The invariant holds *)

\* Every step keeps the invariant.
LEMMA NextKept == WorkerInv /\ [Next]_vars => WorkerInv'
<1> SUFFICES ASSUME WorkerInv, [Next]_vars PROVE WorkerInv' OBVIOUS
<1>1. CASE ~cfg.r3
  <2>1. cfg' = cfg
    <3>1. ASSUME NEW r \in Ranks, WorkerStep(r) PROVE cfg' = cfg
      <4>1. BeginCall(r) \/ BeginPass(r) => cfg' = cfg BY DEF BeginCall, BeginPass, driver
      <4>2. SplitStatic(r) \/ EndBatch(r) => cfg' = cfg BY DEF SplitStatic, EndBatch, driver
      <4>3. Gather(r) => cfg' = cfg BY DEF Gather, driver
      <4>4. \A i \in DOMAIN micro[r] : FetchRouting(r, i) => cfg' = cfg BY DEF FetchRouting, driver
      <4> QED BY <3>1, <4>1, <4>2, <4>3, <4>4 DEF WorkerStep
    <3>2. Compute => cfg' = cfg BY DEF Compute, Forward, Backward, driver
    <3>3. Collective => cfg' = cfg BY DEF Collective, SplitDynamic, Update, driver
    <3> QED BY <3>1, <3>2, <3>3 DEF Next, StartCall, ReproduceSpike, EndCall, vars, driver
  <2> QED BY <1>1, <2>1 DEF WorkerInv
<1>2. CASE cfg.r3
  <2>1. ASSUME NEW kind \in Kinds, NEW samples \in SampleSets, StartCall(kind, samples) PROVE WorkerInv'
    BY <1>2, <2>1, StartCallKept
  <2>2. CASE ReproduceSpike BY <1>2, <2>2, ReproduceSpikeKept
  <2>3. CASE EndCall BY <1>2, <2>3, EndCallKept
  <2>4. ASSUME NEW r \in Ranks, WorkerStep(r) PROVE WorkerInv'
    <3>1. CASE BeginCall(r) BY <1>2, <3>1, BeginCallKept
    <3>2. CASE BeginPass(r) BY <1>2, <3>2, BeginPassKept
    <3>3. CASE SplitStatic(r) BY <1>2, <3>3, SplitStaticKept
    <3>4. CASE EndBatch(r) BY <1>2, <3>4, EndBatchKept
    <3>5. CASE Gather(r) BY <1>2, <3>5, GatherKept
    <3>6. ASSUME NEW i \in DOMAIN micro[r], FetchRouting(r, i) PROVE WorkerInv'
      BY <1>2, <3>6, FetchRoutingKept
    <3> QED BY <2>4, <3>1, <3>2, <3>3, <3>4, <3>5, <3>6 DEF WorkerStep
  <2>5. CASE Compute
    <3>1. PICK crew \in Crews : Forward(crew) \/ Backward(crew) BY <2>5 DEF Compute
    <3>2. crew \in SUBSET Ranks BY DEF Crews
    <3> QED BY <1>2, <3>1, <3>2, ForwardKept, BackwardKept
  <2>6. CASE Collective
    <3>1. CASE SplitDynamic BY <1>2, <3>1, SplitDynamicKept
    <3>2. ASSUME NEW norm \in GradNorms \cup {NaN}, Update(norm) PROVE WorkerInv'
      BY <1>2, <3>2, UpdateKept
    <3> QED BY <2>6, <3>1, <3>2 DEF Collective
  <2>7. CASE UNCHANGED vars
    <3>1. /\ UNCHANGED callState /\ UNCHANGED <<pc, batch, micro, routed, fwd, bwd, merged_cache, replay, trained>>
      BY <2>7 DEF vars, driver, fetching, model, spikes, callState
    <3>2. Shape /\ \A r \in Ranks : RankKept(r) BY <1>2 DEF WorkerInv
    <3>3. \A r \in Ranks : RankKept(r)'
      <4> SUFFICES ASSUME NEW r \in Ranks PROVE RankKept(r)' OBVIOUS
      <4> QED BY <3>1, <3>2, RankFrame DEF RankState
    <3>4. RoutingOwn' BY <1>2, <3>1, OwnFrame DEF WorkerInv, callState
    <3> QED BY <1>2, <3>1, <3>2, <3>3, <3>4, WithinCall DEF Shape
  <2> QED BY <2>1, <2>2, <2>3, <2>4, <2>5, <2>6, <2>7 DEF Next
<1> QED BY <1>1, <1>2

\* The invariant holds in every state.
LEMMA WorkerInductive == Spec => []WorkerInv
BY InitKept, NextKept, PTL DEF Spec

\* The routers of every row that trains are given the routing that its own
\* rollout recorded, in the forward and in the recompute of the backward, however
\* many ranks, rows, passes and fetching threads there are (RoutingMaterialiser,
\* RoutingMergedCache and the router replay of forward_backward_batch).
THEOREM WorkerRoutesOwn == Spec => []RoutingOwn
<1>1. WorkerInv => RoutingOwn BY DEF WorkerInv, RoutingOwn
<1> QED BY <1>1, WorkerInductive, PTL

\* No fetch of a running batch finds a handle that is no longer in the store: the
\* controller frees the routing of a call only when every rank has left it.
RoutingAlive ==
    \A r \in Ranks : (cfg.r3 /\ pc[r] = "run") => \A i \in DOMAIN micro[r] : routed[r][i] # Lost

\* Therefore no fetch fails: whatever a thread of a rank still fetches, for this
\* call or for the replay of a spike, is in the store (RoutingMaterialiser).
THEOREM WorkerRoutingAlive == Spec => []RoutingAlive
<1>1. ASSUME WorkerInv PROVE RoutingAlive
  <2> SUFFICES ASSUME NEW r \in Ranks, cfg.r3, pc[r] = "run", NEW i \in DOMAIN micro[r]
               PROVE  routed[r][i] # Lost
    BY DEF RoutingAlive
  <2>1. routed[r][i] \in {Pending, Own(micro[r][i])} BY <1>1, RunningRows DEF Running
  <2>2. Pending.state = "pending" /\ Own(micro[r][i]).state = "ready" /\ Lost.state = "lost"
    BY DEF Pending, Own, Ready, Lost
  <2> QED BY <2>1, <2>2
<1> QED BY <1>1, WorkerInductive, PTL

---------------------------------------------------------------------------
(* Logprobs: the invariant *)

\* The rows a rank is dealt in a call, and the indices a list of rows or outputs has.
RowsAt(r) == UNION {ToSet(batches[r][b]) : b \in DOMAIN batches[r]}
Indices(list) == {list[j].index : j \in DOMAIN list}

\* The weights each logprobs pass of a train call is made with, and what it gives a
\* row with index x.
FieldWeights == [teacher |-> -1, ref |-> start.init, old |-> start.cur]
OutputFor(x, w) == [index |-> x, value |-> [row |-> x, weights |-> w]]

\* The weights the rank trains: while another policy is loaded, a CPU copy of them.
Swapped(r) ==
    \/ pc[r] \in {"split", "run", "gather", "raised"} /\ PassOf(r) \in {"teacher", "ref"}
    \/ pc[r] = "pass" /\ PassOf(r) = "old"
Current(r) == IF Swapped(r) THEN cpu_snapshots[r].cur_weights ELSE weights[r]

\* A pass of the call is under way.
PassKept(r) ==
    /\ pc[r] # "idle" => pass[r] \in 1..Len(Passes)
    /\ pc[r] = "begin" => pass[r] = 1
    /\ pc[r] = "update" => PassOf(r) = "train"
    /\ pc[r] = "gather" => PassOf(r) # "train"

\* The weights are the ones the call began with until it trains, and the reference
\* policy is that of the call once it has begun.
Resets == call.kind \in {"train", "sft"} /\ call.step % ResetInitEvery = 0
WeightsKept(r) ==
    /\ pc[r] = "begin" => weights[r] = start.cur
    /\ (call.kind = "train" /\ PassOf(r) # "train") => Current(r) = start.cur
    /\ cpu_snapshots[r] = [cur_weights |-> cpu_snapshots[r].cur_weights,
                           init_weights |-> cpu_snapshots[r].init_weights, teacher |-> -1]
    /\ cpu_snapshots[r].init_weights = start.init \/ (pc[r] = "begin" /\ Resets)

\* A batch that runs is cut into micro-batches that leave no row out.
Batched(r) ==
    /\ micro[r] \in Seq(Seq(RowsAt(r)))
    /\ fwd[r] \in 0..Len(micro[r]) /\ bwd[r] \in 0..fwd[r]
    /\ ToSet(Batch(r)) \subseteq UNION {ToSet(micro[r][i]) : i \in DOMAIN micro[r]}

\* A logprobs pass: the outputs are those of rows of the rank under the weights of
\* the pass, and every row that has been forwarded has one.
Collecting(r) ==
    /\ weights[r] = FieldWeights[PassOf(r)]
    /\ outputs[r] \in Seq({OutputFor(x.index, FieldWeights[PassOf(r)]) : x \in RowsAt(r)})
    /\ \A b \in DOMAIN batches[r] : (b < batch[r] \/ pc[r] = "gather") =>
           Indices(batches[r][b]) \subseteq Indices(outputs[r])
    /\ pc[r] = "run" => \A i \in 1..fwd[r] : Indices(micro[r][i]) \subseteq Indices(outputs[r])

\* Every sample of the rank has its logprobs of a field.
Logged(r, f) ==
    \A x \in RowsAt(r) : IsReal(x) =>
        /\ x.index \in DOMAIN logprobs[r][f]
        /\ logprobs[r][f][x.index] = [row |-> x.index, weights |-> FieldWeights[f]]

RankLogged(r) ==
    /\ batches[r] \in Seq(Seq(RowsAt(r))) /\ batches[r] # <<>>
    /\ batch[r] \in Nat \ {0}
    /\ pc[r] \in {"split", "run"} => batch[r] <= Len(batches[r])
    /\ DOMAIN logprobs[r] = Fields
    /\ \A k \in 1..(pass[r] - 1) : Logged(r, Passes[k])
    /\ pc[r] = "run" => Batched(r)
    /\ (pc[r] \in {"split", "run", "gather"} /\ PassOf(r) \in Fields) => Collecting(r)

LogPart(r) == PassKept(r) /\ WeightsKept(r) /\ (call.kind = "train" => RankLogged(r))

LogShape ==
    /\ DOMAIN pc = Ranks /\ DOMAIN pass = Ranks /\ DOMAIN batch = Ranks
    /\ DOMAIN micro = Ranks /\ DOMAIN fwd = Ranks /\ DOMAIN bwd = Ranks
    /\ DOMAIN weights = Ranks /\ DOMAIN cpu_snapshots = Ranks /\ DOMAIN outputs = Ranks
    /\ call.kind = "train" => DOMAIN logprobs = Ranks

LogInv ==
    /\ cfg \in Configs /\ call.kind \in Kinds \cup {"reproduce", "none"} /\ LogShape
    /\ Resets => start.init = start.cur
    /\ \A r, s \in Ranks : Current(r) = Current(s)
    /\ \A r \in Ranks : LogPart(r)
    /\ LogprobsAligned

---------------------------------------------------------------------------
(* Logprobs: what leaves the invariant as it is *)

\* What the parts of the invariant look at: of the call, and of a rank.
logState == <<cfg, call, start, batches>>
LogState(r) == <<pc[r], pass[r], batch[r], micro[r], fwd[r], bwd[r], weights[r], cpu_snapshots[r],
                 logprobs[r], outputs[r]>>

\* Within a call its passes and the rows of the ranks stay.
LEMMA LogCallFrame ==
    ASSUME UNCHANGED logState
    PROVE  /\ cfg' = cfg /\ call' = call /\ start' = start /\ batches' = batches
           /\ Ranks' = Ranks /\ Passes' = Passes /\ FieldWeights' = FieldWeights
           /\ Resets' = Resets /\ \A r \in Ranks : RowsAt(r)' = RowsAt(r)
<1>1. cfg' = cfg /\ call' = call /\ start' = start /\ batches' = batches BY DEF logState
<1> QED BY <1>1 DEF Ranks, Passes, TrainPasses, FieldWeights, Resets, RowsAt

\* A rank that a step leaves alone.
LEMMA LogRankFrame ==
    ASSUME NEW r \in Ranks, LogPart(r), UNCHANGED logState, LogState(r)' = LogState(r)
    PROVE  LogPart(r)' /\ Current(r)' = Current(r)
<1>1. /\ cfg' = cfg /\ call' = call /\ start' = start /\ batches' = batches
      /\ Ranks' = Ranks /\ Passes' = Passes /\ FieldWeights' = FieldWeights
      /\ Resets' = Resets /\ RowsAt(r)' = RowsAt(r)
  BY LogCallFrame
<1>2. /\ pc'[r] = pc[r] /\ pass'[r] = pass[r] /\ batch'[r] = batch[r] /\ micro'[r] = micro[r]
      /\ fwd'[r] = fwd[r] /\ bwd'[r] = bwd[r] /\ weights'[r] = weights[r]
      /\ cpu_snapshots'[r] = cpu_snapshots[r] /\ logprobs'[r] = logprobs[r]
      /\ outputs'[r] = outputs[r]
  BY DEF LogState
<1>3. PassOf(r)' = PassOf(r) /\ Batch(r)' = Batch(r) BY <1>1, <1>2 DEF PassOf, Batch
<1>4. Current(r)' = Current(r) BY <1>2, <1>3 DEF Current, Swapped
<1>5. PassKept(r)' BY <1>1, <1>2, <1>3 DEF LogPart, PassKept
<1>6. WeightsKept(r)' BY <1>1, <1>2, <1>3, <1>4 DEF LogPart, WeightsKept
<1>7. Batched(r) => Batched(r)' BY <1>1, <1>2, <1>3 DEF Batched
<1>8. Collecting(r) => Collecting(r)' BY <1>1, <1>2, <1>3 DEF Collecting
<1>9. \A f : Logged(r, f) => Logged(r, f)' BY <1>1, <1>2 DEF Logged
<1>10. RankLogged(r) => RankLogged(r)' BY <1>1, <1>2, <1>3, <1>7, <1>8, <1>9 DEF RankLogged
<1> QED BY <1>1, <1>4, <1>5, <1>6, <1>10 DEF LogPart

\* A step within a call.
LEMMA LogWithin ==
    ASSUME LogInv, UNCHANGED logState, LogShape',
           \A r \in Ranks : LogPart(r)' /\ Current(r)' = Current(r),
           LogprobsAligned'
    PROVE  LogInv'
<1>1. /\ cfg' = cfg /\ call' = call /\ start' = start /\ Ranks' = Ranks /\ Resets' = Resets
  BY LogCallFrame
<1>2. \A r, s \in Ranks : Current(r)' = Current(s)' BY DEF LogInv
<1> QED BY <1>1, <1>2 DEF LogInv

\* A step that trains nothing leaves what was trained.
LEMMA AlignedFrame ==
    ASSUME LogprobsAligned, cfg' = cfg, call' = call, start' = start, trained' = trained
    PROVE  LogprobsAligned'
BY DEF LogprobsAligned, RealTrained

---------------------------------------------------------------------------
(* Logprobs: passes and rows *)

\* The passes of a train call, in order.
LEMMA TrainOrder ==
    ASSUME call.kind = "train"
    PROVE  Passes = IF cfg.teacher THEN <<"teacher", "ref", "old", "train">>
                                   ELSE <<"ref", "old", "train">>
BY DEF Passes, TrainPasses

\* What comes after a pass of a train call, and what the training pass finds done.
LEMMA TrainSteps ==
    ASSUME call.kind = "train", NEW k \in 1..Len(Passes)
    PROVE  /\ Passes[k] \in Fields \cup {"train"}
           /\ k = 1 => Passes[k] \in {"teacher", "ref"}
           /\ Passes[k] = "train" <=> k = Len(Passes)
           /\ Passes[k] = "teacher" => Passes[k + 1] = "ref"
           /\ Passes[k] = "ref" => Passes[k + 1] = "old"
           /\ Passes[k] = "old" => Passes[k + 1] = "train"
           /\ Passes[k] = "train" =>
                 /\ \E i \in 1..(k - 1) : Passes[i] = "ref"
                 /\ \E i \in 1..(k - 1) : Passes[i] = "old"
                 /\ cfg.teacher => \E i \in 1..(k - 1) : Passes[i] = "teacher"
<1>1. CASE cfg.teacher
  <2>1. PICK p : p = <<"teacher", "ref", "old", "train">> OBVIOUS
  <2>2. Passes = p BY <1>1, <2>1, TrainOrder
  <2>3. Len(p) = 4 /\ p[1] = "teacher" /\ p[2] = "ref" /\ p[3] = "old" /\ p[4] = "train" BY <2>1
  <2>4. k = 1 \/ k = 2 \/ k = 3 \/ k = 4 BY <2>2, <2>3
  <2>5. k = 4 => {1, 2, 3} \subseteq 1..(k - 1) OBVIOUS
  <2> QED BY <2>2, <2>3, <2>4, <2>5 DEF Fields
<1>2. CASE ~cfg.teacher
  <2>1. PICK p : p = <<"ref", "old", "train">> OBVIOUS
  <2>2. Passes = p BY <1>2, <2>1, TrainOrder
  <2>3. Len(p) = 3 /\ p[1] = "ref" /\ p[2] = "old" /\ p[3] = "train" BY <2>1
  <2>4. k = 1 \/ k = 2 \/ k = 3 BY <2>2, <2>3
  <2>5. k = 3 => {1, 2} \subseteq 1..(k - 1) OBVIOUS
  <2> QED BY <1>2, <2>2, <2>3, <2>4, <2>5 DEF Fields
<1> QED BY <1>1, <1>2

\* Other calls make one pass, which is not for logprobs of training.
LEMMA OtherPass ==
    ASSUME call.kind \in Kinds \cup {"reproduce", "none"}, call.kind # "train"
    PROVE  /\ Len(Passes) = 1
           /\ Passes[1] = IF call.kind = "sft" THEN "train" ELSE call.kind
           /\ Passes[1] \notin Fields
<1>1. CASE call.kind = "sft"
  <2>1. Passes = <<"train">> BY <1>1 DEF Passes, TrainPasses
  <2> QED BY <1>1, <2>1 DEF Fields
<1>2. CASE call.kind # "sft"
  <2>1. Passes = <<call.kind>> BY <1>2 DEF Passes
  <2>2. call.kind \notin Fields BY DEF Kinds, Fields
  <2> QED BY <1>2, <2>1, <2>2
<1> QED BY <1>1, <1>2

\* The positions of a set, in order, are all of them.
LEMMA InOrderAll ==
    ASSUME NEW n \in Nat, NEW S \in SUBSET (1..n), NEW x \in S
    PROVE  \E k \in DOMAIN InOrder(S) : InOrder(S)[k] = x
<1> DEFINE Upto(i) == {j \in S : j <= i}
<1>1. \A i \in S : i \in Nat OBVIOUS
<1>2. IsFiniteSet(S) /\ Cardinality(S) \in Nat
  <2>1. IsFiniteSet(1..n) BY FS_Interval
  <2> QED BY <2>1, FS_Subset, FS_CardinalityType
<1>3. PICK k : k = Cardinality(Upto(x)) OBVIOUS
<1>4. k \in 1..Cardinality(S)
  <2>1. Upto(x) \subseteq S /\ x \in Upto(x) BY <1>1
  <2>2. IsFiniteSet(Upto(x)) /\ Cardinality(Upto(x)) \in Nat /\ Cardinality(Upto(x)) <= Cardinality(S)
    <3> HIDE DEF Upto
    <3> QED BY <1>2, <2>1, FS_Subset, FS_CardinalityType
  <2>3. Cardinality(Upto(x)) # 0
    <3> HIDE DEF Upto
    <3> QED BY <2>1, <2>2, FS_EmptySet
  <2> QED BY <1>2, <1>3, <2>2, <2>3
<1>5. ASSUME NEW y \in S, Cardinality(Upto(y)) = k, y # x PROVE FALSE
  <2>1. ASSUME NEW a \in S, NEW b \in S, a < b, Cardinality(Upto(a)) = Cardinality(Upto(b)) PROVE FALSE
    <3>1. Upto(a) \cup {b} \subseteq Upto(b) /\ b \notin Upto(a)
      <4>1. a \in Nat /\ b \in Nat /\ a < b BY <1>1, <2>1
      <4>2. b <= b /\ ~(b <= a) BY <4>1
      <4>3. \A j \in S : j <= a => j <= b BY <1>1, <4>1
      <4> QED BY <4>2, <4>3
    <3>2. IsFiniteSet(Upto(a)) /\ IsFiniteSet(Upto(b)) BY <1>2, FS_Subset
    <3>3. Cardinality(Upto(a) \cup {b}) = Cardinality(Upto(a)) + 1
      <4> HIDE DEF Upto
      <4> QED BY <3>1, <3>2, FS_AddElement
    <3>4. Cardinality(Upto(a) \cup {b}) <= Cardinality(Upto(b))
      <4> HIDE DEF Upto
      <4> QED BY <3>1, <3>2, FS_Subset
    <3>5. Cardinality(Upto(a)) \in Nat
      <4> HIDE DEF Upto
      <4> QED BY <3>2, FS_CardinalityType
    <3> HIDE DEF Upto
    <3> QED BY <2>1, <3>3, <3>4, <3>5
  <2>2. x < y \/ y < x BY <1>1, <1>5
  <2> HIDE DEF Upto
  <2> QED BY <1>3, <1>5, <2>1, <2>2
<1>6. InOrder(S) = [m \in 1..Cardinality(S) |-> CHOOSE i \in S : Cardinality(Upto(i)) = m] BY DEF InOrder
<1>7. InOrder(S)[k] = CHOOSE i \in S : Cardinality(Upto(i)) = k BY <1>4, <1>6
<1>8. InOrder(S)[k] = x
  <2> HIDE DEF Upto
  <2> QED BY <1>3, <1>5, <1>7
<1> QED BY <1>4, <1>6, <1>8

\* Partitions of all positions leave no row out.
LEMMA PickedAll ==
    ASSUME NEW V, NEW rows \in Seq(V), NEW parts \in Seq(SUBSET DOMAIN rows),
           UNION {parts[j] : j \in DOMAIN parts} = DOMAIN rows
    PROVE  ToSet(rows) \subseteq UNION {ToSet(RowsOf(rows, parts)[j]) : j \in DOMAIN RowsOf(rows, parts)}
<1>1. PICK n \in Nat : n = Len(rows) /\ DOMAIN rows = 1..n OBVIOUS
<1>2. PICK split : split = RowsOf(rows, parts) OBVIOUS
<1>3. DOMAIN split = DOMAIN parts /\ \A j \in DOMAIN parts : split[j] = SelectRows(rows, InOrder(parts[j]))
  BY <1>2 DEF RowsOf
<1>4. ASSUME NEW i \in DOMAIN rows PROVE \E j \in DOMAIN split : rows[i] \in ToSet(split[j])
  <2>1. PICK j \in DOMAIN parts : i \in parts[j] OBVIOUS
  <2>2. PICK S : S = parts[j] /\ i \in S BY <2>1
  <2>3. S \in SUBSET (1..n) BY <1>1, <2>2
  <2>4. PICK g : g = InOrder(S) OBVIOUS
  <2>5. PICK k \in DOMAIN g : g[k] = i BY <2>2, <2>3, <2>4, InOrderAll
  <2>6. split[j] = [m \in DOMAIN g |-> rows[g[m]]] BY <1>3, <2>2, <2>4 DEF SelectRows
  <2>7. rows[i] \in ToSet(split[j]) BY <2>5, <2>6 DEF ToSet
  <2> QED BY <1>3, <2>7
<1> QED BY <1>2, <1>4 DEF ToSet

\* What a slice of a list holds.
LEMMA SliceOf ==
    ASSUME NEW V, NEW rows \in Seq(V), NEW a \in Nat, NEW e \in Nat, e <= Len(rows)
    PROVE  /\ SubSeq(rows, a + 1, e) \in Seq(V)
           /\ \A k \in Nat \ {0} : a + k <= e =>
                 k \in DOMAIN SubSeq(rows, a + 1, e) /\ SubSeq(rows, a + 1, e)[k] = rows[a + k]
<1>1. \A k \in (a + 1)..e : rows[k] \in V OBVIOUS
<1>2. PICK t : t = SubSeq(rows, a + 1, e) OBVIOUS
<1>3. t \in Seq(V) BY <1>1, <1>2
<1>4. ASSUME NEW k \in Nat \ {0}, a + k <= e PROVE k \in DOMAIN t /\ t[k] = rows[a + k]
  <2>1. Len(t) = e - a BY <1>2, <1>4
  <2>2. k \in 1..Len(t) BY <1>4, <2>1
  <2>3. t[k] = rows[(a + 1) + k - 1] BY <1>2, <1>4
  <2>4. (a + 1) + k - 1 = a + k OBVIOUS
  <2>5. DOMAIN t = 1..Len(t) BY <1>3
  <2> QED BY <2>2, <2>3, <2>4, <2>5
<1> QED BY <1>2, <1>3, <1>4

\* Consecutive runs of size rows, the last one shorter: lists of rows that leave no
\* row out.
LEMMA ChunkRows ==
    ASSUME NEW V, NEW rows \in Seq(V), NEW size \in Nat \ {0}
    PROVE  /\ CeilDiv(Len(rows), size) \in Nat
           /\ \A j \in 1..CeilDiv(Len(rows), size) :
                 SubSeq(rows, (j - 1) * size + 1, Min({j * size, Len(rows)})) \in Seq(V)
           /\ \A x \in ToSet(rows) : \E j \in 1..CeilDiv(Len(rows), size) :
                 x \in ToSet(SubSeq(rows, (j - 1) * size + 1, Min({j * size, Len(rows)})))
<1>1. PICK n \in Nat : n = Len(rows) /\ DOMAIN rows = 1..n OBVIOUS
<1>2. PICK m \in Nat : m = CeilDiv(n, size) /\ n <= size * m
  <2>1. PICK a \in Nat : a = n + size - 1 OBVIOUS
  <2>2. PICK q \in Nat : q = a \div size BY Division
  <2>3. PICK k \in 0..(size - 1) : k = a % size BY Division
  <2>4. a = size * q + k BY <2>2, <2>3, Division
  <2>5. PICK x \in Nat : x = size * q OBVIOUS
  <2>6. n <= x BY <2>1, <2>4, <2>5
  <2> QED BY <2>1, <2>2, <2>5, <2>6 DEF CeilDiv
<1>3. PICK s : s = [j \in 1..m |-> SubSeq(rows, (j - 1) * size + 1, Min({j * size, n}))] OBVIOUS
<1>4. ASSUME NEW j \in 1..m
      PROVE  /\ s[j] \in Seq(V)
             /\ \E a \in Nat : /\ a = (j - 1) * size
                               /\ \A k \in 1..size : a + k <= n => k \in DOMAIN s[j] /\ s[j][k] = rows[a + k]
  <2>1. PICK a \in Nat : a = (j - 1) * size
    <3>1. j - 1 \in Nat OBVIOUS
    <3> QED BY <3>1
  <2>2. PICK b \in Nat : b = j * size OBVIOUS
  <2>3. b = a + size
    <3>1. PICK h \in Nat : j = h + 1
      <4>1. j - 1 \in Nat /\ j = (j - 1) + 1 OBVIOUS
      <4> QED BY <4>1
    <3>2. j - 1 = h BY <3>1
    <3>3. (h + 1) * size = h * size + size OBVIOUS
    <3> QED BY <2>1, <2>2, <3>1, <3>2, <3>3
  <2>4. PICK e \in Nat : e = Min({b, n}) /\ e <= n /\ e \in {b, n}
    <3>1. {b, n} \in SUBSET Nat /\ {b, n} # {} OBVIOUS
    <3>2. \E x \in {b, n} : \A y \in {b, n} : x <= y BY <3>1, LeastNatural
    <3>3. PICK e : e = Min({b, n}) OBVIOUS
    <3>4. e \in {b, n} /\ \A y \in {b, n} : e <= y BY <3>2, <3>3 DEF Min
    <3> QED BY <3>1, <3>3, <3>4
  <2>5. s[j] = SubSeq(rows, a + 1, e) BY <1>3, <2>1, <2>2, <2>4
  <2>6. PICK t : t = SubSeq(rows, a + 1, e) OBVIOUS
  <2>7. t \in Seq(V) /\ \A k \in Nat \ {0} : a + k <= e => k \in DOMAIN t /\ t[k] = rows[a + k]
    <3>1. e <= Len(rows) BY <1>1, <2>4
    <3> QED BY ONLY rows \in Seq(V), a \in Nat, e \in Nat, <2>6, <3>1, SliceOf
  <2>8. ASSUME NEW k \in 1..size, a + k <= n
        PROVE  k \in DOMAIN s[j] /\ s[j][k] = rows[a + k]
    <3>1. a + k <= e /\ k \in Nat \ {0} BY <2>3, <2>4, <2>8
    <3> QED BY <2>5, <2>6, <2>7, <3>1
  <2> QED BY <2>1, <2>5, <2>6, <2>7, <2>8
<1>6. ASSUME NEW i \in 1..n PROVE \E j \in 1..m : rows[i] \in ToSet(s[j])
  <2>1. PICK h \in Nat : h = i - 1 /\ h < n OBVIOUS
  <2>2. PICK q \in Nat : q = h \div size BY Division
  <2>3. PICK k \in 0..(size - 1) : k = h % size BY Division
  <2>4. h = size * q + k BY <2>2, <2>3, Division
  <2>5. PICK a \in Nat : a = size * q /\ a = q * size OBVIOUS
  <2>6. q < m
    <3>1. SUFFICES ASSUME m <= q PROVE FALSE OBVIOUS
    <3>2. PICK d \in Nat : q = m + d
      <4>1. q - m \in Nat /\ q = m + (q - m) BY <3>1
      <4> QED BY <4>1
    <3>3. size * q = size * m + size * d BY <3>2
    <3>4. size * m \in Nat /\ size * d \in Nat OBVIOUS
    <3> QED BY <1>2, <2>1, <2>4, <3>3, <3>4
  <2>7. q + 1 \in 1..m /\ a = ((q + 1) - 1) * size
    <3>1. (q + 1) - 1 = q BY <2>2
    <3> QED BY <2>5, <2>6, <3>1
  <2>8. k + 1 \in 1..size /\ a + (k + 1) = i /\ a + (k + 1) <= n BY <2>1, <2>4, <2>5
  <2>9. PICK j \in 1..m : a = (j - 1) * size BY <2>7
  <2>10. \A z \in 1..size : a + z <= n => z \in DOMAIN s[j] /\ s[j][z] = rows[a + z]
    <3>1. PICK c \in Nat : /\ c = (j - 1) * size
                           /\ \A z \in 1..size : c + z <= n => z \in DOMAIN s[j] /\ s[j][z] = rows[c + z]
      BY <1>4
    <3> QED BY <2>9, <3>1
  <2>11. k + 1 \in DOMAIN s[j] /\ s[j][k + 1] = rows[i] BY <2>8, <2>10
  <2> QED BY <2>9, <2>11 DEF ToSet
<1>7. ASSUME NEW x \in ToSet(rows) PROVE \E j \in 1..m : x \in ToSet(s[j])
  <2>1. PICK i \in 1..n : x = rows[i] BY <1>1 DEF ToSet
  <2> QED BY <1>6, <2>1
<1>8. \A j \in 1..m : s[j] = SubSeq(rows, (j - 1) * size + 1, Min({j * size, n})) BY <1>3
<1>9. \A j \in 1..m : s[j] \in Seq(V) BY <1>4
<1> QED BY <1>1, <1>2, <1>7, <1>8, <1>9

---------------------------------------------------------------------------
(* Logprobs: the driver *)

\* Before the first call.
LEMMA LogInit == Init => LogInv
<1> SUFFICES ASSUME Init PROVE LogInv OBVIOUS
<1>1. /\ cfg \in Configs /\ call.kind = "none" /\ LogShape BY DEF Init, NoCall, LogShape
<1>2. ASSUME NEW r \in Ranks
      PROVE  /\ pc[r] = "idle" /\ weights[r] = 0
             /\ cpu_snapshots[r] = [cur_weights |-> 0, init_weights |-> 0, teacher |-> -1]
             /\ start.init = 0
  BY DEF Init
<1>3. \A r \in Ranks : Current(r) = 0 BY <1>2 DEF Current, Swapped
<1>4. \A r \in Ranks : LogPart(r) BY <1>1, <1>2 DEF LogPart, PassKept, WeightsKept
<1>5. LogprobsAligned BY <1>1 DEF LogprobsAligned
<1> QED BY <1>1, <1>3, <1>4, <1>5 DEF LogInv, Resets

\* The end of a call: the ranks keep the weights they agree on.
LEMMA LogEndCall ==
    ASSUME LogInv, EndCall
    PROVE  LogInv'
<1>1. /\ Everyone("done") /\ pc' = [r \in Ranks |-> "idle"] /\ call' = NoCall
      /\ micro' = [r \in Ranks |-> <<>>] /\ batches' = [r \in Ranks |-> <<>>]
      /\ UNCHANGED <<cfg, start, pass, batch, fwd, bwd, weights, cpu_snapshots, outputs>>
  BY DEF EndCall, model
<1>2. Ranks' = Ranks /\ call'.kind = "none" /\ ~Resets' BY <1>1 DEF Ranks, NoCall, Resets
<1>3. LogShape' BY <1>1, <1>2 DEF LogInv, LogShape
<1>4. ASSUME NEW r \in Ranks PROVE Current(r) = weights[r] /\ Current(r)' = weights[r] /\ LogPart(r)
  <2>1. pc[r] = "done" /\ pc'[r] = "idle" BY <1>1 DEF Everyone
  <2>2. ~Swapped(r) /\ ~Swapped(r)' BY <2>1 DEF Swapped
  <2> QED BY <1>1, <2>2 DEF Current, LogInv
<1>5. ASSUME NEW r \in Ranks PROVE LogPart(r)'
  <2>1. pc[r] = "done" /\ pc'[r] = "idle" BY <1>1 DEF Everyone
  <2>2. cpu_snapshots[r].init_weights = start.init BY <1>4, <2>1 DEF LogPart, WeightsKept
  <2>3. WeightsKept(r) BY <1>4 DEF LogPart
  <2>4. WeightsKept(r)' BY <1>1, <1>2, <2>1, <2>2, <2>3 DEF WeightsKept
  <2>5. PassKept(r)' BY <2>1 DEF PassKept
  <2> QED BY <1>2, <2>4, <2>5 DEF LogPart
<1>6. \A r, s \in Ranks : Current(r)' = Current(s)' BY <1>4 DEF LogInv
<1>7. LogprobsAligned' BY <1>2 DEF LogprobsAligned
<1> QED BY <1>1, <1>2, <1>3, <1>5, <1>6, <1>7 DEF LogInv

\* The replay of a spike: the snapshot's weights, on every rank.
LEMMA LogReproduceSpike ==
    ASSUME LogInv, ReproduceSpike
    PROVE  LogInv'
<1>1. /\ Everyone("idle") /\ pc' = [r \in Ranks |-> "split"]
      /\ call'.kind = "reproduce" /\ weights' = [r \in Ranks |-> snapshot.weights]
      /\ pass' = [r \in Ranks |-> 1] /\ batch' = [r \in Ranks |-> 1]
      /\ UNCHANGED <<cfg, start, micro, fwd, bwd, cpu_snapshots, outputs>>
  BY DEF ReproduceSpike
<1>2. Ranks' = Ranks /\ ~Resets' BY <1>1 DEF Ranks, Resets
<1>3. LogShape' BY <1>1, <1>2 DEF LogInv, LogShape
<1>4. Passes' = <<"reproduce">> BY <1>1 DEF Passes
<1>5. ASSUME NEW r \in Ranks PROVE Current(r)' = snapshot.weights /\ LogPart(r)'
  <2>1. pc[r] = "idle" /\ pc'[r] = "split" /\ pass'[r] = 1 BY <1>1 DEF Everyone
  <2>2. PassOf(r)' = "reproduce" BY <1>4, <2>1 DEF PassOf
  <2>3. Current(r)' = snapshot.weights BY <1>1, <2>1, <2>2 DEF Current, Swapped
  <2>4. LogPart(r) BY DEF LogInv
  <2>5. cpu_snapshots[r].init_weights = start.init BY <2>1, <2>4 DEF LogPart, WeightsKept
  <2>6. WeightsKept(r) BY <2>4 DEF LogPart
  <2>7. WeightsKept(r)' BY <1>1, <2>1, <2>5, <2>6 DEF WeightsKept
  <2>8. Len(<<"reproduce">>) = 1 OBVIOUS
  <2>9. PassKept(r)' BY <1>4, <2>1, <2>8 DEF PassKept
  <2> QED BY <1>1, <2>3, <2>7, <2>9 DEF LogPart
<1>6. \A r, s \in Ranks : Current(r)' = Current(s)' BY <1>5
<1>7. LogprobsAligned' BY <1>1 DEF LogprobsAligned
<1> QED BY <1>1, <1>2, <1>3, <1>5, <1>6, <1>7 DEF LogInv

\* Lists of rows are lists of the rows they hold.
LEMMA OwnRows ==
    ASSUME NEW V, NEW bs \in Seq(Seq(V)), NEW X, X = UNION {ToSet(bs[b]) : b \in DOMAIN bs}
    PROVE  bs \in Seq(Seq(X))
<1>1. ASSUME NEW b \in 1..Len(bs) PROVE bs[b] \in Seq(X)
  <2>1. PICK s \in Seq(V) : s = bs[b] OBVIOUS
  <2>2. \A i \in 1..Len(s) : s[i] \in ToSet(s) BY DEF ToSet
  <2>3. ToSet(s) \subseteq X BY <2>1
  <2>4. \A i \in 1..Len(s) : s[i] \in X BY <2>2, <2>3
  <2>5. s \in Seq(X) BY ONLY s \in Seq(V), <2>4
  <2> QED BY <2>1, <2>5
<1> QED BY ONLY bs \in Seq(Seq(V)), <1>1

\* The rows of a call, with or without handles.
LEMMA CallRows ==
    ASSUME cfg \in Configs, NEW samples \in SampleSets, NEW rows, rows = WithRouting(Tensorize(samples))
    PROVE  /\ rows \in Seq(ToSet(rows)) /\ rows # <<>>
           /\ \A w \in ToSet(rows) : w.traj \in Nat \cup {-1}
<1>1. samples \in Seq(Sample) /\ samples # <<>> BY SampleAssumption
<1>2. PICK n \in Nat \ {0} : n = Len(samples) /\ DOMAIN samples = 1..n
  <2>1. Len(samples) \in Nat \ {0} /\ DOMAIN samples = 1..Len(samples) BY <1>1
  <2> QED BY <2>1
<1>3. PICK t : t = Tensorize(samples) OBVIOUS
<1>4. t = [i \in 1..n |-> [index |-> i - 1, traj |-> samples[i].traj,
                           len |-> samples[i].len, paths |-> samples[i].paths]]
  BY <1>2, <1>3 DEF Tensorize
<1>5. DOMAIN rows = 1..n /\ \A i \in 1..n : rows[i].traj = samples[i].traj
  <2>1. CASE cfg.r3 BY <1>3, <1>4, <2>1 DEF WithRouting
  <2>2. CASE ~cfg.r3
    <3>1. rows = [i \in 1..n |-> [t[i] EXCEPT !.paths = <<>>]] BY <1>3, <1>4, <2>2 DEF WithRouting
    <3> QED BY <1>4, <3>1
  <2> QED BY <2>1, <2>2
<1>6. rows = [i \in 1..n |-> rows[i]] BY <1>4, <1>3 DEF WithRouting
<1>7. \A i \in 1..n : rows[i] \in ToSet(rows) BY <1>5 DEF ToSet
<1>8. PICK W : W = ToSet(rows) OBVIOUS
<1>9. rows \in Seq(W) /\ Len(rows) = n
  <2>1. rows \in [1..n -> W] BY <1>6, <1>7, <1>8
  <2> QED BY <2>1
<1>10. \A i \in 1..n : samples[i].traj \in Nat \cup {-1}
  <2>1. \A i \in 1..n : samples[i] \in Sample BY <1>1, <1>2
  <2> QED BY <2>1 DEF Sample
<1>11. \A w \in ToSet(rows) : w.traj \in Nat \cup {-1} BY <1>5, <1>10 DEF ToSet
<1>12. rows # <<>> BY <1>9
<1> QED BY <1>8, <1>9, <1>11, <1>12

\* A call begins: each rank is dealt lists of rows, and the weights the ranks agree
\* on are those it begins with.
LEMMA LogStartCall ==
    ASSUME LogInv, NEW kind \in Kinds, NEW samples \in SampleSets, StartCall(kind, samples)
    PROVE  LogInv'
<1>1. PICK rows : rows = WithRouting(Tensorize(samples)) OBVIOUS
<1>2. /\ Everyone("idle") /\ Groupable(Trajectories(rows)) /\ trained' = {}
      /\ call' = [kind |-> kind, rows |-> rows, step |-> global_step]
      /\ pc' = [r \in Ranks |-> "begin"]
      /\ pass' = [r \in Ranks |-> 1] /\ batch' = [r \in Ranks |-> 1]
      /\ logprobs' = [r \in Ranks |-> NoLogprobs]
      /\ start' = [cur |-> weights[0],
                   init |-> IF kind \in {"train", "sft"} /\ global_step % ResetInitEvery = 0
                            THEN weights[0] ELSE cpu_snapshots[0].init_weights]
      /\ UNCHANGED <<cfg, micro, fwd, bwd, weights, cpu_snapshots, outputs>>
  BY <1>1 DEF StartCall, model
<1>3. PICK shuffle, perms :
          /\ perms \in Shuffles(PaddedSizes(rows, cfg.gbs, cfg.dp), shuffle)
          /\ batches' = SplitSamplesForDp(rows, perms)
  BY <1>1 DEF StartCall
<1>4. cfg' = cfg /\ Ranks' = Ranks BY <1>2 DEF Ranks
<1>5. /\ cfg \in Configs /\ cfg.dp \in Nat \ {0} /\ cfg.gbs \in Nat \ {0}
      /\ \A r \in Ranks : r \in 0..(cfg.dp - 1)
      /\ 0 \in Ranks
  <2>1. cfg \in Configs BY DEF LogInv
  <2>2. {cfg.dp, cfg.gbs} \subseteq Nat \ {0} BY <2>1, MegatronAssumption
  <2> QED BY <2>1, <2>2 DEF Ranks
<1>6. PICK W : W = ToSet(rows) OBVIOUS
<1>7. rows \in Seq(W) /\ rows # <<>> /\ \A w \in W : w.traj \in Nat \cup {-1}
  BY <1>1, <1>5, <1>6, CallRows
<1>8. PICK V : V = W \cup {PadOf(s, PaddingLength, PadHandle) : s \in Seq(W)} OBVIOUS
<1>9. ASSUME NEW r \in Ranks PROVE batches'[r] \in Seq(Seq(V)) /\ batches'[r] # <<>>
  <2>1. PICK dealt : dealt = GlobalBatchesForDpRank(rows, cfg.gbs, cfg.dp, r, perms,
                                                    PaddingLength, PadHandle)
    OBVIOUS
  <2>2. PICK dp \in Nat \ {0} : dp = cfg.dp BY <1>5
  <2>3. PICK gbs \in Nat \ {0} : gbs = cfg.gbs BY <1>5
  <2>4. r \in 0..(dp - 1) BY <1>5, <2>2
  <2>5. perms \in Shuffles(PaddedSizes(rows, gbs, dp), shuffle) BY <1>3, <2>2, <2>3
  <2>6. dealt = GlobalBatchesForDpRank(rows, gbs, dp, r, perms, PaddingLength, PadHandle)
    BY <2>1, <2>2, <2>3
  <2>7. \A s \in Seq(W) : /\ PadToDpMultiple(s, dp, PaddingLength, PadHandle) \in Seq(V)
                          /\ Len(PadToDpMultiple(s, dp, PaddingLength, PadHandle)) = RoundedUp(Len(s), dp)
    <3> SUFFICES ASSUME NEW s \in Seq(W)
                 PROVE  /\ PadToDpMultiple(s, dp, PaddingLength, PadHandle) \in Seq(V)
                        /\ Len(PadToDpMultiple(s, dp, PaddingLength, PadHandle)) = RoundedUp(Len(s), dp)
      OBVIOUS
    <3>1. W \subseteq V /\ PadOf(s, PaddingLength, PadHandle) \in V BY <1>8
    <3> QED BY ONLY dp \in Nat \ {0}, s \in Seq(W), <3>1, PaddedList
  <2>8. dealt \in Seq(Seq(V)) /\ dealt # <<>>
    <3>1. Groupable(Trajectories(rows)) BY <1>2
    <3> QED BY ONLY gbs \in Nat \ {0}, dp \in Nat \ {0}, <1>7, <2>4, <2>5, <2>6, <2>7, <3>1, DealtLists
  <2>9. batches'[r] = dealt BY <1>3, <2>1 DEF SplitSamplesForDp
  <2> QED BY <2>8, <2>9
<1>10. LogShape' BY <1>2, <1>4 DEF LogInv, LogShape
<1>11. /\ call'.kind = kind /\ call'.step = global_step
       /\ Resets' = (kind \in {"train", "sft"} /\ global_step % ResetInitEvery = 0)
  BY <1>2 DEF Resets
<1>12. Resets' => start'.init = start'.cur BY <1>2, <1>11
<1>13. ASSUME NEW r \in Ranks
       PROVE  /\ Current(r)' = start'.cur /\ weights'[r] = start'.cur
              /\ Resets' \/ cpu_snapshots[r].init_weights = start'.init
  <2>1. pc[r] = "idle" /\ pc'[r] = "begin" /\ pc[0] = "idle" BY <1>2, <1>5 DEF Everyone
  <2>2. Current(r) = weights[r] /\ Current(0) = weights[0] /\ Current(r)' = weights'[r]
    BY <2>1 DEF Current, Swapped
  <2>3. weights[r] = weights[0] BY <1>5, <2>2 DEF LogInv
  <2>4. cpu_snapshots[r].init_weights = start.init /\ cpu_snapshots[0].init_weights = start.init
    BY <1>5, <2>1 DEF LogInv, LogPart, WeightsKept
  <2> QED BY <1>2, <1>11, <2>2, <2>3, <2>4
<1>14. ASSUME NEW r \in Ranks PROVE LogPart(r)'
  <2>1. pc'[r] = "begin" /\ pass'[r] = 1 /\ batch'[r] = 1 BY <1>2
  <2>2. PassKept(r)'
    <3>1. Len(Passes') >= 1
      <4>1. CASE call'.kind = "train"
        <5>1. Passes' = (IF cfg'.teacher THEN <<"teacher", "ref", "old", "train">>
                                         ELSE <<"ref", "old", "train">>)
          BY <4>1 DEF Passes, TrainPasses
        <5> QED BY <5>1
      <4>2. CASE call'.kind = "sft"
        <5>1. Passes' = <<"train">> BY <4>2 DEF Passes, TrainPasses
        <5> QED BY <5>1
      <4>3. CASE call'.kind \notin {"train", "sft"}
        <5>1. Passes' = <<call'.kind>> BY <4>3 DEF Passes
        <5> QED BY <5>1
      <4> QED BY <4>1, <4>2, <4>3
    <3>2. Len(Passes') \in Nat
      <4>1. Passes' = <<"teacher", "ref", "old", "train">> \/ Passes' = <<"ref", "old", "train">>
            \/ Passes' = <<"train">> \/ Passes' = <<call'.kind>>
        BY DEF Passes, TrainPasses
      <4> QED BY <4>1
    <3>3. 1 \in 1..Len(Passes') BY <3>1, <3>2
    <3> QED BY <2>1, <3>3 DEF PassKept
  <2>3. WeightsKept(r)'
    <3>1. WeightsKept(r) BY DEF LogInv, LogPart
    <3>2. cpu_snapshots' = cpu_snapshots BY <1>2
    <3> QED BY <1>13, <2>1, <3>1, <3>2 DEF WeightsKept
  <2>4. RankLogged(r)'
    <3>1. batches'[r] \in Seq(Seq(RowsAt(r)'))
      <4>1. RowsAt(r)' = UNION {ToSet(batches'[r][b]) : b \in DOMAIN batches'[r]} BY DEF RowsAt
      <4> QED BY <1>9, <4>1, OwnRows
    <3>2. DOMAIN logprobs'[r] = Fields BY <1>2 DEF NoLogprobs
    <3>3. \A k \in 1..(pass'[r] - 1) : FALSE BY <2>1
    <3> QED BY <1>9, <2>1, <3>1, <3>2, <3>3 DEF RankLogged
  <2> QED BY <2>2, <2>3, <2>4 DEF LogPart
<1>15. LogprobsAligned' BY <1>2 DEF LogprobsAligned, RealTrained
<1>16. \A r, s \in Ranks : Current(r)' = Current(s)' BY <1>13
<1> QED BY <1>4, <1>5, <1>10, <1>11, <1>12, <1>14, <1>15, <1>16 DEF LogInv

---------------------------------------------------------------------------
(* Logprobs: moves between batches *)

\* A step of one rank that trains nothing.
LEMMA LogOneRank ==
    ASSUME LogInv, UNCHANGED logState, LogShape', trained' = trained, NEW r \in Ranks,
           \A s \in Ranks \ {r} : LogState(s)' = LogState(s),
           LogPart(r)', Current(r)' = Current(r)
    PROVE  LogInv'
<1>1. ASSUME NEW s \in Ranks PROVE LogPart(s)' /\ Current(s)' = Current(s)
  <2>1. CASE s = r BY <2>1
  <2>2. CASE s # r BY <2>2, LogRankFrame DEF LogInv
  <2> QED BY <2>1, <2>2
<1>2. LogprobsAligned' BY AlignedFrame DEF LogInv, logState
<1> QED BY <1>1, <1>2, LogWithin

\* BeginCall: the reference policy of the call is in place.
LEMMA LogBeginCall ==
    ASSUME LogInv, NEW r \in Ranks, BeginCall(r)
    PROVE  LogInv'
<1>1. /\ LogShape /\ LogPart(r) /\ call.kind \in Kinds \cup {"reproduce", "none"}
      /\ Resets => start.init = start.cur
  BY DEF LogInv
<1>2. /\ pc[r] = "begin" /\ UNCHANGED logState /\ trained' = trained
      /\ cpu_snapshots' = [cpu_snapshots EXCEPT ![r] = ResetInitWeights(r)]
      /\ pc' = [pc EXCEPT ![r] = "pass"]
      /\ UNCHANGED <<pass, batch, micro, fwd, bwd, weights, logprobs, outputs>>
  BY DEF BeginCall, driver, logState
<1>3. /\ DOMAIN pc' = Ranks /\ DOMAIN cpu_snapshots' = Ranks
      /\ pc'[r] = "pass" /\ cpu_snapshots'[r] = ResetInitWeights(r)
      /\ \A s \in Ranks \ {r} : pc'[s] = pc[s] /\ cpu_snapshots'[s] = cpu_snapshots[s]
  BY <1>1, <1>2 DEF LogShape
<1>4. /\ call' = call /\ start' = start /\ batches' = batches /\ Ranks' = Ranks /\ Passes' = Passes
      /\ FieldWeights' = FieldWeights /\ RowsAt(r)' = RowsAt(r)
  BY <1>2, LogCallFrame
<1>5. pass[r] = 1 /\ weights[r] = start.cur /\ 1 \in 1..Len(Passes)
  BY <1>1, <1>2 DEF LogPart, PassKept, WeightsKept
<1>6. PassOf(r) = Passes[1] /\ PassOf(r)' = Passes[1] BY <1>2, <1>4, <1>5 DEF PassOf
<1>7. Passes[1] # "old" BY <1>1, <1>5, TrainSteps, OtherPass DEF Fields
<1>8. Current(r) = weights[r] /\ Current(r)' = weights[r]
  <2>1. ~Swapped(r) /\ ~Swapped(r)' BY <1>2, <1>3, <1>6, <1>7 DEF Swapped
  <2> QED BY <1>2, <2>1 DEF Current
<1>9. WeightsKept(r)'
  <2>1. PICK c, i : cpu_snapshots[r] = [cur_weights |-> c, init_weights |-> i, teacher |-> -1]
                    /\ (i = start.init \/ Resets)
    BY <1>1 DEF LogPart, WeightsKept
  <2>2. cpu_snapshots'[r] = [cur_weights |-> c, init_weights |-> start.init, teacher |-> -1]
    <3>1. CASE Resets
      <4>1. cpu_snapshots'[r] = [cpu_snapshots[r] EXCEPT !.init_weights = weights[r]]
        BY <1>3, <1>5, <3>1 DEF ResetInitWeights, Resets
      <4> QED BY <1>1, <1>5, <2>1, <3>1, <4>1
    <3>2. CASE ~Resets
      <4>1. cpu_snapshots'[r] = cpu_snapshots[r] BY <1>3, <1>5, <3>2 DEF ResetInitWeights, Resets
      <4> QED BY <2>1, <3>2, <4>1
    <3> QED BY <3>1, <3>2
  <2>3. cpu_snapshots'[r].init_weights = start.init
        /\ cpu_snapshots'[r] = [cur_weights |-> cpu_snapshots'[r].cur_weights,
                                init_weights |-> cpu_snapshots'[r].init_weights, teacher |-> -1]
    BY <2>2
  <2> QED BY <1>3, <1>4, <1>5, <1>8, <2>3 DEF WeightsKept
<1>10. PassKept(r)' BY <1>2, <1>3, <1>4, <1>5 DEF PassKept
<1>11. call.kind = "train" => RankLogged(r)'
  <2> SUFFICES ASSUME call.kind = "train" PROVE RankLogged(r)' OBVIOUS
  <2>1. \A k \in 1..(pass'[r] - 1) : FALSE BY <1>2, <1>5
  <2> QED BY <1>1, <1>2, <1>3, <1>4, <2>1 DEF LogPart, RankLogged
<1>12. LogPart(r)' BY <1>4, <1>9, <1>10, <1>11 DEF LogPart
<1>13. LogShape' BY <1>1, <1>2, <1>3, <1>4 DEF LogShape
<1>14. \A s \in Ranks \ {r} : LogState(s)' = LogState(s) BY <1>2, <1>3 DEF LogState
<1> QED BY <1>2, <1>8, <1>12, <1>13, <1>14, LogOneRank

\* BeginPass: the weights of the pass are loaded, and those to train are kept.
LEMMA LogBeginPass ==
    ASSUME LogInv, NEW r \in Ranks, BeginPass(r)
    PROVE  LogInv'
<1>1. LogShape /\ LogPart(r) /\ call.kind \in Kinds \cup {"reproduce", "none"} BY DEF LogInv
<1>2. /\ pc[r] = "pass" /\ UNCHANGED logState /\ trained' = trained
      /\ weights' = [weights EXCEPT ![r] = PassWeights(r)[1]]
      /\ cpu_snapshots' = [cpu_snapshots EXCEPT ![r] = PassWeights(r)[2]]
      /\ outputs' = [outputs EXCEPT ![r] = <<>>]
      /\ batch' = [batch EXCEPT ![r] = 1]
      /\ pc' = [pc EXCEPT ![r] = "split"]
      /\ UNCHANGED <<pass, micro, fwd, bwd, logprobs>>
  BY DEF BeginPass, driver, logState
<1>3. /\ DOMAIN pc' = Ranks /\ DOMAIN cpu_snapshots' = Ranks /\ DOMAIN weights' = Ranks
      /\ DOMAIN outputs' = Ranks /\ DOMAIN batch' = Ranks
      /\ pc'[r] = "split" /\ cpu_snapshots'[r] = PassWeights(r)[2] /\ weights'[r] = PassWeights(r)[1]
      /\ outputs'[r] = <<>> /\ batch'[r] = 1
      /\ \A s \in Ranks \ {r} :
            /\ pc'[s] = pc[s] /\ cpu_snapshots'[s] = cpu_snapshots[s] /\ weights'[s] = weights[s]
            /\ outputs'[s] = outputs[s] /\ batch'[s] = batch[s]
  BY <1>1, <1>2 DEF LogShape
<1>4. /\ call' = call /\ start' = start /\ batches' = batches /\ Ranks' = Ranks /\ Passes' = Passes
      /\ FieldWeights' = FieldWeights /\ RowsAt(r)' = RowsAt(r)
  BY <1>2, LogCallFrame
<1>5. PICK c : cpu_snapshots[r] = [cur_weights |-> c, init_weights |-> start.init, teacher |-> -1]
  BY <1>1, <1>2 DEF LogPart, WeightsKept
<1>6. pass[r] \in 1..Len(Passes) /\ PassOf(r)' = PassOf(r)
  BY <1>1, <1>2, <1>4 DEF LogPart, PassKept, PassOf
<1>7. PassOf(r) \in Fields => call.kind = "train"
  <2> SUFFICES ASSUME call.kind # "train" PROVE PassOf(r) \notin Fields OBVIOUS
  <2>1. Len(Passes) = 1 /\ Passes[1] \notin Fields BY <1>1, OtherPass
  <2>2. pass[r] = 1 BY <1>6, <2>1
  <2> QED BY <2>1, <2>2 DEF PassOf
<1>8. PICK d :
          /\ cpu_snapshots'[r] = [cur_weights |-> d, init_weights |-> start.init, teacher |-> -1]
          /\ Current(r)' = Current(r)
          /\ PassOf(r) \in Fields => weights'[r] = FieldWeights[PassOf(r)]
  <2>0. call.kind = "train" /\ PassOf(r) # "train" => Current(r) = start.cur
    BY <1>1 DEF LogPart, WeightsKept
  <2>1. CASE PassOf(r) = "ref"
    <3>1. /\ weights'[r] = start.init
          /\ cpu_snapshots'[r] = [cpu_snapshots[r] EXCEPT !.cur_weights = weights[r]]
      BY <1>3, <1>5, <2>1 DEF PassWeights
    <3>2. cpu_snapshots'[r] = [cur_weights |-> weights[r], init_weights |-> start.init, teacher |-> -1]
      BY <1>5, <3>1
    <3>3. ~Swapped(r) /\ Swapped(r)' BY <1>2, <1>3, <1>6, <2>1 DEF Swapped
    <3>4. Current(r)' = Current(r) BY <3>2, <3>3 DEF Current
    <3>5. weights'[r] = FieldWeights[PassOf(r)] BY <2>1, <3>1 DEF FieldWeights
    <3> QED BY <3>2, <3>4, <3>5
  <2>2. CASE PassOf(r) = "teacher"
    <3>1. /\ weights'[r] = -1
          /\ cpu_snapshots'[r] = [cpu_snapshots[r] EXCEPT !.cur_weights = weights[r]]
      BY <1>3, <1>5, <2>2 DEF PassWeights
    <3>2. cpu_snapshots'[r] = [cur_weights |-> weights[r], init_weights |-> start.init, teacher |-> -1]
      BY <1>5, <3>1
    <3>3. ~Swapped(r) /\ Swapped(r)' BY <1>2, <1>3, <1>6, <2>2 DEF Swapped
    <3>4. Current(r)' = Current(r) BY <3>2, <3>3 DEF Current
    <3>5. weights'[r] = FieldWeights[PassOf(r)] BY <2>2, <3>1 DEF FieldWeights
    <3> QED BY <3>2, <3>4, <3>5
  <2>3. CASE PassOf(r) = "old"
    <3>1. weights'[r] = c /\ cpu_snapshots'[r] = cpu_snapshots[r]
      BY <1>3, <1>5, <2>3 DEF PassWeights
    <3>2. Swapped(r) /\ ~Swapped(r)' BY <1>2, <1>3, <1>6, <2>3 DEF Swapped
    <3>3. Current(r) = c /\ Current(r)' = c BY <1>5, <3>1, <3>2 DEF Current
    <3>4. c = start.cur BY <1>7, <2>0, <2>3, <3>3 DEF Fields
    <3>5. weights'[r] = FieldWeights[PassOf(r)] BY <2>3, <3>1, <3>4 DEF FieldWeights
    <3> QED BY <1>5, <3>1, <3>3, <3>5
  <2>4. CASE PassOf(r) \notin {"ref", "teacher", "old"}
    <3>1. weights'[r] = weights[r] /\ cpu_snapshots'[r] = cpu_snapshots[r]
      BY <1>3, <2>4 DEF PassWeights
    <3>2. ~Swapped(r) /\ ~Swapped(r)' BY <1>2, <1>3, <1>6, <2>4 DEF Swapped
    <3> QED BY <1>5, <2>4, <3>1, <3>2 DEF Current, Fields
  <2> QED BY <2>1, <2>2, <2>3, <2>4
<1>9. WeightsKept(r)'
  <2>1. cpu_snapshots'[r].init_weights = start.init
        /\ cpu_snapshots'[r] = [cur_weights |-> cpu_snapshots'[r].cur_weights,
                                init_weights |-> cpu_snapshots'[r].init_weights, teacher |-> -1]
    BY <1>8
  <2>2. WeightsKept(r) BY <1>1 DEF LogPart
  <2> QED BY <1>3, <1>4, <1>6, <1>8, <2>1, <2>2 DEF WeightsKept
<1>10. PassKept(r)' BY <1>2, <1>3, <1>4, <1>6 DEF PassKept
<1>11. call.kind = "train" => RankLogged(r)'
  <2> SUFFICES ASSUME call.kind = "train" PROVE RankLogged(r)' OBVIOUS
  <2>1. RankLogged(r) BY <1>1 DEF LogPart
  <2>2. PICK V : batches[r] \in Seq(V) BY <2>1 DEF RankLogged
  <2>3. 1 <= Len(batches[r]) /\ \A b \in DOMAIN batches[r] : ~(b < 1)
    <3>1. PICK bs \in Seq(V) : bs = batches[r] /\ bs # <<>> BY <2>1, <2>2 DEF RankLogged
    <3>2. DOMAIN bs = 1..Len(bs) /\ Len(bs) \in Nat /\ Len(bs) # 0 BY <3>1
    <3> QED BY <3>1, <3>2
  <2>4. Collecting(r)' \/ PassOf(r) \notin Fields
    <3> SUFFICES ASSUME PassOf(r) \in Fields PROVE Collecting(r)' OBVIOUS
    <3>1. \A A0 : <<>> \in Seq(A0) OBVIOUS
    <3> QED BY <1>3, <1>4, <1>6, <1>8, <2>3, <3>1 DEF Collecting
  <2>5. \A f : Logged(r, f) => Logged(r, f)' BY <1>2, <1>4 DEF Logged
  <2> QED BY <1>2, <1>3, <1>4, <1>6, <2>1, <2>3, <2>4, <2>5 DEF RankLogged
<1>12. LogPart(r)' BY <1>4, <1>9, <1>10, <1>11 DEF LogPart
<1>13. LogShape' BY <1>1, <1>2, <1>3, <1>4 DEF LogShape
<1>14. \A s \in Ranks \ {r} : LogState(s)' = LogState(s) BY <1>2, <1>3 DEF LogState
<1> QED BY <1>2, <1>8, <1>12, <1>13, <1>14, LogOneRank

\* FetchRouting does not touch what the logprobs depend on.
LEMMA LogFetchRouting ==
    ASSUME LogInv, NEW r \in Ranks, NEW i \in DOMAIN micro[r], FetchRouting(r, i)
    PROVE  LogInv'
<1>1. /\ UNCHANGED logState /\ trained' = trained
      /\ UNCHANGED <<pc, pass, batch, micro, fwd, bwd, weights, cpu_snapshots, logprobs, outputs>>
  BY DEF FetchRouting, driver, model, logState
<1>2. Ranks' = Ranks /\ call' = call BY <1>1, LogCallFrame
<1>3. LogShape' BY <1>1, <1>2 DEF LogInv, LogShape
<1>4. \A s \in Ranks : LogState(s)' = LogState(s) BY <1>1 DEF LogState
<1>5. LogPart(r)' /\ Current(r)' = Current(r) BY <1>1, <1>4, LogRankFrame DEF LogInv
<1> QED BY <1>1, <1>3, <1>4, <1>5, LogOneRank

\* Gather: when the outputs of a pass are put together every sample of the rank has
\* its own, and after the teacher's pass the weights to train are back.
LEMMA LogGather ==
    ASSUME LogInv, NEW r \in Ranks, Gather(r)
    PROVE  LogInv'
<1>1. LogShape /\ LogPart(r) /\ call.kind \in Kinds \cup {"reproduce", "none"} BY DEF LogInv
<1>2. PICK n : n = Len(Passes) OBVIOUS
<1>3. /\ pc[r] = "gather" /\ UNCHANGED logState /\ trained' = trained
      /\ logprobs' = IF PassOf(r) \in Fields
                     THEN [logprobs EXCEPT ![r] = [@ EXCEPT ![PassOf(r)] = LogprobsByIndex(r)]]
                     ELSE logprobs
      /\ weights' = IF PassOf(r) = "teacher"
                    THEN [weights EXCEPT ![r] = cpu_snapshots[r].cur_weights] ELSE weights
      /\ pc' = [pc EXCEPT ![r] = IF pass[r] < n THEN "pass" ELSE "done"]
      /\ pass' = [pass EXCEPT ![r] = IF pass[r] < n THEN pass[r] + 1 ELSE pass[r]]
      /\ UNCHANGED <<batch, micro, fwd, bwd, cpu_snapshots, outputs>>
  BY <1>2 DEF Gather, driver, logState
<1>4. /\ call' = call /\ cfg' = cfg /\ start' = start /\ batches' = batches /\ Ranks' = Ranks
      /\ Passes' = Passes /\ FieldWeights' = FieldWeights /\ RowsAt(r)' = RowsAt(r)
  BY <1>3, LogCallFrame
<1>5. /\ DOMAIN pc' = Ranks /\ DOMAIN weights' = Ranks /\ DOMAIN pass' = Ranks
      /\ pc'[r] = (IF pass[r] < n THEN "pass" ELSE "done")
      /\ pass'[r] = (IF pass[r] < n THEN pass[r] + 1 ELSE pass[r])
      /\ weights'[r] = (IF PassOf(r) = "teacher" THEN cpu_snapshots[r].cur_weights ELSE weights[r])
      /\ \A s \in Ranks \ {r} : pc'[s] = pc[s] /\ weights'[s] = weights[s] /\ pass'[s] = pass[s]
  BY <1>1, <1>3 DEF LogShape
<1>6. pass[r] \in 1..n BY <1>1, <1>2, <1>3 DEF LogPart, PassKept
<1>7. n \in Nat
  <2>1. call.kind = "train" => Len(Passes) = 3 \/ Len(Passes) = 4
    <3> SUFFICES ASSUME call.kind = "train" PROVE Len(Passes) = 3 \/ Len(Passes) = 4 OBVIOUS
    <3>1. Passes = <<"teacher", "ref", "old", "train">> \/ Passes = <<"ref", "old", "train">>
      BY TrainOrder
    <3> QED BY <3>1
  <2>2. call.kind # "train" => Len(Passes) = 1 BY <1>1, OtherPass
  <2> QED BY <1>2, <2>1, <2>2
<1>8. pass'[r] \in 1..n BY <1>2, <1>5, <1>6, <1>7
<1>9. PassOf(r) \in Fields => call.kind = "train"
  <2> SUFFICES ASSUME call.kind # "train" PROVE PassOf(r) \notin Fields OBVIOUS
  <2>1. Len(Passes) = 1 /\ Passes[1] \notin Fields BY <1>1, OtherPass
  <2>2. pass[r] = 1 BY <1>2, <1>6, <2>1
  <2> QED BY <2>1, <2>2 DEF PassOf
\* In a train call a pass for logprobs is followed by the next one.
<1>10. ASSUME call.kind = "train"
       PROVE  /\ pass[r] < n /\ pc'[r] = "pass" /\ pass'[r] = pass[r] + 1 /\ PassOf(r) \in Fields
              /\ PassOf(r) = "teacher" => PassOf(r)' = "ref"
              /\ PassOf(r) = "ref" => PassOf(r)' = "old"
              /\ PassOf(r) = "old" => PassOf(r)' = "train"
  <2>1. PassOf(r) # "train" BY <1>1, <1>3 DEF LogPart, PassKept
  <2>2. pass[r] \in 1..Len(Passes) BY <1>2, <1>6
  <2>3. /\ Passes[pass[r]] \in Fields \cup {"train"}
        /\ Passes[pass[r]] = "train" <=> pass[r] = Len(Passes)
        /\ Passes[pass[r]] = "teacher" => Passes[pass[r] + 1] = "ref"
        /\ Passes[pass[r]] = "ref" => Passes[pass[r] + 1] = "old"
        /\ Passes[pass[r]] = "old" => Passes[pass[r] + 1] = "train"
    BY <1>10, <2>2, TrainSteps
  <2>4. pass[r] # n BY <1>2, <1>6, <2>1, <2>3 DEF PassOf
  <2>5. pass[r] < n BY <1>2, <1>6, <1>7, <2>4
  <2> QED BY <1>4, <1>5, <2>1, <2>3, <2>5 DEF PassOf
<1>11. ASSUME call.kind # "train"
       PROVE  /\ ~(pass[r] < n) /\ pc'[r] = "done" /\ PassOf(r)' = PassOf(r) /\ PassOf(r) \notin Fields
  <2>1. n = 1 /\ pass[r] = 1 BY <1>1, <1>2, <1>6, <1>11, OtherPass
  <2>2. ~(pass[r] < n) BY <1>2, <1>6, <2>1
  <2> QED BY <1>4, <1>5, <1>9, <1>11, <2>2 DEF PassOf
<1>12. Current(r)' = Current(r)
  <2>1. CASE call.kind = "train"
    <3>1. PassOf(r) = "teacher" \/ PassOf(r) = "ref" \/ PassOf(r) = "old" BY <1>10, <2>1 DEF Fields
    <3>2. CASE PassOf(r) = "teacher"
      <4>1. Swapped(r) /\ ~Swapped(r)' BY <1>3, <1>10, <2>1, <3>2 DEF Swapped
      <4> QED BY <1>3, <1>5, <3>2, <4>1 DEF Current
    <3>3. CASE PassOf(r) = "ref"
      <4>1. Swapped(r) /\ Swapped(r)' BY <1>3, <1>10, <2>1, <3>3 DEF Swapped
      <4> QED BY <1>3, <4>1 DEF Current
    <3>4. CASE PassOf(r) = "old"
      <4>1. ~Swapped(r) /\ ~Swapped(r)' BY <1>3, <1>10, <2>1, <3>4 DEF Swapped
      <4> QED BY <1>5, <3>4, <4>1 DEF Current
    <3> QED BY <3>1, <3>2, <3>3, <3>4
  <2>2. CASE call.kind # "train"
    <3>1. ~Swapped(r) /\ ~Swapped(r)' BY <1>3, <1>11, <2>2 DEF Swapped, Fields
    <3>2. PassOf(r) # "teacher" BY <1>11, <2>2 DEF Fields
    <3> QED BY <1>5, <3>1, <3>2 DEF Current
  <2> QED BY <2>1, <2>2
<1>13. WeightsKept(r)'
  <2>1. WeightsKept(r) BY <1>1 DEF LogPart
  <2>2. call.kind = "train" => PassOf(r) # "train" BY <1>10 DEF Fields
  <2>3. pc'[r] # "begin" BY <1>5
  <2>4. cpu_snapshots[r].init_weights = start.init BY <1>3, <2>1 DEF WeightsKept
  <2> QED BY <1>3, <1>4, <1>12, <2>1, <2>2, <2>3, <2>4 DEF WeightsKept
<1>14. PassKept(r)'
  <2>1. pc'[r] \in {"pass", "done"} BY <1>5
  <2> QED BY <1>2, <1>4, <1>8, <2>1 DEF PassKept
<1>15. ASSUME call.kind = "train"
       PROVE  /\ RankLogged(r)' /\ DOMAIN logprobs' = Ranks
              /\ \A s \in Ranks \ {r} : logprobs'[s] = logprobs[s]
  <2>1. RankLogged(r) /\ DOMAIN logprobs = Ranks BY <1>1, <1>15 DEF LogPart, LogShape
  <2>2. PICK f \in Fields : f = PassOf(r) BY <1>10, <1>15
  <2>3. /\ DOMAIN logprobs' = Ranks /\ DOMAIN logprobs'[r] = Fields
        /\ logprobs'[r][f] = LogprobsByIndex(r)
        /\ \A g \in Fields \ {f} : logprobs'[r][g] = logprobs[r][g]
        /\ \A s \in Ranks \ {r} : logprobs'[s] = logprobs[s]
    <3>1. logprobs' = [logprobs EXCEPT ![r] = [logprobs[r] EXCEPT ![f] = LogprobsByIndex(r)]]
      BY <1>3, <2>1, <2>2
    <3>2. logprobs'[r] = [logprobs[r] EXCEPT ![f] = LogprobsByIndex(r)] BY <2>1, <3>1
    <3>3. DOMAIN logprobs[r] = Fields BY <2>1 DEF RankLogged
    <3> QED BY <2>1, <3>1, <3>2, <3>3
  <2>4. ASSUME NEW x \in RowsAt(r), IsReal(x)
        PROVE  /\ x.index \in DOMAIN LogprobsByIndex(r)
               /\ LogprobsByIndex(r)[x.index] = [row |-> x.index, weights |-> FieldWeights[f]]
    <3>1. Collecting(r) BY <1>3, <1>10, <1>15, <2>1 DEF RankLogged
    <3>2. PICK out : out = outputs[r] OBVIOUS
    <3>3. PICK w : w = FieldWeights[f] OBVIOUS
    <3>4. out \in Seq({OutputFor(y.index, w) : y \in RowsAt(r)}) BY <2>2, <3>1, <3>2, <3>3 DEF Collecting
    <3>5. PICK b \in DOMAIN batches[r] : x \in ToSet(batches[r][b]) BY DEF RowsAt
    <3>6. x.index \in Indices(batches[r][b]) BY <3>5 DEF ToSet, Indices
    <3>7. x.index \in Indices(out) BY <1>3, <3>1, <3>2, <3>6 DEF Collecting
    <3>8. PICK j \in DOMAIN out : out[j].index = x.index BY <3>7 DEF Indices
    <3>9. IsReal(out[j]) BY <2>4, <3>8 DEF IsReal
    <3>10. PICK k : k = CHOOSE m \in RealOutputs(out) : out[m].index = x.index OBVIOUS
    <3>11. k \in DOMAIN out /\ out[k].index = x.index BY <3>8, <3>9, <3>10 DEF RealOutputs
    <3>12. PICK y \in RowsAt(r) : out[k] = OutputFor(y.index, w) BY <3>4, <3>11
    <3>13. out[k].value = [row |-> x.index, weights |-> w] BY <3>11, <3>12 DEF OutputFor
    <3>14. /\ x.index \in DOMAIN MergeOutputs(out)
           /\ MergeOutputs(out)[x.index] = out[k].value
      <4>1. j \in RealOutputs(out) BY <3>9 DEF RealOutputs
      <4>2. x.index \in {out[m].index : m \in RealOutputs(out)} BY <3>8, <4>1
      <4> QED BY <3>10, <4>2 DEF MergeOutputs
    <3> QED BY <3>2, <3>3, <3>13, <3>14 DEF LogprobsByIndex
  <2>5. Logged(r, f)' BY <1>4, <2>3, <2>4 DEF Logged
  <2>6. \A g \in Fields \ {f} : Logged(r, g) => Logged(r, g)' BY <1>4, <2>3 DEF Logged
  <2>7. ASSUME NEW k \in 1..(pass'[r] - 1) PROVE Logged(r, Passes[k])'
    <3>1. k \in 1..pass[r] BY <1>6, <1>7, <1>10, <1>15
    <3>2. CASE k = pass[r] BY <1>4, <2>2, <2>5, <3>2 DEF PassOf
    <3>3. CASE k # pass[r]
      <4>1. k \in 1..(pass[r] - 1) /\ k \in 1..Len(Passes) /\ k # Len(Passes) BY <1>2, <1>6, <1>7, <3>1, <3>3
      <4>2. Logged(r, Passes[k]) BY <2>1, <4>1 DEF RankLogged
      <4>3. Passes[k] \in Fields BY <1>15, <4>1, TrainSteps
      <4> QED BY <1>4, <2>5, <2>6, <4>2, <4>3
    <3> QED BY <3>2, <3>3
  <2>8. RankLogged(r)' BY <1>3, <1>4, <1>10, <1>15, <2>1, <2>3, <2>7 DEF RankLogged
  <2> QED BY <2>3, <2>8
<1>16. LogPart(r)' BY <1>4, <1>13, <1>14, <1>15 DEF LogPart
<1>17. LogShape' BY <1>1, <1>3, <1>4, <1>5, <1>15 DEF LogShape
<1>18. \A s \in Ranks \ {r} : logprobs'[s] = logprobs[s]
  <2>1. CASE call.kind = "train" BY <1>15, <2>1
  <2>2. CASE call.kind # "train" BY <1>3, <1>9, <2>2
  <2> QED BY <2>1, <2>2
<1>19. \A s \in Ranks \ {r} : LogState(s)' = LogState(s) BY <1>3, <1>5, <1>18 DEF LogState
<1> QED BY <1>3, <1>12, <1>16, <1>17, <1>19, LogOneRank

---------------------------------------------------------------------------
(* Logprobs: a batch is split and runs *)

\* The batch a rank of a train call works on.
LEMMA LogBatch ==
    ASSUME NEW r \in Ranks, LogPart(r), call.kind = "train", pc[r] \in {"split", "run"}
    PROVE  /\ batch[r] \in DOMAIN batches[r] /\ Batch(r) \in Seq(RowsAt(r))
           /\ DOMAIN batches[r] = 1..Len(batches[r]) /\ Len(batches[r]) \in Nat
<1>1. /\ batches[r] \in Seq(Seq(RowsAt(r))) /\ batch[r] \in Nat \ {0} /\ batch[r] <= Len(batches[r])
  BY DEF LogPart, RankLogged
<1>2. DOMAIN batches[r] = 1..Len(batches[r]) /\ Len(batches[r]) \in Nat BY <1>1
<1>3. batch[r] \in DOMAIN batches[r] BY <1>1, <1>2
<1> QED BY <1>1, <1>2, <1>3 DEF Batch

\* Ranks whose batches are cut into micro-batches that leave no row out.
LEMMA LogBegins ==
    ASSUME LogInv, NEW ranks \in SUBSET Ranks, NEW split, Begins(ranks, split),
           UNCHANGED logState,
           UNCHANGED <<pass, batch, weights, cpu_snapshots, logprobs, outputs, trained>>,
           \A r \in ranks : pc[r] = "split",
           \A r \in ranks : call.kind = "train" =>
               /\ split[r] \in Seq(Seq(RowsAt(r)))
               /\ \A x \in ToSet(Batch(r)) : \E i \in DOMAIN split[r] : x \in ToSet(split[r][i])
    PROVE  LogInv'
<1>1. /\ call' = call /\ cfg' = cfg /\ start' = start /\ batches' = batches /\ Ranks' = Ranks
      /\ Passes' = Passes /\ FieldWeights' = FieldWeights /\ \A r \in Ranks : RowsAt(r)' = RowsAt(r)
  BY LogCallFrame
<1>2. ASSUME NEW r \in Ranks PROVE LogPart(r)' /\ Current(r)' = Current(r)
  <2>0. LogPart(r) BY DEF LogInv
  <2>1. CASE r \in ranks
    <3>1. PICK s : s = split[r] OBVIOUS
    <3>2. pc[r] = "split" /\ pc'[r] = "run" /\ micro'[r] = s /\ fwd'[r] = 0 /\ bwd'[r] = 0
      BY <2>1, <3>1 DEF Begins
    <3>3. PassOf(r)' = PassOf(r) /\ Batch(r)' = Batch(r) BY <1>1 DEF PassOf, Batch
    <3>4. Swapped(r)' = Swapped(r) BY <3>2, <3>3 DEF Swapped
    <3>5. Current(r)' = Current(r) BY <3>4 DEF Current
    <3>6. PassKept(r)' BY <1>1, <2>0, <3>2, <3>3 DEF LogPart, PassKept
    <3>7. WeightsKept(r)'
      <4>1. WeightsKept(r) BY <2>0 DEF LogPart
      <4> QED BY <1>1, <3>2, <3>3, <3>5, <4>1 DEF WeightsKept
    <3>8. ASSUME call.kind = "train" PROVE RankLogged(r)'
      <4>1. RankLogged(r) BY <2>0, <3>8 DEF LogPart
      <4>2. PICK V : V = RowsAt(r) OBVIOUS
      <4>3. s \in Seq(Seq(V)) BY <2>1, <3>1, <3>8, <4>2
      <4>4. 0 \in 0..Len(s) /\ 0 \in 0..0 BY <4>3
      <4>5. ToSet(Batch(r)) \subseteq UNION {ToSet(s[i]) : i \in DOMAIN s} BY <2>1, <3>1, <3>8
      <4>6. Batched(r)' BY <1>1, <3>2, <3>3, <4>2, <4>3, <4>4, <4>5 DEF Batched
      <4>7. \A f : Logged(r, f)' <=> Logged(r, f) BY <1>1 DEF Logged
      <4>8. ASSUME PassOf(r) \in Fields PROVE Collecting(r)'
        <5>1. Collecting(r) BY <3>2, <4>1, <4>8 DEF RankLogged
        <5>2. \A i \in 1..0 : FALSE OBVIOUS
        <5> QED BY <1>1, <3>2, <3>3, <5>1, <5>2 DEF Collecting
      <4> QED BY <1>1, <3>2, <3>3, <4>1, <4>6, <4>7, <4>8 DEF RankLogged
    <3> QED BY <1>1, <3>5, <3>6, <3>7, <3>8 DEF LogPart
  <2>2. CASE r \notin ranks
    <3>1. /\ micro'[r] = micro[r] /\ fwd'[r] = fwd[r] /\ bwd'[r] = bwd[r] /\ pc'[r] = pc[r]
      BY <2>2 DEF Begins
    <3>2. LogState(r)' = LogState(r) BY <3>1 DEF LogState
    <3> QED BY <2>0, <3>2, LogRankFrame
  <2> QED BY <2>1, <2>2
<1>3. LogShape' BY <1>1 DEF LogInv, LogShape, Begins
<1>4. LogprobsAligned' BY <1>1, AlignedFrame DEF LogInv
<1> QED BY <1>2, <1>3, <1>4, LogWithin

\* SplitStatic: consecutive runs.
LEMMA LogSplitStatic ==
    ASSUME LogInv, NEW r \in Ranks, SplitStatic(r)
    PROVE  LogInv'
<1>1. LogPart(r) BY DEF LogInv
<1>2. /\ UNCHANGED logState /\ pc[r] = "split"
      /\ UNCHANGED <<pass, batch, weights, cpu_snapshots, logprobs, outputs, trained>>
  BY DEF SplitStatic, driver, model, logState
<1>3. PICK size \in Nat \ {0} : size = (IF Trains(r) THEN TrainMicro ELSE EvalMicro)
  BY MegatronAssumption
<1>4. PICK rows : rows = Batch(r) OBVIOUS
<1>5. PICK s : s = [j \in 1..CeilDiv(Len(rows), size) |->
                       SubSeq(rows, (j - 1) * size + 1, Min({j * size, Len(rows)}))]
  OBVIOUS
<1>6. PICK split : split = [q \in {r} |-> s] OBVIOUS
<1>7. Begins({r}, split) BY <1>3, <1>4, <1>5, <1>6 DEF SplitStatic
<1>8. ASSUME call.kind = "train"
      PROVE  s \in Seq(Seq(RowsAt(r))) /\ ToSet(rows) \subseteq UNION {ToSet(s[j]) : j \in DOMAIN s}
  <2>1. PICK V : V = RowsAt(r) OBVIOUS
  <2>2. rows \in Seq(V) BY <1>1, <1>2, <1>4, <1>8, <2>1, LogBatch
  <2>3. PICK m : m = CeilDiv(Len(rows), size) OBVIOUS
  <2>4. /\ m \in Nat
        /\ \A j \in 1..m : SubSeq(rows, (j - 1) * size + 1, Min({j * size, Len(rows)})) \in Seq(V)
        /\ \A x \in ToSet(rows) : \E j \in 1..m :
              x \in ToSet(SubSeq(rows, (j - 1) * size + 1, Min({j * size, Len(rows)})))
    BY ONLY size \in Nat \ {0}, <2>2, <2>3, ChunkRows
  <2>5. s = [j \in 1..m |-> SubSeq(rows, (j - 1) * size + 1, Min({j * size, Len(rows)}))]
    BY <1>5, <2>3
  <2>6. DOMAIN s = 1..m /\ \A j \in 1..m : s[j] \in Seq(V) BY <2>4, <2>5
  <2>7. s \in Seq(Seq(V))
    <3>1. s \in [1..m -> Seq(V)] BY <2>5, <2>6
    <3> QED BY ONLY <2>4, <3>1
  <2>8. \A x \in ToSet(rows) : \E j \in DOMAIN s : x \in ToSet(s[j]) BY <2>4, <2>5
  <2> QED BY <2>1, <2>7, <2>8
<1>9. /\ \A q \in {r} : pc[q] = "split" /\ {r} \in SUBSET Ranks
      /\ \A q \in {r} : call.kind = "train" =>
            /\ split[q] \in Seq(Seq(RowsAt(q)))
            /\ \A x \in ToSet(Batch(q)) : \E i \in DOMAIN split[q] : x \in ToSet(split[q][i])
  BY <1>2, <1>4, <1>6, <1>8
<1> QED BY <1>2, <1>7, <1>9, LogBegins

\* Ranks that raise.
LEMMA LogRaises ==
    ASSUME LogInv, NEW ranks \in SUBSET Ranks, UNCHANGED logState,
           UNCHANGED <<pass, batch, micro, fwd, bwd, weights, cpu_snapshots, logprobs, outputs, trained>>,
           \A r \in ranks : pc[r] \in {"split", "run"},
           DOMAIN pc' = Ranks,
           \A r \in Ranks : pc'[r] = IF r \in ranks THEN "raised" ELSE pc[r]
    PROVE  LogInv'
<1>1. /\ call' = call /\ cfg' = cfg /\ start' = start /\ batches' = batches /\ Ranks' = Ranks
      /\ Passes' = Passes /\ FieldWeights' = FieldWeights /\ \A r \in Ranks : RowsAt(r)' = RowsAt(r)
  BY LogCallFrame
<1>2. ASSUME NEW r \in Ranks PROVE LogPart(r)' /\ Current(r)' = Current(r)
  <2>0. LogPart(r) BY DEF LogInv
  <2>1. CASE r \in ranks
    <3>1. pc[r] \in {"split", "run"} /\ pc'[r] = "raised" BY <2>1
    <3>2. PassOf(r)' = PassOf(r) BY <1>1 DEF PassOf
    <3>3. Swapped(r)' = Swapped(r) BY <3>1, <3>2 DEF Swapped
    <3>4. Current(r)' = Current(r) BY <3>3 DEF Current
    <3>5. PassKept(r)' BY <1>1, <2>0, <3>1, <3>2 DEF LogPart, PassKept
    <3>6. WeightsKept(r)'
      <4>1. WeightsKept(r) BY <2>0 DEF LogPart
      <4> QED BY <1>1, <3>1, <3>2, <3>4, <4>1 DEF WeightsKept
    <3>7. ASSUME call.kind = "train" PROVE RankLogged(r)'
      <4>1. RankLogged(r) BY <2>0, <3>7 DEF LogPart
      <4>2. \A f : Logged(r, f)' <=> Logged(r, f) BY <1>1 DEF Logged
      <4> QED BY <1>1, <3>1, <4>1, <4>2 DEF RankLogged
    <3> QED BY <1>1, <3>4, <3>5, <3>6, <3>7 DEF LogPart
  <2>2. CASE r \notin ranks
    <3>1. LogState(r)' = LogState(r) BY <2>2 DEF LogState
    <3> QED BY <2>0, <3>1, LogRankFrame
  <2> QED BY <2>1, <2>2
<1>3. LogprobsAligned' BY <1>1, AlignedFrame DEF LogInv
<1>4. LogShape' BY <1>1 DEF LogInv, LogShape
<1> QED BY <1>2, <1>3, <1>4, LogWithin

\* SplitDynamic: the partitions that passed the asserts leave no row out.
LEMMA LogSplitDynamic ==
    ASSUME LogInv, SplitDynamic
    PROVE  LogInv'
<1>1. LogShape /\ \A r \in Ranks : LogPart(r) BY DEF LogInv
<1>2. /\ UNCHANGED logState /\ \A r \in Ranks : pc[r] = "split"
      /\ UNCHANGED <<pass, batch, weights, cpu_snapshots, logprobs, outputs, trained>>
  BY DEF SplitDynamic, driver, model, logState, Everyone
<1> DEFINE Count(r) == RoundedCount(AgreedCount(r), cfg.vpp, cfg.group)
<1>3. PICK parts :
          \/ /\ \A r \in Ranks : PartitionsChecked(parts[r], Count(r), Lens(r))
             /\ Begins(Ranks, [r \in Ranks |-> RowsOf(Batch(r), parts[r])])
          \/ /\ pc' = [r \in Ranks |-> "raised"]
             /\ UNCHANGED <<micro, fwd, bwd>>
  <2>1. PICK parts :
            \/ /\ \A r \in Ranks : PartitionsChecked(parts[r], Count(r), Lens(r))
               /\ \E s \in {[r \in Ranks |-> RowsOf(Batch(r), parts[r])]} : Begins(Ranks, s)
            \/ /\ pc' = [r \in Ranks |-> "raised"]
               /\ UNCHANGED <<micro, fwd, bwd>>
    BY DEF SplitDynamic
  <2>2. CASE \E s \in {[r \in Ranks |-> RowsOf(Batch(r), parts[r])]} : Begins(Ranks, s)
    <3>1. Begins(Ranks, [r \in Ranks |-> RowsOf(Batch(r), parts[r])]) BY <2>2
    <3> HIDE DEF Count
    <3> QED BY <2>1, <3>1
  <2> HIDE DEF Count
  <2> QED BY <2>1, <2>2
<1> HIDE DEF Count
<1>4. CASE /\ \A r \in Ranks : PartitionsChecked(parts[r], Count(r), Lens(r))
           /\ Begins(Ranks, [r \in Ranks |-> RowsOf(Batch(r), parts[r])])
  <2>1. PICK split : split = [r \in Ranks |-> RowsOf(Batch(r), parts[r])] OBVIOUS
  <2>2. ASSUME NEW r \in Ranks, call.kind = "train"
        PROVE  /\ split[r] \in Seq(Seq(RowsAt(r)))
               /\ \A x \in ToSet(Batch(r)) : \E i \in DOMAIN split[r] : x \in ToSet(split[r][i])
    <3>1. PICK V : V = RowsAt(r) OBVIOUS
    <3>2. PICK rows \in Seq(V) : rows = Batch(r) BY <1>1, <1>2, <2>2, <3>1, LogBatch
    <3>3. DOMAIN Lens(r) = DOMAIN rows BY <3>2 DEF Lens
    <3>4. PICK part : part = parts[r] OBVIOUS
    <3>5. /\ part \in Seq((SUBSET DOMAIN rows) \ {{}})
          /\ UNION {part[j] : j \in DOMAIN part} = DOMAIN rows
      BY <1>4, <3>3, <3>4 DEF PartitionsChecked
    <3>6. \A j \in 1..Len(part) : part[j] \in SUBSET DOMAIN rows BY <3>5
    <3>7. part \in Seq(SUBSET DOMAIN rows) BY <3>5, <3>6
    <3>8. RowsOf(rows, part) \in Seq(Seq(V)) BY <3>7, PickedRows
    <3>9. ToSet(rows) \subseteq UNION {ToSet(RowsOf(rows, part)[j]) : j \in DOMAIN RowsOf(rows, part)}
      BY <3>5, <3>7, PickedAll
    <3>10. split[r] = RowsOf(rows, part) BY <2>1, <3>2, <3>4
    <3> QED BY <3>1, <3>2, <3>8, <3>9, <3>10
  <2>3. Begins(Ranks, split) BY <1>4, <2>1
  <2>4. PICK ranks : ranks = Ranks OBVIOUS
  <2>5. ranks \in SUBSET Ranks /\ Begins(ranks, split) /\ \A r \in ranks : pc[r] = "split"
    BY <1>2, <2>3, <2>4
  <2>6. \A r \in ranks : call.kind = "train" =>
            /\ split[r] \in Seq(Seq(RowsAt(r)))
            /\ \A x \in ToSet(Batch(r)) : \E i \in DOMAIN split[r] : x \in ToSet(split[r][i])
    BY <2>2, <2>4
  <2>7. /\ UNCHANGED logState
        /\ UNCHANGED <<pass, batch, weights, cpu_snapshots, logprobs, outputs, trained>>
    BY <1>2
  <2> QED BY ONLY LogInv, <2>5, <2>6, <2>7, LogBegins
<1>5. CASE pc' = [r \in Ranks |-> "raised"] /\ UNCHANGED <<micro, fwd, bwd>>
  <2>1. PICK ranks : ranks = Ranks OBVIOUS
  <2>2. /\ ranks \in SUBSET Ranks /\ \A r \in ranks : pc[r] \in {"split", "run"}
        /\ DOMAIN pc' = Ranks /\ \A r \in Ranks : pc'[r] = IF r \in ranks THEN "raised" ELSE pc[r]
    BY <1>2, <1>5, <2>1
  <2> QED BY <1>2, <1>5, <2>2, LogRaises
<1> QED BY <1>3, <1>4, <1>5

\* The indices of two lists put together.
LEMMA IndicesJoin ==
    ASSUME NEW V, NEW a \in Seq(V), NEW b \in Seq(V)
    PROVE  Indices(a) \subseteq Indices(a \o b) /\ Indices(b) \subseteq Indices(a \o b)
<1>1. PICK c : c = a \o b OBVIOUS
<1>2. \A i \in DOMAIN a : i \in DOMAIN c /\ c[i] = a[i] BY <1>1
<1>3. \A i \in DOMAIN b : Len(a) + i \in DOMAIN c /\ c[Len(a) + i] = b[i] BY <1>1
<1> QED BY <1>1, <1>2, <1>3 DEF Indices

\* Forward: the rows of the next micro-batch have their outputs.
LEMMA LogForward ==
    ASSUME LogInv, NEW crew \in Crews, Forward(crew)
    PROVE  LogInv'
<1>1. crew \in SUBSET Ranks BY DEF Crews
<1>2. /\ UNCHANGED logState /\ \A r \in crew : ForwardNext(r)
      /\ UNCHANGED <<pass, batch, micro, bwd, weights, cpu_snapshots, logprobs, trained>>
  BY DEF Forward, driver, model, logState
<1>3. \/ /\ pc' = [r \in Ranks |-> IF r \in crew THEN "raised" ELSE pc[r]]
         /\ UNCHANGED <<fwd, outputs>>
      \/ /\ fwd' = [r \in Ranks |-> IF r \in crew THEN fwd[r] + 1 ELSE fwd[r]]
         /\ outputs' = [r \in Ranks |-> IF r \in crew THEN outputs[r] \o OutputsOf(r) ELSE outputs[r]]
         /\ UNCHANGED pc
  BY DEF Forward
<1>4. CASE /\ pc' = [r \in Ranks |-> IF r \in crew THEN "raised" ELSE pc[r]]
           /\ UNCHANGED <<fwd, outputs>>
  <2>1. \A r \in crew : pc[r] \in {"split", "run"} BY <1>2 DEF ForwardNext
  <2>2. DOMAIN pc' = Ranks /\ \A r \in Ranks : pc'[r] = IF r \in crew THEN "raised" ELSE pc[r]
    BY <1>4
  <2> QED BY <1>1, <1>2, <1>4, <2>1, <2>2, LogRaises
<1>5. CASE /\ fwd' = [r \in Ranks |-> IF r \in crew THEN fwd[r] + 1 ELSE fwd[r]]
           /\ outputs' = [r \in Ranks |-> IF r \in crew THEN outputs[r] \o OutputsOf(r) ELSE outputs[r]]
           /\ UNCHANGED pc
  <2>1. /\ call' = call /\ cfg' = cfg /\ start' = start /\ batches' = batches /\ Ranks' = Ranks
        /\ Passes' = Passes /\ FieldWeights' = FieldWeights /\ \A r \in Ranks : RowsAt(r)' = RowsAt(r)
    BY <1>2, LogCallFrame
  <2>2. ASSUME NEW r \in Ranks PROVE LogPart(r)' /\ Current(r)' = Current(r)
    <3>0. LogPart(r) BY DEF LogInv
    <3>1. CASE r \in crew
      <4>1. /\ pc[r] = "run" /\ pc'[r] = "run" /\ fwd[r] < Len(micro[r]) /\ fwd'[r] = fwd[r] + 1
            /\ outputs'[r] = outputs[r] \o OutputsOf(r)
        BY <1>2, <1>5, <3>1 DEF ForwardNext
      <4>2. PassOf(r)' = PassOf(r) /\ Batch(r)' = Batch(r) BY <1>2, <2>1 DEF PassOf, Batch
      <4>3. Swapped(r)' = Swapped(r) BY <4>1, <4>2 DEF Swapped
      <4>4. Current(r)' = Current(r) BY <1>2, <4>3 DEF Current
      <4>5. PassKept(r)' BY <1>2, <2>1, <3>0, <4>1, <4>2 DEF LogPart, PassKept
      <4>6. WeightsKept(r)'
        <5>1. WeightsKept(r) BY <3>0 DEF LogPart
        <5> QED BY <1>2, <2>1, <4>1, <4>2, <4>4, <5>1 DEF WeightsKept
      <4>7. ASSUME call.kind = "train" PROVE RankLogged(r)'
        <5>1. RankLogged(r) BY <3>0, <4>7 DEF LogPart
        <5>2. Batched(r) BY <4>1, <5>1 DEF RankLogged
        <5>3. PICK V : V = RowsAt(r) OBVIOUS
        <5>4. PICK s \in Seq(Seq(V)) : s = micro[r] BY <5>2, <5>3 DEF Batched
        <5>5. PICK k \in Nat : k = fwd[r] /\ k < Len(s) /\ bwd[r] \in 0..k BY <4>1, <5>2, <5>4 DEF Batched
        <5>6. k + 1 \in 0..Len(s) /\ bwd[r] \in 0..(k + 1) /\ k + 1 \in DOMAIN s BY <5>4, <5>5
        <5>7. Batched(r)' BY <1>2, <2>1, <4>1, <4>2, <5>2, <5>4, <5>5, <5>6 DEF Batched
        <5>8. \A f : Logged(r, f)' <=> Logged(r, f) BY <1>2, <2>1 DEF Logged
        <5>9. ASSUME PassOf(r) \in Fields PROVE Collecting(r)'
          <6>1. Collecting(r) BY <4>1, <5>1, <5>9 DEF RankLogged
          <6>2. PICK w : w = FieldWeights[PassOf(r)] OBVIOUS
          <6>3. PICK O : O = {OutputFor(x.index, w) : x \in V} OBVIOUS
          <6>4. PICK rows \in Seq(V) : rows = s[k + 1] BY <5>4, <5>6
          <6>5. PICK more : more = [j \in DOMAIN rows |-> OutputFor(rows[j].index, w)] OBVIOUS
          <6>6. more \in Seq(O) /\ \A j \in DOMAIN rows : j \in DOMAIN more /\ more[j].index = rows[j].index
            <7>1. PICK n \in Nat : DOMAIN rows = 1..n /\ \A j \in 1..n : rows[j] \in V BY <6>4
            <7>2. \A j \in 1..n : OutputFor(rows[j].index, w) \in O BY <6>3, <7>1
            <7>3. more \in [1..n -> O] BY <6>5, <7>1, <7>2
            <7>4. \A j \in 1..n : more[j] = OutputFor(rows[j].index, w) BY <6>5, <7>1
            <7>5. ASSUME NEW j \in 1..n PROVE more[j].index = rows[j].index
              <8>1. PICK x : x = rows[j].index OBVIOUS
              <8>2. more[j] = OutputFor(x, w) BY <7>4, <8>1
              <8>3. OutputFor(x, w).index = x BY ONLY DEF OutputFor
              <8> QED BY <8>1, <8>2, <8>3
            <7> QED BY <7>1, <7>3, <7>5
          <6>7. OutputsOf(r) = more
            <7>1. weights[r] = w BY <6>1, <6>2 DEF Collecting
            <7>2. micro[r][fwd[r] + 1] = rows BY <5>4, <5>5, <6>4
            <7> QED BY <6>5, <7>1, <7>2 DEF OutputsOf, OutputFor
          <6>8. PICK o \in Seq(O) : o = outputs[r] BY <5>3, <6>1, <6>2, <6>3 DEF Collecting
          <6>9. o \o more \in Seq(O) /\ outputs'[r] = o \o more BY <4>1, <6>6, <6>7, <6>8
          <6>10. Indices(o) \subseteq Indices(o \o more) /\ Indices(more) \subseteq Indices(o \o more)
            BY <6>6, IndicesJoin
          <6>11. Indices(rows) \subseteq Indices(more) BY <6>6 DEF Indices
          <6>12. \A i \in 1..(k + 1) : Indices(s[i]) \subseteq Indices(o \o more)
            <7>1. \A i \in 1..k : Indices(s[i]) \subseteq Indices(o)
              BY <4>1, <5>4, <5>5, <6>1, <6>8 DEF Collecting
            <7>2. \A i \in 1..(k + 1) : i \in 1..k \/ i = k + 1 OBVIOUS
            <7> QED BY <6>4, <6>10, <6>11, <7>1, <7>2
          <6>13. \A b \in DOMAIN batches[r] : b < batch[r] =>
                    Indices(batches[r][b]) \subseteq Indices(o \o more)
            BY <6>1, <6>8, <6>10 DEF Collecting
          <6>14. FieldWeights'[PassOf(r)'] = w /\ weights'[r] = w /\ RowsAt(r)' = V
            BY <1>2, <2>1, <4>2, <5>3, <6>1, <6>2 DEF Collecting
          <6>15. fwd'[r] = k + 1 /\ micro'[r] = s BY <1>2, <4>1, <5>4, <5>5
          <6> QED BY <1>2, <2>1, <4>1, <6>3, <6>9, <6>12, <6>13, <6>14, <6>15 DEF Collecting
        <5> QED BY <1>2, <2>1, <4>1, <4>2, <5>1, <5>7, <5>8, <5>9 DEF RankLogged
      <4> QED BY <2>1, <4>4, <4>5, <4>6, <4>7 DEF LogPart
    <3>2. CASE r \notin crew
      <4>1. LogState(r)' = LogState(r) BY <1>2, <1>5, <3>2 DEF LogState
      <4> QED BY <1>2, <3>0, <4>1, LogRankFrame
    <3> QED BY <3>1, <3>2
  <2>3. LogprobsAligned' BY <1>2, <2>1, AlignedFrame DEF LogInv
  <2>4. LogShape' BY <1>2, <1>5, <2>1 DEF LogInv, LogShape
  <2> QED BY <1>2, <2>2, <2>3, <2>4, LogWithin
<1> QED BY <1>3, <1>4, <1>5

\* Backward: the rows of the training pass have the logprobs of every pass before.
LEMMA LogBackward ==
    ASSUME LogInv, NEW crew \in Crews, Backward(crew)
    PROVE  LogInv'
<1>1. crew \in SUBSET Ranks BY DEF Crews
<1>2. /\ UNCHANGED logState /\ \A r \in crew : BackwardNext(r)
      /\ bwd' = [r \in Ranks |-> IF r \in crew THEN bwd[r] + 1 ELSE bwd[r]]
      /\ trained' = trained \cup UNION {BackwardRows(r) : r \in crew}
      /\ UNCHANGED <<pc, pass, batch, micro, fwd, weights, cpu_snapshots, logprobs, outputs>>
  BY DEF Backward, driver, model, logState
<1>3. /\ call' = call /\ cfg' = cfg /\ start' = start /\ batches' = batches /\ Ranks' = Ranks
      /\ Passes' = Passes /\ FieldWeights' = FieldWeights /\ \A r \in Ranks : RowsAt(r)' = RowsAt(r)
  BY <1>2, LogCallFrame
<1>4. ASSUME NEW r \in Ranks PROVE LogPart(r)' /\ Current(r)' = Current(r)
  <2>0. LogPart(r) BY DEF LogInv
  <2>1. CASE r \in crew
    <3>1. pc[r] = "run" /\ bwd[r] < fwd[r] /\ bwd'[r] = bwd[r] + 1 BY <1>2, <2>1 DEF BackwardNext
    <3>2. PassOf(r)' = PassOf(r) /\ Batch(r)' = Batch(r) BY <1>2, <1>3 DEF PassOf, Batch
    <3>3. Swapped(r)' = Swapped(r) BY <1>2, <3>2 DEF Swapped
    <3>4. Current(r)' = Current(r) BY <1>2, <3>3 DEF Current
    <3>5. PassKept(r)' BY <1>2, <1>3, <2>0, <3>2 DEF LogPart, PassKept
    <3>6. WeightsKept(r)'
      <4>1. WeightsKept(r) BY <2>0 DEF LogPart
      <4> QED BY <1>2, <1>3, <3>1, <3>2, <3>4, <4>1 DEF WeightsKept
    <3>7. ASSUME call.kind = "train" PROVE RankLogged(r)'
      <4>1. RankLogged(r) BY <2>0, <3>7 DEF LogPart
      <4>2. Batched(r) BY <3>1, <4>1 DEF RankLogged
      <4>3. bwd[r] + 1 \in 0..fwd[r]
        <5>1. PICK m \in Nat : m = Len(micro[r]) BY <4>2 DEF Batched
        <5>2. PICK k \in Nat : k = fwd[r] BY <4>2, <5>1 DEF Batched
        <5>3. bwd[r] \in 0..k /\ bwd[r] < k BY <3>1, <4>2, <5>2 DEF Batched
        <5> QED BY <5>2, <5>3
      <4>4. Batched(r)' BY <1>2, <1>3, <3>1, <3>2, <4>2, <4>3 DEF Batched
      <4>5. \A f : Logged(r, f)' <=> Logged(r, f) BY <1>2, <1>3 DEF Logged
      <4>6. Collecting(r) => Collecting(r)' BY <1>2, <1>3, <3>2 DEF Collecting
      <4> QED BY <1>2, <1>3, <3>2, <4>1, <4>4, <4>5, <4>6 DEF RankLogged
    <3> QED BY <1>3, <3>4, <3>5, <3>6, <3>7 DEF LogPart
  <2>2. CASE r \notin crew
    <3>1. LogState(r)' = LogState(r) BY <1>2, <2>2 DEF LogState
    <3> QED BY <1>2, <2>0, <3>1, LogRankFrame
  <2> QED BY <2>1, <2>2
<1>5. LogShape' BY <1>2, <1>3 DEF LogInv, LogShape
<1>6. ASSUME call.kind = "train", NEW r \in crew, NEW t \in BackwardRows(r), IsReal(t.row)
      PROVE  /\ t.given.ref = [row |-> t.row.index, weights |-> start.init]
             /\ t.given.old = [row |-> t.row.index, weights |-> start.cur]
             /\ cfg.teacher => t.given.teacher = [row |-> t.row.index, weights |-> -1]
  <2>1. r \in Ranks /\ pc[r] = "run" /\ bwd[r] < fwd[r] /\ Trains(r)
    BY <1>1, <1>2 DEF BackwardNext
  <2>2. RankLogged(r) /\ PassKept(r) BY <1>6, <2>1 DEF LogInv, LogPart
  <2>3. Batched(r) BY <2>1, <2>2 DEF RankLogged
  <2>4. PICK V : V = RowsAt(r) OBVIOUS
  <2>5. PICK s \in Seq(Seq(V)) : s = micro[r] BY <2>3, <2>4 DEF Batched
  <2>6. PICK i \in DOMAIN s : i = bwd[r] + 1
    <3>1. PICK k \in 0..Len(s) : k = fwd[r] BY <2>3, <2>5 DEF Batched
    <3>2. bwd[r] \in 0..k /\ bwd[r] < k BY <2>1, <2>3, <3>1 DEF Batched
    <3> QED BY <3>1, <3>2
  <2>7. PICK rows \in Seq(V) : rows = s[i] BY <2>5, <2>6
  <2>8. PICK j \in DOMAIN rows :
            /\ t.row = rows[j]
            /\ \A f \in Fields : t.given[f] = IF rows[j].index \in DOMAIN logprobs[r][f]
                                              THEN logprobs[r][f][rows[j].index] ELSE <<>>
    <3>0. PICK again : again = IF cfg.r3 /\ cfg.recompute THEN Head(replay[r]) ELSE routed[r][i].rows
      OBVIOUS
    <3>1. PICK j \in DOMAIN rows :
              t = [rank |-> r, batch |-> batch[r], micro |-> i, pos |-> j, row |-> rows[j],
                   weights |-> weights[r],
                   given |-> [f \in Fields |->
                       IF rows[j].index \in DOMAIN logprobs[r][f]
                       THEN logprobs[r][f][rows[j].index] ELSE <<>>],
                   routing |-> IF cfg.r3 THEN routed[r][i].rows[j] ELSE <<>>,
                   replayed |-> IF cfg.r3 THEN again[j] ELSE <<>>]
      <4>1. micro[r][bwd[r] + 1] = rows /\ i = bwd[r] + 1 BY <2>5, <2>6, <2>7
      <4> QED BY <3>0, <4>1 DEF BackwardRows
    <3> QED BY <3>1
  <2>9. PICK x \in V : x = t.row /\ IsReal(x)
    <3>1. rows[j] \in V BY <2>7, <2>8
    <3> QED BY <1>6, <2>8, <3>1
  <2>10. ASSUME NEW f \in Fields, Logged(r, f)
         PROVE  t.given[f] = [row |-> x.index, weights |-> FieldWeights[f]]
    <3>1. /\ x.index \in DOMAIN logprobs[r][f]
          /\ logprobs[r][f][x.index] = [row |-> x.index, weights |-> FieldWeights[f]]
      BY <2>4, <2>9, <2>10 DEF Logged
    <3> QED BY <2>8, <2>9, <3>1
  <2>11. PICK k \in 1..Len(Passes) : k = pass[r] /\ Passes[k] = "train"
    <3>1. PICK k \in 1..Len(Passes) : k = pass[r] BY <2>1, <2>2 DEF PassKept
    <3>2. Passes[k] \in Fields \cup {"train"} BY <1>6, TrainSteps
    <3>3. Passes[k] \in {"train", "reproduce"} BY <2>1, <3>1 DEF Trains, PassOf
    <3> QED BY <3>1, <3>2, <3>3 DEF Fields
  <2>12. /\ \E m \in 1..(k - 1) : Passes[m] = "ref"
         /\ \E m \in 1..(k - 1) : Passes[m] = "old"
         /\ cfg.teacher => \E m \in 1..(k - 1) : Passes[m] = "teacher"
    BY <1>6, <2>11, TrainSteps
  <2>13. Logged(r, "ref") /\ Logged(r, "old") /\ (cfg.teacher => Logged(r, "teacher"))
    BY <2>2, <2>11, <2>12 DEF RankLogged
  <2>14. {"ref", "old", "teacher"} \subseteq Fields BY DEF Fields
  <2>15. /\ FieldWeights["ref"] = start.init /\ FieldWeights["old"] = start.cur
         /\ FieldWeights["teacher"] = -1
    BY DEF FieldWeights
  <2>16. t.given.ref = t.given["ref"] /\ t.given.old = t.given["old"]
         /\ t.given.teacher = t.given["teacher"]
    OBVIOUS
  <2> QED BY <2>9, <2>10, <2>13, <2>14, <2>15, <2>16
<1>7. LogprobsAligned'
  <2> SUFFICES ASSUME call.kind = "train", NEW t \in RealTrained'
               PROVE  /\ t.given.ref = [row |-> t.row.index, weights |-> start.init]
                      /\ t.given.old = [row |-> t.row.index, weights |-> start.cur]
                      /\ cfg.teacher => t.given.teacher = [row |-> t.row.index, weights |-> -1]
    BY <1>3 DEF LogprobsAligned
  <2>1. t \in trained' /\ IsReal(t.row) BY DEF RealTrained
  <2>2. CASE t \in trained
    <3>1. t \in RealTrained BY <2>1, <2>2 DEF RealTrained
    <3> QED BY <3>1 DEF LogInv, LogprobsAligned
  <2>3. CASE \E r \in crew : t \in BackwardRows(r) BY <1>6, <2>1, <2>3
  <2> QED BY <1>2, <2>1, <2>2, <2>3
<1> QED BY <1>2, <1>4, <1>5, <1>7, LogWithin

\* EndBatch: the next batch, the end of a logprobs pass, or the optimizer step.
LEMMA LogEndBatch ==
    ASSUME LogInv, NEW r \in Ranks, EndBatch(r)
    PROVE  LogInv'
<1>1. LogPart(r) /\ LogShape BY DEF LogInv
<1>2. /\ UNCHANGED logState /\ pc[r] = "run" /\ fwd[r] = Len(micro[r])
      /\ UNCHANGED <<pass, micro, fwd, bwd, weights, cpu_snapshots, logprobs, outputs, trained>>
  BY DEF EndBatch, driver, model, logState
<1>3. PICK where : /\ pc' = [pc EXCEPT ![r] = where]
                   /\ batch' = [batch EXCEPT ![r] = IF pc'[r] = "split" THEN @ + 1 ELSE @]
                   /\ where = CASE PassOf(r) = "train" -> "update"
                                [] PassOf(r) = "reproduce" -> "done"
                                [] ~Trains(r) /\ batch[r] < Len(batches[r]) -> "split"
                                [] OTHER -> "gather"
  BY DEF EndBatch
<1>4. /\ call' = call /\ cfg' = cfg /\ start' = start /\ batches' = batches /\ Ranks' = Ranks
      /\ Passes' = Passes /\ FieldWeights' = FieldWeights /\ RowsAt(r)' = RowsAt(r)
  BY <1>2, LogCallFrame
<1>5. /\ pc'[r] = where /\ batch'[r] = (IF where = "split" THEN batch[r] + 1 ELSE batch[r])
      /\ DOMAIN pc' = Ranks /\ DOMAIN batch' = Ranks
      /\ \A s \in Ranks \ {r} : pc'[s] = pc[s] /\ batch'[s] = batch[s]
  BY <1>1, <1>3 DEF LogShape
<1>6. \/ PassOf(r) = "train" /\ where = "update"
      \/ PassOf(r) = "reproduce" /\ where = "done"
      \/ PassOf(r) \notin {"train", "reproduce"} /\ where = "split" /\ batch[r] < Len(batches[r])
      \/ PassOf(r) \notin {"train", "reproduce"} /\ where = "gather" /\ ~(batch[r] < Len(batches[r]))
  BY <1>3 DEF Trains
<1>7. PassOf(r)' = PassOf(r) BY <1>2, <1>4 DEF PassOf
<1>8. Swapped(r)' = Swapped(r) BY <1>2, <1>5, <1>6, <1>7 DEF Swapped
<1>9. Current(r)' = Current(r) BY <1>2, <1>8 DEF Current
<1>10. PassKept(r)' BY <1>1, <1>2, <1>4, <1>5, <1>6, <1>7 DEF LogPart, PassKept
<1>11. WeightsKept(r)'
  <2>1. WeightsKept(r) BY <1>1 DEF LogPart
  <2> QED BY <1>2, <1>4, <1>5, <1>6, <1>7, <1>9, <2>1 DEF WeightsKept
<1>12. ASSUME call.kind = "train" PROVE RankLogged(r)'
  <2>1. RankLogged(r) BY <1>1, <1>12 DEF LogPart
  <2>2. Batched(r) BY <1>2, <2>1 DEF RankLogged
  <2>3. \A f : Logged(r, f)' <=> Logged(r, f) BY <1>2, <1>4 DEF Logged
  <2>4. PICK b \in Nat \ {0} : b = batch[r] BY <2>1 DEF RankLogged
  <2>5. PICK m \in Nat : m = Len(batches[r]) /\ DOMAIN batches[r] = 1..m /\ b <= m
    BY <1>1, <1>2, <1>12, <2>1, <2>4, LogBatch DEF RankLogged
  <2>6. batch'[r] \in Nat \ {0} /\ (where = "split" => batch'[r] <= m)
    BY <1>5, <1>6, <2>4, <2>5
  <2>7. ASSUME PassOf(r) \in Fields, where \in {"split", "gather"} PROVE Collecting(r)'
    <3>1. Collecting(r) BY <1>2, <2>1, <2>7 DEF RankLogged
    <3>2. Indices(batches[r][b]) \subseteq Indices(outputs[r])
      <4>1. \A i \in DOMAIN micro[r] : Indices(micro[r][i]) \subseteq Indices(outputs[r])
        <5>1. DOMAIN micro[r] = 1..Len(micro[r]) BY <2>2 DEF Batched
        <5> QED BY <1>2, <3>1, <5>1 DEF Collecting
      <4>2. ToSet(batches[r][b]) \subseteq UNION {ToSet(micro[r][i]) : i \in DOMAIN micro[r]}
        BY <2>2, <2>4 DEF Batched, Batch
      <4> SUFFICES ASSUME NEW j \in DOMAIN batches[r][b]
                   PROVE  batches[r][b][j].index \in Indices(outputs[r])
        BY DEF Indices
      <4>3. PICK i \in DOMAIN micro[r] : batches[r][b][j] \in ToSet(micro[r][i]) BY <4>2 DEF ToSet
      <4>4. batches[r][b][j].index \in Indices(micro[r][i]) BY <4>3 DEF ToSet, Indices
      <4> QED BY <4>1, <4>4
    <3>3. ASSUME NEW c \in DOMAIN batches[r], c < batch'[r] \/ where = "gather"
          PROVE  Indices(batches[r][c]) \subseteq Indices(outputs[r])
      <4>1. c \in Nat /\ c <= m BY <2>5
      <4>2. c <= b
        <5>1. CASE where = "split" BY <1>5, <2>4, <3>3, <4>1, <5>1
        <5>2. CASE where = "gather" BY <1>6, <2>4, <2>5, <4>1, <5>2
        <5> QED BY <2>7, <5>1, <5>2
      <4>3. c < b \/ c = b BY <2>4, <4>1, <4>2
      <4> QED BY <2>4, <3>1, <3>2, <4>3 DEF Collecting
    <3>4. pc'[r] # "run" BY <1>5, <2>7
    <3> QED BY <1>2, <1>4, <1>5, <1>7, <3>1, <3>3, <3>4 DEF Collecting
  <2>8. pc'[r] # "run" /\ (pc'[r] \in {"split", "gather"} => where \in {"split", "gather"})
    BY <1>5, <1>6
  <2> QED BY <1>2, <1>4, <1>5, <1>7, <2>1, <2>3, <2>5, <2>6, <2>7, <2>8 DEF RankLogged
<1>13. LogPart(r)' BY <1>4, <1>10, <1>11, <1>12 DEF LogPart
<1>14. LogShape' BY <1>1, <1>2, <1>4, <1>5 DEF LogShape
<1>15. \A s \in Ranks \ {r} : LogState(s)' = LogState(s) BY <1>2, <1>5 DEF LogState
<1> QED BY <1>2, <1>9, <1>13, <1>14, <1>15, LogOneRank

\* Update: every rank steps, in the training pass, or none does.
LEMMA LogUpdate ==
    ASSUME LogInv, NEW norm, Update(norm)
    PROVE  LogInv'
<1>1. LogShape /\ \A r \in Ranks : LogPart(r) BY DEF LogInv
<1>2. /\ UNCHANGED logState /\ \A r \in Ranks : pc[r] = "update"
      /\ pc' = [r \in Ranks |-> IF batch[r] < Len(batches[r]) THEN "split" ELSE "done"]
      /\ batch' = [r \in Ranks |-> IF batch[r] < Len(batches[r]) THEN batch[r] + 1 ELSE batch[r]]
      /\ weights' = weights \/ weights' = [r \in Ranks |-> weights[r] + 1]
      /\ UNCHANGED <<pass, micro, fwd, bwd, cpu_snapshots, logprobs, outputs, trained>>
  BY DEF Update, Everyone, driver, logState
<1>3. /\ call' = call /\ cfg' = cfg /\ start' = start /\ batches' = batches /\ Ranks' = Ranks
      /\ Passes' = Passes /\ FieldWeights' = FieldWeights /\ Resets' = Resets
      /\ \A r \in Ranks : RowsAt(r)' = RowsAt(r)
  BY <1>2, LogCallFrame
<1>4. ASSUME NEW r \in Ranks
      PROVE  /\ PassOf(r) = "train" /\ PassOf(r)' = "train" /\ pc'[r] \in {"split", "done"}
             /\ Current(r) = weights[r] /\ Current(r)' = weights'[r]
  <2>1. PassOf(r) = "train" BY <1>1, <1>2 DEF LogPart, PassKept
  <2>2. PassOf(r)' = "train" BY <1>2, <1>3, <2>1 DEF PassOf
  <2>3. pc[r] = "update" /\ pc'[r] \in {"split", "done"} BY <1>2
  <2>4. ~Swapped(r) /\ ~Swapped(r)' BY <2>1, <2>2, <2>3 DEF Swapped
  <2> QED BY <2>1, <2>2, <2>3, <2>4 DEF Current
<1>5. ASSUME NEW r \in Ranks, NEW s \in Ranks PROVE Current(r)' = Current(s)'
  <2>1. weights[r] = weights[s] BY <1>4 DEF LogInv
  <2>2. weights'[r] = weights'[s] BY <1>2, <2>1
  <2> QED BY <1>4, <2>2
<1>6. ASSUME NEW r \in Ranks PROVE LogPart(r)'
  <2>0. LogPart(r) /\ pc[r] = "update" BY <1>1, <1>2
  <2>1. PassKept(r)' BY <1>2, <1>3, <1>4, <2>0 DEF LogPart, PassKept
  <2>2. WeightsKept(r)'
    <3>1. WeightsKept(r) BY <2>0 DEF LogPart
    <3> QED BY <1>2, <1>3, <1>4, <2>0, <3>1 DEF WeightsKept
  <2>3. ASSUME call.kind = "train" PROVE RankLogged(r)'
    <3>1. RankLogged(r) BY <2>0, <2>3 DEF LogPart
    <3>2. \A f : Logged(r, f)' <=> Logged(r, f) BY <1>2, <1>3 DEF Logged
    <3>3. PICK b \in Nat \ {0} : b = batch[r] BY <3>1 DEF RankLogged
    <3>4. PICK m \in Nat : m = Len(batches[r]) BY <3>1 DEF RankLogged
    <3>5. /\ pc'[r] = IF b < m THEN "split" ELSE "done"
          /\ batch'[r] = IF b < m THEN b + 1 ELSE b
      BY <1>2, <3>3, <3>4
    <3>6. batch'[r] \in Nat \ {0} /\ (pc'[r] = "split" => batch'[r] <= m) BY <3>3, <3>4, <3>5
    <3>7. PassOf(r)' \notin Fields BY <1>4 DEF Fields
    <3> QED BY <1>2, <1>3, <1>4, <3>1, <3>2, <3>4, <3>6, <3>7 DEF RankLogged
  <2> QED BY <1>3, <2>1, <2>2, <2>3 DEF LogPart
<1>7. LogprobsAligned' BY <1>2, <1>3, AlignedFrame DEF LogInv
<1>8. LogShape'
  <2>1. DOMAIN weights' = Ranks BY <1>1, <1>2 DEF LogShape
  <2> QED BY <1>1, <1>2, <1>3, <2>1 DEF LogShape
<1> QED BY <1>3, <1>5, <1>6, <1>7, <1>8 DEF LogInv

\* The invariant holds in every state.
LEMMA LogNext == LogInv /\ [Next]_vars => LogInv'
<1> SUFFICES ASSUME LogInv, [Next]_vars PROVE LogInv' OBVIOUS
<1>1. ASSUME NEW kind \in Kinds, NEW samples \in SampleSets, StartCall(kind, samples)
      PROVE  LogInv'
  BY <1>1, LogStartCall
<1>2. ASSUME NEW r \in Ranks, WorkerStep(r) PROVE LogInv'
  <2>1. CASE BeginCall(r) BY <2>1, LogBeginCall
  <2>2. CASE BeginPass(r) BY <2>2, LogBeginPass
  <2>3. CASE SplitStatic(r) BY <2>3, LogSplitStatic
  <2>4. CASE EndBatch(r) BY <2>4, LogEndBatch
  <2>5. CASE Gather(r) BY <2>5, LogGather
  <2>6. ASSUME NEW i \in DOMAIN micro[r], FetchRouting(r, i) PROVE LogInv'
    BY <2>6, LogFetchRouting
  <2> QED BY <1>2, <2>1, <2>2, <2>3, <2>4, <2>5, <2>6 DEF WorkerStep
<1>3. CASE Compute BY <1>3, LogForward, LogBackward DEF Compute
<1>4. CASE Collective BY <1>4, LogSplitDynamic, LogUpdate DEF Collective
<1>5. CASE UNCHANGED vars
  <2>1. /\ cfg' = cfg /\ call' = call /\ start' = start /\ trained' = trained
        /\ UNCHANGED logState /\ UNCHANGED <<pc, pass, batch, micro, fwd, bwd, weights,
                                             cpu_snapshots, logprobs, outputs>>
    BY <1>5 DEF vars, driver, model, logState
  <2>2. \A r \in Ranks : LogState(r)' = LogState(r) BY <2>1 DEF LogState
  <2>3. \A r \in Ranks : LogPart(r)' /\ Current(r)' = Current(r)
    <3>1. \A r \in Ranks : LogPart(r) BY DEF LogInv
    <3> QED BY <2>1, <2>2, <3>1, LogRankFrame
  <2>4. LogShape'
    <3>1. Ranks' = Ranks BY <2>1, LogCallFrame
    <3> QED BY <2>1, <3>1 DEF LogInv, LogShape
  <2>5. LogprobsAligned' BY <2>1, AlignedFrame DEF LogInv
  <2> QED BY <2>1, <2>3, <2>4, <2>5, LogWithin
<1> QED BY <1>1, <1>2, <1>3, <1>4, <1>5, LogReproduceSpike, LogEndCall DEF Next

\* A row trains with the logprobs that its own passes gave it, under the weights
\* those passes are for, in every reachable state and for every configuration:
\* what the gather by index, the CPU copies of the weights and the order of the
\* passes in _train_from_local_batches are there for.
THEOREM WorkerLogprobsAligned == Spec => []LogprobsAligned
<1>1. LogInv => LogprobsAligned BY DEF LogInv
<1> QED BY <1>1, LogInit, LogNext, PTL DEF Spec

---------------------------------------------------------------------------
(* Replay: the invariant *)

\* Rows as a call has them, with or without handles.
AnyRow == [index : Int, traj : Int, len : Nat, paths : Seq(Seq(Handles))]

\* How training splits a batch under configuration c, where rows[s] are the rows of
\* rank s.
LensOf(rows) == [i \in DOMAIN rows |-> rows[i].len]
CountOf(c, rows) ==
    RoundedCount(Max({LocalMicroBatches(LensOf(rows[s]), TrainTokens) : s \in DOMAIN rows}),
                 c.vpp, c.group)
PartsOf(c, rows, r) ==
    IF CountOf(c, rows) > Len(rows[r]) THEN <<>>
    ELSE SplitIntoBalancedMicrobatches(LensOf(rows[r]), CountOf(c, rows))
ChunksOf(rows) ==
    [j \in 1..CeilDiv(Len(rows), TrainMicro) |->
        SubSeq(rows, (j - 1) * TrainMicro + 1, Min({j * TrainMicro, Len(rows)}))]
SplitOf(c, rows, r) ==
    IF c.dynamic THEN RowsOf(rows[r], PartsOf(c, rows, r)) ELSE ChunksOf(rows[r])
SplitChecked(c, rows, r) ==
    c.dynamic => PartitionsChecked(PartsOf(c, rows, r), CountOf(c, rows), LensOf(rows[r]))

\* What Did has of a row x of micro-batch i, and of the first k micro-batches.
Deed(c, x, i, given, w) ==
    [row |-> x.index, weights |-> w,
     given |-> [f \in Fields |-> IF x.index \in DOMAIN given[f] THEN given[f][x.index] ELSE <<>>],
     routing |-> IF c.r3 THEN Recorded(x.paths) ELSE <<>>,
     replayed |-> IF c.r3 THEN Recorded(x.paths) ELSE <<>>, micro |-> i]
DidOf(c, m, k, given, w) ==
    UNION {{Deed(c, m[i][j], i, given, w) : j \in DOMAIN m[i]} : i \in 1..k}

\* The pass and batch of the split a rank comes to next.  Ranks that agree on
\* the count of micro-batches come to every split together.
NextSplit(r) ==
    CASE pc[r] = "split" -> <<pass[r], batch[r]>>
      [] pc[r] \in {"run", "update"} /\ batch[r] < Len(batches[r]) -> <<pass[r], batch[r] + 1>>
      [] pc[r] \in {"run", "update"} /\ ~(batch[r] < Len(batches[r])) -> <<pass[r] + 1, 1>>
      [] pc[r] \in {"gather", "done"} -> <<pass[r] + 1, 1>>
      [] OTHER -> <<pass[r], 1>>
Lockstep ==
    \A r, s \in Ranks : (pc[r] # "raised" /\ pc[s] # "raised") => NextSplit(r) = NextSplit(s)

\* The batches of a rank in a call.
DealtKept(r) ==
    /\ DOMAIN batches[r] = 1..Len(batches[r]) /\ Len(batches[r]) \in Nat \ {0}
    /\ \A s \in Ranks : Len(batches[s]) = Len(batches[r])
    /\ batch[r] \in Nat \ {0}
    /\ pc[r] \in {"split", "run", "update"} => batch[r] <= Len(batches[r])
    /\ call.kind # "reproduce" => batches[r] \in Seq(Seq(AnyRow))

\* A rank trains batch after batch, once.
Fresh(r) ==
    \A t \in trained : t.rank = r =>
        /\ Trains(r) /\ pc[r] \in {"split", "run", "update", "done", "raised"}
        /\ t.batch \in Nat /\ t.batch <= batch[r]
        /\ pc[r] = "split" => t.batch < batch[r]

\* The batch that a rank trains, until the optimizer steps: its micro-batches follow
\* from the rows, and what was done is the micro-batches that have gone backward.
InTraining(r) ==
    \/ pc[r] \in {"run", "update"} /\ Trains(r)
    \/ pc[r] = "done" /\ call.kind = "reproduce"
Together(r) == [s \in Ranks |-> batches[s][batch[r]]]
Exact(r) ==
    /\ micro[r] = SplitOf(cfg, Together(r), r) /\ SplitChecked(cfg, Together(r), r)
    /\ DOMAIN micro[r] = 1..Len(micro[r]) /\ Len(micro[r]) \in Nat
    /\ fwd[r] \in 0..Len(micro[r]) /\ bwd[r] \in 0..fwd[r]
    /\ pc[r] # "run" => bwd[r] = Len(micro[r])
    /\ Did(r, batch[r]) = DidOf(cfg, micro[r], bwd[r], logprobs[r], weights[r])

\* A snapshot says what its rows, logprobs and weights lead to.
SavedExact ==
    snapshot # NoSnapshot =>
        /\ snapshot.rows = [r \in Ranks |-> snapshot.rows[r]]
        /\ \A r \in Ranks :
              /\ snapshot.rows[r] \in Seq(AnyRow)
              /\ snapshot.did[r] = DidOf(cfg, SplitOf(cfg, snapshot.rows, r),
                                         Len(SplitOf(cfg, snapshot.rows, r)),
                                         snapshot.logprobs[r], snapshot.weights)

\* A replay has the rows, logprobs and weights of the snapshot.
Replaying(r) ==
    /\ snapshot # NoSnapshot /\ batches[r] = <<RestoredRows(snapshot.rows[r])>>
    /\ logprobs = snapshot.logprobs /\ weights[r] = snapshot.weights
    /\ pc[r] \in {"split", "run", "done", "raised"} /\ batch[r] = 1

RepRank(r) ==
    /\ DealtKept(r) /\ Fresh(r) /\ (InTraining(r) => Exact(r))
    /\ call.kind = "reproduce" => Replaying(r)

RepInv ==
    /\ DOMAIN batches = Ranks
    /\ SavedExact
    /\ call.kind # "none" =>
          /\ \A r \in Ranks : RepRank(r)
          /\ cfg.dynamic => Lockstep

---------------------------------------------------------------------------
(* Replay: rows under new handles are split and trained as the rows were *)

\* A row that is put back has the same index, length and recorded routing.
LEMMA PutBack ==
    ASSUME NEW x \in AnyRow, NEW y, y = [x EXCEPT !.paths = RestoredPaths(x.paths)]
    PROVE  y.index = x.index /\ y.len = x.len /\ Recorded(y.paths) = Recorded(x.paths)
<1>1. PICK q \in Seq(Seq(Handles)) : q = x.paths BY DEF AnyRow
<1>2. PICK t : t = RestoredPaths(q) OBVIOUS
<1>3. y.index = x.index /\ y.len = x.len /\ y.paths = t BY <1>1, <1>2 DEF AnyRow
<1>4. DOMAIN t = DOMAIN q /\ \A p \in DOMAIN q : t[p] = [k \in DOMAIN q[p] |-> q[p][k] + Restored]
  BY <1>2 DEF RestoredPaths
<1>5. ASSUME NEW p \in DOMAIN q
      PROVE  [k \in DOMAIN t[p] |-> NameOf(t[p][k])] = [k \in DOMAIN q[p] |-> NameOf(q[p][k])]
  <2>1. PICK s \in Seq(Handles) : s = q[p] BY <1>1
  <2>2. t[p] = [k \in DOMAIN s |-> s[k] + Restored] BY <1>4, <2>1
  <2>3. ASSUME NEW k \in DOMAIN s PROVE NameOf(s[k] + Restored) = NameOf(s[k])
    <3>1. PICK h \in Handles : h = s[k] BY <2>1
    <3>2. Restored \in Nat /\ h \in Nat \ {0} /\ h <= Restored BY SampleAssumption DEF Handles
    <3>3. h + Restored > Restored /\ (h + Restored) - Restored = h /\ ~(h > Restored) BY <3>2
    <3>4. NameOf(h + Restored) = h /\ NameOf(h) = h BY <3>3 DEF NameOf
    <3> QED BY <3>1, <3>4
  <2>4. PICK u : u = t[p] OBVIOUS
  <2>5. DOMAIN u = DOMAIN s /\ \A k \in DOMAIN s : u[k] = s[k] + Restored BY <2>2, <2>4
  <2>6. [k \in DOMAIN u |-> NameOf(u[k])] = [k \in DOMAIN s |-> NameOf(s[k])] BY <2>3, <2>5
  <2> QED BY <2>1, <2>4, <2>6
<1>6. Recorded(t) = Recorded(q) BY <1>4, <1>5 DEF Recorded
<1> QED BY <1>1, <1>3, <1>6

\* A list of rows that is put back.
LEMMA PutBackRows ==
    ASSUME NEW rows \in Seq(AnyRow), NEW again, again = RestoredRows(rows)
    PROVE  /\ DOMAIN again = DOMAIN rows /\ Len(again) = Len(rows) /\ LensOf(again) = LensOf(rows)
           /\ again \in Seq(ToSet(again))
           /\ \A i \in DOMAIN rows : /\ again[i].index = rows[i].index
                                     /\ Recorded(again[i].paths) = Recorded(rows[i].paths)
<1>1. PICK n \in Nat : n = Len(rows) /\ DOMAIN rows = 1..n OBVIOUS
<1>2. DOMAIN again = 1..n /\ \A i \in 1..n : again[i] = [rows[i] EXCEPT !.paths = RestoredPaths(rows[i].paths)]
  BY <1>1 DEF RestoredRows, RestoredPaths
<1>3. ASSUME NEW i \in 1..n
      PROVE  /\ again[i].index = rows[i].index /\ again[i].len = rows[i].len
             /\ Recorded(again[i].paths) = Recorded(rows[i].paths)
  <2>1. PICK x \in AnyRow : x = rows[i] BY <1>1
  <2>2. PICK y : y = [x EXCEPT !.paths = RestoredPaths(x.paths)] OBVIOUS
  <2>3. again[i] = y BY <1>2, <2>1, <2>2
  <2>4. y.index = x.index /\ y.len = x.len /\ Recorded(y.paths) = Recorded(x.paths)
    BY <2>2, PutBack
  <2> QED BY <2>1, <2>3, <2>4
<1>4. again = [i \in 1..n |-> again[i]] BY <1>1 DEF RestoredRows
<1>5. PICK V : V = ToSet(again) OBVIOUS
<1>6. \A i \in 1..n : again[i] \in V BY <1>2, <1>5 DEF ToSet
<1>7. again \in [1..n -> V] BY <1>4, <1>6
<1>8. again \in Seq(V) /\ Len(again) = n BY <1>7
<1>9. LensOf(again) = LensOf(rows) BY <1>1, <1>2, <1>3 DEF LensOf
<1> QED BY <1>1, <1>2, <1>3, <1>5, <1>8, <1>9

\* Micro-batches of rows alike: their indices and recorded routing are the same.
Alike(m, n) ==
    \A i \in DOMAIN m : /\ DOMAIN n[i] = DOMAIN m[i]
                        /\ \A j \in DOMAIN m[i] : /\ n[i][j].index = m[i][j].index
                                                  /\ Recorded(n[i][j].paths) = Recorded(m[i][j].paths)

\* Rows alike are split alike.
LEMMA SameSplit ==
    ASSUME NEW c, NEW D, NEW r \in D, NEW rows, DOMAIN rows = D, NEW again, DOMAIN again = D,
           \A s \in D : rows[s] \in Seq(AnyRow) /\ again[s] = RestoredRows(rows[s]),
           SplitChecked(c, again, r),
           NEW m, m = SplitOf(c, rows, r), NEW n, n = SplitOf(c, again, r)
    PROVE  DOMAIN n = DOMAIN m /\ Len(n) = Len(m) /\ Alike(m, n)
<1>1. ASSUME NEW s \in D
      PROVE  /\ DOMAIN again[s] = DOMAIN rows[s] /\ Len(again[s]) = Len(rows[s])
             /\ LensOf(again[s]) = LensOf(rows[s]) /\ again[s] \in Seq(ToSet(again[s]))
             /\ \A i \in DOMAIN rows[s] : /\ again[s][i].index = rows[s][i].index
                                          /\ Recorded(again[s][i].paths) = Recorded(rows[s][i].paths)
  BY PutBackRows
<1>2. PICK x \in Seq(AnyRow) : x = rows[r] OBVIOUS
<1>3. PICK z \in Seq(ToSet(again[r])) : z = again[r] BY <1>1
<1>4. /\ DOMAIN z = DOMAIN x /\ Len(z) = Len(x) /\ LensOf(z) = LensOf(x)
      /\ \A i \in DOMAIN x : z[i].index = x[i].index /\ Recorded(z[i].paths) = Recorded(x[i].paths)
  BY <1>1, <1>2, <1>3
<1>5. PICK l \in Nat : l = Len(x) /\ DOMAIN x = 1..l BY <1>2
<1>6. CountOf(c, again) = CountOf(c, rows)
  <2>1. {LocalMicroBatches(LensOf(again[s]), TrainTokens) : s \in D}
            = {LocalMicroBatches(LensOf(rows[s]), TrainTokens) : s \in D}
    BY <1>1
  <2> QED BY <2>1 DEF CountOf
<1>7. PartsOf(c, again, r) = PartsOf(c, rows, r) BY <1>2, <1>3, <1>4, <1>6 DEF PartsOf
<1>8. CASE c.dynamic
  <2>1. PICK parts : parts = PartsOf(c, rows, r) OBVIOUS
  <2>2. m = RowsOf(x, parts) /\ n = RowsOf(z, parts) BY <1>2, <1>3, <1>7, <1>8, <2>1 DEF SplitOf
  <2>3. DOMAIN LensOf(z) = 1..l BY <1>4, <1>5 DEF LensOf
  <2>4. parts \in Seq((SUBSET (1..l)) \ {{}})
    BY <1>3, <1>7, <1>8, <2>1, <2>3 DEF SplitChecked, PartitionsChecked
  <2>5. PICK k \in Nat : k = Len(parts) /\ DOMAIN parts = 1..k BY <2>4
  <2>6. m = [i \in 1..k |-> SelectRows(x, InOrder(parts[i]))]
        /\ n = [i \in 1..k |-> SelectRows(z, InOrder(parts[i]))]
    BY <2>2, <2>5 DEF RowsOf
  <2>7. ASSUME NEW i \in 1..k
        PROVE  /\ DOMAIN n[i] = DOMAIN m[i]
               /\ \A j \in DOMAIN m[i] : /\ n[i][j].index = m[i][j].index
                                         /\ Recorded(n[i][j].paths) = Recorded(m[i][j].paths)
    <3>1. PICK S \in SUBSET (1..l) : S = parts[i] BY <2>4, <2>5
    <3>2. PICK g \in Seq(S) : g = InOrder(S) BY <3>1, InOrderOf
    <3>3. \A j \in DOMAIN g : g[j] \in 1..l
      <4>1. \A j \in DOMAIN g : g[j] \in S BY <3>2
      <4> QED BY <4>1
    <3>4. m[i] = [j \in DOMAIN g |-> x[g[j]]] /\ n[i] = [j \in DOMAIN g |-> z[g[j]]]
      BY <2>6, <3>1, <3>2 DEF SelectRows
    <3> QED BY <1>4, <1>5, <3>3, <3>4
  <2>8. Len(m) = k /\ Len(n) = k /\ DOMAIN m = 1..k /\ DOMAIN n = 1..k BY <2>6
  <2> QED BY <2>7, <2>8 DEF Alike
<1>9. CASE ~c.dynamic
  <2>1. m = ChunksOf(x) /\ n = ChunksOf(z) BY <1>2, <1>3, <1>9 DEF SplitOf
  <2>2. PICK k \in Nat : k = CeilDiv(l, TrainMicro)
    <3>1. TrainMicro \in Nat \ {0} BY MegatronAssumption
    <3>2. l + TrainMicro - 1 \in Nat BY <3>1
    <3> QED BY <3>1, <3>2, Division DEF CeilDiv
  <2>3. PICK from : from = [i \in 1..k |-> (i - 1) * TrainMicro + 1] OBVIOUS
  <2>4. PICK to : to = [i \in 1..k |-> Min({i * TrainMicro, l})] OBVIOUS
  <2>5. m = [i \in 1..k |-> SubSeq(x, from[i], to[i])] /\ n = [i \in 1..k |-> SubSeq(z, from[i], to[i])]
    BY <1>4, <1>5, <2>1, <2>2, <2>3, <2>4 DEF ChunksOf
  <2>6. ASSUME NEW i \in 1..k
        PROVE  from[i] \in Nat \ {0} /\ to[i] \in Nat /\ to[i] <= l
    <3>1. TrainMicro \in Nat \ {0} BY MegatronAssumption
    <3>2. i - 1 \in Nat /\ i \in Nat OBVIOUS
    <3>3. (i - 1) * TrainMicro \in Nat /\ i * TrainMicro \in Nat BY <3>1, <3>2
    <3>4. {i * TrainMicro, l} \in SUBSET Nat /\ {i * TrainMicro, l} # {} BY <3>3
    <3>5. PICK e : e = Min({i * TrainMicro, l}) OBVIOUS
    <3>6. e \in {i * TrainMicro, l} /\ \A y \in {i * TrainMicro, l} : e <= y
      <4>1. \E y \in {i * TrainMicro, l} : \A w \in {i * TrainMicro, l} : y <= w BY <3>4, LeastNatural
      <4> QED BY <3>5, <4>1 DEF Min
    <3> QED BY <2>3, <2>4, <3>3, <3>5, <3>6
  <2>7. ASSUME NEW i \in 1..k
        PROVE  /\ DOMAIN n[i] = DOMAIN m[i]
               /\ \A j \in DOMAIN m[i] : /\ n[i][j].index = m[i][j].index
                                         /\ Recorded(n[i][j].paths) = Recorded(m[i][j].paths)
    <3>1. PICK a \in Nat \ {0} : a = from[i] BY <2>6
    <3>2. PICK b \in Nat : b = to[i] /\ b <= l BY <2>6
    <3>3. m[i] = SubSeq(x, a, b) /\ n[i] = SubSeq(z, a, b) BY <2>5, <3>1, <3>2
    <3>4. ASSUME NEW V, NEW s \in Seq(V), Len(s) = l
          PROVE  /\ DOMAIN SubSeq(s, a, b) = 1..(IF a <= b THEN b - a + 1 ELSE 0)
                 /\ \A j \in 1..(IF a <= b THEN b - a + 1 ELSE 0) :
                       SubSeq(s, a, b)[j] = s[a + j - 1] /\ a + j - 1 \in 1..l
      <4>1. PICK h \in Nat : h = IF a <= b THEN b - a + 1 ELSE 0 BY <3>1, <3>2
      <4>2. PICK t : t = SubSeq(s, a, b) OBVIOUS
      <4>3. ASSUME NEW j \in 1..h PROVE a + j - 1 \in 1..l
        <5>1. h = b - a + 1 /\ a <= b
          <6>1. h >= 1 BY ONLY <4>1, <4>3
          <6> QED BY ONLY <3>1, <3>2, <4>1, <6>1
        <5>2. /\ a \in Nat \ {0} /\ b \in Nat /\ l \in Nat /\ b <= l BY <3>2
        <5>3. j \in Nat /\ 1 <= j /\ j <= b - a + 1 BY ONLY <4>3, <5>1, <5>2
        <5> QED BY ONLY <5>2, <5>3
      <4>4. /\ t \in Seq(V)
            /\ Len(t) = IF a <= b THEN b - a + 1 ELSE 0
            /\ \A j \in 1..(b - a + 1) : t[j] = s[a + j - 1]
        <5>1. ASSUME NEW j \in a..b PROVE s[j] \in V
          <6>1. j \in 1..Len(s) BY ONLY <3>1, <3>2, <3>4, <5>1
          <6> QED BY ONLY <3>4, <6>1
        <5>2. a \in Int /\ b \in Int BY ONLY <3>1, <3>2
        <5>3. t \in Seq(V) BY ONLY <4>2, <5>1, <5>2
        <5>4. Len(t) = IF a <= b THEN b - a + 1 ELSE 0 BY ONLY <4>2, <5>2
        <5>5. ASSUME NEW j \in 1..(b - a + 1) PROVE t[j] = s[a + j - 1] BY ONLY <4>2, <5>2, <5>5
        <5> QED BY ONLY <5>3, <5>4, <5>5
      <4>5. DOMAIN t = 1..h BY ONLY <4>1, <4>4
      <4>6. \A j \in 1..h : t[j] = s[a + j - 1]
        <5>1. 1..h \subseteq 1..(b - a + 1) BY ONLY <3>1, <3>2, <4>1
        <5> QED BY ONLY <4>4, <5>1
      <4> QED BY ONLY <4>1, <4>2, <4>3, <4>5, <4>6
    <3>5. PICK h : h = IF a <= b THEN b - a + 1 ELSE 0 OBVIOUS
    <3>6. /\ DOMAIN m[i] = 1..h
          /\ \A j \in 1..h : m[i][j] = x[a + j - 1] /\ a + j - 1 \in 1..l
      BY <1>5, <3>3, <3>4, <3>5
    <3>7. /\ DOMAIN n[i] = 1..h
          /\ \A j \in 1..h : n[i][j] = z[a + j - 1]
      BY <1>4, <1>5, <3>3, <3>4, <3>5
    <3> QED BY <1>4, <1>5, <3>6, <3>7
  <2>8. Len(m) = k /\ Len(n) = k /\ DOMAIN m = 1..k /\ DOMAIN n = 1..k BY <2>5
  <2> QED BY <2>7, <2>8 DEF Alike
<1> QED BY <1>8, <1>9

\* The rows of the first k micro-batches, one by one.
LEMMA InDidOf ==
    ASSUME NEW c, NEW m, NEW k, NEW given, NEW w
    PROVE  \A d : d \in DidOf(c, m, k, given, w)
                    <=> \E i \in 1..k : \E j \in DOMAIN m[i] : d = Deed(c, m[i][j], i, given, w)
BY DEF DidOf

\* What is done with micro-batches alike is the same.
LEMMA SameDeeds ==
    ASSUME NEW c, NEW m, NEW n, NEW k \in Nat, NEW given, NEW w,
           \A i \in 1..k : /\ DOMAIN n[i] = DOMAIN m[i]
                           /\ \A j \in DOMAIN m[i] :
                                 /\ n[i][j].index = m[i][j].index
                                 /\ Recorded(n[i][j].paths) = Recorded(m[i][j].paths)
    PROVE  DidOf(c, n, k, given, w) = DidOf(c, m, k, given, w)
<1>1. ASSUME NEW i \in 1..k, NEW j \in DOMAIN m[i]
      PROVE  Deed(c, n[i][j], i, given, w) = Deed(c, m[i][j], i, given, w)
  BY DEF Deed
<1>2. \A d : (\E i \in 1..k : \E j \in DOMAIN n[i] : d = Deed(c, n[i][j], i, given, w))
                <=> (\E i \in 1..k : \E j \in DOMAIN m[i] : d = Deed(c, m[i][j], i, given, w))
  BY <1>1
<1>3. \A d : d \in DidOf(c, n, k, given, w) <=> d \in DidOf(c, m, k, given, w)
  BY <1>2, InDidOf
<1> QED BY <1>3

---------------------------------------------------------------------------
(* Replay: what leaves the invariant as it is *)

\* Within a call.
LEMMA RepCall ==
    ASSUME UNCHANGED <<cfg, call, batches>>
    PROVE  /\ cfg' = cfg /\ call' = call /\ batches' = batches
           /\ Ranks' = Ranks /\ Passes' = Passes
BY DEF Ranks, Passes, TrainPasses

\* A snapshot that stays.
LEMMA SavedFrame ==
    ASSUME SavedExact, cfg' = cfg, snapshot' = snapshot
    PROVE  SavedExact'
<1>1. Ranks' = Ranks BY DEF Ranks
<1> QED BY <1>1 DEF SavedExact

\* What was done by a rank that trains nothing.
LEMMA DidFrame ==
    ASSUME NEW r, \A t : t.rank = r => (t \in trained' <=> t \in trained)
    PROVE  \A b : Did(r, b)' = Did(r, b)
<1> SUFFICES ASSUME NEW b PROVE Did(r, b)' = Did(r, b) OBVIOUS
<1>1. PICK S : S = {x \in trained : x.rank = r /\ x.batch = b} OBVIOUS
<1>2. {x \in trained' : x.rank = r /\ x.batch = b} = S BY <1>1
<1> QED BY <1>1, <1>2 DEF Did

\* What the invariant looks at of a rank.
RepState(r) == <<pc[r], pass[r], batch[r], micro[r], fwd[r], bwd[r], weights[r], logprobs[r]>>

\* A rank that a step leaves alone.
LEMMA RepRankFrame ==
    ASSUME NEW r \in Ranks, RepRank(r), UNCHANGED <<cfg, call, batches>>,
           RepState(r)' = RepState(r), \A t : t.rank = r => (t \in trained' <=> t \in trained),
           call.kind = "reproduce" => logprobs' = logprobs /\ snapshot' = snapshot
    PROVE  RepRank(r)' /\ NextSplit(r)' = NextSplit(r)
<1>1. /\ cfg' = cfg /\ call' = call /\ batches' = batches /\ Ranks' = Ranks /\ Passes' = Passes
  BY RepCall
<1>2. /\ pc'[r] = pc[r] /\ pass'[r] = pass[r] /\ batch'[r] = batch[r] /\ micro'[r] = micro[r]
      /\ fwd'[r] = fwd[r] /\ bwd'[r] = bwd[r] /\ weights'[r] = weights[r]
      /\ logprobs'[r] = logprobs[r]
  BY DEF RepState
<1>3. PassOf(r)' = PassOf(r) BY <1>1, <1>2 DEF PassOf
<1>4. DealtKept(r)' BY <1>1, <1>2 DEF RepRank, DealtKept
<1>5. Fresh(r)' BY <1>2, <1>3 DEF RepRank, Fresh, Trains
<1>6. InTraining(r)' => Exact(r)'
  <2>1. InTraining(r)' => InTraining(r) BY <1>1, <1>2, <1>3 DEF InTraining, Trains
  <2>2. Together(r)' = Together(r) BY <1>1, <1>2 DEF Together
  <2>3. Did(r, batch[r])' = Did(r, batch[r]) BY <1>2, DidFrame
  <2> QED BY <1>1, <1>2, <2>1, <2>2, <2>3 DEF RepRank, Exact
<1>7. call.kind = "reproduce" => Replaying(r)' BY <1>1, <1>2 DEF RepRank, Replaying
<1>8. NextSplit(r)' = NextSplit(r) BY <1>1, <1>2 DEF NextSplit
<1> QED BY <1>1, <1>4, <1>5, <1>6, <1>7, <1>8 DEF RepRank

\* A step within a call.
LEMMA RepWithin ==
    ASSUME RepInv, UNCHANGED <<cfg, call, batches>>, SavedExact',
           call.kind # "none" => \A r \in Ranks :
               /\ RepRank(r)'
               /\ cfg.dynamic => \/ pc'[r] = "raised"
                                 \/ pc[r] # "raised" /\ NextSplit(r)' = NextSplit(r)
    PROVE  RepInv'
<1>1. /\ cfg' = cfg /\ call' = call /\ batches' = batches /\ Ranks' = Ranks BY RepCall
<1>2. call.kind # "none" /\ cfg.dynamic => Lockstep' BY <1>1 DEF RepInv, Lockstep
<1> QED BY <1>1, <1>2 DEF RepInv

\* A step of one rank, which trains nothing.
LEMMA RepOne ==
    ASSUME RepInv, UNCHANGED <<cfg, call, batches, snapshot, trained>>, NEW r \in Ranks,
           \A s \in Ranks \ {r} : RepState(s)' = RepState(s),
           call.kind = "reproduce" => logprobs' = logprobs,
           call.kind # "none" =>
               /\ RepRank(r)'
               /\ cfg.dynamic => \/ pc'[r] = "raised"
                                 \/ pc[r] # "raised" /\ NextSplit(r)' = NextSplit(r)
    PROVE  RepInv'
<1>1. SavedExact' BY SavedFrame DEF RepInv
<1>2. ASSUME call.kind # "none", NEW s \in Ranks
      PROVE  /\ RepRank(s)'
             /\ cfg.dynamic => \/ pc'[s] = "raised"
                               \/ pc[s] # "raised" /\ NextSplit(s)' = NextSplit(s)
  <2>1. CASE s = r BY <1>2, <2>1
  <2>2. CASE s # r
    <3>1. RepRank(s) /\ RepState(s)' = RepState(s) BY <1>2, <2>2 DEF RepInv
    <3>2. RepRank(s)' /\ NextSplit(s)' = NextSplit(s) BY <3>1, RepRankFrame
    <3>3. pc'[s] = pc[s] BY <3>1 DEF RepState
    <3> QED BY <3>2, <3>3
  <2> QED BY <2>1, <2>2
<1> QED BY <1>1, <1>2, RepWithin

\* Which call a pass belongs to.
LEMMA KindOfPass ==
    ASSUME LogInv, NEW r \in Ranks, pc[r] # "idle"
    PROVE  /\ PassOf(r) = "reproduce" <=> call.kind = "reproduce"
           /\ PassOf(r) = "train" => pass[r] = Len(Passes) /\ call.kind \in {"train", "sft"}
           /\ pass[r] \in Nat /\ Len(Passes) \in Nat
<1>1. pass[r] \in 1..Len(Passes) /\ call.kind \in Kinds \cup {"reproduce", "none"}
  BY DEF LogInv, LogPart, PassKept
<1>2. CASE call.kind = "train"
  <2>1. PICK k \in 1..Len(Passes) : k = pass[r] BY <1>1
  <2>2. Passes[k] \in Fields \cup {"train"} /\ (Passes[k] = "train" <=> k = Len(Passes))
    BY <1>2, TrainSteps
  <2>3. Len(Passes) \in Nat BY <1>2, TrainOrder
  <2> QED BY <1>2, <2>1, <2>2, <2>3 DEF PassOf, Fields
<1>3. CASE call.kind # "train"
  <2>1. Len(Passes) = 1 /\ Passes[1] = IF call.kind = "sft" THEN "train" ELSE call.kind
    BY <1>1, <1>3, OtherPass
  <2>2. pass[r] = 1 BY <1>1, <2>1
  <2> QED BY <1>1, <1>3, <2>1, <2>2 DEF PassOf, Kinds
<1> QED BY <1>2, <1>3

---------------------------------------------------------------------------
(* Replay: the steps of a rank *)

\* A rank that has trained nothing in this pass, and does not begin to.
LEMMA RepOutside ==
    ASSUME NEW r \in Ranks, RepRank(r), call.kind # "reproduce",
           UNCHANGED <<cfg, call, batches, trained>>, \A t \in trained : t.rank # r,
           pc'[r] \notin {"run", "update"}, batch'[r] \in Nat \ {0},
           pc'[r] = "split" => batch'[r] <= Len(batches[r])
    PROVE  RepRank(r)'
<1>1. /\ call' = call /\ batches' = batches /\ Ranks' = Ranks BY RepCall
<1>2. DealtKept(r)' BY <1>1 DEF RepRank, DealtKept
<1>3. Fresh(r)' BY DEF Fresh
<1>4. ~InTraining(r)' BY <1>1 DEF InTraining
<1> QED BY <1>1, <1>2, <1>3, <1>4 DEF RepRank

\* BeginCall: on to the first pass.
LEMMA RepBeginCall ==
    ASSUME LogInv, RepInv, NEW r \in Ranks, BeginCall(r)
    PROVE  RepInv'
<1>1. LogShape BY DEF LogInv
<1>2. /\ pc[r] = "begin" /\ pc' = [pc EXCEPT ![r] = "pass"]
      /\ UNCHANGED <<cfg, call, batches, snapshot, trained, pass, batch, micro, fwd, bwd, weights, logprobs>>
  BY DEF BeginCall, driver, spikes
<1>3. pc'[r] = "pass" /\ \A s \in Ranks \ {r} : pc'[s] = pc[s] BY <1>1, <1>2 DEF LogShape
<1>4. \A s \in Ranks \ {r} : RepState(s)' = RepState(s) BY <1>2, <1>3 DEF RepState
<1>5. ASSUME call.kind # "none" PROVE RepRank(r)' /\ NextSplit(r)' = NextSplit(r)
  <2>1. RepRank(r) BY <1>5 DEF RepInv
  <2>2. call.kind # "reproduce" BY <1>2, <2>1 DEF RepRank, Replaying
  <2>3. \A t \in trained : t.rank # r BY <1>2, <2>1 DEF RepRank, Fresh
  <2>4. batch'[r] \in Nat \ {0} BY <1>2, <2>1 DEF RepRank, DealtKept
  <2>5. RepRank(r)' BY <1>2, <1>3, <2>1, <2>2, <2>3, <2>4, RepOutside
  <2>6. NextSplit(r)' = NextSplit(r) BY <1>2, <1>3 DEF NextSplit
  <2> QED BY <2>5, <2>6
<1> QED BY <1>2, <1>4, <1>5, RepOne

\* BeginPass: on to the first split of the pass, with nothing trained in it.
LEMMA RepBeginPass ==
    ASSUME LogInv, RepInv, NEW r \in Ranks, BeginPass(r)
    PROVE  RepInv'
<1>1. LogShape BY DEF LogInv
<1>2. /\ pc[r] = "pass" /\ pc' = [pc EXCEPT ![r] = "split"] /\ batch' = [batch EXCEPT ![r] = 1]
      /\ weights' = [weights EXCEPT ![r] = PassWeights(r)[1]]
      /\ UNCHANGED <<cfg, call, batches, snapshot, trained, pass, micro, fwd, bwd, logprobs>>
  BY DEF BeginPass, driver, spikes
<1>3. /\ pc'[r] = "split" /\ batch'[r] = 1
      /\ \A s \in Ranks \ {r} : pc'[s] = pc[s] /\ batch'[s] = batch[s] /\ weights'[s] = weights[s]
  BY <1>1, <1>2 DEF LogShape
<1>4. \A s \in Ranks \ {r} : RepState(s)' = RepState(s) BY <1>2, <1>3 DEF RepState
<1>5. ASSUME call.kind # "none" PROVE RepRank(r)' /\ NextSplit(r)' = NextSplit(r)
  <2>1. RepRank(r) BY <1>5 DEF RepInv
  <2>2. call.kind # "reproduce" BY <1>2, <2>1 DEF RepRank, Replaying
  <2>3. \A t \in trained : t.rank # r BY <1>2, <2>1 DEF RepRank, Fresh
  <2>4. batch'[r] \in Nat \ {0} /\ batch'[r] <= Len(batches[r]) BY <1>3, <2>1 DEF RepRank, DealtKept
  <2>5. RepRank(r)' BY <1>2, <1>3, <2>1, <2>2, <2>3, <2>4, RepOutside
  <2>6. NextSplit(r)' = NextSplit(r) BY <1>2, <1>3 DEF NextSplit
  <2> QED BY <2>5, <2>6
<1> QED BY <1>2, <1>4, <1>5, RepOne

\* FetchRouting: nothing the invariant looks at.
LEMMA RepFetchRouting ==
    ASSUME LogInv, RepInv, NEW r \in Ranks, NEW i \in DOMAIN micro[r], FetchRouting(r, i)
    PROVE  RepInv'
<1>1. UNCHANGED <<cfg, call, batches, snapshot, trained, pc, pass, batch, micro, fwd, bwd,
                  weights, logprobs>>
  BY DEF FetchRouting, driver, spikes, model
<1>2. \A s \in Ranks : RepState(s)' = RepState(s) BY <1>1 DEF RepState
<1>3. ASSUME call.kind # "none" PROVE RepRank(r)' /\ NextSplit(r)' = NextSplit(r)
  <2>1. RepRank(r) BY <1>3 DEF RepInv
  <2> QED BY <1>1, <1>2, <2>1, RepRankFrame
<1>4. pc'[r] = pc[r] BY <1>1
<1> QED BY <1>1, <1>2, <1>3, <1>4, RepOne

\* Gather: on to the next pass, or the end of the call.
LEMMA RepGather ==
    ASSUME LogInv, RepInv, NEW r \in Ranks, Gather(r)
    PROVE  RepInv'
<1>1. LogShape /\ LogPart(r) BY DEF LogInv
<1>2. /\ pc[r] = "gather" /\ pc' = [pc EXCEPT ![r] = IF pass[r] < Len(Passes) THEN "pass" ELSE "done"]
      /\ pass' = [pass EXCEPT ![r] = IF pass[r] < Len(Passes) THEN @ + 1 ELSE @]
      /\ logprobs' = IF PassOf(r) \in Fields
                     THEN [logprobs EXCEPT ![r] = [@ EXCEPT ![PassOf(r)] = LogprobsByIndex(r)]]
                     ELSE logprobs
      /\ weights' = IF PassOf(r) = "teacher"
                    THEN [weights EXCEPT ![r] = cpu_snapshots[r].cur_weights] ELSE weights
      /\ UNCHANGED <<cfg, call, batches, snapshot, trained, batch, micro, fwd, bwd>>
  BY DEF Gather, driver, spikes
<1>3. /\ pc'[r] = (IF pass[r] < Len(Passes) THEN "pass" ELSE "done")
      /\ pass'[r] = (IF pass[r] < Len(Passes) THEN pass[r] + 1 ELSE pass[r])
      /\ \A s \in Ranks \ {r} : pc'[s] = pc[s] /\ pass'[s] = pass[s] /\ weights'[s] = weights[s]
      /\ \A s \in Ranks \ {r} : logprobs'[s] = logprobs[s]
  <2>1. pc'[r] = (IF pass[r] < Len(Passes) THEN "pass" ELSE "done") BY <1>1, <1>2 DEF LogShape
  <2>2. pass'[r] = (IF pass[r] < Len(Passes) THEN pass[r] + 1 ELSE pass[r])
    BY <1>1, <1>2 DEF LogShape
  <2>3. \A s \in Ranks \ {r} : pc'[s] = pc[s] /\ pass'[s] = pass[s] BY <1>1, <1>2 DEF LogShape
  <2>4. \A s \in Ranks \ {r} : weights'[s] = weights[s] BY <1>1, <1>2 DEF LogShape
  <2>5. \A s \in Ranks \ {r} : logprobs'[s] = logprobs[s]
    <3>1. CASE PassOf(r) \in Fields
      <4>1. call.kind = "train"
        <5>1. pass[r] \in 1..Len(Passes) BY <1>1, <1>2 DEF LogPart, PassKept
        <5>2. call.kind \in Kinds \cup {"reproduce", "none"} BY DEF LogInv
        <5>3. SUFFICES ASSUME call.kind # "train" PROVE FALSE OBVIOUS
        <5>4. Len(Passes) = 1 /\ Passes[1] \notin Fields BY <5>2, <5>3, OtherPass
        <5>5. pass[r] = 1 BY <5>1, <5>4
        <5> QED BY <3>1, <5>4, <5>5 DEF PassOf
      <4>2. DOMAIN logprobs = Ranks BY <1>1, <4>1 DEF LogShape
      <4> QED BY <1>2, <3>1, <4>2
    <3>2. CASE PassOf(r) \notin Fields BY <1>2, <3>2
    <3> QED BY <3>1, <3>2
  <2> QED BY <2>1, <2>2, <2>3, <2>4, <2>5
<1>4. \A s \in Ranks \ {r} : RepState(s)' = RepState(s) BY <1>2, <1>3 DEF RepState
<1>5. ASSUME call.kind # "none"
      PROVE RepRank(r)' /\ NextSplit(r)' = NextSplit(r) /\ call.kind # "reproduce"
  <2>1. RepRank(r) BY <1>5 DEF RepInv
  <2>2. call.kind # "reproduce" BY <1>2, <2>1 DEF RepRank, Replaying
  <2>3. \A t \in trained : t.rank # r BY <1>2, <2>1 DEF RepRank, Fresh
  <2>4. batch'[r] \in Nat \ {0} BY <1>2, <2>1 DEF RepRank, DealtKept
  <2>5. RepRank(r)' BY <1>2, <1>3, <2>1, <2>2, <2>3, <2>4, RepOutside
  <2>6. NextSplit(r)' = NextSplit(r) BY <1>2, <1>3 DEF NextSplit
  <2> QED BY <2>2, <2>5, <2>6
<1>6. call.kind = "reproduce" => logprobs' = logprobs BY <1>5
<1> QED BY <1>2, <1>4, <1>5, <1>6, RepOne

\* EndBatch: what was trained stays until the optimizer steps, or the replay is over.
LEMMA RepEndBatch ==
    ASSUME LogInv, RepInv, NEW r \in Ranks, EndBatch(r)
    PROVE  RepInv'
<1>1. LogShape BY DEF LogInv
<1>2. /\ pc[r] = "run" /\ fwd[r] = Len(micro[r]) /\ (Trains(r) => bwd[r] = fwd[r])
      /\ UNCHANGED <<cfg, call, batches, snapshot, trained, pass, micro, fwd, bwd, weights, logprobs>>
  BY DEF EndBatch, driver, spikes, model
<1>3. PICK where : /\ pc' = [pc EXCEPT ![r] = where]
                   /\ batch' = [batch EXCEPT ![r] = IF pc'[r] = "split" THEN @ + 1 ELSE @]
                   /\ where = CASE PassOf(r) = "train" -> "update"
                                [] PassOf(r) = "reproduce" -> "done"
                                [] ~Trains(r) /\ batch[r] < Len(batches[r]) -> "split"
                                [] OTHER -> "gather"
  BY DEF EndBatch
<1>4. /\ pc'[r] = where /\ batch'[r] = (IF where = "split" THEN batch[r] + 1 ELSE batch[r])
      /\ \A s \in Ranks \ {r} : pc'[s] = pc[s] /\ batch'[s] = batch[s]
  BY <1>1, <1>3 DEF LogShape
<1>5. \/ PassOf(r) = "train" /\ where = "update"
      \/ PassOf(r) = "reproduce" /\ where = "done"
      \/ PassOf(r) \notin {"train", "reproduce"} /\ where = "split" /\ batch[r] < Len(batches[r])
      \/ PassOf(r) \notin {"train", "reproduce"} /\ where = "gather" /\ ~(batch[r] < Len(batches[r]))
  BY <1>3 DEF Trains
<1>6. \A s \in Ranks \ {r} : RepState(s)' = RepState(s) BY <1>2, <1>4 DEF RepState
<1>7. /\ call' = call /\ cfg' = cfg /\ batches' = batches /\ Ranks' = Ranks /\ Passes' = Passes
  BY <1>2, RepCall
<1>8. ASSUME call.kind # "none" PROVE RepRank(r)' /\ NextSplit(r)' = NextSplit(r)
  <2>1. RepRank(r) /\ DealtKept(r) BY <1>8 DEF RepInv, RepRank
  <2>2. PassOf(r) = "reproduce" <=> call.kind = "reproduce" BY <1>2, KindOfPass
  <2>3. CASE PassOf(r) \in {"train", "reproduce"}
    <3>1. Trains(r) /\ InTraining(r) BY <1>2, <2>3 DEF Trains, InTraining
    <3>2. where \in {"update", "done"} /\ batch'[r] = batch[r] /\ pc'[r] = where BY <1>4, <1>5, <2>3
    <3>3. PassOf(r)' = PassOf(r) BY <1>2, <1>7 DEF PassOf
    <3>4. DealtKept(r)' BY <1>2, <1>7, <2>1, <3>2 DEF DealtKept
    <3>5. Fresh(r)' BY <1>2, <2>1, <2>3, <3>2, <3>3 DEF RepRank, Fresh, Trains
    <3>6. Exact(r)'
      <4>1. Exact(r) BY <2>1, <3>1 DEF RepRank
      <4>2. Together(r)' = Together(r) BY <1>7, <3>2 DEF Together
      <4>3. Did(r, batch[r])' = Did(r, batch[r]) BY <1>2, <3>2, DidFrame
      <4>4. bwd[r] = Len(micro[r]) BY <1>2, <3>1
      <4> QED BY <1>2, <1>7, <3>2, <4>1, <4>2, <4>3, <4>4 DEF Exact
    <3>7. call.kind = "reproduce" => Replaying(r)' /\ batch[r] = 1 /\ Len(batches[r]) = 1
      <4>1. SUFFICES ASSUME call.kind = "reproduce"
                     PROVE  Replaying(r)' /\ batch[r] = 1 /\ Len(batches[r]) = 1
        OBVIOUS
      <4>2. Replaying(r) BY <2>1, <4>1 DEF RepRank
      <4>3. where = "done" BY <1>5, <2>2, <4>1
      <4>4. Len(batches[r]) = 1 BY <4>2 DEF Replaying
      <4> QED BY <1>2, <1>7, <3>2, <4>2, <4>3, <4>4 DEF Replaying
    <3>8. NextSplit(r)' = NextSplit(r)
      <4>1. CASE where = "update" BY <1>2, <1>7, <3>2, <4>1 DEF NextSplit
      <4>2. CASE where = "done"
        <5>1. batch[r] = 1 /\ Len(batches[r]) = 1 BY <1>5, <2>2, <3>7, <4>2
        <5>2. NextSplit(r) = <<pass[r] + 1, 1>> BY <1>2, <5>1 DEF NextSplit
        <5>3. NextSplit(r)' = <<pass[r] + 1, 1>> BY <1>2, <3>2, <4>2 DEF NextSplit
        <5> QED BY <5>2, <5>3
      <4> QED BY <3>2, <4>1, <4>2
    <3> QED BY <1>7, <3>4, <3>5, <3>6, <3>7, <3>8 DEF RepRank
  <2>4. CASE PassOf(r) \notin {"train", "reproduce"}
    <3>1. call.kind # "reproduce" BY <2>2, <2>4
    <3>2. \A t \in trained : t.rank # r BY <2>1, <2>4 DEF RepRank, Fresh, Trains
    <3>3. PICK b \in Nat \ {0} : b = batch[r] BY <2>1 DEF DealtKept
    <3>4. PICK n \in Nat : n = Len(batches[r]) BY <2>1 DEF DealtKept
    <3>5. \/ where = "split" /\ batch'[r] = b + 1 /\ b + 1 <= n /\ b < n
          \/ where = "gather" /\ batch'[r] = b /\ ~(b < n)
      BY <1>4, <1>5, <2>4, <3>3, <3>4
    <3>6. batch'[r] \in Nat \ {0} /\ (pc'[r] = "split" => batch'[r] <= Len(batches[r]))
      BY <1>4, <3>4, <3>5
    <3>7. pc'[r] \notin {"run", "update"} BY <1>4, <3>5
    <3>8. RepRank(r)' BY <1>2, <2>1, <3>1, <3>2, <3>6, <3>7, RepOutside
    <3>9. NextSplit(r)' = NextSplit(r)
      <4>1. CASE where = "split"
        <5>1. NextSplit(r) = <<pass[r], b + 1>> BY <1>2, <3>3, <3>4, <3>5, <4>1 DEF NextSplit
        <5>2. NextSplit(r)' = <<pass[r], b + 1>> BY <1>2, <1>4, <3>5, <4>1 DEF NextSplit
        <5> QED BY <5>1, <5>2
      <4>2. CASE where = "gather"
        <5>1. NextSplit(r) = <<pass[r] + 1, 1>> BY <1>2, <3>3, <3>4, <3>5, <4>2 DEF NextSplit
        <5>2. NextSplit(r)' = <<pass[r] + 1, 1>> BY <1>2, <1>4, <4>2 DEF NextSplit
        <5> QED BY <5>1, <5>2
      <4> QED BY <3>5, <4>1, <4>2
    <3> QED BY <3>8, <3>9
  <2> QED BY <2>3, <2>4
<1> QED BY <1>2, <1>6, <1>8, RepOne

\* Ranks that raise.
LEMMA RepRaises ==
    ASSUME LogInv, RepInv, NEW crew \in SUBSET Ranks,
           UNCHANGED <<cfg, call, batches, snapshot, trained, pass, batch, micro, fwd, bwd, weights, logprobs>>,
           \A r \in crew : pc[r] \in {"split", "run"},
           \A r \in Ranks : pc'[r] = IF r \in crew THEN "raised" ELSE pc[r]
    PROVE  RepInv'
<1>1. /\ call' = call /\ cfg' = cfg /\ batches' = batches /\ Ranks' = Ranks /\ Passes' = Passes
  BY RepCall
<1>2. SavedExact' BY SavedFrame DEF RepInv
<1>3. ASSUME call.kind # "none", NEW r \in Ranks
      PROVE  /\ RepRank(r)'
             /\ cfg.dynamic => pc'[r] = "raised" \/ (pc[r] # "raised" /\ NextSplit(r)' = NextSplit(r))
  <2>0. RepRank(r) BY <1>3 DEF RepInv
  <2>1. CASE r \in crew
    <3>1. pc[r] \in {"split", "run"} /\ pc'[r] = "raised" BY <2>1
    <3>2. PassOf(r)' = PassOf(r) BY <1>1 DEF PassOf
    <3>3. DealtKept(r)' BY <1>1, <2>0, <3>1 DEF RepRank, DealtKept
    <3>4. Fresh(r)' BY <2>0, <3>1, <3>2 DEF RepRank, Fresh, Trains
    <3>5. ~InTraining(r)' BY <3>1 DEF InTraining
    <3>6. call.kind = "reproduce" => Replaying(r)' BY <1>1, <2>0, <3>1 DEF RepRank, Replaying
    <3> QED BY <1>1, <3>1, <3>3, <3>4, <3>5, <3>6 DEF RepRank
  <2>2. CASE r \notin crew
    <3>1. RepState(r)' = RepState(r) BY <2>2 DEF RepState
    <3>2. RepRank(r)' /\ NextSplit(r)' = NextSplit(r) BY <2>0, <3>1, RepRankFrame
    <3> QED BY <2>2, <3>2
  <2> QED BY <2>1, <2>2
<1> QED BY <1>2, <1>3, RepWithin

\* What Did keeps of a row that was trained.
Seen(t) == [row |-> t.row.index, weights |-> t.weights, given |-> t.given,
            routing |-> t.routing, replayed |-> t.replayed, micro |-> t.micro]

\* Did, row by row, now and after a step.
LEMMA InDid ==
    ASSUME NEW r, NEW b
    PROVE  /\ \A d : d \in Did(r, b) <=> \E t \in trained : t.rank = r /\ t.batch = b /\ d = Seen(t)
           /\ \A d : d \in Did(r, b)' <=> \E t \in trained' : t.rank = r /\ t.batch = b /\ d = Seen(t)
BY DEF Did, Seen

\* What BackwardDeeds states: the rows of r's backward are the deeds of its micro-batch i.
OwnDeeds(r, i) ==
    /\ \A t \in BackwardRows(r) : t.rank = r /\ t.batch = batch[r]
    /\ \A d : (\E t \in BackwardRows(r) : d = Seen(t))
          <=> \E j \in DOMAIN micro[r][i] : d = Deed(cfg, micro[r][i][j], i, logprobs[r], weights[r])

\* The rows of a backward are those of its micro-batch, each once, with its own
\* routing: what WorkerInv says of the state after it.
LEMMA BackwardDeeds ==
    ASSUME WorkerInv', cfg' = cfg, NEW r, BackwardRows(r) \subseteq trained', NEW i, i = bwd[r] + 1
    PROVE  OwnDeeds(r, i)
<1>1. PICK rows : rows = micro[r][i] OBVIOUS
<1>2. PICK again : again = IF cfg.r3 /\ cfg.recompute THEN Head(replay[r]) ELSE routed[r][i].rows
  OBVIOUS
<1> DEFINE Fed(j) ==
      [rank |-> r, batch |-> batch[r], micro |-> i, pos |-> j, row |-> rows[j],
       weights |-> weights[r],
       given |-> [f \in Fields |-> IF rows[j].index \in DOMAIN logprobs[r][f]
                                   THEN logprobs[r][f][rows[j].index] ELSE <<>>],
       routing |-> IF cfg.r3 THEN routed[r][i].rows[j] ELSE <<>>,
       replayed |-> IF cfg.r3 THEN again[j] ELSE <<>>]
<1>3. ASSUME NEW t \in BackwardRows(r) PROVE \E j \in DOMAIN rows : t = Fed(j)
  <2>1. rows = micro[r][bwd[r] + 1] BY <1>1
  <2>2. again = IF cfg.r3 /\ cfg.recompute THEN Head(replay[r]) ELSE routed[r][bwd[r] + 1].rows BY <1>2
  <2> QED BY ONLY t \in BackwardRows(r), <2>1, <2>2, i = bwd[r] + 1 DEF BackwardRows
<1>4. ASSUME NEW j \in DOMAIN rows PROVE Fed(j) \in BackwardRows(r)
  <2>1. rows = micro[r][bwd[r] + 1] BY <1>1
  <2>2. again = IF cfg.r3 /\ cfg.recompute THEN Head(replay[r]) ELSE routed[r][bwd[r] + 1].rows BY <1>2
  <2> QED BY ONLY j \in DOMAIN rows, <2>1, <2>2, i = bwd[r] + 1 DEF BackwardRows
<1>5. ASSUME NEW j \in DOMAIN rows
      PROVE  /\ Fed(j).rank = r /\ Fed(j).batch = batch[r]
             /\ Seen(Fed(j)) = Deed(cfg, rows[j], i, logprobs[r], weights[r])
  <2>1. PICK t : t = Fed(j) OBVIOUS
  <2>2. /\ t.rank = r /\ t.batch = batch[r] /\ t.micro = i /\ t.row = rows[j]
        /\ t.weights = weights[r]
        /\ t.given = [f \in Fields |-> IF rows[j].index \in DOMAIN logprobs[r][f]
                                       THEN logprobs[r][f][rows[j].index] ELSE <<>>]
        /\ t.routing = (IF cfg.r3 THEN routed[r][i].rows[j] ELSE <<>>)
        /\ t.replayed = (IF cfg.r3 THEN again[j] ELSE <<>>)
    BY <2>1
  <2>3. /\ t.routing = (IF cfg.r3 THEN Recorded(rows[j].paths) ELSE <<>>)
        /\ t.replayed = (IF cfg.r3 THEN Recorded(rows[j].paths) ELSE <<>>)
    <3>1. CASE cfg.r3
      <4>1. t \in trained' BY <1>4, <2>1
      <4>2. t.routing = Recorded(t.row.paths) /\ t.replayed = Recorded(t.row.paths)
        BY <3>1, <4>1 DEF WorkerInv, RoutingOwn
      <4> QED BY <2>2, <3>1, <4>2
    <3>2. CASE ~cfg.r3 BY <2>2, <3>2
    <3> QED BY <3>1, <3>2
  <2>4. Seen(t) = Deed(cfg, rows[j], i, logprobs[r], weights[r]) BY <2>2, <2>3 DEF Seen, Deed
  <2> QED BY <2>1, <2>2, <2>4
<1> HIDE DEF Fed
<1>6. \A t \in BackwardRows(r) : t.rank = r /\ t.batch = batch[r] BY <1>3, <1>5
<1>7. \A d : (\E t \in BackwardRows(r) : d = Seen(t))
            <=> \E j \in DOMAIN rows : d = Deed(cfg, rows[j], i, logprobs[r], weights[r])
  BY <1>3, <1>4, <1>5
<1> QED BY <1>1, <1>6, <1>7 DEF OwnDeeds

\* Backward: what was done is one micro-batch more.
LEMMA RepBackward ==
    ASSUME LogInv, WorkerInv', RepInv, NEW crew \in Crews, Backward(crew)
    PROVE  RepInv'
<1>1. crew \in SUBSET Ranks BY DEF Crews
<1>2. /\ \A r \in crew : BackwardNext(r)
      /\ bwd' = [r \in Ranks |-> IF r \in crew THEN bwd[r] + 1 ELSE bwd[r]]
      /\ trained' = trained \cup UNION {BackwardRows(r) : r \in crew}
      /\ UNCHANGED <<cfg, call, batches, snapshot, pc, pass, batch, micro, fwd, weights, logprobs>>
  BY DEF Backward, driver, spikes, model
<1>3. /\ call' = call /\ cfg' = cfg /\ batches' = batches /\ Ranks' = Ranks /\ Passes' = Passes
  BY <1>2, RepCall
<1>4. SavedExact' BY <1>2, SavedFrame DEF RepInv
<1>5. ASSUME NEW r \in crew
      PROVE  /\ \A t \in BackwardRows(r) : t.rank = r /\ t.batch = batch[r]
             /\ \A d : (\E t \in BackwardRows(r) : d = Seen(t))
                   <=> \E j \in DOMAIN micro[r][bwd[r] + 1] :
                          d = Deed(cfg, micro[r][bwd[r] + 1][j], bwd[r] + 1, logprobs[r], weights[r])
  <2>1. BackwardRows(r) \subseteq trained' BY <1>2
  <2>2. PICK i : i = bwd[r] + 1 OBVIOUS
  <2>3. cfg' = cfg BY <1>3
  <2>4. OwnDeeds(r, i) BY ONLY WorkerInv', <2>1, <2>2, <2>3, BackwardDeeds
  <2>5. /\ \A t \in BackwardRows(r) : t.rank = r /\ t.batch = batch[r]
        /\ \A d : (\E t \in BackwardRows(r) : d = Seen(t))
              <=> \E j \in DOMAIN micro[r][i] : d = Deed(cfg, micro[r][i][j], i, logprobs[r], weights[r])
    BY ONLY <2>4 DEF OwnDeeds
  <2> QED BY ONLY <2>2, <2>5
<1>6. ASSUME NEW r \in Ranks, NEW t, t.rank = r
      PROVE  t \in trained' <=> t \in trained \/ (r \in crew /\ t \in BackwardRows(r))
  BY <1>2, <1>5, <1>6
<1>7. ASSUME call.kind # "none", NEW r \in Ranks
      PROVE  RepRank(r)' /\ (cfg.dynamic => pc[r] = "raised" \/ NextSplit(r)' = NextSplit(r))
  <2>0. RepRank(r) BY <1>7 DEF RepInv
  <2>1. CASE r \in crew
    <3>1. /\ pc[r] = "run" /\ Trains(r) /\ InTraining(r) /\ bwd'[r] = bwd[r] + 1 /\ bwd[r] < fwd[r]
      BY <1>2, <2>1 DEF BackwardNext, InTraining
    <3>2. PassOf(r)' = PassOf(r) BY <1>2, <1>3 DEF PassOf
    <3>3. DealtKept(r)' BY <1>2, <1>3, <2>0 DEF RepRank, DealtKept
    <3>4. Fresh(r)'
      <4>1. batch[r] \in Nat BY <2>0 DEF RepRank, DealtKept
      <4>2. batch[r] <= batch[r] BY <4>1
      <4>3. Fresh(r) BY <2>0 DEF RepRank
      <4> SUFFICES ASSUME NEW t \in trained', t.rank = r
                   PROVE  /\ Trains(r) /\ t.batch \in Nat /\ t.batch <= batch[r]
        BY <1>2, <3>1, <3>2 DEF Fresh, Trains
      <4>4. CASE t \in trained BY <4>3, <4>4 DEF Fresh
      <4>5. CASE t \in BackwardRows(r) BY <1>5, <2>1, <3>1, <4>1, <4>2, <4>5
      <4> QED BY <1>6, <4>4, <4>5
    <3>5. Exact(r)'
      <4>1. Exact(r) BY <2>0, <3>1 DEF RepRank
      <4>2. Together(r)' = Together(r) BY <1>2, <1>3 DEF Together
      <4>3. PICK l \in Nat : l = Len(micro[r]) BY <4>1 DEF Exact
      <4>4. PICK f \in 0..l : f = fwd[r] BY <4>1, <4>3 DEF Exact
      <4>5. PICK k \in 0..f : k = bwd[r] /\ k < f BY <3>1, <4>1, <4>4 DEF Exact
      <4>6. k + 1 \in 0..f BY <4>4, <4>5
      <4>7. Did(r, batch[r])' = DidOf(cfg, micro[r], k + 1, logprobs[r], weights[r])
        <5>1. PICK b : b = batch[r] OBVIOUS
        <5>2. PICK m : m = micro[r] OBVIOUS
        <5>3. PICK g : g = logprobs[r] OBVIOUS
        <5>4. PICK w : w = weights[r] OBVIOUS
        <5>5. Did(r, b) = DidOf(cfg, m, k, g, w) BY <4>1, <4>5, <5>1, <5>2, <5>3, <5>4 DEF Exact
        <5>6. \A d : d \in Did(r, b)' <=>
                  \/ d \in Did(r, b) \/ \E t \in BackwardRows(r) : d = Seen(t)
          BY <1>5, <1>6, <2>1, <5>1, InDid
        <5>7. \A d : d \in Did(r, b)' <=>
                  \/ \E i \in 1..k : \E j \in DOMAIN m[i] : d = Deed(cfg, m[i][j], i, g, w)
                  \/ \E j \in DOMAIN m[k + 1] : d = Deed(cfg, m[k + 1][j], k + 1, g, w)
          BY <1>5, <2>1, <4>5, <5>2, <5>3, <5>4, <5>5, <5>6, InDidOf
        <5>8. \A i : i \in 1..(k + 1) <=> i \in 1..k \/ i = k + 1 BY <4>4
        <5>9. \A d : d \in Did(r, b)' <=>
                  \E i \in 1..(k + 1) : \E j \in DOMAIN m[i] : d = Deed(cfg, m[i][j], i, g, w)
          BY ONLY <5>7, <5>8
        <5>10. \A d : d \in Did(r, b)' <=> d \in DidOf(cfg, m, k + 1, g, w) BY <5>9, InDidOf
        <5>11. Did(r, b)' = DidOf(cfg, m, k + 1, g, w) BY <5>10
        <5> QED BY <1>2, <5>1, <5>2, <5>3, <5>4, <5>11
      <4> QED BY <1>2, <1>3, <3>1, <4>1, <4>2, <4>3, <4>4, <4>5, <4>6, <4>7 DEF Exact
    <3>6. call.kind = "reproduce" => Replaying(r)' BY <1>2, <1>3, <2>0 DEF RepRank, Replaying
    <3>7. NextSplit(r)' = NextSplit(r) BY <1>2 DEF NextSplit
    <3> QED BY <1>3, <3>3, <3>4, <3>5, <3>6, <3>7 DEF RepRank
  <2>2. CASE r \notin crew
    <3>1. RepState(r)' = RepState(r) BY <1>2, <2>2 DEF RepState
    <3>2. \A t : t.rank = r => (t \in trained' <=> t \in trained) BY <1>6, <2>2
    <3> QED BY <1>2, <2>0, <3>1, <3>2, RepRankFrame
  <2> QED BY <2>1, <2>2
<1>8. \A r \in Ranks : pc'[r] = pc[r] BY <1>2
<1> QED BY <1>2, <1>4, <1>7, <1>8, RepWithin

\* Forward: one micro-batch more goes forward, or the ranks raise.
LEMMA RepForward ==
    ASSUME LogInv, RepInv, NEW crew \in Crews, Forward(crew)
    PROVE  RepInv'
<1>1. crew \in SUBSET Ranks BY DEF Crews
<1>2. /\ \A r \in crew : ForwardNext(r)
      /\ UNCHANGED <<cfg, call, batches, snapshot, trained, pass, batch, micro, bwd, weights, logprobs>>
      /\ \/ fwd' = fwd /\ pc' = [r \in Ranks |-> IF r \in crew THEN "raised" ELSE pc[r]]
         \/ pc' = pc /\ fwd' = [r \in Ranks |-> IF r \in crew THEN fwd[r] + 1 ELSE fwd[r]]
  BY DEF Forward, driver, spikes, model
<1>3. /\ call' = call /\ cfg' = cfg /\ batches' = batches /\ Ranks' = Ranks /\ Passes' = Passes
  BY <1>2, RepCall
<1>4. CASE fwd' = fwd /\ pc' = [r \in Ranks |-> IF r \in crew THEN "raised" ELSE pc[r]]
  <2>1. \A r \in crew : pc[r] \in {"split", "run"} BY <1>2 DEF ForwardNext
  <2>2. \A r \in Ranks : pc'[r] = IF r \in crew THEN "raised" ELSE pc[r] BY <1>4
  <2>3. UNCHANGED <<cfg, call, batches, snapshot, trained, pass, batch, micro, fwd, bwd, weights, logprobs>>
    BY <1>2, <1>4
  <2> QED BY <1>1, <2>1, <2>2, <2>3, RepRaises
<1>5. CASE pc' = pc /\ fwd' = [r \in Ranks |-> IF r \in crew THEN fwd[r] + 1 ELSE fwd[r]]
  <2>1. SavedExact' BY <1>2, SavedFrame DEF RepInv
  <2>2. ASSUME call.kind # "none", NEW r \in Ranks
        PROVE  RepRank(r)' /\ NextSplit(r)' = NextSplit(r)
    <3>0. RepRank(r) BY <2>2 DEF RepInv
    <3>1. CASE r \in crew
      <4>1. pc[r] = "run" /\ fwd[r] < Len(micro[r]) /\ fwd'[r] = fwd[r] + 1
        BY <1>2, <1>5, <3>1 DEF ForwardNext
      <4>2. PassOf(r)' = PassOf(r) BY <1>2, <1>3 DEF PassOf
      <4>3. DealtKept(r)' BY <1>2, <1>3, <1>5, <3>0 DEF RepRank, DealtKept
      <4>4. Fresh(r)' BY <1>2, <1>5, <3>0, <4>2 DEF RepRank, Fresh, Trains
      <4>5. InTraining(r)' => InTraining(r) BY <1>3, <1>5, <4>2 DEF InTraining, Trains
      <4>6. ASSUME Exact(r) PROVE Exact(r)'
        <5>1. Together(r)' = Together(r) BY <1>2, <1>3 DEF Together
        <5>2. Did(r, batch[r])' = Did(r, batch[r]) BY <1>2, DidFrame
        <5>3. PICK l \in Nat : l = Len(micro[r]) BY <4>6 DEF Exact
        <5>4. PICK f \in 0..l : f = fwd[r] /\ f < l BY <4>1, <4>6, <5>3 DEF Exact
        <5>5. PICK k \in 0..f : k = bwd[r] BY <4>6, <5>4 DEF Exact
        <5>6. f + 1 \in 0..l /\ k \in 0..(f + 1) BY <5>3, <5>4, <5>5
        <5> QED BY <1>2, <1>3, <1>5, <4>1, <4>6, <5>1, <5>2, <5>3, <5>4, <5>5, <5>6 DEF Exact
      <4>7. call.kind = "reproduce" => Replaying(r)'
        BY <1>2, <1>3, <1>5, <3>0 DEF RepRank, Replaying
      <4>8. NextSplit(r)' = NextSplit(r) BY <1>2, <1>3, <1>5 DEF NextSplit
      <4> QED BY <1>3, <3>0, <4>3, <4>4, <4>5, <4>6, <4>7, <4>8 DEF RepRank
    <3>2. CASE r \notin crew
      <4>1. RepState(r)' = RepState(r) BY <1>2, <1>5, <3>2 DEF RepState
      <4> QED BY <1>2, <3>0, <4>1, RepRankFrame
    <3> QED BY <3>1, <3>2
  <2>3. \A r \in Ranks : pc'[r] = pc[r] BY <1>5
  <2> QED BY <1>2, <2>1, <2>2, <2>3, RepWithin
<1> QED BY <1>2, <1>4, <1>5

\* The batch that a rank begins to train: nothing of it is done yet.
LEMMA RepBegins ==
    ASSUME NEW r \in Ranks, RepRank(r), pc[r] = "split", pc'[r] = "run",
           UNCHANGED <<cfg, call, batches, snapshot, trained, pass, batch, weights, logprobs>>,
           fwd'[r] = 0, bwd'[r] = 0, NEW k \in Nat, DOMAIN micro'[r] = 1..k, Len(micro'[r]) = k,
           Trains(r) => /\ micro'[r] = SplitOf(cfg, Together(r), r)
                        /\ SplitChecked(cfg, Together(r), r)
    PROVE  RepRank(r)'
<1>1. /\ cfg' = cfg /\ call' = call /\ batches' = batches /\ Ranks' = Ranks /\ Passes' = Passes
  BY RepCall
<1>2. PassOf(r)' = PassOf(r) BY <1>1 DEF PassOf
<1>3. DealtKept(r)' BY <1>1 DEF RepRank, DealtKept
<1>4. Fresh(r)'
  <2>1. \A t \in trained : t.rank = r => Trains(r) /\ t.batch \in Nat /\ t.batch <= batch[r]
    BY DEF RepRank, Fresh
  <2> QED BY <1>2, <2>1 DEF Fresh, Trains
<1>5. ASSUME Trains(r) PROVE Exact(r)'
  <2>1. Together(r)' = Together(r) BY <1>1 DEF Together
  <2>2. Did(r, batch[r])' = Did(r, batch[r]) BY DidFrame
  <2>3. PICK m : m = micro'[r] OBVIOUS
  <2>4. \A t \in trained : ~(t.rank = r /\ t.batch = batch[r])
    <3>1. PICK b \in Nat : b = batch[r] BY DEF RepRank, DealtKept
    <3>2. ASSUME NEW t \in trained, t.rank = r PROVE t.batch # b
      <4>1. PICK c \in Nat : c = t.batch BY <3>2 DEF RepRank, Fresh
      <4>2. c < b BY <3>1, <3>2, <4>1 DEF RepRank, Fresh
      <4> QED BY <4>1, <4>2
    <3> QED BY <3>1, <3>2
  <2>5. \A d : d \notin Did(r, batch[r]) BY <2>4, InDid
  <2>6. \A d : d \notin DidOf(cfg, m, 0, logprobs[r], weights[r])
    <3>1. \A i : i \notin 1..0 OBVIOUS
    <3> QED BY <3>1, InDidOf
  <2>7. Did(r, batch[r]) = DidOf(cfg, m, 0, logprobs[r], weights[r]) BY <2>5, <2>6
  <2>8. 0 \in 0..k /\ 0 \in 0..0 OBVIOUS
  <2> QED BY <1>1, <1>5, <2>1, <2>2, <2>3, <2>7, <2>8 DEF Exact
<1>6. InTraining(r)' => Trains(r) BY <1>1, <1>2 DEF InTraining, Trains
<1>7. call.kind = "reproduce" => Replaying(r)' BY <1>1 DEF RepRank, Replaying
<1> QED BY <1>1, <1>3, <1>4, <1>5, <1>6, <1>7 DEF RepRank

\* A list is a list of its elements.
LEMMA OwnElements ==
    ASSUME NEW V, NEW rows \in Seq(V)
    PROVE  rows \in Seq(ToSet(rows))
<1>1. PICK n \in Nat : n = Len(rows) /\ DOMAIN rows = 1..n OBVIOUS
<1>2. PICK S : S = ToSet(rows) OBVIOUS
<1>3. \A i \in 1..n : rows[i] \in S BY <1>1, <1>2 DEF ToSet
<1>4. rows = [i \in 1..n |-> rows[i]] BY <1>1
<1> QED BY <1>2, <1>3, <1>4

\* A batch is a list of rows, those that were put back too.
LEMMA RepRows ==
    ASSUME RepInv, call.kind # "none", NEW r \in Ranks, pc[r] \in {"split", "run", "update"}
    PROVE  Batch(r) \in Seq(ToSet(Batch(r)))
<1>1. RepRank(r) BY DEF RepInv
<1>2. CASE call.kind # "reproduce"
  <2>1. PICK s \in Seq(Seq(AnyRow)) : s = batches[r] BY <1>1, <1>2 DEF RepRank, DealtKept
  <2>2. PICK b \in 1..Len(s) : b = batch[r]
    <3>1. batch[r] \in Nat \ {0} /\ batch[r] <= Len(s) BY <1>1, <2>1 DEF RepRank, DealtKept
    <3> QED BY <2>1, <3>1
  <2>3. PICK rows \in Seq(AnyRow) : rows = s[b] BY <2>1, <2>2
  <2>4. rows \in Seq(ToSet(rows)) BY OwnElements
  <2> QED BY <2>1, <2>2, <2>3, <2>4 DEF Batch
<1>3. CASE call.kind = "reproduce"
  <2>1. Replaying(r) BY <1>1, <1>3 DEF RepRank
  <2>2. PICK rows \in Seq(AnyRow) : rows = snapshot.rows[r] BY <2>1 DEF Replaying, RepInv, SavedExact
  <2>3. PICK again : again = RestoredRows(rows) OBVIOUS
  <2>4. again \in Seq(ToSet(again)) BY <2>3, PutBackRows
  <2>5. Batch(r) = again
    <3>1. batches[r] = <<again>> /\ batch[r] = 1 BY <2>1, <2>2, <2>3 DEF Replaying
    <3> QED BY <3>1 DEF Batch
  <2> QED BY <2>4, <2>5
<1> QED BY <1>2, <1>3

\* SplitStatic: the batch is cut in chunks.
LEMMA RepSplitStatic ==
    ASSUME LogInv, RepInv, NEW r \in Ranks, SplitStatic(r)
    PROVE  RepInv'
<1>1. PICK size : size = IF Trains(r) THEN TrainMicro ELSE EvalMicro OBVIOUS
<1>2. PICK m : m = [j \in 1..CeilDiv(Len(Batch(r)), size) |->
                      SubSeq(Batch(r), (j - 1) * size + 1, Min({j * size, Len(Batch(r))}))]
  OBVIOUS
<1>3. /\ ~cfg.dynamic /\ pc[r] = "split" /\ Begins({r}, [s \in {r} |-> m])
      /\ UNCHANGED <<cfg, call, batches, snapshot, trained, pass, batch, weights, logprobs>>
  BY <1>1, <1>2 DEF SplitStatic, driver, spikes, model
<1>4. /\ pc' = [s \in Ranks |-> IF s \in {r} THEN "run" ELSE pc[s]]
      /\ micro' = [s \in Ranks |-> IF s \in {r} THEN [q \in {r} |-> m][s] ELSE micro[s]]
      /\ fwd' = [s \in Ranks |-> IF s \in {r} THEN 0 ELSE fwd[s]]
      /\ bwd' = [s \in Ranks |-> IF s \in {r} THEN 0 ELSE bwd[s]]
  BY <1>3 DEF Begins
<1>5. pc'[r] = "run" /\ micro'[r] = m /\ fwd'[r] = 0 /\ bwd'[r] = 0 BY <1>4
<1>6. \A s \in Ranks \ {r} : RepState(s)' = RepState(s) BY <1>3, <1>4 DEF RepState
<1>7. SavedExact' BY <1>3, SavedFrame DEF RepInv
<1>8. ASSUME call.kind # "none", NEW s \in Ranks PROVE RepRank(s)'
  <2>0. RepRank(s) BY <1>8 DEF RepInv
  <2>1. CASE s # r
    <3>1. RepState(s)' = RepState(s) BY <1>6, <2>1
    <3> QED BY <1>3, <2>0, <3>1, RepRankFrame
  <2>2. CASE s = r
    <3>1. PICK rows : rows = Batch(r) OBVIOUS
    <3>2. Trains(r) => m = SplitOf(cfg, Together(r), r)
      <4>1. Together(r)[r] = rows BY <3>1 DEF Together, Batch
      <4>2. SplitOf(cfg, Together(r), r) = ChunksOf(rows) BY <1>3, <4>1 DEF SplitOf
      <4>3. Trains(r) => m = ChunksOf(rows) BY <1>1, <1>2, <3>1 DEF ChunksOf
      <4> QED BY <4>2, <4>3
    <3>3. SplitChecked(cfg, Together(r), r) BY <1>3 DEF SplitChecked
    <3>4. PICK k \in Nat : k = CeilDiv(Len(Batch(r)), size)
      <4>1. size \in Nat \ {0} BY <1>1, MegatronAssumption
      <4>2. PICK l \in Nat : l = Len(Batch(r)) BY <1>3, <1>8, RepRows
      <4>3. l + size - 1 \in Nat BY <4>1
      <4> QED BY <4>1, <4>2, <4>3, Division DEF CeilDiv
    <3>5. DOMAIN m = 1..k /\ Len(m) = k BY <1>2, <3>4
    <3> QED BY <1>3, <1>5, <2>0, <2>2, <3>2, <3>3, <3>4, <3>5, RepBegins
  <2> QED BY <2>1, <2>2
<1> QED BY <1>3, <1>7, <1>8, RepWithin

\* What the ranks agree on when all of them train: the count of micro-batches, and
\* the parts it leads to.
LEMMA RepAgreed ==
    ASSUME NEW r \in Ranks, NEW b, \A s \in Ranks : batch[s] = b /\ Trains(s), cfg.dynamic,
           NEW parts,
           parts = [s \in Ranks |->
                       IF RoundedCount(AgreedCount(s), cfg.vpp, cfg.group) > Len(Batch(s)) THEN <<>>
                       ELSE SplitIntoBalancedMicrobatches(
                                Lens(s), RoundedCount(AgreedCount(s), cfg.vpp, cfg.group))]
    PROVE  /\ SplitOf(cfg, Together(r), r) = RowsOf(Batch(r), parts[r])
           /\ PartitionsChecked(parts[r], RoundedCount(AgreedCount(r), cfg.vpp, cfg.group), Lens(r))
                 => SplitChecked(cfg, Together(r), r)
<1>1. PICK t : t = Together(r) OBVIOUS
<1>2. DOMAIN t = Ranks /\ \A s \in Ranks : t[s] = Batch(s) BY <1>1 DEF Together, Batch
<1>3. \A s \in Ranks : LensOf(t[s]) = Lens(s) BY <1>2 DEF LensOf, Lens
<1>4. \A s \in Ranks : LocalCount(s) = LocalMicroBatches(LensOf(t[s]), TrainTokens)
  BY <1>3 DEF LocalCount
<1>5. {LocalCount(s) : s \in Ranks} = {LocalMicroBatches(LensOf(t[s]), TrainTokens) : s \in DOMAIN t}
  BY <1>2, <1>4
<1>6. PICK count : count = CountOf(cfg, t) OBVIOUS
<1>7. \A s \in Ranks : RoundedCount(AgreedCount(s), cfg.vpp, cfg.group) = count
  BY <1>5, <1>6 DEF AgreedCount, CountOf
<1>8. parts[r] = IF count > Len(Batch(r)) THEN <<>> ELSE SplitIntoBalancedMicrobatches(Lens(r), count)
  BY <1>7
<1>9. PartsOf(cfg, t, r) = parts[r] BY <1>2, <1>3, <1>6, <1>8 DEF PartsOf
<1>10. SplitOf(cfg, t, r) = RowsOf(Batch(r), parts[r]) BY <1>2, <1>9 DEF SplitOf
<1>11. PartitionsChecked(parts[r], count, Lens(r)) => SplitChecked(cfg, t, r)
  BY <1>2, <1>3, <1>6, <1>9 DEF SplitChecked
<1> QED BY <1>1, <1>7, <1>10, <1>11

\* SplitDynamic: the ranks cut their batches in the same number of micro-batches,
\* or all of them raise.
LEMMA RepSplitDynamic ==
    ASSUME LogInv, RepInv, SplitDynamic
    PROVE  RepInv'
<1>1. LogShape BY DEF LogInv
<1>2. /\ UNCHANGED <<cfg, call, batches, snapshot, trained, pass, batch, weights, logprobs>>
      /\ cfg.dynamic /\ \A r \in Ranks : pc[r] = "split"
  BY DEF SplitDynamic, driver, model, spikes, Everyone
<1>3. /\ call' = call /\ cfg' = cfg /\ batches' = batches /\ Ranks' = Ranks /\ Passes' = Passes
  BY <1>2, RepCall
<1>4. PICK parts :
          /\ parts = [s \in Ranks |->
                IF RoundedCount(AgreedCount(s), cfg.vpp, cfg.group) > Len(Batch(s)) THEN <<>>
                ELSE SplitIntoBalancedMicrobatches(
                         Lens(s), RoundedCount(AgreedCount(s), cfg.vpp, cfg.group))]
          /\ \/ /\ \A r \in Ranks : PartitionsChecked(parts[r],
                                        RoundedCount(AgreedCount(r), cfg.vpp, cfg.group), Lens(r))
                /\ \E s \in {[r \in Ranks |-> RowsOf(Batch(r), parts[r])]} : Begins(Ranks, s)
             \/ pc' = [r \in Ranks |-> "raised"] /\ UNCHANGED <<micro, fwd, bwd>>
  BY DEF SplitDynamic
<1>5. CASE /\ \A r \in Ranks : PartitionsChecked(parts[r],
                                   RoundedCount(AgreedCount(r), cfg.vpp, cfg.group), Lens(r))
           /\ \E s \in {[r \in Ranks |-> RowsOf(Batch(r), parts[r])]} : Begins(Ranks, s)
  <2>1. PICK split : split = [r \in Ranks |-> RowsOf(Batch(r), parts[r])] /\ Begins(Ranks, split) BY <1>5
  <2>2. ASSUME NEW r \in Ranks
        PROVE  /\ micro'[r] = RowsOf(Batch(r), parts[r]) /\ fwd'[r] = 0 /\ bwd'[r] = 0
               /\ pc'[r] = "run"
    BY <2>1 DEF Begins
  <2>4. ASSUME call.kind # "none"
        PROVE  /\ \A r, s \in Ranks : pass[r] = pass[s] /\ batch[r] = batch[s]
               /\ \A r, s \in Ranks : Len(batches[r]) = Len(batches[s])
    <3>1. \A r \in Ranks : NextSplit(r) = <<pass[r], batch[r]>> BY <1>2 DEF NextSplit
    <3>2. \A r, s \in Ranks : NextSplit(r) = NextSplit(s) BY <1>2, <2>4 DEF RepInv, Lockstep
    <3>3. \A r, s \in Ranks : <<pass[r], batch[r]>> = <<pass[s], batch[s]>> BY <3>1, <3>2
    <3>4. \A r \in Ranks : DealtKept(r) BY <2>4 DEF RepInv, RepRank
    <3>5. \A r, s \in Ranks : Len(batches[r]) = Len(batches[s]) BY <3>4 DEF DealtKept
    <3> QED BY <3>3, <3>5
  <2>5. ASSUME call.kind # "none", NEW r \in Ranks PROVE RepRank(r)'
    <3>0. RepRank(r) BY <2>5 DEF RepInv
    <3>1. ASSUME Trains(r)
          PROVE  micro'[r] = SplitOf(cfg, Together(r), r) /\ SplitChecked(cfg, Together(r), r)
      <4>1. PICK b : b = batch[r] OBVIOUS
      <4>2. \A s \in Ranks : batch[s] = b /\ Trains(s) BY <2>4, <2>5, <3>1, <4>1 DEF Trains, PassOf
      <4>3. /\ SplitOf(cfg, Together(r), r) = RowsOf(Batch(r), parts[r])
            /\ PartitionsChecked(parts[r], RoundedCount(AgreedCount(r), cfg.vpp, cfg.group), Lens(r))
                  => SplitChecked(cfg, Together(r), r)
        BY ONLY r \in Ranks, <1>2, <1>4, <4>2, RepAgreed
      <4> QED BY <1>5, <2>2, <4>3
    <3>2. PICK part : part = parts[r] OBVIOUS
    <3>3. part \in Seq((SUBSET DOMAIN Lens(r)) \ {{}}) BY <1>5, <3>2 DEF PartitionsChecked
    <3>4. PICK k \in Nat : k = Len(part) /\ DOMAIN part = 1..k BY <3>3
    <3>5. micro'[r] = RowsOf(Batch(r), part) BY <2>2, <3>2
    <3>6. DOMAIN micro'[r] = 1..k /\ Len(micro'[r]) = k BY <3>4, <3>5 DEF RowsOf
    <3> QED BY <1>2, <2>2, <3>0, <3>1, <3>6, RepBegins
  <2>6. ASSUME call.kind # "none" PROVE Lockstep'
    <3>1. ASSUME NEW r \in Ranks, NEW s \in Ranks PROVE NextSplit(r)' = NextSplit(s)'
      BY <1>2, <1>3, <2>2, <2>4, <2>6 DEF NextSplit
    <3> QED BY <1>3, <3>1 DEF Lockstep
  <2>7. SavedExact' BY <1>2, SavedFrame DEF RepInv
  <2> QED BY <1>3, <2>5, <2>6, <2>7 DEF RepInv
<1>6. CASE pc' = [r \in Ranks |-> "raised"] /\ UNCHANGED <<micro, fwd, bwd>>
  <2>1. PICK crew : crew = Ranks OBVIOUS
  <2>2. /\ crew \in SUBSET Ranks /\ \A r \in crew : pc[r] \in {"split", "run"}
        /\ \A r \in Ranks : pc'[r] = IF r \in crew THEN "raised" ELSE pc[r]
    BY <1>2, <1>6, <2>1
  <2>3. UNCHANGED <<cfg, call, batches, snapshot, trained, pass, batch, micro, fwd, bwd, weights, logprobs>>
    BY <1>2, <1>6
  <2> QED BY <2>2, <2>3, RepRaises
<1> QED BY <1>4, <1>5, <1>6

\* The ranks train the same batch when the optimizer steps, if they agreed on the
\* count of its micro-batches.
LEMMA SameBatch ==
    ASSUME RepInv, call.kind # "none", cfg.dynamic, NEW r \in Ranks, NEW s \in Ranks,
           pc[r] = "update", pc[s] = "update", pass[r] = pass[s], pass[r] \in Nat
    PROVE  batch[s] = batch[r]
<1>1. RepRank(r) /\ RepRank(s) BY DEF RepInv
<1>2. PICK n \in Nat : n = Len(batches[r]) /\ n = Len(batches[s]) BY <1>1 DEF RepRank, DealtKept
<1>3. PICK a \in Nat \ {0} : a = batch[r] /\ a <= n BY <1>1, <1>2 DEF RepRank, DealtKept
<1>4. PICK b \in Nat \ {0} : b = batch[s] /\ b <= n BY <1>1, <1>2 DEF RepRank, DealtKept
<1>5. PICK p \in Nat : p = pass[r] OBVIOUS
<1>6. NextSplit(r) = IF a < n THEN <<p, a + 1>> ELSE <<p + 1, 1>>
  BY <1>2, <1>3, <1>5 DEF NextSplit
<1>7. NextSplit(s) = IF b < n THEN <<p, b + 1>> ELSE <<p + 1, 1>>
  BY <1>2, <1>4, <1>5 DEF NextSplit
<1>8. NextSplit(r) = NextSplit(s) BY DEF RepInv, Lockstep
<1>9. a = b
  <2>1. CASE a < n /\ b < n
    <3>1. <<p, a + 1>> = <<p, b + 1>> BY <1>6, <1>7, <1>8, <2>1
    <3> QED BY <3>1
  <2>2. CASE a < n /\ ~(b < n)
    <3>1. <<p, a + 1>> = <<p + 1, 1>> BY <1>6, <1>7, <1>8, <2>2
    <3>2. p = p + 1 BY <3>1
    <3> QED BY <3>2
  <2>3. CASE ~(a < n) /\ b < n
    <3>1. <<p + 1, 1>> = <<p, b + 1>> BY <1>6, <1>7, <1>8, <2>3
    <3>2. p + 1 = p BY <3>1
    <3> QED BY <3>2
  <2>4. CASE ~(a < n) /\ ~(b < n) BY <1>2, <1>3, <1>4, <2>4
  <2> QED BY <2>1, <2>2, <2>3, <2>4
<1> QED BY <1>3, <1>4, <1>9

\* Update: what the ranks did with the batch, a snapshot keeps.
LEMMA RepUpdate ==
    ASSUME LogInv, RepInv, NEW norm, Update(norm)
    PROVE  RepInv'
<1>1. LogShape /\ \A r \in Ranks : LogPart(r) BY DEF LogInv
<1>2. /\ \A r \in Ranks : pc[r] = "update"
      /\ UNCHANGED <<cfg, call, batches, trained, pass, micro, fwd, bwd, logprobs>>
      /\ snapshot' \in {snapshot, SpikeSnapshot}
      /\ pc' = [r \in Ranks |-> IF batch[r] < Len(batches[r]) THEN "split" ELSE "done"]
      /\ batch' = [r \in Ranks |-> IF batch[r] < Len(batches[r]) THEN batch[r] + 1 ELSE batch[r]]
  BY DEF Update, Everyone, driver
<1>3. /\ call' = call /\ cfg' = cfg /\ batches' = batches /\ Ranks' = Ranks /\ Passes' = Passes
  BY <1>2, RepCall
<1>4. 0 \in Ranks
  <2>1. cfg.dp \in Nat \ {0} BY MegatronAssumption DEF LogInv
  <2> QED BY <2>1 DEF Ranks
<1>5. ASSUME NEW r \in Ranks
      PROVE  /\ PassOf(r) = "train" /\ pass[r] = Len(Passes) /\ pass[r] \in Nat
             /\ call.kind \in {"train", "sft"} /\ weights[r] = weights[0]
  <2>1. PassOf(r) = "train" BY <1>1, <1>2 DEF LogPart, PassKept
  <2>2. pass[r] = Len(Passes) /\ pass[r] \in Nat /\ call.kind \in {"train", "sft"}
    BY <1>2, <2>1, KindOfPass
  <2>3. Current(r) = weights[r] /\ Current(0) = weights[0] BY <1>2, <1>4 DEF Current, Swapped
  <2>4. Current(r) = Current(0) BY <1>4 DEF LogInv
  <2> QED BY <2>1, <2>2, <2>3, <2>4
<1>6. call.kind \in {"train", "sft"} BY <1>4, <1>5
<1>7. \A r \in Ranks : RepRank(r) BY <1>6 DEF RepInv
<1>8. SavedExact'
  <2>1. CASE snapshot' = snapshot BY <1>3, <2>1, SavedFrame DEF RepInv
  <2>2. CASE snapshot' = SpikeSnapshot
    <3>1. PICK rows : rows = [r \in Ranks |-> Batch(r)] OBVIOUS
    <3>2. /\ snapshot'.rows = rows /\ snapshot'.logprobs = logprobs /\ snapshot'.weights = weights[0]
          /\ snapshot'.did = [r \in Ranks |-> Did(r, batch[r])]
      BY <2>2, <3>1 DEF SpikeSnapshot, SavedWeights
    <3>3. ASSUME NEW r \in Ranks
          PROVE  /\ rows[r] \in Seq(AnyRow)
                 /\ snapshot'.did[r] = DidOf(cfg, SplitOf(cfg, rows, r), Len(SplitOf(cfg, rows, r)),
                                             logprobs[r], weights[0])
      <4>1. PICK s \in Seq(Seq(AnyRow)) : s = batches[r] BY <1>6, <1>7 DEF RepRank, DealtKept
      <4>2. batch[r] \in 1..Len(s) BY <1>2, <1>7, <4>1 DEF RepRank, DealtKept
      <4>3. rows[r] = s[batch[r]] BY <3>1, <4>1 DEF Batch
      <4>4. rows[r] \in Seq(AnyRow) BY <4>2, <4>3
      <4>5. InTraining(r) BY <1>2, <1>5 DEF InTraining, Trains
      <4>6. /\ micro[r] = SplitOf(cfg, Together(r), r) /\ bwd[r] = Len(micro[r])
            /\ Did(r, batch[r]) = DidOf(cfg, micro[r], bwd[r], logprobs[r], weights[r])
        BY <1>2, <1>7, <4>5 DEF RepRank, Exact
      <4>7. SplitOf(cfg, Together(r), r) = SplitOf(cfg, rows, r)
        <5>1. CASE cfg.dynamic
          <6>1. \A q \in Ranks : batch[q] = batch[r]
            <7> SUFFICES ASSUME NEW q \in Ranks PROVE batch[q] = batch[r] OBVIOUS
            <7>1. pass[r] = pass[q] /\ pass[r] \in Nat BY <1>5
            <7> QED BY <1>2, <1>6, <5>1, <7>1, SameBatch
          <6>2. Together(r) = rows BY <3>1, <6>1 DEF Together, Batch
          <6> QED BY <6>2
        <5>2. CASE ~cfg.dynamic
          <6>1. Together(r)[r] = rows[r] BY <3>1 DEF Together, Batch
          <6> QED BY <5>2, <6>1 DEF SplitOf
        <5> QED BY <5>1, <5>2
      <4>8. snapshot'.did[r] = Did(r, batch[r]) BY <3>2
      <4> QED BY <1>5, <4>4, <4>6, <4>7, <4>8
    <3>4. rows = [r \in Ranks |-> rows[r]] BY <3>1
    <3> QED BY <1>3, <3>2, <3>3, <3>4 DEF SavedExact
  <2> QED BY <1>2, <2>1, <2>2
<1>9. ASSUME NEW r \in Ranks PROVE RepRank(r)' /\ NextSplit(r)' = NextSplit(r)
  <2>0. RepRank(r) /\ DealtKept(r) /\ Fresh(r) BY <1>7 DEF RepRank
  <2>1. PICK n \in Nat : n = Len(batches[r]) BY <2>0 DEF DealtKept
  <2>2. PICK b \in Nat \ {0} : b = batch[r] /\ b <= n BY <1>2, <2>0, <2>1 DEF DealtKept
  <2>3. \/ b < n /\ pc'[r] = "split" /\ batch'[r] = b + 1
        \/ ~(b < n) /\ pc'[r] = "done" /\ batch'[r] = b
    BY <1>2, <2>1, <2>2
  <2>4. PassOf(r)' = PassOf(r) BY <1>2, <1>3 DEF PassOf
  <2>5. DealtKept(r)'
    <3>1. batch'[r] \in Nat \ {0} /\ batch'[r] <= n BY <2>2, <2>3
    <3> QED BY <1>3, <2>0, <2>1, <3>1 DEF DealtKept
  <2>6. Fresh(r)'
    <3> SUFFICES ASSUME NEW t \in trained, t.rank = r
                 PROVE  /\ Trains(r) /\ t.batch \in Nat /\ t.batch <= batch'[r]
                        /\ pc'[r] = "split" => t.batch < batch'[r]
      BY <1>2, <2>3, <2>4 DEF Fresh, Trains
    <3>1. Trains(r) /\ t.batch \in Nat /\ t.batch <= b BY <2>0, <2>2 DEF Fresh
    <3> QED BY <2>2, <2>3, <3>1
  <2>7. ~InTraining(r)' BY <1>3, <1>6, <2>3 DEF InTraining
  <2>8. NextSplit(r)' = NextSplit(r)
    <3>1. CASE b < n
      <4>1. NextSplit(r) = <<pass[r], b + 1>> BY <1>2, <2>1, <2>2, <3>1 DEF NextSplit
      <4>2. NextSplit(r)' = <<pass[r], b + 1>> BY <1>2, <2>3, <3>1 DEF NextSplit
      <4> QED BY <4>1, <4>2
    <3>2. CASE ~(b < n)
      <4>1. NextSplit(r) = <<pass[r] + 1, 1>> BY <1>2, <2>1, <2>2, <3>2 DEF NextSplit
      <4>2. NextSplit(r)' = <<pass[r] + 1, 1>> BY <1>2, <2>3, <3>2 DEF NextSplit
      <4> QED BY <4>1, <4>2
    <3> QED BY <3>1, <3>2
  <2> QED BY <1>3, <1>6, <2>5, <2>6, <2>7, <2>8 DEF RepRank
<1>10. \A r \in Ranks : pc[r] # "raised" BY <1>2
<1> QED BY <1>2, <1>8, <1>9, <1>10, RepWithin

---------------------------------------------------------------------------
(* Replay: the driver *)

\* Before the first call.
LEMMA RepInit == Init => RepInv
<1> SUFFICES ASSUME Init PROVE RepInv OBVIOUS
<1>1. call.kind = "none" /\ snapshot = NoSnapshot /\ DOMAIN batches = Ranks BY DEF Init, NoCall
<1> QED BY <1>1 DEF RepInv, SavedExact

\* The rows of a call are rows, and so is the padding.
LEMMA CallAnyRows ==
    ASSUME NEW samples \in SampleSets, NEW rows, rows = WithRouting(Tensorize(samples))
    PROVE  /\ ToSet(rows) \subseteq AnyRow
           /\ \A s : PadOf(s, PaddingLength, PadHandle) \in AnyRow
<1>1. samples \in Seq(Sample) BY SampleAssumption
<1>2. PICK n \in Nat : n = Len(samples) /\ DOMAIN samples = 1..n BY <1>1
<1>3. PICK t : t = Tensorize(samples) OBVIOUS
<1>4. t = [i \in 1..n |-> [index |-> i - 1, traj |-> samples[i].traj,
                           len |-> samples[i].len, paths |-> samples[i].paths]]
  BY <1>2, <1>3 DEF Tensorize
<1>5. <<>> \in Seq(Seq(Handles)) OBVIOUS
<1>6. ASSUME NEW i \in 1..n PROVE rows[i] \in AnyRow /\ DOMAIN rows = 1..n
  <2>1. PICK x \in Sample : x = samples[i] BY <1>1, <1>2
  <2>2. x.paths \in Seq(Seq(Handles))
    <3>1. PICK H : H = Handles \ {PadHandle} OBVIOUS
    <3>2. x.paths \in Seq(Seq(H)) BY <2>1, <3>1 DEF Sample
    <3>3. Seq(H) \subseteq Seq(Handles)
      <4> SUFFICES ASSUME NEW s \in Seq(H) PROVE s \in Seq(Handles) OBVIOUS
      <4>1. \A k \in 1..Len(s) : s[k] \in H OBVIOUS
      <4>2. \A k \in 1..Len(s) : s[k] \in Handles BY <3>1, <4>1
      <4> QED BY <4>2
    <3>4. Seq(Seq(H)) \subseteq Seq(Seq(Handles)) BY <3>3
    <3> QED BY <3>2, <3>4
  <2>3. x.traj \in Int /\ x.len \in Nat BY <2>1 DEF Sample
  <2>4. t[i] = [index |-> i - 1, traj |-> x.traj, len |-> x.len, paths |-> x.paths]
    BY <1>4, <2>1
  <2>5. CASE cfg.r3
    <3>1. rows = t BY <1>3, <2>5 DEF WithRouting
    <3> QED BY <1>4, <2>2, <2>3, <2>4, <3>1 DEF AnyRow
  <2>6. CASE ~cfg.r3
    <3>1. rows = [j \in 1..n |-> [t[j] EXCEPT !.paths = <<>>]] BY <1>3, <1>4, <2>6 DEF WithRouting
    <3>2. rows[i] = [index |-> i - 1, traj |-> x.traj, len |-> x.len, paths |-> <<>>] BY <2>4, <3>1
    <3>3. PICK e \in Seq(Seq(Handles)) : e = <<>> BY <1>5
    <3>4. rows[i] = [index |-> i - 1, traj |-> x.traj, len |-> x.len, paths |-> e] BY <3>2, <3>3
    <3> QED BY <2>3, <3>1, <3>4 DEF AnyRow
  <2> QED BY <2>5, <2>6
<1>7. DOMAIN rows = 1..n
  <2>1. CASE cfg.r3 BY <1>3, <1>4, <2>1 DEF WithRouting
  <2>2. CASE ~cfg.r3 BY <1>3, <1>4, <2>2 DEF WithRouting
  <2> QED BY <2>1, <2>2
<1>8. ToSet(rows) \subseteq AnyRow BY <1>6, <1>7 DEF ToSet
<1>9. ASSUME NEW s PROVE PadOf(s, PaddingLength, PadHandle) \in AnyRow
  <2>1. PadHandle \in Handles BY SampleAssumption
  <2>2. PICK q : q = IF HasHandles(s) THEN <<<<PadHandle>>>> ELSE <<>> OBVIOUS
  <2>3. q \in Seq(Seq(Handles))
    <3>1. <<PadHandle>> \in Seq(Handles) BY <2>1
    <3>2. <<<<PadHandle>>>> \in Seq(Seq(Handles)) BY <3>1
    <3> QED BY <1>5, <2>2, <3>2
  <2>4. PaddingLength \in Nat BY MegatronAssumption
  <2>5. PadOf(s, PaddingLength, PadHandle) = [index |-> -1, traj |-> -1, len |-> PaddingLength, paths |-> q]
    BY <2>2 DEF PadOf, Padding
  <2> QED BY <2>3, <2>4, <2>5 DEF AnyRow
<1> QED BY <1>8, <1>9

\* A call begins: as many batches for each rank, none of them trained.
LEMMA RepStartCall ==
    ASSUME LogInv, RepInv, NEW kind \in Kinds, NEW samples \in SampleSets, StartCall(kind, samples)
    PROVE  RepInv'
<1>1. PICK rows : rows = WithRouting(Tensorize(samples)) OBVIOUS
<1>2. /\ Groupable(Trajectories(rows)) /\ trained' = {}
      /\ call' = [kind |-> kind, rows |-> rows, step |-> global_step]
      /\ pc' = [r \in Ranks |-> "begin"]
      /\ pass' = [r \in Ranks |-> 1] /\ batch' = [r \in Ranks |-> 1]
      /\ cfg' = cfg /\ snapshot' = snapshot
  BY <1>1 DEF StartCall, spikes
<1>3. PICK shuffle, perms :
          /\ perms \in Shuffles(PaddedSizes(rows, cfg.gbs, cfg.dp), shuffle)
          /\ batches' = SplitSamplesForDp(rows, perms)
  BY <1>1 DEF StartCall
<1>4. Ranks' = Ranks BY <1>2 DEF Ranks
<1>5. /\ cfg \in Configs /\ cfg.dp \in Nat \ {0} /\ cfg.gbs \in Nat \ {0}
      /\ \A r \in Ranks : r \in 0..(cfg.dp - 1)
  <2>1. cfg \in Configs BY DEF LogInv
  <2>2. {cfg.dp, cfg.gbs} \subseteq Nat \ {0} BY <2>1, MegatronAssumption
  <2> QED BY <2>1, <2>2 DEF Ranks
<1>6. PICK W : W = ToSet(rows) OBVIOUS
<1>7. rows \in Seq(W) /\ rows # <<>> /\ \A w \in W : w.traj \in Nat \cup {-1}
  BY <1>1, <1>5, <1>6, CallRows
<1>8. PICK V : V = AnyRow OBVIOUS
<1>9. W \subseteq V /\ \A s : PadOf(s, PaddingLength, PadHandle) \in V
  BY <1>1, <1>6, <1>8, CallAnyRows
<1>10. ASSUME NEW r \in Ranks PROVE batches'[r] \in Seq(Seq(V)) /\ batches'[r] # <<>>
  <2>1. PICK dealt : dealt = GlobalBatchesForDpRank(rows, cfg.gbs, cfg.dp, r, perms,
                                                    PaddingLength, PadHandle)
    OBVIOUS
  <2>2. PICK dp \in Nat \ {0} : dp = cfg.dp BY <1>5
  <2>3. PICK gbs \in Nat \ {0} : gbs = cfg.gbs BY <1>5
  <2>4. r \in 0..(dp - 1) BY <1>5, <2>2
  <2>5. perms \in Shuffles(PaddedSizes(rows, gbs, dp), shuffle) BY <1>3, <2>2, <2>3
  <2>6. dealt = GlobalBatchesForDpRank(rows, gbs, dp, r, perms, PaddingLength, PadHandle)
    BY <2>1, <2>2, <2>3
  <2>7. \A s \in Seq(W) : /\ PadToDpMultiple(s, dp, PaddingLength, PadHandle) \in Seq(V)
                          /\ Len(PadToDpMultiple(s, dp, PaddingLength, PadHandle)) = RoundedUp(Len(s), dp)
    <3> SUFFICES ASSUME NEW s \in Seq(W)
                 PROVE  /\ PadToDpMultiple(s, dp, PaddingLength, PadHandle) \in Seq(V)
                        /\ Len(PadToDpMultiple(s, dp, PaddingLength, PadHandle)) = RoundedUp(Len(s), dp)
      OBVIOUS
    <3>1. W \subseteq V /\ PadOf(s, PaddingLength, PadHandle) \in V BY <1>9
    <3> QED BY ONLY dp \in Nat \ {0}, s \in Seq(W), <3>1, PaddedList
  <2>8. dealt \in Seq(Seq(V)) /\ dealt # <<>>
    <3>1. Groupable(Trajectories(rows)) BY <1>2
    <3> QED BY ONLY gbs \in Nat \ {0}, dp \in Nat \ {0}, <1>7, <2>4, <2>5, <2>6, <2>7, <3>1, DealtLists
  <2>9. batches'[r] = dealt BY <1>3, <2>1 DEF SplitSamplesForDp
  <2> QED BY <2>8, <2>9
<1>11. PICK D : \A r \in Ranks : DOMAIN batches'[r] = D
  <2>1. PICK grouped : grouped = GroupRowIndicesByGlobalBatch(Trajectories(rows), cfg.gbs) OBVIOUS
  <2>2. \A r \in Ranks : DOMAIN batches'[r] = DOMAIN grouped
    BY <1>3, <2>1 DEF SplitSamplesForDp, GlobalBatchesForDpRank
  <2> QED BY <2>2
<1>12. ASSUME NEW r \in Ranks
       PROVE DOMAIN batches'[r] = 1..Len(batches'[r]) /\ Len(batches'[r]) \in Nat \ {0}
  <2>1. PICK L : L = Seq(V) OBVIOUS
  <2>2. PICK s \in Seq(L) : s = batches'[r] /\ s # <<>> BY <1>10, <2>1
  <2>3. DOMAIN s = 1..Len(s) /\ Len(s) \in Nat \ {0} BY ONLY s \in Seq(L), <2>2
  <2> QED BY <2>2, <2>3
<1>13. ASSUME NEW r \in Ranks, NEW s \in Ranks PROVE Len(batches'[s]) = Len(batches'[r])
  <2>1. PICK a \in Nat \ {0} : a = Len(batches'[r]) BY <1>12
  <2>2. PICK b \in Nat \ {0} : b = Len(batches'[s]) BY <1>12
  <2>3. 1..a = 1..b BY <1>11, <1>12, <2>1, <2>2
  <2>4. a \in 1..b /\ b \in 1..a BY <2>3
  <2>5. a <= b /\ b <= a BY <2>4
  <2> QED BY <2>1, <2>2, <2>5
<1>14. SavedExact' BY <1>2, SavedFrame DEF RepInv
<1>15. kind # "reproduce" /\ call'.kind = kind BY <1>2 DEF Kinds
<1>16. ASSUME NEW r \in Ranks PROVE RepRank(r)' /\ NextSplit(r)' = <<1, 1>>
  <2>1. pc'[r] = "begin" /\ pass'[r] = 1 /\ batch'[r] = 1 BY <1>2
  <2>2. DealtKept(r)' BY <1>4, <1>8, <1>10, <1>12, <1>13, <2>1 DEF DealtKept
  <2>3. Fresh(r)' BY <1>2 DEF Fresh
  <2>4. ~InTraining(r)' BY <2>1 DEF InTraining
  <2>5. NextSplit(r)' = <<1, 1>> BY <2>1 DEF NextSplit
  <2> QED BY <1>15, <2>2, <2>3, <2>4, <2>5 DEF RepRank
<1>17. Lockstep' BY <1>4, <1>16 DEF Lockstep
<1>18. DOMAIN batches' = Ranks BY <1>3 DEF SplitSamplesForDp
<1> QED BY <1>4, <1>14, <1>16, <1>17, <1>18 DEF RepInv

\* The end of a call.
LEMMA RepEndCall ==
    ASSUME RepInv, EndCall
    PROVE  RepInv'
<1>1. /\ call' = NoCall /\ batches' = [r \in Ranks |-> <<>>] /\ cfg' = cfg /\ snapshot' = snapshot
  BY DEF EndCall, spikes
<1>2. Ranks' = Ranks /\ call'.kind = "none" BY <1>1 DEF Ranks, NoCall
<1>3. SavedExact' BY <1>1, SavedFrame DEF RepInv
<1> QED BY <1>1, <1>2, <1>3 DEF RepInv

\* reproduce_spike: the rows, logprobs and weights of the snapshot.
LEMMA RepReproduceSpike ==
    ASSUME RepInv, ReproduceSpike
    PROVE  RepInv'
<1>1. /\ snapshot # NoSnapshot /\ call'.kind = "reproduce" /\ trained' = {}
      /\ batches' = [r \in Ranks |-> <<RestoredRows(snapshot.rows[r])>>]
      /\ logprobs' = snapshot.logprobs /\ weights' = [r \in Ranks |-> snapshot.weights]
      /\ pass' = [r \in Ranks |-> 1] /\ batch' = [r \in Ranks |-> 1]
      /\ pc' = [r \in Ranks |-> "split"] /\ cfg' = cfg /\ snapshot' = snapshot
  BY DEF ReproduceSpike, spikes
<1>2. Ranks' = Ranks BY <1>1 DEF Ranks
<1>3. SavedExact' BY <1>1, SavedFrame DEF RepInv
<1>4. ASSUME NEW r \in Ranks PROVE RepRank(r)' /\ NextSplit(r)' = <<1, 1>>
  <2>1. pc'[r] = "split" /\ pass'[r] = 1 /\ batch'[r] = 1 /\ weights'[r] = snapshot.weights BY <1>1
  <2>2. \A s \in Ranks : batches'[s] = <<RestoredRows(snapshot.rows[s])>> BY <1>1
  <2>3. \A s \in Ranks : Len(batches'[s]) = 1 BY <2>2
  <2>4. DOMAIN batches'[r] = 1..1 BY <2>2
  <2>5. DealtKept(r)' BY <1>1, <1>2, <2>1, <2>3, <2>4 DEF DealtKept
  <2>6. Fresh(r)' BY <1>1 DEF Fresh
  <2>7. ~InTraining(r)' BY <2>1 DEF InTraining
  <2>8. Replaying(r)' BY <1>1, <2>1, <2>2 DEF Replaying
  <2>9. NextSplit(r)' = <<1, 1>> BY <2>1 DEF NextSplit
  <2> QED BY <2>5, <2>6, <2>7, <2>8, <2>9 DEF RepRank
<1>5. Lockstep' BY <1>2, <1>4 DEF Lockstep
<1> QED BY <1>1, <1>2, <1>3, <1>4, <1>5 DEF RepInv

\* The invariant holds in every state.
LEMMA RepNext == LogInv /\ WorkerInv' /\ RepInv /\ [Next]_vars => RepInv'
<1> SUFFICES ASSUME LogInv, WorkerInv', RepInv, [Next]_vars PROVE RepInv' OBVIOUS
<1>1. ASSUME NEW kind \in Kinds, NEW samples \in SampleSets, StartCall(kind, samples)
      PROVE  RepInv'
  BY <1>1, RepStartCall
<1>2. ASSUME NEW r \in Ranks, WorkerStep(r) PROVE RepInv'
  <2>1. CASE BeginCall(r) BY <2>1, RepBeginCall
  <2>2. CASE BeginPass(r) BY <2>2, RepBeginPass
  <2>3. CASE SplitStatic(r) BY <2>3, RepSplitStatic
  <2>4. CASE EndBatch(r) BY <2>4, RepEndBatch
  <2>5. CASE Gather(r) BY <2>5, RepGather
  <2>6. ASSUME NEW i \in DOMAIN micro[r], FetchRouting(r, i) PROVE RepInv'
    BY <2>6, RepFetchRouting
  <2> QED BY <1>2, <2>1, <2>2, <2>3, <2>4, <2>5, <2>6 DEF WorkerStep
<1>3. CASE Compute BY <1>3, RepForward, RepBackward DEF Compute
<1>4. CASE Collective BY <1>4, RepSplitDynamic, RepUpdate DEF Collective
<1>5. CASE UNCHANGED vars
  <2>1. UNCHANGED <<cfg, call, batches, snapshot, trained, pc, pass, batch, micro, fwd, bwd,
                    weights, logprobs>>
    BY <1>5 DEF vars, driver, model, spikes
  <2>2. SavedExact' BY <2>1, SavedFrame DEF RepInv
  <2>3. ASSUME call.kind # "none", NEW r \in Ranks PROVE RepRank(r)' /\ NextSplit(r)' = NextSplit(r)
    <3>1. RepRank(r) BY <2>3 DEF RepInv
    <3>2. RepState(r)' = RepState(r) BY <2>1 DEF RepState
    <3> QED BY <2>1, <3>1, <3>2, RepRankFrame
  <2>4. \A r \in Ranks : pc'[r] = pc[r] BY <2>1
  <2> QED BY <2>1, <2>2, <2>3, <2>4, RepWithin
<1> QED BY <1>1, <1>2, <1>3, <1>4, <1>5, RepReproduceSpike, RepEndCall DEF Next

\* When a replay is over, each rank has done what the snapshot says it did.
LEMMA RepDone == RepInv => SpikeReplays
<1> SUFFICES ASSUME RepInv, call.kind = "reproduce", Everyone("done"), NEW r \in Ranks
             PROVE  Did(r, 1) = snapshot.did[r]
  BY DEF SpikeReplays
<1>1. \A s \in Ranks : RepRank(s) /\ pc[s] = "done" /\ Replaying(s)
  BY DEF RepInv, RepRank, Everyone
<1>2. Exact(r) BY <1>1 DEF RepRank, InTraining
<1>3. PICK rows : rows = snapshot.rows OBVIOUS
<1>4. PICK again : again = [s \in Ranks |-> RestoredRows(rows[s])] OBVIOUS
<1>5. Together(r) = again
  <2>1. \A s \in Ranks : batches[s] = <<again[s]>> /\ batch[r] = 1
    BY <1>1, <1>3, <1>4 DEF Replaying
  <2>2. \A s \in Ranks : batches[s][batch[r]] = again[s] BY <2>1
  <2> QED BY <1>4, <2>2 DEF Together
<1>6. DOMAIN rows = Ranks /\ \A s \in Ranks : rows[s] \in Seq(AnyRow)
  BY <1>1, <1>3 DEF RepInv, SavedExact, Replaying
<1>7. PICK g : g = snapshot.logprobs[r] /\ g = logprobs[r] BY <1>1 DEF Replaying
<1>8. PICK w : w = snapshot.weights /\ w = weights[r] BY <1>1 DEF Replaying
<1>9. PICK m : m = SplitOf(cfg, rows, r) OBVIOUS
<1>10. PICK n : n = SplitOf(cfg, again, r) OBVIOUS
<1>11. SplitChecked(cfg, again, r) /\ n = micro[r] BY <1>2, <1>5, <1>10 DEF Exact
<1>12. DOMAIN n = DOMAIN m /\ Len(n) = Len(m) /\ Alike(m, n)
  <2>1. PICK D : D = Ranks OBVIOUS
  <2>2. r \in D /\ DOMAIN rows = D /\ DOMAIN again = D BY <1>4, <1>6, <2>1
  <2>3. \A s \in D : rows[s] \in Seq(AnyRow) /\ again[s] = RestoredRows(rows[s])
    BY <1>4, <1>6, <2>1
  <2>4. PICK c : c = cfg OBVIOUS
  <2>5. SplitChecked(c, again, r) /\ m = SplitOf(c, rows, r) /\ n = SplitOf(c, again, r)
    BY <1>9, <1>10, <1>11, <2>4
  <2> QED BY ONLY <2>2, <2>3, <2>5, SameSplit
<1>13. PICK k \in Nat : k = Len(n) /\ DOMAIN n = 1..k BY <1>2, <1>11 DEF Exact
<1>14. Did(r, 1) = DidOf(cfg, n, k, g, w)
  <2>1. batch[r] = 1 /\ bwd[r] = Len(micro[r]) BY <1>1, <1>2 DEF Replaying, Exact
  <2> QED BY <1>2, <1>7, <1>8, <1>11, <1>13, <2>1 DEF Exact
<1>15. snapshot.did[r] = DidOf(cfg, m, k, g, w)
  BY <1>1, <1>3, <1>7, <1>8, <1>9, <1>12, <1>13 DEF RepInv, SavedExact, Replaying
<1>16. DidOf(cfg, n, k, g, w) = DidOf(cfg, m, k, g, w)
  <2>1. \A i \in 1..k : /\ DOMAIN n[i] = DOMAIN m[i]
                        /\ \A j \in DOMAIN m[i] :
                              /\ n[i][j].index = m[i][j].index
                              /\ Recorded(n[i][j].paths) = Recorded(m[i][j].paths)
    BY <1>12, <1>13 DEF Alike
  <2> QED BY ONLY k \in Nat, <2>1, SameDeeds
<1> QED BY <1>14, <1>15, <1>16

\* The replay of a spike does on every rank what the spiking step did: the same
\* rows in the same micro-batches, under the weights, logprobs and routing of that
\* step, whatever was trained and freed in between, which is what reproduce_spike
\* promises.
THEOREM WorkerSpikeReplays == Spec => []SpikeReplays
<1>1. Init => WorkerInv /\ LogInv /\ RepInv BY InitKept, LogInit, RepInit
<1>2. WorkerInv /\ LogInv /\ RepInv /\ [Next]_vars => (WorkerInv /\ LogInv /\ RepInv)'
  BY NextKept, LogNext, RepNext
<1>3. WorkerInv /\ LogInv /\ RepInv => SpikeReplays BY RepDone
<1> QED BY <1>1, <1>2, <1>3, PTL DEF Spec
==============================================================================
