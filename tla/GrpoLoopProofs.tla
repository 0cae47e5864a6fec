--------------------------- MODULE GrpoLoopProofs ---------------------------
(* Proofs about the GRPO controller, for every batch size, group size, model  *)
(* sync interval and limit on concurrent rollouts: what is trained on is one  *)
(* model sync of packed groups with their routing, the tensor store holds     *)
(* nothing else, and how old a trained group can be.                          *)
EXTENDS GrpoLoop, FiniteSetTheorems, TLAPS

---------------------------------------------------------------------------
(* The inductive invariant. *)

TaskStates == {"pending", "generating", "verifying", "returned", "raised", "merged"}
Pcs == {"start", "load", "first_sync", "first_updates", "report", "eval", "sample", "fill",
        "wait", "process", "exhausted", "collect", "train", "weight_sync", "crashed", "shutdown"}
Version == Nat \cup {NoVersion}

Types ==
    /\ pc \in Pcs /\ strict \in BOOLEAN /\ (strict => BatchGroups = SyncGroups)
    /\ global_step \in Nat /\ served \in Version /\ evaluating \in BOOLEAN
    /\ task \in [Requests -> TaskStates]
    /\ done_tasks \subseteq Requests
    /\ group \in [Groups -> [id : Nat, version : Version]]
    /\ generated \in Nat
    /\ valid \subseteq [id : Nat, version : Version, pack : {"running", "packed", "failed"}]
    /\ IsFiniteSet(valid)

\* The stream is open in these places of the controller; outside them, and when a run
\* has not stopped, every task of the last stream has been read.
Streaming == pc \in {"fill", "wait", "process", "collect", "train", "weight_sync"}
Between == pc \in {"start", "load", "first_sync", "first_updates", "report", "eval", "sample",
                   "exhausted"}
GroupDone(g) == \A r \in Items(g) : task[r] = "merged"
Settled ==
    /\ Between => \A r \in Requests : task[r] = "merged"
    /\ pc \in {"start", "load", "first_sync", "first_updates", "report"} => valid = {}

\* Ids tell groups apart, so deleting the tensors of some takes none from others.
OwnIds ==
    /\ \A v, w \in valid : v.id = w.id => v = w
    /\ Streaming /\ ~evaluating =>
         /\ \A g, h \in Groups : group[g].id = group[h].id => g = h
         /\ \A g \in Groups : ~GroupDone(g) => group[g].id \notin Ids(valid)

\* How many groups are held, and which of the stream have been generated.
Held ==
    /\ Streaming /\ ~evaluating => generated = Cardinality({g \in Groups : GroupDone(g)})
    /\ ~strict /\ pc \notin {"collect", "train"} /\ ~Stopped => Cardinality(valid) < SyncGroups
    /\ pc = "collect" => Cardinality(valid) >= SyncGroups
    /\ pc = "train" => Cardinality(valid) = SyncGroups /\ \A v \in valid : v.pack = "packed"
    /\ pc = "weight_sync" => valid = {}
    /\ pc \in {"collect", "train", "weight_sync"} =>
         ~evaluating /\ (strict => generated >= BatchGroups)

\* How many model syncs a group may have seen since it began: each took SyncGroups
\* groups, of those left over by the stream before (fewer than SyncGroups) and those
\* generated since.
Aged(b, budget) ==
    /\ b \in Nat /\ served \in Nat
    /\ \E n \in Nat : served = b + n * SyncEvery /\ n * SyncGroups <= budget
Used == IF pc = "weight_sync" THEN SyncGroups ELSE Cardinality(valid)
Budget == IF strict THEN 0 ELSE SyncGroups - 1 + generated - Used
Allowed == IF strict THEN 0 ELSE BatchGroups + SyncGroups - 2

Versions ==
    /\ pc \in {"eval", "sample", "exhausted"} \/ (Streaming /\ pc # "weight_sync") =>
         served = global_step
    /\ pc = "weight_sync" => served \in Nat /\ global_step = served + SyncEvery
    /\ Streaming => \A r \in Requests : task[r] \notin {"pending", "merged"} =>
                      group[GroupOf(r)].version # NoVersion
    /\ Streaming /\ ~evaluating => \A g \in Groups :
         ~GroupDone(g) /\ group[g].version # NoVersion => Aged(group[g].version, Budget)
    /\ \A v \in valid : Aged(v.version, Allowed)

GrpoInv == Types /\ Settled /\ OwnIds /\ Held /\ Versions /\ StoreExact

---------------------------------------------------------------------------
(* Groups of a batch, and fresh ids for them. *)

\* Every request is of one group of the batch, and every group has a request.
LEMMA RequestGroups ==
    /\ \A r \in Requests : GroupOf(r) \in Groups
    /\ \A g \in Groups : Items(g) # {}
<1>1. GroupSize \in Nat \ {0} /\ BatchGroups \in Nat \ {0}
  BY GrpoAssumption
<1>2. ASSUME NEW d \in Nat \ {0}, NEW n \in Nat \ {0}, NEW r \in 1..(n * d)
      PROVE  (r - 1) \div d + 1 \in 1..n
  <2>1. n * d \in Nat
    OBVIOUS
  <2>2. r - 1 \in Nat /\ r - 1 < n * d
    BY <2>1
  <2>3. \A a \in Nat : a \div d \in Nat /\ (a % d) \in 0..d - 1 /\ a = d * (a \div d) + (a % d)
    OBVIOUS
  <2>4. PICK q \in Nat : q = (r - 1) \div d
    BY <2>2, <2>3
  <2>5. d * q <= r - 1
    BY <2>2, <2>3, <2>4
  <2>6. CASE q >= n
    <3>1. d * q >= d * n
      BY <2>6
    <3>2. d * n = n * d
      OBVIOUS
    <3> QED BY <2>1, <2>2, <2>5, <3>1, <3>2
  <2>7. CASE q < n
    BY <2>4, <2>7
  <2> QED BY <2>6, <2>7
<1>3. ASSUME NEW d \in Nat \ {0}, NEW n \in Nat \ {0}, NEW g \in 1..n
      PROVE  \E r \in 1..(n * d) : (r - 1) \div d + 1 = g
  <2> DEFINE r == d * (g - 1) + 1
  <2>1. d * (g - 1) \in Nat /\ d * (g - 1) + d <= n * d
    <3>1. d * (g - 1) + d = d * g
      OBVIOUS
    <3>2. d * g <= d * n /\ d * n = n * d
      OBVIOUS
    <3> QED BY <3>1, <3>2
  <2>2. r \in 1..(n * d) /\ r - 1 = d * (g - 1)
    BY <2>1
  <2>3. (d * (g - 1)) \div d = g - 1
    <3>1. \A a \in Nat : a \div d \in Nat /\ (a % d) \in 0..d - 1 /\ a = d * (a \div d) + (a % d)
      OBVIOUS
    <3>2. PICK a \in Nat : a = d * (g - 1)
      BY <2>1
    <3>3. PICK q \in Nat, m \in 0..d - 1 : q = a \div d /\ a = d * q + m
      BY <3>1
    <3>4. d * (q - (g - 1)) = -m
      BY <3>2, <3>3
    <3>5. CASE q - (g - 1) >= 1
      <4>1. d * (q - (g - 1)) >= d * 1
        BY <3>5
      <4> QED BY <3>4, <4>1
    <3>6. CASE q - (g - 1) <= -1
      <4>1. d * (q - (g - 1)) <= d * (-1)
        BY <3>6
      <4> QED BY <3>4, <4>1
    <3>7. CASE q = g - 1
      BY <3>2, <3>3, <3>7
    <3> QED BY <3>3, <3>5, <3>6, <3>7
  <2>4. (r - 1) \div d + 1 = g
    BY <2>2, <2>3
  <2>5. r \in 1..(n * d)
    BY <2>2
  <2> HIDE DEF r
  <2> WITNESS r \in 1..(n * d)
  <2> QED BY <2>4
<1>4. \A r \in Requests : GroupOf(r) \in Groups
  BY <1>1, <1>2 DEF Requests, Groups, GroupOf
<1>5. \A g \in Groups : Items(g) # {}
  <2> SUFFICES ASSUME NEW g \in 1..BatchGroups PROVE Items(g) # {}
    BY DEF Groups
  <2>1. PICK r \in 1..(BatchGroups * GroupSize) : (r - 1) \div GroupSize + 1 = g
    BY <1>1, <1>3
  <2> QED BY <2>1 DEF Requests, GroupOf, Items
<1> QED BY <1>4, <1>5

\* In a finite set of naturals there is one with as many below it as one likes, up to
\* the size of the set: ranks tell its elements apart.
LEMMA RankExists ==
    ASSUME NEW S \in SUBSET Nat, IsFiniteSet(S), NEW n \in Nat, n < Cardinality(S)
    PROVE  \E i \in S : Cardinality({j \in S : j < i}) = n
<1> DEFINE below(i) == {j \in S : j < i}
           f == [i \in S |-> Cardinality(below(i))]
           m == Cardinality(S)
<1>1. m \in Nat \ {0}
  BY FS_CardinalityType
<1>2. ASSUME NEW i \in S, NEW k \in S, i < k
      PROVE  /\ Cardinality(below(i)) \in Nat /\ Cardinality(below(k)) \in Nat
             /\ Cardinality(below(i)) < Cardinality(below(k))
  <2>1. IsFiniteSet(below(i)) /\ IsFiniteSet(below(k))
    BY FS_Subset
  <2>2. below(i) \subseteq below(k) /\ i \in below(k) /\ i \notin below(i)
    <3>1. i \in Nat /\ k \in Nat /\ \A j \in S : j \in Nat
      OBVIOUS
    <3>2. \A j \in S : j < i => j < k
      BY <1>2, <3>1
    <3>3. ~(i < i)
      BY <3>1
    <3> QED BY <1>2, <3>2, <3>3
  <2> HIDE DEF below
  <2>3. /\ Cardinality(below(i)) \in Nat /\ Cardinality(below(k)) \in Nat
        /\ Cardinality(below(i)) <= Cardinality(below(k))
        /\ Cardinality(below(i)) # Cardinality(below(k))
    BY <2>1, <2>2, FS_Subset, FS_CardinalityType
  <2> QED BY <2>3
<1>3. ASSUME NEW i \in S PROVE Cardinality(below(i)) \in 0..(m - 1)
  <2>1. IsFiniteSet(below(i)) /\ below(i) \subseteq S /\ i \notin below(i)
    BY FS_Subset
  <2> HIDE DEF below
  <2>2. /\ Cardinality(below(i)) \in Nat /\ Cardinality(below(i)) <= m
        /\ Cardinality(below(i)) # m
    BY <2>1, FS_Subset, FS_CardinalityType
  <2> QED BY <1>1, <2>2
<1>4. f \in [S -> 0..(m - 1)]
  BY <1>3
<1>5. \A i, k \in S : f[i] = f[k] => i = k
  <2> SUFFICES ASSUME NEW i \in S, NEW k \in S, f[i] = f[k], i # k PROVE FALSE
    OBVIOUS
  <2>1. i < k \/ k < i
    OBVIOUS
  <2>2. i < k => f[i] < f[k]
    BY <1>2
  <2>3. k < i => f[k] < f[i]
    BY <1>2
  <2>4. f[i] \in Nat /\ f[k] \in Nat
    BY <1>1, <1>4
  <2> QED BY <2>1, <2>2, <2>3, <2>4
<1>6. f \in Injection(S, 0..(m - 1))
  BY <1>4, <1>5 DEF Injection, IsInjective
<1>7. IsFiniteSet(0..(m - 1)) /\ Cardinality(0..(m - 1)) = m
  <2>1. 0 \in Int /\ m - 1 \in Int /\ ~(0 > m - 1) /\ m - 1 - 0 + 1 = m
    BY <1>1
  <2> HIDE DEF m
  <2> QED BY <2>1, FS_Interval
<1>8. f \in Surjection(S, 0..(m - 1))
  <2> HIDE DEF f
  <2> QED BY <1>6, <1>7, FS_Injection
<1>9. n \in 0..(m - 1)
  BY <1>1
<1>10. PICK i \in S : f[i] = n
  BY <1>8, <1>9 DEF Surjection
<1> QED BY <1>10

\* A batch can be given fresh ids, one each.
LEMMA FreshIds ==
    ASSUME Cardinality(Fresh) >= BatchGroups
    PROVE  /\ \A g \in Groups : FirstFresh(g) \in Fresh /\ FirstFresh(g) \in Nat
           /\ \A g, h \in Groups : FirstFresh(g) = FirstFresh(h) => g = h
<1>1. IsFiniteSet(Fresh) /\ Fresh \in SUBSET Nat
  BY FS_Subset, GrpoAssumption DEF Fresh
<1>2. BatchGroups \in Nat /\ Cardinality(Fresh) \in Nat
  BY <1>1, FS_CardinalityType, GrpoAssumption
<1>3. ASSUME NEW g \in Groups
      PROVE  /\ FirstFresh(g) \in Fresh
             /\ Cardinality({j \in Fresh : j < FirstFresh(g)}) = g - 1
  <2>1. g - 1 \in Nat /\ g - 1 < Cardinality(Fresh)
    BY <1>2 DEF Groups
  <2>2. \E i \in Fresh : Cardinality({j \in Fresh : j < i}) = g - 1
    BY <1>1, <2>1, RankExists
  <2> QED BY <2>2 DEF FirstFresh
<1>4. ASSUME NEW g \in Groups, NEW h \in Groups, FirstFresh(g) = FirstFresh(h) PROVE g = h
  <2>1. g - 1 = h - 1
    BY <1>3, <1>4
  <2> QED BY <2>1 DEF Groups
<1> QED BY <1>1, <1>3, <1>4

\* The sizes.
LEMMA SizeFacts ==
    /\ BatchGroups \in Nat \ {0} /\ SyncGroups \in Nat \ {0} /\ SyncEvery \in Nat \ {0}
    /\ MaxConcurrent \in Nat \ {0} /\ GroupSize \in Nat \ {0, 1}
BY GrpoAssumption

\* The budgets are integers.
LEMMA BudgetFacts ==
    ASSUME Types
    PROVE  Cardinality(valid) \in Nat /\ Used \in Nat /\ Budget \in Int /\ Allowed \in Int
<1>1. Cardinality(valid) \in Nat
  BY FS_CardinalityType DEF Types
<1>2. Used \in Nat
  BY <1>1, SizeFacts DEF Used
<1>3. generated \in Nat /\ strict \in BOOLEAN
  BY DEF Types
<1> QED BY <1>1, <1>2, <1>3, SizeFacts DEF Budget, Allowed

\* A larger budget allows as much.
LEMMA MoreBudget ==
    ASSUME NEW b, NEW small \in Int, NEW large \in Int, small <= large, Aged(b, small)
    PROVE  Aged(b, large)
<1>1. PICK n \in Nat : served = b + n * SyncEvery /\ n * SyncGroups <= small
  BY DEF Aged
<1>2. n * SyncGroups \in Int
  BY SizeFacts
<1>3. n * SyncGroups <= large
  BY <1>1, <1>2
<1> QED BY <1>1, <1>3 DEF Aged

\* A group that begins now is not old at all.
LEMMA JustBegun ==
    ASSUME served \in Nat, NEW budget \in Int, 0 <= budget
    PROVE  Aged(served, budget)
<1>1. served = served + 0 * SyncEvery /\ 0 * SyncGroups <= budget
  BY SizeFacts
<1> QED BY <1>1 DEF Aged

\* When every group is generated, no task of the stream is left.
LEMMA AllGenerated ==
    ASSUME Types, Held, Streaming, ~evaluating, generated >= BatchGroups
    PROVE  \A g \in Groups : GroupDone(g)
<1> DEFINE done == {g \in Groups : GroupDone(g)}
<1>1. 1 \in Int /\ BatchGroups \in Int /\ ~(1 > BatchGroups) /\ BatchGroups - 1 + 1 = BatchGroups
  BY SizeFacts
<1>2. IsFiniteSet(Groups) /\ Cardinality(Groups) = BatchGroups
  BY <1>1, FS_Interval DEF Groups
<1>3. done \in SUBSET Groups /\ generated = Cardinality(done)
  BY DEF Held
<1> HIDE DEF done
<1>4. /\ Cardinality(done) <= BatchGroups /\ Cardinality(done) \in Nat
  BY <1>2, <1>3, FS_Subset, FS_CardinalityType
<1>5. done = Groups
  <2>1. Cardinality(done) = Cardinality(Groups)
    BY <1>1, <1>2, <1>3, <1>4
  <2> QED BY <1>2, <1>3, <2>1, FS_Subset
<1> QED BY <1>5 DEF done

\* Between streams nothing is in flight.
LEMMA NoneInFlight ==
    ASSUME Settled, Between
    PROVE  \A g \in Groups : GroupDone(g) /\ ~InFlight(g)
BY DEF Settled, InFlight, GroupDone, Items

---------------------------------------------------------------------------
(* Every step keeps the invariant: steps that move only the controller.     *)

\* A run that stops: what it leaves behind matters no more.
LEMMA Stopping ==
    ASSUME GrpoInv, pc' \in {"crashed", "shutdown"}, valid' \in {valid, {}},
           UNCHANGED <<strict, task, done_tasks, group, evaluating, generated, served>>,
           global_step' \in Nat
    PROVE  GrpoInv'
<1>0. Types /\ OwnIds /\ Versions
  BY DEF GrpoInv
<1>1. Types'
  BY <1>0, FS_EmptySet DEF Types, Pcs
<1>2. ~Streaming' /\ ~Between' /\ Stopped'
  BY DEF Streaming, Between, Stopped
<1>3. Settled' /\ StoreExact'
  BY <1>2 DEF Settled, StoreExact, Between
<1>4. OwnIds'
  BY <1>0, <1>2 DEF OwnIds
<1>5. Held'
  BY <1>2 DEF Held, Streaming, Stopped
<1>6. Versions'
  <2>1. \A b : Aged(b, Allowed) => Aged(b, Allowed)'
    BY DEF Aged, Allowed
  <2>2. \A v \in valid' : Aged(v.version, Allowed)'
    BY <1>0, <2>1 DEF Versions
  <2> QED BY <1>2, <2>2 DEF Versions, Streaming
<1> QED BY <1>1, <1>3, <1>4, <1>5, <1>6 DEF GrpoInv

\* Steps between two streams.
LEMMA BetweenStreams ==
    ASSUME GrpoInv, Between, Between',
           UNCHANGED <<strict, task, done_tasks, group, evaluating, generated, valid, store>>,
           global_step' \in Nat, served' \in Version,
           valid # {} => served' = served,
           pc' \in {"eval", "sample", "exhausted"} => served' = global_step',
           pc' \in {"start", "load", "first_sync", "first_updates", "report"} =>
               pc \in {"start", "load", "first_sync", "first_updates", "report"}
    PROVE  GrpoInv'
<1>0. Types /\ Settled /\ OwnIds /\ Held /\ Versions /\ StoreExact
  BY DEF GrpoInv
<1>1. /\ ~Streaming' /\ ~Streaming /\ ~Stopped /\ ~Stopped'
      /\ pc \notin {"collect", "train", "weight_sync"}
      /\ pc' \notin {"collect", "train", "weight_sync"}
  BY DEF Streaming, Between, Stopped
<1>2. Types'
  BY <1>0 DEF Types, Pcs, Between
<1>3. Settled'
  BY <1>0 DEF Settled
<1>4. OwnIds'
  BY <1>0, <1>1 DEF OwnIds
<1>5. Held'
  BY <1>0, <1>1 DEF Held
<1>6. Versions'
  <2>1. ASSUME NEW v \in valid' PROVE Aged(v.version, Allowed)'
    BY <1>0, <2>1 DEF Versions, Aged, Allowed
  <2> QED BY <1>1, <2>1 DEF Versions
<1>7. StoreExact'
  BY <1>0, <1>1 DEF StoreExact, InFlight
<1> QED BY <1>2, <1>3, <1>4, <1>5, <1>6, <1>7 DEF GrpoInv

\* asyncio.wait moves nothing but the controller.
LEMMA WaitStep ==
    ASSUME GrpoInv, Wait
    PROVE  GrpoInv'
<1>0. Types /\ Settled /\ OwnIds /\ Held /\ Versions /\ StoreExact
  BY DEF GrpoInv
<1>1. /\ pc = "wait" /\ pc' = "process"
      /\ UNCHANGED <<mode, strict, global_step, served, serving, prev_eval, task, group,
                     evaluating, generated, valid, store>>
      /\ done_tasks' \subseteq Active
  BY DEF Wait
<1>2. Types'
  <2>1. done_tasks' \subseteq Requests
    BY <1>1 DEF Active
  <2> QED BY <1>0, <1>1, <2>1 DEF Types, Pcs
<1>3. Settled'
  BY <1>1 DEF Settled, Between
<1>4. OwnIds'
  BY <1>0, <1>1 DEF OwnIds, Streaming, GroupDone
<1>5. Held'
  BY <1>0, <1>1 DEF Held, Streaming, GroupDone, Stopped
<1>6. Versions'
  BY <1>0, <1>1 DEF Versions, Streaming, GroupDone, Aged, Budget, Used, Allowed
<1>7. StoreExact'
  BY <1>0, <1>1 DEF StoreExact, InFlight, Stopped
<1> QED BY <1>2, <1>3, <1>4, <1>5, <1>6, <1>7 DEF GrpoInv

\* All of these steps.
LEMMA ControllerMoves ==
    ASSUME GrpoInv,
           \/ Initialize \/ TrainFromSnapshotRollouts \/ LoadCheckpointIfExisted \/ RunTrain
           \/ RunEvalOnly \/ RolloutForFirstUpdates \/ Wait \/ PackingRaises \/ ReportMismatch
           \/ EndBatch \/ EndEval \/ Shutdown \/ \E r \in Requests : ReadRaised(r)
    PROVE  GrpoInv'
<1>0. Types /\ Settled /\ Versions
  BY DEF GrpoInv
<1>1. global_step \in Nat /\ served \in Version /\ global_step + SyncEvery \in Nat
  BY <1>0, SizeFacts DEF Types
<1>2. CASE \/ TrainFromSnapshotRollouts \/ PackingRaises \/ ReportMismatch \/ Shutdown
           \/ \E r \in Requests : ReadRaised(r)
  <2>1. /\ pc' \in {"crashed", "shutdown"} /\ valid' \in {valid, {}}
        /\ UNCHANGED <<strict, task, done_tasks, group, evaluating, generated, served>>
        /\ global_step' \in Nat
    <3>1. SyncEvery \in Nat
      BY SizeFacts
    <3> QED BY <1>1, <1>2, <3>1 DEF TrainFromSnapshotRollouts, PackingRaises, ReportMismatch,
                                    Shutdown, ReadRaised, stream
  <2> QED BY <2>1, Stopping
<1>3. CASE \/ Initialize \/ LoadCheckpointIfExisted
  <2>1. /\ pc \in {"start", "load"} /\ pc' \in {"load", "first_sync", "first_updates"}
        /\ UNCHANGED <<strict, served, task, done_tasks, group, evaluating, generated, valid, store>>
        /\ global_step' \in Nat
    <3>1. \A n \in {0} \cup CheckpointSteps : n \in Nat
      BY GrpoAssumption
    <3>2. CASE Initialize
      BY <1>1, <3>2 DEF Initialize, stream
    <3>3. CASE LoadCheckpointIfExisted
      BY <3>1, <3>3 DEF LoadCheckpointIfExisted, stream
    <3> QED BY <1>3, <3>2, <3>3
  <2> QED BY <1>1, <2>1, BetweenStreams DEF Between
<1>4. CASE RunTrain \/ RunEvalOnly \/ RolloutForFirstUpdates
  <2>1. /\ pc \in {"first_sync", "first_updates"} /\ pc' \in {"eval", "sample", "report"}
        /\ UNCHANGED <<strict, global_step, task, done_tasks, group, evaluating, generated,
                       valid, store>>
        /\ served' \in {served, global_step}
        /\ pc' \in {"eval", "sample"} => served' = global_step
    BY <1>4 DEF RunTrain, RunEvalOnly, RolloutForFirstUpdates, stream
  <2>2. valid = {}
    BY <1>0, <2>1 DEF Settled
  <2>3. served' \in Version
    BY <1>1, <2>1 DEF Version
  <2> QED BY <1>1, <2>1, <2>2, <2>3, BetweenStreams DEF Between
<1>5. CASE EndBatch \/ EndEval
  <2>1. CASE pc' = "shutdown"
    <3>1. UNCHANGED <<strict, task, done_tasks, group, evaluating, generated, served, valid,
                      global_step>>
      BY <1>5 DEF EndBatch, EndEval, stream
    <3> QED BY <1>1, <2>1, <3>1, Stopping
  <2>2. CASE pc' # "shutdown"
    <3>1. /\ pc = "exhausted" /\ pc' \in {"eval", "sample"}
          /\ UNCHANGED <<strict, global_step, served, task, done_tasks, group, evaluating,
                         generated, valid, store>>
      BY <1>5, <2>2 DEF EndBatch, EndEval, stream
    <3>2. served = global_step
      BY <1>0, <3>1 DEF Versions
    <3> QED BY <1>1, <3>1, <3>2, BetweenStreams DEF Between
  <2> QED BY <2>1, <2>2
<1> QED BY <1>2, <1>3, <1>4, <1>5, WaitStep

---------------------------------------------------------------------------
(* The stream opens and starts its tasks.                                   *)

\* An evaluation: nothing of it is counted or stored.
LEMMA BeginEvalStep ==
    ASSUME GrpoInv, BeginEval
    PROVE  GrpoInv'
<1>0. Types /\ Settled /\ OwnIds /\ Held /\ Versions /\ StoreExact
  BY DEF GrpoInv
<1>1. /\ pc = "eval" /\ evaluating' = TRUE /\ pc' = "fill"
      /\ task' = [r \in Requests |-> "pending"] /\ done_tasks' = {}
      /\ group' = [g \in Groups |-> [id |-> 0, version |-> NoVersion]]
      /\ UNCHANGED <<strict, global_step, served, generated, valid, store>>
  BY DEF BeginEval, Opened
<1>2. Types'
  <2>1. task' \in [Requests -> TaskStates]
    BY <1>1 DEF TaskStates
  <2>2. group' \in [Groups -> [id : Nat, version : Version]]
    BY <1>1 DEF Version
  <2> QED BY <1>0, <1>1, <2>1, <2>2 DEF Types, Pcs
<1>3. Settled'
  BY <1>1 DEF Settled, Between
<1>4. OwnIds'
  BY <1>0, <1>1 DEF OwnIds
<1>5. Held'
  BY <1>0, <1>1 DEF Held, Stopped
<1>6. Versions'
  <2>1. \A v \in valid' : Aged(v.version, Allowed)'
    BY <1>0, <1>1 DEF Versions, Aged, Allowed
  <2>2. \A r \in Requests : task'[r] = "pending"
    BY <1>1
  <2>3. served' = global_step'
    BY <1>0, <1>1 DEF Versions
  <2> QED BY <1>1, <2>1, <2>2, <2>3 DEF Versions
<1>7. StoreExact'
  <2>1. {g \in Groups : InFlight(g)} = {}
    BY <1>0, <1>1, NoneInFlight DEF Between
  <2>2. {g \in Groups : InFlight(g)'} = {}
    BY <1>1 DEF InFlight
  <2>3. store = Ids(valid)
    BY <1>0, <1>1, <2>1 DEF StoreExact, Stopped
  <2>4. store' = Ids(valid') \cup {group'[g].id : g \in {h \in Groups : InFlight(h)'}}
    BY <1>1, <2>2, <2>3
  <2> QED BY <2>4 DEF StoreExact
<1> QED BY <1>2, <1>3, <1>4, <1>5, <1>6, <1>7 DEF GrpoInv

\* A batch: its groups get fresh ids, and nothing of it is generated or in flight.
LEMMA SampleGroupsStep ==
    ASSUME GrpoInv, SampleGroups
    PROVE  GrpoInv'
<1>0. Types /\ Settled /\ OwnIds /\ Held /\ Versions /\ StoreExact
  BY DEF GrpoInv
<1>1. /\ pc = "sample" /\ evaluating' = FALSE /\ pc' = "fill" /\ generated' = 0
      /\ task' = [r \in Requests |-> "pending"] /\ done_tasks' = {}
      /\ group' = [g \in Groups |-> [id |-> FirstFresh(g), version |-> NoVersion]]
      /\ UNCHANGED <<strict, global_step, served, valid, store>>
      /\ Cardinality(Fresh) >= BatchGroups
  BY DEF SampleGroups, Opened
<1>2. /\ \A g \in Groups : FirstFresh(g) \in Fresh /\ FirstFresh(g) \in Nat
      /\ \A g, h \in Groups : FirstFresh(g) = FirstFresh(h) => g = h
  BY <1>1, FreshIds
<1>3. \A g \in Groups : group'[g].id = FirstFresh(g) /\ group'[g].version = NoVersion
  BY <1>1
<1>4. Types'
  <2>1. task' \in [Requests -> TaskStates]
    BY <1>1 DEF TaskStates
  <2>2. group' \in [Groups -> [id : Nat, version : Version]]
    BY <1>1, <1>2 DEF Version
  <2> QED BY <1>0, <1>1, <2>1, <2>2 DEF Types, Pcs
<1>5. Settled'
  BY <1>1 DEF Settled, Between
<1>6. OwnIds'
  <2>1. \A g \in Groups : FirstFresh(g) \notin Ids(valid)
    BY <1>2 DEF Fresh
  <2> QED BY <1>0, <1>1, <1>2, <1>3, <2>1 DEF OwnIds
<1>7. \A g \in Groups : ~GroupDone(g)'
  <2>1. \A g \in Groups : \E r \in Items(g) : r \in Requests
    BY RequestGroups DEF Items
  <2> QED BY <1>1, <2>1 DEF GroupDone
<1>8. Held'
  <2>1. {g \in Groups : GroupDone(g)'} = {}
    BY <1>7
  <2>2. generated' = Cardinality({g \in Groups : GroupDone(g)'})
    BY <1>1, <2>1, FS_EmptySet
  <2> QED BY <1>0, <1>1, <2>2 DEF Held, Stopped
<1>9. Versions'
  <2>1. \A v \in valid' : Aged(v.version, Allowed)'
    BY <1>0, <1>1 DEF Versions, Aged, Allowed
  <2>2. \A r \in Requests : task'[r] = "pending"
    BY <1>1
  <2>3. served' = global_step'
    BY <1>0, <1>1 DEF Versions
  <2> QED BY <1>1, <1>3, <2>1, <2>2, <2>3 DEF Versions
<1>10. StoreExact'
  <2>1. {g \in Groups : InFlight(g)} = {}
    BY <1>0, <1>1, NoneInFlight DEF Between
  <2>2. {g \in Groups : InFlight(g)'} = {}
    BY <1>1 DEF InFlight, Items
  <2>3. store = Ids(valid)
    BY <1>0, <1>1, <2>1 DEF StoreExact, Stopped
  <2>4. store' = Ids(valid') \cup {group'[g].id : g \in {h \in Groups : InFlight(h)'}}
    BY <1>1, <2>2, <2>3
  <2> QED BY <2>4 DEF StoreExact
<1> QED BY <1>4, <1>5, <1>6, <1>8, <1>9, <1>10 DEF GrpoInv

\* Tasks start, and a group that begins is given the version the engines hold.
LEMMA FillSlotsStep ==
    ASSUME GrpoInv, FillSlots
    PROVE  GrpoInv'
<1>0. Types /\ Settled /\ OwnIds /\ Held /\ Versions /\ StoreExact
  BY DEF GrpoInv
<1>1. /\ pc = "fill" /\ pc' = "wait"
      /\ task' = [r \in Requests |-> IF r \in Started THEN "generating" ELSE task[r]]
      /\ group' = [g \in Groups |->
                     IF group[g].version = NoVersion /\ Started \cap Items(g) # {}
                       THEN [group[g] EXCEPT !.version = served] ELSE group[g]]
      /\ UNCHANGED <<strict, global_step, served, done_tasks, evaluating, generated, valid, store>>
  BY DEF FillSlots
<1>2. served = global_step /\ served \in Nat
  BY <1>0, <1>1 DEF Versions, Streaming, Types
<1>3. \A r \in Requests : /\ task'[r] = "merged" <=> task[r] = "merged"
                          /\ task'[r] \in {"pending", "generating"} <=> task[r] \in {"pending", "generating"}
  BY <1>0, <1>1 DEF Types, Started
<1>4. \A g \in Groups : GroupDone(g)' <=> GroupDone(g)
  BY <1>3 DEF GroupDone, Items
<1>5. \A g \in Groups :
        /\ group'[g].id = group[g].id
        /\ group'[g].version \in {group[g].version, served}
        /\ group'[g].version = group[g].version \/ group'[g].version = served
  BY <1>0, <1>1 DEF Types
<1>6. Types'
  <2>1. task' \in [Requests -> TaskStates]
    BY <1>0, <1>1 DEF TaskStates, Types
  <2>2. group' \in [Groups -> [id : Nat, version : Version]]
    <3>1. \A g \in Groups : [group[g] EXCEPT !.version = served] \in [id : Nat, version : Version]
      BY <1>0, <1>2 DEF Types, Version
    <3> QED BY <1>0, <1>1, <3>1 DEF Types
  <2> QED BY <1>0, <1>1, <2>1, <2>2 DEF Types, Pcs
<1>7. Settled'
  BY <1>1 DEF Settled, Between
<1>8. OwnIds'
  BY <1>0, <1>1, <1>4, <1>5 DEF OwnIds, Streaming
<1>9. Held'
  <2>1. {g \in Groups : GroupDone(g)'} = {g \in Groups : GroupDone(g)}
    BY <1>4
  <2> QED BY <1>0, <1>1, <2>1 DEF Held, Streaming, Stopped
<1>10. Versions'
  <2>1. Budget' = Budget /\ Allowed' = Allowed
    BY <1>1 DEF Budget, Used, Allowed
  <2>2. \A b : Aged(b, Budget)' <=> Aged(b, Budget)
    BY <1>1, <2>1 DEF Aged
  <2>3. Budget \in Int /\ 0 <= Budget
    <3>1. strict \/ Cardinality(valid) < SyncGroups
      BY <1>0, <1>1 DEF Held, Stopped
    <3> QED BY <1>0, <1>1, <3>1, BudgetFacts, SizeFacts DEF Budget, Used, Types
  <2>4. Aged(served, Budget)
    BY <1>2, <2>3, JustBegun
  <2>5. ~evaluating => \A g \in Groups :
          ~GroupDone(g)' /\ group'[g].version # NoVersion => Aged(group'[g].version, Budget)
    BY <1>0, <1>1, <1>4, <1>5, <2>4 DEF Versions, Streaming
  <2>6. ~evaluating' => \A g \in Groups :
          ~GroupDone(g)' /\ group'[g].version # NoVersion => Aged(group[g].version, Budget)'
    BY <1>1, <2>1, <2>5 DEF Aged
  <2>7. \A r \in Requests : task'[r] \notin {"pending", "merged"} =>
          group'[GroupOf(r)].version # NoVersion
    <3> SUFFICES ASSUME NEW r \in Requests, task'[r] \notin {"pending", "merged"}
                 PROVE  group'[GroupOf(r)].version # NoVersion
      OBVIOUS
    <3>1. GroupOf(r) \in Groups /\ r \in Items(GroupOf(r))
      BY RequestGroups DEF Items
    <3>2. CASE r \in Started
      <4>1. Started \cap Items(GroupOf(r)) # {}
        BY <3>1, <3>2
      <4>2. served # NoVersion
        BY <1>2 DEF NoVersion
      <4> QED BY <1>0, <1>1, <3>1, <4>1, <4>2 DEF Types
    <3>3. CASE r \notin Started
      <4>1. group[GroupOf(r)].version # NoVersion
        BY <1>0, <1>1, <3>3 DEF Versions, Streaming
      <4> QED BY <1>1, <3>1, <4>1
    <3> QED BY <3>2, <3>3
  <2>8. \A v \in valid' : Aged(v.version, Allowed)'
    BY <1>0, <1>1, <2>1 DEF Versions, Aged
  <2> QED BY <1>1, <1>2, <2>6, <2>7, <2>8 DEF Versions
<1>11. StoreExact'
  <2>1. \A g \in Groups : InFlight(g)' <=> InFlight(g)
    BY <1>1, <1>3 DEF InFlight, Items
  <2> QED BY <1>0, <1>1, <1>5, <2>1 DEF StoreExact, Stopped
<1> QED BY <1>6, <1>7, <1>8, <1>9, <1>10, <1>11 DEF GrpoInv

---------------------------------------------------------------------------
(* The tasks move.                                                          *)

\* A task that runs keeps its group unfinished; once it has generated, the group's
\* routing is in the store.
LEMMA TaskStep ==
    ASSUME GrpoInv, ~Stopped, NEW r \in Requests, Generate(r) \/ Verify(r)
    PROVE  GrpoInv'
<1>0. Types /\ Settled /\ OwnIds /\ Held /\ Versions /\ StoreExact
  BY DEF GrpoInv
<1>1. /\ UNCHANGED <<pc, strict, global_step, served, done_tasks, group, evaluating, generated,
                     valid>>
      /\ task[r] \in {"generating", "verifying"}
      /\ \E s \in {"verifying", "returned", "raised"} : task' = [task EXCEPT ![r] = s]
      /\ store' = IF task[r] = "generating" /\ ~evaluating
                     THEN store \cup {group[GroupOf(r)].id} ELSE store
  BY DEF Generate, Verify
<1>2. Streaming
  BY <1>0, <1>1 DEF Settled, Streaming, Between, Types, Pcs, Stopped
<1>3. /\ \A q \in Requests : q # r => task'[q] = task[q]
      /\ task'[r] \in {"verifying", "returned", "raised"}
      /\ task' \in [Requests -> TaskStates]
  BY <1>0, <1>1 DEF Types, TaskStates
<1>4. \A g \in Groups : GroupDone(g)' <=> GroupDone(g)
  BY <1>1, <1>3 DEF GroupDone, Items
<1>5. Types'
  BY <1>0, <1>1, <1>3 DEF Types
<1>6. Settled'
  BY <1>1, <1>2 DEF Settled, Between, Streaming
<1>7. OwnIds'
  BY <1>0, <1>1, <1>4 DEF OwnIds, Streaming
<1>8. Held'
  <2>1. {g \in Groups : GroupDone(g)'} = {g \in Groups : GroupDone(g)}
    BY <1>4
  <2> QED BY <1>0, <1>1, <2>1 DEF Held, Streaming, Stopped
<1>9. Versions'
  <2>1. Budget' = Budget /\ Allowed' = Allowed
    BY <1>1 DEF Budget, Used, Allowed
  <2>2. \A q \in Requests : task'[q] \notin {"pending", "merged"} =>
          group'[GroupOf(q)].version # NoVersion
    BY <1>0, <1>1, <1>2, <1>3 DEF Versions
  <2> QED BY <1>0, <1>1, <1>4, <2>1, <2>2 DEF Versions, Streaming, Aged
<1>10. StoreExact'
  <2>0. GroupOf(r) \in Groups /\ r \in Items(GroupOf(r))
    BY RequestGroups DEF Items
  <2>1. \A g \in Groups : g # GroupOf(r) => (InFlight(g)' <=> InFlight(g))
    BY <1>1, <1>3 DEF InFlight, Items
  <2>2. InFlight(GroupOf(r))' <=> ~evaluating
    BY <1>1, <1>3, <2>0 DEF InFlight
  <2>3. task[r] = "verifying" => (InFlight(GroupOf(r)) <=> ~evaluating)
    BY <2>0 DEF InFlight
  <2>4. store = Ids(valid) \cup {group[g].id : g \in {h \in Groups : InFlight(h)}}
    BY <1>0 DEF StoreExact
  <2>5. CASE evaluating \/ task[r] = "verifying"
    <3>1. \A g \in Groups : InFlight(g)' <=> InFlight(g)
      BY <2>1, <2>2, <2>3, <2>5 DEF InFlight
    <3> QED BY <1>1, <2>4, <2>5, <3>1 DEF StoreExact
  <2>6. CASE ~evaluating /\ task[r] = "generating"
    <3>1. {h \in Groups : InFlight(h)'} = {h \in Groups : InFlight(h)} \cup {GroupOf(r)}
      BY <2>0, <2>1, <2>2, <2>6
    <3>2. store' = store \cup {group[GroupOf(r)].id}
      BY <1>1, <2>6
    <3>3. store' = Ids(valid') \cup {group'[g].id : g \in {h \in Groups : InFlight(h)'}}
      BY <1>1, <2>4, <3>1, <3>2
    <3> QED BY <3>3 DEF StoreExact
  <2> QED BY <1>1, <2>5, <2>6
<1> QED BY <1>5, <1>6, <1>7, <1>8, <1>9, <1>10 DEF GrpoInv

\* Reading a result leads back to the loop, or out of it when nothing is left.
LEMMA AfterReadFacts ==
    ASSUME NEW left, NEW tasks
    PROVE  /\ AfterRead(left, tasks) \in {"exhausted", "fill", "process"}
           /\ AfterRead(left, tasks) = "exhausted" <=> \A r \in Requests : tasks[r] = "merged"
BY DEF AfterRead

\* A result that does not complete its group, or completes one of an evaluation.
LEMMA ReadResultStep ==
    ASSUME GrpoInv, NEW r \in Requests, ReadResult(r)
    PROVE  GrpoInv'
<1>0. Types /\ Settled /\ OwnIds /\ Held /\ Versions /\ StoreExact
  BY DEF GrpoInv
<1>1. /\ pc = "process" /\ task[r] = "returned" /\ task' = [task EXCEPT ![r] = "merged"]
      /\ done_tasks' = done_tasks \ {r}
      /\ evaluating \/ ~\A q \in Items(GroupOf(r)) : task'[q] = "merged"
      /\ pc' = AfterRead(done_tasks', task')
      /\ UNCHANGED <<strict, global_step, served, group, evaluating, generated, valid, store>>
  BY DEF ReadResult, Merged, Completes
<1>2. /\ pc' \in {"exhausted", "fill", "process"}
      /\ pc' = "exhausted" => \A q \in Requests : task'[q] = "merged"
  BY <1>1, AfterReadFacts
<1>3. /\ \A q \in Requests : q # r => task'[q] = task[q]
      /\ task'[r] = "merged" /\ task' \in [Requests -> TaskStates]
  BY <1>0, <1>1 DEF Types, TaskStates
<1>4. ~evaluating => \A g \in Groups : ~GroupDone(g)' <=> ~GroupDone(g)
  BY <1>1, <1>3 DEF GroupDone, Items
<1>5. Types'
  BY <1>0, <1>1, <1>2, <1>3 DEF Types, Pcs
<1>6. Settled'
  BY <1>2 DEF Settled, Between
<1>7. OwnIds'
  BY <1>0, <1>1, <1>4 DEF OwnIds, Streaming
<1>8. Held'
  <2>1. ~evaluating => {g \in Groups : GroupDone(g)'} = {g \in Groups : GroupDone(g)}
    BY <1>4
  <2> QED BY <1>0, <1>1, <1>2, <2>1 DEF Held, Streaming, Stopped
<1>9. Versions'
  <2>1. Budget' = Budget /\ Allowed' = Allowed
    BY <1>1, <1>2 DEF Budget, Used, Allowed
  <2>2. \A q \in Requests : task'[q] \notin {"pending", "merged"} =>
          group'[GroupOf(q)].version # NoVersion
    BY <1>0, <1>1, <1>3 DEF Versions, Streaming
  <2> QED BY <1>0, <1>1, <1>2, <1>4, <2>1, <2>2 DEF Versions, Streaming, Aged
<1>10. StoreExact'
  <2>1. \A g \in Groups : InFlight(g)' <=> InFlight(g)
    <3> SUFFICES ASSUME NEW g \in Groups, ~evaluating PROVE InFlight(g)' <=> InFlight(g)
      BY <1>1 DEF InFlight
    <3>1. CASE g = GroupOf(r)
      BY <1>1, <1>3, <3>1 DEF InFlight, Items
    <3>2. CASE g # GroupOf(r)
      BY <1>1, <1>3, <3>2 DEF InFlight, Items
    <3> QED BY <3>1, <3>2
  <2> QED BY <1>0, <1>1, <1>2, <2>1 DEF StoreExact, Stopped
<1> QED BY <1>5, <1>6, <1>7, <1>8, <1>9, <1>10 DEF GrpoInv

---------------------------------------------------------------------------
(* A completed group is filtered or kept.                                   *)

\* The result that completes a group: the group was in flight and old within the
\* budget, it alone becomes done, and fewer groups than the batch has were done before.
LEMMA ReadFacts ==
    ASSUME GrpoInv, NEW r \in Requests, Read(r), UNCHANGED <<group, evaluating>>
    PROVE  LET own == GroupOf(r)
           IN /\ pc = "process" /\ ~evaluating /\ own \in Groups /\ r \in Items(own)
              /\ task' \in [Requests -> TaskStates]
              /\ done_tasks' = done_tasks \ {r} /\ task' = Merged(r)
              /\ generated' = generated + 1 /\ generated < BatchGroups
              /\ generated' = Cardinality({g \in Groups : GroupDone(g)'})
              /\ InFlight(own) /\ ~InFlight(own)' /\ ~GroupDone(own) /\ GroupDone(own)'
              /\ \A g \in Groups : g # own =>
                   (GroupDone(g)' <=> GroupDone(g)) /\ (InFlight(g)' <=> InFlight(g))
              /\ \A q \in Requests : task'[q] \in {task[q], "merged"}
              /\ group[own].version # NoVersion /\ Aged(group[own].version, Budget)
<1> DEFINE own == GroupOf(r)
<1>0. Types /\ Settled /\ OwnIds /\ Held /\ Versions /\ StoreExact
  BY DEF GrpoInv
<1>1. /\ pc = "process" /\ task[r] = "returned" /\ task' = [task EXCEPT ![r] = "merged"]
      /\ ~evaluating /\ done_tasks' = done_tasks \ {r} /\ generated' = generated + 1
      /\ \A q \in Items(GroupOf(r)) : task'[q] = "merged"
      /\ task' = Merged(r)
  BY DEF Read, Merged, Completes
<1>2. own \in Groups /\ r \in Items(own)
  BY RequestGroups DEF Items
<1>3. /\ \A q \in Requests : q # r => task'[q] = task[q]
      /\ task'[r] = "merged" /\ task' \in [Requests -> TaskStates]
  BY <1>0, <1>1 DEF Types, TaskStates
<1>4. InFlight(own) /\ ~InFlight(own)' /\ ~GroupDone(own) /\ GroupDone(own)'
  BY <1>1, <1>2, <1>3 DEF InFlight, GroupDone
<1>5. \A g \in Groups : g # own =>
        (GroupDone(g)' <=> GroupDone(g)) /\ (InFlight(g)' <=> InFlight(g))
  BY <1>1, <1>3 DEF InFlight, GroupDone, Items
<1>6. generated < BatchGroups /\ generated' = Cardinality({g \in Groups : GroupDone(g)'})
  <2> DEFINE done == {g \in Groups : GroupDone(g)}
  <2>1. 1 \in Int /\ BatchGroups \in Int /\ ~(1 > BatchGroups) /\ BatchGroups - 1 + 1 = BatchGroups
    BY SizeFacts
  <2>2. IsFiniteSet(Groups) /\ Cardinality(Groups) = BatchGroups
    BY <2>1, FS_Interval DEF Groups
  <2>3. done \in SUBSET Groups /\ own \notin done /\ generated = Cardinality(done)
    BY <1>0, <1>1, <1>4 DEF Held, Streaming
  <2>4. {g \in Groups : GroupDone(g)'} = done \cup {own}
    BY <1>2, <1>4, <1>5
  <2> HIDE DEF done, own
  <2>5. IsFiniteSet(done) /\ Cardinality(done) <= BatchGroups /\ Cardinality(done) \in Nat
    BY <2>2, <2>3, FS_Subset, FS_CardinalityType
  <2>6. Cardinality(done) # BatchGroups
    BY <1>2, <2>2, <2>3, FS_Subset
  <2>7. Cardinality(done \cup {own}) = Cardinality(done) + 1
    BY <2>3, <2>5, FS_AddElement
  <2> QED BY <1>1, <2>1, <2>3, <2>4, <2>5, <2>6, <2>7
<1>7. group[own].version # NoVersion /\ Aged(group[own].version, Budget)
  BY <1>0, <1>1, <1>2, <1>4 DEF Versions, Streaming
<1>8. \A q \in Requests : task'[q] \in {task[q], "merged"}
  BY <1>3
<1> QED BY <1>1, <1>2, <1>3, <1>4, <1>5, <1>6, <1>7, <1>8

\* A filtered group leaves no routing behind, and takes no other group's with it.
LEMMA SkipGroupStep ==
    ASSUME GrpoInv, NEW r \in Requests, SkipGroup(r)
    PROVE  GrpoInv'
<1> DEFINE own == GroupOf(r)
<1>0. Types /\ Settled /\ OwnIds /\ Held /\ Versions /\ StoreExact
  BY DEF GrpoInv
<1>1. /\ Read(r) /\ pc' = AfterRead(done_tasks', task') /\ store' = store \ {group[own].id}
      /\ UNCHANGED <<strict, global_step, served, group, evaluating, valid>>
  BY DEF SkipGroup, Read, WithoutHandles
<1>2. /\ pc = "process" /\ ~evaluating /\ own \in Groups /\ r \in Items(own)
      /\ task' \in [Requests -> TaskStates]
      /\ done_tasks' = done_tasks \ {r} /\ task' = Merged(r)
      /\ generated' = generated + 1 /\ generated < BatchGroups
      /\ generated' = Cardinality({g \in Groups : GroupDone(g)'})
      /\ InFlight(own) /\ ~InFlight(own)' /\ ~GroupDone(own) /\ GroupDone(own)'
      /\ \A g \in Groups : g # own =>
           (GroupDone(g)' <=> GroupDone(g)) /\ (InFlight(g)' <=> InFlight(g))
      /\ \A q \in Requests : task'[q] \in {task[q], "merged"}
  BY <1>1, ReadFacts
<1>3. /\ pc' \in {"exhausted", "fill", "process"}
      /\ pc' = "exhausted" => \A q \in Requests : task'[q] = "merged"
  BY <1>1, AfterReadFacts
<1>4. Types'
  BY <1>0, <1>1, <1>2, <1>3 DEF Types, Pcs
<1>5. Settled'
  BY <1>3 DEF Settled, Between
<1>6. OwnIds'
  BY <1>0, <1>1, <1>2, <1>3 DEF OwnIds, Streaming
<1>7. Held'
  BY <1>0, <1>1, <1>2, <1>3 DEF Held, Streaming, Stopped
<1>8. Versions'
  <2>1. Budget \in Int /\ Budget' \in Int /\ Budget <= Budget'
    <3>1. Cardinality(valid) \in Nat /\ generated \in Nat
      BY <1>0, BudgetFacts DEF Types
    <3>2. Used = Cardinality(valid) /\ Used' = Cardinality(valid)
      BY <1>1, <1>2, <1>3 DEF Used
    <3> QED BY <1>1, <1>2, <3>1, <3>2, SizeFacts DEF Budget
  <2>2. \A b : Aged(b, Budget) => Aged(b, Budget')
    BY <2>1, MoreBudget
  <2>3. \A b : Aged(b, Budget') => Aged(b, Budget)'
    BY <1>1 DEF Aged
  <2>4. \A g \in Groups : ~GroupDone(g)' /\ group'[g].version # NoVersion
                            => Aged(group[g].version, Budget)'
    BY <1>0, <1>1, <1>2, <2>2, <2>3 DEF Versions, Streaming
  <2>5. \A q \in Requests : task'[q] \notin {"pending", "merged"} =>
          group'[GroupOf(q)].version # NoVersion
    BY <1>0, <1>1, <1>2 DEF Versions, Streaming
  <2>6. \A v \in valid' : Aged(v.version, Allowed)'
    BY <1>0, <1>1 DEF Versions, Aged, Allowed
  <2>7. served' = global_step'
    BY <1>0, <1>1, <1>2 DEF Versions, Streaming
  <2> QED BY <1>1, <1>3, <2>4, <2>5, <2>6, <2>7 DEF Versions
<1>9. StoreExact'
  <2>1. store = Ids(valid) \cup {group[g].id : g \in {h \in Groups : InFlight(h)}}
    BY <1>0, <1>2 DEF StoreExact, Stopped
  <2>2. group[own].id \notin Ids(valid)
    BY <1>0, <1>2 DEF OwnIds, Streaming
  <2>3. \A g \in Groups : g # own => group[g].id # group[own].id
    BY <1>0, <1>2 DEF OwnIds, Streaming
  <2>4. {h \in Groups : InFlight(h)'} = {h \in Groups : InFlight(h)} \ {own}
    BY <1>2
  <2>5. store' = Ids(valid') \cup {group'[g].id : g \in {h \in Groups : InFlight(h)'}}
    BY <1>1, <2>1, <2>2, <2>3, <2>4
  <2> QED BY <2>5 DEF StoreExact
<1> QED BY <1>4, <1>5, <1>6, <1>7, <1>8, <1>9 DEF GrpoInv

\* A group that passes joins the valid ones with its routing; the batch is collected
\* when a model sync's worth of groups is held.
LEMMA KeepGroupStep ==
    ASSUME GrpoInv, NEW r \in Requests, KeepGroup(r)
    PROVE  GrpoInv'
<1> DEFINE own == GroupOf(r)
           new == [id |-> group[own].id, version |-> group[own].version, pack |-> "running"]
<1>0. Types /\ Settled /\ OwnIds /\ Held /\ Versions /\ StoreExact
  BY DEF GrpoInv
<1>1. /\ Read(r) /\ valid' = valid \cup {new}
      /\ pc' = IF TrainsNow(Cardinality(valid'), generated')
                 THEN "collect" ELSE AfterRead(done_tasks', task')
      /\ UNCHANGED <<strict, global_step, served, group, evaluating, store>>
  BY DEF KeepGroup, Read
<1>2. /\ pc = "process" /\ ~evaluating /\ own \in Groups /\ r \in Items(own)
      /\ task' \in [Requests -> TaskStates]
      /\ done_tasks' = done_tasks \ {r} /\ task' = Merged(r)
      /\ generated' = generated + 1 /\ generated < BatchGroups
      /\ generated' = Cardinality({g \in Groups : GroupDone(g)'})
      /\ InFlight(own) /\ ~InFlight(own)' /\ ~GroupDone(own) /\ GroupDone(own)'
      /\ \A g \in Groups : g # own =>
           (GroupDone(g)' <=> GroupDone(g)) /\ (InFlight(g)' <=> InFlight(g))
      /\ \A q \in Requests : task'[q] \in {task[q], "merged"}
      /\ group[own].version # NoVersion /\ Aged(group[own].version, Budget)
  BY <1>1, ReadFacts
<1>3. /\ pc' \in {"exhausted", "fill", "process", "collect"}
      /\ pc' = "exhausted" => \A q \in Requests : task'[q] = "merged"
      /\ pc' = "collect" <=> TrainsNow(Cardinality(valid'), generated')
  BY <1>1, AfterReadFacts
<1>4. /\ new.id = group[own].id /\ new.version = group[own].version /\ new.pack = "running"
      /\ new.id \in Nat /\ new.version \in Version
      /\ new \in [id : Nat, version : Version, pack : {"running", "packed", "failed"}]
  BY <1>0, <1>2 DEF Types
<1>5. new.id \notin Ids(valid) /\ new \notin valid
  BY <1>0, <1>2, <1>4 DEF OwnIds, Streaming, Ids
<1> HIDE DEF new
<1>6. /\ IsFiniteSet(valid') /\ Cardinality(valid') = Cardinality(valid) + 1
      /\ Cardinality(valid) \in Nat /\ Cardinality(valid') \in Nat
  BY <1>0, <1>1, <1>5, FS_AddElement, FS_CardinalityType DEF Types
<1>7. Ids(valid') = Ids(valid) \cup {group[own].id}
  BY <1>1, <1>4 DEF Ids
<1>8. Types'
  BY <1>0, <1>1, <1>2, <1>3, <1>4, <1>6 DEF Types, Pcs
<1>9. Settled'
  BY <1>3 DEF Settled, Between
<1>10. OwnIds'
  <2>1. \A v, w \in valid' : v.id = w.id => v = w
    BY <1>0, <1>1, <1>4, <1>5 DEF OwnIds, Ids
  <2>2. \A g \in Groups : ~GroupDone(g)' => group[g].id \notin Ids(valid')
    BY <1>0, <1>2, <1>7 DEF OwnIds, Streaming
  <2> QED BY <1>0, <1>1, <1>2, <2>1, <2>2 DEF OwnIds, Streaming
<1>11. Held'
  <2>1. strict \in BOOLEAN /\ generated \in Nat
    BY <1>0 DEF Types
  <2>2. pc' # "collect" /\ ~strict => Cardinality(valid') < SyncGroups
    BY <1>3, <1>6, SizeFacts DEF TrainsNow
  <2>3. pc' = "collect" => Cardinality(valid') >= SyncGroups /\ (strict => generated' >= BatchGroups)
    BY <1>3 DEF TrainsNow
  <2> QED BY <1>1, <1>2, <1>3, <2>2, <2>3 DEF Held
<1>12. Versions'
  <2>1. /\ Budget \in Int /\ Budget' = Budget /\ Budget <= Allowed /\ Allowed \in Int
    <3>1. generated \in Nat /\ strict \in BOOLEAN
      BY <1>0 DEF Types
    <3>2. Used = Cardinality(valid) /\ Used' = Cardinality(valid')
      BY <1>2, <1>3 DEF Used
    <3> QED BY <1>1, <1>2, <1>6, <3>1, <3>2, SizeFacts DEF Budget, Allowed
  <2>2. \A b : Aged(b, Budget) => Aged(b, Budget)'
    BY <1>1, <2>1 DEF Aged
  <2>3. \A g \in Groups : ~GroupDone(g)' /\ group'[g].version # NoVersion
                            => Aged(group[g].version, Budget)'
    BY <1>0, <1>1, <1>2, <2>2 DEF Versions, Streaming
  <2>4. \A q \in Requests : task'[q] \notin {"pending", "merged"} =>
          group'[GroupOf(q)].version # NoVersion
    BY <1>0, <1>1, <1>2 DEF Versions, Streaming
  <2>5. Aged(new.version, Allowed)
    BY <1>2, <1>4, <2>1, MoreBudget
  <2>6. \A v \in valid' : Aged(v.version, Allowed)
    BY <1>0, <1>1, <2>5 DEF Versions
  <2>7. \A b : Aged(b, Allowed) => Aged(b, Allowed)'
    BY <1>1 DEF Aged, Allowed
  <2>8. served' = global_step'
    BY <1>0, <1>1, <1>2 DEF Versions, Streaming
  <2> QED BY <1>1, <1>3, <2>3, <2>4, <2>6, <2>7, <2>8 DEF Versions
<1>13. StoreExact'
  <2>1. store = Ids(valid) \cup {group[g].id : g \in {h \in Groups : InFlight(h)}}
    BY <1>0, <1>2 DEF StoreExact, Stopped
  <2>2. {h \in Groups : InFlight(h)} = {h \in Groups : InFlight(h)'} \cup {own}
    BY <1>2
  <2>3. store' = Ids(valid') \cup {group'[g].id : g \in {h \in Groups : InFlight(h)'}}
    BY <1>1, <1>7, <2>1, <2>2
  <2> QED BY <2>3 DEF StoreExact
<1> QED BY <1>8, <1>9, <1>10, <1>11, <1>12, <1>13 DEF GrpoInv

\* Packing changes a group's packing task and nothing else of the valid groups.
LEMMA PackStep ==
    ASSUME GrpoInv, ~Stopped, NEW v \in valid, Pack(v)
    PROVE  GrpoInv'
<1>0. Types /\ Settled /\ OwnIds /\ Held /\ Versions /\ StoreExact
  BY DEF GrpoInv
<1>1. PICK end \in {"packed", "failed"} : valid' = (valid \ {v}) \cup {[v EXCEPT !.pack = end]}
  BY DEF Pack
<1> DEFINE new == [v EXCEPT !.pack = end]
<1>2. /\ v.pack = "running"
      /\ UNCHANGED <<pc, strict, global_step, served, task, done_tasks, group, evaluating,
                     generated, store>>
  BY DEF Pack, stream
<1>3. /\ new.id = v.id /\ new.version = v.version
      /\ new \in [id : Nat, version : Version, pack : {"running", "packed", "failed"}]
  BY <1>0 DEF Types
<1>4. new \notin valid
  <2>1. new.pack # v.pack
    BY <1>0, <1>2 DEF Types
  <2> QED BY <1>0, <1>3, <2>1 DEF OwnIds
<1>5. valid' = (valid \ {v}) \cup {new}
  BY <1>1
<1> HIDE DEF new
<1>6. IsFiniteSet(valid') /\ Cardinality(valid') = Cardinality(valid)
  <2>1. /\ IsFiniteSet(valid \ {v}) /\ Cardinality(valid \ {v}) = Cardinality(valid) - 1
        /\ Cardinality(valid) \in Nat
    BY <1>0, FS_RemoveElement, FS_CardinalityType DEF Types
  <2>2. new \notin valid \ {v}
    BY <1>4
  <2>3. /\ IsFiniteSet((valid \ {v}) \cup {new})
        /\ Cardinality((valid \ {v}) \cup {new}) = Cardinality(valid \ {v}) + 1
    BY <2>1, <2>2, FS_AddElement
  <2> QED BY <1>5, <2>1, <2>3
<1>7. Ids(valid') = Ids(valid)
  BY <1>3, <1>5 DEF Ids
<1>8. pc # "train"
  BY <1>0, <1>2 DEF Held
<1>9. Types'
  BY <1>0, <1>2, <1>3, <1>5, <1>6 DEF Types
<1>10. Settled'
  BY <1>0, <1>2 DEF Settled, Between
<1>11. \A g \in Groups : GroupDone(g)' <=> GroupDone(g)
  BY <1>2 DEF GroupDone
<1>12. OwnIds'
  <2>1. \A w, u \in valid' : w.id = u.id => w = u
    BY <1>0, <1>3, <1>5 DEF OwnIds
  <2> QED BY <1>0, <1>2, <1>7, <1>11, <2>1 DEF OwnIds, Streaming
<1>13. Held'
  <2>1. {g \in Groups : GroupDone(g)'} = {g \in Groups : GroupDone(g)}
    BY <1>11
  <2>2. pc' # "weight_sync"
    BY <1>0, <1>2 DEF Held
  <2> QED BY <1>0, <1>2, <1>6, <1>8, <2>1, <2>2 DEF Held, Streaming, Stopped
<1>14. Versions'
  <2>1. Budget' = Budget /\ Allowed' = Allowed
    BY <1>2, <1>6 DEF Budget, Used, Allowed
  <2>2. \A b : /\ Aged(b, Budget) => Aged(b, Budget)'
               /\ Aged(b, Allowed) => Aged(b, Allowed)'
    BY <1>2, <2>1 DEF Aged
  <2>3. \A w \in valid' : Aged(w.version, Allowed)
    BY <1>0, <1>3, <1>5 DEF Versions
  <2>4. Streaming' /\ ~evaluating' => \A g \in Groups :
          ~GroupDone(g)' /\ group'[g].version # NoVersion => Aged(group'[g].version, Budget)
    BY <1>0, <1>2, <1>11 DEF Versions, Streaming
  <2> QED BY <1>0, <1>2, <2>2, <2>3, <2>4 DEF Versions, Streaming
<1>15. StoreExact'
  BY <1>0, <1>2, <1>7 DEF StoreExact, Stopped, InFlight
<1> QED BY <1>9, <1>10, <1>12, <1>13, <1>14, <1>15 DEF GrpoInv

---------------------------------------------------------------------------
(* Training, and what the stream is after it.                               *)

\* A group in flight is not done, so it is not among the valid ones.
LEMMA InFlightApart ==
    ASSUME OwnIds, Streaming, ~evaluating, NEW g \in Groups, InFlight(g)
    PROVE  group[g].id \notin Ids(valid)
BY DEF OwnIds, InFlight, GroupDone

\* The groups beyond a model sync are dropped with their routing, and only with theirs.
LEMMA YieldStep ==
    ASSUME GrpoInv, YieldRollouts
    PROVE  GrpoInv'
<1>0. Types /\ Settled /\ OwnIds /\ Held /\ Versions /\ StoreExact
  BY DEF GrpoInv
<1>1. PICK kept \in kSubset(SyncGroups, valid) :
        valid' = kept /\ store' = store \ Ids(valid \ kept)
  BY DEF YieldRollouts, WithoutHandles
<1>2. /\ pc = "collect" /\ pc' = "train" /\ \A v \in valid : v.pack = "packed"
      /\ UNCHANGED <<strict, global_step, served, task, done_tasks, group, evaluating, generated>>
  BY DEF YieldRollouts, AllPacked, stream
<1>3. kept \subseteq valid /\ Cardinality(kept) = SyncGroups
  BY DEF kSubset
<1>4. ~evaluating /\ Cardinality(valid) >= SyncGroups /\ (strict => generated >= BatchGroups)
  BY <1>0, <1>2 DEF Held
<1>5. \A g \in Groups : GroupDone(g)' <=> GroupDone(g)
  BY <1>2 DEF GroupDone
<1>6. \A g \in Groups : InFlight(g)' <=> InFlight(g)
  BY <1>2 DEF InFlight
<1>7. Types'
  <2>1. IsFiniteSet(kept)
    BY <1>0, <1>3, FS_Subset DEF Types
  <2> QED BY <1>0, <1>1, <1>2, <1>3, <2>1 DEF Types, Pcs
<1>8. Settled'
  BY <1>2 DEF Settled, Between
<1>9. Ids(kept) \subseteq Ids(valid) /\ Ids(kept) \cap Ids(valid \ kept) = {}
  BY <1>0, <1>3 DEF Ids, OwnIds
<1>10. OwnIds'
  BY <1>0, <1>1, <1>2, <1>3, <1>5, <1>9 DEF OwnIds, Streaming
<1>11. Held'
  <2>1. {g \in Groups : GroupDone(g)'} = {g \in Groups : GroupDone(g)}
    BY <1>5
  <2> QED BY <1>0, <1>1, <1>2, <1>3, <1>4, <2>1 DEF Held, Streaming
<1>12. Versions'
  <2>1. Budget \in Int /\ Budget' \in Int /\ Budget <= Budget'
    <3>1. Cardinality(valid) \in Nat /\ generated \in Nat
      BY <1>0, BudgetFacts DEF Types
    <3>2. Used = Cardinality(valid) /\ Used' = SyncGroups
      BY <1>1, <1>2, <1>3 DEF Used
    <3> QED BY <1>2, <1>4, <3>1, <3>2, SizeFacts DEF Budget
  <2>2. \A b : Aged(b, Budget) => Aged(b, Budget')
    BY <2>1, MoreBudget
  <2>3. \A b : Aged(b, Budget') => Aged(b, Budget)'
    BY <1>2 DEF Aged
  <2>4. \A g \in Groups : ~GroupDone(g)' /\ group'[g].version # NoVersion
                            => Aged(group[g].version, Budget)'
    BY <1>0, <1>2, <1>4, <1>5, <2>2, <2>3 DEF Versions, Streaming
  <2>5. \A v \in valid' : Aged(v.version, Allowed)'
    BY <1>0, <1>1, <1>2, <1>3 DEF Versions, Aged, Allowed
  <2>6. served' = global_step'
    BY <1>0, <1>2 DEF Versions, Streaming
  <2>7. \A q \in Requests : task'[q] \notin {"pending", "merged"} =>
          group'[GroupOf(q)].version # NoVersion
    BY <1>0, <1>2 DEF Versions, Streaming
  <2> QED BY <1>2, <2>4, <2>5, <2>6, <2>7 DEF Versions
<1>13. StoreExact'
  <2> DEFINE flying == {group[g].id : g \in {h \in Groups : InFlight(h)}}
  <2>1. store = Ids(valid) \cup flying
    BY <1>0, <1>2 DEF StoreExact, Stopped
  <2>2. flying \cap Ids(valid) = {}
    BY <1>0, <1>2, <1>4, InFlightApart DEF Streaming
  <2>3. Ids(valid) = Ids(kept) \cup Ids(valid \ kept)
    BY <1>3 DEF Ids
  <2>4. {group'[g].id : g \in {h \in Groups : InFlight(h)'}} = flying
    BY <1>2, <1>6
  <2> HIDE DEF flying
  <2>5. store' = Ids(valid') \cup flying
    BY <1>1, <1>9, <2>1, <2>2, <2>3
  <2> QED BY <2>4, <2>5 DEF StoreExact
<1> QED BY <1>7, <1>8, <1>10, <1>11, <1>12, <1>13 DEF GrpoInv

\* The trained groups and their routing go; the weights are one training step ahead of
\* the engines until they are synchronised.
LEMMA TrainStepStep ==
    ASSUME GrpoInv, TrainStep
    PROVE  GrpoInv'
<1>0. Types /\ Settled /\ OwnIds /\ Held /\ Versions /\ StoreExact
  BY DEF GrpoInv
<1>1. /\ pc = "train" /\ pc' = "weight_sync" /\ global_step' = global_step + SyncEvery
      /\ store' = store \ Ids(valid) /\ valid' = {}
      /\ UNCHANGED <<strict, served, task, done_tasks, group, evaluating, generated>>
  BY DEF TrainStep, WithoutHandles, stream
<1>2. /\ Cardinality(valid) = SyncGroups
      /\ ~evaluating /\ (strict => generated >= BatchGroups)
  BY <1>0, <1>1 DEF Held
<1>3. served = global_step /\ global_step \in Nat /\ global_step' \in Nat
  BY <1>0, <1>1, SizeFacts DEF Versions, Streaming, Types
<1>4. \A g \in Groups : (GroupDone(g)' <=> GroupDone(g)) /\ (InFlight(g)' <=> InFlight(g))
  BY <1>1 DEF GroupDone, InFlight
<1>5. Types'
  BY <1>0, <1>1, <1>3, FS_EmptySet DEF Types, Pcs
<1>6. Settled'
  BY <1>1 DEF Settled, Between
<1>7. OwnIds'
  BY <1>0, <1>1, <1>4 DEF OwnIds, Streaming, Ids
<1>8. Held'
  <2>1. {g \in Groups : GroupDone(g)'} = {g \in Groups : GroupDone(g)}
    BY <1>4
  <2>2. Cardinality(valid') < SyncGroups
    BY <1>1, FS_EmptySet, SizeFacts
  <2> QED BY <1>0, <1>1, <1>2, <2>1, <2>2 DEF Held, Streaming
<1>9. Versions'
  <2>1. Budget' = Budget
    BY <1>1, <1>2 DEF Budget, Used
  <2>2. \A b : Aged(b, Budget) => Aged(b, Budget)'
    BY <1>1, <2>1 DEF Aged
  <2>3. \A g \in Groups : ~GroupDone(g)' /\ group'[g].version # NoVersion
                            => Aged(group[g].version, Budget)'
    BY <1>0, <1>1, <1>2, <1>4, <2>2 DEF Versions, Streaming
  <2>4. \A q \in Requests : task'[q] \notin {"pending", "merged"} =>
          group'[GroupOf(q)].version # NoVersion
    BY <1>0, <1>1 DEF Versions, Streaming
  <2> QED BY <1>1, <1>3, <2>3, <2>4 DEF Versions
<1>10. StoreExact'
  <2> DEFINE flying == {group[g].id : g \in {h \in Groups : InFlight(h)}}
  <2>1. store = Ids(valid) \cup flying
    BY <1>0, <1>1 DEF StoreExact, Stopped
  <2>2. flying \cap Ids(valid) = {}
    BY <1>0, <1>1, <1>2, InFlightApart DEF Streaming
  <2>3. {group'[g].id : g \in {h \in Groups : InFlight(h)'}} = flying /\ Ids(valid') = {}
    BY <1>1, <1>4 DEF Ids
  <2> HIDE DEF flying
  <2>4. store' = Ids(valid') \cup flying
    BY <1>1, <2>1, <2>2, <2>3
  <2> QED BY <2>3, <2>4 DEF StoreExact
<1> QED BY <1>5, <1>6, <1>7, <1>8, <1>9, <1>10 DEF GrpoInv

\* The engines move on by one training step: every group in flight ages by one model
\* sync, which the groups just trained on have paid for.  A strict run has none in flight.
LEMMA WeightSyncStep ==
    ASSUME GrpoInv, WeightSync
    PROVE  GrpoInv'
<1>0. Types /\ Settled /\ OwnIds /\ Held /\ Versions /\ StoreExact
  BY DEF GrpoInv
<1>1. /\ pc = "weight_sync" /\ served' = global_step /\ pc' = AfterRead(done_tasks, task)
      /\ UNCHANGED <<strict, global_step, task, done_tasks, group, evaluating, generated,
                     valid, store>>
  BY DEF WeightSync, stream
<1>2. /\ pc' \in {"exhausted", "fill", "process"}
      /\ pc' = "exhausted" => \A q \in Requests : task[q] = "merged"
  BY <1>1, AfterReadFacts
<1>3. valid = {} /\ ~evaluating /\ (strict => generated >= BatchGroups)
  BY <1>0, <1>1 DEF Held
<1>4. /\ served \in Nat /\ global_step = served + SyncEvery /\ global_step \in Nat
  BY <1>0, <1>1 DEF Versions, Types
<1>5. \A g \in Groups : (GroupDone(g)' <=> GroupDone(g)) /\ (InFlight(g)' <=> InFlight(g))
  BY <1>1 DEF GroupDone, InFlight
<1>6. Types'
  BY <1>0, <1>1, <1>2, <1>4 DEF Types, Pcs, Version
<1>7. Settled'
  BY <1>1, <1>2 DEF Settled, Between
<1>8. OwnIds'
  BY <1>0, <1>1, <1>5 DEF OwnIds, Streaming
<1>9. Held'
  <2>1. {g \in Groups : GroupDone(g)'} = {g \in Groups : GroupDone(g)}
    BY <1>5
  <2>2. Cardinality(valid') < SyncGroups
    BY <1>1, <1>3, FS_EmptySet, SizeFacts
  <2> QED BY <1>0, <1>1, <1>2, <2>1, <2>2 DEF Held, Streaming
<1>10. Versions'
  <2>1. ASSUME NEW b, Aged(b, Budget), ~strict PROVE Aged(b, Budget)'
    <3>1. PICK n \in Nat : served = b + n * SyncEvery /\ n * SyncGroups <= Budget
      BY <2>1 DEF Aged
    <3>2. Budget' = Budget + SyncGroups /\ Budget \in Int
      <4>1. Cardinality(valid') = 0 /\ generated \in Nat
        BY <1>0, <1>1, <1>3, FS_EmptySet DEF Types
      <4>2. Used = SyncGroups /\ Used' = 0
        BY <1>1, <1>2, <4>1 DEF Used
      <4> QED BY <1>1, <2>1, <4>1, <4>2, SizeFacts DEF Budget
    <3>3. \A e \in Nat : (n + 1) * e = n * e + e
      OBVIOUS
    <3>4. (n + 1) * SyncEvery = n * SyncEvery + SyncEvery /\ n * SyncEvery \in Nat
      BY <3>3, SizeFacts
    <3>5. (n + 1) * SyncGroups = n * SyncGroups + SyncGroups /\ n * SyncGroups \in Nat
      BY <3>3, SizeFacts
    <3>6. b \in Nat
      BY <2>1 DEF Aged
    <3>7. served' = b + (n + 1) * SyncEvery
      BY <1>1, <1>4, <3>1, <3>4, <3>6, SizeFacts
    <3>8. (n + 1) * SyncGroups <= Budget'
      BY <3>1, <3>2, <3>5, SizeFacts
    <3>9. n + 1 \in Nat /\ served' \in Nat
      BY <1>1, <1>4
    <3> QED BY <3>6, <3>7, <3>8, <3>9 DEF Aged
  <2>2. strict => \A g \in Groups : GroupDone(g)
    BY <1>0, <1>1, <1>3, AllGenerated DEF Streaming
  <2>3. \A g \in Groups : ~GroupDone(g)' /\ group'[g].version # NoVersion
                            => Aged(group[g].version, Budget)'
    BY <1>0, <1>1, <1>3, <1>5, <2>1, <2>2 DEF Versions, Streaming
  <2>4. \A q \in Requests : task'[q] \notin {"pending", "merged"} =>
          group'[GroupOf(q)].version # NoVersion
    BY <1>0, <1>1 DEF Versions, Streaming
  <2> QED BY <1>1, <1>2, <1>3, <2>3, <2>4 DEF Versions
<1>11. StoreExact'
  <2>1. store = Ids(valid) \cup {group[g].id : g \in {h \in Groups : InFlight(h)}}
    BY <1>0, <1>1 DEF StoreExact, Stopped
  <2> QED BY <1>1, <1>5, <2>1 DEF StoreExact
<1> QED BY <1>6, <1>7, <1>8, <1>9, <1>10, <1>11 DEF GrpoInv

---------------------------------------------------------------------------
(* The theorems.                                                            *)

\* The invariant holds initially.
LEMMA InitKeeps ==
    ASSUME Init
    PROVE  GrpoInv
<1>1. /\ pc = "start" /\ strict \in BOOLEAN /\ (strict => SyncEvery = 1 /\ BatchGroups = SyncGroups)
      /\ global_step = 0 /\ served = NoVersion /\ evaluating = FALSE
      /\ task = [r \in Requests |-> "merged"] /\ done_tasks = {}
      /\ group = [g \in Groups |-> [id |-> 0, version |-> NoVersion]]
      /\ generated = 0 /\ valid = {} /\ store = {}
  <2>1. strict \in BOOLEAN
    BY DEF Init
  <2> QED BY <2>1 DEF Init, Idle
<1>2. Types
  <2>1. task \in [Requests -> TaskStates]
    BY <1>1 DEF TaskStates
  <2>2. group \in [Groups -> [id : Nat, version : Version]]
    BY <1>1 DEF Version
  <2> QED BY <1>1, <2>1, <2>2, FS_EmptySet DEF Types, Pcs, Version
<1>3. Settled
  BY <1>1 DEF Settled
<1>4. OwnIds
  BY <1>1 DEF OwnIds, Streaming
<1>5. Held
  <2>1. Cardinality(valid) < SyncGroups
    BY <1>1, FS_EmptySet, SizeFacts
  <2> QED BY <1>1, <2>1 DEF Held, Streaming
<1>6. Versions
  BY <1>1 DEF Versions, Streaming
<1>7. StoreExact
  <2>1. \A g \in Groups : ~InFlight(g)
    BY <1>1 DEF InFlight, Items
  <2>2. Ids(valid) = {}
    BY <1>1 DEF Ids
  <2> QED BY <1>1, <2>1, <2>2 DEF StoreExact
<1> QED BY <1>2, <1>3, <1>4, <1>5, <1>6, <1>7 DEF GrpoInv

\* Every step keeps it.
LEMMA NextKeeps ==
    ASSUME GrpoInv, [Next]_vars
    PROVE  GrpoInv'
<1>1. CASE UNCHANGED vars
  <2>1. UNCHANGED <<pc, strict, global_step, served, task, done_tasks, group, evaluating,
                    generated, valid, store>>
    BY <1>1 DEF vars, stream
  <2> QED BY <2>1 DEF GrpoInv, Types, Settled, OwnIds, Held, Versions, StoreExact, Streaming,
                      Between, Stopped, GroupDone, InFlight, Aged, Budget, Used, Allowed
<1>2. CASE Background
  BY <1>2, TaskStep, PackStep DEF Background
<1>3. CASE Reads
  <2>1. PICK r \in Requests : ReadRaised(r) \/ ReadResult(r) \/ SkipGroup(r) \/ KeepGroup(r)
    BY <1>3 DEF Reads
  <2> QED BY <2>1, ControllerMoves, ReadResultStep, SkipGroupStep, KeepGroupStep
<1>4. CASE Controller /\ ~Reads
  BY <1>4, ControllerMoves, BeginEvalStep, SampleGroupsStep, FillSlotsStep, YieldStep,
     TrainStepStep, WeightSyncStep DEF Controller
<1> QED BY <1>1, <1>2, <1>3, <1>4 DEF Next

\* The inductive invariant of the GRPO controller.
THEOREM GrpoInvariant == Spec => []GrpoInv
<1>1. Init => GrpoInv
  BY InitKeeps
<1>2. GrpoInv /\ [Next]_vars => GrpoInv'
  BY NextKeeps
<1> QED BY <1>1, <1>2, PTL DEF Spec

\* The tensor store holds the routing of the groups in flight and of the valid ones that
\* wait, and of no other, whatever is filtered, dropped or trained on in between.
THEOREM StoreIsExact == Spec => []StoreExact
<1>1. GrpoInv => StoreExact
  BY DEF GrpoInv
<1> QED BY <1>1, GrpoInvariant, PTL

\* A batch the controller trains on has the groups of one model sync, packed and with
\* their routing.
THEOREM BatchTrainable == Spec => []TrainableBatch
<1>1. GrpoInv => TrainableBatch
  <2> SUFFICES ASSUME GrpoInv, pc = "train"
               PROVE  /\ Cardinality(valid) = SyncGroups
                      /\ \A v \in valid : v.pack = "packed" /\ v.id \in store
    BY DEF TrainableBatch
  <2>1. Held /\ StoreExact
    BY DEF GrpoInv
  <2>2. Ids(valid) \subseteq store
    BY <2>1 DEF StoreExact, Stopped
  <2> QED BY <2>1, <2>2 DEF Held, Ids
<1> QED BY <1>1, GrpoInvariant, PTL

\* How far behind a trained group can be.
THEOREM OffPolicyIsBounded == Spec => []OffPolicyBounded
<1>1. GrpoInv => OffPolicyBounded
  <2> SUFFICES ASSUME GrpoInv, pc = "train", NEW v \in valid
               PROVE  /\ v.version \in 0..served
                      /\ served - v.version <= SyncEvery *
                           (IF strict THEN 0 ELSE (BatchGroups + SyncGroups - 2) \div SyncGroups)
    BY DEF OffPolicyBounded
  <2>1. Aged(v.version, Allowed)
    BY DEF GrpoInv, Versions
  <2>2. PICK n \in Nat : served = v.version + n * SyncEvery /\ n * SyncGroups <= Allowed
    BY <2>1 DEF Aged
  <2>3. v.version \in Nat /\ served \in Nat
    BY <2>1 DEF Aged
  <2>4. n * SyncEvery \in Nat
    BY SizeFacts
  <2>5. v.version \in 0..served /\ served - v.version = n * SyncEvery
    BY <2>2, <2>3, <2>4
  <2>6. \A m, k, e \in Nat : m <= k => m * e <= e * k
    <3>1. \A m, d, e \in Nat : m * e <= e * (m + d)
      <4> SUFFICES ASSUME NEW m \in Nat, NEW d \in Nat, NEW e \in Nat
                   PROVE  m * e <= e * (m + d)
        OBVIOUS
      <4>1. e * (m + d) = m * e + e * d /\ e * d \in Nat /\ m * e \in Nat
        OBVIOUS
      <4> QED BY <4>1
    <3> SUFFICES ASSUME NEW m \in Nat, NEW k \in Nat, NEW e \in Nat, m <= k
                 PROVE  m * e <= e * k
      OBVIOUS
    <3>2. k = m + (k - m) /\ k - m \in Nat
      OBVIOUS
    <3> QED BY <3>1, <3>2
  <2>7. CASE strict
    <3>1. n * SyncGroups <= 0
      BY <2>2, <2>7 DEF Allowed
    <3>2. n = 0
      BY <3>1, SizeFacts
    <3>3. n * SyncEvery = 0 /\ SyncEvery * 0 = 0
      BY <3>2, SizeFacts
    <3> QED BY <2>5, <2>7, <3>3
  <2>8. CASE ~strict
    <3> DEFINE x == BatchGroups + SyncGroups - 2
               q == x \div SyncGroups
    <3>1. x \in Nat
      BY SizeFacts
    <3>2. n * SyncGroups <= x
      BY <2>2, <2>8 DEF Allowed
    <3>3. \A a \in Nat, s \in Nat \ {0} :
            a \div s \in Nat /\ (a % s) \in 0..s - 1 /\ a = s * (a \div s) + (a % s)
      OBVIOUS
    <3>4. q \in Nat /\ x < SyncGroups * q + SyncGroups
      BY <3>1, <3>3, SizeFacts
    <3> HIDE DEF x, q
    <3>5. n <= q
      <4>1. \A k, j \in Nat, s \in Nat \ {0} : k * s < s * j + s => k <= j
        <5> SUFFICES ASSUME NEW k \in Nat, NEW j \in Nat, NEW s \in Nat \ {0}, k >= j + 1
                     PROVE  k * s >= s * j + s
          OBVIOUS
        <5>1. s * (j + 1) = s * j + s
          OBVIOUS
        <5>2. (j + 1) * s <= s * k
          BY <2>6
        <5> QED BY <5>1, <5>2
      <4>2. n * SyncGroups < SyncGroups * q + SyncGroups
        <5>1. n * SyncGroups \in Nat /\ SyncGroups * q \in Nat
          BY <3>4, SizeFacts
        <5> QED BY <3>1, <3>2, <3>4, <5>1, SizeFacts
      <4> QED BY <3>4, <4>1, <4>2, SizeFacts
    <3>6. n * SyncEvery <= SyncEvery * q
      BY <2>6, <3>4, <3>5, SizeFacts
    <3> QED BY <2>5, <2>8, <3>6 DEF x, q
  <2> QED BY <2>5, <2>7, <2>8
<1> QED BY <1>1, GrpoInvariant, PTL
============================================================================
