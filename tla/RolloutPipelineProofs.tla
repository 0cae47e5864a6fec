----------------------- MODULE RolloutPipelineProofs -----------------------
(* Proofs about the online RL loop, for every number of workers, every batch *)
(* configuration and every number of schedules: groups are whole, training   *)
(* data is bounded in age, tensors are deleted exactly, and the rollout      *)
(* queue is used as its own specification allows.                            *)
EXTENDS RolloutPipeline, FiniteSetTheorems, WellFoundedInduction, TLAPS

---------------------------------------------------------------------------
(* The inductive invariant. *)

\* The rollouts that were enqueued and have not left the controller's lists: in
\* the backlog, with a worker that has not published, in the result queue, or
\* taken from it into an incomplete group or evaluation.
Working == {w \in Workers : stage[w] \in {"rollout", "failed"}}
Unpublished == {running[w] : w \in Working}
Taken == partial \cup collected
Outstanding ==
    ToSet(pending) \cup Unpublished \cup Rollouts(ToSet(results)) \cup Rollouts(Taken)

\* What TypeOK leaves out: the two backlogs are sequences, a worker has an
\* assignment unless it is idle, and the valid groups are finitely many.
Shape ==
    /\ pending \in Seq(Rollout)
    /\ results \in Seq(Result)
    /\ \A w \in Workers : stage[w] = "idle" <=> running[w] = NoTask
    /\ IsFiniteSet(valid)
    /\ batch \subseteq valid

\* An outstanding rollout is in one place, once.
InOnePlace ==
    /\ \A i, j \in DOMAIN pending : pending[i] = pending[j] => i = j
    /\ \A v, w \in Working : running[v] = running[w] => v = w
    /\ \A i, j \in DOMAIN results : results[i].rollout = results[j].rollout => i = j
    /\ \A x, y \in Taken : x.rollout = y.rollout => x = y
    /\ ToSet(pending) \cap Unpublished = {}
    /\ ToSet(pending) \cap Rollouts(ToSet(results)) = {}
    /\ ToSet(pending) \cap Rollouts(Taken) = {}
    /\ Unpublished \cap Rollouts(ToSet(results)) = {}
    /\ Unpublished \cap Rollouts(Taken) = {}
    /\ Rollouts(ToSet(results)) \cap Rollouts(Taken) = {}

GroupRollouts(s, k) ==
    {[kind |-> "train", sched |-> s, group |-> k, index |-> i] : i \in 1..GroupSize}
EvalSet(s) == {[kind |-> "eval", sched |-> s, index |-> i] : i \in 1..EvalRollouts}
GroupDone(k) == GroupRollouts(sched, k) \cap Outstanding = {}

\* What is outstanding, phase by phase.  During a schedule every group of it is
\* outstanding as a whole or not at all, and generated counts the latter.
TrainPhase == pc \in {"collect", "prepare", "train", "sync"}
Conserved ==
    /\ TrainPhase =>
        /\ collected = {}
        /\ Outstanding \subseteq UNION {GroupRollouts(sched, k) : k \in 1..Scheduled}
        /\ \A k \in 1..Scheduled : GroupDone(k) \/ GroupRollouts(sched, k) \subseteq Outstanding
        /\ generated = Cardinality({k \in 1..Scheduled : GroupDone(k)})
    /\ pc \in {"evals_if_needed", "run_evals", "schedule"} => Outstanding = {}
    /\ pc = "eval" => partial = {} /\ Outstanding = EvalSet(sched)
    /\ config.strict /\ pc \in {"prepare", "train", "sync"} => generated >= Scheduled

\* A valid group is a whole group of this schedule or an earlier one; it shares no
\* rollout with another one, nor with what is outstanding.
ValidWhole ==
    /\ \A g \in valid : \E s \in ScheduleIds, k \in 1..Scheduled :
         s <= sched /\ Rollouts(g) = GroupRollouts(s, k) /\ Cardinality(g) = GroupSize
    /\ \A g, h \in valid : g # h => Rollouts(g) \cap Rollouts(h) = {}
    /\ \A g \in valid : Rollouts(g) \cap Outstanding = {}

\* How old the weights of a rollout may be, in weight syncs: each sync of this
\* schedule used up Target groups out of those that were left over, fewer than
\* Target, and those generated since.
Within(b, budget) ==
    \E n \in Nat : global_step = b + n * config.sync_every /\ n * Target <= budget
Held == IF pc = "sync" THEN 0 ELSE Cardinality(valid)
Budget == IF config.strict THEN 0 ELSE Target - 1 + generated - Held
Allowed == IF config.strict THEN 0 ELSE Scheduled + Target - 2

Young ==
    /\ TrainPhase =>
        /\ Within(version, Budget) \/ (config.strict /\ pc = "sync")
        /\ \A w \in Working : Within(born[w], Budget)
        /\ \A x \in ToSet(results) \cup partial : Within(x.born, Budget)
    /\ pc # "sync" => version = global_step
    /\ pc \notin {"sync", "done"} => \A g \in valid : \A x \in g : Within(x.born, Allowed)
    /\ ~config.strict /\ pc \notin {"prepare", "train", "sync", "done"} =>
         Cardinality(valid) < Target
    /\ pc \in {"prepare", "train"} => Cardinality(valid) >= Target

\* Nothing enqueued belongs to a schedule, or an evaluation, that is still to come.
Enqueued == ToSet(pending) \cup {running[w] : w \in {v \in Workers : running[v] # NoTask}}
                \cup completed
NoneAhead ==
    \A r \in Enqueued :
        /\ r.sched <= sched
        /\ r.kind = "eval" /\ r.sched = sched => pc \in {"eval", "schedule", "raised"}

PipelineInv ==
    /\ TypeOK /\ Shape /\ InOnePlace /\ Conserved /\ ValidWhole /\ Young /\ HandlesExact
    /\ NoneAhead

---------------------------------------------------------------------------
(* Arithmetic and the operators. *)

\* Every non-empty finite set of integers has a greatest element: remove one element
\* from a least set that has none.
LEMMA GreatestElement ==
    ASSUME NEW S \in SUBSET Int, S # {}, IsFiniteSet(S)
    PROVE  Max(S) \in S /\ \A y \in S : y <= Max(S)
<1> DEFINE Has(X) == \E x \in X : \A y \in X : x >= y
           Bad == {X \in SUBSET S : X # {} /\ ~Has(X)}
<1>1. ASSUME Bad # {} PROVE FALSE
  <2>1. IsWellFoundedOn(StrictSubsetOrdering(S), SUBSET S)
    <3>1. FiniteSubsetsOf(S) = SUBSET S
      BY FS_FiniteSubsetsOfFinite
    <3> QED BY <3>1, FS_StrictSubsetOrderingWellFounded
  <2> DEFINE R == StrictSubsetOrdering(S)
  <2> HIDE DEF R
  <2>2. PICK X \in Bad : \A Y \in Bad : ~(<<Y, X>> \in R)
    BY <1>1, <2>1, WFMin DEF R
  <2>3. PICK x \in X : TRUE
    OBVIOUS
  <2> DEFINE Y == X \ {x}
  <2>4. <<Y, X>> \in R
    BY <2>3 DEF R, StrictSubsetOrdering
  <2>5. Y = {} \/ Has(Y)
    BY <2>2, <2>4
  <2>6. CASE Y = {}
    BY <2>2, <2>3, <2>6
  <2>7. CASE Has(Y)
    <3>1. PICK m \in Y : \A y \in Y : m >= y
      BY <2>7
    <3>2. m \in Int /\ x \in Int
      BY <2>3
    <3>3. CASE m >= x
      BY <2>2, <2>3, <3>1, <3>2, <3>3
    <3>4. CASE x > m
      <4>1. \A y \in X : x >= y
        BY <3>1, <3>2, <3>4
      <4> QED BY <2>2, <2>3, <4>1
    <3> QED BY <3>2, <3>3, <3>4
  <2> QED BY <2>5, <2>6, <2>7
<1>2. Has(S)
  BY <1>1
<1>3. \E x \in S : \A y \in S : x >= y
  BY <1>2
<1> QED BY <1>3 DEF Max

\* The sizes of the configuration in force.
LEMMA ConfigFacts ==
    ASSUME config \in Configs
    PROVE  /\ config \in Config
           /\ Scheduled \in Nat \ {0} /\ Target \in Nat \ {0}
           /\ config.sync_every \in Nat \ {0}
           /\ Scheduled <= MostGroups /\ MostGroups \in Nat
           /\ GroupSize \in Nat \ {0, 1} /\ MaxSchedules \in Nat /\ EvalRollouts \in Nat \ {0}
<1>1. \A c \in Configs : ScheduledGroups(c) \in Nat \ {0}
  <2> SUFFICES ASSUME NEW c \in Configs PROVE ScheduledGroups(c) \in Nat \ {0}
    OBVIOUS
  <2>1. c.groups_per_update \in Nat \ {0} /\ c.batch_for \in Nat \ {0}
    BY PipelineAssumption DEF Config
  <2>2. \A a, b \in Nat \ {0} : a * b \in Nat \ {0}
    OBVIOUS
  <2> QED BY <2>1, <2>2 DEF ScheduledGroups
<1>2. /\ config \in Config /\ config.groups_per_update \in Nat \ {0}
      /\ config.sync_every \in Nat \ {0}
  BY PipelineAssumption DEF Config
<1>3. Target \in Nat \ {0}
  <2>1. \A a, b \in Nat \ {0} : a * b \in Nat \ {0}
    OBVIOUS
  <2> QED BY <1>2, <2>1 DEF Target, TargetGroups
<1> DEFINE Sizes == {ScheduledGroups(c) : c \in Configs}
           f == [c \in Configs |-> ScheduledGroups(c)]
<1>4. Sizes \in SUBSET Int /\ Sizes # {}
  BY <1>1, PipelineAssumption
<1>5. IsFiniteSet(Sizes)
  <2>1. f \in [Configs -> Sizes] /\ \A n \in Sizes : \E c \in Configs : f[c] = n
    OBVIOUS
  <2>2. f \in Surjection(Configs, Sizes)
    BY <2>1 DEF Surjection
  <2> QED BY <2>2, FS_Surjection, PipelineAssumption
<1> HIDE DEF Sizes
<1>6. Max(Sizes) \in Sizes /\ \A n \in Sizes : n <= Max(Sizes)
  BY <1>4, <1>5, GreatestElement
<1>7. Scheduled \in Sizes /\ Max(Sizes) = MostGroups
  BY DEF Scheduled, Sizes, MostGroups
<1> QED BY <1>1, <1>2, <1>3, <1>6, <1>7, PipelineAssumption DEF Sizes

\* The first element of a sequence, and the rest.
LEMMA HeadAndTail ==
    ASSUME NEW S, NEW s \in Seq(S), s # <<>>
    PROVE  /\ Head(s) \in S /\ Tail(s) \in Seq(S)
           /\ Head(s) = s[1] /\ 1 \in DOMAIN s
           /\ \A i \in DOMAIN Tail(s) : Tail(s)[i] = s[i + 1] /\ i + 1 \in DOMAIN s /\ i \in Nat \ {0}
           /\ ToSet(s) = {Head(s)} \cup ToSet(Tail(s))
<1>1. /\ Head(s) \in S /\ Tail(s) \in Seq(S) /\ Head(s) = s[1] /\ 1 \in DOMAIN s
      /\ Len(Tail(s)) = Len(s) - 1 /\ Len(s) \in Nat /\ DOMAIN s = 1..Len(s)
      /\ DOMAIN Tail(s) = 1..Len(s) - 1
      /\ \A i \in 1..Len(s) - 1 : Tail(s)[i] = s[i + 1]
  OBVIOUS
<1>2. \A i \in DOMAIN Tail(s) : Tail(s)[i] = s[i + 1] /\ i + 1 \in DOMAIN s /\ i \in Nat \ {0}
  BY <1>1
<1>3. ASSUME NEW i \in DOMAIN s, i # 1 PROVE i - 1 \in DOMAIN Tail(s) /\ Tail(s)[i - 1] = s[i]
  BY <1>1, <1>3
<1>4. ToSet(s) = {Head(s)} \cup ToSet(Tail(s))
  <2>1. ToSet(s) = {s[i] : i \in DOMAIN s} /\ ToSet(Tail(s)) = {Tail(s)[i] : i \in DOMAIN Tail(s)}
    BY DEF ToSet
  <2>2. ASSUME NEW i \in DOMAIN s PROVE s[i] \in {Head(s)} \cup ToSet(Tail(s))
    BY <1>1, <1>3, <2>1
  <2>3. ASSUME NEW i \in DOMAIN Tail(s) PROVE Tail(s)[i] \in ToSet(s)
    BY <1>2, <2>1
  <2>4. Head(s) \in ToSet(s)
    BY <1>1, <2>1
  <2> QED BY <2>1, <2>2, <2>3, <2>4
<1> QED BY <1>1, <1>2, <1>4

\* One more element at the end of a sequence.
LEMMA AppendFacts ==
    ASSUME NEW S, NEW s \in Seq(S), NEW x \in S
    PROVE  /\ Append(s, x) \in Seq(S)
           /\ \A i \in DOMAIN Append(s, x) :
                 \/ i \in DOMAIN s /\ Append(s, x)[i] = s[i]
                 \/ i = Len(s) + 1 /\ Append(s, x)[i] = x
           /\ ToSet(Append(s, x)) = ToSet(s) \cup {x}
<1>1. /\ Append(s, x) \in Seq(S) /\ Len(s) \in Nat
      /\ DOMAIN Append(s, x) = 1..Len(s) + 1 /\ DOMAIN s = 1..Len(s)
      /\ \A i \in 1..Len(s) : Append(s, x)[i] = s[i]
      /\ Append(s, x)[Len(s) + 1] = x
  OBVIOUS
<1>2. \A i \in 1..Len(s) + 1 : i \in 1..Len(s) \/ i = Len(s) + 1
  BY <1>1
<1>3. 1..Len(s) \subseteq 1..Len(s) + 1 /\ Len(s) + 1 \in 1..Len(s) + 1
  BY <1>1
<1> QED BY <1>1, <1>2, <1>3 DEF ToSet

\* One more result is one more rollout.
LEMMA OneMoreRollout ==
    ASSUME NEW rs, NEW x
    PROVE  /\ Rollouts(rs \cup {x}) = Rollouts(rs) \cup {x.rollout}
           /\ Rollouts({x} \cup rs) = Rollouts(rs) \cup {x.rollout}
<1>1. ASSUME NEW r \in Rollouts(rs \cup {x}) PROVE r \in Rollouts(rs) \cup {x.rollout}
  BY DEF Rollouts
<1>2. ASSUME NEW r \in Rollouts(rs) \cup {x.rollout} PROVE r \in Rollouts(rs \cup {x})
  BY DEF Rollouts
<1>3. {x} \cup rs = rs \cup {x}
  OBVIOUS
<1>4. Rollouts(rs \cup {x}) = Rollouts(rs) \cup {x.rollout}
  BY <1>1, <1>2
<1> QED BY <1>3, <1>4

---------------------------------------------------------------------------
(* Where the outstanding rollouts are: each step moves one of them, takes    *)
(* some off the lists, or enqueues new ones when there is none.              *)

\* The oldest task of the backlog is nowhere behind it.
LEMMA OldestTask ==
    ASSUME Shape, InOnePlace, pending # <<>>
    PROVE  /\ Head(pending) \in Rollout /\ Tail(pending) \in Seq(Rollout)
           /\ ToSet(pending) = {Head(pending)} \cup ToSet(Tail(pending))
           /\ Head(pending) \notin ToSet(Tail(pending))
           /\ \A i, j \in DOMAIN Tail(pending) :
                 Tail(pending)[i] = Tail(pending)[j] => i = j
<1>1. pending \in Seq(Rollout)
  BY DEF Shape
<1>2. /\ Head(pending) \in Rollout /\ Tail(pending) \in Seq(Rollout)
      /\ Head(pending) = pending[1] /\ 1 \in DOMAIN pending
      /\ \A i \in DOMAIN Tail(pending) :
            Tail(pending)[i] = pending[i + 1] /\ i + 1 \in DOMAIN pending /\ i \in Nat \ {0}
      /\ ToSet(pending) = {Head(pending)} \cup ToSet(Tail(pending))
  BY <1>1, HeadAndTail
<1>3. \A i, j \in DOMAIN pending : pending[i] = pending[j] => i = j
  BY DEF InOnePlace
<1>4. Head(pending) \notin ToSet(Tail(pending))
  <2> SUFFICES ASSUME NEW i \in DOMAIN Tail(pending), Tail(pending)[i] = Head(pending)
               PROVE  FALSE
    BY DEF ToSet
  <2>1. i + 1 = 1
    BY <1>2, <1>3
  <2> QED BY <1>2, <2>1
<1>5. ASSUME NEW i \in DOMAIN Tail(pending), NEW j \in DOMAIN Tail(pending),
             Tail(pending)[i] = Tail(pending)[j]
      PROVE  i = j
  <2>1. i + 1 = j + 1
    BY <1>2, <1>3, <1>5
  <2> QED BY <1>2, <2>1
<1> QED BY <1>2, <1>4, <1>5

\* The oldest result is the only one of its rollout.
LEMMA OldestResult ==
    ASSUME Shape, InOnePlace, results # <<>>
    PROVE  /\ Head(results) \in Result /\ Tail(results) \in Seq(Result)
           /\ ToSet(results) = {Head(results)} \cup ToSet(Tail(results))
           /\ Head(results).rollout \notin Rollouts(ToSet(Tail(results)))
           /\ \A i, j \in DOMAIN Tail(results) :
                 Tail(results)[i].rollout = Tail(results)[j].rollout => i = j
<1>1. results \in Seq(Result)
  BY DEF Shape
<1>2. /\ Head(results) \in Result /\ Tail(results) \in Seq(Result)
      /\ Head(results) = results[1] /\ 1 \in DOMAIN results
      /\ \A i \in DOMAIN Tail(results) :
            Tail(results)[i] = results[i + 1] /\ i + 1 \in DOMAIN results /\ i \in Nat \ {0}
      /\ ToSet(results) = {Head(results)} \cup ToSet(Tail(results))
  BY <1>1, HeadAndTail
<1>3. \A i, j \in DOMAIN results : results[i].rollout = results[j].rollout => i = j
  BY DEF InOnePlace
<1>4. Head(results).rollout \notin Rollouts(ToSet(Tail(results)))
  <2> SUFFICES ASSUME NEW i \in DOMAIN Tail(results),
                      Tail(results)[i].rollout = Head(results).rollout
               PROVE  FALSE
    BY DEF ToSet, Rollouts
  <2>1. i + 1 = 1
    BY <1>2, <1>3
  <2> QED BY <1>2, <2>1
<1>5. ASSUME NEW i \in DOMAIN Tail(results), NEW j \in DOMAIN Tail(results),
             Tail(results)[i].rollout = Tail(results)[j].rollout
      PROVE  i = j
  <2>1. i + 1 = j + 1
    BY <1>2, <1>3, <1>5
  <2> QED BY <1>2, <2>1
<1> QED BY <1>2, <1>4, <1>5

\* A step that touches neither the queues nor what was taken moves nothing.
LEMMA NothingMoves ==
    ASSUME InOnePlace, UNCHANGED <<pending, running, stage, results, partial, collected>>
    PROVE  /\ Outstanding' = Outstanding /\ Working' = Working /\ Taken' = Taken
           /\ InOnePlace'
<1>1. Working' = Working /\ Taken' = Taken
  BY DEF Working, Taken
<1>2. Unpublished' = Unpublished
  BY <1>1 DEF Unpublished
<1>3. Outstanding' = Outstanding
  BY <1>1, <1>2 DEF Outstanding
<1> QED BY <1>1, <1>2, <1>3 DEF InOnePlace

\* A worker's steps move a rollout from the backlog to the worker, and from there to
\* the results.
LEMMA WorkerMoves ==
    ASSUME TypeOK, Shape, InOnePlace, NEW w \in Workers, Worker(w)
    PROVE  Outstanding' = Outstanding /\ InOnePlace'
<1>0. UNCHANGED <<partial, collected>> /\ Taken' = Taken
  BY DEF Worker, GetRollout, PublishResult, CompleteRollout, FailRollout, FailComplete, collectVars, Taken
<1>1. CASE GetRollout(w)
  <2>1. /\ pending # <<>> /\ pending' = Tail(pending) /\ UNCHANGED results
        /\ running' = [running EXCEPT ![w] = Head(pending)]
        /\ stage[w] = "idle" /\ stage' = [stage EXCEPT ![w] = "rollout"]
    BY <1>1 DEF GetRollout
  <2>2. Working' = Working \cup {w} /\ w \notin Working
    BY <2>1 DEF Working, TypeOK
  <2>3. running'[w] = Head(pending) /\ \A v \in Working : running'[v] = running[v]
    BY <2>1, <2>2 DEF Working, TypeOK
  <2>4. Unpublished' = Unpublished \cup {Head(pending)}
    BY <2>2, <2>3 DEF Unpublished
  <2>5. /\ ToSet(pending) = {Head(pending)} \cup ToSet(pending')
        /\ Head(pending) \notin ToSet(pending')
        /\ \A i, j \in DOMAIN pending' : pending'[i] = pending'[j] => i = j
    BY <2>1, OldestTask
  <2>6. Outstanding' = Outstanding
    BY <1>0, <2>1, <2>4, <2>5 DEF Outstanding
  <2>7. \A u, v \in Working' : running'[u] = running'[v] => u = v
    <3>1. \A v \in Working : running[v] # Head(pending)
      BY <2>5 DEF InOnePlace, Unpublished
    <3> QED BY <2>2, <2>3, <3>1 DEF InOnePlace
  <2> QED BY <1>0, <2>1, <2>4, <2>5, <2>6, <2>7 DEF InOnePlace
<1>2. CASE PublishResult(w)
  <2>1. /\ UNCHANGED <<pending, running>> /\ stage[w] = "rollout"
        /\ stage' = [stage EXCEPT ![w] = "published"]
    BY <1>2 DEF PublishResult
  <2>2. PICK x : /\ x.rollout = running[w] /\ x \in Result
                 /\ results' = Append(results, x)
    <3>1. PICK s \in Score :
            results' = Append(results, [rollout |-> running[w], score |-> s, born |-> born[w]])
      BY <1>2 DEF PublishResult
    <3>2. running[w] \in Rollout /\ born[w] \in Nat
      <4>1. running[w] # NoTask
        BY <2>1 DEF Shape
      <4> QED BY <4>1 DEF TypeOK
    <3>3. [rollout |-> running[w], score |-> s, born |-> born[w]] \in Result
      BY <3>2 DEF Result
    <3> QED BY <3>1, <3>3
  <2>3. Working = Working' \cup {w} /\ w \notin Working'
    BY <2>1 DEF Working, TypeOK
  <2>4. Unpublished = Unpublished' \cup {running[w]} /\ running[w] \notin Unpublished'
    BY <2>1, <2>3 DEF Unpublished, InOnePlace
  <2>5. /\ \A i \in DOMAIN results' : \/ i \in DOMAIN results /\ results'[i] = results[i]
                                      \/ i = Len(results) + 1 /\ results'[i] = x
        /\ ToSet(results') = ToSet(results) \cup {x}
    BY <2>2, AppendFacts DEF Shape
  <2>6. Rollouts(ToSet(results')) = Rollouts(ToSet(results)) \cup {running[w]}
    BY <2>2, <2>5, OneMoreRollout
  <2>7. Outstanding' = Outstanding
    BY <1>0, <2>1, <2>4, <2>6 DEF Outstanding
  <2>8. running[w] \notin Rollouts(ToSet(results))
    BY <2>4 DEF InOnePlace
  <2>9. \A i \in DOMAIN results : results[i].rollout # running[w]
    BY <2>8 DEF Rollouts, ToSet
  <2>10. \A i, j \in DOMAIN results' : results'[i].rollout = results'[j].rollout => i = j
    BY <2>2, <2>5, <2>9 DEF InOnePlace
  <2>11. \A u, v \in Working' : running'[u] = running'[v] => u = v
    BY <2>1, <2>3 DEF InOnePlace
  <2> QED BY <1>0, <2>1, <2>4, <2>6, <2>7, <2>10, <2>11 DEF InOnePlace
<1>3. CASE CompleteRollout(w) \/ FailRollout(w) \/ FailComplete(w)
  <2>1. UNCHANGED <<pending, results>> /\ Working' = Working
    BY <1>3 DEF CompleteRollout, FailRollout, FailComplete, Working, TypeOK
  <2>2. \A v \in Working : running'[v] = running[v]
    BY <1>3 DEF CompleteRollout, FailRollout, FailComplete, Working, TypeOK
  <2>3. Unpublished' = Unpublished
    BY <2>1, <2>2 DEF Unpublished
  <2>4. Outstanding' = Outstanding
    BY <1>0, <2>1, <2>3 DEF Outstanding
  <2>5. \A u, v \in Working' : running'[u] = running'[v] => u = v
    BY <2>1, <2>2 DEF InOnePlace
  <2> QED BY <1>0, <2>1, <2>3, <2>4, <2>5 DEF InOnePlace
<1> QED BY <1>1, <1>2, <1>3 DEF Worker

\* The controller takes the oldest result and lets go of some of what it has taken.
LEMMA ControllerTakes ==
    ASSUME TypeOK, Shape, InOnePlace, results # <<>>, results' = Tail(results),
           UNCHANGED <<pending, running, stage>>,
           NEW gone \in SUBSET (Taken \cup {Head(results)}),
           Taken' = (Taken \cup {Head(results)}) \ gone
    PROVE  Outstanding' = Outstanding \ Rollouts(gone) /\ InOnePlace'
<1> DEFINE x == Head(results)
           all == Taken \cup {x}
<1>1. /\ ToSet(results) = {x} \cup ToSet(results')
      /\ x.rollout \notin Rollouts(ToSet(results'))
      /\ \A i, j \in DOMAIN results' : results'[i].rollout = results'[j].rollout => i = j
  BY OldestResult
<1>2. Rollouts(ToSet(results)) = {x.rollout} \cup Rollouts(ToSet(results'))
  BY <1>1, OneMoreRollout
<1>3. Working' = Working /\ Unpublished' = Unpublished
  BY DEF Working, Unpublished
<1>4. \A y, z \in all : y.rollout = z.rollout => y = z
  <2>1. \A y \in Taken : y.rollout # x.rollout
    <3>1. Rollouts(ToSet(results)) \cap Rollouts(Taken) = {}
      BY DEF InOnePlace
    <3>2. x.rollout \in Rollouts(ToSet(results))
      BY <1>2
    <3>3. \A y \in Taken : y.rollout \in Rollouts(Taken)
      BY DEF Rollouts
    <3> HIDE DEF x
    <3> QED BY <3>1, <3>2, <3>3
  <2> QED BY <2>1 DEF InOnePlace
<1>5. Rollouts(all) = Rollouts(Taken) \cup {x.rollout}
  BY OneMoreRollout
<1>6. Rollouts(Taken') = Rollouts(all) \ Rollouts(gone)
  <2> HIDE DEF all
  <2>1. ASSUME NEW y \in all, NEW z \in gone, y.rollout = z.rollout PROVE y \in gone
    BY <1>4, <2>1 DEF all
  <2> QED BY <2>1 DEF Rollouts, all
<1>7. Rollouts(gone) \subseteq Rollouts(all)
  BY DEF Rollouts
<1> HIDE DEF x, all
<1>8. /\ Rollouts(all) \cap ToSet(pending) = {} /\ Rollouts(all) \cap Unpublished = {}
      /\ Rollouts(all) \cap Rollouts(ToSet(results')) = {}
  <2>1. /\ ToSet(pending) \cap Rollouts(ToSet(results)) = {}
        /\ ToSet(pending) \cap Rollouts(Taken) = {}
        /\ Unpublished \cap Rollouts(ToSet(results)) = {}
        /\ Unpublished \cap Rollouts(Taken) = {}
        /\ Rollouts(ToSet(results)) \cap Rollouts(Taken) = {}
    BY DEF InOnePlace
  <2>2. x.rollout \notin Rollouts(ToSet(results'))
    BY <1>1 DEF x
  <2> QED BY <1>2, <1>5, <2>1, <2>2
<1>9. Outstanding' = Outstanding \ Rollouts(gone)
  <2>1. Outstanding = ToSet(pending) \cup Unpublished \cup Rollouts(ToSet(results')) \cup Rollouts(all)
    BY <1>2, <1>5 DEF Outstanding
  <2>2. Outstanding' = ToSet(pending) \cup Unpublished \cup Rollouts(ToSet(results'))
                         \cup (Rollouts(all) \ Rollouts(gone))
    BY <1>3, <1>6 DEF Outstanding
  <2> QED BY <1>7, <1>8, <2>1, <2>2
<1>10. \A y, z \in Taken' : y.rollout = z.rollout => y = z
  BY <1>4 DEF all, x
<1> QED BY <1>1, <1>2, <1>3, <1>6, <1>8, <1>9, <1>10 DEF InOnePlace

---------------------------------------------------------------------------
(* What is enqueued. *)

\* Positions of a list of n groups of d, as group and index within the group.
LEMMA PositionOf ==
    ASSUME NEW d \in Nat \ {0}, NEW n \in Nat, NEW i \in 1..(n * d)
    PROVE  /\ ((i - 1) \div d) + 1 \in 1..n
           /\ ((i - 1) % d) + 1 \in 1..d
           /\ i = (((i - 1) \div d) * d) + ((i - 1) % d) + 1
<1> DEFINE q == (i - 1) \div d
           r == (i - 1) % d
<1>1. n * d \in Nat
  OBVIOUS
<1>2. i - 1 \in Nat /\ i - 1 < n * d
  BY <1>1
<1>3. q \in Nat /\ r \in 0..d - 1 /\ i - 1 = d * q + r
  BY <1>2
<1> HIDE DEF q, r
<1>4. q < n
  <2>1. CASE q >= n
    <3>1. d * q >= d * n
      BY <1>3, <2>1
    <3>2. d * n = n * d
      OBVIOUS
    <3> QED BY <1>1, <1>2, <1>3, <3>1, <3>2
  <2> QED BY <1>3, <2>1
<1>5. q * d = d * q
  BY <1>3
<1>6. i = (q * d) + r + 1
  BY <1>3, <1>5
<1> QED BY <1>3, <1>4, <1>6 DEF q, r

\* And back.
LEMMA PositionAt ==
    ASSUME NEW d \in Nat \ {0}, NEW n \in Nat, NEW k \in 1..n, NEW j \in 1..d
    PROVE  \E i \in 1..(n * d) : ((i - 1) \div d) + 1 = k /\ ((i - 1) % d) + 1 = j
<1> DEFINE i == d * (k - 1) + j
           q == (i - 1) \div d
           r == (i - 1) % d
<1>1. d * (k - 1) \in Nat /\ d * (k - 1) + d <= n * d
  <2>1. d * (k - 1) + d = d * k
    OBVIOUS
  <2>2. d * k <= d * n /\ d * n = n * d
    OBVIOUS
  <2> QED BY <2>1, <2>2
<1>2. i \in 1..(n * d)
  BY <1>1
<1>3. i - 1 \in Nat /\ q \in Nat /\ r \in 0..d - 1 /\ i - 1 = d * q + r
  <2>1. i \in Int /\ i - 1 \in Nat
    BY <1>1
  <2> HIDE DEF i
  <2>2. \A a \in Nat : a \div d \in Nat /\ (a % d) \in 0..d - 1 /\ a = d * (a \div d) + (a % d)
    OBVIOUS
  <2> QED BY <2>1, <2>2
<1>4. i - 1 = d * (k - 1) + (j - 1)
  BY <1>1
<1> HIDE DEF i, q, r
<1>5. d * (q - (k - 1)) = (j - 1) - r
  BY <1>3, <1>4
<1>6. CASE q - (k - 1) >= 1
  <2>1. d * (q - (k - 1)) >= d * 1
    BY <1>3, <1>6
  <2> QED BY <1>3, <1>5, <2>1
<1>7. CASE q - (k - 1) <= -1
  <2>1. d * (q - (k - 1)) <= d * (-1)
    BY <1>3, <1>7
  <2> QED BY <1>3, <1>5, <2>1
<1>8. CASE q - (k - 1) = 0
  <2>1. q + 1 = k /\ r + 1 = j
    BY <1>3, <1>5, <1>8
  <2> QED BY <1>2, <2>1 DEF q, r
<1> QED BY <1>3, <1>6, <1>7, <1>8

\* A schedule holds every rollout of its groups once.
LEMMA TrainScheduleFacts ==
    ASSUME NEW s \in ScheduleIds, NEW n \in Nat, n <= MostGroups, MostGroups \in Nat
    PROVE  /\ TrainSchedule(s, n) \in Seq(Rollout)
           /\ \A i, j \in DOMAIN TrainSchedule(s, n) :
                 TrainSchedule(s, n)[i] = TrainSchedule(s, n)[j] => i = j
           /\ ToSet(TrainSchedule(s, n)) = UNION {GroupRollouts(s, k) : k \in 1..n}
<1> DEFINE ts == TrainSchedule(s, n)
           group(i) == ((i - 1) \div GroupSize) + 1
           index(i) == ((i - 1) % GroupSize) + 1
           task(k, j) == [kind |-> "train", sched |-> s, group |-> k, index |-> j]
<1>1. GroupSize \in Nat \ {0} /\ n * GroupSize \in Nat
  BY PipelineAssumption
<1>2. \A i \in 1..(n * GroupSize) :
        /\ group(i) \in 1..n /\ index(i) \in 1..GroupSize
        /\ i = (((i - 1) \div GroupSize) * GroupSize) + ((i - 1) % GroupSize) + 1
  BY <1>1, PositionOf
<1>3. \A k \in 1..n, j \in 1..GroupSize :
        \E i \in 1..(n * GroupSize) : group(i) = k /\ index(i) = j
  BY <1>1, PositionAt
<1>4. ts = [i \in 1..(n * GroupSize) |-> task(group(i), index(i))]
  BY DEF TrainSchedule
<1>5. DOMAIN ts = 1..(n * GroupSize)
  BY <1>4
<1>6. \A i, j \in 1..(n * GroupSize) : group(i) = group(j) /\ index(i) = index(j) => i = j
  <2> SUFFICES ASSUME NEW i \in 1..(n * GroupSize), NEW j \in 1..(n * GroupSize),
                      group(i) = group(j), index(i) = index(j)
               PROVE  i = j
    OBVIOUS
  <2>1. /\ (i - 1) \div GroupSize \in Int /\ (j - 1) \div GroupSize \in Int
        /\ (i - 1) % GroupSize \in Int /\ (j - 1) % GroupSize \in Int
    BY <1>1
  <2>2. (i - 1) \div GroupSize = (j - 1) \div GroupSize /\ (i - 1) % GroupSize = (j - 1) % GroupSize
    BY <2>1
  <2> QED BY <1>2, <2>2
<1>7. \A i, j \in 1..(n * GroupSize) : ts[i] = ts[j] => group(i) = group(j) /\ index(i) = index(j)
  <2> SUFFICES ASSUME NEW i \in 1..(n * GroupSize), NEW j \in 1..(n * GroupSize), ts[i] = ts[j]
               PROVE  group(i) = group(j) /\ index(i) = index(j)
    OBVIOUS
  <2>1. ts[i] = task(group(i), index(i)) /\ ts[j] = task(group(j), index(j))
    BY <1>4
  <2> HIDE DEF ts, group, index
  <2>2. task(group(i), index(i)) = task(group(j), index(j))
    BY <2>1
  <2> QED BY <2>2
<1>8. \A k \in 1..n, j \in 1..GroupSize : task(k, j) \in Rollout
  BY DEF Rollout, TrainRollout
<1> HIDE DEF ts, group, index
<1>9. ts \in [1..(n * GroupSize) -> Rollout]
  BY <1>2, <1>4, <1>8
<1>10. ts \in Seq(Rollout)
  BY <1>1, <1>9
<1>11. ToSet(ts) = UNION {GroupRollouts(s, k) : k \in 1..n}
  <2>1. ASSUME NEW i \in 1..(n * GroupSize)
        PROVE  ts[i] \in UNION {GroupRollouts(s, k) : k \in 1..n}
    <3>1. ts[i] \in GroupRollouts(s, group(i))
      BY <1>2, <1>4 DEF GroupRollouts
    <3> QED BY <1>2, <3>1
  <2>2. ASSUME NEW k \in 1..n, NEW j \in 1..GroupSize
        PROVE  task(k, j) \in ToSet(ts)
    BY <1>3, <1>4, <1>5 DEF ToSet
  <2>3. \A r \in UNION {GroupRollouts(s, k) : k \in 1..n} :
          \E k \in 1..n, j \in 1..GroupSize : r = task(k, j)
    BY DEF GroupRollouts
  <2> QED BY <1>5, <2>1, <2>2, <2>3 DEF ToSet
<1> QED BY <1>5, <1>6, <1>7, <1>10, <1>11 DEF ts

\* A group has GroupSize rollouts.
LEMMA GroupFacts ==
    ASSUME NEW s, NEW k
    PROVE  /\ IsFiniteSet(GroupRollouts(s, k)) /\ Cardinality(GroupRollouts(s, k)) = GroupSize
           /\ GroupRollouts(s, k) # {}
<1> DEFINE task(i) == [kind |-> "train", sched |-> s, group |-> k, index |-> i]
           f == [i \in 1..GroupSize |-> task(i)]
           G == GroupRollouts(s, k)
<1>1. GroupSize \in Nat \ {0}
  BY PipelineAssumption
<1>2. IsFiniteSet(1..GroupSize) /\ Cardinality(1..GroupSize) = GroupSize
  BY <1>1, FS_Interval
<1>3. \A i, j \in 1..GroupSize : task(i) = task(j) => i = j
  OBVIOUS
<1>4. G = {task(i) : i \in 1..GroupSize}
  BY DEF GroupRollouts
<1> HIDE DEF task, G
<1>5. f \in [1..GroupSize -> G] /\ \A r \in G : \E i \in 1..GroupSize : f[i] = r
  BY <1>4
<1>6. f \in Surjection(1..GroupSize, G) /\ f \in Injection(1..GroupSize, G)
  BY <1>3, <1>5 DEF Surjection, Injection, IsInjective
<1>7. IsFiniteSet(G) /\ Cardinality(G) = GroupSize
  <2> HIDE DEF f
  <2> QED BY <1>2, <1>6, FS_Surjection
<1>8. G # {}
  <2>1. 1 \in 1..GroupSize
    BY <1>1
  <2> QED BY <1>4, <2>1
<1> QED BY <1>7, <1>8 DEF G

\* An evaluation has EvalRollouts of them.
LEMMA EvalFacts ==
    ASSUME NEW s
    PROVE  IsFiniteSet(EvalSet(s)) /\ Cardinality(EvalSet(s)) = EvalRollouts
<1> DEFINE task(i) == [kind |-> "eval", sched |-> s, index |-> i]
           f == [i \in 1..EvalRollouts |-> task(i)]
           G == EvalSet(s)
<1>1. EvalRollouts \in Nat \ {0}
  BY PipelineAssumption
<1>2. IsFiniteSet(1..EvalRollouts) /\ Cardinality(1..EvalRollouts) = EvalRollouts
  BY <1>1, FS_Interval
<1>3. \A i, j \in 1..EvalRollouts : task(i) = task(j) => i = j
  OBVIOUS
<1>4. G = {task(i) : i \in 1..EvalRollouts}
  BY DEF EvalSet
<1> HIDE DEF task, G
<1>5. f \in [1..EvalRollouts -> G] /\ \A r \in G : \E i \in 1..EvalRollouts : f[i] = r
  BY <1>4
<1>6. f \in Surjection(1..EvalRollouts, G) /\ f \in Injection(1..EvalRollouts, G)
  BY <1>3, <1>5 DEF Surjection, Injection, IsInjective
<1>7. IsFiniteSet(G) /\ Cardinality(G) = EvalRollouts
  <2> HIDE DEF f
  <2> QED BY <1>2, <1>6, FS_Surjection
<1> QED BY <1>7 DEF G

\* Results of different rollouts: as many results as rollouts, and if they are as
\* many as there can be, they are all of them.
LEMMA AllOfThem ==
    ASSUME NEW c, NEW U, IsFiniteSet(U), Rollouts(c) \subseteq U,
           \A x, y \in c : x.rollout = y.rollout => x = y
    PROVE  /\ IsFiniteSet(c) /\ Cardinality(c) <= Cardinality(U)
           /\ Cardinality(c) \in Nat /\ Cardinality(U) \in Nat
           /\ Cardinality(c) >= Cardinality(U) =>
                 Rollouts(c) = U /\ Cardinality(c) = Cardinality(U)
<1> DEFINE f == [x \in c |-> x.rollout]
<1>1. f \in [c -> U]
  BY DEF Rollouts
<1>2. f \in Injection(c, U)
  BY <1>1 DEF Injection, IsInjective
<1>3. /\ IsFiniteSet(c) /\ Cardinality(c) <= Cardinality(U)
      /\ Cardinality(c) = Cardinality(U) => f \in Surjection(c, U)
  <2> HIDE DEF f
  <2> QED BY <1>2, FS_Injection
<1>4. Cardinality(c) \in Nat /\ Cardinality(U) \in Nat
  BY <1>3, FS_CardinalityType
<1>5. f \in Surjection(c, U) => Rollouts(c) = U
  <2>1. ASSUME f \in Surjection(c, U), NEW u \in U PROVE u \in Rollouts(c)
    <3>1. PICK x \in c : f[x] = u
      BY <2>1 DEF Surjection
    <3> QED BY <3>1 DEF Rollouts
  <2> QED BY <2>1
<1> QED BY <1>3, <1>4, <1>5

\* An evaluation holds every rollout of its dataset once.
LEMMA EvalScheduleFacts ==
    ASSUME NEW s \in ScheduleIds
    PROVE  /\ EvalSchedule(s) \in Seq(Rollout)
           /\ \A i, j \in DOMAIN EvalSchedule(s) : EvalSchedule(s)[i] = EvalSchedule(s)[j] => i = j
           /\ ToSet(EvalSchedule(s)) = EvalSet(s)
<1> DEFINE task(i) == [kind |-> "eval", sched |-> s, index |-> i]
<1>1. EvalRollouts \in Nat
  BY PipelineAssumption
<1>2. EvalSchedule(s) = [i \in 1..EvalRollouts |-> task(i)]
  BY DEF EvalSchedule
<1>3. \A i \in 1..EvalRollouts : task(i) \in Rollout
  BY DEF Rollout, EvalRollout
<1>4. \A i, j : task(i) = task(j) => i = j
  OBVIOUS
<1>5. EvalSet(s) = {task(i) : i \in 1..EvalRollouts}
  BY DEF EvalSet
<1> HIDE DEF task
<1>6. EvalSchedule(s) \in [1..EvalRollouts -> Rollout]
  BY <1>2, <1>3
<1>7. EvalSchedule(s) \in Seq(Rollout)
  BY <1>1, <1>6
<1> QED BY <1>2, <1>4, <1>5, <1>7 DEF ToSet

\* Nothing outstanding: the queues and the lists are empty and no worker has a
\* rollout that it has not published.
LEMMA NothingOutstanding ==
    ASSUME TypeOK, Shape, Outstanding = {}
    PROVE  /\ pending = <<>> /\ results = <<>>
           /\ Working = {} /\ Taken = {} /\ partial = {} /\ collected = {}
           /\ \A w \in Workers : stage[w] \in {"idle", "published", "unreleased"}
<1>1. pending \in Seq(Rollout) /\ results \in Seq(Result)
  BY DEF Shape
<1>2. pending = <<>>
  <2>1. SUFFICES ASSUME pending # <<>> PROVE FALSE
    OBVIOUS
  <2>2. Head(pending) \in ToSet(pending)
    BY <1>1, <2>1, HeadAndTail
  <2> QED BY <2>2 DEF Outstanding
<1>3. results = <<>>
  <2>1. SUFFICES ASSUME results # <<>> PROVE FALSE
    OBVIOUS
  <2>2. Head(results) \in ToSet(results)
    BY <1>1, <2>1, HeadAndTail
  <2>3. Head(results).rollout \in Rollouts(ToSet(results))
    BY <2>2 DEF Rollouts
  <2> QED BY <2>3 DEF Outstanding
<1>4. Working = {}
  BY DEF Outstanding, Unpublished
<1>5. Taken = {}
  BY DEF Outstanding, Rollouts
<1>6. \A w \in Workers : stage[w] \in {"idle", "published", "unreleased"}
  BY <1>4 DEF Working, TypeOK, Stages
<1> QED BY <1>2, <1>3, <1>4, <1>5, <1>6 DEF Taken

\* A schedule or an evaluation is enqueued when nothing is outstanding.
LEMMA Enqueuing ==
    ASSUME TypeOK, Shape, Outstanding = {},
           NEW ts \in Seq(Rollout), \A i, j \in DOMAIN ts : ts[i] = ts[j] => i = j,
           pending' = pending \o ts, UNCHANGED <<running, stage, results>>, Taken' = {}
    PROVE  /\ pending' = ts /\ Outstanding' = ToSet(ts) /\ InOnePlace'
           /\ Working' = {} /\ results' = <<>>
<1>1. /\ pending = <<>> /\ results' = <<>> /\ Working = {}
  BY NothingOutstanding
<1>2. pending' = ts
  BY <1>1
<1>3. Working' = {} /\ Unpublished' = {}
  BY <1>1 DEF Working, Unpublished
<1>4. ToSet(results') = {} /\ DOMAIN results' = {}
  BY <1>1 DEF ToSet
<1>5. Rollouts(ToSet(results')) = {} /\ Rollouts(Taken') = {}
  BY <1>4 DEF Rollouts
<1>6. Outstanding' = ToSet(ts)
  BY <1>2, <1>3, <1>5 DEF Outstanding
<1> QED BY <1>1, <1>2, <1>3, <1>4, <1>5, <1>6 DEF InOnePlace

\* All groups of the schedule were generated: nothing of it is outstanding.
LEMMA AllGenerated ==
    ASSUME TypeOK, Conserved, TrainPhase, generated >= Scheduled
    PROVE  Outstanding = {}
<1> DEFINE done == {k \in 1..Scheduled : GroupDone(k)}
<1>1. Scheduled \in Nat
  BY ConfigFacts DEF TypeOK
<1>2. IsFiniteSet(1..Scheduled) /\ Cardinality(1..Scheduled) = Scheduled
  BY <1>1, FS_Interval
<1>3. generated = Cardinality(done)
  BY DEF Conserved
<1>4. done \subseteq 1..Scheduled
  OBVIOUS
<1>5. IsFiniteSet(done) /\ Cardinality(done) <= Scheduled /\ Cardinality(done) \in Nat
  BY <1>2, <1>4, FS_Subset, FS_CardinalityType
<1>6. Cardinality(done) = Cardinality(1..Scheduled)
  BY <1>1, <1>2, <1>3, <1>5
<1>7. done = 1..Scheduled
  BY <1>2, <1>4, <1>6, FS_Subset
<1>8. \A k \in 1..Scheduled : GroupRollouts(sched, k) \cap Outstanding = {}
  BY <1>7 DEF GroupDone
<1>9. Outstanding \subseteq UNION {GroupRollouts(sched, k) : k \in 1..Scheduled}
  BY DEF Conserved
<1> QED BY <1>8, <1>9

---------------------------------------------------------------------------
(* Every step keeps the invariant: the workers.                             *)

\* While a rollout can still be handed out, the engine's weights are recent enough.
LEMMA EngineRecent ==
    ASSUME PipelineInv, TrainPhase, pending # <<>>
    PROVE  Within(version, Budget)
<1>1. TypeOK /\ Shape /\ Conserved /\ Young
  BY DEF PipelineInv
<1>2. CASE config.strict /\ pc = "sync"
  <2>1. generated >= Scheduled
    BY <1>1, <1>2 DEF Conserved
  <2>2. Outstanding = {}
    BY <1>1, <2>1, AllGenerated
  <2> QED BY <1>1, <2>2, NothingOutstanding
<1>3. CASE ~(config.strict /\ pc = "sync")
  BY <1>1, <1>3 DEF Young
<1> QED BY <1>2, <1>3

\* A worker's step, in the middle of whatever the controller does.
LEMMA WorkerStep ==
    ASSUME PipelineInv, NEW w \in Workers, Worker(w), config' = config
    PROVE  PipelineInv'
<1> DEFINE Recent ==
             /\ \A v \in Working' : TrainPhase => Within(born'[v], Budget)
             /\ \A x \in ToSet(results') : TrainPhase => Within(x.born, Budget)
           Kept == TypeOK' /\ Shape' /\ HandlesExact' /\ Enqueued' \subseteq Enqueued /\ Recent
<1>0. /\ TypeOK /\ Shape /\ InOnePlace /\ Conserved /\ ValidWhole /\ Young /\ HandlesExact
      /\ NoneAhead
  BY DEF PipelineInv
<1>1. UNCHANGED <<config, sched, generated, partial, valid, pc, batch, collected, global_step,
                  version, prev_eval>>
  BY DEF Worker, GetRollout, PublishResult, CompleteRollout, FailRollout, FailComplete, collectVars
<1>2. Scheduled' = Scheduled /\ Target' = Target /\ Budget' = Budget /\ Allowed' = Allowed
  BY <1>1 DEF Scheduled, Target, Budget, Allowed, Held
<1>3. Outstanding' = Outstanding /\ InOnePlace'
  BY <1>0, WorkerMoves
<1>4. ASSUME GetRollout(w) PROVE Kept
  <2>1. /\ pending # <<>> /\ pending' = Tail(pending) /\ stage[w] = "idle"
        /\ running' = [running EXCEPT ![w] = Head(pending)]
        /\ stage' = [stage EXCEPT ![w] = "rollout"]
        /\ born' = [born EXCEPT ![w] = version]
        /\ UNCHANGED <<completed, results, handles>>
    BY <1>4 DEF GetRollout
  <2>2. /\ Head(pending) \in Rollout /\ Tail(pending) \in Seq(Rollout)
        /\ ToSet(pending) = {Head(pending)} \cup ToSet(Tail(pending))
    BY <1>0, <2>1, OldestTask
  <2>3. TypeOK'
    <3>1. version \in Nat
      BY <1>0 DEF TypeOK
    <3>2. /\ running' \in [Workers -> Rollout \cup {NoTask}] /\ born' \in [Workers -> Nat]
          /\ stage' \in [Workers -> Stages]
          /\ ToSet(pending') \subseteq Rollout
      BY <1>0, <2>1, <2>2, <3>1 DEF TypeOK, Stages
    <3> QED BY <1>0, <1>1, <1>2, <2>1, <3>2 DEF TypeOK
  <2>4. Shape'
    <3>1. Head(pending) # NoTask
      BY <2>2 DEF Rollout, TrainRollout, EvalRollout, NoTask
    <3> QED BY <1>0, <1>1, <2>1, <2>2, <3>1 DEF Shape, TypeOK
  <2>5. \A v \in Working' : (v \in Working /\ born'[v] = born[v]) \/ (v = w /\ born'[v] = version)
    BY <1>0, <2>1 DEF Working, TypeOK
  <2>6. Recent
    <3>1. TrainPhase => Within(version, Budget)
      BY <2>1, EngineRecent
    <3> QED BY <1>0, <2>1, <2>5, <3>1 DEF Young
  <2>7. HandlesExact'
    BY <1>0, <1>1, <2>1 DEF HandlesExact
  <2>8. Enqueued' \subseteq Enqueued
    <3>1. \A v \in Workers : running'[v] = running[v] \/ running'[v] = Head(pending)
      BY <1>0, <2>1 DEF TypeOK
    <3> QED BY <2>1, <2>2, <3>1 DEF Enqueued
  <2> QED BY <2>3, <2>4, <2>6, <2>7, <2>8
<1>5. ASSUME PublishResult(w) PROVE Kept
  <2>1. PICK s \in Score :
          results' = Append(results, [rollout |-> running[w], score |-> s, born |-> born[w]])
    BY <1>5 DEF PublishResult
  <2> DEFINE x == [rollout |-> running[w], score |-> s, born |-> born[w]]
  <2>2. /\ UNCHANGED <<pending, running, completed, born>> /\ stage[w] = "rollout"
        /\ stage' = [stage EXCEPT ![w] = "published"]
        /\ handles' = IF running[w].kind = "train" THEN handles \cup {running[w]} ELSE handles
    BY <1>5 DEF PublishResult
  <2>3. running[w] \in Rollout /\ born[w] \in Nat /\ w \in Working
    BY <1>0, <2>2 DEF Shape, TypeOK, Working
  <2>4. x \in Result /\ x.rollout = running[w] /\ x.born = born[w]
    BY <2>3 DEF Result
  <2> HIDE DEF x
  <2>5. ToSet(results') = ToSet(results) \cup {x} /\ results' \in Seq(Result)
    BY <1>0, <2>1, <2>4, AppendFacts DEF Shape, x
  <2>6. TypeOK'
    <3>1. handles' \subseteq TrainRollout
      BY <1>0, <2>2, <2>3 DEF TypeOK, Rollout, TrainRollout, EvalRollout
    <3>2. stage' \in [Workers -> Stages]
      BY <1>0, <2>2 DEF TypeOK, Stages
    <3>3. ToSet(results') \subseteq Result
      BY <1>0, <2>4, <2>5 DEF TypeOK
    <3> QED BY <1>0, <1>1, <1>2, <2>2, <3>1, <3>2, <3>3 DEF TypeOK
  <2>7. Shape'
    BY <1>0, <1>1, <2>2, <2>3, <2>5 DEF Shape, TypeOK, Working
  <2>8. Recent
    <3>1. Working' \subseteq Working
      BY <1>0, <2>2 DEF Working, TypeOK
    <3> QED BY <1>0, <2>2, <2>3, <2>4, <2>5, <3>1 DEF Young
  <2>9. HandlesExact'
    <3> DEFINE rs == ToSet(results) \cup partial
               wanted(ys) == {y \in ys : y.rollout.kind = "train"}
               groups == UNION {Rollouts(g) : g \in CASE pc = "train" -> batch
                                                       [] pc \in {"sync", "done"} -> {}
                                                       [] OTHER -> valid}
    <3>1. handles = Rollouts(wanted(rs)) \cup groups
      BY <1>0 DEF HandlesExact
    <3>2. ToSet(results') \cup partial' = rs \cup {x}
      BY <1>1, <2>5
    <3>3. Rollouts(wanted(rs \cup {x})) =
            IF running[w].kind = "train" THEN Rollouts(wanted(rs)) \cup {running[w]}
                                         ELSE Rollouts(wanted(rs))
      BY <2>4 DEF Rollouts
    <3>4. handles' = Rollouts(wanted(rs \cup {x})) \cup groups
      BY <2>2, <3>1, <3>3
    <3> QED BY <1>1, <3>2, <3>4 DEF HandlesExact
  <2>10. Enqueued' \subseteq Enqueued
    BY <2>2 DEF Enqueued
  <2> QED BY <2>6, <2>7, <2>8, <2>9, <2>10
<1>6. ASSUME CompleteRollout(w) PROVE Kept
  <2>1. /\ UNCHANGED <<pending, results, born, handles>> /\ stage[w] = "published"
        /\ running' = [running EXCEPT ![w] = NoTask]
        /\ completed' = completed \cup {running[w]}
        /\ stage' = [stage EXCEPT ![w] = "idle"]
    BY <1>6 DEF CompleteRollout
  <2>2. running[w] \in Rollout /\ running[w] # NoTask
    BY <1>0, <2>1 DEF Shape, TypeOK
  <2>3. TypeOK'
    <3>1. /\ running' \in [Workers -> Rollout \cup {NoTask}]
          /\ stage' \in [Workers -> Stages]
          /\ completed' \subseteq Rollout
      BY <1>0, <2>1, <2>2 DEF TypeOK, Stages
    <3> QED BY <1>0, <1>1, <1>2, <2>1, <3>1 DEF TypeOK
  <2>4. Shape'
    BY <1>0, <1>1, <2>1 DEF Shape, TypeOK
  <2>5. Recent
    <3>1. Working' = Working
      BY <1>0, <2>1 DEF Working, TypeOK
    <3> QED BY <1>0, <2>1, <3>1 DEF Young
  <2>6. HandlesExact'
    BY <1>0, <1>1, <2>1 DEF HandlesExact
  <2>7. Enqueued' \subseteq Enqueued
    <3>1. \A v \in Workers : running'[v] = running[v] \/ running'[v] = NoTask
      BY <1>0, <2>1 DEF TypeOK
    <3> QED BY <2>1, <2>2, <3>1 DEF Enqueued
  <2> QED BY <2>3, <2>4, <2>5, <2>6, <2>7
<1>7. ASSUME FailRollout(w) \/ FailComplete(w) PROVE Kept
  <2>1. /\ UNCHANGED <<pending, running, completed, results, born, handles>>
        /\ \/ stage[w] = "rollout" /\ stage' = [stage EXCEPT ![w] = "failed"]
           \/ stage[w] = "published" /\ stage' = [stage EXCEPT ![w] = "unreleased"]
    BY <1>7 DEF FailRollout, FailComplete
  <2>2. TypeOK'
    <3>1. stage' \in [Workers -> Stages]
      BY <1>0, <2>1 DEF TypeOK, Stages
    <3> QED BY <1>0, <1>1, <1>2, <2>1, <3>1 DEF TypeOK
  <2>3. Shape'
    BY <1>0, <1>1, <2>1 DEF Shape, TypeOK
  <2>4. Recent
    <3>1. Working' = Working
      BY <1>0, <2>1 DEF Working, TypeOK
    <3> QED BY <1>0, <2>1, <3>1 DEF Young
  <2>5. HandlesExact'
    BY <1>0, <1>1, <2>1 DEF HandlesExact
  <2>6. Enqueued' \subseteq Enqueued
    BY <2>1 DEF Enqueued
  <2> QED BY <2>2, <2>3, <2>4, <2>5, <2>6
<1>8. Kept
  BY <1>4, <1>5, <1>6, <1>7 DEF Worker
<1>9. Conserved'
  BY <1>0, <1>1, <1>2, <1>3 DEF Conserved, TrainPhase, GroupDone
<1>10. ValidWhole'
  BY <1>0, <1>1, <1>2, <1>3 DEF ValidWhole
<1>11. Young'
  <2>1. \A b : Within(b, Budget)' <=> Within(b, Budget)
    BY <1>1, <1>2 DEF Within
  <2> QED BY <1>0, <1>1, <1>2, <1>8 DEF Young, Within, TrainPhase
<1>12. NoneAhead'
  BY <1>0, <1>1, <1>8 DEF NoneAhead
<1> QED BY <1>3, <1>8, <1>9, <1>10, <1>11, <1>12 DEF PipelineInv

---------------------------------------------------------------------------
(* The controller between the collections.                                  *)

\* The training rollouts whose results wait, and the groups whose tensors are kept.
Wanted == Rollouts({x \in ToSet(results) \cup partial : x.rollout.kind = "train"})
KeptGroups == CASE pc = "train" -> batch [] pc \in {"sync", "done"} -> {} [] OTHER -> valid

\* What waits is outstanding.
LEMMA WantedOutstanding ==
    Wanted \subseteq Outstanding
BY DEF Wanted, Outstanding, Rollouts, Taken

\* The subsets of a given size.
LEMMA SubsetsOfSize ==
    ASSUME NEW S, NEW n, NEW b \in kSubset(n, S)
    PROVE  b \subseteq S /\ Cardinality(b) = n
BY DEF kSubset

\* A larger budget allows as much.
LEMMA MoreBudget ==
    ASSUME TypeOK, NEW b, NEW small \in Int, NEW large \in Int, small <= large,
           Within(b, small)
    PROVE  Within(b, large)
<1>1. PICK n \in Nat : global_step = b + n * config.sync_every /\ n * Target <= small
  BY DEF Within
<1>2. n * Target \in Int
  BY ConfigFacts DEF TypeOK
<1>3. n * Target <= large
  BY <1>1, <1>2
<1> QED BY <1>1, <1>3 DEF Within

\* The budgets are integers.
LEMMA BudgetFacts ==
    ASSUME TypeOK, Shape
    PROVE  /\ Cardinality(valid) \in Nat /\ generated \in Nat /\ global_step \in Nat
           /\ Budget \in Int /\ Allowed \in Int
<1>1. Cardinality(valid) \in Nat
  BY FS_CardinalityType DEF Shape
<1>2. Scheduled \in Nat /\ Target \in Nat /\ generated \in Nat
  BY ConfigFacts DEF TypeOK
<1> QED BY <1>1, <1>2 DEF Budget, Allowed, Held, TypeOK

\* A failed worker ends the controller's loop; nothing else changes.
LEMMA HealthCheckStep ==
    ASSUME PipelineInv, HealthCheckRaises, config' = config
    PROVE  PipelineInv'
<1>0. /\ TypeOK /\ Shape /\ InOnePlace /\ Conserved /\ ValidWhole /\ Young /\ HandlesExact
      /\ NoneAhead
  BY DEF PipelineInv
<1>1. /\ UNCHANGED <<config, queueVars, collectVars, batch, collected, global_step, version,
                     prev_eval, handles>>
      /\ pc \in {"collect", "eval"} /\ pc' = "raised"
  BY DEF HealthCheckRaises
<1>2. UNCHANGED <<pending, running, completed, results, stage, born, sched, generated, partial,
                  valid>>
  BY <1>1 DEF queueVars, collectVars
<1>3. Scheduled' = Scheduled /\ Target' = Target /\ Allowed' = Allowed
  BY <1>1 DEF Scheduled, Target, Allowed
<1>4. Outstanding' = Outstanding /\ InOnePlace'
  BY <1>0, <1>1, <1>2, NothingMoves
<1>5. TypeOK' /\ Shape'
  BY <1>0, <1>1, <1>2, <1>3 DEF TypeOK, Shape, Pcs
<1>6. Conserved'
  BY <1>1 DEF Conserved, TrainPhase
<1>7. ValidWhole'
  BY <1>0, <1>2, <1>3, <1>4 DEF ValidWhole
<1>8. Young'
  BY <1>0, <1>1, <1>2, <1>3 DEF Young, TrainPhase, Within
<1>9. HandlesExact'
  BY <1>0, <1>1, <1>2 DEF HandlesExact
<1>10. NoneAhead'
  BY <1>0, <1>1, <1>2 DEF NoneAhead, Enqueued
<1> QED BY <1>4, <1>5, <1>6, <1>7, <1>8, <1>9, <1>10 DEF PipelineInv

\* The interval test only chooses where to go on.
LEMMA EvalsIfNeededStep ==
    ASSUME PipelineInv, EvalsIfNeeded, config' = config
    PROVE  PipelineInv'
<1>0. /\ TypeOK /\ Shape /\ InOnePlace /\ Conserved /\ ValidWhole /\ Young /\ HandlesExact
      /\ NoneAhead
  BY DEF PipelineInv
<1>1. /\ UNCHANGED <<config, queueVars, collectVars, batch, collected, global_step, version,
                     prev_eval, handles>>
      /\ pc = "evals_if_needed" /\ pc' \in {"schedule", "run_evals"}
  BY DEF EvalsIfNeeded
<1>2. UNCHANGED <<pending, running, completed, results, stage, born, sched, generated, partial,
                  valid>>
  BY <1>1 DEF queueVars, collectVars
<1>3. Scheduled' = Scheduled /\ Target' = Target /\ Allowed' = Allowed
  BY <1>1 DEF Scheduled, Target, Allowed
<1>4. Outstanding' = Outstanding /\ InOnePlace'
  BY <1>0, <1>1, <1>2, NothingMoves
<1>5. TypeOK' /\ Shape'
  BY <1>0, <1>1, <1>2, <1>3 DEF TypeOK, Shape, Pcs
<1>6. Conserved'
  BY <1>0, <1>1, <1>4 DEF Conserved, TrainPhase
<1>7. ValidWhole'
  BY <1>0, <1>2, <1>3, <1>4 DEF ValidWhole
<1>8. Young'
  BY <1>0, <1>1, <1>2, <1>3 DEF Young, TrainPhase, Within
<1>9. HandlesExact'
  BY <1>0, <1>1, <1>2 DEF HandlesExact
<1>10. NoneAhead'
  BY <1>0, <1>1, <1>2 DEF NoneAhead, Enqueued
<1> QED BY <1>4, <1>5, <1>6, <1>7, <1>8, <1>9, <1>10 DEF PipelineInv

\* Preparing a batch deletes the tensors of the groups it leaves out, and no others.
LEMMA PrepareBatchStep ==
    ASSUME PipelineInv, PrepareBatch, config' = config
    PROVE  PipelineInv'
<1>0. /\ TypeOK /\ Shape /\ InOnePlace /\ Conserved /\ ValidWhole /\ Young /\ HandlesExact
      /\ NoneAhead
  BY DEF PipelineInv
<1>1. /\ UNCHANGED <<config, queueVars, collectVars, collected, global_step, version, prev_eval>>
      /\ pc = "prepare" /\ pc' = "train" /\ batch' \in kSubset(Target, valid)
      /\ handles' = handles \ UNION {Rollouts(g) : g \in valid \ batch'}
  BY DEF PrepareBatch
<1>2. UNCHANGED <<pending, running, completed, results, stage, born, sched, generated, partial,
                  valid>>
  BY <1>1 DEF queueVars, collectVars
<1>3. /\ Scheduled' = Scheduled /\ Target' = Target /\ Allowed' = Allowed
      /\ Budget' = Budget
  BY <1>1, <1>2 DEF Scheduled, Target, Allowed, Budget, Held
<1>4. Outstanding' = Outstanding /\ InOnePlace'
  BY <1>0, <1>1, <1>2, NothingMoves
<1>5. batch' \subseteq valid
  BY <1>1, SubsetsOfSize
<1>6. TypeOK' /\ Shape'
  <2>1. handles' \subseteq TrainRollout
    BY <1>0, <1>1 DEF TypeOK
  <2>2. \A g \in valid' \cup batch' : g \subseteq Result
    BY <1>0, <1>2, <1>5 DEF TypeOK
  <2> QED BY <1>0, <1>1, <1>2, <1>3, <1>5, <2>1, <2>2 DEF TypeOK, Shape, Pcs
<1>7. Conserved'
  BY <1>0, <1>1, <1>2, <1>3, <1>4 DEF Conserved, TrainPhase, GroupDone
<1>8. ValidWhole'
  BY <1>0, <1>2, <1>3, <1>4 DEF ValidWhole
<1>9. Young'
  BY <1>0, <1>1, <1>2, <1>3 DEF Young, TrainPhase, Within, Working
<1>10. HandlesExact'
  <2>1. handles = Wanted \cup UNION {Rollouts(g) : g \in valid}
    BY <1>0, <1>1 DEF HandlesExact, Wanted
  <2>2. \A g \in valid : Wanted \cap Rollouts(g) = {}
    BY <1>0, WantedOutstanding DEF ValidWhole
  <2>3. \A g \in valid \ batch', h \in batch' : Rollouts(g) \cap Rollouts(h) = {}
    BY <1>0, <1>5 DEF ValidWhole
  <2>4. handles' = Wanted \cup UNION {Rollouts(g) : g \in batch'}
    BY <1>1, <1>5, <2>1, <2>2, <2>3
  <2>5. Wanted' = Wanted
    BY <1>2 DEF Wanted
  <2> QED BY <1>1, <2>4, <2>5 DEF HandlesExact, Wanted
<1>11. NoneAhead'
  BY <1>0, <1>1, <1>2 DEF NoneAhead, Enqueued
<1> QED BY <1>4, <1>6, <1>7, <1>8, <1>9, <1>10, <1>11 DEF PipelineInv

\* Training ages everything by one batch and takes as many groups out of the budget.
LEMMA TrainBatchStep ==
    ASSUME PipelineInv, TrainBatch, config' = config
    PROVE  PipelineInv'
<1>0. /\ TypeOK /\ Shape /\ InOnePlace /\ Conserved /\ ValidWhole /\ Young /\ HandlesExact
      /\ NoneAhead
  BY DEF PipelineInv
<1>1. /\ UNCHANGED <<config, queueVars, collectVars, batch, collected, version, prev_eval>>
      /\ pc = "train" /\ pc' = "sync" /\ global_step' = global_step + config.sync_every
      /\ handles' = handles \ UNION {Rollouts(g) : g \in batch}
  BY DEF TrainBatch
<1>2. UNCHANGED <<pending, running, completed, results, stage, born, sched, generated, partial,
                  valid>>
  BY <1>1 DEF queueVars, collectVars
<1>3. Scheduled' = Scheduled /\ Target' = Target /\ Allowed' = Allowed
  BY <1>1 DEF Scheduled, Target, Allowed
<1>4. Outstanding' = Outstanding /\ InOnePlace' /\ Working' = Working
  BY <1>0, <1>1, <1>2, NothingMoves
<1>5. /\ config.sync_every \in Nat /\ Target \in Nat /\ Scheduled \in Nat
      /\ Cardinality(valid) \in Nat /\ generated \in Nat /\ global_step \in Nat
  BY <1>0, ConfigFacts, BudgetFacts DEF TypeOK
<1>6. TypeOK' /\ Shape'
  <2>1. handles' \subseteq TrainRollout
    BY <1>0, <1>1 DEF TypeOK
  <2>2. global_step' \in Nat
    BY <1>1, <1>5
  <2>3. {global_step', version', prev_eval'} \subseteq Nat
    BY <1>0, <1>1, <2>2 DEF TypeOK
  <2> QED BY <1>0, <1>1, <1>2, <1>3, <2>1, <2>3 DEF TypeOK, Shape, Pcs
<1>7. Conserved'
  BY <1>0, <1>1, <1>2, <1>3, <1>4 DEF Conserved, TrainPhase, GroupDone
<1>8. ValidWhole'
  BY <1>0, <1>2, <1>3, <1>4 DEF ValidWhole
<1>9. Young'
  <2>1. CASE config.strict
    <3>1. Outstanding = {}
      BY <1>0, <1>1, <2>1, AllGenerated DEF Conserved, TrainPhase
    <3>2. Working = {} /\ results = <<>> /\ partial = {}
      BY <1>0, <3>1, NothingOutstanding
    <3>3. Working' = {} /\ ToSet(results') = {} /\ partial' = {}
      BY <1>2, <1>4, <3>2 DEF ToSet
    <3> QED BY <1>1, <2>1, <3>3 DEF Young
  <2>2. CASE ~config.strict
    <3>1. Cardinality(valid) >= Target
      BY <1>0, <1>1 DEF Young
    <3>2. Budget = Target - 1 + generated - Cardinality(valid)
      BY <1>1, <2>2 DEF Budget, Held
    <3>3. Budget' = Target - 1 + generated
      BY <1>1, <1>2, <1>3, <1>5, <2>2 DEF Budget, Held
    <3>4. ASSUME NEW b, b \in Nat, Within(b, Budget)
          PROVE  \E n \in Nat : /\ global_step' = b + n * config.sync_every
                                /\ n * Target <= Budget'
      <4>1. PICK n \in Nat : global_step = b + n * config.sync_every /\ n * Target <= Budget
        BY <3>4 DEF Within
      <4>2. n + 1 \in Nat
        OBVIOUS
      <4> \A a, m \in Nat : (a + 1) * m = a * m + m /\ a * m \in Nat
        OBVIOUS
      <4>3. (n + 1) * config.sync_every = n * config.sync_every + config.sync_every
        BY <1>5
      <4>4. (n + 1) * Target = n * Target + Target /\ n * Target \in Nat
        BY <1>5
      <4>5. global_step' = b + (n + 1) * config.sync_every
        <5>1. n * config.sync_every \in Nat
          BY <1>5
        <5> QED BY <1>1, <1>5, <3>4, <4>1, <4>3, <5>1
      <4>6. (n + 1) * Target <= Budget'
        BY <1>5, <3>1, <3>2, <3>3, <4>1, <4>4
      <4> QED BY <4>2, <4>5, <4>6
    <3>5. /\ Within(version, Budget) /\ version \in Nat
          /\ \A w \in Working : Within(born[w], Budget) /\ born[w] \in Nat
          /\ \A x \in ToSet(results) \cup partial : Within(x.born, Budget) /\ x.born \in Nat
      BY <1>0, <1>1, <2>2 DEF Young, TrainPhase, TypeOK, Result, Working
    <3>6. Within(version, Budget)'
      BY <1>1, <1>3, <3>4, <3>5 DEF Within
    <3>7. \A w \in Working' : Within(born[w], Budget)'
      BY <1>1, <1>2, <1>3, <1>4, <3>4, <3>5 DEF Within
    <3>8. \A x \in ToSet(results') \cup partial' : Within(x.born, Budget)'
      BY <1>1, <1>2, <1>3, <3>4, <3>5 DEF Within
    <3> QED BY <1>1, <3>6, <3>7, <3>8 DEF Young
  <2> QED BY <2>1, <2>2
<1>10. HandlesExact'
  <2>1. handles = Wanted \cup UNION {Rollouts(g) : g \in batch}
    BY <1>0, <1>1 DEF HandlesExact, Wanted
  <2>2. \A g \in batch : Wanted \cap Rollouts(g) = {}
    BY <1>0, WantedOutstanding DEF ValidWhole, Shape
  <2>3. handles' = Wanted
    BY <1>1, <2>1, <2>2
  <2>4. Wanted' = Wanted
    BY <1>2 DEF Wanted
  <2> QED BY <1>1, <2>3, <2>4 DEF HandlesExact, Wanted
<1>11. NoneAhead'
  BY <1>0, <1>1, <1>2 DEF NoneAhead, Enqueued
<1> QED BY <1>4, <1>6, <1>7, <1>8, <1>9, <1>10, <1>11 DEF PipelineInv

\* The sync makes the engine current and drops the batch.
LEMMA SyncWeightsStep ==
    ASSUME PipelineInv, SyncWeights, config' = config
    PROVE  PipelineInv'
<1>0. /\ TypeOK /\ Shape /\ InOnePlace /\ Conserved /\ ValidWhole /\ Young /\ HandlesExact
      /\ NoneAhead
  BY DEF PipelineInv
<1>1. /\ UNCHANGED <<config, queueVars, sched, generated, partial, collected, global_step,
                     prev_eval, handles>>
      /\ pc = "sync" /\ version' = global_step /\ batch' = {}
      /\ \/ pc' = "done" /\ valid' = valid
         \/ generated < Scheduled /\ pc' = "collect" /\ valid' = {}
         \/ ~(generated < Scheduled) /\ pc' = "evals_if_needed" /\ valid' = {}
  BY DEF SyncWeights
<1>2. UNCHANGED <<pending, running, completed, results, stage, born>>
  BY <1>1 DEF queueVars
<1>3. Scheduled' = Scheduled /\ Target' = Target /\ Allowed' = Allowed
  BY <1>1 DEF Scheduled, Target, Allowed
<1>4. Outstanding' = Outstanding /\ InOnePlace' /\ Working' = Working
  BY <1>0, <1>1, <1>2, NothingMoves
<1>5. /\ config.sync_every \in Nat /\ Target \in Nat \ {0} /\ Scheduled \in Nat
      /\ generated \in Nat /\ global_step \in Nat
  BY <1>0, ConfigFacts, BudgetFacts DEF TypeOK
<1>6. Cardinality({}) = 0 /\ IsFiniteSet({})
  BY FS_EmptySet
<1>7. TypeOK' /\ Shape'
  <2>1. \A g \in valid' \cup batch' : g \subseteq Result
    BY <1>0, <1>1 DEF TypeOK
  <2>2. IsFiniteSet(valid')
    BY <1>0, <1>1, <1>6 DEF Shape
  <2>3. {global_step', version', prev_eval'} \subseteq Nat
    BY <1>0, <1>1 DEF TypeOK
  <2> QED BY <1>0, <1>1, <1>2, <1>3, <2>1, <2>2, <2>3 DEF TypeOK, Shape, Pcs
<1>8. Conserved'
  <2>1. pc' = "evals_if_needed" => Outstanding' = {}
    BY <1>0, <1>1, <1>4, <1>5, AllGenerated DEF TrainPhase
  <2> QED BY <1>0, <1>1, <1>2, <1>3, <1>4, <2>1 DEF Conserved, TrainPhase, GroupDone
<1>9. ValidWhole'
  BY <1>0, <1>1, <1>3, <1>4 DEF ValidWhole
<1>10. Young'
  <2>1. CASE pc' = "collect"
    <3>1. Budget' = Budget /\ 0 <= Budget
      <4>1. Held = 0 /\ Held' = 0
        BY <1>1, <1>6, <2>1 DEF Held
      <4>2. Budget = IF config.strict THEN 0 ELSE Target - 1 + generated
        BY <1>5, <4>1 DEF Budget
      <4>3. Budget' = IF config.strict THEN 0 ELSE Target - 1 + generated
        BY <1>1, <1>3, <1>5, <4>1 DEF Budget
      <4> QED BY <1>5, <4>2, <4>3
    <3>2. Within(version, Budget)'
      <4>1. global_step' = version' + 0 * config.sync_every /\ 0 * Target <= Budget
        BY <1>1, <1>5, <3>1
      <4> QED BY <1>1, <1>3, <3>1, <4>1 DEF Within
    <3>3. \A w \in Working' : Within(born[w], Budget)'
      BY <1>0, <1>1, <1>2, <1>3, <1>4, <3>1 DEF Within, Young, TrainPhase
    <3>4. \A x \in ToSet(results') \cup partial' : Within(x.born, Budget)'
      BY <1>0, <1>1, <1>2, <1>3, <3>1 DEF Within, Young, TrainPhase
    <3>5. valid' = {} /\ Cardinality(valid') < Target'
      BY <1>1, <1>3, <1>5, <1>6, <2>1
    <3> QED BY <1>1, <2>1, <3>2, <3>3, <3>4, <3>5 DEF Young
  <2>2. CASE pc' # "collect"
    BY <1>1, <1>3, <1>5, <1>6, <2>2 DEF Young, TrainPhase
  <2> QED BY <2>1, <2>2
<1>11. HandlesExact'
  BY <1>0, <1>1, <1>2 DEF HandlesExact
<1>12. NoneAhead'
  BY <1>0, <1>1, <1>2 DEF NoneAhead, Enqueued
<1> QED BY <1>4, <1>7, <1>8, <1>9, <1>10, <1>11, <1>12 DEF PipelineInv

---------------------------------------------------------------------------
(* The controller enqueues when nothing is outstanding.                      *)

\* A new schedule: its rollouts are the only outstanding ones.
LEMMA ScheduleGroupsStep ==
    ASSUME PipelineInv, ScheduleGroups, config' = config
    PROVE  PipelineInv'
<1>0. /\ TypeOK /\ Shape /\ InOnePlace /\ Conserved /\ ValidWhole /\ Young /\ HandlesExact
      /\ NoneAhead
  BY DEF PipelineInv
<1> DEFINE ts == TrainSchedule(sched + 1, Scheduled)
           groups == {GroupRollouts(sched + 1, k) : k \in 1..Scheduled}
<1>1. /\ pc = "schedule" /\ sched < MaxSchedules /\ sched' = sched + 1
      /\ pending' = pending \o ts /\ generated' = 0 /\ partial' = {} /\ pc' = "collect"
      /\ UNCHANGED <<config, running, completed, results, stage, born, valid, batch, collected,
                     global_step, version, prev_eval, handles>>
  BY DEF ScheduleGroups
<1>2. Scheduled' = Scheduled /\ Target' = Target /\ Allowed' = Allowed
  BY <1>1 DEF Scheduled, Target, Allowed
<1>3. /\ config.sync_every \in Nat /\ Target \in Nat \ {0} /\ Scheduled \in Nat \ {0}
      /\ global_step \in Nat /\ Scheduled <= MostGroups /\ MostGroups \in Nat
      /\ GroupSize \in Nat \ {0} /\ MaxSchedules \in Nat /\ Cardinality(valid) \in Nat
  BY <1>0, ConfigFacts, BudgetFacts DEF TypeOK
<1>4. sched \in Nat /\ sched + 1 \in ScheduleIds
  BY <1>0, <1>1, <1>3 DEF TypeOK, ScheduleIds
<1>5. /\ ts \in Seq(Rollout) /\ ToSet(ts) = UNION groups
      /\ \A i, j \in DOMAIN ts : ts[i] = ts[j] => i = j
  BY <1>3, <1>4, TrainScheduleFacts
<1> HIDE DEF ts
<1>6. Outstanding = {}
  BY <1>0, <1>1 DEF Conserved
<1>7. partial = {} /\ collected = {} /\ results = <<>> /\ Taken' = {}
  BY <1>0, <1>1, <1>6, NothingOutstanding DEF Taken
<1>8. /\ pending' = ts /\ Outstanding' = UNION groups /\ InOnePlace' /\ Working' = {}
      /\ results' = <<>>
  BY <1>0, <1>1, <1>5, <1>6, <1>7, Enqueuing
<1>9. ToSet(results') = {} /\ ToSet(results) = {}
  BY <1>7, <1>8 DEF ToSet
<1>10. TypeOK' /\ Shape'
  <2>1. ToSet(pending') \subseteq Rollout /\ pending' \in Seq(Rollout)
    BY <1>5, <1>8 DEF ToSet
  <2>2. generated' \in 0..Scheduled
    BY <1>1, <1>3
  <2> QED BY <1>0, <1>1, <1>2, <1>4, <2>1, <2>2 DEF TypeOK, Shape, Pcs
<1>11. Conserved'
  <2>1. \A k \in 1..Scheduled : /\ GroupRollouts(sched', k) \subseteq Outstanding'
                                /\ ~(GroupRollouts(sched', k) \cap Outstanding' = {})
    <3>1. \A k \in 1..Scheduled : GroupRollouts(sched', k) \in groups
      BY <1>1
    <3>2. \A k \in 1..Scheduled : GroupRollouts(sched', k) # {}
      BY GroupFacts
    <3> QED BY <1>8, <3>1, <3>2
  <2>2. {k \in 1..Scheduled : GroupRollouts(sched', k) \cap Outstanding' = {}} = {}
    BY <2>1
  <2>3. generated' = Cardinality({k \in 1..Scheduled' : GroupDone(k)'})
    BY <1>1, <1>2, <2>2, FS_EmptySet DEF GroupDone
  <2> QED BY <1>1, <1>2, <1>7, <1>8, <2>1, <2>3 DEF Conserved, TrainPhase, GroupDone
<1>12. ValidWhole'
  <2>1. ASSUME NEW s \in ScheduleIds, s <= sched, NEW j, NEW k
        PROVE  GroupRollouts(s, j) \cap GroupRollouts(sched + 1, k) = {}
    <3>1. s # sched + 1
      BY <1>4, <2>1 DEF ScheduleIds
    <3> QED BY <3>1 DEF GroupRollouts
  <2>2. \A g \in valid : Rollouts(g) \cap UNION groups = {}
    <3> SUFFICES ASSUME NEW g \in valid, NEW k \in 1..Scheduled
                 PROVE  Rollouts(g) \cap GroupRollouts(sched + 1, k) = {}
      OBVIOUS
    <3>1. PICK s \in ScheduleIds, j \in 1..Scheduled :
            s <= sched /\ Rollouts(g) = GroupRollouts(s, j)
      BY <1>0 DEF ValidWhole
    <3> QED BY <2>1, <3>1
  <2>3. \A s \in ScheduleIds : s <= sched => s <= sched'
    BY <1>1, <1>4 DEF ScheduleIds
  <2> QED BY <1>0, <1>1, <1>2, <1>8, <2>2, <2>3 DEF ValidWhole
<1>13. Young'
  <2>1. 0 <= Budget'
    <3>1. Held' = Cardinality(valid)
      BY <1>1 DEF Held
    <3>2. config.strict \/ Cardinality(valid) < Target
      BY <1>0, <1>1 DEF Young
    <3> QED BY <1>1, <1>2, <1>3, <3>1, <3>2 DEF Budget
  <2>2. Within(version, Budget)'
    <3>1. global_step' = version' + 0 * config.sync_every /\ 0 * Target <= Budget'
      BY <1>0, <1>1, <1>3, <2>1 DEF Young
    <3> QED BY <1>1, <1>2, <3>1 DEF Within
  <2>3. \A g \in valid' : \A x \in g : Within(x.born, Allowed)'
    BY <1>0, <1>1, <1>2 DEF Young, Within
  <2> QED BY <1>0, <1>1, <1>2, <1>8, <1>9, <2>2, <2>3 DEF Young
<1>14. HandlesExact'
  BY <1>0, <1>1, <1>7, <1>9 DEF HandlesExact
<1>15. NoneAhead'
  <2>1. \A r \in ToSet(ts) : r.sched = sched + 1 /\ r.kind = "train"
    BY <1>5 DEF GroupRollouts
  <2>2. Enqueued' \subseteq ToSet(ts) \cup Enqueued
    BY <1>1, <1>8 DEF Enqueued
  <2>3. \A r \in Enqueued : r \in Rollout /\ r.sched \in Nat
    <3>1. Enqueued \subseteq Rollout
      BY <1>0 DEF TypeOK, Enqueued
    <3> QED BY <3>1 DEF Rollout, TrainRollout, EvalRollout, ScheduleIds
  <2> QED BY <1>0, <1>1, <1>4, <2>1, <2>2, <2>3 DEF NoneAhead
<1> QED BY <1>8, <1>10, <1>11, <1>12, <1>13, <1>14, <1>15 DEF PipelineInv

\* A new evaluation: its rollouts are the only outstanding ones.
LEMMA StartEvalStep ==
    ASSUME PipelineInv, StartEval, config' = config
    PROVE  PipelineInv'
<1>0. /\ TypeOK /\ Shape /\ InOnePlace /\ Conserved /\ ValidWhole /\ Young /\ HandlesExact
      /\ NoneAhead
  BY DEF PipelineInv
<1> DEFINE ts == EvalSchedule(sched)
<1>1. /\ pc = "run_evals" /\ pending' = pending \o ts /\ collected' = {} /\ pc' = "eval"
      /\ UNCHANGED <<config, running, completed, results, stage, born, collectVars, batch,
                     global_step, version, prev_eval, handles>>
  BY DEF StartEval
<1>2. UNCHANGED <<sched, generated, partial, valid>>
  BY <1>1 DEF collectVars
<1>3. Scheduled' = Scheduled /\ Target' = Target /\ Allowed' = Allowed
  BY <1>1 DEF Scheduled, Target, Allowed
<1>4. sched \in ScheduleIds
  BY <1>0 DEF TypeOK
<1>5. /\ ts \in Seq(Rollout) /\ ToSet(ts) = EvalSet(sched)
      /\ \A i, j \in DOMAIN ts : ts[i] = ts[j] => i = j
  BY <1>4, EvalScheduleFacts
<1> HIDE DEF ts
<1>6. Outstanding = {}
  BY <1>0, <1>1 DEF Conserved
<1>7. partial = {} /\ results = <<>> /\ Taken' = {}
  BY <1>0, <1>1, <1>2, <1>6, NothingOutstanding DEF Taken
<1>8. /\ pending' = ts /\ Outstanding' = EvalSet(sched) /\ InOnePlace' /\ Working' = {}
      /\ results' = <<>>
  BY <1>0, <1>1, <1>5, <1>6, <1>7, Enqueuing
<1>9. TypeOK' /\ Shape'
  <2>1. ToSet(pending') \subseteq Rollout /\ pending' \in Seq(Rollout)
    BY <1>5, <1>8 DEF ToSet
  <2> QED BY <1>0, <1>1, <1>2, <1>3, <2>1 DEF TypeOK, Shape, Pcs
<1>10. Conserved'
  BY <1>1, <1>2, <1>7, <1>8 DEF Conserved, TrainPhase
<1>11. ValidWhole'
  <2>1. \A s, k : GroupRollouts(s, k) \cap EvalSet(sched) = {}
    BY DEF GroupRollouts, EvalSet
  <2> QED BY <1>0, <1>2, <1>3, <1>8, <2>1 DEF ValidWhole
<1>12. Young'
  BY <1>0, <1>1, <1>2, <1>3 DEF Young, TrainPhase, Within
<1>13. HandlesExact'
  BY <1>0, <1>1, <1>2 DEF HandlesExact
<1>14. NoneAhead'
  <2>1. \A r \in ToSet(ts) : r.sched = sched
    BY <1>5 DEF EvalSet
  <2>2. Enqueued' \subseteq ToSet(ts) \cup Enqueued
    BY <1>1, <1>8 DEF Enqueued
  <2>3. sched <= sched
    BY <1>4 DEF ScheduleIds
  <2> QED BY <1>0, <1>1, <1>2, <2>1, <2>2, <2>3 DEF NoneAhead
<1> QED BY <1>8, <1>9, <1>10, <1>11, <1>12, <1>13, <1>14 DEF PipelineInv

---------------------------------------------------------------------------
(* The controller collects.                                                 *)

\* The result that ends an evaluation is the last one outstanding.
LEMMA CollectEvalStep ==
    ASSUME PipelineInv, CollectEval, config' = config
    PROVE  PipelineInv'
<1>0. /\ TypeOK /\ Shape /\ InOnePlace /\ Conserved /\ ValidWhole /\ Young /\ HandlesExact
      /\ NoneAhead
  BY DEF PipelineInv
<1> DEFINE x == Head(results)
           c == collected \cup {x}
           more == Cardinality(c) < EvalRollouts
           gone == IF more THEN {} ELSE c
<1>1. /\ pc = "eval" /\ results # <<>> /\ results' = Tail(results)
      /\ collected' = IF more THEN c ELSE {}
      /\ pc' = IF more THEN "eval" ELSE "schedule"
      /\ prev_eval' = IF more THEN prev_eval ELSE global_step
      /\ UNCHANGED <<config, pending, running, completed, stage, born, collectVars, batch,
                     global_step, version, handles>>
  BY DEF CollectEval
<1>2. UNCHANGED <<sched, generated, partial, valid>>
  BY <1>1 DEF collectVars
<1>3. Scheduled' = Scheduled /\ Target' = Target /\ Allowed' = Allowed
  BY <1>1 DEF Scheduled, Target, Allowed
<1>4. partial = {} /\ Outstanding = EvalSet(sched) /\ Taken = collected
  BY <1>0, <1>1 DEF Conserved, Taken
<1>5. /\ x \in Result /\ Tail(results) \in Seq(Result)
      /\ ToSet(results) = {x} \cup ToSet(Tail(results))
  BY <1>0, <1>1, OldestResult
<1> HIDE DEF x, more
<1>6. Outstanding' = Outstanding \ Rollouts(gone) /\ InOnePlace'
  <2>1. gone \in SUBSET (Taken \cup {x})
    BY <1>4
  <2>2. Taken' = (Taken \cup {x}) \ gone
    BY <1>1, <1>2, <1>4 DEF Taken
  <2> HIDE DEF gone
  <2> QED BY <1>0, <1>1, <2>1, <2>2, ControllerTakes DEF x
<1>7. x.rollout \in Outstanding /\ Rollouts(c) \subseteq Outstanding
  <2>1. x.rollout \in Rollouts(ToSet(results))
    BY <1>5 DEF Rollouts
  <2>2. Rollouts(c) = Rollouts(Taken) \cup {x.rollout}
    BY <1>4, OneMoreRollout
  <2> QED BY <2>1, <2>2 DEF Outstanding
<1>8. ~more => Outstanding' = {}
  <2>1. \A y, z \in c : y.rollout = z.rollout => y = z
    <3>1. x.rollout \in Rollouts(ToSet(results))
      BY <1>5 DEF Rollouts
    <3>2. \A y \in Taken : y.rollout \in Rollouts(Taken)
      BY DEF Rollouts
    <3>3. \A y \in Taken : y.rollout # x.rollout
      BY <1>0, <3>1, <3>2 DEF InOnePlace
    <3> QED BY <1>0, <1>4, <3>3 DEF InOnePlace
  <2>2. /\ IsFiniteSet(EvalSet(sched)) /\ Cardinality(EvalSet(sched)) = EvalRollouts
    BY EvalFacts
  <2>3. Rollouts(c) \subseteq EvalSet(sched)
    BY <1>4, <1>7
  <2> HIDE DEF c
  <2>4. Cardinality(c) >= EvalRollouts => Rollouts(c) = EvalSet(sched)
    BY <2>1, <2>2, <2>3, AllOfThem
  <2>5. Cardinality(c) \in Nat /\ EvalRollouts \in Nat
    BY <2>1, <2>2, <2>3, AllOfThem
  <2>6. ~more => Cardinality(c) >= EvalRollouts
    BY <2>5 DEF more
  <2> QED BY <1>4, <1>6, <2>4, <2>6
<1>9. more => Outstanding' = Outstanding
  BY <1>6 DEF Rollouts
<1>10. TypeOK' /\ Shape'
  <2>1. ToSet(results') \subseteq Result /\ results' \in Seq(Result)
    BY <1>1, <1>5 DEF ToSet
  <2>2. collected' \subseteq Result
    BY <1>0, <1>1, <1>5 DEF TypeOK
  <2>3. {global_step', version', prev_eval'} \subseteq Nat
    BY <1>0, <1>1 DEF TypeOK
  <2> QED BY <1>0, <1>1, <1>2, <1>3, <2>1, <2>2, <2>3 DEF TypeOK, Shape, Pcs
<1>11. Conserved'
  BY <1>1, <1>2, <1>4, <1>8, <1>9 DEF Conserved, TrainPhase
<1>12. ValidWhole'
  <2>1. Outstanding' \subseteq Outstanding
    BY <1>6
  <2> QED BY <1>0, <1>2, <1>3, <2>1 DEF ValidWhole
<1>13. Young'
  BY <1>0, <1>1, <1>2, <1>3 DEF Young, TrainPhase, Within
<1>14. HandlesExact'
  <2>1. x.rollout.kind # "train"
    BY <1>4, <1>7 DEF EvalSet
  <2>2. {y \in ToSet(results) \cup partial : y.rollout.kind = "train"}
           = {y \in ToSet(results') \cup partial' : y.rollout.kind = "train"}
    BY <1>1, <1>2, <1>5, <2>1
  <2> QED BY <1>0, <1>1, <1>2, <2>2 DEF HandlesExact
<1>15. NoneAhead'
  BY <1>0, <1>1, <1>2 DEF NoneAhead, Enqueued
<1> QED BY <1>6, <1>10, <1>11, <1>12, <1>13, <1>14, <1>15 DEF PipelineInv

\* The oldest result and what arrived of its group.
HeadGroup ==
    {Head(results)} \cup {y \in partial : GroupOf(y.rollout) = GroupOf(Head(results).rollout)}

\* The head group holds rollouts of one outstanding group of this schedule, and when
\* they are enough, all of them.
LEMMA HeadGroupFacts ==
    ASSUME PipelineInv, pc = "collect", results # <<>>
    PROVE  \E k \in 1..Scheduled :
             /\ ~GroupDone(k) /\ GroupRollouts(sched, k) \subseteq Outstanding
             /\ Rollouts(HeadGroup) \subseteq GroupRollouts(sched, k)
             /\ HeadGroup \subseteq Taken \cup {Head(results)} /\ HeadGroup \subseteq Result
             /\ Cardinality(HeadGroup) \in Nat
             /\ Cardinality(HeadGroup) >= GroupSize =>
                  /\ Rollouts(HeadGroup) = GroupRollouts(sched, k)
                  /\ Cardinality(HeadGroup) = GroupSize
<1>0. TypeOK /\ Shape /\ InOnePlace /\ Conserved
  BY DEF PipelineInv
<1> DEFINE x == Head(results)
<1>1. /\ collected = {} /\ Taken = partial
      /\ Outstanding \subseteq UNION {GroupRollouts(sched, k) : k \in 1..Scheduled}
      /\ \A k \in 1..Scheduled : GroupDone(k) \/ GroupRollouts(sched, k) \subseteq Outstanding
  BY <1>0 DEF Conserved, TrainPhase, Taken
<1>2. x \in Result /\ x \in ToSet(results)
  BY <1>0, OldestResult
<1>3. x.rollout \in Rollouts(ToSet(results)) /\ x.rollout \in Outstanding
  BY <1>2 DEF Rollouts, Outstanding
<1>4. PICK k \in 1..Scheduled : x.rollout \in GroupRollouts(sched, k)
  BY <1>1, <1>3
<1>5. ~GroupDone(k) /\ GroupRollouts(sched, k) \subseteq Outstanding
  BY <1>1, <1>3, <1>4 DEF GroupDone
<1>6. \A y \in HeadGroup : y.rollout \in Outstanding
  <2>1. \A y \in partial : y.rollout \in Outstanding
    BY DEF Outstanding, Rollouts, Taken
  <2> QED BY <1>3, <2>1 DEF HeadGroup
<1>7. \A y \in HeadGroup : y.rollout \in GroupRollouts(sched, k)
  <2> SUFFICES ASSUME NEW y \in HeadGroup PROVE y.rollout \in GroupRollouts(sched, k)
    OBVIOUS
  <2>1. PICK j \in 1..Scheduled : y.rollout \in GroupRollouts(sched, j)
    BY <1>1, <1>6
  <2>2. \A i : \A r \in GroupRollouts(sched, i) : r.group = i
    BY DEF GroupRollouts
  <2>3. y.rollout.group = j /\ x.rollout.group = k
    BY <1>4, <2>1, <2>2
  <2>4. y.rollout.group = x.rollout.group
    BY DEF HeadGroup, GroupOf
  <2> QED BY <2>1, <2>3, <2>4
<1>8. Rollouts(HeadGroup) \subseteq GroupRollouts(sched, k)
  BY <1>7 DEF Rollouts
<1>9. HeadGroup \subseteq Taken \cup {x} /\ HeadGroup \subseteq Result
  BY <1>0, <1>1, <1>2 DEF HeadGroup, TypeOK
<1>10. \A y, z \in HeadGroup : y.rollout = z.rollout => y = z
  <2>1. \A y \in Taken : y.rollout \in Rollouts(Taken)
    BY DEF Rollouts
  <2>2. \A y \in Taken : y.rollout # x.rollout
    BY <1>0, <1>3, <2>1 DEF InOnePlace
  <2> QED BY <1>0, <1>9, <2>2 DEF InOnePlace
<1>11. /\ Cardinality(HeadGroup) \in Nat
       /\ Cardinality(HeadGroup) >= GroupSize =>
            /\ Rollouts(HeadGroup) = GroupRollouts(sched, k)
            /\ Cardinality(HeadGroup) = GroupSize
  BY <1>8, <1>10, GroupFacts, AllOfThem
<1> QED BY <1>5, <1>8, <1>9, <1>11

\* A result that leaves its group incomplete waits for the others.
LEMMA StreamResultWaits ==
    ASSUME PipelineInv, StreamResult, config' = config, Cardinality(HeadGroup) < GroupSize
    PROVE  PipelineInv'
<1>0. /\ TypeOK /\ Shape /\ InOnePlace /\ Conserved /\ ValidWhole /\ Young /\ HandlesExact
      /\ NoneAhead
  BY DEF PipelineInv
<1> DEFINE x == Head(results)
<1>1. /\ pc = "collect" /\ results # <<>> /\ results' = Tail(results)
      /\ partial' = partial \cup {x}
      /\ UNCHANGED <<config, pending, running, completed, stage, born, sched, generated, valid,
                     pc, batch, collected, global_step, version, prev_eval, handles>>
  BY DEF StreamResult, HeadGroup
<1>2. /\ Scheduled' = Scheduled /\ Target' = Target /\ Allowed' = Allowed /\ Budget' = Budget
  BY <1>1 DEF Scheduled, Target, Allowed, Budget, Held
<1>3. /\ x \in Result /\ Tail(results) \in Seq(Result)
      /\ ToSet(results) = {x} \cup ToSet(Tail(results))
  BY <1>0, <1>1, OldestResult
<1>4. Outstanding' = Outstanding /\ InOnePlace'
  <2>1. Taken' = (Taken \cup {x}) \ {}
    BY <1>1 DEF Taken
  <2>2. {} \in SUBSET (Taken \cup {x})
    OBVIOUS
  <2>3. Outstanding' = Outstanding \ Rollouts({}) /\ InOnePlace'
    <3>1. UNCHANGED <<pending, running, stage>>
      BY <1>1
    <3> QED BY <1>0, <1>1, <2>1, <2>2, <3>1, ControllerTakes
  <2> QED BY <2>3 DEF Rollouts
<1> HIDE DEF x
<1>5. ToSet(results') \cup partial' = ToSet(results) \cup partial
  BY <1>1, <1>3
<1>6. TypeOK' /\ Shape'
  <2>1. ToSet(results') \subseteq Result /\ results' \in Seq(Result)
    BY <1>1, <1>3 DEF ToSet
  <2>2. partial' \subseteq Result
    BY <1>0, <1>1, <1>3 DEF TypeOK
  <2> QED BY <1>0, <1>1, <1>2, <2>1, <2>2 DEF TypeOK, Shape, Pcs
<1>7. Conserved'
  BY <1>0, <1>1, <1>2, <1>4 DEF Conserved, TrainPhase, GroupDone
<1>8. ValidWhole'
  BY <1>0, <1>1, <1>2, <1>4 DEF ValidWhole
<1>9. Young'
  <2>1. Working' = Working
    BY <1>1 DEF Working
  <2> QED BY <1>0, <1>1, <1>2, <1>5, <2>1 DEF Young, TrainPhase, Within
<1>10. HandlesExact'
  BY <1>0, <1>1, <1>5 DEF HandlesExact
<1>11. NoneAhead'
  BY <1>0, <1>1 DEF NoneAhead, Enqueued
<1> QED BY <1>4, <1>6, <1>7, <1>8, <1>9, <1>10, <1>11 DEF PipelineInv

\* The result that completes its group: one more group of the schedule is done, and
\* it is kept with its tensors or skipped without them.
LEMMA StreamResultCompletes ==
    ASSUME PipelineInv, StreamResult, config' = config, ~(Cardinality(HeadGroup) < GroupSize)
    PROVE  PipelineInv'
<1>0. /\ TypeOK /\ Shape /\ InOnePlace /\ Conserved /\ ValidWhole /\ Young /\ HandlesExact
      /\ NoneAhead
  BY DEF PipelineInv
<1> DEFINE x == Head(results)
           g == HeadGroup
           passed == Passes(g)
<1>1. /\ pc = "collect" /\ results # <<>> /\ results' = Tail(results)
      /\ partial' = partial \ g /\ generated' = generated + 1
      /\ valid' = IF passed THEN valid \cup {g} ELSE valid
      /\ handles' = IF passed THEN handles ELSE handles \ Rollouts(g)
      /\ pc' = AfterGroup(passed, Cardinality(valid'), generated + 1)
      /\ UNCHANGED <<config, pending, running, completed, stage, born, sched, batch, collected,
                     global_step, version, prev_eval>>
  BY DEF StreamResult, HeadGroup
<1>2. /\ Scheduled' = Scheduled /\ Target' = Target /\ Allowed' = Allowed
  BY <1>1 DEF Scheduled, Target, Allowed
<1>3. /\ x \in Result /\ Tail(results) \in Seq(Result)
      /\ ToSet(results) = {x} \cup ToSet(Tail(results))
  BY <1>0, <1>1, OldestResult
<1>4. /\ Target \in Nat \ {0} /\ Scheduled \in Nat \ {0} /\ generated \in Nat
      /\ Cardinality(valid) \in Nat /\ GroupSize \in Nat \ {0} /\ Budget \in Int /\ Allowed \in Int
  BY <1>0, ConfigFacts, BudgetFacts DEF TypeOK
<1>5. PICK k \in 1..Scheduled :
             /\ ~GroupDone(k) /\ GroupRollouts(sched, k) \subseteq Outstanding
             /\ g \subseteq Taken \cup {x} /\ g \subseteq Result
             /\ Rollouts(g) = GroupRollouts(sched, k) /\ Cardinality(g) = GroupSize
  <2>1. PICK k \in 1..Scheduled :
             /\ ~GroupDone(k) /\ GroupRollouts(sched, k) \subseteq Outstanding
             /\ g \subseteq Taken \cup {x} /\ g \subseteq Result
             /\ Cardinality(g) \in Nat
             /\ Cardinality(g) >= GroupSize =>
                  Rollouts(g) = GroupRollouts(sched, k) /\ Cardinality(g) = GroupSize
    BY <1>1, HeadGroupFacts
  <2>2. Cardinality(g) >= GroupSize
    BY <1>4, <2>1
  <2> QED BY <2>1, <2>2
<1>6. x \in g /\ collected = {} /\ Taken = partial
  BY <1>0, <1>1 DEF HeadGroup, Conserved, TrainPhase, Taken
<1> HIDE DEF x, g, passed
<1>7. Outstanding' = Outstanding \ GroupRollouts(sched, k) /\ InOnePlace'
  <2>1. Taken' = (Taken \cup {x}) \ g
    BY <1>1, <1>6 DEF Taken
  <2>2. g \in SUBSET (Taken \cup {x})
    BY <1>5
  <2>3. Outstanding' = Outstanding \ Rollouts(g) /\ InOnePlace'
    BY <1>0, <1>1, <2>1, <2>2, ControllerTakes DEF x
  <2> QED BY <1>5, <2>3
<1>8. \A j \in 1..Scheduled : j # k => GroupRollouts(sched, j) \cap GroupRollouts(sched, k) = {}
  BY DEF GroupRollouts
<1>9. \A j \in 1..Scheduled :
        /\ GroupDone(j)' <=> GroupDone(j) \/ j = k
        /\ GroupDone(j)' \/ GroupRollouts(sched', j) \subseteq Outstanding'
  <2>1. \A j \in 1..Scheduled : GroupDone(j) \/ GroupRollouts(sched, j) \subseteq Outstanding
    BY <1>0, <1>1 DEF Conserved, TrainPhase
  <2> QED BY <1>1, <1>5, <1>7, <1>8, <2>1 DEF GroupDone
<1> DEFINE done == {j \in 1..Scheduled : GroupDone(j)}
<1>10. /\ {j \in 1..Scheduled' : GroupDone(j)'} = done \cup {k}
       /\ generated' = Cardinality(done \cup {k}) /\ generated' \in 0..Scheduled
  <2>1. {j \in 1..Scheduled' : GroupDone(j)'} = done \cup {k}
    BY <1>2, <1>9
  <2>0. 1 \in Int /\ Scheduled \in Int /\ ~(1 > Scheduled) /\ Scheduled - 1 + 1 = Scheduled
    BY <1>4
  <2>2. IsFiniteSet(1..Scheduled) /\ Cardinality(1..Scheduled) = Scheduled
    BY <2>0, FS_Interval
  <2>3. IsFiniteSet(done) /\ done \cup {k} \in SUBSET (1..Scheduled)
    BY <2>2, FS_Subset
  <2>4. generated = Cardinality(done) /\ k \notin done
    BY <1>0, <1>1, <1>5 DEF Conserved, TrainPhase
  <2> HIDE DEF done
  <2>5. generated' = Cardinality(done \cup {k})
    BY <1>1, <2>3, <2>4, FS_AddElement
  <2>6. Cardinality(done \cup {k}) <= Scheduled
    BY <2>2, <2>3, FS_Subset
  <2> QED BY <1>1, <1>4, <2>1, <2>5, <2>6
<1>11. generated < Scheduled
  BY <1>1, <1>4, <1>10
<1>12. /\ IsFiniteSet(valid') /\ Cardinality(valid') \in Nat
       /\ Cardinality(valid') <= Cardinality(valid) + 1
       /\ ~passed => Cardinality(valid') = Cardinality(valid)
  <2>1. IsFiniteSet(valid)
    BY <1>0 DEF Shape
  <2>2. /\ IsFiniteSet(valid \cup {g})
        /\ Cardinality(valid \cup {g}) = IF g \in valid THEN Cardinality(valid)
                                                       ELSE Cardinality(valid) + 1
    BY <2>1, FS_AddElement
  <2> QED BY <1>1, <1>4, <2>1, <2>2
<1>13. /\ \/ /\ pc' = "prepare" /\ Cardinality(valid') >= Target
             /\ config.strict => generated' >= Scheduled
          \/ /\ pc' \in {"collect", "evals_if_needed"}
             /\ ~config.strict => Cardinality(valid') < Target
       /\ pc' = "evals_if_needed" => generated' >= Scheduled
  <2>1. config.strict \/ Cardinality(valid) < Target
    BY <1>0, <1>1 DEF Young
  <2>2. pc' = AfterGroup(passed, Cardinality(valid'), generated')
    BY <1>1
  <2>3. generated' \in Nat
    BY <1>4, <1>10
  <2> QED BY <1>4, <1>12, <2>1, <2>2, <2>3 DEF AfterGroup
<1>14. Rollouts(g) \cap Outstanding' = {} /\ Outstanding' \subseteq Outstanding
  BY <1>5, <1>7
<1>15. \A h \in valid : Rollouts(h) \cap Rollouts(g) = {}
  BY <1>0, <1>5 DEF ValidWhole
<1>16. \A y \in g : y.rollout.kind = "train" /\ y.rollout \in Rollouts(g)
  <2>1. \A y \in g : y.rollout \in Rollouts(g)
    BY DEF Rollouts
  <2> QED BY <1>5, <2>1 DEF GroupRollouts
<1>17. TypeOK' /\ Shape'
  <2>1. ToSet(results') \subseteq Result /\ results' \in Seq(Result)
    BY <1>1, <1>3 DEF ToSet
  <2>2. partial' \subseteq Result /\ \A h \in valid' \cup batch' : h \subseteq Result
    BY <1>0, <1>1, <1>5 DEF TypeOK
  <2>3. handles' \subseteq TrainRollout
    BY <1>0, <1>1 DEF TypeOK
  <2>4. pc' \in Pcs /\ batch' \subseteq valid'
    BY <1>0, <1>1, <1>13 DEF Pcs, Shape
  <2>5. generated' \in 0..Scheduled'
    BY <1>2, <1>10
  <2>6. TypeOK'
    BY <1>0, <1>1, <2>1, <2>2, <2>3, <2>4, <2>5 DEF TypeOK
  <2>7. Shape'
    BY <1>0, <1>1, <1>12, <2>1, <2>4 DEF Shape
  <2> QED BY <2>6, <2>7
<1>18. Conserved'
  <2>1. /\ collected' = {} /\ generated' = Cardinality({j \in 1..Scheduled' : GroupDone(j)'})
        /\ \A j \in 1..Scheduled' : GroupDone(j)' \/ GroupRollouts(sched', j) \subseteq Outstanding'
    BY <1>1, <1>2, <1>6, <1>9, <1>10
  <2>2. Outstanding' \subseteq UNION {GroupRollouts(sched', j) : j \in 1..Scheduled'}
    BY <1>0, <1>1, <1>2, <1>14 DEF Conserved, TrainPhase
  <2>3. pc' = "evals_if_needed" => Outstanding' = {}
    <3> DEFINE all == done \cup {k}
    <3>0. 1 \in Int /\ Scheduled \in Int /\ ~(1 > Scheduled) /\ Scheduled - 1 + 1 = Scheduled
      BY <1>4
    <3>1. IsFiniteSet(1..Scheduled) /\ Cardinality(1..Scheduled) = Scheduled
      BY <3>0, FS_Interval
    <3>2. all \in SUBSET (1..Scheduled)
      OBVIOUS
    <3>3. pc' = "evals_if_needed" => Cardinality(all) = Scheduled
      BY <1>4, <1>10, <1>13
    <3> HIDE DEF all
    <3>4. pc' = "evals_if_needed" => all = 1..Scheduled
      BY <3>1, <3>2, <3>3, FS_Subset
    <3>5. pc' = "evals_if_needed" => \A j \in 1..Scheduled' : GroupDone(j)'
      BY <1>2, <1>10, <3>4 DEF all
    <3> QED BY <2>2, <3>5 DEF GroupDone
  <2>4. pc' \in {"prepare", "collect", "evals_if_needed"}
    BY <1>13
  <2>5. config'.strict /\ pc' \in {"prepare", "train", "sync"} => generated' >= Scheduled'
    BY <1>1, <1>2, <1>13
  <2> QED BY <2>1, <2>2, <2>3, <2>4, <2>5 DEF Conserved, TrainPhase
<1>19. ValidWhole'
  <2>1. sched \in ScheduleIds /\ sched <= sched
    BY <1>0 DEF TypeOK, ScheduleIds
  <2>2. \A h \in valid' : \E s \in ScheduleIds, j \in 1..Scheduled' :
          s <= sched' /\ Rollouts(h) = GroupRollouts(s, j) /\ Cardinality(h) = GroupSize
    BY <1>0, <1>1, <1>2, <1>5, <2>1 DEF ValidWhole
  <2>3. \A h, i \in valid' : h # i => Rollouts(h) \cap Rollouts(i) = {}
    <3>1. \A h \in valid' : h \in valid \/ h = g
      BY <1>1
    <3> QED BY <1>0, <1>15, <3>1 DEF ValidWhole
  <2>4. \A h \in valid' : Rollouts(h) \cap Outstanding' = {}
    BY <1>0, <1>1, <1>14 DEF ValidWhole
  <2> QED BY <2>2, <2>3, <2>4 DEF ValidWhole
<1>20. Young'
  <2>1. Budget <= Budget' /\ Budget' \in Int
    <3>1. Held = Cardinality(valid) /\ Held' = Cardinality(valid')
      BY <1>1, <1>13 DEF Held
    <3>2. Budget = IF config.strict THEN 0 ELSE Target - 1 + generated - Cardinality(valid)
      BY <3>1 DEF Budget
    <3>3. Budget' = IF config.strict THEN 0
                    ELSE Target - 1 + (generated + 1) - Cardinality(valid')
      BY <1>1, <1>2, <3>1 DEF Budget
    <3> QED BY <1>4, <1>12, <3>2, <3>3
  <2>2. Budget <= Allowed
    <3>1. Budget = IF config.strict THEN 0 ELSE Target - 1 + generated - Cardinality(valid)
      BY <1>1 DEF Budget, Held
    <3> QED BY <1>4, <1>11, <3>1 DEF Allowed
  <2>3. ASSUME NEW b, Within(b, Budget)
        PROVE  Within(b, Budget') /\ Within(b, Allowed)
    BY <1>0, <1>4, <2>1, <2>2, <2>3, MoreBudget
  <2>4. /\ Within(version, Budget) /\ \A w \in Working : Within(born[w], Budget)
        /\ \A y \in ToSet(results) \cup partial : Within(y.born, Budget)
    BY <1>0, <1>1 DEF Young, TrainPhase
  <2>5. \A b : Within(b, Budget') => Within(b, Budget)'
    BY <1>1, <1>2 DEF Within
  <2>6. Within(version, Budget)'
    BY <1>1, <2>3, <2>4 , <1>2 DEF Within
  <2>7. \A w \in Working' : Within(born[w], Budget)'
    BY <1>1, <1>2, <2>3, <2>4 DEF Within, Working
  <2>8. \A y \in ToSet(results') \cup partial' : Within(y.born, Budget)'
    BY <1>1, <1>3, <2>3, <2>4, <2>5
  <2>9. \A h \in valid' : \A y \in h : Within(y.born, Allowed)'
    <3>1. \A b : Within(b, Allowed) => Within(b, Allowed)'
      BY <1>1, <1>2 DEF Within
    <3>2. \A h \in valid : \A y \in h : Within(y.born, Allowed)
      BY <1>0, <1>1 DEF Young
    <3>3. \A y \in g : Within(y.born, Allowed)
      BY <1>3, <1>5, <1>6, <2>3, <2>4
    <3> QED BY <1>1, <3>1, <3>2, <3>3
  <2>10. version' = global_step'
    BY <1>0, <1>1 DEF Young
  <2> QED BY <1>1, <1>2, <1>13, <2>6, <2>7, <2>8, <2>9, <2>10 DEF Young, TrainPhase
<1>21. HandlesExact'
  <2> DEFINE trains(ys) == {y \in ys : y.rollout.kind = "train"}
             rest == ToSet(results') \cup partial'
  <2>1. handles = Rollouts(trains(ToSet(results) \cup partial)) \cup (UNION {Rollouts(h) : h \in valid})
    BY <1>0, <1>1 DEF HandlesExact
  <2>2. /\ ToSet(results) \cup partial \subseteq rest \cup g
        /\ rest \cup g \subseteq ToSet(results) \cup partial
    BY <1>1, <1>3, <1>5, <1>6
  <2>3. Rollouts(trains(ToSet(results) \cup partial)) = Rollouts(trains(rest)) \cup Rollouts(g)
    <3>1. ToSet(results) \cup partial = rest \cup g
      BY <2>2
    <3>2. trains(rest \cup g) = trains(rest) \cup g
      BY <1>16
    <3> HIDE DEF trains, rest
    <3> QED BY <3>1, <3>2 DEF Rollouts
  <2>4. Rollouts(trains(rest)) \cap Rollouts(g) = {}
    <3>1. Rollouts(trains(rest)) \subseteq Outstanding'
      BY DEF Outstanding, Taken, Rollouts
    <3> QED BY <1>14, <3>1
  <2> HIDE DEF trains, rest
  <2>5. handles' = Rollouts(trains(rest)) \cup (UNION {Rollouts(h) : h \in valid'})
    <3>1. CASE passed
      <4>1. valid' = valid \cup {g} /\ handles' = handles
        BY <1>1, <3>1
      <4>2. UNION {Rollouts(h) : h \in valid'}
              = (UNION {Rollouts(h) : h \in valid}) \cup Rollouts(g)
        BY <4>1
      <4> QED BY <2>1, <2>3, <4>1, <4>2
    <3>2. CASE ~passed
      <4>1. valid' = valid /\ handles' = handles \ Rollouts(g)
        BY <1>1, <3>2
      <4>2. (UNION {Rollouts(h) : h \in valid}) \cap Rollouts(g) = {}
        BY <1>15
      <4> QED BY <2>1, <2>3, <2>4, <4>1, <4>2
    <3> QED BY <3>1, <3>2
  <2> QED BY <1>13, <2>5 DEF HandlesExact, trains, rest
<1>22. NoneAhead'
  BY <1>0, <1>1, <1>13 DEF NoneAhead, Enqueued
<1> QED BY <1>7, <1>17, <1>18, <1>19, <1>20, <1>21, <1>22 DEF PipelineInv

---------------------------------------------------------------------------
(* The theorems.                                                            *)

\* At first nothing is enqueued and nothing waits.
LEMMA InitKeeps == Init => PipelineInv
<1> SUFFICES ASSUME Init PROVE PipelineInv
  OBVIOUS
<1>1. /\ config \in Configs /\ pending = <<>> /\ completed = {} /\ results = <<>>
      /\ running = [w \in Workers |-> NoTask] /\ stage = [w \in Workers |-> "idle"]
      /\ born = [w \in Workers |-> 0] /\ pc \in {"run_evals", "schedule"}
      /\ sched = 0 /\ generated = 0 /\ partial = {} /\ valid = {} /\ batch = {}
      /\ collected = {} /\ global_step = 0 /\ version = 0 /\ prev_eval = 0 /\ handles = {}
  BY DEF Init
<1>2. Scheduled \in Nat /\ Target \in Nat \ {0} /\ MaxSchedules \in Nat
  BY <1>1, ConfigFacts
<1>3. ToSet(pending) = {} /\ ToSet(results) = {} /\ DOMAIN pending = {} /\ DOMAIN results = {}
  BY <1>1 DEF ToSet
<1>4. Working = {} /\ Unpublished = {} /\ Taken = {}
  BY <1>1 DEF Working, Unpublished, Taken
<1>5. Rollouts({}) = {}
  BY DEF Rollouts
<1>6. Outstanding = {}
  BY <1>3, <1>4, <1>5 DEF Outstanding
<1>7. TypeOK
  <2>1. /\ running \in [Workers -> Rollout \cup {NoTask}]
        /\ stage \in [Workers -> Stages]
        /\ born \in [Workers -> Nat]
    BY <1>1 DEF Stages
  <2>2. sched \in ScheduleIds /\ generated \in 0..Scheduled /\ pc \in Pcs
    BY <1>1, <1>2 DEF ScheduleIds, Pcs
  <2> QED BY <1>1, <1>3, <2>1, <2>2 DEF TypeOK
<1>8. Shape
  <2>1. pending \in Seq(Rollout) /\ results \in Seq(Result) /\ IsFiniteSet(valid)
    BY <1>1, FS_EmptySet
  <2> QED BY <1>1, <2>1 DEF Shape
<1>9. InOnePlace
  BY <1>3, <1>4, <1>5 DEF InOnePlace
<1>10. Conserved
  BY <1>1, <1>6 DEF Conserved, TrainPhase
<1>11. ValidWhole
  BY <1>1 DEF ValidWhole
<1>12. Young
  BY <1>1, <1>2, FS_EmptySet DEF Young, TrainPhase
<1>13. HandlesExact
  BY <1>1, <1>3, <1>5 DEF HandlesExact
<1>14. NoneAhead
  BY <1>1, <1>3 DEF NoneAhead, Enqueued
<1> QED BY <1>7, <1>8, <1>9, <1>10, <1>11, <1>12, <1>13, <1>14 DEF PipelineInv

\* Every step, and a step that changes nothing.
LEMMA NextKeeps == PipelineInv /\ [Next]_vars => PipelineInv'
<1> SUFFICES ASSUME PipelineInv, [Next]_vars PROVE PipelineInv'
  OBVIOUS
<1>1. CASE ScheduleGroups /\ config' = config
  BY <1>1, ScheduleGroupsStep
<1>2. CASE StreamResult /\ config' = config
  BY <1>2, StreamResultWaits, StreamResultCompletes
<1>3. CASE HealthCheckRaises /\ config' = config
  BY <1>3, HealthCheckStep
<1>4. CASE PrepareBatch /\ config' = config
  BY <1>4, PrepareBatchStep
<1>5. CASE TrainBatch /\ config' = config
  BY <1>5, TrainBatchStep
<1>6. CASE SyncWeights /\ config' = config
  BY <1>6, SyncWeightsStep
<1>7. CASE EvalsIfNeeded /\ config' = config
  BY <1>7, EvalsIfNeededStep
<1>8. CASE StartEval /\ config' = config
  BY <1>8, StartEvalStep
<1>9. CASE CollectEval /\ config' = config
  BY <1>9, CollectEvalStep
<1>10. CASE (\E w \in Workers : Worker(w)) /\ config' = config
  BY <1>10, WorkerStep
<1>11. CASE UNCHANGED vars
  <2>1. UNCHANGED <<config, pending, running, completed, results, stage, born, pc, sched,
                    generated, partial, valid, batch, collected, global_step, version,
                    prev_eval, handles>>
    BY <1>11 DEF vars, queueVars, collectVars
  <2>2. Scheduled' = Scheduled /\ Target' = Target /\ Allowed' = Allowed /\ Budget' = Budget
    BY <2>1 DEF Scheduled, Target, Allowed, Budget, Held
  <2>3. Outstanding' = Outstanding /\ Working' = Working /\ InOnePlace'
    BY <2>1, NothingMoves DEF PipelineInv
  <2>4. TypeOK' /\ Shape'
    BY <2>1, <2>2 DEF PipelineInv, TypeOK, Shape
  <2>5. Conserved' /\ ValidWhole'
    BY <2>1, <2>2, <2>3 DEF PipelineInv, Conserved, ValidWhole, TrainPhase, GroupDone
  <2>6. Young'
    BY <2>1, <2>2, <2>3 DEF PipelineInv, Young, TrainPhase, Within
  <2>7. HandlesExact' /\ NoneAhead'
    BY <2>1 DEF PipelineInv, HandlesExact, NoneAhead, Enqueued
  <2> QED BY <2>3, <2>4, <2>5, <2>6, <2>7 DEF PipelineInv
<1> QED BY <1>1, <1>2, <1>3, <1>4, <1>5, <1>6, <1>7, <1>8, <1>9, <1>10, <1>11
        DEF Next, Controller

\* The inductive invariant holds of every behaviour.
THEOREM PipelineInvariant == Spec => []PipelineInv
<1>1. Init => PipelineInv
  BY InitKeeps
<1>2. PipelineInv /\ [Next]_vars => PipelineInv'
  BY NextKeeps
<1> QED BY <1>1, <1>2, PTL DEF Spec

\* Every variable keeps its type.
THEOREM PipelineTypeCorrect == Spec => []TypeOK
<1>1. PipelineInv => TypeOK
  BY DEF PipelineInv
<1> QED BY <1>1, PipelineInvariant, PTL

\* What reaches training are whole groups of one prompt of one schedule, however the
\* workers interleave; and when a stream is opened, nothing of the previous one is in
\* flight that it would lose.
THEOREM GroupsAreWhole == Spec => []GroupsWhole
<1>1. PipelineInv => GroupsWhole
  <2> SUFFICES ASSUME PipelineInv PROVE GroupsWhole
    OBVIOUS
  <2>1. TypeOK /\ Shape /\ Conserved /\ ValidWhole
    BY DEF PipelineInv
  <2>2. valid \cup batch = valid
    BY <2>1 DEF Shape
  <2>3. \A g \in valid \cup batch : \E s \in ScheduleIds, k \in 1..Scheduled :
          /\ Rollouts(g) = {[kind |-> "train", sched |-> s, group |-> k, index |-> i] :
                               i \in 1..GroupSize}
          /\ Cardinality(g) = GroupSize
    BY <2>1, <2>2 DEF ValidWhole, GroupRollouts
  <2>4. ASSUME pc \in {"schedule", "run_evals"}
        PROVE  /\ pending = <<>> /\ results = <<>> /\ partial = {}
               /\ \A w \in Workers : stage[w] \in {"idle", "published", "unreleased"}
    <3>1. Outstanding = {}
      BY <2>1, <2>4 DEF Conserved
    <3> QED BY <2>1, <3>1, NothingOutstanding
  <2> QED BY <2>3, <2>4 DEF GroupsWhole
<1> QED BY <1>1, PipelineInvariant, PTL

\* Training data is at most MaxLag weight syncs old, for every configuration of the
\* batch sizes, although batches are trained in the middle of a schedule and groups are
\* left over from one schedule to the next.
THEOREM TrainingDataBoundedStale == Spec => []BoundedStaleness
<1>1. PipelineInv => BoundedStaleness
  <2> SUFFICES ASSUME PipelineInv, pc = "train", NEW g \in batch, NEW x \in g
               PROVE  global_step - x.born <= config.sync_every * MaxLag
    BY DEF BoundedStaleness
  <2>1. TypeOK /\ Shape /\ Young
    BY DEF PipelineInv
  <2>2. Within(x.born, Allowed)
    BY <2>1 DEF Shape, Young
  <2>3. PICK n \in Nat : global_step = x.born + n * config.sync_every /\ n * Target <= Allowed
    BY <2>2 DEF Within
  <2>4. /\ config.sync_every \in Nat /\ Target \in Nat \ {0} /\ Scheduled \in Nat \ {0}
        /\ x.born \in Nat
    BY <2>1, ConfigFacts DEF TypeOK, Result
  <2>5. n <= MaxLag /\ MaxLag \in Nat
    <3>1. CASE config.strict
      <4>1. n * Target <= 0
        BY <2>3, <3>1 DEF Allowed
      <4>2. n = 0
        BY <2>4, <4>1
      <4> QED BY <3>1, <4>2 DEF MaxLag
    <3>2. CASE ~config.strict
      <4> DEFINE a == Scheduled + Target - 2
      <4>1. a \in Nat /\ n * Target <= a
        BY <2>3, <2>4, <3>2 DEF Allowed
      <4>2. MaxLag = a \div Target
        BY <3>2 DEF MaxLag
      <4> HIDE DEF a
      <4>3. PICK t \in Nat \ {0} : t = Target
        BY <2>4
      <4>4. a \div t \in Nat /\ (a % t) \in 0..t - 1 /\ a = t * (a \div t) + (a % t)
        BY <4>1
      <4>5. PICK q \in Nat : q = a \div t
        BY <4>4
      <4>6. CASE n > q
        <5>1. n * t >= (q + 1) * t
          BY <4>6
        <5>2. (q + 1) * t = t * q + t
          OBVIOUS
        <5>3. a < t * q + t
          BY <4>1, <4>4, <4>5
        <5> QED BY <4>1, <4>3, <5>1, <5>2, <5>3
      <4> QED BY <4>2, <4>3, <4>5, <4>6
    <3> QED BY <3>1, <3>2
  <2>6. global_step - x.born = n * config.sync_every
    <3>1. n * config.sync_every \in Nat
      BY <2>4
    <3> QED BY <2>3, <2>4, <3>1
  <2>7. \A m, l, e \in Nat : m <= l => m * e <= e * l
    OBVIOUS
  <2> QED BY <2>4, <2>5, <2>6, <2>7
<1> QED BY <1>1, PipelineInvariant, PTL

\* The tensor store holds the tensors of exactly the results that are still wanted.
THEOREM TensorsDeletedExactly == Spec => []HandlesExact
<1>1. PipelineInv => HandlesExact
  BY DEF PipelineInv
<1> QED BY <1>1, PipelineInvariant, PTL

---------------------------------------------------------------------------
(* The rollout queue inside the pipeline is the queue of RayTaskQueue.       *)

Assigned == {v \in Workers : running[v] # NoTask}
AssignmentOf(w) == [task |-> running[w], worker |-> w, key |-> "default"]
RunningTable == {AssignmentOf(w) : w \in Assigned}
Callers == [w \in Workers |-> [pc |-> "idle"]]

\* As many assignments as workers that have one.
LEMMA TableCounts == Cardinality(RunningTable) = RunningCount
<1> DEFINE f == [w \in Assigned |-> AssignmentOf(w)]
<1>1. IsFiniteSet(Assigned)
  BY FS_Subset, PipelineAssumption DEF Assigned
<1>2. \A v, w \in Assigned : AssignmentOf(v) = AssignmentOf(w) => v = w
  BY DEF AssignmentOf
<1>3. f \in [Assigned -> RunningTable] /\ \A a \in RunningTable : \E w \in Assigned : f[w] = a
  BY DEF RunningTable
<1>4. f \in Surjection(Assigned, RunningTable) /\ f \in Injection(Assigned, RunningTable)
  BY <1>2, <1>3 DEF Surjection, Injection, IsInjective
<1>5. Cardinality(RunningTable) = Cardinality(Assigned)
  <2> HIDE DEF f
  <2> QED BY <1>1, <1>4, FS_Surjection
<1> QED BY <1>5 DEF RunningCount, Assigned

\* The queue counts as this module does.
LEMMA SameCount == \A S : Queue!Cardinality(S) = Cardinality(S)
BY DEF Queue!Cardinality, Cardinality

\* No caller is parked in this model, so a notification changes nothing.
LEMMA NobodyParked == Queue!NotifyAll(Callers) = Callers
BY DEF Queue!NotifyAll, Callers

\* What the queue calls submitted is what was enqueued.
LEMMA SubmittedEnqueued == Queue!Submitted \subseteq Enqueued
<1>1. {a.task : a \in RunningTable} \subseteq {running[w] : w \in Assigned}
  BY DEF RunningTable, AssignmentOf
<1>2. UNION {ToSet([k \in {"default"} |-> pending][key]) : key \in {"default"}} = ToSet(pending)
  OBVIOUS
<1>3. Queue!Submitted = (UNION {ToSet([k \in {"default"} |-> pending][key]) : key \in {"default"}})
                          \cup {a.task : a \in RunningTable} \cup completed \cup {}
  BY DEF Queue!Submitted, Queue!ToSet, ToSet, RunningTable, AssignmentOf, Assigned
<1>4. Queue!Submitted = ToSet(pending) \cup {a.task : a \in RunningTable} \cup completed
  BY <1>2, <1>3
<1> QED BY <1>1, <1>4 DEF Enqueued, Assigned

\* Enqueuing a new list of tasks is the queue's put_many.
LEMMA EnqueueIsPutMany ==
    ASSUME NEW ts, \A i \in DOMAIN ts : ts[i] \notin Enqueued,
           pending' = pending \o ts, UNCHANGED <<running, completed>>
    PROVE  Queue!PutMany("default", ts)
<1>1. \A i \in DOMAIN ts : ts[i] \notin Queue!Submitted
  BY SubmittedEnqueued
<1>2. [k \in {"default"} |-> pending'] =
        [[k \in {"default"} |-> pending] EXCEPT !["default"] = @ \o ts]
  OBVIOUS
<1>3. [w \in Workers |-> [pc |-> "idle"]] = Queue!NotifyAll([w \in Workers |-> [pc |-> "idle"]])
  BY NobodyParked DEF Callers
<1> QED BY <1>1, <1>2, <1>3 DEF Queue!PutMany

\* Handing out a rollout is the queue's get_nowait.
LEMMA GetIsGetNowait ==
    ASSUME PipelineInv, NEW w \in Workers, GetRollout(w)
    PROVE  Queue!GetNowait(w, "default")
<1>1. /\ pending # <<>> /\ RunningCount < MaxRunning /\ pending' = Tail(pending)
      /\ running' = [running EXCEPT ![w] = Head(pending)] /\ UNCHANGED completed
      /\ stage[w] = "idle"
  BY DEF GetRollout
<1>2. running \in [Workers -> Rollout \cup {NoTask}] /\ running[w] = NoTask
  BY <1>1 DEF PipelineInv, TypeOK, Shape
<1>3. Head(pending) # NoTask
  <2>1. Head(pending) \in Rollout
    BY <1>1, OldestTask DEF PipelineInv
  <2> QED BY <2>1 DEF Rollout, TrainRollout, EvalRollout, NoTask
<1>4. Assigned' = Assigned \cup {w} /\ w \notin Assigned
  BY <1>1, <1>2, <1>3 DEF Assigned
<1>5. /\ AssignmentOf(w)' = [task |-> Head(pending), worker |-> w, key |-> "default"]
      /\ \A v \in Assigned : AssignmentOf(v)' = AssignmentOf(v)
  BY <1>1, <1>2, <1>4 DEF AssignmentOf, Assigned
<1>6. RunningTable' = RunningTable \cup {[task |-> Head(pending), worker |-> w, key |-> "default"]}
  <2>1. RunningTable' = {AssignmentOf(v)' : v \in Assigned'}
    BY DEF RunningTable
  <2> QED BY <1>4, <1>5, <2>1 DEF RunningTable
<1>7. Queue!Runnable("default")
  <2>1. Cardinality(RunningTable) < MaxRunning
    BY <1>1, TableCounts
  <2>2. [k \in {"default"} |-> pending]["default"] # <<>>
    BY <1>1
  <2>3. Queue!Runnable("default") <=>
          /\ [k \in {"default"} |-> pending]["default"] # <<>>
          /\ TRUE => Cardinality(RunningTable) < MaxRunning
    BY SameCount DEF Queue!Runnable, RunningTable, AssignmentOf, Assigned
  <2> QED BY <2>1, <2>2, <2>3
<1>8. [k \in {"default"} |-> pending'] =
        [[k \in {"default"} |-> pending] EXCEPT !["default"] = Tail(@)]
  BY <1>1
<1>9. Queue!Take(w, "default")
  BY <1>1, <1>6, <1>7, <1>8 DEF Queue!Take, RunningTable, AssignmentOf, Assigned
<1> QED BY <1>9 DEF Queue!GetNowait, Queue!Idle

\* Completing a rollout is the queue's complete.
LEMMA CompleteIsComplete ==
    ASSUME PipelineInv, NEW w \in Workers, CompleteRollout(w)
    PROVE  \E a \in RunningTable : Queue!Complete(a)
<1>1. /\ stage[w] = "published" /\ UNCHANGED pending
      /\ running' = [running EXCEPT ![w] = NoTask] /\ completed' = completed \cup {running[w]}
  BY DEF CompleteRollout
<1>2. running \in [Workers -> Rollout \cup {NoTask}] /\ running[w] # NoTask
  BY <1>1 DEF PipelineInv, TypeOK, Shape
<1>3. Assigned' = Assigned \ {w} /\ w \in Assigned
  BY <1>1, <1>2 DEF Assigned
<1>4. \A v \in Assigned' : AssignmentOf(v)' = AssignmentOf(v)
  BY <1>1, <1>2, <1>3 DEF AssignmentOf, Assigned
<1>5. \A v, u \in Assigned : AssignmentOf(v) = AssignmentOf(u) => v = u
  BY DEF AssignmentOf
<1>6. RunningTable' = RunningTable \ {AssignmentOf(w)} /\ AssignmentOf(w) \in RunningTable
  <2>1. RunningTable' = {AssignmentOf(v) : v \in Assigned'}
    BY <1>4 DEF RunningTable
  <2> QED BY <1>3, <1>5, <2>1 DEF RunningTable
<1>7. AssignmentOf(w).task = running[w]
  BY DEF AssignmentOf
<1>8. [v \in Workers |-> [pc |-> "idle"]] = Queue!NotifyAll([v \in Workers |-> [pc |-> "idle"]])
  BY NobodyParked DEF Callers
<1>9. PICK a : a \in RunningTable /\ RunningTable' = RunningTable \ {a} /\ a.task = running[w]
  BY <1>6, <1>7
<1>10. Queue!Complete(a)
  BY <1>1, <1>8, <1>9 DEF Queue!Complete, RunningTable, AssignmentOf, Assigned
<1> QED BY <1>9, <1>10

\* Every step of the pipeline is a step of the queue, or leaves it alone.
LEMMA StepOfQueue == PipelineInv /\ [Next]_vars => [Queue!Next]_(Queue!vars)
<1> SUFFICES ASSUME PipelineInv, [Next]_vars PROVE [Queue!Next]_(Queue!vars)
  OBVIOUS
<1>0. TypeOK /\ NoneAhead
  BY DEF PipelineInv
<1>1. ASSUME UNCHANGED <<pending, running, completed>> PROVE UNCHANGED Queue!vars
  BY <1>1 DEF Queue!vars
<1>2. CASE ScheduleGroups
  <2> DEFINE ts == TrainSchedule(sched + 1, Scheduled)
  <2>1. /\ sched < MaxSchedules /\ pending' = pending \o ts /\ UNCHANGED <<running, completed>>
    BY <1>2 DEF ScheduleGroups
  <2>2. /\ Scheduled <= MostGroups /\ MostGroups \in Nat /\ Scheduled \in Nat
        /\ sched \in Nat /\ sched + 1 \in ScheduleIds /\ config \in Configs
    BY <1>0, <2>1, ConfigFacts DEF TypeOK, ScheduleIds
  <2>3. ToSet(ts) = UNION {GroupRollouts(sched + 1, k) : k \in 1..Scheduled}
    BY <2>2, TrainScheduleFacts
  <2>4. ts \in {TrainSchedule(s, ScheduledGroups(c)) : s \in ScheduleIds, c \in Configs}
    BY <2>2 DEF Scheduled
  <2> HIDE DEF ts
  <2>5. \A i \in DOMAIN ts : ts[i].sched = sched + 1
    <3>1. \A r \in ToSet(ts) : r.sched = sched + 1
      BY <2>3 DEF GroupRollouts
    <3> QED BY <3>1 DEF ToSet
  <2>6. \A i \in DOMAIN ts : ts[i] \notin Enqueued
    BY <1>0, <2>2, <2>5 DEF NoneAhead
  <2>7. Queue!PutMany("default", ts)
    BY <2>1, <2>6, EnqueueIsPutMany
  <2> QED BY <2>4, <2>7 DEF Queue!Next
<1>3. CASE StartEval
  <2> DEFINE ts == EvalSchedule(sched)
  <2>1. pc = "run_evals" /\ pending' = pending \o ts /\ UNCHANGED <<running, completed>>
    BY <1>3 DEF StartEval
  <2>2. sched \in ScheduleIds
    BY <1>0 DEF TypeOK
  <2>3. ToSet(ts) = EvalSet(sched)
    BY <2>2, EvalScheduleFacts
  <2>4. ts \in {EvalSchedule(s) : s \in ScheduleIds}
    BY <2>2
  <2> HIDE DEF ts
  <2>5. \A i \in DOMAIN ts : ts[i].sched = sched /\ ts[i].kind = "eval"
    <3>1. \A r \in ToSet(ts) : r.sched = sched /\ r.kind = "eval"
      BY <2>3 DEF EvalSet
    <3> QED BY <3>1 DEF ToSet
  <2>6. \A i \in DOMAIN ts : ts[i] \notin Enqueued
    BY <1>0, <2>1, <2>5 DEF NoneAhead
  <2>7. Queue!PutMany("default", ts)
    BY <2>1, <2>6, EnqueueIsPutMany
  <2> QED BY <2>4, <2>7 DEF Queue!Next
<1>4. ASSUME NEW w \in Workers, GetRollout(w) PROVE Queue!Next
  BY <1>4, GetIsGetNowait DEF Queue!Next
<1>5. ASSUME NEW w \in Workers, CompleteRollout(w) PROVE Queue!Next
  BY <1>5, CompleteIsComplete DEF Queue!Next, RunningTable, AssignmentOf, Assigned
<1>6. ASSUME NEW w \in Workers, PublishResult(w) \/ FailRollout(w) \/ FailComplete(w)
      PROVE  UNCHANGED Queue!vars
  BY <1>1, <1>6 DEF PublishResult, FailRollout, FailComplete
<1>7. CASE StreamResult \/ CollectEval
  BY <1>1, <1>7 DEF StreamResult, CollectEval
<1>8. CASE \/ HealthCheckRaises \/ PrepareBatch \/ TrainBatch \/ SyncWeights \/ EvalsIfNeeded
  BY <1>1, <1>8 DEF HealthCheckRaises, PrepareBatch, TrainBatch, SyncWeights, EvalsIfNeeded,
                    queueVars
<1>9. CASE UNCHANGED vars
  BY <1>1, <1>9 DEF vars, queueVars
<1> QED BY <1>2, <1>3, <1>4, <1>5, <1>6, <1>7, <1>8, <1>9 DEF Next, Controller, Worker

\* The pipeline drives the rollout queue only as the queue's own specification allows:
\* tasks are put once, taken from the front under the limit, and completed by the
\* worker that holds them.
THEOREM RolloutQueueRefined == Spec => UsesTaskQueue
<1>1. Init => Queue!Init
  <2> SUFFICES ASSUME Init PROVE Queue!Init
    OBVIOUS
  <2>1. pending = <<>> /\ completed = {} /\ running = [w \in Workers |-> NoTask]
    BY DEF Init
  <2> QED BY <2>1 DEF Queue!Init, Queue!Idle
<1>2. PipelineInv /\ [Next]_vars => [Queue!Next]_(Queue!vars)
  BY StepOfQueue
<1> QED BY <1>1, <1>2, PipelineInvariant, PTL DEF Spec, UsesTaskQueue, Queue!Spec
============================================================================
