------------------------ MODULE RayTaskQueueProofs ------------------------
(* Proofs that the task queue keeps its safety invariants for every set of   *)
(* tasks, keys and workers and every limit.                                  *)
EXTENDS RayTaskQueue, FiniteSetTheorems, TLAPS

\* Tail and concatenation on the backlog of one key.
LEMMA TailFacts ==
    ASSUME NEW S, NEW s \in Seq(S), s # <<>>
    PROVE  /\ Tail(s) \in Seq(S)
           /\ Head(s) \in S
           /\ Head(s) = s[1]
           /\ Len(Tail(s)) = Len(s) - 1
           /\ \A i \in 1..Len(Tail(s)) : Tail(s)[i] = s[i + 1] /\ i + 1 \in 1..Len(s)
  OBVIOUS

\* A batch is a sequence of distinct tasks.
LEMMA BatchFacts ==
    ASSUME NEW ts \in Batches
    PROVE  /\ ts \in Seq(Tasks)
           /\ \A i, j \in DOMAIN ts : ts[i] = ts[j] => i = j
  BY QueueAssumption

\* Each notified caller keeps its key and its deadline, and nobody stays parked.
LEMMA NotifyAllFacts ==
    ASSUME TypeOK
    PROVE  /\ NotifyAll(caller) \in [Workers -> CallerState]
           /\ \A w \in Workers : NotifyAll(caller)[w].pc # "waiting"
  <1> SUFFICES ASSUME NEW w \in Workers
               PROVE  /\ NotifyAll(caller)[w] \in CallerState
                      /\ NotifyAll(caller)[w].pc # "waiting"
    BY DEF NotifyAll
  <1>1. caller[w] \in CallerState
    BY DEF TypeOK
  <1>2. CASE caller[w] = Idle
    BY <1>2 DEF NotifyAll, CallerState, Idle
  <1>3. CASE caller[w] \in [pc : {"waiting", "woken"}, key : Keys, timed : BOOLEAN]
    <2>1. CASE caller[w].pc = "waiting"
      BY <1>3, <2>1 DEF NotifyAll, CallerState
    <2>2. CASE caller[w].pc # "waiting"
      BY <1>3, <2>2 DEF NotifyAll, CallerState
    <2> QED BY <2>1, <2>2
  <1> QED BY <1>1, <1>2, <1>3 DEF CallerState

\* A caller that is not idle has a key and a deadline flag.
LEMMA ParkedCaller ==
    ASSUME TypeOK, NEW w \in Workers, caller[w] # Idle
    PROVE  caller[w] \in [pc : {"waiting", "woken"}, key : Keys, timed : BOOLEAN]
  BY DEF TypeOK, CallerState

\* Handing a task to a worker keeps the types of what it changes.
LEMMA TakeType ==
    ASSUME TypeOK, NEW w \in Workers, NEW k \in Keys, Take(w, k)
    PROVE  /\ pending' \in [Keys -> Seq(Tasks)]
           /\ running' \in SUBSET Assignment
           /\ completed' \in SUBSET Tasks
           /\ consumed' \in SUBSET Tasks
  <1>1. pending[k] \in Seq(Tasks) /\ pending[k] # <<>>
    BY DEF TypeOK, Take, Runnable
  <1>2. Tail(pending[k]) \in Seq(Tasks) /\ Head(pending[k]) \in Tasks
    BY <1>1, TailFacts
  <1> QED BY <1>2 DEF TypeOK, Take, Assignment

\* The variables keep their types.
THEOREM TypeCorrect == Spec => []TypeOK
<1>1. Init => TypeOK
  BY DEF Init, TypeOK, CallerState
<1>2. TypeOK /\ [Next]_vars => TypeOK'
  <2> SUFFICES ASSUME TypeOK, [Next]_vars PROVE TypeOK'
    OBVIOUS
  <2>1. ASSUME NEW k \in Keys, NEW ts \in Batches, PutMany(k, ts) PROVE TypeOK'
    <3>1. ts \in Seq(Tasks)
      BY BatchFacts
    <3>2. pending[k] \o ts \in Seq(Tasks)
      BY <3>1 DEF TypeOK
    <3>3. pending' \in [Keys -> Seq(Tasks)]
      BY <2>1, <3>2 DEF PutMany, TypeOK
    <3> QED BY <2>1, <3>3, NotifyAllFacts DEF PutMany, TypeOK
  <2>2. ASSUME NEW w \in Workers, NEW k \in Keys, GetNowait(w, k) PROVE TypeOK'
    BY <2>2, TakeType DEF GetNowait, TypeOK
  <2>3. ASSUME NEW w \in Workers, NEW k \in Keys, NEW timed \in BOOLEAN,
               Get(w, k, timed)
        PROVE  TypeOK'
    <3>1. CASE Take(w, k) /\ UNCHANGED caller
      BY <3>1, TakeType DEF TypeOK
    <3>2. CASE ~Runnable(k)
      <4>1. [pc |-> "waiting", key |-> k, timed |-> timed] \in CallerState
        BY DEF CallerState
      <4> QED BY <2>3, <3>2, <4>1 DEF Get, Take, TypeOK
    <3> QED BY <2>3, <3>1, <3>2 DEF Get
  <2>4. ASSUME NEW w \in Workers, Resume(w) PROVE TypeOK'
    <3>1. caller[w] # Idle
      BY <2>4 DEF Resume, Idle
    <3>2. caller[w] \in [pc : {"waiting", "woken"}, key : Keys, timed : BOOLEAN]
      BY <3>1, ParkedCaller
    <3>3. CASE Take(w, caller[w].key) /\ caller' = [caller EXCEPT ![w] = Idle]
      BY <3>2, <3>3, TakeType DEF TypeOK, CallerState
    <3>4. CASE ~Runnable(caller[w].key)
      <4>1. [caller[w] EXCEPT !.pc = "waiting"] \in CallerState
        BY <3>2 DEF CallerState
      <4> QED BY <2>4, <3>4, <4>1 DEF Resume, Take, TypeOK
    <3> QED BY <2>4, <3>3, <3>4 DEF Resume
  <2>5. ASSUME NEW w \in Workers, Timeout(w) PROVE TypeOK'
    BY <2>5 DEF Timeout, TypeOK, CallerState
  <2>6. ASSUME NEW a \in running, Complete(a) PROVE TypeOK'
    BY <2>6, NotifyAllFacts DEF Complete, TypeOK, Assignment
  <2>7. CASE UNCHANGED vars
    BY <2>7 DEF vars, TypeOK
  <2> QED BY <2>1, <2>2, <2>3, <2>4, <2>5, <2>6, <2>7 DEF Next
<1> QED BY <1>1, <1>2, PTL DEF Spec

---------------------------------------------------------------------------

\* The running table is a finite set: its tasks are distinct members of Tasks.
LEMMA RunningFinite ==
    ASSUME TypeOK, ExactlyOnce
    PROVE  IsFiniteSet(running)
  <1> DEFINE f == [a \in running |-> a.task]
  <1>1. f \in [running -> Tasks]
    BY DEF TypeOK, Assignment
  <1>2. \A a, b \in running : f[a] = f[b] => a = b
    BY DEF ExactlyOnce
  <1>3. f \in Injection(running, Tasks)
    BY <1>1, <1>2 DEF Injection, IsInjective
  <1> QED BY <1>3, FS_Injection, QueueAssumption

\* A task handed out leaves the backlog for good and is nowhere else.
LEMMA TakeExactlyOnce ==
    ASSUME TypeOK, ExactlyOnce, NEW w \in Workers, NEW k \in Keys, Take(w, k)
    PROVE  ExactlyOnce'
  <1>1. /\ pending \in [Keys -> Seq(Tasks)]
        /\ pending[k] \in Seq(Tasks) /\ pending[k] # <<>>
    BY DEF TypeOK, Take, Runnable
  <1> DEFINE h == Head(pending[k])
             Shift(q) == IF q = k THEN 1 ELSE 0
  <1>2. h = pending[k][1] /\ 1 \in DOMAIN pending[k]
    BY <1>1, TailFacts
  <1>3. \A q \in Keys : \A i \in DOMAIN pending'[q] :
            /\ i + Shift(q) \in DOMAIN pending[q]
            /\ pending'[q][i] = pending[q][i + Shift(q)]
            /\ pending'[q][i] # h
            /\ i \in Nat
    <2> SUFFICES ASSUME NEW q \in Keys, NEW i \in DOMAIN pending'[q]
                 PROVE  /\ i + Shift(q) \in DOMAIN pending[q]
                        /\ pending'[q][i] = pending[q][i + Shift(q)]
                        /\ pending'[q][i] # h
                        /\ i \in Nat
      OBVIOUS
    <2>1. CASE q = k
      <3>1. pending'[q] = Tail(pending[k])
        BY <1>1, <2>1 DEF Take
      <3>2. i \in 1..Len(Tail(pending[k]))
        BY <1>1, <3>1, TailFacts
      <3>3. i + 1 \in DOMAIN pending[k] /\ pending'[q][i] = pending[k][i + 1]
        BY <1>1, <3>1, <3>2, TailFacts
      <3>4. i + 1 # 1 /\ i \in Nat
        BY <3>2
      <3> QED BY <1>2, <2>1, <3>3, <3>4 DEF ExactlyOnce
    <2>2. CASE q # k
      <3>1. pending'[q] = pending[q] /\ pending[q] \in Seq(Tasks)
        BY <1>1, <2>2 DEF Take
      <3>2. i \in Nat /\ i + 0 = i
        BY <3>1
      <3> QED BY <1>2, <2>2, <3>1, <3>2 DEF ExactlyOnce
    <2> QED BY <2>1, <2>2
  <1>4. \A k1, k2 \in Keys : \A i \in DOMAIN pending'[k1], j \in DOMAIN pending'[k2] :
            pending'[k1][i] = pending'[k2][j] => k1 = k2 /\ i = j
    <2> SUFFICES ASSUME NEW k1 \in Keys, NEW k2 \in Keys,
                        NEW i \in DOMAIN pending'[k1], NEW j \in DOMAIN pending'[k2],
                        pending'[k1][i] = pending'[k2][j]
                 PROVE  k1 = k2 /\ i = j
      OBVIOUS
    <2>1. k1 = k2 /\ i + Shift(k1) = j + Shift(k2)
      BY <1>3 DEF ExactlyOnce
    <2> QED BY <1>3, <2>1
  <1>5. h \notin completed \cup consumed /\ \A a \in running : a.task # h
    BY <1>2 DEF ExactlyOnce
  <1>6. CASE Limited
    <2>1. /\ running' = running \cup {[task |-> h, worker |-> w, key |-> k]}
          /\ completed' = completed /\ consumed' = consumed
      BY <1>6 DEF Take
    <2> QED BY <1>3, <1>4, <1>5, <2>1 DEF ExactlyOnce
  <1>7. CASE ~Limited
    <2>1. /\ running' = running /\ completed' = completed
          /\ consumed' = consumed \cup {h}
      BY <1>7 DEF Take
    <2> QED BY <1>3, <1>4, <1>5, <2>1 DEF ExactlyOnce
  <1> QED BY <1>6, <1>7

\* Fresh, distinct tasks appended to one backlog are nowhere else.
LEMMA PutExactlyOnce ==
    ASSUME TypeOK, ExactlyOnce, NEW k \in Keys, NEW ts \in Batches, PutMany(k, ts)
    PROVE  ExactlyOnce'
  <1>1. /\ ts \in Seq(Tasks) /\ pending \in [Keys -> Seq(Tasks)]
        /\ \A i, j \in DOMAIN ts : ts[i] = ts[j] => i = j
    BY BatchFacts DEF TypeOK
  <1>2. /\ running' = running /\ completed' = completed /\ consumed' = consumed
        /\ \A i \in DOMAIN ts : ts[i] \notin Submitted
        /\ pending' = [pending EXCEPT ![k] = @ \o ts]
    BY DEF PutMany
  <1>3. \A q \in Keys : \A i \in DOMAIN pending[q] : pending[q][i] \in Submitted
    BY DEF Submitted, ToSet
  <1>4. \A i \in DOMAIN ts : /\ ts[i] \notin completed \cup consumed
                             /\ \A a \in running : a.task # ts[i]
    BY <1>2 DEF Submitted
  <1> DEFINE old(q, i) == i \in DOMAIN pending[q] /\ pending'[q][i] = pending[q][i]
             new(q, i) == /\ q = k /\ i - Len(pending[k]) \in DOMAIN ts
                          /\ pending'[q][i] = ts[i - Len(pending[k])]
  <1>5. \A q \in Keys : \A i \in DOMAIN pending'[q] : i \in Nat /\ (old(q, i) \/ new(q, i))
    <2> SUFFICES ASSUME NEW q \in Keys, NEW i \in DOMAIN pending'[q]
                 PROVE  i \in Nat /\ (old(q, i) \/ new(q, i))
      OBVIOUS
    <2>1. CASE q = k
      <3>1. pending'[q] = pending[k] \o ts /\ pending[k] \in Seq(Tasks)
        BY <1>1, <1>2, <2>1
      <3>2. i \in 1..(Len(pending[k]) + Len(ts))
        BY <1>1, <3>1
      <3> QED BY <1>1, <2>1, <3>1, <3>2
    <2>2. CASE q # k
      BY <1>1, <1>2, <2>2
    <2> QED BY <2>1, <2>2
  <1>6. \A k1, k2 \in Keys : \A i \in DOMAIN pending'[k1], j \in DOMAIN pending'[k2] :
            pending'[k1][i] = pending'[k2][j] => k1 = k2 /\ i = j
    <2> SUFFICES ASSUME NEW k1 \in Keys, NEW k2 \in Keys,
                        NEW i \in DOMAIN pending'[k1], NEW j \in DOMAIN pending'[k2],
                        pending'[k1][i] = pending'[k2][j]
                 PROVE  k1 = k2 /\ i = j
      OBVIOUS
    <2>0. i \in Nat /\ j \in Nat /\ Len(pending[k]) \in Nat
      BY <1>1, <1>5
    <2>1. CASE old(k1, i) /\ old(k2, j)
      <3>1. i \in DOMAIN pending[k1] /\ j \in DOMAIN pending[k2]
        BY <2>1
      <3>2. pending[k1][i] = pending[k2][j]
        BY <2>1
      <3> HIDE DEF old, new
      <3> QED BY <3>1, <3>2 DEF ExactlyOnce
    <2>2. CASE new(k1, i) /\ new(k2, j)
      <3>1. i - Len(pending[k]) = j - Len(pending[k])
        BY <1>1, <2>2
      <3> QED BY <2>0, <2>2, <3>1
    <2>3. CASE old(k1, i) /\ new(k2, j)
      BY <1>2, <1>3, <2>3
    <2>4. CASE new(k1, i) /\ old(k2, j)
      BY <1>2, <1>3, <2>4
    <2> QED BY <1>5, <2>1, <2>2, <2>3, <2>4
  <1>7. \A q \in Keys : \A i \in DOMAIN pending'[q] :
            /\ pending'[q][i] \notin completed \cup consumed
            /\ \A a \in running : a.task # pending'[q][i]
    BY <1>4, <1>5 DEF ExactlyOnce
  <1> QED BY <1>2, <1>6, <1>7 DEF ExactlyOnce

\* The limit survives a hand-out: it was checked with the slot still free.
LEMMA TakeBound ==
    ASSUME TypeOK, ExactlyOnce, RunningBound,
           NEW w \in Workers, NEW k \in Keys, Take(w, k)
    PROVE  RunningBound'
  <1>1. CASE Limited
    <2> DEFINE a == [task |-> Head(pending[k]), worker |-> w, key |-> k]
    <2>1. IsFiniteSet(running)
      BY RunningFinite
    <2>2. Cardinality(running \cup {a}) <= Cardinality(running) + 1
      <3>1. \/ Cardinality(running \cup {a}) = Cardinality(running)
            \/ Cardinality(running \cup {a}) = Cardinality(running) + 1
        BY <2>1, FS_AddElement
      <3>2. Cardinality(running) \in Nat
        BY <2>1, FS_CardinalityType
      <3> QED BY <3>1, <3>2
    <2>3. Cardinality(running) < MaxRunning /\ running' = running \cup {a}
      BY <1>1 DEF Take, Runnable
    <2>4. IsFiniteSet(running \cup {a})
      BY <2>1, FS_AddElement
    <2>5. /\ Cardinality(running) \in Nat /\ Cardinality(running \cup {a}) \in Nat
          /\ MaxRunning \in Nat
      BY <2>1, <2>4, FS_CardinalityType, QueueAssumption
    <2>6. Cardinality(running \cup {a}) <= MaxRunning
      BY <2>2, <2>3, <2>5
    <2> QED BY <2>3, <2>6 DEF RunningBound
  <1>2. CASE ~Limited
    BY <1>2 DEF RunningBound
  <1> QED BY <1>1, <1>2

\* A hand-out makes nothing runnable that was not: backlogs shrink, the
\* running table grows.
LEMMA TakeRunnable ==
    ASSUME TypeOK, ExactlyOnce, NEW w \in Workers, NEW k \in Keys, Take(w, k),
           NEW q \in Keys, Runnable(q)'
    PROVE  Runnable(q)
  <1>1. pending'[q] # <<>> => pending[q] # <<>>
    BY DEF Take, Runnable, TypeOK
  <1>2. CASE Limited
    <2> DEFINE a == [task |-> Head(pending[k]), worker |-> w, key |-> k]
    <2>1. IsFiniteSet(running)
      BY RunningFinite
    <2>2. IsFiniteSet(running \cup {a}) /\ running' = running \cup {a}
      BY <1>2, <2>1, FS_AddElement DEF Take
    <2>3. Cardinality(running) <= Cardinality(running \cup {a})
      BY <2>2, FS_Subset
    <2>4. /\ Cardinality(running) \in Nat /\ Cardinality(running \cup {a}) \in Nat
          /\ MaxRunning \in Nat
      BY <2>1, <2>2, FS_CardinalityType, QueueAssumption
    <2>5. Cardinality(running) < MaxRunning
      BY <1>2, <2>2, <2>3, <2>4 DEF Runnable
    <2> QED BY <1>1, <2>5 DEF Runnable
  <1>3. CASE ~Limited
    BY <1>1, <1>3 DEF Runnable
  <1> QED BY <1>2, <1>3

\* The three safety invariants are inductive together.
LEMMA QueueInvInductive ==
    ASSUME TypeOK, TypeOK', ExactlyOnce, RunningBound, NoLostWakeup, [Next]_vars
    PROVE  ExactlyOnce' /\ RunningBound' /\ NoLostWakeup'
<1>1. ASSUME NEW k \in Keys, NEW ts \in Batches, PutMany(k, ts)
      PROVE  ExactlyOnce' /\ RunningBound' /\ NoLostWakeup'
  <2>1. RunningBound'
    BY <1>1 DEF PutMany, RunningBound
  <2>2. NoLostWakeup'
    BY <1>1, NotifyAllFacts DEF PutMany, NoLostWakeup
  <2> QED BY <1>1, <2>1, <2>2, PutExactlyOnce
<1>2. ASSUME NEW w \in Workers, NEW k \in Keys, Take(w, k),
             \A v \in Workers : caller'[v].pc = "waiting" => caller'[v] = caller[v]
      PROVE  ExactlyOnce' /\ RunningBound' /\ NoLostWakeup'
  <2>1. ASSUME NEW v \in Workers, caller'[v].pc = "waiting"
        PROVE  ~Runnable(caller[v].key)'
    <3>1. caller'[v] = caller[v] /\ caller[v].pc = "waiting"
      BY <1>2, <2>1
    <3>2. caller[v] # Idle
      BY <3>1 DEF Idle
    <3>3. caller[v].key \in Keys
      BY <3>2, ParkedCaller
    <3>4. ~Runnable(caller[v].key)
      BY <3>1 DEF NoLostWakeup
    <3>5. ~(pending'[caller[v].key] # <<>> /\ (Limited => Cardinality(running') < MaxRunning))
      BY <1>2, <3>3, <3>4, TakeRunnable DEF Runnable
    <3> QED BY <3>1, <3>5 DEF Runnable
  <2> QED BY <1>2, <2>1, TakeExactlyOnce, TakeBound DEF NoLostWakeup
<1>3. ASSUME NEW w \in Workers, NEW k \in Keys, GetNowait(w, k)
      PROVE  ExactlyOnce' /\ RunningBound' /\ NoLostWakeup'
  BY <1>2, <1>3 DEF GetNowait
<1>4. ASSUME NEW w \in Workers, NEW k \in Keys, NEW timed \in BOOLEAN, Get(w, k, timed)
      PROVE  ExactlyOnce' /\ RunningBound' /\ NoLostWakeup'
  <2>1. CASE Take(w, k) /\ UNCHANGED caller
    BY <1>2, <2>1
  <2>2. CASE /\ ~Runnable(k) /\ UNCHANGED <<pending, running, completed, consumed>>
             /\ caller' = [caller EXCEPT
                               ![w] = [pc |-> "waiting", key |-> k, timed |-> timed]]
    <3>1. ASSUME NEW v \in Workers, caller'[v].pc = "waiting"
          PROVE  ~Runnable(caller[v].key)'
      <4>1. ~Runnable(caller'[v].key)
        BY <2>2, <3>1 DEF NoLostWakeup, TypeOK
      <4> QED BY <2>2, <4>1 DEF Runnable
    <3> QED BY <2>2, <3>1 DEF ExactlyOnce, RunningBound, NoLostWakeup
  <2> QED BY <1>4, <2>1, <2>2 DEF Get
<1>5. ASSUME NEW w \in Workers, Resume(w)
      PROVE  ExactlyOnce' /\ RunningBound' /\ NoLostWakeup'
  <2>1. caller[w] # Idle
    BY <1>5 DEF Resume, Idle
  <2>2. caller[w] \in [pc : {"waiting", "woken"}, key : Keys, timed : BOOLEAN]
    BY <2>1, ParkedCaller
  <2>3. CASE Take(w, caller[w].key) /\ caller' = [caller EXCEPT ![w] = Idle]
    <3>1. \A v \in Workers : caller'[v].pc = "waiting" => caller'[v] = caller[v]
      BY <2>3 DEF Idle, TypeOK
    <3> QED BY <1>2, <2>2, <2>3, <3>1
  <2>4. CASE /\ ~Runnable(caller[w].key) /\ UNCHANGED <<pending, running, completed, consumed>>
             /\ caller' = [caller EXCEPT ![w].pc = "waiting"]
    <3>1. ASSUME NEW v \in Workers, caller'[v].pc = "waiting"
          PROVE  ~Runnable(caller[v].key)'
      <4>1. CASE v = w
        <5>1. caller'[v] = [caller[w] EXCEPT !.pc = "waiting"]
          BY <2>4, <4>1 DEF TypeOK
        <5>2. caller'[v].key = caller[w].key
          BY <2>2, <5>1
        <5> QED BY <2>4, <5>2 DEF Runnable
      <4>2. CASE v # w
        <5>1. caller'[v] = caller[v]
          BY <2>4, <4>2 DEF TypeOK
        <5>2. ~Runnable(caller[v].key)
          BY <3>1, <5>1 DEF NoLostWakeup
        <5> QED BY <2>4, <5>1, <5>2 DEF Runnable
      <4> QED BY <4>1, <4>2
    <3> QED BY <2>4, <3>1 DEF ExactlyOnce, RunningBound, NoLostWakeup
  <2> QED BY <1>5, <2>3, <2>4 DEF Resume
<1>6. ASSUME NEW w \in Workers, Timeout(w)
      PROVE  ExactlyOnce' /\ RunningBound' /\ NoLostWakeup'
  <2>1. /\ caller' = [caller EXCEPT ![w] = Idle]
        /\ UNCHANGED <<pending, running, completed, consumed>>
    BY <1>6 DEF Timeout
  <2>2. ASSUME NEW v \in Workers, caller'[v].pc = "waiting"
        PROVE  ~Runnable(caller[v].key)'
    <3>1. caller'[v] = caller[v]
      BY <2>1, <2>2 DEF Idle, TypeOK
    <3>2. ~Runnable(caller[v].key)
      BY <2>2, <3>1 DEF NoLostWakeup
    <3> QED BY <2>1, <3>1, <3>2 DEF Runnable
  <2> QED BY <2>1, <2>2 DEF ExactlyOnce, RunningBound, NoLostWakeup
<1>7. ASSUME NEW a \in running, Complete(a)
      PROVE  ExactlyOnce' /\ RunningBound' /\ NoLostWakeup'
  <2>1. NoLostWakeup'
    BY <1>7, NotifyAllFacts DEF Complete, NoLostWakeup
  <2>2. RunningBound'
    <3>1. IsFiniteSet(running)
      BY RunningFinite
    <3>2. /\ Cardinality(running \ {a}) \in Nat /\ Cardinality(running) \in Nat
          /\ Cardinality(running \ {a}) <= Cardinality(running)
      BY <3>1, FS_Subset, FS_CardinalityType
    <3>3. Cardinality(running \ {a}) <= MaxRunning
      BY <1>7, <3>2, QueueAssumption DEF RunningBound, Complete
    <3> QED BY <1>7, <3>3 DEF Complete, RunningBound
  <2>3. ExactlyOnce'
    BY <1>7 DEF Complete, ExactlyOnce
  <2> QED BY <2>1, <2>2, <2>3
<1>8. CASE UNCHANGED vars
  BY <1>8 DEF vars, ExactlyOnce, RunningBound, NoLostWakeup, Runnable
<1> QED BY <1>1, <1>3, <1>4, <1>5, <1>6, <1>7, <1>8 DEF Next

\* At most max_running_tasks assignments are out, no parked caller misses a
\* runnable task, and no submission is handed out twice: for every number of
\* tasks, keys, callers and every limit, in both modes of the queue.
THEOREM QueueSafety == Spec => [](RunningBound /\ NoLostWakeup /\ ExactlyOnce)
<1>1. Init => ExactlyOnce /\ RunningBound /\ NoLostWakeup
  <2> SUFFICES ASSUME Init PROVE ExactlyOnce /\ RunningBound /\ NoLostWakeup
    OBVIOUS
  <2>1. ExactlyOnce
    BY DEF Init, ExactlyOnce
  <2>2. RunningBound
    BY FS_EmptySet, QueueAssumption DEF Init, RunningBound
  <2>3. NoLostWakeup
    BY DEF Init, NoLostWakeup, Idle
  <2> QED BY <2>1, <2>2, <2>3
<1>2. TypeOK /\ TypeOK' /\ ExactlyOnce /\ RunningBound /\ NoLostWakeup /\ [Next]_vars
        => ExactlyOnce' /\ RunningBound' /\ NoLostWakeup'
  BY QueueInvInductive
<1> QED BY <1>1, <1>2, TypeCorrect, PTL DEF Spec

\* A submission is in one place only, and what was completed is never handed out again:
\* a put, a worker and a completion may interleave in any order.
THEOREM NoTaskTwice == Spec => []ExactlyOnce
<1>1. RunningBound /\ NoLostWakeup /\ ExactlyOnce => ExactlyOnce
  OBVIOUS
<1> QED BY <1>1, QueueSafety, PTL
===========================================================================
