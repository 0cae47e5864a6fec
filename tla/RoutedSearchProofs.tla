------------------------ MODULE RoutedSearchProofs -------------------------
(* What a rollout is served by, turn by turn: the inference router, which    *)
(* its generate calls go through, and the search client of the Search-R1     *)
(* recipe, which its tool calls go through.                                  *)
(*                                                                           *)
(* Part 1: the counters of the router are exact and its tables bounded, for  *)
(* every number of workers, sessions and requests, and every limit.          *)
(* Part 2: a Search-R1 rollout keeps its budget, and every search ends with  *)
(* an answer to its own query or after the last retry, for every model,      *)
(* corpus and limit.                                                         *)
(* Part 3: the verifier accepts the text of a rollout only if its turns are  *)
(* well-formed, and if they are, unless a search inserts a tag.              *)
EXTENDS InferRouter, SearchR1, FiniteSetTheorems, WellFoundedInduction, TLAPS

---------------------------------------------------------------------------
(* Part 1: the operators of the router. *)

\* Every non-empty set of naturals has a least element.
LEMMA LeastNatural ==
    ASSUME NEW S \in SUBSET Nat, S # {}
    PROVE  \E x \in S : \A y \in S : x <= y
<1> DEFINE R == OpToRel(<, Nat)
<1>1. IsWellFoundedOn(R, Nat)
  BY NatLessThanWellFounded
<1> HIDE DEF R
<1>2. PICK x \in S : \A y \in S : ~(<<y, x>> \in R)
  BY <1>1, WFMin
<1>3. \A y \in S : x <= y
  <2> SUFFICES ASSUME NEW y \in S PROVE x <= y
    OBVIOUS
  <2>1. ~(y < x)
    BY <1>2 DEF R, OpToRel
  <2> QED BY <2>1
<1> QED BY <1>3

\* There is a first least loaded worker.
LEMMA ArgMinWorker ==
    ASSUME TypeOK
    PROVE  ArgMin \in RemoteWorkers
<1> DEFINE Loads == {workloads[w] : w \in RemoteWorkers}
<1>1. Loads \in SUBSET Nat /\ Loads # {}
  BY RouterAssumption DEF TypeOK, RemoteWorkers
<1>2. PICK m \in Loads : \A n \in Loads : m <= n
  BY <1>1, LeastNatural
<1> DEFINE Least == {w \in RemoteWorkers : workloads[w] = m}
<1>3. Least \in SUBSET Nat /\ Least # {}
  BY <1>2 DEF RemoteWorkers
<1>4. PICK w \in Least : \A v \in Least : w <= v
  BY <1>3, LeastNatural
<1>5. \A v \in RemoteWorkers :
        \/ workloads[w] < workloads[v]
        \/ workloads[w] = workloads[v] /\ w <= v
  <2> SUFFICES ASSUME NEW v \in RemoteWorkers, workloads[w] # workloads[v]
               PROVE  workloads[w] < workloads[v]
    BY <1>4
  <2>1. workloads[w] \in Nat /\ workloads[v] \in Nat /\ workloads[w] <= workloads[v]
    BY <1>2, <1>4 DEF TypeOK
  <2> QED BY <2>1
<1> QED BY <1>4, <1>5 DEF ArgMin

\* The larger of two limits bounds both.
LEMMA MaxOfTwo ==
    ASSUME NEW a \in Int, NEW b \in Int
    PROVE  Max({a, b}) \in Int /\ Max({a, b}) >= a /\ Max({a, b}) >= b
<1>1. \E x \in {a, b} : \A y \in {a, b} : x >= y
  OBVIOUS
<1> QED BY <1>1 DEF Max

\* A request that was sent has a session and a worker.
LEMMA SentRequest ==
    ASSUME TypeOK, NEW r \in Requests, call[r] # NotSent
    PROVE  /\ call[r].st \in {"active", "raised"}
           /\ call[r].session \in Sessions
           /\ call[r].worker \in RemoteWorkers
           /\ call[r] = Sent(call[r].st, call[r].session, call[r].worker)
  BY DEF TypeOK, Sent

\* What a sent request holds.
LEMMA SentShape ==
    ASSUME NEW st, NEW s, NEW w
    PROVE  /\ Sent(st, s, w) # NotSent
           /\ Sent(st, s, w).st = st
           /\ Sent(st, s, w).session = s
           /\ Sent(st, s, w).worker = w
  BY DEF Sent, NotSent

\* What is counted is finite.
LEMMA CountedFinite ==
    /\ IsFiniteSet(Requests) /\ Cardinality(Requests) \in Nat
    /\ \A w : IsFiniteSet(OnWorker(w))
    /\ \A s : IsFiniteSet(OfSession(s))
<1>1. IsFiniteSet(Requests)
  BY RouterAssumption
<1>2. \A S \in SUBSET Requests : IsFiniteSet(S)
  BY <1>1, FS_Subset
<1> QED BY <1>1, <1>2, FS_CardinalityType DEF OnWorker, OfSession

\* A cleanup keeps the sessions and the type of the entries.
LEMMA OnlyKeepsType ==
    ASSUME NEW f, NEW S, NEW T, DOMAIN f \subseteq Sessions, \A t \in DOMAIN f : f[t] \in T
    PROVE  /\ DOMAIN Only(f, S) = DOMAIN f \cap S
           /\ DOMAIN Only(f, S) \subseteq Sessions
           /\ \A t \in DOMAIN Only(f, S) : Only(f, S)[t] = f[t] /\ Only(f, S)[t] \in T
  BY DEF Only

---------------------------------------------------------------------------
(* The inductive invariant. *)

\* The conjuncts of CountsExact: the load of each worker, the count of each
\* session, the two tables in step, and their bound.
LoadsExact == \A w \in RemoteWorkers : workloads[w] = Cardinality(OnWorker(w))
SessionsExact == \A s \in Sessions : Count(s) = Cardinality(OfSession(s))
SameSessions == DOMAIN session_worker = DOMAIN session_count
NoneDropped ==
    \A r \in Requests : call[r] # NotSent => call[r].session \in DOMAIN session_count
Bounded ==
    MaxCached >= 0 =>
        Cardinality(DOMAIN session_worker) < Max({MaxCached, Cardinality(Requests) + 1})

\* The tables are finite, so that adding a session to them adds one.
RouterInv == TypeOK /\ CountsExact /\ IsFiniteSet(DOMAIN session_worker)

\* The invariant is the conjunction of its parts.
LEMMA CountsExactParts ==
    CountsExact <=> LoadsExact /\ SessionsExact /\ SameSessions /\ NoneDropped /\ Bounded
  BY DEF CountsExact, LoadsExact, SessionsExact, SameSessions, NoneDropped, Bounded

\* Sessions that have a request in flight are no more than the requests.
LEMMA BusyBound ==
    ASSUME NEW S, NEW sent, \A s \in S : \E r \in Requests : sent[r].session = s
    PROVE  IsFiniteSet(S) /\ Cardinality(S) <= Cardinality(Requests)
<1> DEFINE f == [s \in S |-> CHOOSE r \in Requests : sent[r].session = s]
<1>1. \A s \in S : f[s] \in Requests /\ sent[f[s]].session = s
  OBVIOUS
<1>2. f \in [S -> Requests]
  BY <1>1
<1> HIDE DEF f
<1>3. \A s, t \in S : f[s] = f[t] => s = t
  BY <1>1
<1>4. f \in Injection(S, Requests)
  BY <1>2, <1>3 DEF Injection, IsInjective
<1> QED BY <1>4, FS_Injection, RouterAssumption

\* So a table that was cleaned is within its bound.
LEMMA CleanedBound ==
    ASSUME NEW S, NEW sent, \A s \in S : \E r \in Requests : sent[r].session = s,
           MaxCached >= 0
    PROVE  Cardinality(S) < Max({MaxCached, Cardinality(Requests) + 1})
<1>1. IsFiniteSet(S) /\ Cardinality(S) \in Nat /\ Cardinality(S) <= Cardinality(Requests)
  BY BusyBound, FS_CardinalityType
<1>2. Cardinality(Requests) + 1 \in Int /\ MaxCached \in Int
  BY CountedFinite, RouterAssumption
<1> DEFINE m == Max({MaxCached, Cardinality(Requests) + 1})
<1>3. m \in Int /\ m >= Cardinality(Requests) + 1
  BY <1>2, MaxOfTwo
<1> HIDE DEF m
<1>4. Cardinality(S) < m
  BY <1>1, <1>2, <1>3, CountedFinite
<1> QED BY <1>4 DEF m

\* Nothing is in flight at first.
LEMMA InitiallyExact == RouterInit => RouterInv
<1> SUFFICES ASSUME RouterInit PROVE RouterInv
  OBVIOUS
<1>1. TypeOK
  BY DEF RouterInit, TypeOK
<1>2. \A w : OnWorker(w) = {} /\ OfSession(w) = {}
  BY DEF RouterInit, OnWorker, OfSession
<1>3. LoadsExact /\ SessionsExact
  BY <1>2, FS_EmptySet DEF RouterInit, LoadsExact, SessionsExact, Count
<1>4. SameSessions /\ NoneDropped /\ DOMAIN session_worker = {}
  BY DEF RouterInit, SameSessions, NoneDropped
<1>5. Bounded
  <2>1. \A s \in DOMAIN session_worker : \E r \in Requests : call[r].session = s
    BY <1>4
  <2> QED BY <2>1, CleanedBound DEF Bounded
<1> QED BY <1>1, <1>3, <1>4, <1>5, CountsExactParts, FS_EmptySet DEF RouterInv

\* An assignment adds one request to its worker and to its session, whether the
\* session stays, moves, or is cleaned up around.
LEMMA AssignExact ==
    ASSUME RouterInv, NEW r \in Requests, NEW s \in Sessions, Assign(r, s)
    PROVE  RouterInv'
<1> DEFINE counts == Put(session_count, s, Count(s) + 1)
           table == Put(session_worker, s, ArgMin)
           w == IF Prefers(s) THEN session_worker[s] ELSE ArgMin
           kept == Busy(counts)
<1>0. TypeOK /\ LoadsExact /\ SessionsExact /\ SameSessions /\ NoneDropped /\ Bounded
  BY CountsExactParts DEF RouterInv
<1>1. w \in RemoteWorkers /\ ArgMin \in RemoteWorkers
  BY <1>0, ArgMinWorker DEF TypeOK, Prefers
<1>2. Count(s) \in Nat /\ Count(s) + 1 \in Nat
  BY <1>0 DEF TypeOK, Count
<1>3. /\ DOMAIN counts = DOMAIN session_count \cup {s}
      /\ counts[s] = Count(s) + 1
      /\ \A t \in DOMAIN session_count : t # s => counts[t] = session_count[t]
      /\ DOMAIN table = DOMAIN session_worker \cup {s}
      /\ table[s] = ArgMin
      /\ \A t \in DOMAIN session_worker : t # s => table[t] = session_worker[t]
  <2> DEFINE n == Count(s) + 1
             m == ArgMin
  <2> HIDE DEF n, m
  <2>1. /\ DOMAIN Put(session_count, s, n) = DOMAIN session_count \cup {s}
        /\ Put(session_count, s, n)[s] = n
        /\ \A t \in DOMAIN session_count :
              t # s => Put(session_count, s, n)[t] = session_count[t]
    BY DEF Put
  <2>2. /\ DOMAIN Put(session_worker, s, m) = DOMAIN session_worker \cup {s}
        /\ Put(session_worker, s, m)[s] = m
        /\ \A t \in DOMAIN session_worker :
              t # s => Put(session_worker, s, m)[t] = session_worker[t]
    BY DEF Put
  <2> QED BY <2>1, <2>2 DEF n, m
<1>4. /\ DOMAIN counts \subseteq Sessions /\ \A t \in DOMAIN counts : counts[t] \in Nat
      /\ DOMAIN Only(counts, kept) \subseteq Sessions
      /\ \A t \in DOMAIN Only(counts, kept) : Only(counts, kept)[t] \in Nat
  <2> HIDE DEF counts, kept
  <2>1. DOMAIN counts \subseteq Sessions /\ \A t \in DOMAIN counts : counts[t] \in Nat
    BY <1>0, <1>2, <1>3 DEF TypeOK
  <2> QED BY <2>1, OnlyKeepsType
<1>5. /\ DOMAIN table \subseteq Sessions
      /\ \A t \in DOMAIN table : table[t] \in RemoteWorkers
      /\ DOMAIN Only(table, kept) \subseteq Sessions
      /\ \A t \in DOMAIN Only(table, kept) : Only(table, kept)[t] \in RemoteWorkers
  <2> HIDE DEF table, kept
  <2>1. DOMAIN table \subseteq Sessions /\ \A t \in DOMAIN table : table[t] \in RemoteWorkers
    BY <1>0, <1>1, <1>3 DEF TypeOK
  <2> QED BY <2>1, OnlyKeepsType
<1>6. /\ workloads' = [workloads EXCEPT ![w] = @ + 1]
      /\ call[r] = NotSent
      /\ call' = [call EXCEPT ![r] = Sent("active", s, w)]
  BY DEF Assign
<1>7. \/ Prefers(s) /\ session_worker' = session_worker /\ session_count' = counts
      \/ ~Prefers(s) /\ ~NeedsCleanup(table) /\ session_worker' = table /\ session_count' = counts
      \/ session_worker' = Only(table, kept) /\ session_count' = Only(counts, kept)
  BY DEF Assign
<1>8. kept = {t \in DOMAIN counts : counts[t] > 0}
  BY DEF Busy
<1>9. Prefers(s) => s \in DOMAIN session_worker
  BY DEF Prefers
<1>10. NeedsCleanup(table) <=> MaxCached >= 0 /\ Cardinality(DOMAIN table) >= MaxCached
  BY DEF NeedsCleanup
<1> HIDE DEF counts, table, w, kept
<1>11. TypeOK'
  <2>1. workloads' \in [RemoteWorkers -> Nat]
    BY <1>0, <1>1, <1>6 DEF TypeOK
  <2>2. call' \in [Requests -> {NotSent} \cup
             {Sent(st, t, v) : st \in {"active", "raised"}, t \in Sessions, v \in RemoteWorkers}]
    BY <1>0, <1>1, <1>6 DEF TypeOK
  <2>3. /\ DOMAIN session_worker' \subseteq Sessions
        /\ \A t \in DOMAIN session_worker' : session_worker'[t] \in RemoteWorkers
    BY <1>0, <1>5, <1>7 DEF TypeOK
  <2>4. /\ DOMAIN session_count' \subseteq Sessions
        /\ \A t \in DOMAIN session_count' : session_count'[t] \in Nat
    BY <1>4, <1>7
  <2> QED BY <2>1, <2>2, <2>3, <2>4 DEF TypeOK
<1>12. /\ \A q \in Requests : q # r => call'[q] = call[q]
       /\ call'[r] # NotSent /\ call'[r].session = s /\ call'[r].worker = w
  BY <1>0, <1>6, SentShape DEF TypeOK
<1>13. LoadsExact'
  <2> SUFFICES ASSUME NEW v \in RemoteWorkers
               PROVE  workloads'[v] = Cardinality(OnWorker(v)')
    BY DEF LoadsExact
  <2>1. CASE v = w
    <3>1. OnWorker(v)' = OnWorker(v) \cup {r} /\ r \notin OnWorker(v)
      BY <1>6, <1>12, <2>1 DEF OnWorker
    <3>2. Cardinality(OnWorker(v)') = Cardinality(OnWorker(v)) + 1
      BY <3>1, CountedFinite, FS_AddElement
    <3> QED BY <1>0, <1>1, <1>6, <2>1, <3>2 DEF LoadsExact, TypeOK
  <2>2. CASE v # w
    <3>1. OnWorker(v)' = OnWorker(v)
      BY <1>6, <1>12, <2>2 DEF OnWorker
    <3> QED BY <1>0, <1>6, <2>2, <3>1 DEF LoadsExact, TypeOK
  <2> QED BY <2>1, <2>2
<1>14. \A t \in Sessions : Count(t)' = IF t = s THEN Count(s) + 1 ELSE Count(t)
  <2> SUFFICES ASSUME NEW t \in Sessions
               PROVE  Count(t)' = IF t = s THEN Count(s) + 1 ELSE Count(t)
    OBVIOUS
  <2>1. (IF t \in DOMAIN counts THEN counts[t] ELSE 0)
           = IF t = s THEN Count(s) + 1 ELSE Count(t)
    BY <1>3 DEF Count
  <2>2. CASE session_count' = counts
    BY <2>1, <2>2 DEF Count
  <2>3. CASE session_count' = Only(counts, kept)
    <3>1. Count(t)' = IF t \in kept THEN counts[t] ELSE 0
      BY <1>8, <2>3 DEF Count, Only
    <3>2. t \in DOMAIN counts /\ t \notin kept => counts[t] = 0
      BY <1>4, <1>8
    <3>3. t \in kept => t \in DOMAIN counts
      BY <1>8
    <3> QED BY <2>1, <3>1, <3>2, <3>3
  <2> QED BY <1>7, <2>2, <2>3
<1>15. SessionsExact'
  <2> SUFFICES ASSUME NEW t \in Sessions
               PROVE  Count(t)' = Cardinality(OfSession(t)')
    BY DEF SessionsExact
  <2>1. CASE t = s
    <3>1. OfSession(t)' = OfSession(t) \cup {r} /\ r \notin OfSession(t)
      BY <1>6, <1>12, <2>1 DEF OfSession
    <3>2. Cardinality(OfSession(t)') = Cardinality(OfSession(t)) + 1
      BY <3>1, CountedFinite, FS_AddElement
    <3> QED BY <1>0, <1>14, <2>1, <3>2 DEF SessionsExact
  <2>2. CASE t # s
    <3>1. OfSession(t)' = OfSession(t)
      BY <1>6, <1>12, <2>2 DEF OfSession
    <3> QED BY <1>0, <1>14, <2>2, <3>1 DEF SessionsExact
  <2> QED BY <2>1, <2>2
<1>16. SameSessions'
  BY <1>0, <1>3, <1>7, <1>9 DEF SameSessions, Only
<1>17. NoneDropped'
  <2> SUFFICES ASSUME NEW q \in Requests, call'[q] # NotSent
               PROVE  call'[q].session \in DOMAIN session_count'
    BY DEF NoneDropped
  <2>1. PICK t \in Sessions : t = call'[q].session
    <3>1. CASE q = r
      BY <1>12, <3>1
    <3>2. CASE q # r
      BY <1>0, <1>12, <3>2, SentRequest
    <3> QED BY <3>1, <3>2
  <2>2. q \in OfSession(t)'
    BY <2>1 DEF OfSession
  <2>3. IsFiniteSet(OfSession(t)')
    BY CountedFinite, FS_Subset DEF OfSession
  <2>4. Cardinality(OfSession(t)') # 0
    BY <2>2, <2>3, FS_EmptySet
  <2>5. Count(t)' # 0
    BY <1>15, <2>1, <2>4 DEF SessionsExact
  <2> QED BY <2>1, <2>5 DEF Count
<1>18. IsFiniteSet(DOMAIN session_worker')
  <2>1. IsFiniteSet(DOMAIN table)
    BY <1>3, FS_AddElement DEF RouterInv
  <2>2. DOMAIN Only(table, kept) \subseteq DOMAIN table
    BY DEF Only
  <2> QED BY <1>7, <2>1, <2>2, FS_Subset DEF RouterInv
<1>19. Bounded'
  <2> SUFFICES ASSUME MaxCached >= 0
               PROVE  Cardinality(DOMAIN session_worker')
                        < Max({MaxCached, Cardinality(Requests) + 1})
    BY DEF Bounded
  <2>1. CASE session_worker' = session_worker
    BY <1>0, <2>1 DEF Bounded
  <2>2. CASE ~NeedsCleanup(table) /\ session_worker' = table
    <3> DEFINE m == Max({MaxCached, Cardinality(Requests) + 1})
    <3>1. Cardinality(DOMAIN table) \in Nat
      BY <1>18, <2>2, FS_CardinalityType
    <3>2. Cardinality(DOMAIN table) < MaxCached
      BY <1>10, <2>2, <3>1, RouterAssumption
    <3>3. m \in Int /\ m >= MaxCached
      BY CountedFinite, MaxOfTwo, RouterAssumption
    <3> HIDE DEF m
    <3>4. Cardinality(DOMAIN table) < m
      BY <3>1, <3>2, <3>3, RouterAssumption
    <3> QED BY <2>2, <3>4 DEF m
  <2>3. CASE session_worker' = Only(table, kept) /\ session_count' = Only(counts, kept)
    <3>1. \A t \in DOMAIN session_worker' : t \in Sessions /\ Count(t)' > 0
      BY <1>4, <1>8, <2>3 DEF Only, Count
    <3>2. \A t \in DOMAIN session_worker' : OfSession(t)' # {}
      BY <1>15, <3>1, FS_EmptySet DEF SessionsExact
    <3>3. \A t \in DOMAIN session_worker' : \E q \in Requests : call'[q].session = t
      BY <3>2 DEF OfSession
    <3> QED BY <3>3, CleanedBound
  <2> QED BY <1>7, <2>1, <2>2, <2>3
<1>20. CountsExact'
  BY <1>13, <1>15, <1>16, <1>17, <1>19
     DEF CountsExact, LoadsExact, SessionsExact, SameSessions, NoneDropped, Bounded
<1> QED BY <1>11, <1>18, <1>20 DEF RouterInv

\* The end of a request takes it off the worker and the session it was assigned to.
LEMMA FinishExact ==
    ASSUME RouterInv, NEW r \in Requests, OnConversationsFinish(r)
    PROVE  RouterInv'
<1> DEFINE s == call[r].session
           w == call[r].worker
<1>0. TypeOK /\ LoadsExact /\ SessionsExact /\ SameSessions /\ NoneDropped /\ Bounded
  BY CountsExactParts DEF RouterInv
<1>1. call[r] # NotSent
  BY DEF OnConversationsFinish, NotSent
<1>2. s \in Sessions /\ w \in RemoteWorkers
  BY <1>0, <1>1, SentRequest
<1>3. s \in DOMAIN session_count
  BY <1>0, <1>1 DEF NoneDropped
<1>4. /\ workloads' = [workloads EXCEPT ![w] = @ - 1]
      /\ session_count' = [session_count EXCEPT ![s] = @ - 1]
      /\ call' = [call EXCEPT ![r] = NotSent]
      /\ session_worker' = session_worker
  BY DEF OnConversationsFinish
<1>5. r \in OnWorker(w) /\ r \in OfSession(s)
  BY <1>1 DEF OnWorker, OfSession
<1>6. /\ \A v \in RemoteWorkers : OnWorker(v)' = IF v = w THEN OnWorker(v) \ {r} ELSE OnWorker(v)
      /\ \A t \in Sessions : OfSession(t)' = IF t = s THEN OfSession(t) \ {r} ELSE OfSession(t)
  BY <1>0, <1>4 DEF OnWorker, OfSession, TypeOK
<1>7. /\ Cardinality(OnWorker(w) \ {r}) = Cardinality(OnWorker(w)) - 1
      /\ Cardinality(OfSession(s) \ {r}) = Cardinality(OfSession(s)) - 1
      /\ Cardinality(OnWorker(w) \ {r}) \in Nat /\ Cardinality(OfSession(s) \ {r}) \in Nat
  <2>1. IsFiniteSet(OnWorker(w)) /\ IsFiniteSet(OfSession(s))
    BY CountedFinite
  <2>2. IsFiniteSet(OnWorker(w) \ {r}) /\ IsFiniteSet(OfSession(s) \ {r})
    BY <2>1, FS_Subset
  <2> QED BY <1>5, <2>1, <2>2, FS_RemoveElement, FS_CardinalityType
<1>8. workloads[w] = Cardinality(OnWorker(w)) /\ session_count[s] = Cardinality(OfSession(s))
  BY <1>0, <1>2, <1>3 DEF LoadsExact, SessionsExact, Count
<1> HIDE DEF s, w
<1>9. workloads' \in [RemoteWorkers -> Nat]
  BY <1>0, <1>2, <1>4, <1>7, <1>8 DEF TypeOK
<1>10. /\ DOMAIN session_count' = DOMAIN session_count
       /\ session_count'[s] = session_count[s] - 1
       /\ \A t \in DOMAIN session_count : t # s => session_count'[t] = session_count[t]
  BY <1>3, <1>4
<1>11. TypeOK'
  <2>1. \A t \in DOMAIN session_count' : session_count'[t] \in Nat
    BY <1>0, <1>7, <1>8, <1>10 DEF TypeOK
  <2>2. call' \in [Requests -> {NotSent} \cup
             {Sent(st, t, v) : st \in {"active", "raised"}, t \in Sessions, v \in RemoteWorkers}]
    BY <1>0, <1>4 DEF TypeOK
  <2> QED BY <1>0, <1>4, <1>9, <1>10, <2>1, <2>2 DEF TypeOK
<1>12. LoadsExact'
  <2> SUFFICES ASSUME NEW v \in RemoteWorkers PROVE workloads'[v] = Cardinality(OnWorker(v)')
    BY DEF LoadsExact
  <2>1. workloads[v] = Cardinality(OnWorker(v))
    BY <1>0 DEF LoadsExact
  <2>2. CASE v = w
    <3>1. workloads'[v] = workloads[w] - 1
      BY <1>0, <1>4, <2>2 DEF TypeOK
    <3>2. OnWorker(v)' = OnWorker(w) \ {r}
      BY <1>6, <2>2
    <3> QED BY <1>7, <1>8, <3>1, <3>2
  <2>3. CASE v # w
    <3>1. workloads'[v] = workloads[v]
      BY <1>0, <1>4, <2>3 DEF TypeOK
    <3>2. OnWorker(v)' = OnWorker(v)
      BY <1>6, <2>3
    <3> QED BY <2>1, <3>1, <3>2
  <2> QED BY <2>2, <2>3
<1>13. SessionsExact'
  <2>1. \A t \in Sessions : Count(t)' = IF t = s THEN Count(s) - 1 ELSE Count(t)
    BY <1>3, <1>10 DEF Count
  <2> QED BY <1>0, <1>2, <1>6, <1>7, <2>1 DEF SessionsExact
<1>14. SameSessions' /\ Bounded'
  BY <1>0, <1>4, <1>10 DEF SameSessions, Bounded
<1>15. NoneDropped'
  <2> SUFFICES ASSUME NEW q \in Requests, call'[q] # NotSent
               PROVE  call'[q].session \in DOMAIN session_count'
    BY DEF NoneDropped
  <2>1. q # r /\ call'[q] = call[q]
    BY <1>0, <1>4 DEF TypeOK
  <2> QED BY <1>0, <1>10, <2>1 DEF NoneDropped
<1>16. CountsExact'
  BY <1>12, <1>13, <1>14, <1>15
     DEF CountsExact, LoadsExact, SessionsExact, SameSessions, NoneDropped, Bounded
<1> QED BY <1>4, <1>11, <1>16 DEF RouterInv

\* A call that raises stays counted.
LEMMA RaiseExact ==
    ASSUME RouterInv, NEW r \in Requests, Raise(r)
    PROVE  RouterInv'
<1>0. TypeOK /\ CountsExact
  BY DEF RouterInv
<1>1. call[r] # NotSent
  BY DEF Raise, NotSent
<1>2. /\ call[r].session \in Sessions /\ call[r].worker \in RemoteWorkers
      /\ call[r] = Sent(call[r].st, call[r].session, call[r].worker)
  BY <1>0, <1>1, SentRequest
<1>3. /\ call' = [call EXCEPT ![r].st = "raised"]
      /\ UNCHANGED <<workloads, session_worker, session_count>>
  BY DEF Raise
<1>4. [call[r] EXCEPT !.st = "raised"]
        = Sent("raised", call[r].session, call[r].worker)
  <2>1. \A x, s, w : [Sent(x, s, w) EXCEPT !.st = "raised"] = Sent("raised", s, w)
    BY DEF Sent
  <2> QED BY <1>2, <2>1
<1>5. /\ call'[r] = Sent("raised", call[r].session, call[r].worker)
      /\ \A q \in Requests : q # r => call'[q] = call[q]
  BY <1>0, <1>3, <1>4 DEF TypeOK
<1>6. TypeOK'
  <2>1. call' \in [Requests -> {NotSent} \cup
             {Sent(x, t, v) : x \in {"active", "raised"}, t \in Sessions, v \in RemoteWorkers}]
    BY <1>0, <1>2, <1>3, <1>4 DEF TypeOK
  <2> QED BY <1>0, <1>3, <2>1 DEF TypeOK
<1>7. \A q \in Requests : /\ call'[q] # NotSent <=> call[q] # NotSent
                          /\ call[q] # NotSent =>
                               /\ call'[q].session = call[q].session
                               /\ call'[q].worker = call[q].worker
  BY <1>1, <1>5, SentShape
<1>8. \A x : OnWorker(x)' = OnWorker(x) /\ OfSession(x)' = OfSession(x)
  BY <1>7 DEF OnWorker, OfSession
<1>9. \A s : Count(s)' = Count(s)
  BY <1>3 DEF Count
<1>10. CountsExact'
  BY <1>0, <1>3, <1>7, <1>8, <1>9 DEF CountsExact
<1> QED BY <1>3, <1>6, <1>10 DEF RouterInv

\* Clearing the mapping drops sessions whose count is zero and no other.
LEMMA ClearExact ==
    ASSUME RouterInv, ClearSessionWorkerMapping
    PROVE  RouterInv'
<1> DEFINE kept == Busy(session_count)
<1>0. TypeOK /\ LoadsExact /\ SessionsExact /\ SameSessions /\ NoneDropped /\ Bounded
  BY CountsExactParts DEF RouterInv
<1>1. kept = {s \in DOMAIN session_count : session_count[s] > 0}
  BY DEF Busy
<1>2. /\ session_worker' = Only(session_worker, kept)
      /\ session_count' = Only(session_count, kept)
      /\ UNCHANGED <<workloads, call>>
  BY DEF ClearSessionWorkerMapping
<1> HIDE DEF kept
<1>3. /\ DOMAIN session_count \subseteq Sessions
      /\ \A s \in DOMAIN session_count : session_count[s] \in Nat
      /\ DOMAIN session_worker \subseteq Sessions
      /\ \A s \in DOMAIN session_worker : session_worker[s] \in RemoteWorkers
  BY <1>0 DEF TypeOK
<1>4. /\ DOMAIN session_count' = kept /\ DOMAIN session_worker' = kept
      /\ \A s \in kept : session_count'[s] = session_count[s]
      /\ \A s \in kept : session_worker'[s] = session_worker[s]
  BY <1>0, <1>1, <1>2 DEF Only, SameSessions
<1>5. TypeOK'
  <2>1. /\ kept \subseteq Sessions
        /\ \A s \in kept : session_worker'[s] \in RemoteWorkers
        /\ \A s \in kept : session_count'[s] \in Nat
    BY <1>0, <1>1, <1>3, <1>4 DEF SameSessions
  <2> QED BY <1>0, <1>2, <1>4, <2>1 DEF TypeOK
<1>6. \A x : OnWorker(x)' = OnWorker(x) /\ OfSession(x)' = OfSession(x)
  BY <1>2 DEF OnWorker, OfSession
<1>7. \A s \in Sessions : Count(s)' = Count(s)
  BY <1>1, <1>3, <1>4 DEF Count
<1>8. LoadsExact' /\ SessionsExact'
  BY <1>0, <1>2, <1>6, <1>7 DEF LoadsExact, SessionsExact
<1>9. SameSessions'
  BY <1>4 DEF SameSessions
<1>10. NoneDropped'
  <2> SUFFICES ASSUME NEW r \in Requests, call[r] # NotSent
               PROVE  call[r].session \in kept
    BY <1>2, <1>4 DEF NoneDropped
  <2>1. call[r].session \in DOMAIN session_count /\ call[r].session \in Sessions
    BY <1>0, SentRequest DEF NoneDropped
  <2>2. Cardinality(OfSession(call[r].session)) # 0
    BY CountedFinite, FS_EmptySet DEF OfSession
  <2> QED BY <1>0, <1>1, <1>3, <2>1, <2>2 DEF SessionsExact, Count
<1>11. Bounded'
  <2>1. \A s \in kept : \E r \in Requests : call[r].session = s
    <3> SUFFICES ASSUME NEW s \in kept PROVE \E r \in Requests : call[r].session = s
      OBVIOUS
    <3>1. Cardinality(OfSession(s)) # 0
      BY <1>0, <1>1, <1>3 DEF SessionsExact, Count
    <3>2. OfSession(s) # {}
      BY <3>1, FS_EmptySet
    <3> QED BY <3>2 DEF OfSession
  <2> QED BY <1>4, <2>1, CleanedBound DEF Bounded
<1>12. IsFiniteSet(DOMAIN session_worker')
  BY <1>0, <1>1, <1>4, FS_Subset DEF RouterInv, SameSessions
<1>13. CountsExact'
  BY <1>8, <1>9, <1>10, <1>11
     DEF CountsExact, LoadsExact, SessionsExact, SameSessions, NoneDropped, Bounded
<1> QED BY <1>5, <1>12, <1>13 DEF RouterInv

\* Every step keeps the invariant.
LEMMA RouterInductive == RouterSpec => []RouterInv
<1>1. RouterInv /\ [RouterNext]_router => RouterInv'
  <2> SUFFICES ASSUME RouterInv, [RouterNext]_router PROVE RouterInv'
    OBVIOUS
  <2>1. CASE UNCHANGED router
    <3>1. \A x : OnWorker(x)' = OnWorker(x) /\ OfSession(x)' = OfSession(x) /\ Count(x)' = Count(x)
      BY <2>1 DEF router, OnWorker, OfSession, Count
    <3>2. TypeOK'
      BY <2>1 DEF router, TypeOK, RouterInv
    <3> QED BY <2>1, <3>1, <3>2 DEF router, RouterInv, CountsExact
  <2> QED BY <2>1, AssignExact, FinishExact, RaiseExact, ClearExact DEF RouterNext
<1> QED BY <1>1, InitiallyExact, PTL DEF RouterSpec

\* Every request is counted on its worker and its session from its assignment to its
\* end, whatever assignments, ends, failures and cleanups come between, and the
\* tables stay within their bound (_assign_worker_index, _on_conversations_finish,
\* _drop_idle_session_worker_mapping).
THEOREM RouterCountsExact == RouterSpec => []CountsExact
<1>1. RouterInv => CountsExact
  BY DEF RouterInv
<1> QED BY <1>1, RouterInductive, PTL

\* The variables keep their types; a counter is never decremented below zero.
THEOREM RouterTypeCorrect == RouterSpec => []TypeOK
<1>1. RouterInv => TypeOK
  BY DEF RouterInv
<1> QED BY <1>1, RouterInductive, PTL

---------------------------------------------------------------------------
(* Part 2: what is counted of a rollout. *)

\* Turns, and calls that were answered with a message.
Turns(r) == Len(outputs[r])
Calls(r) == Len(queries[r])

Queries == DOMAIN Hits \cup {NoQuery}
Requested(r) ==
    /\ DOMAIN request[r] = DOMAIN NoRequest
    /\ request[r].stage \in {"pool", "posted", "sleep"}
    /\ request[r].attempt \in 0..MaxRetries
    /\ request[r].query \in DOMAIN Hits

\* The sequences, counters and lengths the budget is about.
Counted ==
    /\ at \in [Rollouts -> {"model", "search", "append", "score", "done"}]
    /\ tokens \in [Rollouts -> Nat]
    /\ DOMAIN outputs = Rollouts /\ \A r \in Rollouts : outputs[r] \in Seq(Says[r])
    /\ queries \in [Rollouts -> Seq(Queries)]
    /\ searches \in [Rollouts -> [valid : Nat, failed : Nat]]
    /\ DOMAIN request = Rollouts /\ DOMAIN result = Rollouts

\* Every turn but the one in progress, and the last one, was answered.
Budget(r) ==
    CASE at[r] = "model" ->
           /\ Turns(r) = Calls(r) /\ Calls(r) <= SearchLimit + 1
           /\ searches[r].valid <= Calls(r) /\ searches[r].valid <= SearchLimit
           /\ tokens[r] < MaxLength - AnswerReserve
      [] at[r] = "search" ->
           /\ Turns(r) = Calls(r) + 1 /\ Calls(r) < SearchLimit
           /\ searches[r].valid <= Calls(r) + 1 /\ tokens[r] <= MaxLength
           /\ Requested(r)
      [] at[r] = "append" ->
           /\ Turns(r) = Calls(r) /\ Calls(r) <= SearchLimit + 1
           /\ searches[r].valid <= Calls(r) /\ searches[r].valid <= SearchLimit
           /\ tokens[r] <= MaxLength
      [] OTHER ->
           /\ Turns(r) <= SearchLimit + 2
           /\ searches[r].valid <= SearchLimit /\ tokens[r] <= MaxLength

\* A request is in progress exactly while the rollout waits for it.
Idle(r) == at[r] # "search" => request[r].stage = "none"

SearchInv == Counted /\ \A r \in Rollouts : Budget(r) /\ Idle(r)

---------------------------------------------------------------------------
(* The budget. *)

\* What Budget and Idle read of a rollout.
Untouched(q) ==
    /\ at'[q] = at[q] /\ tokens'[q] = tokens[q] /\ outputs'[q] = outputs[q]
    /\ queries'[q] = queries[q] /\ searches'[q] = searches[q] /\ request'[q] = request[q]

\* A rollout keeps its budget while other rollouts step.
LEMMA UntouchedKeeps ==
    ASSUME NEW q \in Rollouts, Budget(q), Idle(q), Untouched(q)
    PROVE  Budget(q)' /\ Idle(q)'
BY DEF Untouched, Budget, Idle, Turns, Calls, Requested

\* It is enough to look at the rollout that steps.
LEMMA OneSteps ==
    ASSUME NEW r \in Rollouts, SearchInv, Counted', Budget(r)', Idle(r)',
           \A q \in Rollouts \ {r} : Untouched(q)
    PROVE  SearchInv'
<1>1. ASSUME NEW q \in Rollouts PROVE (Budget(q) /\ Idle(q))'
  <2>1. CASE q = r BY <2>1
  <2>2. CASE q # r BY <2>2, UntouchedKeeps DEF SearchInv
  <2> QED BY <2>1, <2>2
<1> QED BY <1>1 DEF SearchInv

\* The budget holds before the first turn.
LEMMA SearchInit == Init => SearchInv
<1> SUFFICES ASSUME Init PROVE SearchInv OBVIOUS
<1> USE SearchAssumption
<1>1. ASSUME NEW r \in Rollouts
      PROVE  /\ at[r] = "model" /\ tokens[r] = Prompt /\ outputs[r] = <<>> /\ queries[r] = <<>>
             /\ searches[r] = [valid |-> 0, failed |-> 0] /\ request[r] = NoRequest
  BY DEF Init
<1>2. Counted
  <2>1. ASSUME NEW r \in Rollouts PROVE outputs[r] \in Seq(Says[r])
    <3>1. <<>> \in Seq(Says[r]) OBVIOUS
    <3> QED BY <1>1, <3>1
  <2>2. <<>> \in Seq(Queries) OBVIOUS
  <2>3. [valid |-> 0, failed |-> 0] \in [valid : Nat, failed : Nat] OBVIOUS
  <2>4. Prompt \in Nat OBVIOUS
  <2>5. at \in [Rollouts -> {"model", "search", "append", "score", "done"}] BY DEF Init
  <2>6. tokens \in [Rollouts -> Nat] BY <2>4 DEF Init
  <2>7. queries \in [Rollouts -> Seq(Queries)] BY <2>2 DEF Init
  <2>8. searches \in [Rollouts -> [valid : Nat, failed : Nat]] BY <2>3 DEF Init
  <2>9. DOMAIN outputs = Rollouts /\ DOMAIN request = Rollouts /\ DOMAIN result = Rollouts
    BY DEF Init
  <2> QED BY <2>1, <2>5, <2>6, <2>7, <2>8, <2>9 DEF Counted
<1>3. ASSUME NEW r \in Rollouts PROVE Budget(r) /\ Idle(r)
  <2>1. Len(<<>>) = 0 OBVIOUS
  <2>2. Turns(r) = 0 /\ Calls(r) = 0 /\ searches[r].valid = 0 BY <1>1, <2>1 DEF Turns, Calls
  <2>3. Budget(r) BY <1>1, <2>2 DEF Budget
  <2>4. Idle(r) BY <1>1 DEF Idle, NoRequest
  <2> QED BY <2>3, <2>4
<1> QED BY <1>2, <1>3 DEF SearchInv

\* A generation that was shortened to what fits, and the token that ends it.
LEMMA TurnFits ==
    ASSUME NEW r \in Rollouts, Counted, NEW o \in Says[r], tokens[r] + o.len <= MaxLength,
           NEW n, n = IF tokens[r] + o.len < MaxLength THEN tokens[r] + o.len + o.boundary
                                                       ELSE tokens[r] + o.len
    PROVE  n \in Nat /\ n <= MaxLength
<1>1. tokens[r] \in Nat BY DEF Counted
<1>2. o.len \in Nat /\ o.boundary \in {0, 1} BY GenerationAssumption
<1>3. MaxLength \in Nat BY SearchAssumption
<1> QED BY <1>1, <1>2, <1>3

\* A turn takes at most one of the answered calls, and of the searches, that
\* the budget has left.
LEMMA TurnStep ==
    ASSUME NEW r \in Rollouts, SearchInv, Turn(r)
    PROVE  SearchInv'
<1>1. Counted /\ Budget(r) /\ Idle(r) /\ at[r] = "model" BY DEF SearchInv, Turn
<1>2. PICK o \in Says[r] :
        /\ tokens[r] + o.len <= MaxLength
        /\ \E k \in {tokens[r] + o.len}, said \in {CompatibleOutput(o)} :
              Steps(r, o, IF k < MaxLength THEN k + o.boundary ELSE k, said)
  BY DEF Turn
<1>3. PICK n : n = IF tokens[r] + o.len < MaxLength THEN tokens[r] + o.len + o.boundary
                                                    ELSE tokens[r] + o.len
  OBVIOUS
<1>4. PICK said : Steps(r, o, n, said) BY <1>2, <1>3
<1>5. n \in Nat /\ n <= MaxLength BY <1>1, <1>2, <1>3, TurnFits
<1>6. Steps(r, o, n, said) BY <1>4
<1>7. /\ outputs' = [outputs EXCEPT ![r] = Append(@, o)]
      /\ tokens' = [tokens EXCEPT ![r] = n]
  BY <1>6 DEF Steps
<1>8. /\ outputs[r] \in Seq(Says[r]) /\ queries[r] \in Seq(Queries)
      /\ o.calls \in Seq(Queries)
      /\ searches[r] \in [valid : Nat, failed : Nat]
      /\ SearchLimit \in Nat /\ MaxRetries \in Nat
  BY <1>1, GenerationAssumption, SearchAssumption DEF Counted, Queries
<1>9. Turns(r) = Calls(r) /\ Calls(r) <= SearchLimit + 1
      /\ searches[r].valid <= Calls(r) /\ searches[r].valid <= SearchLimit
  BY <1>1 DEF Budget
<1>10. /\ outputs'[r] = Append(outputs[r], o) /\ tokens'[r] = n
       /\ \A q \in Rollouts \ {r} : outputs'[q] = outputs[q] /\ tokens'[q] = tokens[q]
  BY <1>1, <1>7 DEF Counted
<1>11. outputs'[r] \in Seq(Says[r]) /\ Turns(r)' = Turns(r) + 1
  <2>1. PICK list \in Seq(Says[r]) : list = outputs[r] BY <1>8
  <2>2. Append(list, o) \in Seq(Says[r]) /\ Len(Append(list, o)) = Len(list) + 1 OBVIOUS
  <2> QED BY <1>10, <2>1, <2>2 DEF Turns
<1>12. /\ DOMAIN outputs' = Rollouts /\ \A q \in Rollouts : outputs'[q] \in Seq(Says[q])
       /\ tokens' \in [Rollouts -> Nat]
  <2>1. DOMAIN outputs' = Rollouts BY <1>1, <1>7 DEF Counted
  <2>2. ASSUME NEW q \in Rollouts PROVE outputs'[q] \in Seq(Says[q])
    <3>1. CASE q = r BY <3>1, <1>11
    <3>2. CASE q # r BY <3>2, <1>1, <1>10 DEF Counted
    <3> QED BY <3>1, <3>2
  <2>3. tokens' \in [Rollouts -> Nat] BY <1>1, <1>5, <1>7 DEF Counted
  <2> QED BY <2>1, <2>2, <2>3
<1>13. Calls(r) \in Nat /\ Turns(r) \in Nat BY <1>8 DEF Calls, Turns
<1>14. CASE Ends(r, o, n)
  <2>1. /\ at' = [at EXCEPT ![r] = "score"]
        /\ UNCHANGED <<queries, result, searches, request>>
    BY <1>6, <1>14 DEF Steps
  <2>2. at' \in [Rollouts -> {"model", "search", "append", "score", "done"}]
    BY <1>1, <2>1 DEF Counted
  <2>3. Counted' BY <1>1, <1>12, <2>1, <2>2 DEF Counted
  <2>4. at'[r] = "score" BY <1>1, <2>1 DEF Counted
  <2>5. Budget(r)' BY <1>5, <1>8, <1>9, <1>10, <1>11, <1>13, <2>1, <2>4 DEF Budget
  <2>6. Idle(r)' BY <1>1, <2>1 DEF Idle
  <2>7. ASSUME NEW q \in Rollouts \ {r} PROVE Untouched(q)
    BY <1>1, <1>10, <2>1 DEF Untouched, Counted
  <2> QED BY <2>3, <2>5, <2>6, <2>7, OneSteps
<1>15. CASE ~Ends(r, o, n) /\ Declined(r, o)
  <2>1. /\ at' = [at EXCEPT ![r] = "append"]
        /\ \E note : result' = [result EXCEPT ![r] = note]
        /\ queries' = [queries EXCEPT ![r] = Append(@, o.calls[1])]
        /\ UNCHANGED <<searches, request>>
    BY <1>6, <1>15 DEF Steps
  <2>2. at' \in [Rollouts -> {"model", "search", "append", "score", "done"}]
    BY <1>1, <2>1 DEF Counted
  <2>3. o.calls[1] \in Queries BY <1>8, <1>15 DEF Ends
  <2>4. queries'[r] = Append(queries[r], o.calls[1]) BY <1>1, <2>1 DEF Counted
  <2>5. queries'[r] \in Seq(Queries) /\ Calls(r)' = Calls(r) + 1
    BY <1>8, <2>3, <2>4 DEF Calls
  <2>6. queries' \in [Rollouts -> Seq(Queries)]
    BY <1>1, <2>1, <2>4, <2>5 DEF Counted
  <2>7. DOMAIN result' = Rollouts BY <1>1, <2>1 DEF Counted
  <2>8. Counted' BY <1>1, <1>12, <2>1, <2>2, <2>6, <2>7 DEF Counted
  <2>9. at'[r] = "append" BY <1>1, <2>1 DEF Counted
  <2>10. Calls(r) <= SearchLimit BY <1>8, <1>15 DEF Calls, Ends
  <2>11. Budget(r)'
    BY <1>5, <1>8, <1>9, <1>10, <1>11, <1>13, <2>1, <2>5, <2>9, <2>10 DEF Budget
  <2>12. Idle(r)' BY <1>1, <2>1 DEF Idle
  <2>13. ASSUME NEW q \in Rollouts \ {r} PROVE Untouched(q)
    BY <1>1, <1>10, <2>1 DEF Untouched, Counted
  <2> QED BY <2>8, <2>11, <2>12, <2>13, OneSteps
<1>16. CASE ~Ends(r, o, n) /\ ~Declined(r, o)
  <2>1. /\ at' = [at EXCEPT ![r] = "search"]
        /\ searches' = [searches EXCEPT ![r].valid = @ + 1]
        /\ StartAttempt(r, o.calls[1], 0)
        /\ UNCHANGED <<queries, result>>
    BY <1>6, <1>16 DEF Steps
  <2>2. at' \in [Rollouts -> {"model", "search", "append", "score", "done"}]
    BY <1>1, <2>1 DEF Counted
  <2>3. o.calls[1] \in DOMAIN Hits BY <1>8, <1>16 DEF Declined, Queries, Ends
  <2>4. searches'[r] = [searches[r] EXCEPT !.valid = @ + 1] BY <1>1, <2>1 DEF Counted
  <2>5. /\ searches'[r] \in [valid : Nat, failed : Nat]
        /\ searches'[r].valid = searches[r].valid + 1
    <3>1. PICK c \in [valid : Nat, failed : Nat] : c = searches[r] BY <1>8
    <3>2. /\ [c EXCEPT !.valid = @ + 1] \in [valid : Nat, failed : Nat]
          /\ [c EXCEPT !.valid = @ + 1].valid = c.valid + 1
      OBVIOUS
    <3> QED BY <2>4, <3>1, <3>2
  <2>6. searches' \in [Rollouts -> [valid : Nat, failed : Nat]]
    BY <1>1, <2>1, <2>4, <2>5 DEF Counted
  <2>7. request' = [request EXCEPT ![r] = [stage |-> "pool", attempt |-> 0, query |-> o.calls[1],
                                           server |-> cycle + 1]]
    BY <2>1 DEF StartAttempt
  <2>8. Counted' BY <1>1, <1>12, <2>1, <2>2, <2>6, <2>7 DEF Counted
  <2>9. at'[r] = "search" BY <1>1, <2>1 DEF Counted
  <2>10. request'[r] = [stage |-> "pool", attempt |-> 0, query |-> o.calls[1], server |-> cycle + 1]
    BY <1>1, <2>7 DEF Counted
  <2>11. Requested(r)' BY <1>8, <2>3, <2>10 DEF Requested, NoRequest
  <2>12. Calls(r) < SearchLimit BY <1>8, <1>16 DEF Calls, Declined, Ends
  <2>13. Calls(r)' = Calls(r) BY <2>1 DEF Calls
  <2>14. Budget(r)'
    BY <1>5, <1>8, <1>9, <1>10, <1>11, <1>13, <2>5, <2>9, <2>11, <2>12, <2>13 DEF Budget
  <2>15. Idle(r)' BY <2>9 DEF Idle
  <2>16. ASSUME NEW q \in Rollouts \ {r} PROVE Untouched(q)
    BY <1>1, <1>10, <2>1, <2>7 DEF Untouched, Counted
  <2> QED BY <2>8, <2>14, <2>15, <2>16, OneSteps
<1> QED BY <1>14, <1>15, <1>16


\* The types of what a rollout has, one by one.
LEMMA CountedOf ==
    ASSUME Counted, NEW r \in Rollouts
    PROVE  /\ tokens[r] \in Nat /\ outputs[r] \in Seq(Says[r]) /\ queries[r] \in Seq(Queries)
           /\ searches[r] \in [valid : Nat, failed : Nat]
           /\ searches[r].valid \in Nat /\ searches[r].failed \in Nat
           /\ Turns(r) \in Nat /\ Calls(r) \in Nat
           /\ {SearchLimit, MaxRetries, MaxLength, AnswerReserve} \subseteq Nat
<1>1. tokens[r] \in Nat /\ outputs[r] \in Seq(Says[r]) /\ queries[r] \in Seq(Queries) BY DEF Counted
<1>2. searches[r] \in [valid : Nat, failed : Nat] BY DEF Counted
<1>3. searches[r].valid \in Nat /\ searches[r].failed \in Nat BY <1>2
<1>4. Turns(r) \in Nat /\ Calls(r) \in Nat BY <1>1 DEF Turns, Calls
<1>5. {SearchLimit, MaxRetries, MaxLength, AnswerReserve} \subseteq Nat BY SearchAssumption
<1> QED BY <1>1, <1>2, <1>3, <1>4, <1>5

\* A message is only appended while the reserve stays free.
LEMMA AppendResultStep ==
    ASSUME NEW r \in Rollouts, SearchInv, AppendResult(r)
    PROVE  SearchInv'
<1>1. Counted /\ Budget(r) /\ Idle(r) /\ at[r] = "append" BY DEF SearchInv, AppendResult
<1>2. /\ result' = [result EXCEPT ![r] = <<>>]
      /\ UNCHANGED <<outputs, queries, searches, request>>
  BY DEF AppendResult
<1>3. PICK n \in MessageLens :
         IF ReachedAnswerBudgetLimit(tokens[r] + n)
           THEN at' = [at EXCEPT ![r] = "score"] /\ tokens' = tokens
           ELSE at' = [at EXCEPT ![r] = "model"] /\ tokens' = [tokens EXCEPT ![r] = @ + n]
  BY DEF AppendResult
<1>4. n \in Nat BY SearchAssumption
<1>5. /\ Turns(r) = Calls(r) /\ Calls(r) <= SearchLimit + 1
      /\ searches[r].valid <= Calls(r) /\ searches[r].valid <= SearchLimit
      /\ tokens[r] <= MaxLength
  BY <1>1 DEF Budget
<1>6. Turns(r)' = Turns(r) /\ Calls(r)' = Calls(r) /\ searches'[r] = searches[r]
  BY <1>2 DEF Turns, Calls
<1>7. DOMAIN result' = Rollouts BY <1>1, <1>2 DEF Counted
<1>8. CASE ReachedAnswerBudgetLimit(tokens[r] + n)
  <2>1. at' = [at EXCEPT ![r] = "score"] /\ tokens' = tokens BY <1>3, <1>8
  <2>2. at' \in [Rollouts -> {"model", "search", "append", "score", "done"}] /\ at'[r] = "score"
    BY <1>1, <2>1 DEF Counted
  <2>3. Counted' BY <1>1, <1>2, <1>7, <2>1, <2>2 DEF Counted
  <2>4. Budget(r)' BY <1>1, <1>5, <1>6, <2>1, <2>2, CountedOf DEF Budget
  <2>5. Idle(r)' BY <1>1, <1>2 DEF Idle
  <2>6. ASSUME NEW q \in Rollouts \ {r} PROVE Untouched(q) BY <1>1, <1>2, <2>1 DEF Untouched, Counted
  <2> QED BY <2>3, <2>4, <2>5, <2>6, OneSteps
<1>9. CASE ~ReachedAnswerBudgetLimit(tokens[r] + n)
  <2>1. at' = [at EXCEPT ![r] = "model"] /\ tokens' = [tokens EXCEPT ![r] = @ + n] BY <1>3, <1>9
  <2>2. at' \in [Rollouts -> {"model", "search", "append", "score", "done"}] /\ at'[r] = "model"
    BY <1>1, <2>1 DEF Counted
  <2>3. tokens'[r] = tokens[r] + n BY <1>1, <2>1 DEF Counted
  <2>4. tokens' \in [Rollouts -> Nat] BY <1>1, <1>4, <2>1, CountedOf DEF Counted
  <2>5. Counted' BY <1>1, <1>2, <1>7, <2>2, <2>4 DEF Counted
  <2>6. tokens'[r] < MaxLength - AnswerReserve
    BY <1>1, <1>4, <1>9, <2>3, CountedOf DEF ReachedAnswerBudgetLimit
  <2>7. Budget(r)' BY <1>5, <1>6, <2>2, <2>6 DEF Budget
  <2>8. Idle(r)' BY <1>1, <1>2 DEF Idle
  <2>9. ASSUME NEW q \in Rollouts \ {r} PROVE Untouched(q) BY <1>1, <1>2, <2>1 DEF Untouched, Counted
  <2> QED BY <2>5, <2>7, <2>8, <2>9, OneSteps
<1> QED BY <1>8, <1>9

\* Nothing is counted when a rollout is scored.
LEMMA FinishStep ==
    ASSUME NEW r \in Rollouts, SearchInv, Finish(r)
    PROVE  SearchInv'
<1>1. Counted /\ Budget(r) /\ Idle(r) BY DEF SearchInv
<1>2. /\ at[r] = "score" /\ at' = [at EXCEPT ![r] = "done"]
      /\ UNCHANGED <<tokens, outputs, queries, result, searches, request>>
  BY DEF Finish
<1>3. at' \in [Rollouts -> {"model", "search", "append", "score", "done"}] /\ at'[r] = "done"
  BY <1>1, <1>2 DEF Counted
<1>4. Counted' BY <1>1, <1>2, <1>3 DEF Counted
<1>5. Budget(r)' BY <1>1, <1>2, <1>3 DEF Budget, Turns
<1>6. Idle(r)' BY <1>1, <1>2, <1>3 DEF Idle
<1>7. ASSUME NEW q \in Rollouts \ {r} PROVE Untouched(q) BY <1>1, <1>2 DEF Untouched, Counted
<1> QED BY <1>4, <1>5, <1>6, <1>7, OneSteps

\* A request that goes on: its rollout keeps waiting for the same query.
LEMMA RequestGoesOn ==
    ASSUME NEW r \in Rollouts, SearchInv, at[r] = "search", UNCHANGED env,
           NEW stage \in {"pool", "posted", "sleep"}, NEW attempt \in 0..MaxRetries,
           DOMAIN request' = Rollouts,
           DOMAIN request'[r] = DOMAIN NoRequest,
           request'[r].stage = stage, request'[r].attempt = attempt,
           request'[r].query = request[r].query,
           \A q \in Rollouts \ {r} : request'[q] = request[q]
    PROVE  SearchInv'
<1>1. Counted /\ Budget(r) /\ Idle(r) BY DEF SearchInv
<1>2. UNCHANGED <<at, tokens, outputs, queries, result, searches>> BY DEF env
<1>3. Counted' BY <1>1, <1>2 DEF Counted
<1>4. Requested(r) BY <1>1 DEF Budget
<1>5. Requested(r)' BY <1>4 DEF Requested
<1>6. Budget(r)' BY <1>1, <1>2, <1>5 DEF Budget, Turns, Calls
<1>7. Idle(r)' BY <1>2 DEF Idle
<1>8. ASSUME NEW q \in Rollouts \ {r} PROVE Untouched(q) BY <1>2 DEF Untouched
<1> QED BY <1>3, <1>6, <1>7, <1>8, OneSteps

\* A rollout with a request in progress waits for it.
LEMMA Waits ==
    ASSUME NEW r \in Rollouts, SearchInv, request[r].stage \in {"pool", "posted", "sleep"}
    PROVE  /\ at[r] = "search" /\ Counted /\ Requested(r)
           /\ request[r].attempt \in 0..MaxRetries /\ request[r].query \in DOMAIN Hits
<1>1. Counted /\ Budget(r) /\ Idle(r) BY DEF SearchInv
<1>2. request[r].stage # "none" OBVIOUS
<1>3. at[r] = "search" BY <1>1, <1>2 DEF Idle
<1>4. Requested(r) BY <1>1, <1>3 DEF Budget
<1> QED BY <1>1, <1>3, <1>4 DEF Requested

\* A request that has a connection is still the same request.
LEMMA GetConnectionStep ==
    ASSUME NEW r \in Rollouts, SearchInv, GetConnection(r)
    PROVE  SearchInv'
<1>1. /\ request[r].stage = "pool" /\ request' = [request EXCEPT ![r].stage = "posted"]
      /\ UNCHANGED env
  BY DEF GetConnection
<1>2. /\ at[r] = "search" /\ Counted /\ Requested(r)
      /\ request[r].attempt \in 0..MaxRetries /\ request[r].query \in DOMAIN Hits
  BY <1>1, Waits
<1>3. /\ DOMAIN request' = Rollouts /\ request'[r] = [request[r] EXCEPT !.stage = "posted"]
      /\ \A q \in Rollouts \ {r} : request'[q] = request[q]
  BY <1>1, <1>2 DEF Counted
<1>4. DOMAIN request[r] = {"stage", "attempt", "query", "server"} BY <1>2 DEF Requested, NoRequest
<1>5. /\ DOMAIN request'[r] = DOMAIN NoRequest /\ request'[r].stage = "posted"
      /\ request'[r].attempt = request[r].attempt /\ request'[r].query = request[r].query
  BY <1>3, <1>4 DEF NoRequest
<1> QED BY <1>1, <1>2, <1>3, <1>5, RequestGoesOn

\* Another attempt is for the same query.
LEMMA RetryStep ==
    ASSUME NEW r \in Rollouts, SearchInv, Retry(r)
    PROVE  SearchInv'
<1>1. /\ request[r].stage = "sleep" /\ UNCHANGED env
      /\ request' = [request EXCEPT ![r] = [stage |-> "pool", attempt |-> request[r].attempt,
                                             query |-> request[r].query, server |-> cycle + 1]]
  BY DEF Retry, StartAttempt
<1>2. /\ at[r] = "search" /\ Counted /\ Requested(r)
      /\ request[r].attempt \in 0..MaxRetries /\ request[r].query \in DOMAIN Hits
  BY <1>1, Waits
<1>3. /\ DOMAIN request' = Rollouts
      /\ request'[r] = [stage |-> "pool", attempt |-> request[r].attempt,
                        query |-> request[r].query, server |-> cycle + 1]
      /\ \A q \in Rollouts \ {r} : request'[q] = request[q]
  BY <1>1, <1>2 DEF Counted
<1>4. DOMAIN request'[r] = DOMAIN NoRequest BY <1>3 DEF NoRequest
<1> QED BY <1>1, <1>2, <1>3, <1>4, RequestGoesOn

\* What Answered and the last AttemptFails do alike: the call is counted as
\* answered, and the request is over.
Returns(r) ==
    /\ at' = [at EXCEPT ![r] = "append"]
    /\ queries' = [queries EXCEPT ![r] = Append(@, request[r].query)]
    /\ request' = [request EXCEPT ![r] = NoRequest]
    /\ UNCHANGED <<tokens, outputs>>

\* A search that returns is one of the answered calls.
LEMMA ReturnsStep ==
    ASSUME NEW r \in Rollouts, SearchInv, request[r].stage \in {"pool", "posted"}, Returns(r),
           DOMAIN result' = Rollouts,
           searches' \in [Rollouts -> [valid : Nat, failed : Nat]],
           searches'[r].valid = searches[r].valid,
           \A q \in Rollouts \ {r} : searches'[q] = searches[q]
    PROVE  SearchInv'
<1>1. Counted /\ Budget(r) /\ at[r] = "search" /\ request[r].query \in DOMAIN Hits
  BY Waits DEF SearchInv
<1>2. /\ Turns(r) = Calls(r) + 1 /\ Calls(r) < SearchLimit
      /\ searches[r].valid <= Calls(r) + 1 /\ tokens[r] <= MaxLength
  BY <1>1 DEF Budget
<1>3. at' \in [Rollouts -> {"model", "search", "append", "score", "done"}] /\ at'[r] = "append"
  BY <1>1 DEF Counted, Returns
<1>4. queries'[r] = Append(queries[r], request[r].query) BY <1>1 DEF Counted, Returns
<1>5. request[r].query \in Queries BY <1>1 DEF Queries
<1>6. queries'[r] \in Seq(Queries) /\ Calls(r)' = Calls(r) + 1
  <2>1. PICK list \in Seq(Queries) : list = queries[r] BY <1>1, CountedOf
  <2>2. PICK query \in Queries : query = request[r].query BY <1>5
  <2>3. Append(list, query) \in Seq(Queries) /\ Len(Append(list, query)) = Len(list) + 1 OBVIOUS
  <2> QED BY <1>4, <2>1, <2>2, <2>3 DEF Calls
<1>7. queries' \in [Rollouts -> Seq(Queries)] BY <1>1, <1>4, <1>6 DEF Counted, Returns
<1>8. Counted' BY <1>1, <1>3, <1>7 DEF Counted, Returns
<1>9. Turns(r)' = Turns(r) /\ tokens'[r] = tokens[r] BY DEF Turns, Returns
<1>10. Budget(r)' BY <1>1, <1>2, <1>3, <1>6, <1>9, CountedOf DEF Budget
<1>11. request'[r] = NoRequest BY <1>1 DEF Counted, Returns
<1>12. Idle(r)' BY <1>11 DEF Idle, NoRequest
<1>13. ASSUME NEW q \in Rollouts \ {r} PROVE Untouched(q)
  BY <1>1 DEF Untouched, Counted, Returns
<1> QED BY <1>8, <1>10, <1>12, <1>13, OneSteps

\* An answer ends the search.
LEMMA AnsweredStep ==
    ASSUME NEW r \in Rollouts, SearchInv, Answered(r)
    PROVE  SearchInv'
<1>1. /\ request[r].stage \in {"pool", "posted"} /\ Returns(r) /\ searches' = searches
  BY DEF Answered, Returns
<1>2. Counted BY DEF SearchInv
<1>3. DOMAIN result' = Rollouts BY <1>2 DEF Answered, Counted
<1>4. searches' \in [Rollouts -> [valid : Nat, failed : Nat]] BY <1>1, <1>2 DEF Counted
<1> QED BY <1>1, <1>3, <1>4, ReturnsStep

\* So does the last attempt that fails; another one leaves the rollout waiting.
LEMMA AttemptFailsStep ==
    ASSUME NEW r \in Rollouts, SearchInv, AttemptFails(r)
    PROVE  SearchInv'
<1>1. request[r].stage \in {"pool", "posted"} BY DEF AttemptFails
<1>2. /\ at[r] = "search" /\ Counted /\ Requested(r)
      /\ request[r].attempt \in 0..MaxRetries /\ request[r].query \in DOMAIN Hits
  BY <1>1, Waits
<1>3. MaxRetries \in Nat BY SearchAssumption
<1>4. CASE request[r].attempt + 1 < MaxAttempts
  <2>1. /\ request' = [request EXCEPT ![r] = [stage |-> "sleep", attempt |-> @.attempt + 1,
                                               query |-> @.query, server |-> @.server]]
        /\ UNCHANGED env
    BY <1>4 DEF AttemptFails
  <2>3. /\ DOMAIN request' = Rollouts
        /\ request'[r] = [stage |-> "sleep", attempt |-> request[r].attempt + 1,
                          query |-> request[r].query, server |-> request[r].server]
        /\ \A q \in Rollouts \ {r} : request'[q] = request[q]
    BY <1>2, <2>1 DEF Counted
  <2>4. /\ DOMAIN request'[r] = DOMAIN NoRequest /\ request'[r].stage = "sleep"
        /\ request'[r].attempt = request[r].attempt + 1 /\ request'[r].query = request[r].query
    BY <2>3 DEF NoRequest
  <2>5. request[r].attempt + 1 \in 0..MaxRetries BY <1>2, <1>3, <1>4 DEF MaxAttempts
  <2> QED BY <1>2, <2>1, <2>3, <2>4, <2>5, RequestGoesOn
<1>5. CASE ~(request[r].attempt + 1 < MaxAttempts)
  <2>1. /\ Returns(r)
        /\ searches' = [searches EXCEPT ![r].failed = @ + 1]
        /\ result' = [result EXCEPT ![r] = Note]
    BY <1>5 DEF AttemptFails, Returns
  <2>2. PICK c \in [valid : Nat, failed : Nat] : c = searches[r] BY <1>2 DEF Counted
  <2>3. /\ [c EXCEPT !.failed = @ + 1] \in [valid : Nat, failed : Nat]
        /\ [c EXCEPT !.failed = @ + 1].valid = c.valid
    OBVIOUS
  <2>4. /\ searches'[r] = [c EXCEPT !.failed = @ + 1]
        /\ \A q \in Rollouts \ {r} : searches'[q] = searches[q]
    BY <1>2, <2>1, <2>2 DEF Counted
  <2>5. searches' \in [Rollouts -> [valid : Nat, failed : Nat]]
    BY <1>2, <2>1, <2>3, <2>4 DEF Counted
  <2>6. DOMAIN result' = Rollouts BY <1>2, <2>1 DEF Counted
  <2> QED BY <1>1, <2>1, <2>2, <2>3, <2>4, <2>5, <2>6, ReturnsStep
<1> QED BY <1>4, <1>5

\* Whatever any rollout and the shared client do, every rollout keeps its budget.
LEMMA SearchNext == SearchInv /\ [Next]_vars => SearchInv'
<1> SUFFICES ASSUME SearchInv, [Next]_vars PROVE SearchInv' OBVIOUS
<1>1. CASE \E r \in Rollouts :
             \/ Turn(r) \/ AppendResult(r) \/ Finish(r)
             \/ GetConnection(r) \/ Answered(r) \/ AttemptFails(r) \/ Retry(r)
  BY <1>1, TurnStep, AppendResultStep, FinishStep, GetConnectionStep, AnsweredStep,
     AttemptFailsStep, RetryStep
<1>2. CASE Shutdown \/ UNCHANGED vars
  <2>1. UNCHANGED <<at, tokens, outputs, queries, result, searches, request>>
    BY <1>2 DEF Shutdown, vars, env
  <2>2. Counted' BY <2>1 DEF Counted, SearchInv
  <2>3. ASSUME NEW q \in Rollouts PROVE (Budget(q) /\ Idle(q))'
    BY <2>1, UntouchedKeeps DEF Untouched, SearchInv
  <2> QED BY <2>2, <2>3 DEF SearchInv
<1> QED BY <1>1, <1>2 DEF Next

\* A rollout that keeps its budget in every place of step keeps BudgetKept.
LEMMA BudgetHolds == SearchInv => BudgetKept
<1> SUFFICES ASSUME SearchInv, NEW r \in Rollouts
             PROVE  /\ searches[r].valid <= SearchLimit /\ Len(outputs[r]) <= SearchLimit + 2
                    /\ tokens[r] <= MaxLength
                    /\ at[r] = "model" => MaxLength - tokens[r] > AnswerReserve
  BY DEF BudgetKept
<1>1. Counted /\ Budget(r) BY DEF SearchInv
<1>2. at[r] \in {"model", "search", "append", "score", "done"} BY <1>1 DEF Counted
<1>3. /\ Turns(r) = Len(outputs[r]) /\ Turns(r) \in Nat /\ Calls(r) \in Nat
      /\ tokens[r] \in Nat /\ searches[r].valid \in Nat
      /\ SearchLimit \in Nat /\ MaxLength \in Nat /\ AnswerReserve \in Nat
  BY <1>1, CountedOf DEF Turns
<1>4. CASE at[r] = "model"
  <2>1. /\ Turns(r) = Calls(r) /\ Calls(r) <= SearchLimit + 1
        /\ searches[r].valid <= SearchLimit /\ tokens[r] < MaxLength - AnswerReserve
    BY <1>1, <1>4 DEF Budget
  <2> QED BY <1>3, <2>1
<1>5. CASE at[r] = "search"
  <2>1. /\ Turns(r) = Calls(r) + 1 /\ Calls(r) < SearchLimit
        /\ searches[r].valid <= Calls(r) + 1 /\ tokens[r] <= MaxLength
    BY <1>1, <1>5 DEF Budget
  <2> QED BY <1>3, <1>5, <2>1
<1>6. CASE at[r] = "append"
  <2>1. /\ Turns(r) = Calls(r) /\ Calls(r) <= SearchLimit + 1
        /\ searches[r].valid <= SearchLimit /\ tokens[r] <= MaxLength
    BY <1>1, <1>6 DEF Budget
  <2> QED BY <1>3, <1>6, <2>1
<1>7. CASE at[r] \in {"score", "done"}
  <2>1. /\ Turns(r) <= SearchLimit + 2
        /\ searches[r].valid <= SearchLimit /\ tokens[r] <= MaxLength
    BY <1>1, <1>7 DEF Budget
  <2> QED BY <1>3, <1>7, <2>1
<1> QED BY <1>2, <1>4, <1>5, <1>6, <1>7

\* Search-R1: no rollout searches more often than search_limit or takes more than
\* two turns beyond that, its trace fits, and the model is only asked to go on
\* while the answer reserve is free.
THEOREM SearchBudget == Spec => []BudgetKept
<1>1. Init => SearchInv BY SearchInit
<1>2. SearchInv /\ [Next]_vars => SearchInv' BY SearchNext
<1>3. SearchInv => BudgetKept BY BudgetHolds
<1> QED BY <1>1, <1>2, <1>3, PTL DEF Spec

---------------------------------------------------------------------------
(* What a search answers. *)

\* The documents of one search.
LEMMA SearchGives ==
    ASSUME NEW m, NEW q \in DOMAIN Hits, m # "bm25"
    PROVE  /\ Search(m, q, TopK) = SubSeq(Hits[q].all, 1, TopK)
           /\ Search(m, q, TopK) \in Seq(DOMAIN Raw) /\ Len(Search(m, q, TopK)) = TopK
<1>1. PICK all \in Seq(DOMAIN Raw) : all = Hits[q].all /\ Len(all) >= TopK
  <2>1. {Hits[q].all, Hits[q].matching} \subseteq Seq(DOMAIN Raw) /\ Len(Hits[q].all) >= TopK
    BY CorpusAssumption
  <2> QED BY <2>1
<1>2. TopK \in Nat BY CorpusAssumption
<1>3. (IF Len(all) < TopK THEN Len(all) ELSE TopK) = TopK BY <1>1, <1>2
<1>4. Search(m, q, TopK) = SubSeq(all, 1, TopK) BY <1>1, <1>3 DEF Search
<1>5. SubSeq(all, 1, TopK) \in Seq(DOMAIN Raw) /\ Len(SubSeq(all, 1, TopK)) = TopK
  BY <1>1, <1>2
<1> QED BY <1>1, <1>4, <1>5

\* The documents of a batch of one query are those of its search.
LEMMA FoldOfOne ==
    ASSUME NEW m, NEW q, NEW S, Search(m, q, TopK) \in Seq(S)
    PROVE  FoldLeft(LAMBDA acc, x : acc \o Search(m, x, TopK), <<>>, <<q>>) = Search(m, q, TopK)
<1> DEFINE docs == Search(m, q, TopK)
           seq == <<q>>
           next(f) == [s \in SUBSET DOMAIN seq |->
                         IF s = {} THEN <<>> ELSE f[s \ {Max(s)}] \o Search(m, seq[Max(s)], TopK)]
           once == [s \in SUBSET DOMAIN seq |-> IF s = {} THEN <<>> ELSE <<>> \o docs]
<1>1. DOMAIN seq = {1} /\ seq[1] = q OBVIOUS
<1>2. FoldLeft(LAMBDA acc, x : acc \o Search(m, x, TopK), <<>>, <<q>>)
        = (CHOOSE f : f = next(f))[DOMAIN seq]
  BY DEF FoldLeft, MapThenFoldSet
<1>3. Max({1}) = 1
  <2>1. 1 \in {1} /\ \A y \in {1} : 1 >= y OBVIOUS
  <2>2. \A x \in {1} : x = 1 OBVIOUS
  <2> QED BY <2>1, <2>2 DEF Max
<1>4. \A s \in SUBSET DOMAIN seq : s = {} \/ s = {1} BY <1>1
<1>5. once = next(once)
  <2>1. ASSUME NEW s \in SUBSET DOMAIN seq, s # {}
        PROVE  /\ Max(s) = 1 /\ s \ {Max(s)} = {}
               /\ once[{}] = <<>> /\ seq[Max(s)] = q
    <3>1. s = {1} BY <1>4, <2>1
    <3>2. {1} \ {1} = {} OBVIOUS
    <3>3. once[{}] = <<>> OBVIOUS
    <3> QED BY <1>1, <1>3, <3>1, <3>2, <3>3
  <2>2. ASSUME NEW s \in SUBSET DOMAIN seq
        PROVE  (IF s = {} THEN <<>> ELSE once[s \ {Max(s)}] \o Search(m, seq[Max(s)], TopK))
                 = (IF s = {} THEN <<>> ELSE <<>> \o docs)
    BY <2>1, Zenon
  <2> QED BY <2>2, Zenon
<1>6. PICK f : f = next(f) /\ f = CHOOSE g : g = next(g) BY <1>5, Zenon
<1>7. f[{}] = <<>>
  <2>1. {} \in SUBSET DOMAIN seq OBVIOUS
  <2> QED BY <1>6, <2>1
<1>8. f[{1}] = f[{}] \o docs
  <2>1. {1} \in SUBSET DOMAIN seq /\ {1} # {} /\ {1} \ {Max({1})} = {} /\ seq[Max({1})] = q
    BY <1>1, <1>3
  <2>2. f[{1}] = f[{1} \ {Max({1})}] \o Search(m, seq[Max({1})], TopK) BY <1>6, <2>1
  <2> QED BY <2>1, <2>2, Zenon
<1>9. <<>> \o docs = docs OBVIOUS
<1> QED BY <1>1, <1>2, <1>6, <1>7, <1>8, <1>9, Zenon

\* The server answers the only query of a batch with the documents of its search.
LEMMA AnswerIsOfTheQuery ==
    ASSUME NEW m, NEW q \in DOMAIN Hits
    PROVE  RetrieveEndpoint(m, q, TopK) = Search(m, q, TopK)
<1>1. DOMAIN <<q>> = {1} /\ <<q>>[1] = q OBVIOUS
<1>2. CASE m = "bm25" BY <1>1, <1>2 DEF RetrieveEndpoint, BatchSearch
<1>3. CASE m # "bm25"
  <2>1. PICK docs \in Seq(DOMAIN Raw) : docs = Search(m, q, TopK) /\ Len(docs) = TopK
    BY <1>3, SearchGives
  <2>2. FoldLeft(LAMBDA acc, x : acc \o Search(m, x, TopK), <<>>, <<q>>) = docs
    BY <2>1, FoldOfOne
  <2>3. RetrieveEndpoint(m, q, TopK) = SubSeq(docs, (1 - 1) * TopK + 1, 1 * TopK)
    BY <1>1, <1>3, <2>2 DEF RetrieveEndpoint, BatchSearch
  <2>4. TopK \in Nat BY CorpusAssumption
  <2>5. (1 - 1) * TopK + 1 = 1 /\ 1 * TopK = TopK BY <2>4
  <2>6. SubSeq(docs, 1, Len(docs)) = docs OBVIOUS
  <2> QED BY <2>1, <2>3, <2>5, <2>6
<1> QED BY <1>2, <1>3

\* What SearchAnswered says of one rollout.
AnsweredOrNoted(r) ==
    \/ /\ searches'[r].failed = searches[r].failed
       /\ result'[r] = Information(Documents(Search(method, request[r].query, TopK)))
    \/ /\ searches'[r].failed = searches[r].failed + 1
       /\ result'[r] = Note /\ request[r].attempt = MaxRetries

\* The step in which a rollout stops waiting is its answer or its last failure.
LEMMA SearchEnds ==
    ASSUME NEW r \in Rollouts, SearchInv, [Next]_vars, at[r] = "search", at'[r] # "search"
    PROVE  AnsweredOrNoted(r)
<1>1. Counted /\ Budget(r) BY DEF SearchInv
<1>2. Requested(r) BY <1>1 DEF Budget
<1>3. PICK q \in Rollouts :
         Turn(q) \/ AppendResult(q) \/ Finish(q) \/ Answered(q) \/ AttemptFails(q)
  BY DEF Next, vars, env, GetConnection, Retry, Shutdown
<1>4. DOMAIN at = Rollouts BY <1>1 DEF Counted
<1>5. ~Turn(q)
  <2> SUFFICES ASSUME Turn(q) PROVE FALSE OBVIOUS
  <2>1. at[q] = "model" BY DEF Turn
  <2>2. PICK o, n, said : Steps(q, o, n, said) BY DEF Turn
  <2>3. PICK place \in {"score", "append", "search"} : at' = [at EXCEPT ![q] = place]
    <3>1. CASE Ends(q, o, n) BY <2>2, <3>1 DEF Steps
    <3>2. CASE ~Ends(q, o, n) /\ Declined(q, o) BY <2>2, <3>2 DEF Steps
    <3>3. CASE ~Ends(q, o, n) /\ ~Declined(q, o) BY <2>2, <3>3 DEF Steps
    <3> QED BY <3>1, <3>2, <3>3
  <2> QED BY <1>4, <2>1, <2>3
<1>6. ~AppendResult(q) BY <1>4 DEF AppendResult
<1>7. ~Finish(q) BY <1>4 DEF Finish
<1>8. CASE Answered(q)
  <2>1. q = r BY <1>4, <1>8 DEF Answered
  <2>2. request[r].query \in DOMAIN Hits BY <1>2 DEF Requested
  <2>3. PICK docs : docs = Search(method, request[r].query, TopK) OBVIOUS
  <2>4. RetrieveEndpoint(method, request[r].query, TopK) = docs BY <2>2, <2>3, AnswerIsOfTheQuery
  <2>5. /\ searches' = searches
        /\ result' = [result EXCEPT ![r] =
                        Information(Documents(RetrieveEndpoint(method, request[r].query, TopK)))]
    BY <1>8, <2>1 DEF Answered
  <2>6. result'[r] = Information(Documents(docs))
    BY <1>1, <2>4, <2>5 DEF Counted
  <2> QED BY <2>3, <2>5, <2>6 DEF AnsweredOrNoted
<1>9. CASE AttemptFails(q)
  <2>1. ~(request[q].attempt + 1 < MaxAttempts) BY <1>9 DEF AttemptFails, env
  <2>2. /\ searches' = [searches EXCEPT ![q].failed = @ + 1]
        /\ result' = [result EXCEPT ![q] = Note]
        /\ at' = [at EXCEPT ![q] = "append"]
    BY <1>9, <2>1 DEF AttemptFails
  <2>3. q = r BY <1>4, <2>2
  <2>4. request[r].attempt = MaxRetries
    BY <1>2, <2>1, <2>3, SearchAssumption DEF Requested, MaxAttempts
  <2>5. result'[r] = Note BY <1>1, <2>2, <2>3 DEF Counted
  <2>6. PICK c \in [valid : Nat, failed : Nat] : c = searches[r] BY <1>1 DEF Counted
  <2>7. searches'[r] = [c EXCEPT !.failed = @ + 1] BY <1>1, <2>2, <2>3, <2>6 DEF Counted
  <2>8. searches'[r].failed = searches[r].failed + 1 BY <2>6, <2>7
  <2> QED BY <2>4, <2>5, <2>8 DEF AnsweredOrNoted
<1> QED BY <1>3, <1>5, <1>6, <1>7, <1>8, <1>9

\* Search-R1: a search ends with the best documents for its own query, whichever
\* server answers and whatever it batches, or, after MaxRetries + 1 attempts and not
\* before, with a note.
THEOREM SearchesAnswered == Spec => SearchAnswered
<1>1. Init => SearchInv BY SearchInit
<1>2. SearchInv /\ [Next]_vars => SearchInv' BY SearchNext
<1>3. SearchInv /\ [Next]_vars =>
        [\A r \in Rollouts : at[r] = "search" /\ at'[r] # "search" =>
          \/ /\ searches'[r].failed = searches[r].failed
             /\ result'[r] = Information(Documents(Search(method, request[r].query, TopK)))
          \/ /\ searches'[r].failed = searches[r].failed + 1
             /\ result'[r] = Note /\ request[r].attempt = MaxRetries]_vars
  BY SearchEnds DEF AnsweredOrNoted
<1> QED BY <1>1, <1>2, <1>3, PTL DEF Spec, SearchAnswered

---------------------------------------------------------------------------
(* Part 3: the text of a rollout.  First what holds of every text: a fold  *)
(* of a sequence, and the automaton of the verifier.                       *)

\* Induction, for a set: what holds of 0 and passes from k to k + 1 holds up to n.
LEMMA Counting ==
    ASSUME NEW n \in Nat, NEW S, 0 \in S, \A k \in 1..n : k - 1 \in S => k \in S
    PROVE  0..n \subseteq S
<1> SUFFICES ASSUME NEW j \in 0..n, j \notin S PROVE FALSE OBVIOUS
<1>1. PICK T : T = (0..n) \ S OBVIOUS
<1>2. T \in SUBSET Nat /\ T # {} BY <1>1
<1>3. PICK x \in T : \A y \in T : x <= y BY <1>2, LeastNatural
<1>4. x \in 0..n /\ x \notin S BY <1>1
<1>5. x # 0 BY <1>4
<1>6. x \in 1..n /\ x - 1 \in 0..n /\ ~(x <= x - 1) BY <1>4, <1>5
<1>7. x - 1 \in S BY <1>1, <1>3, <1>6
<1> QED BY <1>4, <1>6, <1>7

\* The largest of the first numbers.
LEMMA MaxOfFirst ==
    ASSUME NEW k \in Nat \ {0}
    PROVE  /\ Max(1..k) = k /\ (1..k) \ {k} = 1..(k - 1)
<1>1. k \in 1..k /\ \A y \in 1..k : k >= y OBVIOUS
<1>2. \A x \in 1..k : (\A y \in 1..k : x >= y) => x = k
  <2> SUFFICES ASSUME NEW x \in 1..k, \A y \in 1..k : x >= y PROVE x = k OBVIOUS
  <2>1. x >= k /\ k >= x BY <1>1
  <2> QED BY <2>1
<1>3. Max(1..k) = k BY <1>1, <1>2 DEF Max
<1> QED BY <1>3

\* A set of numbers up to n has a largest, if it is not empty.
LEMMA MaxOfSome ==
    ASSUME NEW n \in Nat, NEW s \in SUBSET (1..n), s # {}
    PROVE  Max(s) \in s /\ \A y \in s : Max(s) >= y
<1>1. PICK T : T = {n - y : y \in s} OBVIOUS
<1>2. T \in SUBSET Nat /\ T # {}
  <2>1. \A y \in s : y \in Nat /\ y <= n OBVIOUS
  <2>2. \A y \in s : n - y \in Nat BY <2>1
  <2> QED BY <1>1, <2>2
<1>3. PICK d \in T : \A e \in T : d <= e BY <1>2, LeastNatural
<1>4. PICK x \in s : d = n - x BY <1>1
<1>5. ASSUME NEW y \in s PROVE x >= y
  <2>1. n - y \in T BY <1>1
  <2>2. n - x <= n - y BY <1>3, <1>4, <2>1
  <2> QED BY <2>2
<1> QED BY <1>4, <1>5 DEF Max

\* The recursion by which a fold of a sequence is defined.
Folding(f, A, step, base, seq) ==
    /\ f \in [SUBSET DOMAIN seq -> A] /\ f[{}] = base
    /\ \A s \in SUBSET DOMAIN seq : s # {} => f[s] = step[<<f[s \ {Max(s)}], seq[Max(s)]>>]

\* It has a solution.
LEMMA FoldExists ==
    ASSUME NEW A, NEW B, NEW step \in [A \X B -> A], NEW base \in A, NEW seq \in Seq(B)
    PROVE  \E f : Folding(f, A, step, base, seq)
<1> DEFINE Folds(n, f) ==
             /\ f \in [SUBSET (1..n) -> A] /\ f[{}] = base
             /\ \A s \in SUBSET (1..n) : s # {} => f[s] = step[<<f[s \ {Max(s)}], seq[Max(s)]>>]
           S == {n \in 0..Len(seq) : \E f : Folds(n, f)}
<1>1. 0 \in S
  <2>1. PICK f : f = [s \in SUBSET (1..0) |-> base] OBVIOUS
  <2>2. 1..0 = {} OBVIOUS
  <2>3. \A s \in SUBSET (1..0) : s = {} BY <2>2
  <2>4. Folds(0, f) BY <2>1, <2>3
  <2>5. 0 \in 0..Len(seq) OBVIOUS
  <2> QED BY <2>4, <2>5
<1>2. ASSUME NEW k \in 1..Len(seq), k - 1 \in S PROVE k \in S
  <2>1. PICK g : Folds(k - 1, g) BY <1>2
  <2>2. k \in Nat \ {0} /\ seq[k] \in B OBVIOUS
  <2>3. PICK f : f = [s \in SUBSET (1..k) |-> IF k \in s THEN step[<<g[s \ {k}], seq[k]>>] ELSE g[s]]
    OBVIOUS
  <2>4. \A s \in SUBSET (1..k) : s \ {k} \in SUBSET (1..(k - 1)) /\ (k \notin s => s \in SUBSET (1..(k - 1)))
    BY <2>2
  <2>5. ASSUME NEW s \in SUBSET (1..k) PROVE f[s] \in A
    <3>1. CASE k \in s
      <4>1. g[s \ {k}] \in A BY <2>1, <2>4
      <4>2. f[s] = step[<<g[s \ {k}], seq[k]>>] BY <2>3, <3>1
      <4> QED BY <2>2, <4>1, <4>2
    <3>2. CASE k \notin s
      <4>1. g[s] \in A BY <2>1, <2>4, <3>2
      <4> QED BY <2>3, <3>2, <4>1
    <3> QED BY <3>1, <3>2
  <2>6. f[{}] = base
    <3>1. {} \in SUBSET (1..k) /\ k \notin {} OBVIOUS
    <3> QED BY <2>1, <2>3, <3>1
  <2>7. ASSUME NEW s \in SUBSET (1..k), s # {}
        PROVE  f[s] = step[<<f[s \ {Max(s)}], seq[Max(s)]>>]
    <3>1. CASE k \in s
      <4>1. Max(s) \in s /\ Max(s) >= k BY <2>2, <2>7, <3>1, MaxOfSome
      <4>2. Max(s) = k
        <5>1. \A x \in 1..k : x >= k => x = k BY <2>2
        <5> QED BY <4>1, <5>1
      <4>3. s \ {k} \in SUBSET (1..k) /\ k \notin s \ {k} OBVIOUS
      <4>4. f[s \ {k}] = g[s \ {k}] BY <2>3, <4>3
      <4>5. f[s] = step[<<g[s \ {k}], seq[k]>>] BY <2>3, <3>1
      <4> QED BY <4>2, <4>4, <4>5
    <3>2. CASE k \notin s
      <4>1. s \in SUBSET (1..(k - 1)) BY <2>4, <3>2
      <4>2. s \ {Max(s)} \in SUBSET (1..k) /\ k \notin s \ {Max(s)} BY <3>2
      <4>3. f[s \ {Max(s)}] = g[s \ {Max(s)}] /\ f[s] = g[s] BY <2>3, <3>2, <4>2
      <4>4. g[s] = step[<<g[s \ {Max(s)}], seq[Max(s)]>>] BY <2>1, <2>7, <4>1
      <4> QED BY <4>3, <4>4
    <3> QED BY <3>1, <3>2
  <2>8. f \in [SUBSET (1..k) -> A] BY <2>3, <2>5
  <2>9. Folds(k, f) BY <2>6, <2>7, <2>8
  <2>10. k \in 0..Len(seq) OBVIOUS
  <2> QED BY <2>9, <2>10
<1>3. 0..Len(seq) \subseteq S
  <2> HIDE DEF S
  <2>1. Len(seq) \in Nat OBVIOUS
  <2> QED BY <1>1, <1>2, <2>1, Counting
<1>4. Len(seq) \in S
  <2>1. Len(seq) \in 0..Len(seq) OBVIOUS
  <2> QED BY <1>3, <2>1
<1>5. PICK f : Folds(Len(seq), f) BY <1>4
<1>6. DOMAIN seq = 1..Len(seq) OBVIOUS
<1> QED BY <1>5, <1>6 DEF Folding

---------------------------------------------------------------------------
(* The automaton of the verifier. *)

Moves(state, p) == TagTransitions[<<state, Part(p)>>]

\* The automaton reads a text from one state to another.
Walk(w, s, t) ==
    /\ w \in [0..Len(t) -> States] /\ w[0] = s
    /\ \A k \in 1..Len(t) : w[k] = Moves(w[k - 1], t[k])
Leads(s, t, e) == \E w : Walk(w, s, t) /\ w[Len(t)] = e

\* Tags and content differ, and so do tags of different names.
LEMMA PiecesDiffer ==
    ASSUME NEW m, NEW n
    PROVE  /\ Open(m) # Close(n) /\ Open(m) # Content(n) /\ Close(m) # Content(n)
           /\ m # n => Open(m) # Open(n) /\ Close(m) # Close(n)
<1>1. Open(m).tag = "open" /\ Open(m).name = m /\ Open(n).name = n BY DEF Open
<1>2. Close(n).tag = "close" /\ Close(n).name = n /\ Close(m).tag = "close" /\ Close(m).name = m BY DEF Close
<1>3. Content(n).tag = "none" BY DEF Content
<1> QED BY <1>1, <1>2, <1>3, Zenon

\* Pieces are tags or content, and the automaton knows them.
LEMMA PartOfPiece ==
    ASSUME NEW p \in Pieces
    PROVE  /\ Part(p) \in Parts
           /\ \/ \E name \in TagNames : p = Open(name) /\ Part(p) = Open(name)
              \/ \E name \in TagNames : p = Close(name) /\ Part(p) = Close(name)
              \/ \E c \in DOMAIN Normal : p = Content(c) /\ Part(p) = Content("any")
<1>1. ASSUME NEW name \in TagNames, p = Open(name) PROVE Part(p) = Open(name) /\ Part(p) \in Parts
  <2>1. p.tag = "open" BY <1>1 DEF Open
  <2>2. Part(p) = p BY <2>1 DEF Part
  <2> QED BY <1>1, <2>2 DEF Parts
<1>2. ASSUME NEW name \in TagNames, p = Close(name) PROVE Part(p) = Close(name) /\ Part(p) \in Parts
  <2>1. p.tag = "close" BY <1>2 DEF Close
  <2>2. Part(p) = p BY <2>1 DEF Part
  <2> QED BY <1>2, <2>2 DEF Parts
<1>3. ASSUME NEW c \in DOMAIN Normal, p = Content(c) PROVE Part(p) = Content("any") /\ Part(p) \in Parts
  <2>1. p.tag = "none" BY <1>3 DEF Content
  <2>2. Part(p) = Content("any") BY <2>1 DEF Part
  <2> QED BY <2>2 DEF Parts
<1>4. \/ \E name \in TagNames : p = Open(name) \/ p = Close(name)
      \/ \E c \in DOMAIN Normal : p = Content(c)
  BY DEF Pieces
<1> QED BY <1>1, <1>2, <1>3, <1>4

\* The automaton stays among its states.
LEMMA TransitionsType == TagTransitions \in [States \X Parts -> States]
<1>1. ASSUME NEW x \in States \X Parts PROVE TagTransitions[x] \in States
  <2>1. x[1] \in States OBVIOUS
  <2> QED BY <2>1 DEF TagTransitions, States
<1>2. TagTransitions = [x \in States \X Parts |-> TagTransitions[x]] BY DEF TagTransitions
<1> QED BY <1>1, <1>2

\* What the automaton does with every tag, and with content.
LEMMA MovesTable ==
    ASSUME NEW s \in States
    PROVE  /\ Moves(s, Open("think")) = IF s \in {"start", "information"} THEN "in_think" ELSE "invalid"
           /\ Moves(s, Close("think")) = IF s = "in_think" THEN "after_think" ELSE "invalid"
           /\ Moves(s, Open("search")) = IF s = "after_think" THEN "in_search" ELSE "invalid"
           /\ Moves(s, Close("search")) = IF s = "in_search" THEN "after_search" ELSE "invalid"
           /\ Moves(s, Open("information")) = IF s = "after_search" THEN "in_information" ELSE "invalid"
           /\ Moves(s, Close("information")) = IF s = "in_information" THEN "information" ELSE "invalid"
           /\ Moves(s, Open("answer")) = IF s = "after_think" THEN "in_answer" ELSE "invalid"
           /\ Moves(s, Close("answer")) = IF s = "in_answer" THEN "end" ELSE "invalid"
           /\ \A c : Moves(s, Content(c)) = IF s \in ContentAllowed THEN s ELSE "invalid"
<1>1. ASSUME NEW piece, NEW p \in Parts, Part(piece) = p
      PROVE  Moves(s, piece) =
               CASE s \in {"start", "information"} /\ p = Open("think") -> "in_think"
                 [] s = "in_think" /\ p = Close("think") -> "after_think"
                 [] s = "after_think" /\ p = Open("search") -> "in_search"
                 [] s = "in_search" /\ p = Close("search") -> "after_search"
                 [] s = "after_search" /\ p = Open("information") -> "in_information"
                 [] s = "in_information" /\ p = Close("information") -> "information"
                 [] s = "after_think" /\ p = Open("answer") -> "in_answer"
                 [] s = "in_answer" /\ p = Close("answer") -> "end"
                 [] s \in ContentAllowed /\ p = Content("any") -> s
                 [] OTHER -> "invalid"
  <2>1. <<s, p>> \in States \X Parts BY <1>1
  <2> QED BY <1>1, <2>1 DEF TagTransitions, Moves
<1>2. /\ {Open("think"), Open("search"), Open("information"), Open("answer")} \subseteq Parts
      /\ {Close("think"), Close("search"), Close("information"), Close("answer")} \subseteq Parts
      /\ Content("any") \in Parts
  BY DEF Parts, TagNames
<1>0. ASSUME NEW n
      PROVE  Part(Open(n)) = Open(n) /\ Part(Close(n)) = Close(n) /\ Part(Content(n)) = Content("any")
  <2>1. Open(n).tag = "open" /\ Close(n).tag = "close" /\ Content(n).tag = "none" BY DEF Open, Close, Content
  <2> QED BY <2>1 DEF Part
<1>3. Moves(s, Open("think")) = IF s \in {"start", "information"} THEN "in_think" ELSE "invalid"
  BY <1>0, <1>1, <1>2, PiecesDiffer
<1>4. Moves(s, Close("think")) = IF s = "in_think" THEN "after_think" ELSE "invalid"
  BY <1>0, <1>1, <1>2, PiecesDiffer
<1>5. Moves(s, Open("search")) = IF s = "after_think" THEN "in_search" ELSE "invalid"
  BY <1>0, <1>1, <1>2, PiecesDiffer
<1>6. Moves(s, Close("search")) = IF s = "in_search" THEN "after_search" ELSE "invalid"
  BY <1>0, <1>1, <1>2, PiecesDiffer
<1>7. Moves(s, Open("information")) = IF s = "after_search" THEN "in_information" ELSE "invalid"
  BY <1>0, <1>1, <1>2, PiecesDiffer
<1>8. Moves(s, Close("information")) = IF s = "in_information" THEN "information" ELSE "invalid"
  BY <1>0, <1>1, <1>2, PiecesDiffer
<1>9. Moves(s, Open("answer")) = IF s = "after_think" THEN "in_answer" ELSE "invalid"
  BY <1>0, <1>1, <1>2, PiecesDiffer
<1>10. Moves(s, Close("answer")) = IF s = "in_answer" THEN "end" ELSE "invalid"
  BY <1>0, <1>1, <1>2, PiecesDiffer
<1>11. \A c : Moves(s, Content(c)) = IF s \in ContentAllowed THEN s ELSE "invalid"
  BY <1>0, <1>1, <1>2, PiecesDiffer
<1> QED BY <1>3, <1>4, <1>5, <1>6, <1>7, <1>8, <1>9, <1>10, <1>11

\* The pieces of a text, one by one, and what the automaton does with them.
LEMMA PieceCases ==
    ASSUME NEW p \in Pieces
    PROVE  \/ p \in {Open("think"), Open("search"), Open("information"), Open("answer")}
           \/ p \in {Close("think"), Close("search"), Close("information"), Close("answer")}
           \/ \E c \in DOMAIN Normal : p = Content(c)
<1>1. CASE \E name \in TagNames : p = Open(name) BY <1>1 DEF TagNames
<1>2. CASE \E name \in TagNames : p = Close(name) BY <1>2 DEF TagNames
<1>3. CASE \E c \in DOMAIN Normal : p = Content(c) BY <1>3
<1> QED BY <1>1, <1>2, <1>3 DEF Pieces

\* A step of the automaton on a piece of a text.
LEMMA MovesType ==
    ASSUME NEW s \in States, NEW p \in Pieces
    PROVE  Moves(s, p) \in States
BY PartOfPiece, TransitionsType DEF Moves

\* A text leads from a state to one state only.
LEMMA LeadsUnique ==
    ASSUME NEW s, NEW t \in Seq(Pieces), NEW e, NEW f, Leads(s, t, e), Leads(s, t, f)
    PROVE  e = f
<1>1. PICK w : Walk(w, s, t) /\ w[Len(t)] = e BY DEF Leads
<1>2. PICK v : Walk(v, s, t) /\ v[Len(t)] = f BY DEF Leads
<1>3. PICK n \in Nat : n = Len(t) OBVIOUS
<1>4. PICK S : S = {k \in 0..n : w[k] = v[k]} OBVIOUS
<1>5. 0 \in S BY <1>1, <1>2, <1>4 DEF Walk
<1>6. ASSUME NEW k \in 1..n, k - 1 \in S PROVE k \in S
  <2>1. w[k - 1] = v[k - 1] BY <1>4, <1>6
  <2>2. w[k] = Moves(w[k - 1], t[k]) /\ v[k] = Moves(v[k - 1], t[k]) BY <1>1, <1>2, <1>3 DEF Walk
  <2> QED BY <1>4, <2>1, <2>2
<1>7. 0..n \subseteq S BY <1>5, <1>6, Counting
<1>8. n \in S BY <1>7
<1> QED BY <1>1, <1>2, <1>3, <1>4, <1>8

\* Texts one after the other lead where the second leads from the end of the first.
LEMMA LeadsConcat ==
    ASSUME NEW s, NEW e, NEW f, NEW a \in Seq(Pieces), NEW b \in Seq(Pieces),
           Leads(s, a, e), Leads(e, b, f)
    PROVE  Leads(s, a \o b, f)
<1>1. PICK w : Walk(w, s, a) /\ w[Len(a)] = e BY DEF Leads
<1>2. PICK v : Walk(v, e, b) /\ v[Len(b)] = f BY DEF Leads
<1>3. PICK m \in Nat, n \in Nat : m = Len(a) /\ n = Len(b) OBVIOUS
<1>4. PICK t : t = a \o b OBVIOUS
<1>5. Len(t) = m + n BY <1>3, <1>4
<1>6. PICK u : u = [k \in 0..(m + n) |-> IF k <= m THEN w[k] ELSE v[k - m]] OBVIOUS
<1>7. ASSUME NEW k \in 0..(m + n) PROVE u[k] \in States
  <2>1. CASE k <= m
    <3>1. k \in 0..m BY <2>1
    <3> QED BY <1>1, <1>3, <1>6, <2>1, <3>1 DEF Walk
  <2>2. CASE ~(k <= m)
    <3>1. k - m \in 0..n BY <2>2
    <3> QED BY <1>2, <1>3, <1>6, <2>2, <3>1 DEF Walk
  <2> QED BY <2>1, <2>2
<1>8. u[0] = s
  <2>1. 0 \in 0..(m + n) /\ 0 <= m OBVIOUS
  <2> QED BY <1>1, <1>6, <2>1 DEF Walk
<1>9. ASSUME NEW k \in 1..(m + n) PROVE u[k] = Moves(u[k - 1], t[k])
  <2>0. k \in 0..(m + n) /\ k - 1 \in 0..(m + n) OBVIOUS
  <2>1. CASE k <= m
    <3>1. k \in 1..m /\ k - 1 <= m BY <2>1
    <3>2. u[k] = w[k] /\ u[k - 1] = w[k - 1] BY <1>6, <2>0, <2>1, <3>1
    <3>3. t[k] = a[k] BY <1>3, <1>4, <3>1
    <3>4. w[k] = Moves(w[k - 1], a[k]) BY <1>1, <1>3, <3>1 DEF Walk
    <3> QED BY <3>2, <3>3, <3>4
  <2>2. CASE ~(k <= m)
    <3>1. k - m \in 1..n BY <2>2
    <3>2. u[k] = v[k - m] BY <1>6, <2>0, <2>2
    <3>3. t[k] = b[k - m] BY <1>3, <1>4, <2>2, <3>1
    <3>4. u[k - 1] = v[k - m - 1]
      <4>1. CASE k - 1 <= m
        <5>1. k - 1 = m /\ k - m - 1 = 0 BY <2>2, <4>1
        <5>2. u[k - 1] = w[m] BY <1>6, <2>0, <4>1, <5>1
        <5>3. v[k - m - 1] = e BY <1>2, <5>1 DEF Walk
        <5> QED BY <1>1, <1>3, <5>2, <5>3
      <4>2. CASE ~(k - 1 <= m)
        <5>1. u[k - 1] = v[(k - 1) - m] BY <1>6, <2>0, <4>2
        <5>2. (k - 1) - m = k - m - 1 OBVIOUS
        <5> QED BY <5>1, <5>2
      <4> QED BY <4>1, <4>2
    <3>5. v[k - m] = Moves(v[(k - m) - 1], b[k - m]) BY <1>2, <1>3, <3>1 DEF Walk
    <3>6. (k - m) - 1 = k - m - 1 OBVIOUS
    <3> QED BY <3>2, <3>3, <3>4, <3>5, <3>6
  <2> QED BY <2>1, <2>2
<1>10. u[m + n] = f
  <2>1. m + n \in 0..(m + n) OBVIOUS
  <2>2. CASE n = 0
    <3>1. u[m + n] = w[m] BY <1>6, <2>1, <2>2
    <3> QED BY <1>1, <1>2, <1>3, <2>2, <3>1 DEF Walk
  <2>3. CASE n # 0
    <3>1. u[m + n] = v[(m + n) - m] /\ (m + n) - m = n BY <1>6, <2>1, <2>3
    <3> QED BY <1>2, <1>3, <3>1
  <2> QED BY <2>2, <2>3
<1>11. u \in [0..(m + n) -> States] BY <1>6, <1>7
<1>12. Walk(u, s, t) BY <1>5, <1>8, <1>9, <1>11 DEF Walk
<1> QED BY <1>4, <1>5, <1>10, <1>12 DEF Leads

\* One piece is one step.
LEMMA LeadsOne ==
    ASSUME NEW s \in States, NEW p \in Pieces
    PROVE  Leads(s, <<p>>, Moves(s, p))
<1>1. PICK e \in States : e = Moves(s, p) BY MovesType
<1>2. PICK w : w = [k \in 0..1 |-> IF k = 0 THEN s ELSE e] OBVIOUS
<1>3. PICK t : t = <<p>> OBVIOUS
<1>4. Len(t) = 1 /\ t[1] = p BY <1>3
<1>5. w[0] = s /\ w[1] = e /\ w \in [0..1 -> States] BY <1>2
<1>6. \A k \in 1..1 : w[k] = Moves(w[k - 1], t[k])
  <2>1. \A k \in 1..1 : k = 1 OBVIOUS
  <2>2. w[1 - 1] = s BY <1>5
  <2> QED BY <1>1, <1>4, <1>5, <2>1, <2>2
<1>7. Walk(w, s, t) BY <1>4, <1>5, <1>6 DEF Walk
<1> QED BY <1>1, <1>3, <1>4, <1>5, <1>7 DEF Leads

\* A text of pieces that leave a state alone leaves it alone.
LEMMA LeadsNowhere ==
    ASSUME NEW s \in States, NEW t \in Seq(Pieces), \A k \in 1..Len(t) : Moves(s, t[k]) = s
    PROVE  Leads(s, t, s)
<1>1. PICK n \in Nat : n = Len(t) OBVIOUS
<1>2. PICK w : w = [k \in 0..n |-> s] OBVIOUS
<1>3. w \in [0..n -> States] /\ w[0] = s /\ w[n] = s BY <1>2
<1>4. \A k \in 1..n : w[k] = s /\ w[k - 1] = s
  <2>1. \A k \in 1..n : k \in 0..n /\ k - 1 \in 0..n OBVIOUS
  <2> QED BY <1>2, <2>1
<1>5. Walk(w, s, t) BY <1>1, <1>3, <1>4 DEF Walk
<1> QED BY <1>1, <1>3, <1>5 DEF Leads

\* An invalid text stays invalid.
LEMMA LeadsInvalid ==
    ASSUME NEW t \in Seq(Pieces)
    PROVE  Leads("invalid", t, "invalid")
<1>1. "invalid" \in States BY DEF States
<1>2. ASSUME NEW p \in Pieces PROVE Moves("invalid", p) = "invalid"
  BY <1>1, PieceCases, MovesTable DEF ContentAllowed
<1>3. \A k \in 1..Len(t) : t[k] \in Pieces OBVIOUS
<1> QED BY <1>1, <1>2, <1>3, LeadsNowhere

\* Every text leads somewhere from every state.
LEMMA LeadsSomewhere ==
    ASSUME NEW s \in States, NEW t \in Seq(Pieces)
    PROVE  \E e \in States : Leads(s, t, e)
<1>1. PICK step : step = [x \in States \X Pieces |-> Moves(x[1], x[2])] OBVIOUS
<1>2. ASSUME NEW x \in States \X Pieces PROVE step[x] \in States
  <2>1. x[1] \in States /\ x[2] \in Pieces OBVIOUS
  <2> QED BY <1>1, <2>1, MovesType
<1>3. step \in [States \X Pieces -> States] BY <1>1, <1>2
<1>4. PICK f : Folding(f, States, step, s, t) BY <1>3, FoldExists
<1>5. PICK n \in Nat : n = Len(t) OBVIOUS
<1>6. DOMAIN t = 1..n BY <1>5
<1>7. PICK w : w = [k \in 0..n |-> f[1..k]] OBVIOUS
<1>8. \A k \in 0..n : 1..k \in SUBSET (1..n) OBVIOUS
<1>9. w \in [0..n -> States] BY <1>4, <1>6, <1>7, <1>8 DEF Folding
<1>10. w[0] = s
  <2>1. 1..0 = {} /\ 0 \in 0..n OBVIOUS
  <2> QED BY <1>4, <1>7, <2>1 DEF Folding
<1>11. ASSUME NEW k \in 1..n PROVE w[k] = Moves(w[k - 1], t[k])
  <2>1. k \in Nat \ {0} /\ k \in 0..n /\ k - 1 \in 0..n /\ 1 \in 1..k OBVIOUS
  <2>2. Max(1..k) = k /\ (1..k) \ {k} = 1..(k - 1) BY <2>1, MaxOfFirst
  <2>3. f[1..k] = step[<<f[(1..k) \ {Max(1..k)}], t[Max(1..k)]>>] BY <1>4, <1>6, <1>8, <2>1 DEF Folding
  <2>4. f[1..k] = step[<<f[1..(k - 1)], t[k]>>] BY <2>2, <2>3
  <2>5. w[k] = f[1..k] /\ w[k - 1] = f[1..(k - 1)] BY <1>7, <2>1
  <2>6. w[k - 1] \in States /\ t[k] \in Pieces BY <1>5, <1>9, <2>1
  <2>7. step[<<w[k - 1], t[k]>>] = Moves(w[k - 1], t[k])
    <3>1. PICK a \in States, b \in Pieces : a = w[k - 1] /\ b = t[k] BY <2>6
    <3>2. <<a, b>> \in States \X Pieces /\ <<a, b>>[1] = a /\ <<a, b>>[2] = b OBVIOUS
    <3>3. step[<<a, b>>] = Moves(a, b) BY <1>1, <3>2
    <3> QED BY <3>1, <3>3
  <2> QED BY <2>4, <2>5, <2>7
<1>12. Walk(w, s, t) BY <1>5, <1>9, <1>10, <1>11 DEF Walk
<1>13. w[n] \in States BY <1>9
<1> QED BY <1>5, <1>12, <1>13 DEF Leads

\* EndState is where a text leads from the start.
LEMMA EndStateLeads ==
    ASSUME NEW t \in Seq(Pieces)
    PROVE  EndState(t) \in States /\ Leads("start", t, EndState(t))
<1> DEFINE next(f) == [i \in 0..Len(t) |->
                         IF i = 0 THEN "start" ELSE TagTransitions[<<f[i - 1], Part(t[i])>>]]
<1>1. EndState(t) = (CHOOSE f : f = next(f))[Len(t)] BY DEF EndState
<1>2. "start" \in States BY DEF States
<1>3. PICK n \in Nat : n = Len(t) OBVIOUS
<1>4. \E f : f = next(f)
  <2>1. PICK w : Walk(w, "start", t) BY <1>2, LeadsSomewhere DEF Leads
  <2>2. ASSUME NEW i \in 0..n
        PROVE  w[i] = IF i = 0 THEN "start" ELSE TagTransitions[<<w[i - 1], Part(t[i])>>]
    <3>1. i = 0 \/ i \in 1..n OBVIOUS
    <3> QED BY <1>3, <2>1, <3>1 DEF Walk, Moves
  <2>3. w = [i \in 0..n |-> w[i]] BY <1>3, <2>1 DEF Walk
  <2>4. w = next(w) BY <1>3, <2>2, <2>3
  <2> QED BY <2>4
<1>5. PICK f : f = next(f) /\ f = CHOOSE g : g = next(g) BY <1>4, Zenon
<1>6. f[0] = "start"
  <2>1. 0 \in 0..Len(t) BY <1>3
  <2> QED BY <1>5, <2>1
<1>7. ASSUME NEW k \in 1..n PROVE f[k] = Moves(f[k - 1], t[k])
  <2>1. k \in 0..Len(t) /\ k # 0 BY <1>3
  <2> QED BY <1>5, <2>1 DEF Moves
<1>8. \A k \in 0..n : f[k] \in States
  <2>1. PICK S : S = {k \in 0..n : f[k] \in States} OBVIOUS
  <2>2. 0 \in S BY <1>2, <1>6, <2>1
  <2>3. ASSUME NEW k \in 1..n, k - 1 \in S PROVE k \in S
    <3>1. f[k - 1] \in States /\ t[k] \in Pieces BY <1>3, <2>1, <2>3
    <3> QED BY <1>7, <2>1, <3>1, MovesType
  <2>4. 0..n \subseteq S BY <2>2, <2>3, Counting
  <2> QED BY <2>1, <2>4
<1>9. f \in [0..n -> States] BY <1>3, <1>5, <1>8
<1> HIDE DEF next
<1>10. Walk(f, "start", t) BY <1>3, <1>6, <1>7, <1>9 DEF Walk
<1>11. f[Len(t)] = EndState(t) BY <1>1, <1>5
<1>12. n \in 0..n OBVIOUS
<1>13. EndState(t) \in States BY <1>3, <1>8, <1>11, <1>12
<1> QED BY <1>10, <1>11, <1>13 DEF Leads

\* It leads to EndState, whatever else is known of it.
LEMMA EndStateIs ==
    ASSUME NEW t \in Seq(Pieces), NEW e, Leads("start", t, e)
    PROVE  EndState(t) = e
BY EndStateLeads, LeadsUnique

\* After a document a text may go on as it may begin.
LEMMA LeadsAfterInformation ==
    ASSUME NEW t \in Seq(Pieces), NEW e, NEW f, Leads("start", t, e), Leads("information", t, f)
    PROVE  e = f \/ (e = "start" /\ f = "information")
<1>1. PICK w : Walk(w, "start", t) /\ w[Len(t)] = e BY DEF Leads
<1>2. PICK n \in Nat : n = Len(t) OBVIOUS
<1>3. w \in [0..n -> States] /\ w[0] = "start" /\ \A k \in 1..n : w[k] = Moves(w[k - 1], t[k])
  BY <1>1, <1>2 DEF Walk
<1>4. CASE n = 0
  <2>1. e = "start" BY <1>1, <1>2, <1>3, <1>4
  <2>2. f = "information" BY <1>2, <1>4 DEF Leads, Walk
  <2> QED BY <2>1, <2>2
<1>5. CASE n # 0
  <2>1. "information" \in States /\ "start" \in States BY DEF States
  <2>2. PICK v : v = [k \in 0..n |-> IF k = 0 THEN "information" ELSE w[k]] OBVIOUS
  <2>3. v[0] = "information" /\ \A k \in 1..n : v[k] = w[k]
    <3>1. 0 \in 0..n /\ \A k \in 1..n : k \in 0..n /\ k # 0 OBVIOUS
    <3> QED BY <2>2, <3>1
  <2>4. v \in [0..n -> States] BY <1>3, <2>1, <2>2
  <2>5. ASSUME NEW p \in Pieces PROVE Moves("start", p) = Moves("information", p)
    BY <2>1, PieceCases, MovesTable DEF ContentAllowed
  <2>6. ASSUME NEW k \in 1..n PROVE v[k] = Moves(v[k - 1], t[k])
    <3>1. t[k] \in Pieces BY <1>2
    <3>2. CASE k = 1
      <4>1. k - 1 = 0 BY <3>2
      <4>2. w[k] = Moves("start", t[k]) BY <1>3, <4>1
      <4> QED BY <2>3, <2>5, <3>1, <4>1, <4>2
    <3>3. CASE k # 1
      <4>1. k - 1 \in 1..n BY <3>3
      <4> QED BY <1>3, <2>3, <4>1
    <3> QED BY <3>2, <3>3
  <2>7. Walk(v, "information", t) BY <1>2, <2>3, <2>4, <2>6 DEF Walk
  <2>8. n \in 1..n BY <1>5
  <2>9. v[Len(t)] = e BY <1>1, <1>2, <2>3, <2>8
  <2>10. Leads("information", t, e) BY <2>7, <2>9 DEF Leads
  <2> QED BY <2>10, LeadsUnique
<1> QED BY <1>4, <1>5

---------------------------------------------------------------------------
(* What the environment writes. *)

\* Content is a piece that moves nothing where content is allowed.
LEMMA TagFreeMoves ==
    ASSUME NEW body \in Seq(Pieces), TagFree(body), NEW m \in ContentAllowed
    PROVE  Leads(m, body, m)
<1>1. m \in States BY DEF ContentAllowed, States
<1>2. ASSUME NEW k \in 1..Len(body) PROVE Moves(m, body[k]) = m
  <2>1. PICK p \in Pieces : p = body[k] OBVIOUS
  <2>2. p.tag = "none" BY <2>1 DEF TagFree
  <2>3. ASSUME NEW n PROVE p # Open(n) /\ p # Close(n)
    <3>1. Open(n).tag = "open" /\ Close(n).tag = "close" BY DEF Open, Close
    <3> QED BY <2>2, <3>1
  <2>4. PICK c \in DOMAIN Normal : p = Content(c) BY <2>3 DEF Pieces
  <2> QED BY <1>1, <2>1, <2>4, MovesTable
<1> QED BY <1>1, <1>2, LeadsNowhere

\* Blocks are texts.
LEMMA BlockIsText ==
    ASSUME NEW name \in TagNames, NEW body \in Seq(Pieces)
    PROVE  /\ Block(name, body) \in Seq(Pieces)
           /\ Open(name) \in Pieces /\ Close(name) \in Pieces
           /\ <<Open(name)>> \o body \in Seq(Pieces)
<1>1. Open(name) \in Pieces /\ Close(name) \in Pieces BY DEF Pieces
<1>2. PICK a \in Seq(Pieces), b \in Seq(Pieces), c \in Seq(Pieces) :
        a = <<Open(name)>> /\ b = body /\ c = <<Close(name)>>
  <2>1. <<Open(name)>> \in Seq(Pieces) /\ <<Close(name)>> \in Seq(Pieces) BY <1>1
  <2> QED BY <2>1
<1>3. PICK ab : ab = a \o b OBVIOUS
<1>4. ab \in Seq(Pieces) /\ ab \o c \in Seq(Pieces)
  <2>1. ab \in Seq(Pieces) BY <1>3
  <2> QED BY <2>1
<1>5. Block(name, body) = ab \o c BY <1>2, <1>3 DEF Block
<1> QED BY <1>1, <1>2, <1>3, <1>4, <1>5

\* A block leads on by its last tag, from wherever its body leads: where its body has
\* no tag, from where its first tag leads.
LEMMA LeadsBlock ==
    ASSUME NEW s \in States, NEW name \in TagNames, NEW body \in Seq(Pieces),
           NEW m \in ContentAllowed \cup {"invalid"}, Moves(s, Open(name)) = m
    PROVE  \E x \in States :
             /\ Leads(s, Block(name, body), Moves(x, Close(name)))
             /\ m = "invalid" \/ TagFree(body) => x = m
<1>1. m \in States BY DEF ContentAllowed, States
<1>2. Open(name) \in Pieces /\ Close(name) \in Pieces /\ <<Open(name)>> \o body \in Seq(Pieces)
  BY BlockIsText
<1>3. <<Open(name)>> \in Seq(Pieces) /\ <<Close(name)>> \in Seq(Pieces) BY <1>2
<1>4. Leads(s, <<Open(name)>>, m) BY <1>2, LeadsOne
<1>5. PICK x \in States : Leads(m, body, x) BY <1>1, LeadsSomewhere
<1>6. m = "invalid" => x = m BY <1>5, LeadsInvalid, LeadsUnique
<1>7. TagFree(body) /\ m # "invalid" => x = m
  <2> SUFFICES ASSUME TagFree(body), m # "invalid" PROVE x = m OBVIOUS
  <2>1. Leads(m, body, m) BY TagFreeMoves
  <2> QED BY <1>5, <2>1, LeadsUnique
<1>8. Leads(s, <<Open(name)>> \o body, x) BY <1>3, <1>4, <1>5, LeadsConcat
<1>9. Leads(x, <<Close(name)>>, Moves(x, Close(name))) BY <1>2, LeadsOne
<1>10. Leads(s, Block(name, body), Moves(x, Close(name))) BY <1>2, <1>3, <1>8, <1>9, LeadsConcat DEF Block
<1> QED BY <1>6, <1>7, <1>10

\* A search is in its place after a thought.  The tags of its query may break it, but
\* put it nowhere else.
LEMMA LeadsSearch ==
    ASSUME NEW s \in States, NEW body \in Seq(Pieces)
    PROVE  \E e \in {"after_search", "invalid"} :
             /\ Leads(s, Block("search", body), e)
             /\ s # "after_think" => e = "invalid"
             /\ s = "after_think" /\ TagFree(body) => e = "after_search"
<1>1. "search" \in TagNames /\ "in_search" \in States BY DEF TagNames, States
<1>2. PICK m : m = IF s = "after_think" THEN "in_search" ELSE "invalid" OBVIOUS
<1>3. Moves(s, Open("search")) = m BY <1>2, MovesTable
<1>4. m \in ContentAllowed \cup {"invalid"} BY <1>2 DEF ContentAllowed
<1>5. PICK x \in States : /\ Leads(s, Block("search", body), Moves(x, Close("search")))
                          /\ m = "invalid" \/ TagFree(body) => x = m
  BY <1>1, <1>3, <1>4, LeadsBlock
<1>6. PICK e : e = Moves(x, Close("search")) OBVIOUS
<1>7. e = IF x = "in_search" THEN "after_search" ELSE "invalid" BY <1>6, MovesTable
<1>8. Leads(s, Block("search", body), e) BY <1>5, <1>6
<1> QED BY <1>2, <1>5, <1>7, <1>8

\* A message is in its place after a search, and the tags of its documents may break it.
LEMMA LeadsInformation ==
    ASSUME NEW s \in States, NEW body \in Seq(Pieces)
    PROVE  \E e \in {"information", "invalid"} :
             /\ Leads(s, Information(body), e)
             /\ s # "after_search" => e = "invalid"
             /\ s = "after_search" /\ TagFree(body) => e = "information"
<1>1. "information" \in TagNames /\ "in_information" \in States BY DEF TagNames, States
<1>2. PICK m : m = IF s = "after_search" THEN "in_information" ELSE "invalid" OBVIOUS
<1>3. Moves(s, Open("information")) = m BY <1>2, MovesTable
<1>4. m \in ContentAllowed \cup {"invalid"} BY <1>2 DEF ContentAllowed
<1>5. PICK x \in States : /\ Leads(s, Block("information", body), Moves(x, Close("information")))
                          /\ m = "invalid" \/ TagFree(body) => x = m
  BY <1>1, <1>3, <1>4, LeadsBlock
<1>6. PICK e : e = Moves(x, Close("information")) OBVIOUS
<1>7. e = IF x = "in_information" THEN "information" ELSE "invalid" BY <1>6, MovesTable
<1>8. Leads(s, Information(body), e) BY <1>5, <1>6 DEF Information
<1> QED BY <1>2, <1>5, <1>7, <1>8

\* Texts that are joined grow one by one.
LEMMA JoinedWalk ==
    ASSUME NEW first \in Seq(Pieces), NEW texts \in Seq(Seq(Pieces))
    PROVE  \E w : /\ w[0] = first /\ w[Len(texts)] = Joined(first, texts)
                  /\ \A k \in 0..Len(texts) : w[k] \in Seq(Pieces)
                  /\ \A k \in 1..Len(texts) : w[k] = w[k - 1] \o texts[k]
<1> DEFINE next(f) == [s \in SUBSET DOMAIN texts |->
                         IF s = {} THEN first ELSE f[s \ {Max(s)}] \o texts[Max(s)]]
<1>1. Joined(first, texts) = (CHOOSE f : f = next(f))[DOMAIN texts]
  BY DEF Joined, FoldLeft, MapThenFoldSet
<1>2. PICK T : T = Seq(Pieces) OBVIOUS
<1>3. PICK n \in Nat : n = Len(texts) OBVIOUS
<1>4. DOMAIN texts = 1..n /\ \A k \in 1..n : texts[k] \in T BY <1>2, <1>3
<1>5. \A a \in T, b \in T : a \o b \in T BY <1>2
<1>6. \E f : f = next(f)
  <2>1. PICK step : step = [x \in T \X T |-> x[1] \o x[2]] OBVIOUS
  <2>2. ASSUME NEW a \in T, NEW b \in T PROVE step[<<a, b>>] = a \o b
    <3>1. <<a, b>> \in T \X T /\ <<a, b>>[1] = a /\ <<a, b>>[2] = b OBVIOUS
    <3> QED BY <2>1, <3>1
  <2>3. step \in [T \X T -> T]
    <3>1. ASSUME NEW x \in T \X T PROVE step[x] \in T
      <4>1. PICK a \in T, b \in T : x = <<a, b>> OBVIOUS
      <4> QED BY <1>5, <2>2, <4>1
    <3> QED BY <2>1, <3>1
  <2>4. PICK f : Folding(f, T, step, first, texts) BY <1>2, <2>3, FoldExists
  <2>5. ASSUME NEW s \in SUBSET DOMAIN texts, s # {}
        PROVE  f[s] = f[s \ {Max(s)}] \o texts[Max(s)]
    <3>1. Max(s) \in s BY <1>4, <2>5, MaxOfSome
    <3>2. texts[Max(s)] \in T BY <1>4, <3>1
    <3>3. f[s \ {Max(s)}] \in T BY <2>4 DEF Folding
    <3>4. f[s] = step[<<f[s \ {Max(s)}], texts[Max(s)]>>] BY <2>4, <2>5 DEF Folding
    <3> QED BY <2>2, <3>2, <3>3, <3>4
  <2>6. f[{}] = first BY <2>4 DEF Folding
  <2>7. ASSUME NEW s \in SUBSET DOMAIN texts
        PROVE  f[s] = IF s = {} THEN first ELSE f[s \ {Max(s)}] \o texts[Max(s)]
    BY <2>5, <2>6, Zenon
  <2>8. f = [s \in SUBSET DOMAIN texts |-> f[s]] BY <2>4 DEF Folding
  <2>9. f = next(f) BY <2>7, <2>8, Zenon
  <2> QED BY <2>9
<1>7. PICK f : f = next(f) /\ f = CHOOSE g : g = next(g) BY <1>6, Zenon
<1>8. f[{}] = first
  <2>1. {} \in SUBSET DOMAIN texts OBVIOUS
  <2> QED BY <1>7, <2>1
<1>9. ASSUME NEW k \in 1..n PROVE f[1..k] = f[1..(k - 1)] \o texts[k]
  <2>0. k \in Nat \ {0} /\ 1 \in 1..k /\ 1..k \in SUBSET (1..n) OBVIOUS
  <2>1. k \in Nat \ {0} /\ 1..k # {} /\ 1..k \in SUBSET DOMAIN texts BY <1>4, <2>0
  <2>2. Max(1..k) = k /\ (1..k) \ {k} = 1..(k - 1) BY <2>1, MaxOfFirst
  <2>3. f[1..k] = f[(1..k) \ {Max(1..k)}] \o texts[Max(1..k)] BY <1>7, <2>1
  <2> QED BY <2>2, <2>3, Zenon
<1>10. PICK w : w = [k \in 0..n |-> f[1..k]] OBVIOUS
<1>11. w[0] = first
  <2>1. 1..0 = {} /\ 0 \in 0..n OBVIOUS
  <2> QED BY <1>8, <1>10, <2>1
<1>12. ASSUME NEW k \in 1..n PROVE w[k] = w[k - 1] \o texts[k]
  <2>1. k \in 0..n /\ k - 1 \in 0..n OBVIOUS
  <2>2. w[k] = f[1..k] /\ w[k - 1] = f[1..(k - 1)] BY <1>10, <2>1
  <2> QED BY <1>9, <2>2, Zenon
<1>13. \A k \in 0..n : w[k] \in T
  <2>1. PICK S : S = {k \in 0..n : w[k] \in T} OBVIOUS
  <2>2. 0 \in S BY <1>2, <1>11, <2>1
  <2>3. ASSUME NEW k \in 1..n, k - 1 \in S PROVE k \in S
    <3>1. w[k - 1] \in T /\ texts[k] \in T BY <1>4, <2>1, <2>3
    <3>2. w[k] \in T BY <1>5, <1>12, <3>1
    <3> QED BY <2>1, <3>2
  <2>4. 0..n \subseteq S BY <2>2, <2>3, Counting
  <2> QED BY <2>1, <2>4
<1>14. w[n] = Joined(first, texts)
  <2>1. n \in 0..n OBVIOUS
  <2>2. w[n] = f[1..n] BY <1>10, <2>1
  <2>3. Joined(first, texts) = f[1..n] BY <1>1, <1>4, <1>7, Zenon
  <2> QED BY <2>2, <2>3
<1> QED BY <1>2, <1>3, <1>11, <1>12, <1>13, <1>14

\* What is joined is a text.
LEMMA JoinedIsText ==
    ASSUME NEW first \in Seq(Pieces), NEW texts \in Seq(Seq(Pieces))
    PROVE  Joined(first, texts) \in Seq(Pieces)
<1>1. PICK w : /\ w[Len(texts)] = Joined(first, texts)
               /\ \A k \in 0..Len(texts) : w[k] \in Seq(Pieces)
  BY JoinedWalk
<1>2. Len(texts) \in 0..Len(texts) OBVIOUS
<1> QED BY <1>1, <1>2

\* What a search inserts: the text of its query, and of its documents.
Asked(q) == IF q = NoQuery THEN <<>> ELSE Raw[q]

\* They are texts.
LEMMA InsertedIsText ==
    /\ \A q \in Queries : Asked(q) \in Seq(Pieces) /\ SearchTag(q) = Block("search", Asked(q))
                          /\ SearchTag(q) \in Seq(Pieces)
    /\ \A list \in Seq(DOMAIN Raw) : Documents(list) \in Seq(Pieces)
<1>1. ASSUME NEW q \in Queries
      PROVE  /\ Asked(q) \in Seq(Pieces) /\ SearchTag(q) = Block("search", Asked(q))
             /\ SearchTag(q) \in Seq(Pieces)
  <2>1. Asked(q) \in Seq(Pieces)
    <3>1. <<>> \in Seq(Pieces) OBVIOUS
    <3>2. q # NoQuery => Raw[q] \in Seq(Pieces) BY CorpusAssumption DEF Queries
    <3> QED BY <3>1, <3>2 DEF Asked
  <2>2. SearchTag(q) = Block("search", Asked(q)) BY DEF SearchTag, Asked
  <2>3. "search" \in TagNames BY DEF TagNames
  <2> QED BY <2>1, <2>2, <2>3, BlockIsText
<1>2. ASSUME NEW list \in Seq(DOMAIN Raw) PROVE Documents(list) \in Seq(Pieces)
  <2>1. PICK texts : texts = [i \in DOMAIN list |-> Raw[list[i]]] OBVIOUS
  <2>2. PICK n \in Nat : n = Len(list) OBVIOUS
  <2>3. DOMAIN list = 1..n /\ \A i \in 1..n : list[i] \in DOMAIN Raw BY <2>2
  <2>4. PICK T : T = Seq(Pieces) OBVIOUS
  <2>5. \A i \in 1..n : Raw[list[i]] \in T BY <2>3, <2>4, CorpusAssumption
  <2>6. texts \in [1..n -> T] BY <2>1, <2>3, <2>5
  <2>7. texts \in Seq(T) BY <2>6
  <2>8. <<>> \in Seq(Pieces) OBVIOUS
  <2>9. Documents(list) = Joined(<<>>, texts) BY <2>1 DEF Documents
  <2> QED BY <2>4, <2>7, <2>8, <2>9, JoinedIsText
<1> QED BY <1>1, <1>2

\* The transcript of a turn grows call by call.
LEMMA CompatibleWalk ==
    ASSUME NEW o, o.text \in Seq(Pieces), o.calls \in Seq(Queries)
    PROVE  \E w : /\ w[0] = o.text /\ w[Len(o.calls)] = CompatibleOutput(o)
                  /\ \A k \in 0..Len(o.calls) : w[k] \in Seq(Pieces)
                  /\ \A k \in 1..Len(o.calls) : w[k] = w[k - 1] \o SearchTag(o.calls[k])
<1>1. PICK calls \in Seq(Queries), first \in Seq(Pieces) : calls = o.calls /\ first = o.text OBVIOUS
<1>2. PICK n \in Nat : n = Len(calls) OBVIOUS
<1>3. DOMAIN calls = 1..n /\ \A k \in 1..n : calls[k] \in Queries BY <1>2
<1>4. PICK texts : texts = [i \in 1..n |-> SearchTag(calls[i])] OBVIOUS
<1>5. PICK T : T = Seq(Pieces) OBVIOUS
<1>6. \A k \in 1..n : SearchTag(calls[k]) \in T BY <1>3, <1>5, InsertedIsText
<1>7. texts \in [1..n -> T] BY <1>4, <1>6
<1>8. first \in Seq(Pieces) /\ texts \in Seq(Seq(Pieces)) /\ Len(texts) = n BY <1>1, <1>5, <1>7
<1>9. PICK w : /\ w[0] = first /\ w[Len(texts)] = Joined(first, texts)
               /\ \A k \in 0..Len(texts) : w[k] \in Seq(Pieces)
               /\ \A k \in 1..Len(texts) : w[k] = w[k - 1] \o texts[k]
  BY ONLY <1>8, JoinedWalk
<1>10. Joined(first, texts) = CompatibleOutput(o) BY <1>1, <1>3, <1>4 DEF CompatibleOutput
<1>11. \A k \in 1..n : w[k] = w[k - 1] \o SearchTag(calls[k]) BY <1>4, <1>8, <1>9
<1> QED BY <1>1, <1>2, <1>8, <1>9, <1>10, <1>11

\* A turn with one call that follows a thought asks for a search, unless the tags of its
\* query break it; any other turn with calls is out of place.
LEMMA LeadsCompatible ==
    ASSUME NEW s \in States, NEW o, o.text \in Seq(Pieces), o.calls \in Seq(Queries),
           NEW e \in States, Leads(s, o.text, e)
    PROVE  /\ CompatibleOutput(o) \in Seq(Pieces)
           /\ o.calls = <<>> => CompatibleOutput(o) = o.text
           /\ o.calls # <<>> =>
                \E f \in {"after_search", "invalid"} :
                  /\ Leads(s, CompatibleOutput(o), f)
                  /\ ~(e = "after_think" /\ Len(o.calls) = 1) => f = "invalid"
                  /\ e = "after_think" /\ Len(o.calls) = 1 /\ TagFree(Asked(o.calls[1])) => f = "after_search"
<1>1. PICK w : /\ w[0] = o.text /\ w[Len(o.calls)] = CompatibleOutput(o)
               /\ \A k \in 0..Len(o.calls) : w[k] \in Seq(Pieces)
               /\ \A k \in 1..Len(o.calls) : w[k] = w[k - 1] \o SearchTag(o.calls[k])
  BY CompatibleWalk
<1>2. PICK n \in Nat : n = Len(o.calls) OBVIOUS
<1>3. PICK free \in BOOLEAN : free = (n > 0 /\ TagFree(Asked(o.calls[1]))) OBVIOUS
<1> DEFINE After(k, f) ==
             IF k = 0 THEN f = e
             ELSE /\ f \in {"after_search", "invalid"}
                  /\ ~(e = "after_think" /\ k = 1) => f = "invalid"
                  /\ e = "after_think" /\ k = 1 /\ free => f = "after_search"
           Reached(k) == \E f \in States : Leads(s, w[k], f) /\ After(k, f)
<1>4. "after_search" \in States /\ "invalid" \in States BY DEF States
<1>5. PICK S : S = {k \in 0..n : Reached(k)} OBVIOUS
<1>6. 0 \in S
  <2>1. Leads(s, w[0], e) BY <1>1
  <2>2. After(0, e) OBVIOUS
  <2> HIDE DEF After
  <2>3. Reached(0) BY <2>1, <2>2
  <2>4. 0 \in 0..n OBVIOUS
  <2> HIDE DEF Reached
  <2> QED BY <1>5, <2>3, <2>4
<1>7. ASSUME NEW k \in 1..n, k - 1 \in S PROVE k \in S
  <2>1. PICK b \in States : Leads(s, w[k - 1], b) /\ After(k - 1, b)
    <3> HIDE DEF After
    <3> QED BY <1>5, <1>7
  <2>2. PICK a \in Seq(Pieces), q \in Queries : a = w[k - 1] /\ q = o.calls[k] BY <1>1, <1>2
  <2>3. SearchTag(q) \in Seq(Pieces) /\ SearchTag(q) = Block("search", Asked(q)) /\ Asked(q) \in Seq(Pieces)
    BY InsertedIsText
  <2>4. PICK c \in {"after_search", "invalid"} :
          /\ Leads(b, SearchTag(q), c)
          /\ b # "after_think" => c = "invalid"
          /\ b = "after_think" /\ TagFree(Asked(q)) => c = "after_search"
    BY <2>3, LeadsSearch
  <2>5. Leads(s, a \o SearchTag(q), c) BY <2>1, <2>2, <2>3, <2>4, LeadsConcat
  <2>6. w[k] = a \o SearchTag(q) BY <1>1, <1>2, <2>2
  <2>7. k # 0 /\ (k = 1 <=> k - 1 = 0) OBVIOUS
  <2>8. k = 1 => b = e BY <2>1, <2>7
  <2>9. k # 1 => b # "after_think" BY <2>1, <2>7
  <2>10. free /\ k = 1 => TagFree(Asked(q)) BY <1>3, <2>2
  <2>11. After(k, c) BY <2>4, <2>7, <2>8, <2>9, <2>10
  <2> HIDE DEF After
  <2>12. Reached(k)
    <3>1. Leads(s, w[k], c) BY <2>5, <2>6
    <3>2. c \in States BY <1>4
    <3> QED BY <2>11, <3>1, <3>2
  <2>13. k \in 0..n OBVIOUS
  <2> HIDE DEF Reached
  <2> QED BY <1>5, <2>12, <2>13
<1>8. 0..n \subseteq S
  <2> HIDE DEF Reached
  <2> QED BY <1>6, <1>7, Counting
<1>9. n \in S /\ n \in 0..n BY <1>8
<1>10. PICK f \in States : Leads(s, w[n], f) /\ After(n, f)
  <2> HIDE DEF After
  <2> QED BY <1>5, <1>9
<1>11. CompatibleOutput(o) = w[n] BY <1>1, <1>2
<1>12. CompatibleOutput(o) \in Seq(Pieces) BY <1>1, <1>2, <1>9, <1>11
<1>13. CASE o.calls = <<>>
  <2>1. n = 0 BY <1>2, <1>13
  <2> QED BY <1>1, <1>11, <1>12, <1>13, <2>1
<1>14. CASE o.calls # <<>>
  <2>1. n # 0 /\ n > 0 BY <1>2, <1>14
  <2>2. /\ f \in {"after_search", "invalid"}
        /\ ~(e = "after_think" /\ n = 1) => f = "invalid"
        /\ e = "after_think" /\ n = 1 /\ TagFree(Asked(o.calls[1])) => f = "after_search"
    BY <1>3, <1>10, <2>1
  <2>3. Leads(s, CompatibleOutput(o), f) BY <1>10, <1>11
  <2> QED BY <1>2, <1>12, <1>14, <2>2, <2>3
<1> QED BY <1>13, <1>14

---------------------------------------------------------------------------
(* Texts the automaton accepts are balanced. *)

\* The state between the tags of a name.
Inside(name) ==
    CASE name = "think" -> "in_think" [] name = "search" -> "in_search"
      [] name = "information" -> "in_information" [] OTHER -> "in_answer"

\* The automaton is there exactly from the one tag to the other.
LEMMA MovesInside ==
    ASSUME NEW s \in States, NEW p \in Pieces, NEW name \in TagNames, Moves(s, p) # "invalid"
    PROVE  /\ s # "invalid"
           /\ p = Open(name) => s # Inside(name) /\ Moves(s, p) = Inside(name)
           /\ p = Close(name) => s = Inside(name) /\ Moves(s, p) # Inside(name)
           /\ p \notin {Open(name), Close(name)} => (Moves(s, p) = Inside(name) <=> s = Inside(name))
<1>1. CASE p \in {Open("think"), Open("search"), Open("information"), Open("answer")}
  <2>1. PICK m \in TagNames : p = Open(m) BY <1>1 DEF TagNames
  <2>2. Moves(s, p) = Inside(m) /\ s \notin {"invalid", "in_think", "in_search", "in_information", "in_answer"}
    BY <2>1, MovesTable DEF TagNames, Inside
  <2>3. Inside(name) \in {"in_think", "in_search", "in_information", "in_answer"} BY DEF Inside, TagNames
  <2>4. m # name => Inside(m) # Inside(name) BY DEF Inside, TagNames
  <2>5. p # Close(name) /\ (p = Open(name) <=> m = name) BY <2>1, PiecesDiffer
  <2> QED BY <2>2, <2>3, <2>4, <2>5
<1>2. CASE p \in {Close("think"), Close("search"), Close("information"), Close("answer")}
  <2>1. PICK m \in TagNames : p = Close(m) BY <1>2 DEF TagNames
  <2>2. s = Inside(m) /\ Moves(s, p) \notin {"in_think", "in_search", "in_information", "in_answer"}
    BY <2>1, MovesTable DEF TagNames, Inside
  <2>3. Inside(name) \in {"in_think", "in_search", "in_information", "in_answer"} BY DEF Inside, TagNames
  <2>4. m # name => Inside(m) # Inside(name) BY DEF Inside, TagNames
  <2>5. Inside(m) # "invalid" BY DEF Inside, TagNames
  <2>6. p # Open(name) /\ (p = Close(name) <=> m = name) BY <2>1, PiecesDiffer
  <2> QED BY <2>2, <2>3, <2>4, <2>5, <2>6
<1>3. CASE \E c \in DOMAIN Normal : p = Content(c)
  <2>1. PICK c \in DOMAIN Normal : p = Content(c) BY <1>3
  <2>2. Moves(s, p) = s BY <2>1, MovesTable
  <2>3. p # Open(name) /\ p # Close(name) BY <2>1, PiecesDiffer
  <2> QED BY <2>2, <2>3
<1> QED BY <1>1, <1>2, <1>3, PieceCases

\* Where the first k pieces of a text are p.
Upto(t, p, k) == {i \in 1..k : t[i] = p}

\* There is one more for every such piece.
LEMMA UptoGrows ==
    ASSUME NEW t, NEW p, NEW k \in Nat \ {0}, IsFiniteSet(Upto(t, p, k - 1))
    PROVE  /\ IsFiniteSet(Upto(t, p, k)) /\ Cardinality(Upto(t, p, k - 1)) \in Nat
           /\ t[k] = p => Cardinality(Upto(t, p, k)) = Cardinality(Upto(t, p, k - 1)) + 1
           /\ t[k] # p => Upto(t, p, k) = Upto(t, p, k - 1)
<1>1. PICK S : S = Upto(t, p, k - 1) OBVIOUS
<1>2. k \notin S BY <1>1 DEF Upto
<1>3. \A i : i \in 1..k <=> i \in 1..(k - 1) \/ i = k OBVIOUS
<1>4. t[k] = p => Upto(t, p, k) = S \cup {k} BY <1>1, <1>3 DEF Upto
<1>5. t[k] # p => Upto(t, p, k) = S BY <1>1, <1>3 DEF Upto
<1>6. Cardinality(S) \in Nat /\ IsFiniteSet(S \cup {k}) /\ Cardinality(S \cup {k}) = Cardinality(S) + 1
  BY <1>1, <1>2, FS_AddElement, FS_CardinalityType
<1> QED BY <1>1, <1>4, <1>5, <1>6

\* Tags are opened as often as they are closed.
LEMMA AcceptedBalanced ==
    ASSUME NEW t \in Seq(Pieces), EndState(t) \in {"after_think", "end"}
    PROVE  Balanced(t)
<1>1. PICK w : Walk(w, "start", t) /\ w[Len(t)] = EndState(t) BY EndStateLeads DEF Leads
<1>2. PICK n \in Nat : n = Len(t) OBVIOUS
<1>3. w \in [0..n -> States] /\ w[0] = "start" /\ \A k \in 1..n : w[k] = Moves(w[k - 1], t[k])
  BY <1>1, <1>2 DEF Walk
<1>4. DOMAIN t = 1..n /\ \A k \in 1..n : t[k] \in Pieces BY <1>2
<1>5. SUFFICES ASSUME NEW name \in TagNames
               PROVE  Cardinality(Upto(t, Open(name), n)) = Cardinality(Upto(t, Close(name), n))
  BY <1>4 DEF Balanced, Upto
<1> DEFINE opened(k) == Upto(t, Open(name), k)
           closed(k) == Upto(t, Close(name), k)
           even(k) == /\ IsFiniteSet(opened(k)) /\ IsFiniteSet(closed(k))
                      /\ w[k] = "invalid" \/ Cardinality(opened(k)) = Cardinality(closed(k)) + (IF w[k] = Inside(name) THEN 1 ELSE 0)
<1>6. PICK S : S = {k \in 0..n : even(k)} OBVIOUS
<1>7. 0 \in S
  <2>1. opened(0) = {} /\ closed(0) = {}
    <3>1. 1..0 = {} OBVIOUS
    <3> QED BY <3>1 DEF Upto
  <2>2. w[0] # Inside(name) BY <1>3 DEF Inside, TagNames
  <2>3. Cardinality(opened(0)) = 0 /\ Cardinality(closed(0)) = 0 /\ IsFiniteSet(opened(0)) /\ IsFiniteSet(closed(0))
    BY <2>1, FS_EmptySet
  <2>5. even(0) BY <2>2, <2>3
  <2>4. 0 \in 0..n OBVIOUS
  <2> HIDE DEF even
  <2> QED BY <1>6, <2>4, <2>5
<1>8. ASSUME NEW k \in 1..n, k - 1 \in S PROVE k \in S
  <2>1. even(k - 1) BY <1>6, <1>8
  <2>2. k \in Nat \ {0} /\ k \in 0..n /\ k - 1 \in 0..n OBVIOUS
  <2>3. PICK s \in States, p \in Pieces : s = w[k - 1] /\ p = t[k] BY <1>3, <1>4, <2>2
  <2>4. w[k] = Moves(s, p) BY <1>3, <2>3
  <2>5. PICK a, b, c, d : /\ a = Cardinality(opened(k - 1)) /\ b = Cardinality(closed(k - 1))
                          /\ c = Cardinality(opened(k)) /\ d = Cardinality(closed(k))
    OBVIOUS
  <2>6. /\ IsFiniteSet(opened(k)) /\ a \in Nat
        /\ p = Open(name) => c = a + 1
        /\ p # Open(name) => c = a
    BY <2>1, <2>2, <2>3, <2>5, UptoGrows
  <2>7. /\ IsFiniteSet(closed(k)) /\ b \in Nat
        /\ p = Close(name) => d = b + 1
        /\ p # Close(name) => d = b
    BY <2>1, <2>2, <2>3, <2>5, UptoGrows
  <2>8. w[k] = "invalid" \/ c = d + (IF w[k] = Inside(name) THEN 1 ELSE 0)
    <3> SUFFICES ASSUME w[k] # "invalid" PROVE c = d + (IF w[k] = Inside(name) THEN 1 ELSE 0) OBVIOUS
    <3>1. /\ s # "invalid"
          /\ p = Open(name) => s # Inside(name) /\ w[k] = Inside(name)
          /\ p = Close(name) => s = Inside(name) /\ w[k] # Inside(name)
          /\ p \notin {Open(name), Close(name)} => (w[k] = Inside(name) <=> s = Inside(name))
      BY <2>4, MovesInside
    <3>2. a = b + (IF s = Inside(name) THEN 1 ELSE 0) BY <2>1, <2>3, <2>5, <3>1
    <3>3. Open(name) # Close(name) BY PiecesDiffer
    <3>4. CASE p = Open(name)
      <4>1. c = a + 1 /\ d = b /\ a = b /\ w[k] = Inside(name) BY <2>6, <2>7, <3>1, <3>2, <3>3, <3>4
      <4> QED BY <2>7, <4>1
    <3>5. CASE p = Close(name)
      <4>1. c = a /\ d = b + 1 /\ a = b + 1 /\ w[k] # Inside(name) BY <2>6, <2>7, <3>1, <3>2, <3>3, <3>5
      <4> QED BY <2>7, <4>1
    <3>6. CASE p \notin {Open(name), Close(name)}
      <4>1. c = a /\ d = b BY <2>6, <2>7, <3>6
      <4> QED BY <3>1, <3>2, <3>6, <4>1
    <3> QED BY <3>4, <3>5, <3>6
  <2>9. even(k) BY <2>5, <2>6, <2>7, <2>8
  <2> HIDE DEF even
  <2> QED BY <1>6, <2>2, <2>9
<1>9. 0..n \subseteq S
  <2> HIDE DEF even
  <2> QED BY <1>7, <1>8, Counting
<1>10. n \in S /\ n \in 0..n BY <1>9
<1>11. even(n) BY <1>6, <1>10
<1>12. w[n] \in {"after_think", "end"} BY <1>1, <1>2
<1>13. w[n] # "invalid" /\ w[n] # Inside(name) BY <1>12 DEF Inside, TagNames
<1>14. Cardinality(closed(n)) \in Nat BY <1>11, FS_CardinalityType
<1> QED BY <1>11, <1>13, <1>14

\* A text is valid if it leads to the end.
LEMMA ValidIsEnd ==
    ASSUME NEW t \in Seq(Pieces)
    PROVE  IsValidSequence(t) <=> EndState(t) = "end"
BY AcceptedBalanced DEF IsValidSequence

\* A text that thinks last answers nowhere.
LEMMA ThinkingAnswersNot ==
    ASSUME NEW t \in Seq(Pieces), EndState(t) = "after_think"
    PROVE  Open("answer") \notin ToSet(t)
<1>1. PICK w : Walk(w, "start", t) /\ w[Len(t)] = EndState(t) BY EndStateLeads DEF Leads
<1>2. PICK n \in Nat : n = Len(t) OBVIOUS
<1>3. w \in [0..n -> States] /\ \A k \in 1..n : w[k] = Moves(w[k - 1], t[k]) BY <1>1, <1>2 DEF Walk
<1>4. DOMAIN t = 1..n /\ \A k \in 1..n : t[k] \in Pieces BY <1>2
<1>5. SUFFICES ASSUME NEW i \in 1..n, t[i] = Open("answer") PROVE FALSE BY <1>4 DEF ToSet
<1> DEFINE Answering == {"in_answer", "end", "invalid"}
<1>6. ASSUME NEW s \in Answering, NEW p \in Pieces PROVE Moves(s, p) \in Answering
  <2>1. s \in States BY DEF States
  <2> QED BY <2>1, PieceCases, MovesTable DEF ContentAllowed
<1>7. PICK S : S = {k \in 0..n : k >= i => w[k] \in Answering} OBVIOUS
<1>8. 0 \in S BY <1>7
<1>9. ASSUME NEW k \in 1..n, k - 1 \in S PROVE k \in S
  <2>1. k \in 0..n /\ k - 1 \in 0..n /\ w[k - 1] \in States BY <1>3
  <2>2. CASE k < i BY <1>7, <2>1, <2>2
  <2>3. CASE k = i
    <3>1. w[k] = Moves(w[k - 1], Open("answer")) BY <1>3, <1>5, <2>3
    <3>2. w[k] \in Answering BY <2>1, <3>1, MovesTable
    <3> QED BY <1>7, <2>1, <3>2
  <2>4. CASE k > i
    <3>1. k - 1 >= i BY <2>4
    <3>2. w[k - 1] \in Answering BY <1>7, <1>9, <3>1
    <3>3. w[k] \in Answering BY <1>3, <1>4, <1>6, <3>2
    <3> QED BY <1>7, <2>1, <3>3
  <2> QED BY <2>2, <2>3, <2>4
<1>10. 0..n \subseteq S
  <2> HIDE DEF Answering
  <2> QED BY <1>8, <1>9, Counting
<1>11. n \in S /\ n >= i BY <1>10
<1>12. w[n] \in Answering BY <1>7, <1>11
<1> QED BY <1>1, <1>2, <1>12

---------------------------------------------------------------------------
(* The transcript of a rollout: where it leads in every place of step. *)

\* InsertsNoTag, for servers that search by a method.
NoTag(m, q) == q # NoQuery => TagFree(Raw[q]) /\ TagFree(Documents(Search(m, q, TopK)))

\* A turn that may be followed by another one; turns that all are, and whose searches
\* insert no tag.
Proper(o) == EndState(o.text) = "after_think" /\ Len(o.calls) = 1
Formed(said) == \A i \in DOMAIN said : Proper(said[i])
Plain(m, said) == \A i \in DOMAIN said : NoTag(m, said[i].calls[1])

\* A text that goes on is where it should be if its turns are well-formed, unless a
\* search has inserted a tag; otherwise it is lost.
Reads(m, said, t, state) ==
    /\ EndState(t) \in {state, "invalid"}
    /\ ~Formed(said) => EndState(t) = "invalid"
    /\ Formed(said) /\ Plain(m, said) => EndState(t) = state

\* The verdict on a text that is complete.
Ended(said) ==
    /\ \A i \in 1..(Len(said) - 1) : Proper(said[i])
    /\ EndState(said[Len(said)].text) = "end" /\ said[Len(said)].calls = <<>>
Judged(m, said, t) ==
    /\ Len(said) > 0
    /\ EndState(t) = "end" => Ended(said)
    /\ Ended(said) /\ (\A i \in 1..(Len(said) - 1) : NoTag(m, said[i].calls[1])) => EndState(t) = "end"

Standing(m, place, said, t) ==
    CASE place = "model" -> Reads(m, said, t, IF said = <<>> THEN "start" ELSE "information")
      [] place \in {"search", "append"} ->
           Len(said) > 0 /\ said[Len(said)].calls # <<>> /\ Reads(m, said, t, "after_search")
      [] OTHER -> Judged(m, said, t)

\* A message fits the turns it follows: after well-formed ones only the tags of a search
\* are in it.
Follows(m, said, message) ==
    \E body \in Seq(Pieces) :
        message = Information(body) /\ (Formed(said) /\ Plain(m, said) => TagFree(body))

Transcript(r) ==
    /\ text[r] \in Seq(Pieces)
    /\ Standing(method, at[r], outputs[r], text[r])
    /\ at[r] = "search" =>
         request[r].query = outputs[r][Len(outputs[r])].calls[1] /\ request[r].query # NoQuery
    /\ at[r] = "append" => Follows(method, outputs[r], result[r])

TextInv == DOMAIN text = Rollouts /\ \A r \in Rollouts : Transcript(r)

\* A rollout keeps its transcript while other rollouts step.
LEMMA OneWrites ==
    ASSUME NEW r \in Rollouts, TextInv, DOMAIN text' = Rollouts, Transcript(r)', method' = method,
           \A q \in Rollouts \ {r} : /\ text'[q] = text[q] /\ at'[q] = at[q]
                                     /\ outputs'[q] = outputs[q] /\ result'[q] = result[q]
                                     /\ request'[q] = request[q]
    PROVE  TextInv'
<1>1. ASSUME NEW q \in Rollouts PROVE Transcript(q)'
  <2>1. CASE q = r BY <2>1
  <2>2. CASE q # r BY <2>2 DEF TextInv, Transcript
  <2> QED BY <2>1, <2>2
<1> QED BY <1>1 DEF TextInv

\* Nothing was said before the first turn.
LEMMA TextInit == Init => TextInv
<1> SUFFICES ASSUME Init PROVE TextInv OBVIOUS
<1>0. DOMAIN text = Rollouts BY DEF Init
<1> SUFFICES ASSUME NEW r \in Rollouts PROVE Transcript(r) BY <1>0 DEF TextInv
<1>1. text[r] = <<>> /\ at[r] = "model" /\ outputs[r] = <<>> BY DEF Init
<1>2. <<>> \in Seq(Pieces) /\ Len(<<>>) = 0 OBVIOUS
<1>3. "start" \in States BY DEF States
<1>4. \A k \in 1..0 : FALSE OBVIOUS
<1>5. Leads("start", <<>>, "start")
  <2>1. \A k \in 1..Len(<<>>) : Moves("start", <<>>[k]) = "start" BY <1>2, <1>4
  <2> QED BY <1>2, <1>3, <2>1, LeadsNowhere
<1>6. EndState(<<>>) = "start" BY <1>2, <1>5, EndStateIs
<1>7. Formed(<<>>) BY DEF Formed
<1>8. Standing(method, "model", <<>>, <<>>) BY <1>6, <1>7 DEF Standing, Reads
<1> QED BY <1>1, <1>2, <1>8 DEF Transcript

\* One turn more.
LEMMA FormedGrows ==
    ASSUME NEW S, NEW said \in Seq(S), NEW o \in S, NEW more, more = Append(said, o), NEW m
    PROVE  /\ Formed(more) <=> Formed(said) /\ Proper(o)
           /\ Plain(m, more) <=> Plain(m, said) /\ NoTag(m, o.calls[1])
           /\ Len(more) > 0 /\ more[Len(more)] = o
           /\ (\A i \in 1..(Len(more) - 1) : Proper(more[i])) <=> Formed(said)
           /\ (\A i \in 1..(Len(more) - 1) : NoTag(m, more[i].calls[1])) <=> Plain(m, said)
<1>1. PICK n \in Nat : n = Len(said) OBVIOUS
<1>2. /\ Len(more) = n + 1 /\ more[n + 1] = o /\ DOMAIN more = 1..(n + 1)
      /\ DOMAIN said = 1..n /\ \A i \in 1..n : more[i] = said[i]
  BY <1>1
<1>3. (n + 1) - 1 = n /\ n + 1 > 0 OBVIOUS
<1>4. (\A i \in 1..(Len(more) - 1) : Proper(more[i])) <=> Formed(said)
  BY <1>2, <1>3, Zenon DEF Formed
<1>5. (\A i \in 1..(Len(more) - 1) : NoTag(m, more[i].calls[1])) <=> Plain(m, said)
  BY <1>2, <1>3, Zenon DEF Plain
<1>6. \A i : i \in 1..(n + 1) <=> i \in 1..n \/ i = n + 1 OBVIOUS
<1>7. Formed(more) <=> Formed(said) /\ Proper(o)
  BY <1>2, <1>6, Zenon DEF Formed
<1>8. Plain(m, more) <=> Plain(m, said) /\ NoTag(m, o.calls[1])
  BY <1>2, <1>6, Zenon DEF Plain
<1> QED BY <1>2, <1>4, <1>5, <1>7, <1>8

\* Where a turn leads, after turns that led where the model was asked to go on.
LEMMA TurnLeads ==
    ASSUME NEW r \in Rollouts, Counted, Transcript(r), at[r] = "model", NEW o \in Says[r],
           NEW t, t = text[r] \o CompatibleOutput(o), NEW more, more = Append(outputs[r], o)
    PROVE  /\ t \in Seq(Pieces)
           /\ o.calls = <<>> =>
                /\ EndState(t) = "end" => Formed(outputs[r]) /\ EndState(o.text) = "end"
                /\ Formed(outputs[r]) /\ Plain(method, outputs[r]) /\ EndState(o.text) = "end" =>
                     EndState(t) = "end"
           /\ o.calls # <<>> => Reads(method, more, t, "after_search")
<1>1. PICK before \in Seq(Pieces) : before = text[r] BY DEF Transcript
<1>2. PICK said \in Seq(Pieces) : said = o.text BY GenerationAssumption
<1>3. o.calls \in Seq(Queries) BY GenerationAssumption DEF Queries
<1>4. PICK s \in States : s = EndState(before) /\ Leads("start", before, s) BY EndStateLeads
<1>5. PICK e \in States : e = EndState(said) /\ Leads("start", said, e) BY EndStateLeads
<1>6. PICK f \in States : Leads(s, said, f) BY LeadsSomewhere
<1>7. PICK fine, plain : fine = Formed(outputs[r]) /\ plain = Plain(method, outputs[r]) OBVIOUS
<1>8. /\ s \in {"start", "information", "invalid"}
      /\ ~fine => s = "invalid"
      /\ fine /\ plain => s # "invalid"
  BY <1>1, <1>4, <1>7 DEF Transcript, Standing, Reads
<1>9. s = "invalid" => f = "invalid" BY <1>6, LeadsInvalid, LeadsUnique
<1>10. s = "start" => f = e BY <1>5, <1>6, LeadsUnique
<1>11. s = "information" => f = e \/ (e = "start" /\ f = "information")
  BY <1>5, <1>6, LeadsAfterInformation
<1>12. /\ f \in {"end", "after_think"} => fine /\ e = f
       /\ fine /\ plain /\ e \in {"end", "after_think"} => f = e
  BY <1>8, <1>9, <1>10, <1>11
<1>13. PICK w : w = CompatibleOutput(o) OBVIOUS
<1>14. /\ w \in Seq(Pieces)
       /\ o.calls = <<>> => w = said
       /\ o.calls # <<>> =>
            \E g \in {"after_search", "invalid"} :
              /\ Leads(s, w, g)
              /\ ~(f = "after_think" /\ Len(o.calls) = 1) => g = "invalid"
              /\ f = "after_think" /\ Len(o.calls) = 1 /\ TagFree(Asked(o.calls[1])) => g = "after_search"
  BY <1>2, <1>3, <1>6, <1>13, LeadsCompatible
<1>15. t = before \o w BY <1>1, <1>13
<1>16. t \in Seq(Pieces) BY <1>14, <1>15
<1>17. CASE o.calls = <<>>
  <2>1. Leads("start", t, f) BY <1>4, <1>6, <1>14, <1>15, <1>17, LeadsConcat
  <2>2. EndState(t) = f BY <1>16, <2>1, EndStateIs
  <2> QED BY <1>2, <1>5, <1>7, <1>12, <1>16, <1>17, <2>2
<1>18. CASE o.calls # <<>>
  <2>1. PICK g \in {"after_search", "invalid"} :
          /\ Leads(s, w, g)
          /\ ~(f = "after_think" /\ Len(o.calls) = 1) => g = "invalid"
          /\ f = "after_think" /\ Len(o.calls) = 1 /\ TagFree(Asked(o.calls[1])) => g = "after_search"
    BY <1>14, <1>18
  <2>2. Leads("start", t, g) BY <1>4, <1>14, <1>15, <2>1, LeadsConcat
  <2>3. EndState(t) = g BY <1>16, <2>2, EndStateIs
  <2>4. TagFree(<<>>) BY DEF TagFree
  <2>5. NoTag(method, o.calls[1]) => TagFree(Asked(o.calls[1])) BY <2>4 DEF NoTag, Asked
  <2>6. /\ Formed(more) <=> fine /\ Proper(o)
        /\ Plain(method, more) <=> plain /\ NoTag(method, o.calls[1])
    <3>1. PICK S : S = Says[r] OBVIOUS
    <3>2. PICK list \in Seq(S) : list = outputs[r] BY <3>1 DEF Counted
    <3>3. list \in Seq(S) /\ o \in S /\ more = Append(list, o) BY <3>1, <3>2
    <3>4. Formed(more) <=> Formed(list) /\ Proper(o) BY <3>3, FormedGrows
    <3>5. PICK m : m = method OBVIOUS
    <3>6. Plain(m, more) <=> Plain(m, list) /\ NoTag(m, o.calls[1]) BY ONLY <3>3, FormedGrows
    <3> QED BY <1>7, <3>2, <3>4, <3>5, <3>6
  <2>7. Proper(o) <=> e = "after_think" /\ Len(o.calls) = 1 BY <1>2, <1>5 DEF Proper
  <2>8. ~Formed(more) => g = "invalid" BY <1>12, <2>1, <2>6, <2>7
  <2>9. Formed(more) /\ Plain(method, more) => g = "after_search" BY <1>12, <2>1, <2>5, <2>6, <2>7
  <2>10. Reads(method, more, t, "after_search") BY <2>1, <2>3, <2>8, <2>9 DEF Reads
  <2> QED BY <1>16, <1>18, <2>10
<1> QED BY <1>17, <1>18

\* The notes of the environment follow what they are about: the one that says <answer>
\* only a turn that says it too.
LEMMA NotesFollow ==
    ASSUME NEW m, NEW said, NEW o, o.text \in Seq(Pieces), Formed(said) => Proper(o)
    PROVE  Follows(m, said, IF HasAnswerTag(o) THEN CoexistenceNote ELSE Note)
<1>1. Content("note") \in Pieces BY CorpusAssumption DEF Pieces
<1>2. CASE HasAnswerTag(o)
  <2>1. ~Formed(said) BY <1>2, ThinkingAnswersNot DEF HasAnswerTag, Proper
  <2>2. Open("answer") \in Pieces BY DEF Pieces, TagNames
  <2>3. PICK body : body = <<Content("note"), Open("answer"), Content("note")>> OBVIOUS
  <2>4. body \in Seq(Pieces) BY <1>1, <2>2, <2>3
  <2>5. CoexistenceNote = Information(body) BY <2>3 DEF CoexistenceNote
  <2> QED BY <1>2, <2>1, <2>4, <2>5 DEF Follows
<1>3. CASE ~HasAnswerTag(o)
  <2>1. PICK body : body = <<Content("note")>> OBVIOUS
  <2>2. body \in Seq(Pieces) BY <1>1, <2>1
  <2>3. TagFree(body)
    <3>1. DOMAIN body = {1} /\ body[1] = Content("note") BY <2>1
    <3> QED BY <3>1 DEF TagFree, Content
  <2>4. Note = Information(body) BY <2>1 DEF Note
  <2> QED BY <1>3, <2>2, <2>3, <2>4 DEF Follows
<1> QED BY <1>2, <1>3

\* So does the note about a search that failed.
LEMMA FailureFollows ==
    ASSUME NEW m, NEW said
    PROVE  Follows(m, said, Note)
<1>1. Content("note") \in Pieces BY CorpusAssumption DEF Pieces
<1>2. PICK body : body = <<Content("note")>> OBVIOUS
<1>3. body \in Seq(Pieces) BY <1>1, <1>2
<1>4. TagFree(body)
  <2>1. DOMAIN body = {1} /\ body[1] = Content("note") BY <1>2
  <2> QED BY <2>1 DEF TagFree, Content
<1>5. Note = Information(body) BY <1>2 DEF Note
<1> QED BY <1>3, <1>4, <1>5 DEF Follows

\* What a search gives follows the turn that asked for it.
LEMMA DocumentsFollow ==
    ASSUME NEW m, NEW q \in DOMAIN Hits, q # NoQuery, NEW S, NEW said \in Seq(S), Len(said) > 0,
           said[Len(said)].calls[1] = q
    PROVE  Follows(m, said, Information(Documents(Search(m, q, TopK))))
<1>1. {Hits[q].all, Hits[q].matching} \subseteq Seq(DOMAIN Raw) /\ TopK \in Nat BY CorpusAssumption
<1>2. PICK list \in Seq(DOMAIN Raw) : list = IF m = "bm25" THEN Hits[q].matching ELSE Hits[q].all
  BY <1>1
<1>3. PICK n \in Nat : n = (IF Len(list) < TopK THEN Len(list) ELSE TopK) /\ n <= Len(list) BY <1>1
<1>4. PICK docs : docs = Search(m, q, TopK) OBVIOUS
<1>5. docs = SubSeq(list, 1, n) BY <1>2, <1>3, <1>4 DEF Search
<1>6. docs \in Seq(DOMAIN Raw) BY <1>3, <1>5
<1>7. Documents(docs) \in Seq(Pieces) BY <1>6, InsertedIsText
<1>8. Plain(m, said) => TagFree(Documents(docs))
  <2>1. Len(said) \in DOMAIN said OBVIOUS
  <2>2. Plain(m, said) => NoTag(m, q) BY <2>1 DEF Plain
  <2> QED BY <1>4, <2>2 DEF NoTag
<1> QED BY <1>4, <1>7, <1>8 DEF Follows

\* A turn leads on from where the text led.
LEMMA TurnWrites ==
    ASSUME NEW r \in Rollouts, Counted, TextInv, Turn(r)
    PROVE  TextInv'
<1>1. PICK o \in Says[r] :
        \E k \in {tokens[r] + o.len}, said \in {CompatibleOutput(o)} :
           Steps(r, o, IF k < MaxLength THEN k + o.boundary ELSE k, said)
  BY DEF Turn
<1>2. PICK n : Steps(r, o, n, CompatibleOutput(o)) BY <1>1
<1>3. at[r] = "model" /\ Transcript(r) /\ DOMAIN text = Rollouts /\ method' = method BY DEF Turn, TextInv
<1>4. /\ outputs' = [outputs EXCEPT ![r] = Append(@, o)]
      /\ text' = [text EXCEPT ![r] = @ \o CompatibleOutput(o)]
  BY <1>2 DEF Steps
<1>0. outputs[r] \in Seq(Says[r]) BY DEF Counted
<1>5. PICK list, more, t :
        /\ list \in Seq(Says[r]) /\ list = outputs[r]
        /\ more = Append(list, o) /\ t = text[r] \o CompatibleOutput(o)
  BY <1>0
<1>6. /\ outputs'[r] = more /\ text'[r] = t /\ DOMAIN text' = Rollouts
      /\ \A q \in Rollouts \ {r} : outputs'[q] = outputs[q] /\ text'[q] = text[q]
  BY <1>3, <1>4, <1>5 DEF Counted
<1>7. /\ t \in Seq(Pieces)
      /\ o.calls = <<>> =>
           /\ EndState(t) = "end" => Formed(list) /\ EndState(o.text) = "end"
           /\ Formed(list) /\ Plain(method, list) /\ EndState(o.text) = "end" => EndState(t) = "end"
      /\ o.calls # <<>> => Reads(method, more, t, "after_search")
  BY <1>3, <1>5, TurnLeads
<1>8. /\ Formed(more) <=> Formed(list) /\ Proper(o)
      /\ Len(more) > 0 /\ more[Len(more)] = o
      /\ (\A i \in 1..(Len(more) - 1) : Proper(more[i])) <=> Formed(list)
      /\ (\A i \in 1..(Len(more) - 1) : NoTag(method, more[i].calls[1])) <=> Plain(method, list)
  <2>1. PICK S : S = Says[r] OBVIOUS
  <2>2. list \in Seq(S) /\ o \in S /\ more = Append(list, o) BY <1>5, <2>1
  <2>3. /\ Formed(more) <=> Formed(list) /\ Proper(o)
        /\ Len(more) > 0 /\ more[Len(more)] = o
        /\ (\A i \in 1..(Len(more) - 1) : Proper(more[i])) <=> Formed(list)
    BY <2>2, FormedGrows
  <2>4. (\A i \in 1..(Len(more) - 1) : NoTag(method, more[i].calls[1])) <=> Plain(method, list)
    BY <2>2, FormedGrows
  <2> QED BY <2>3, <2>4
<1>9. CASE Ends(r, o, n)
  <2>1. at' = [at EXCEPT ![r] = "score"] /\ result' = result /\ request' = request BY <1>2, <1>9 DEF Steps
  <2>2. at'[r] = "score" /\ \A q \in Rollouts \ {r} : at'[q] = at[q] BY <2>1 DEF Counted
  <2>3. Ended(more) <=> Formed(list) /\ EndState(o.text) = "end" /\ o.calls = <<>> BY <1>8 DEF Ended
  <2>4. o.calls # <<>> => EndState(t) # "end" BY <1>7 DEF Reads
  <2>5. Judged(method, more, t) BY <1>7, <1>8, <2>3, <2>4 DEF Judged
  <2>6. Standing(method, "score", more, t) BY <2>5 DEF Standing
  <2>7. Transcript(r)' BY <1>3, <1>6, <1>7, <2>2, <2>6 DEF Transcript
  <2> QED BY <1>3, <1>6, <2>1, <2>2, <2>7, OneWrites
<1>10. CASE ~Ends(r, o, n)
  <2>1. o.calls # <<>> BY <1>10 DEF Ends
  <2>2. Reads(method, more, t, "after_search") BY <1>7, <2>1
  <2>3. CASE Declined(r, o)
    <3>1. PICK note : note = IF HasAnswerTag(o) THEN CoexistenceNote ELSE Note OBVIOUS
    <3>2. /\ at' = [at EXCEPT ![r] = "append"] /\ request' = request
          /\ result' = [result EXCEPT ![r] = note]
      BY <1>2, <1>10, <2>3, <3>1 DEF Steps
    <3>3. /\ at'[r] = "append" /\ result'[r] = note
          /\ \A q \in Rollouts \ {r} : at'[q] = at[q] /\ result'[q] = result[q]
      BY <3>2 DEF Counted
    <3>4. o.text \in Seq(Pieces) BY GenerationAssumption
    <3>5. Follows(method, more, note) BY <1>8, <3>1, <3>4, NotesFollow
    <3>6. Standing(method, "append", more, t) BY <1>8, <2>1, <2>2 DEF Standing
    <3>7. Transcript(r)' BY <1>3, <1>6, <1>7, <3>3, <3>5, <3>6 DEF Transcript
    <3> QED BY <1>3, <1>6, <3>2, <3>3, <3>7, OneWrites
  <2>4. CASE ~Declined(r, o)
    <3>1. /\ at' = [at EXCEPT ![r] = "search"] /\ result' = result
          /\ StartAttempt(r, o.calls[1], 0)
      BY <1>2, <1>10, <2>4 DEF Steps
    <3>2. request' = [request EXCEPT ![r] = [stage |-> "pool", attempt |-> 0, query |-> o.calls[1],
                                             server |-> cycle + 1]]
      BY <3>1 DEF StartAttempt
    <3>3. /\ at'[r] = "search" /\ request'[r].query = o.calls[1]
          /\ \A q \in Rollouts \ {r} : at'[q] = at[q] /\ request'[q] = request[q]
      BY <3>1, <3>2 DEF Counted
    <3>4. o.calls[1] # NoQuery BY <2>4 DEF Declined
    <3>5. Standing(method, "search", more, t) BY <1>8, <2>1, <2>2 DEF Standing
    <3>6. Transcript(r)' BY <1>3, <1>6, <1>7, <1>8, <3>3, <3>4, <3>5 DEF Transcript
    <3> QED BY <1>3, <1>6, <3>1, <3>3, <3>6, OneWrites
  <2> QED BY <2>3, <2>4
<1> QED BY <1>9, <1>10

\* A message follows a search; without one the text does not end.
LEMMA AppendResultWrites ==
    ASSUME NEW r \in Rollouts, Counted, TextInv, AppendResult(r)
    PROVE  TextInv'
<1>1. at[r] = "append" /\ Transcript(r) /\ DOMAIN text = Rollouts BY DEF AppendResult, TextInv
<1>2. /\ outputs' = outputs /\ result' = [result EXCEPT ![r] = <<>>]
      /\ method' = method /\ request' = request
  BY DEF AppendResult
<1>3. PICK said, t : said = outputs[r] /\ t = text[r] /\ t \in Seq(Pieces) BY <1>1 DEF Transcript
<1>4. Len(said) > 0 /\ said[Len(said)].calls # <<>> /\ Reads(method, said, t, "after_search")
  BY <1>1, <1>3 DEF Transcript, Standing
<1>5. PICK body \in Seq(Pieces) :
        result[r] = Information(body) /\ (Formed(said) /\ Plain(method, said) => TagFree(body))
  BY <1>1, <1>3 DEF Transcript, Follows
<1>6. \A q \in Rollouts \ {r} : outputs'[q] = outputs[q] /\ result'[q] = result[q] /\ request'[q] = request[q]
  BY <1>2 DEF Counted
<1>7. CASE at' = [at EXCEPT ![r] = "score"] /\ text' = text
  <2>1. at'[r] = "score" /\ \A q \in Rollouts \ {r} : at'[q] = at[q] BY <1>7 DEF Counted
  <2>2. EndState(t) # "end" /\ ~Ended(said) BY <1>4 DEF Reads, Ended
  <2>3. Judged(method, said, t) BY <1>4, <2>2 DEF Judged
  <2>4. Standing(method, "score", said, t) BY <2>3 DEF Standing
  <2>5. Transcript(r)' BY <1>2, <1>3, <1>7, <2>1, <2>4 DEF Transcript
  <2> QED BY <1>1, <1>2, <1>6, <1>7, <2>1, <2>5, OneWrites
<1>8. CASE at' = [at EXCEPT ![r] = "model"] /\ text' = [text EXCEPT ![r] = @ \o result[r]]
  <2>1. at'[r] = "model" /\ \A q \in Rollouts \ {r} : at'[q] = at[q] BY <1>8 DEF Counted
  <2>2. PICK m : m = Information(body) OBVIOUS
  <2>3. m \in Seq(Pieces)
    <3>1. "information" \in TagNames BY DEF TagNames
    <3> QED BY <2>2, <3>1, BlockIsText DEF Information
  <2>4. PICK more : more = t \o m OBVIOUS
  <2>5. more \in Seq(Pieces) BY <1>3, <2>3, <2>4
  <2>6. PICK s \in States : s = EndState(t) /\ Leads("start", t, s) BY <1>3, EndStateLeads
  <2>7. PICK e \in {"information", "invalid"} :
          /\ Leads(s, m, e)
          /\ s # "after_search" => e = "invalid"
          /\ s = "after_search" /\ TagFree(body) => e = "information"
    BY <2>2, LeadsInformation
  <2>8. Leads("start", more, e) BY <1>3, <2>3, <2>4, <2>6, <2>7, LeadsConcat
  <2>9. EndState(more) = e BY <2>5, <2>8, EndStateIs
  <2>10. said # <<>>
    <3>1. Len(<<>>) = 0 OBVIOUS
    <3> QED BY <1>4, <3>1
  <2>11. Reads(method, said, more, "information")
    <3>1. ~Formed(said) => e = "invalid" BY <1>4, <2>6, <2>7 DEF Reads
    <3>2. Formed(said) /\ Plain(method, said) => e = "information" BY <1>4, <1>5, <2>6, <2>7 DEF Reads
    <3> QED BY <2>7, <2>9, <3>1, <3>2 DEF Reads
  <2>12. Standing(method, "model", said, more) BY <2>10, <2>11 DEF Standing
  <2>13. /\ text'[r] = more /\ DOMAIN text' = Rollouts
         /\ \A q \in Rollouts \ {r} : text'[q] = text[q]
    BY <1>1, <1>3, <1>5, <1>8, <2>2, <2>4
  <2>14. Transcript(r)' BY <1>2, <1>3, <2>1, <2>5, <2>12, <2>13 DEF Transcript
  <2> QED BY <1>2, <1>6, <2>1, <2>13, <2>14, OneWrites
<1> QED BY <1>7, <1>8 DEF AppendResult

\* What happens between the turns leaves the text alone.
LEMMA OthersWrite ==
    ASSUME NEW r \in Rollouts, Counted, TextInv, UNCHANGED <<text, outputs, method>>,
           NEW place, at' = [at EXCEPT ![r] = place],
           \/ at[r] = "search" /\ place = "append" /\ Follows(method, outputs[r], result'[r])
           \/ at[r] = "score" /\ place = "done",
           \A q \in Rollouts \ {r} : result'[q] = result[q] /\ request'[q] = request[q]
    PROVE  TextInv'
<1>1. Transcript(r) /\ DOMAIN text = Rollouts BY DEF TextInv
<1>2. at'[r] = place /\ \A q \in Rollouts \ {r} : at'[q] = at[q] BY DEF Counted
<1>3. Standing(method, place, outputs[r], text[r]) BY <1>1 DEF Transcript, Standing
<1>4. Transcript(r)' BY <1>1, <1>2, <1>3 DEF Transcript
<1> QED BY <1>1, <1>2, <1>4, OneWrites

\* A request that goes on asks what it asked.
LEMMA RequestsKept ==
    ASSUME NEW r \in Rollouts, TextInv, UNCHANGED <<env, method>>, request'[r].query = request[r].query,
           \A q \in Rollouts \ {r} : request'[q] = request[q]
    PROVE  TextInv'
<1>1. UNCHANGED <<text, at, outputs, result>> BY DEF env
<1>2. \A q \in Rollouts : request'[q].query = request[q].query OBVIOUS
<1> QED BY <1>1, <1>2 DEF TextInv, Transcript

\* Whatever any rollout and the shared client do, the transcripts stand.
LEMMA TextNext == SearchInv /\ TextInv /\ [Next]_vars => TextInv'
<1> SUFFICES ASSUME SearchInv, TextInv, [Next]_vars PROVE TextInv' OBVIOUS
<1>1. Counted BY DEF SearchInv
<1>2. ASSUME NEW r \in Rollouts, Turn(r) PROVE TextInv' BY <1>1, <1>2, TurnWrites
<1>3. ASSUME NEW r \in Rollouts, AppendResult(r) PROVE TextInv' BY <1>1, <1>3, AppendResultWrites
<1>4. ASSUME NEW r \in Rollouts, Finish(r) PROVE TextInv'
  <2>1. /\ at[r] = "score" /\ at' = [at EXCEPT ![r] = "done"]
        /\ UNCHANGED <<text, outputs, result, request, method>>
    BY <1>4 DEF Finish
  <2> QED BY <1>1, <2>1, OthersWrite
<1>5. ASSUME UNCHANGED <<env, request, method>> PROVE TextInv'
  BY <1>5 DEF env, TextInv, Transcript
<1>6. ASSUME NEW r \in Rollouts, Answered(r) PROVE TextInv'
  <2>1. at[r] = "search" /\ request[r].query \in DOMAIN Hits
    <3>1. request[r].stage \in {"pool", "posted", "sleep"} BY <1>6 DEF Answered
    <3> QED BY <3>1, Waits
  <2>2. PICK docs : docs = Search(method, request[r].query, TopK) OBVIOUS
  <2>3. RetrieveEndpoint(method, request[r].query, TopK) = docs BY <2>1, <2>2, AnswerIsOfTheQuery
  <2>4. /\ at' = [at EXCEPT ![r] = "append"] /\ UNCHANGED <<text, outputs, method>>
        /\ request' = [request EXCEPT ![r] = NoRequest]
        /\ result' = [result EXCEPT ![r] =
                        Information(Documents(RetrieveEndpoint(method, request[r].query, TopK)))]
    BY <1>6 DEF Answered
  <2>5. /\ result'[r] = Information(Documents(docs))
        /\ \A q \in Rollouts \ {r} : result'[q] = result[q] /\ request'[q] = request[q]
    BY <1>1, <2>3, <2>4 DEF Counted
  <2>6. PICK said \in Seq(Says[r]) : said = outputs[r] BY <1>1 DEF Counted
  <2>7. Len(said) > 0 /\ said[Len(said)].calls[1] = request[r].query /\ request[r].query # NoQuery
    BY <2>1, <2>6 DEF TextInv, Transcript, Standing
  <2>8. Follows(method, outputs[r], result'[r]) BY <2>1, <2>2, <2>5, <2>6, <2>7, DocumentsFollow
  <2> QED BY <1>1, <2>1, <2>4, <2>5, <2>8, OthersWrite
<1>7. ASSUME NEW r \in Rollouts, AttemptFails(r) PROVE TextInv'
  <2>1. at[r] = "search"
    <3>1. request[r].stage \in {"pool", "posted", "sleep"} BY <1>7 DEF AttemptFails
    <3> QED BY <3>1, Waits
  <2>2. CASE request[r].attempt + 1 < MaxAttempts
    <3>1. /\ request' = [request EXCEPT ![r] = [stage |-> "sleep", attempt |-> @.attempt + 1,
                                                  query |-> @.query, server |-> @.server]]
          /\ UNCHANGED <<env, method>>
      BY <1>7, <2>2 DEF AttemptFails
    <3>2. request'[r].query = request[r].query /\ \A q \in Rollouts \ {r} : request'[q] = request[q]
      BY <1>1, <3>1 DEF Counted
    <3> QED BY <3>1, <3>2, RequestsKept
  <2>3. CASE ~(request[r].attempt + 1 < MaxAttempts)
    <3>1. /\ at' = [at EXCEPT ![r] = "append"] /\ UNCHANGED <<text, outputs, method>>
          /\ result' = [result EXCEPT ![r] = Note] /\ request' = [request EXCEPT ![r] = NoRequest]
      BY <1>7, <2>3 DEF AttemptFails
    <3>2. /\ result'[r] = Note
          /\ \A q \in Rollouts \ {r} : result'[q] = result[q] /\ request'[q] = request[q]
      BY <1>1, <3>1 DEF Counted
    <3>3. Follows(method, outputs[r], result'[r]) BY <3>2, FailureFollows
    <3> QED BY <1>1, <2>1, <3>1, <3>2, <3>3, OthersWrite
  <2> QED BY <2>2, <2>3
<1>8. ASSUME NEW r \in Rollouts, GetConnection(r) PROVE TextInv'
  <2>1. request' = [request EXCEPT ![r].stage = "posted"] /\ UNCHANGED <<env, method>>
    BY <1>8 DEF GetConnection
  <2>2. request'[r].query = request[r].query /\ \A q \in Rollouts \ {r} : request'[q] = request[q]
    BY <1>1, <2>1 DEF Counted
  <2> QED BY <2>1, <2>2, RequestsKept
<1>9. ASSUME NEW r \in Rollouts, Retry(r) PROVE TextInv'
  <2>1. /\ request' = [request EXCEPT ![r] = [stage |-> "pool", attempt |-> request[r].attempt,
                                                query |-> request[r].query, server |-> cycle + 1]]
        /\ UNCHANGED <<env, method>>
    BY <1>9 DEF Retry, StartAttempt
  <2>2. request'[r].query = request[r].query /\ \A q \in Rollouts \ {r} : request'[q] = request[q]
    BY <1>1, <2>1 DEF Counted
  <2> QED BY <2>1, <2>2, RequestsKept
<1>10. ASSUME Shutdown \/ UNCHANGED vars PROVE TextInv' BY <1>5, <1>10 DEF Shutdown, vars
<1> QED BY <1>2, <1>3, <1>4, <1>6, <1>7, <1>8, <1>9, <1>10 DEF Next

\* The verdict on the text of a rollout that is done is that on its turns.
LEMMA FormatHolds == SearchInv /\ TextInv => FormatFaithful
<1> SUFFICES ASSUME SearchInv, TextInv, NEW r \in Rollouts, at[r] = "done"
             PROVE  IF IsValidSequence(text[r]) THEN WellFormed(outputs[r])
                    ELSE WellFormed(outputs[r]) =>
                           \E i \in 1..(Len(outputs[r]) - 1) : ~InsertsNoTag(outputs[r][i].calls[1])
  BY DEF FormatFaithful
<1>1. Transcript(r) BY DEF TextInv
<1>2. PICK said : said = outputs[r] OBVIOUS
<1>3. IsValidSequence(text[r]) <=> EndState(text[r]) = "end" BY <1>1, ValidIsEnd DEF Transcript
<1>4. /\ EndState(text[r]) = "end" => Ended(said)
      /\ Ended(said) /\ (\A i \in 1..(Len(said) - 1) : NoTag(method, said[i].calls[1])) =>
           EndState(text[r]) = "end"
  BY <1>1, <1>2 DEF Transcript, Standing, Judged
<1>5. WellFormed(said) <=> Ended(said) BY DEF WellFormed, Ended, Proper, Last
<1>6. \A q : InsertsNoTag(q) <=> NoTag(method, q) BY DEF InsertsNoTag, NoTag
<1> QED BY <1>2, <1>3, <1>4, <1>5, <1>6

\* Search-R1: the verifier accepts the text of a rollout only if every turn is
\* well-formed by itself, whatever tags the queries and documents of the searches in
\* between hold; and it accepts it if they are and no search that was asked for can
\* insert a tag.  The notes of the environment make no difference.
THEOREM FormatKept == Spec => []FormatFaithful
<1>1. Init => SearchInv /\ TextInv BY SearchInit, TextInit
<1>2. SearchInv /\ TextInv /\ [Next]_vars => (SearchInv /\ TextInv)' BY SearchNext, TextNext
<1>3. SearchInv /\ TextInv => FormatFaithful BY FormatHolds
<1> QED BY <1>1, <1>2, <1>3, PTL DEF Spec
=============================================================================
