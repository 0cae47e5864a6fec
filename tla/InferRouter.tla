---------------------------- MODULE InferRouter ----------------------------
(***************************************************************************)
(* InferenceRouter (axrl/worker/infer_router.py): every turn of a rollout  *)
(* goes to the worker that holds the KV cache of its session, unless that  *)
(* worker is too far ahead of the least loaded one.                        *)
(*                                                                         *)
(* Nothing is awaited while _workload_update_lock is held, so each locked  *)
(* section is one action; the remote generate call lies between the one    *)
(* that assigns a request and the one that accounts for its end, and it    *)
(* may raise, in which case the second never runs.                         *)
(***************************************************************************)
EXTENDS Integers, FiniteSets, FiniteSetsExt

CONSTANTS
    NumWorkers,     \* remote workers, indexed from 1
    Sessions,       \* session ids
    Requests,       \* generate calls that can be in flight together
    MaxImbalance,   \* max_imbalance
    MaxCached       \* max_cached_session_ids (negative: no cleanup)

ASSUME RouterAssumption ==
    /\ NumWorkers \in Nat \ {0}
    /\ IsFiniteSet(Requests)
    /\ MaxImbalance \in Nat
    /\ MaxCached \in Int

VARIABLES
    workloads,          \* _workloads: worker |-> active requests
    session_worker,     \* _session_worker: cached session |-> worker
    session_count,      \* _session_count: cached session |-> active requests
    call                \* request |-> where its generate call is

router == <<workloads, session_worker, session_count, call>>

RemoteWorkers == 1..NumWorkers
NotSent == [st |-> "idle"]
Sent(st, s, w) == [st |-> st, session |-> s, worker |-> w]

RouterInit ==
    /\ workloads = [w \in RemoteWorkers |-> 0]
    /\ session_worker = [s \in {} |-> 0]
    /\ session_count = [s \in {} |-> 0]
    /\ call = [r \in Requests |-> NotSent]

---------------------------------------------------------------------------

\* int(np.argmin(workloads)): the first of the least loaded workers.
ArgMin == CHOOSE w \in RemoteWorkers :
    \A v \in RemoteWorkers :
        \/ workloads[w] < workloads[v]
        \/ workloads[w] = workloads[v] /\ w <= v

Put(f, x, y) == [z \in DOMAIN f \cup {x} |-> IF z = x THEN y ELSE f[z]]
Count(s) == IF s \in DOMAIN session_count THEN session_count[s] ELSE 0

\* The test that keeps a session on the worker that has its cache.
Prefers(s) ==
    /\ s \in DOMAIN session_worker
    /\ workloads[session_worker[s]] < workloads[ArgMin] + MaxImbalance

\* _drop_idle_session_worker_mapping, on given tables.
Busy(counts) == {s \in DOMAIN counts : counts[s] > 0}
Only(f, S) == [s \in DOMAIN f \cap S |-> f[s]]

\* The test of _cleanup_idle_session_worker_mapping_if_needed.
NeedsCleanup(table) == MaxCached >= 0 /\ Cardinality(DOMAIN table) >= MaxCached

\* generate up to the remote call: _assign_worker_index.  The session becomes
\* active before a cleanup, so the cleanup keeps it.
Assign(r, s) ==
    LET counts == Put(session_count, s, Count(s) + 1)
        table == Put(session_worker, s, ArgMin)
        w == IF Prefers(s) THEN session_worker[s] ELSE ArgMin
    IN /\ call[r] = NotSent
       /\ workloads' = [workloads EXCEPT ![w] = @ + 1]
       /\ call' = [call EXCEPT ![r] = Sent("active", s, w)]
       /\ IF ~Prefers(s) /\ NeedsCleanup(table)
            THEN /\ session_worker' = Only(table, Busy(counts))
                 /\ session_count' = Only(counts, Busy(counts))
            ELSE /\ session_worker' = IF Prefers(s) THEN session_worker ELSE table
                 /\ session_count' = counts

\* Slip: the request is taken off the session's latest worker.
FinishOnLatestWorker(r) ==
    /\ call[r].st = "active"
    /\ workloads' = [workloads EXCEPT ![session_worker[call[r].session]] = @ - 1]
    /\ session_count' = [session_count EXCEPT ![call[r].session] = @ - 1]
    /\ call' = [call EXCEPT ![r] = NotSent]
    /\ UNCHANGED session_worker

\* generate after the remote call: _on_conversations_finish.
OnConversationsFinish(r) ==
    /\ call[r].st = "active"
    /\ workloads' = [workloads EXCEPT ![call[r].worker] = @ - 1]
    /\ session_count' = [session_count EXCEPT ![call[r].session] = @ - 1]
    /\ call' = [call EXCEPT ![r] = NotSent]
    /\ UNCHANGED session_worker

\* The remote call raises: generate ends without _on_conversations_finish.
Raise(r) ==
    /\ call[r].st = "active"
    /\ call' = [call EXCEPT ![r].st = "raised"]
    /\ UNCHANGED <<workloads, session_worker, session_count>>

\* clear_session_worker_mapping, after release_gpu_memory or flush_cache.
ClearSessionWorkerMapping ==
    /\ session_worker' = Only(session_worker, Busy(session_count))
    /\ session_count' = Only(session_count, Busy(session_count))
    /\ UNCHANGED <<workloads, call>>

RouterNext ==
    \/ \E r \in Requests, s \in Sessions : Assign(r, s)
    \/ \E r \in Requests : OnConversationsFinish(r) \/ Raise(r)
    \/ ClearSessionWorkerMapping

RouterSpec == RouterInit /\ [][RouterNext]_router

---------------------------------------------------------------------------
(* Properties *)

\* Every variable keeps its type.
TypeOK ==
    /\ workloads \in [RemoteWorkers -> Nat]
    /\ DOMAIN session_worker \subseteq Sessions
    /\ \A s \in DOMAIN session_worker : session_worker[s] \in RemoteWorkers
    /\ DOMAIN session_count \subseteq Sessions
    /\ \A s \in DOMAIN session_count : session_count[s] \in Nat
    /\ call \in [Requests -> {NotSent} \cup
            {Sent(st, s, w) : st \in {"active", "raised"}, s \in Sessions, w \in RemoteWorkers}]

OnWorker(w) == {r \in Requests : call[r] # NotSent /\ call[r].worker = w}
OfSession(s) == {r \in Requests : call[r] # NotSent /\ call[r].session = s}

\* Both counters agree with the requests that were assigned and not accounted
\* for, however assignments, ends and cleanups interleave, and although two
\* requests of one session may run on different workers.  The two tables cache
\* the same sessions, no cleanup drops one that has a request in flight, and the
\* tables never outgrow max_cached_session_ids, except for the sessions that are
\* in flight together.
CountsExact ==
    /\ \A w \in RemoteWorkers : workloads[w] = Cardinality(OnWorker(w))
    /\ \A s \in Sessions : Count(s) = Cardinality(OfSession(s))
    /\ DOMAIN session_worker = DOMAIN session_count
    /\ \A r \in Requests : call[r] # NotSent => call[r].session \in DOMAIN session_count
    /\ MaxCached >= 0 => Cardinality(DOMAIN session_worker) < Max({MaxCached, Cardinality(Requests) + 1})
=============================================================================
