--------------------------- MODULE ProcessorPool ---------------------------
(***************************************************************************)
(* ProcessorPool (axrl/processor/processor_pool.py): generate coroutines   *)
(* on an event loop hand tasks to worker processes through in_queue; the   *)
(* processes answer through out_queue, which a listener thread reads; the  *)
(* listener resolves the coroutine's futures with call_soon_threadsafe.    *)
(* A task that exceeds its time has its worker killed and replaced.        *)
(*                                                                         *)
(* in_queue is a multiprocessing SimpleQueue (external): its reader lock   *)
(* is held by the one process that waits for an item, and a process that   *)
(* is killed does not give it back.  A put is one step.  The event loop    *)
(* is blocked while close() runs, and each of its callbacks is one step.   *)
(* A member of Tasks is one call of generate.                              *)
(***************************************************************************)
EXTENDS Integers, Sequences, FiniteSets, SequencesExt

CONSTANTS
    Tasks,          \* calls of generate
    Workers,        \* worker indexes
    LateResults     \* values of late

ASSUME PoolAssumption == IsFiniteSet(Workers) /\ LateResults \subseteq BOOLEAN

VARIABLES
    call,       \* task |-> its coroutine: "idle", "queued", "started" or an outcome
    assigned,   \* task |-> the _Started its coroutine received
    result,     \* task |-> its result future
    tasks,      \* self.tasks
    inq,        \* in_queue
    outq,       \* out_queue
    soon,       \* callbacks the listener scheduled on the event loop
    worker,     \* index |-> its process: generation, state and current task
    rlock,      \* the process that holds in_queue's reader lock
    pool,       \* "open", "closing" or "closed"
    late        \* a deadline may pass when the answer is already on its way

poolVars == <<call, assigned, result, tasks, inq, outq, soon, worker, rlock, pool, late>>

Outcomes == {"ok", "error", "timeout", "closed"}
Waiting == {t \in Tasks : call[t] \in {"queued", "started"}}
NoTask == [none |-> TRUE]
Stop == [stop |-> TRUE]
Free == [free |-> TRUE]
Process(w, gen) == [worker |-> w, gen |-> gen]
Message(t, kind, p) == [task |-> t, kind |-> kind, from |-> p]

Fresh(gen) == [gen |-> gen, st |-> "idle", task |-> NoTask]
Self(w) == Process(w, worker[w].gen)
Alive(w) == worker[w].st # "dead"

PoolInit ==
    /\ call = [t \in Tasks |-> "idle"]
    /\ assigned = [t \in Tasks |-> Free]
    /\ result = [t \in Tasks |-> "pending"]
    /\ tasks = {}
    /\ inq = <<>>
    /\ outq = <<>>
    /\ soon = <<>>
    /\ worker = [w \in Workers |-> Fresh(1)]
    /\ rlock = Free
    /\ pool = "open"
    /\ late \in LateResults

---------------------------------------------------------------------------
(* The worker process: _worker. *)

\* in_queue.get: take the reader lock.
LockQueue(w) ==
    /\ worker[w].st = "idle"
    /\ rlock = Free
    /\ rlock' = Self(w)
    /\ worker' = [worker EXCEPT ![w].st = "reading"]
    /\ UNCHANGED <<call, assigned, result, tasks, inq, outq, soon, pool>>

\* in_queue.get: an item arrives, the lock is released; None ends the process.
Receive(w) ==
    /\ worker[w].st = "reading"
    /\ inq # <<>>
    /\ inq' = Tail(inq)
    /\ rlock' = Free
    /\ worker' = [worker EXCEPT ![w] =
            IF Head(inq) = Stop THEN [@ EXCEPT !.st = "dead"]
                                ELSE [@ EXCEPT !.st = "received", !.task = Head(inq)]]
    /\ UNCHANGED <<call, assigned, result, tasks, outq, soon, pool>>

\* Announce the task.
Announce(w) ==
    /\ worker[w].st = "received"
    /\ outq' = Append(outq, Message(worker[w].task, "started", Self(w)))
    /\ worker' = [worker EXCEPT ![w].st = "running"]
    /\ UNCHANGED <<call, assigned, result, tasks, inq, soon, rlock, pool>>

\* processor.process returns, or raises (or could not be initialised).
Answer(w) ==
    /\ worker[w].st = "running"
    /\ \E kind \in {"ok", "error"} :
          outq' = Append(outq, Message(worker[w].task, kind, Self(w)))
    /\ worker' = [worker EXCEPT ![w] = Fresh(@.gen)]
    /\ UNCHANGED <<call, assigned, result, tasks, inq, soon, rlock, pool>>

\* The processor takes the process down with it.
WorkerCrash(w) ==
    /\ worker[w].st = "running"
    /\ worker' = [worker EXCEPT ![w].st = "dead"]
    /\ UNCHANGED <<call, assigned, result, tasks, inq, outq, soon, rlock, pool>>

---------------------------------------------------------------------------
(* The listener thread and the event loop. *)

\* Slip: the answer does not end the task.
ListenKeepsTask ==
    /\ outq # <<>>
    /\ outq' = Tail(outq)
    /\ soon' = IF Head(outq).task \in tasks THEN Append(soon, Head(outq)) ELSE soon
    /\ UNCHANGED <<call, assigned, result, tasks, inq, worker, rlock, pool>>

\* _listen: a message of an unknown task is stale; an answer ends the task.
Listen ==
    /\ outq # <<>>
    /\ outq' = Tail(outq)
    /\ LET m == Head(outq) IN
         IF m.task \in tasks
           THEN /\ soon' = Append(soon, m)
                /\ tasks' = IF m.kind = "started" THEN tasks ELSE tasks \ {m.task}
           ELSE UNCHANGED <<soon, tasks>>
    /\ UNCHANGED <<call, assigned, result, inq, worker, rlock, pool>>

\* _set_result and _set_exception: a future that is done keeps its value.
Callback ==
    /\ pool # "closing"
    /\ soon # <<>>
    /\ soon' = Tail(soon)
    /\ LET m == Head(soon) IN
         IF m.kind = "started"
           THEN /\ assigned' = [assigned EXCEPT ![m.task] = m.from]
                /\ call' = [call EXCEPT ![m.task] = IF @ = "queued" THEN "started" ELSE @]
                /\ UNCHANGED result
           ELSE /\ result' = [result EXCEPT ![m.task] = IF @ = "pending" THEN m.kind ELSE @]
                /\ UNCHANGED <<assigned, call>>
    /\ UNCHANGED <<tasks, inq, outq, worker, rlock, pool>>

\* generate: register the task and queue it.
Generate(t) ==
    /\ call[t] = "idle"
    /\ pool = "open"
    /\ tasks' = tasks \cup {t}
    /\ inq' = Append(inq, t)
    /\ call' = [call EXCEPT ![t] = "queued"]
    /\ UNCHANGED <<assigned, result, outq, soon, worker, rlock, pool>>

\* generate on a closed pool raises.
GenerateRefused(t) ==
    /\ call[t] = "idle"
    /\ pool = "closed"
    /\ call' = [call EXCEPT ![t] = "closed"]
    /\ UNCHANGED <<assigned, result, tasks, inq, outq, soon, worker, rlock, pool>>

\* generate: its future is done.  (close also fails a started future.)
Return(t) ==
    /\ pool # "closing"
    /\ \/ call[t] = "started" /\ result[t] # "pending"
       \/ call[t] = "queued" /\ result[t] = "closed"
    /\ call' = [call EXCEPT ![t] = result[t]]
    /\ tasks' = tasks \ {t}
    /\ UNCHANGED <<assigned, result, inq, outq, soon, worker, rlock, pool>>

\* _restart_worker_for_timeout: an assignment to an older process is stale.
\* The process is killed whatever it is doing now.
Restart(p) ==
    worker' = IF pool # "open" \/ worker[p.worker].gen # p.gen THEN worker
              ELSE [worker EXCEPT ![p.worker] = Fresh(@.gen + 1)]

\* generate: timeout_seconds have passed since the task was started.
Timeout(t) ==
    /\ pool # "closing"
    /\ call[t] = "started"
    /\ result[t] = "pending"
    /\ \/ late
       \/ pool = "closed"
       \/ worker[assigned[t].worker].gen # assigned[t].gen
       \/ worker[assigned[t].worker].task = t
    /\ call' = [call EXCEPT ![t] = "timeout"]
    /\ result' = [result EXCEPT ![t] = "timeout"]
    /\ tasks' = tasks \ {t}
    /\ Restart(assigned[t])
    /\ UNCHANGED <<assigned, inq, outq, soon, rlock, pool>>

---------------------------------------------------------------------------
(* close, on the event loop's thread. *)

CloseBegin ==
    /\ pool = "open"
    /\ pool' = "closing"
    /\ inq' = inq \o [w \in 1..Cardinality(Workers) |-> Stop]
    /\ UNCHANGED <<call, assigned, result, tasks, outq, soon, worker, rlock>>

\* _stop_process: join, then terminate and kill.
StopWorker(w) ==
    /\ pool = "closing"
    /\ Alive(w)
    /\ worker' = [worker EXCEPT ![w].st = "dead"]
    /\ UNCHANGED <<call, assigned, result, tasks, inq, outq, soon, rlock, pool>>

\* Slip: the tasks are dropped without failing their futures.
CloseEndSilently ==
    /\ pool = "closing"
    /\ \A w \in Workers : ~Alive(w)
    /\ pool' = "closed"
    /\ tasks' = {}
    /\ UNCHANGED <<call, assigned, result, inq, outq, soon, worker, rlock>>

\* The processes are gone; every task left fails.  The listener may have
\* stopped, or may still be behind (its join has a timeout).
CloseEnd ==
    /\ pool = "closing"
    /\ \A w \in Workers : ~Alive(w)
    /\ pool' = "closed"
    /\ \E ms \in SetToSeqs({Message(t, "closed", Free) : t \in tasks}) : soon' = soon \o ms
    /\ tasks' = {}
    /\ UNCHANGED <<call, assigned, result, inq, outq, worker, rlock>>

WorkerStep(w) == LockQueue(w) \/ Receive(w) \/ Announce(w) \/ Answer(w) \/ WorkerCrash(w)
LoopStep(t) == Generate(t) \/ GenerateRefused(t) \/ Return(t) \/ Timeout(t)

PoolNext ==
    /\ \/ \E w \in Workers : WorkerStep(w) \/ StopWorker(w)
       \/ \E t \in Tasks : LoopStep(t)
       \/ Listen \/ Callback \/ CloseBegin \/ CloseEnd
    /\ UNCHANGED late

PoolSpec == PoolInit /\ [][PoolNext]_poolVars

(***************************************************************************)
(* Fairness: processes, listener and event loop run, a started task ends   *)
(* or its timer fires.  A processor may run forever, so Answer is not fair.*)
(***************************************************************************)
Fairness ==
    /\ \A w \in Workers :
          /\ SF_poolVars(LockQueue(w) /\ UNCHANGED late)
          /\ WF_poolVars((Receive(w) \/ Announce(w)) /\ UNCHANGED late)
          /\ WF_poolVars(StopWorker(w) /\ UNCHANGED late)
    /\ \A t \in Tasks : WF_poolVars((Return(t) \/ Timeout(t)) /\ UNCHANGED late)
    /\ WF_poolVars(Listen /\ UNCHANGED late)
    /\ WF_poolVars(Callback /\ UNCHANGED late)
    /\ WF_poolVars(CloseEnd /\ UNCHANGED late)

FairSpec == PoolSpec /\ Fairness

---------------------------------------------------------------------------
(* Properties *)

Processes == [worker : Workers, gen : 1..(Cardinality(Tasks) + 1)]
Messages == [task : Tasks, kind : {"started", "ok", "error", "closed"},
             from : Processes \cup {Free}]

\* Every variable keeps its type.
PoolTypeOK ==
    /\ call \in [Tasks -> {"idle", "queued", "started"} \cup Outcomes]
    /\ assigned \in [Tasks -> Processes \cup {Free}]
    /\ result \in [Tasks -> {"pending"} \cup Outcomes]
    /\ tasks \subseteq Tasks
    /\ ToSet(inq) \subseteq Tasks \cup {Stop}
    /\ ToSet(outq) \cup ToSet(soon) \subseteq Messages
    /\ worker \in [Workers -> [gen : 1..(Cardinality(Tasks) + 1),
                               st : {"idle", "reading", "received", "running", "dead"},
                               task : Tasks \cup {NoTask}]]
    /\ rlock \in Processes \cup {Free}
    /\ pool \in {"open", "closing", "closed"}
    /\ late \in BOOLEAN

\* The answer of task t has passed the listener.
Answered(t) ==
    result[t] # "pending" \/ \E i \in DOMAIN soon : soon[i].task = t /\ soon[i].kind # "started"

\* self.tasks holds exactly the calls that wait and whose answer has not passed
\* the listener: no call that timed out or was answered leaks an entry, none
\* that still waits is forgotten, and the listener never answers a call twice.
TasksExact ==
    /\ tasks = {t \in Waiting : ~Answered(t)}
    /\ \A i, j \in DOMAIN soon : soon[i].task = soon[j].task /\ soon[i].kind # "started"
                                    /\ soon[j].kind # "started" => i = j

\* Every call of generate ends, provided no answer races its deadline: a
\* processor that hangs or crashes costs the caller its time, never more, and
\* leaves a pool that serves the next call.  And once close() has begun, every
\* call that is still waiting ends, late answers or not.
EveryCallReturns ==
    /\ \A t \in Tasks : ~late /\ t \in Waiting ~> t \notin Waiting
    /\ pool = "closing" ~> pool = "closed" /\ Waiting = {}
=============================================================================
