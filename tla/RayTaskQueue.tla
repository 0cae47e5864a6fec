--------------------------- MODULE RayTaskQueue ---------------------------
(***************************************************************************)
(* The Ray actor behind axrl/utils/ray_task_queue.py: per-key FIFO         *)
(* backlogs, one running table shared by all keys, and callers of get()    *)
(* parked on an asyncio.Condition.                                         *)
(*                                                                         *)
(* Every coroutine of the actor runs on one event loop and none of them    *)
(* awaits anything but Condition.wait() while it holds the condition, so   *)
(* each stretch between two waits is one action.  A caller that finds      *)
(* nothing runnable is "waiting"; notify_all makes it "woken", and a woken *)
(* caller looks again only when the loop schedules it (Resume), by which   *)
(* time another caller may have taken the task.                            *)
(*                                                                         *)
(* A member of Tasks is one submission, put at most once; it also stands   *)
(* for the uuid of its assignment.                                         *)
(***************************************************************************)
EXTENDS Integers, Sequences, FiniteSets, SequencesExt

CONSTANTS
    Tasks,          \* submissions
    Keys,           \* backlog names (DEFAULT_QUEUE_NAME, ...)
    Workers,        \* callers of get, get_nowait
    Batches,        \* argument lists of put (one task) and put_many
    Limited,        \* max_running_tasks is not None (FALSE: mailbox mode)
    MaxRunning      \* max_running_tasks when Limited

ASSUME QueueAssumption ==
    /\ Limited \in BOOLEAN
    /\ MaxRunning \in Nat \ {0}
    /\ IsFiniteSet(Tasks)
    /\ \A ts \in Batches : /\ ts \in Seq(Tasks)
                           /\ \A i, j \in DOMAIN ts : ts[i] = ts[j] => i = j

VARIABLES
    pending,        \* _pending: key |-> deque of tasks
    running,        \* _running: the assignments not completed yet
    completed,      \* tasks whose complete() ran (|completed| = _completed_count)
    consumed,       \* tasks a mailbox get() handed out
    caller          \* what each worker's call of get() is doing

vars == <<pending, running, completed, consumed, caller>>

Assignment == [task : Tasks, worker : Workers, key : Keys]

Idle == [pc |-> "idle"]
CallerState == {Idle} \cup [pc : {"waiting", "woken"}, key : Keys, timed : BOOLEAN]

Submitted ==
    (UNION {ToSet(pending[k]) : k \in Keys})
        \cup {a.task : a \in running} \cup completed \cup consumed

Init ==
    /\ pending = [k \in Keys |-> <<>>]
    /\ running = {}
    /\ completed = {}
    /\ consumed = {}
    /\ caller = [w \in Workers |-> Idle]

---------------------------------------------------------------------------

\* Condition.notify_all: every parked caller becomes runnable.
NotifyAll(c) ==
    [w \in Workers |-> IF c[w].pc = "waiting" THEN [c[w] EXCEPT !.pc = "woken"]
                                              ELSE c[w]]

\* Slip: put_many forgets to notify.
PutManyWithoutNotify(k, ts) ==
    /\ \A i \in DOMAIN ts : ts[i] \notin Submitted
    /\ pending' = [pending EXCEPT ![k] = @ \o ts]
    /\ UNCHANGED <<running, completed, consumed, caller>>

\* put and put_many: the tasks go to the back of the key's deque.
PutMany(k, ts) ==
    /\ \A i \in DOMAIN ts : ts[i] \notin Submitted
    /\ pending' = [pending EXCEPT ![k] = @ \o ts]
    /\ caller' = NotifyAll(caller)
    /\ UNCHANGED <<running, completed, consumed>>

\* The test with which _take_next_assignment_locked refuses (returns None).
Runnable(k) ==
    /\ pending[k] # <<>>
    /\ Limited => Cardinality(running) < MaxRunning

\* Slip: the task is read from the deque but not removed.
TakeWithoutPop(w, k) ==
    /\ Runnable(k)
    /\ running' = running \cup
            {[task |-> Head(pending[k]), worker |-> w, key |-> k]}
    /\ UNCHANGED <<pending, consumed, completed>>

\* _take_next_assignment_locked: the oldest task of the key goes to worker w.
Take(w, k) ==
    /\ Runnable(k)
    /\ pending' = [pending EXCEPT ![k] = Tail(@)]
    /\ IF Limited
         THEN /\ running' = running \cup
                    {[task |-> Head(pending[k]), worker |-> w, key |-> k]}
              /\ UNCHANGED consumed
         ELSE /\ consumed' = consumed \cup {Head(pending[k])}
              /\ UNCHANGED running
    /\ UNCHANGED completed

\* get_nowait: an assignment, or None and nothing changes.
GetNowait(w, k) ==
    /\ caller[w] = Idle
    /\ Take(w, k)
    /\ UNCHANGED caller

\* get: the first look, under the condition; without a task the caller parks.
Get(w, k, timed) ==
    /\ caller[w] = Idle
    /\ \/ /\ Take(w, k)
          /\ UNCHANGED caller
       \/ /\ ~Runnable(k)
          /\ caller' = [caller EXCEPT
                            ![w] = [pc |-> "waiting", key |-> k, timed |-> timed]]
          /\ UNCHANGED <<pending, running, completed, consumed>>

\* get: a notified caller re-acquires the condition and looks again.
Resume(w) ==
    /\ caller[w].pc = "woken"
    /\ \/ /\ Take(w, caller[w].key)
          /\ caller' = [caller EXCEPT ![w] = Idle]
       \/ /\ ~Runnable(caller[w].key)
          /\ caller' = [caller EXCEPT ![w].pc = "waiting"]
          /\ UNCHANGED <<pending, running, completed, consumed>>

\* get: the deadline passes while parked, or while re-acquiring the condition;
\* the caller returns None without looking again.
Timeout(w) ==
    /\ caller[w] # Idle
    /\ caller[w].timed
    /\ caller' = [caller EXCEPT ![w] = Idle]
    /\ UNCHANGED <<pending, running, completed, consumed>>

\* Slip: complete releases the slot silently.
CompleteWithoutNotify(a) ==
    /\ Limited
    /\ a \in running
    /\ running' = running \ {a}
    /\ completed' = completed \cup {a.task}
    /\ UNCHANGED <<pending, consumed, caller>>

\* complete: the slot is released and every parked caller is notified.
Complete(a) ==
    /\ Limited
    /\ a \in running
    /\ running' = running \ {a}
    /\ completed' = completed \cup {a.task}
    /\ caller' = NotifyAll(caller)
    /\ UNCHANGED <<pending, consumed>>

Next ==
    \/ \E k \in Keys, ts \in Batches : PutMany(k, ts)
    \/ \E w \in Workers, k \in Keys : GetNowait(w, k)
    \/ \E w \in Workers, k \in Keys, timed \in BOOLEAN : Get(w, k, timed)
    \/ \E w \in Workers : Resume(w)
    \/ \E w \in Workers : Timeout(w)
    \/ \E a \in running : Complete(a)

Spec == Init /\ [][Next]_vars

(***************************************************************************)
(* Fairness: the event loop runs every notified coroutine, workers keep    *)
(* asking for tasks (RemoteRolloutActor loops forever on get, one backlog  *)
(* per queue) and complete what they were assigned.                        *)
(***************************************************************************)
Fairness ==
    /\ \A w \in Workers : WF_vars(Resume(w))
    /\ \A w \in Workers : WF_vars(\E k \in Keys : pending[k] # <<>> /\ Get(w, k, FALSE))
    /\ WF_vars(\E a \in running : Complete(a))

FairSpec == Spec /\ Fairness

---------------------------------------------------------------------------
(* Properties *)

\* Every variable keeps its type.
TypeOK ==
    /\ pending \in [Keys -> Seq(Tasks)]
    /\ running \in SUBSET Assignment
    /\ completed \in SUBSET Tasks
    /\ consumed \in SUBSET Tasks
    /\ caller \in [Workers -> CallerState]

\* "Ray actor task queue with global running-task limits": the limit counts
\* the assignments of all keys and of callers that were parked together.
RunningBound == Limited => Cardinality(running) <= MaxRunning

\* No lost wake-up: a caller stays parked only while nothing it waits for is
\* runnable.  put and complete are the two events that can make a task
\* runnable, and both must notify callers of every key.
NoLostWakeup ==
    \A w \in Workers : caller[w].pc = "waiting" => ~Runnable(caller[w].key)

\* A submission is in one place only: queued once, running once, or done, and
\* what was completed or consumed is never handed out again.
ExactlyOnce ==
    /\ \A k1, k2 \in Keys : \A i \in DOMAIN pending[k1], j \in DOMAIN pending[k2] :
            pending[k1][i] = pending[k2][j] => k1 = k2 /\ i = j
    /\ \A a, b \in running : a.task = b.task => a = b
    /\ \A a \in running : a.task \notin completed \cup consumed
    /\ \A k \in Keys : \A i \in DOMAIN pending[k] :
            /\ pending[k][i] \notin completed \cup consumed
            /\ \A a \in running : a.task # pending[k][i]

\* A queued task is handed out in the end, although callers time out, race for
\* freed slots and wait on other keys.
EveryTaskServed ==
    \A t \in Tasks :
        (\E k \in Keys : t \in ToSet(pending[k])) ~> (t \in completed \cup consumed)
===========================================================================
