---------------------------- MODULE SGLangWorker ----------------------------
(***************************************************************************)
(* The rollout engines: SGLangWorker (axrl/worker/sglang_worker.py), one   *)
(* Ray actor per engine, with the calls its clients make.                  *)
(*                                                                         *)
(* An engine is an asyncio actor: a call waits in the actor's inbox until  *)
(* one of its max_concurrency slots is free (external: Ray) and holds the  *)
(* slot until it returns, also while it sleeps on generation_ready_event.  *)
(* Clients call generate; the driver calls pause, resume, release, restore *)
(* and update, one call per engine at a time.                              *)
(*                                                                         *)
(* A token is the version of the weights that sampled it.  Waking on the   *)
(* event and adding the rid to working_rids is one step: asyncio runs the  *)
(* woken generate calls before any call that arrives later.  Weights that  *)
(* are released have no backup: their content is Lost until an update.     *)
(***************************************************************************)
EXTENDS Integers, Sequences, FiniteSets

CONSTANTS
    Engines,            \* the rollout engines
    Clients,            \* rollouts that have a generate call in flight
    Driver,             \* the caller of the control operations
    Slots,              \* max_concurrency of an engine's actor
    MaxPerEngine,       \* generate calls the router keeps on one engine
    MaxTotal,           \* tokens max_total_tokens leaves after the prompt
    MaxNew,             \* sampling_config.max_new_tokens
    ContinueAfterAbort, \* continue_generation_after_abort
    ClearAfterAbort,    \* clear_partial_outputs_after_abort
    Versions            \* weight versions an update may install

\* A prompt leaves room for a token (the environment checks its budget first).
ASSUME WorkerAssumption ==
    /\ Driver \notin Clients
    /\ {Slots, MaxPerEngine, MaxTotal, MaxNew} \subseteq Nat \ {0}
    /\ {ContinueAfterAbort, ClearAfterAbort} \subseteq BOOLEAN
    /\ Versions \subseteq Nat

VARIABLES
    ready,      \* engine |-> generation_ready_event.is_set()
    onGpu,      \* engine |-> the memory tags that are on the GPU
    weights,    \* engine |-> version of its weights, or Lost
    inbox,      \* engine |-> calls that wait for a slot, oldest first
    call,       \* client |-> its latest generate call
    control,    \* engine |-> the driver's call that has not returned
    raised      \* a control call raised an AssertionError

workerVars == <<ready, onGpu, weights, inbox, call, control, raised>>

Lost == -1
Tags == {"weights", "kv_cache"}

\* A control call: the operation, and the weights it carries if it is an update.
Op(name) == [op |-> name, version |-> 0]
Update(v) == [op |-> "update", version |-> v]
NoCall == Op("none")
Ops == {Op(name) : name \in {"pause", "resume", "release",
                             "resume_weights", "resume_kv_cache"}}
       \cup {Update(v) : v \in Versions}

\* A generate call: where it is, its engine, its output_ids so far and how many
\* tokens the current submission may still produce.
GenCall(st, e, out, left) == [st |-> st, eng |-> e, out |-> out, left |-> left]

\* initialize loads the model; where training shares the run,
\* create_rollout_worker releases the memory at once.
WorkerInit ==
    /\ ready = [e \in Engines |-> TRUE]
    /\ \/ onGpu = [e \in Engines |-> Tags] /\ weights = [e \in Engines |-> 0]
       \/ onGpu = [e \in Engines |-> {}] /\ weights = [e \in Engines |-> Lost]
    /\ inbox = [e \in Engines |-> <<>>]
    /\ call \in [Clients -> {GenCall("idle", e, <<>>, 0) : e \in Engines}]
    /\ control = [e \in Engines |-> NoCall]
    /\ raised = FALSE

---------------------------------------------------------------------------
(* Slots of the actor. *)

OnEngine(e, states) == {c \in Clients : call[c].eng = e /\ call[c].st \in states}
Working(e) == OnEngine(e, {"working"})

\* The driver's call has left the inbox and has not returned.
Pausing(e) ==
    /\ control[e].op = "pause"
    /\ \A i \in DOMAIN inbox[e] : inbox[e][i] # Driver

InUse(e) == Cardinality(OnEngine(e, {"parked", "working"}))
            + (IF Pausing(e) THEN 1 ELSE 0)

\* The oldest waiting call is from x and a slot is free for it.
Admits(e, x) ==
    /\ inbox[e] # <<>>
    /\ Head(inbox[e]) = x
    /\ InUse(e) < Slots

---------------------------------------------------------------------------
(* generate: the loop that resubmits after an abort. *)

\* _compute_remaining_max_new_tokens.
Remaining(out) ==
    LET left == MaxTotal - Len(out) IN IF MaxNew < left THEN MaxNew ELSE left

\* The top of the loop once the event is set: submit to the engine, or return
\* what there is with finish_reason "length".
Submitted(r) ==
    IF Remaining(r.out) > 0
    THEN GenCall("working", r.eng, r.out, Remaining(r.out))
    ELSE GenCall("idle", r.eng, r.out, 0)

\* A rollout calls generate; the router has chosen engine e.
Generate(c, e) ==
    /\ call[c].st = "idle"
    /\ Cardinality(OnEngine(e, {"queued", "parked", "working"})) < MaxPerEngine
    /\ call' = [call EXCEPT ![c] = GenCall("queued", e, <<>>, 0)]
    /\ inbox' = [inbox EXCEPT ![e] = Append(@, c)]
    /\ UNCHANGED <<ready, onGpu, weights, control, raised>>

\* generate starts: it parks on the event if the engine is paused.
StartGenerate(c) ==
    LET e == call[c].eng IN
    /\ Admits(e, c)
    /\ inbox' = [inbox EXCEPT ![e] = Tail(@)]
    /\ call' = [call EXCEPT ![c] = IF ready[e] THEN Submitted(@)
                                   ELSE GenCall("parked", @.eng, @.out, 0)]
    /\ UNCHANGED <<ready, onGpu, weights, control, raised>>

\* The engine samples a token (external: SGLang).
Decode(c) ==
    /\ call[c].st = "working"
    /\ call[c].left > 0
    /\ call' = [call EXCEPT ![c] =
                  GenCall("working", @.eng, Append(@.out, weights[@.eng]), @.left - 1)]
    /\ UNCHANGED <<ready, onGpu, weights, inbox, control, raised>>

\* The engine finishes the request ("stop" or "length"): generate returns.
Finish(c) ==
    /\ call[c].st = "working"
    /\ call[c].out # <<>>
    /\ call' = [call EXCEPT ![c] = GenCall("idle", @.eng, @.out, 0)]
    /\ UNCHANGED <<ready, onGpu, weights, inbox, control, raised>>

\* The request comes back aborted.  pause_generation repeats its aborts until
\* none is left, so this can happen as long as it waits.
Abort(c) ==
    /\ call[c].st = "working"
    /\ Pausing(call[c].eng)
    /\ call' = [call EXCEPT ![c] =
                  GenCall(IF ContinueAfterAbort THEN "parked" ELSE "idle", @.eng,
                          IF ContinueAfterAbort /\ ClearAfterAbort THEN <<>> ELSE @.out, 0)]
    /\ UNCHANGED <<ready, onGpu, weights, inbox, control, raised>>

---------------------------------------------------------------------------
(* Control calls.  Control(e, o): the driver's call o on e gets its slot.  *)

\* The driver calls o[e] on every engine e of its domain and waits for all.
CallEngines(o) ==
    /\ \A e \in Engines : control[e] = NoCall
    /\ control' = o
    /\ inbox' = [e \in Engines |-> Append(inbox[e], Driver)]
    /\ UNCHANGED <<ready, onGpu, weights, call, raised>>

Control(e, name) ==
    /\ Admits(e, Driver)
    /\ control[e].op = name
    /\ inbox' = [inbox EXCEPT ![e] = Tail(@)]

Return(e) == control' = [control EXCEPT ![e] = NoCall]

\* pause_generation on a paused engine returns at once.
PauseGenerationAgain(e) ==
    /\ Control(e, "pause")
    /\ ~ready[e]
    /\ Return(e)
    /\ UNCHANGED <<ready, onGpu, weights, call, raised>>

\* pause_generation clears the event, then waits.
PauseGeneration(e) ==
    /\ Control(e, "pause")
    /\ ready[e]
    /\ ready' = [ready EXCEPT ![e] = FALSE]
    /\ UNCHANGED <<onGpu, weights, call, control, raised>>

\* Slip: it does not wait for working_rids.
PausedEarly(e) ==
    /\ Pausing(e)
    /\ Return(e)
    /\ UNCHANGED <<ready, onGpu, weights, inbox, call, raised>>

\* pause_generation sees working_rids empty and returns.
Paused(e) ==
    /\ Pausing(e)
    /\ Working(e) = {}
    /\ Return(e)
    /\ UNCHANGED <<ready, onGpu, weights, inbox, call, raised>>

\* resume_generation sets the event; every parked generate goes on.
ResumeGeneration(e) ==
    /\ Control(e, "resume")
    /\ Return(e)
    /\ ready' = [ready EXCEPT ![e] = TRUE]
    /\ call' = [c \in Clients |-> IF c \in OnEngine(e, {"parked"})
                                  THEN Submitted(call[c]) ELSE call[c]]
    /\ UNCHANGED <<onGpu, weights, raised>>

\* release_gpu_memory(backup_weights_on_cpu=False).
ReleaseGpuMemory(e) ==
    /\ Control(e, "release")
    /\ Return(e)
    /\ onGpu' = [onGpu EXCEPT ![e] = {}]
    /\ weights' = [weights EXCEPT ![e] = IF "weights" \in onGpu[e] THEN Lost ELSE @]
    /\ UNCHANGED <<ready, call, raised>>

\* resume_gpu_memory(["weights"]): memory comes back, its content does not.
ResumeWeights(e) ==
    /\ Control(e, "resume_weights")
    /\ Return(e)
    /\ onGpu' = [onGpu EXCEPT ![e] = @ \cup {"weights"}]
    /\ UNCHANGED <<ready, weights, call, raised>>

\* resume_gpu_memory(["kv_cache"]).
ResumeKvCache(e) ==
    /\ Control(e, "resume_kv_cache")
    /\ Return(e)
    /\ onGpu' = [onGpu EXCEPT ![e] = @ \cup {"kv_cache"}]
    /\ UNCHANGED <<ready, weights, call, raised>>

\* update_weights_from_tensor and update_weights_from_distributed: they assert
\* that generation is paused.
UpdateWeights(e) ==
    /\ Control(e, "update")
    /\ Return(e)
    /\ IF ready[e]
       THEN raised' = TRUE /\ UNCHANGED weights
       ELSE weights' = [weights EXCEPT ![e] = control[e].version] /\ UNCHANGED raised
    /\ UNCHANGED <<ready, onGpu, call>>

ControlStep(e) ==
    \/ PauseGenerationAgain(e)
    \/ PauseGeneration(e)
    \/ Paused(e)
    \/ ResumeGeneration(e)
    \/ ReleaseGpuMemory(e)
    \/ ResumeWeights(e)
    \/ ResumeKvCache(e)
    \/ UpdateWeights(e)

GenerateStep(c) ==
    \/ StartGenerate(c)
    \/ Decode(c)
    \/ Finish(c)
    \/ Abort(c)

WorkerStep ==
    \/ \E c \in Clients : GenerateStep(c)
    \/ \E e \in Engines : ControlStep(e)

\* On its own the component serves callers that make any call at any time.
WorkerNext ==
    \/ WorkerStep
    \/ \E c \in Clients, e \in Engines : Generate(c, e)
    \/ \E o \in Ops : CallEngines([e \in Engines |-> o])

WorkerSpec == WorkerInit /\ [][WorkerNext]_workerVars

---------------------------------------------------------------------------
(* Properties. *)

CallState == [st : {"idle", "queued", "parked", "working"}, eng : Engines,
              out : Seq(Versions \cup {Lost, 0}), left : 0..MaxTotal]

OpNames == {"none", "pause", "resume", "release", "resume_weights",
            "resume_kv_cache", "update"}

\* Every variable keeps its type.
WorkerTypeOK ==
    /\ ready \in [Engines -> BOOLEAN]
    /\ onGpu \in [Engines -> SUBSET Tags]
    /\ weights \in [Engines -> Versions \cup {Lost, 0}]
    /\ inbox \in [Engines -> Seq(Clients \cup {Driver})]
    /\ call \in [Clients -> CallState]
    /\ control \in [Engines -> [op : OpNames, version : Versions \cup {0}]]
    /\ raised \in BOOLEAN

\* A request the engine works on means that generation is not paused, or that
\* pause_generation has not returned yet: once the driver has its answer, the
\* engine is quiet until resume_generation, although calls keep arriving.
QuietWhenPaused ==
    \A e \in Engines : Working(e) # {} => ready[e] \/ Pausing(e)

\* An update never replaces weights under a request the engine works on, so
\* the tokens of one submission are all sampled by one version.
UpdatesAreQuiet ==
    [][\A e \in Engines : weights'[e] \notin {weights[e], Lost} => Working(e) = {}]_workerVars

\* Over all its resubmissions generate never goes past max_total_tokens.
OutputBounded ==
    \A c \in Clients : Len(call[c].out) + call[c].left <= MaxTotal
=============================================================================
