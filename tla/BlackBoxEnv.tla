---------------------------- MODULE BlackBoxEnv ----------------------------
(***************************************************************************)
(* Black-box rollouts: BlackBoxEnv                                         *)
(* (axis_recipe/blackbox_rl/blackbox_env.py) launches an agent runtime in  *)
(* a sandbox (openhands_env.py), the runtime calls the model through the   *)
(* OpenAI proxy of module OpenAIProxy, and the environment answers each    *)
(* call with a generation of the policy until one of its end conditions.   *)
(*                                                                         *)
(* The environment is one coroutine; it suspends on every registry call,   *)
(* so pc separates them.  The runtime is external: it sends a request with *)
(* the messages it knows of, may give up waiting for the answer, may exit  *)
(* at any time.  A request it has sent may reach the registry after the    *)
(* runtime was terminated if late.  What the model writes is chosen from   *)
(* Generations; score and metrics are left out.                            *)
(***************************************************************************)
EXTENDS OpenAIProxy

CONSTANTS
    MaxModelCalls,      \* max_model_calls
    MaxAttempts,        \* bound: how often start() may launch the runtime
    Bodies,             \* the requests a runtime sends, without their messages
    Generations,        \* what the model may write
    LateHttp            \* values of late

ASSUME EnvAssumption ==
    /\ MaxModelCalls \in Nat \ {0}
    /\ MaxAttempts \in Nat \ {0}
    /\ LateHttp \subseteq BOOLEAN
    /\ Requests \subseteq Nat \ {0}
    /\ Bodies \subseteq [context : ContextType, scoped : BOOLEAN, authorized : BOOLEAN]
    /\ Generations \subseteq [syntax : Syntaxes, visible : Syntaxes,
                             written : Seq([name : STRING, args : Arguments]),
                             finish : {"stop", "length"}]
    \* What is left without the reasoning is part of the text.
    /\ \A g \in Generations : g.syntax = "none" => g.visible = "none"

VARIABLES
    pc,         \* session |-> where its environment is
    current,    \* session |-> pending request of current_model_request, or NoRequest
    context,    \* session |-> its response context
    trace,      \* session |-> messages of the trace's conversation
    history,    \* session |-> messages the runtime knows of
    outputs,    \* session |-> number of model outputs
    attempt,    \* session |-> launches of the runtime
    runtime,    \* session |-> Off, Thinking, or the request it waits for
    late        \* requests may be delayed past the end of their sender

envVars == <<pc, current, context, trace, history, outputs, attempt, runtime>>
vars == <<registryVars, envVars, late>>

NoRequest == 0
Thinking == 0
Off == -1

Init ==
    /\ RegistryInit
    /\ pc = [s \in Sessions |-> "create"]
    /\ current = [s \in Sessions |-> NoRequest]
    /\ context = [s \in Sessions |-> Nothing]
    /\ trace = [s \in Sessions |-> <<>>]
    /\ history = [s \in Sessions |-> <<>>]
    /\ outputs = [s \in Sessions |-> 0]
    /\ attempt = [s \in Sessions |-> 0]
    /\ runtime = [s \in Sessions |-> Off]
    /\ late \in LateHttp

\* current_model_request = None
ClearCurrent(s) ==
    /\ current' = [current EXCEPT ![s] = NoRequest]
    /\ context' = [context EXCEPT ![s] = Nothing]

\* The coroutine ends, with its result or with an exception: the environment and
\* its trace are gone.
Leave(s, label) ==
    /\ pc' = [pc EXCEPT ![s] = label]
    /\ trace' = [trace EXCEPT ![s] = <<>>]

Goto(s, label) == pc' = [pc EXCEPT ![s] = label]

---------------------------------------------------------------------------
(* The runtime (external). *)

WithMessages(b, messages) ==
    [context |-> b.context, scoped |-> b.scoped, authorized |-> b.authorized,
     messages |-> messages]

\* Requests are numbered in the order they are sent.
SendRequest(s, q) ==
    /\ runtime[s] = Thinking
    /\ http[q] = Unused
    /\ \A p \in Requests : http[p] = Unused => q <= p
    /\ \E b \in Bodies :
         http' = [http EXCEPT ![q] = Handler(s, attempt[s], WithMessages(b, history[s]))]
    /\ runtime' = [runtime EXCEPT ![s] = q]
    /\ UNCHANGED <<queue, closed, requests, pc, current, context, trace, history, outputs, attempt>>

\* The answer arrives: the runtime takes note of it and of the tools' results.
ReceiveAnswer(s) ==
    /\ runtime[s] \in Requests
    /\ http[runtime[s]].reply \notin {Nothing, Error}
    /\ history' = [history EXCEPT ![s] =
                     @ \o <<Message("assistant", http[runtime[s]].reply.calls), Message("tool", <<>>)>>]
    /\ http' = [http EXCEPT ![runtime[s]].reply = Nothing]
    /\ runtime' = [runtime EXCEPT ![s] = Thinking]
    /\ UNCHANGED <<queue, closed, requests, pc, current, context, trace, outputs, attempt>>

\* An error arrives, or the client gives up; it will ask again.
StopWaiting(s) ==
    /\ runtime[s] \in Requests
    /\ http' = [http EXCEPT ![runtime[s]].reply = Nothing]
    /\ runtime' = [runtime EXCEPT ![s] = Thinking]
    /\ UNCHANGED <<queue, closed, requests, pc, current, context, trace, history, outputs, attempt>>

RuntimeExits(s) ==
    /\ runtime[s] = Thinking
    /\ runtime' = [runtime EXCEPT ![s] = Off]
    /\ history' = [history EXCEPT ![s] = <<>>]
    /\ UNCHANGED <<registryVars, pc, current, context, trace, outputs, attempt>>

\* terminate_runtime.  Unless late, what its HTTP client has sent and the
\* server has not read is lost with it.
TerminateRuntime(s) ==
    /\ runtime' = [runtime EXCEPT ![s] = Off]
    /\ history' = [history EXCEPT ![s] = <<>>]
    /\ http' = [q \in Requests |->
                  IF ~late /\ q \in Of(s) /\ http[q].st = "sent"
                    THEN Answered(http[q], Error) ELSE http[q]]
    /\ UNCHANGED <<queue, closed, requests>>

---------------------------------------------------------------------------
(* start. *)

Create(s) ==
    /\ pc[s] = "create"
    /\ attempt[s] < MaxAttempts
    /\ CreateSession(s)
    /\ Goto(s, "launch")
    /\ UNCHANGED <<current, context, trace, history, outputs, attempt, runtime>>

\* launch_runtime: the runtime runs, or an exception starts the next attempt.
Launch(s) ==
    /\ pc[s] = "launch"
    /\ attempt' = [attempt EXCEPT ![s] = @ + 1]
    /\ \/ /\ runtime' = [runtime EXCEPT ![s] = Thinking]
          /\ history' = [history EXCEPT ![s] = <<Message("user", <<>>)>>]
          /\ Goto(s, "initial")
       \/ /\ Goto(s, "retry")
          /\ UNCHANGED <<runtime, history>>
    /\ UNCHANGED <<registryVars, current, context, trace, outputs>>

\* current_model_request becomes the converted request q...
SetCurrent(s, q) ==
    /\ current' = [current EXCEPT ![s] = q]
    /\ context' = [context EXCEPT ![s] = http[q].body.context]

\* ... and its messages the conversation of the trace, or it is too long.
Observe(s, q) == SetCurrent(s, q) /\ trace' = [trace EXCEPT ![s] = http[q].body.messages]
ObserveTooLong(s, q) == SetCurrent(s, q) /\ UNCHANGED trace

Converts(q) == ~ConvertRaises(http[q].body.context, http[q].body.messages)

\* _wait_initial_request_or_runtime_done: a request; a conversion that fails; or
\* a prompt that is too long, which is an assertion and ends the rollout.
InitialRequest(s) ==
    /\ pc[s] = "initial"
    /\ \E q \in Requests :
         /\ WaitForRequest(s, q)
         /\ \/ Converts(q) /\ Observe(s, q) /\ Goto(s, "act")
            \/ Converts(q) /\ SetCurrent(s, q) /\ Leave(s, "raised")
            \/ Goto(s, "retry") /\ UNCHANGED <<current, context, trace>>
    /\ UNCHANGED <<history, outputs, attempt, runtime>>

InitialTimeout(s) ==
    /\ pc[s] = "initial"
    /\ NothingToReturn(s)
    /\ Goto(s, "retry")
    /\ UNCHANGED <<registryVars, current, context, trace, history, outputs, attempt, runtime>>

\* The handlers of start: close the session...
Retry(s) ==
    /\ pc[s] = "retry"
    /\ CloseSession(s)
    /\ ClearCurrent(s)
    /\ Goto(s, "relaunch")
    /\ UNCHANGED <<trace, history, outputs, attempt, runtime>>

\* ... and terminate the runtime.
Relaunch(s) ==
    /\ pc[s] = "relaunch"
    /\ TerminateRuntime(s)
    /\ Goto(s, "create")
    /\ UNCHANGED <<current, context, trace, outputs, attempt>>

---------------------------------------------------------------------------
(* step: the policy has generated an answer to the current request. *)

Input(s) == GenerationInput(context[s])
\* The messages of the trace after append_assistant_message and add_message.
Recorded(s, messages) == trace' = [trace EXCEPT ![s] = @ \o messages]

\* _retry_after_invalid_tool_call: the calls are not recorded.  The limit; or the
\* request is converted again with the feedback, which may raise, be too long, or
\* lead to another generation for the same request.
StepInvalid(s, output) ==
    /\ InvalidToolCall(output, Input(s))
    /\ outputs' = [outputs EXCEPT ![s] = @ + 1]
    /\ LET retry == <<Message("assistant", <<>>), Message("user", <<>>)>> IN
         IF outputs[s] + 1 >= MaxModelCalls
           THEN Recorded(s, <<Message("assistant", <<>>)>>) /\ Goto(s, "fail")
           ELSE \/ Leave(s, "raised")
                \/ /\ ~ConvertRaises(context[s], trace[s] \o retry)
                   /\ Recorded(s, retry)
                   /\ UNCHANGED pc \/ Goto(s, "fail")
    /\ UNCHANGED <<registryVars, current, context, history, attempt, runtime>>

\* The response goes to the runtime; a finish action or the limit ends the
\* rollout, else the environment waits for the next request.
StepResponds(s, output) ==
    /\ ~InvalidToolCall(output, Input(s))
    /\ ~BuildResponseRaises(context[s], output)
    /\ outputs' = [outputs EXCEPT ![s] = @ + 1]
    /\ Recorded(s, <<Message("assistant", output.calls)>>)
    /\ Respond(current[s], BuildResponse(context[s], output))
    /\ ClearCurrent(s)
    /\ Goto(s, IF IsNormalFinishAction(output) \/ outputs[s] + 1 >= MaxModelCalls
                 THEN "close" ELSE "next")
    /\ UNCHANGED <<history, attempt, runtime>>

\* Building the response raises: run_rollout ends as it is.
StepRaises(s, output) ==
    /\ ~InvalidToolCall(output, Input(s))
    /\ outputs' = [outputs EXCEPT ![s] = @ + 1]
    /\ Leave(s, "raised")
    /\ UNCHANGED <<registryVars, current, context, history, attempt, runtime>>

Step(s) ==
    /\ pc[s] = "act"
    /\ \E gen \in Generations : \E output \in {GenerationOutput(Input(s), gen)} :
         StepInvalid(s, output) \/ StepResponds(s, output) \/ StepRaises(s, output)

\* _wait_request_or_runtime_done: the next observation; a prompt that is too
\* long; or a conversion that times out (request lost to the caller) or raises.
NextRequest(s) ==
    /\ pc[s] = "next"
    /\ \E q \in Requests :
         /\ WaitForRequest(s, q)
         /\ \/ Converts(q) /\ Observe(s, q) /\ Goto(s, "act")
            \/ Converts(q) /\ ObserveTooLong(s, q) /\ Goto(s, "fail")
            \/ Leave(s, "raised") /\ UNCHANGED <<current, context>>
            \/ /\ Goto(s, "close")
               /\ Recorded(s, <<Message("user", <<>>)>>)
               /\ UNCHANGED <<current, context>>
    /\ UNCHANGED <<history, outputs, attempt, runtime>>

\* Slip: the wait ends only when the runtime is gone.
NextTimeoutOnExit(s) ==
    /\ pc[s] = "next"
    /\ NothingToReturn(s)
    /\ runtime[s] = Off
    /\ Goto(s, "close")
    /\ UNCHANGED <<registryVars, current, context, trace, history, outputs, attempt, runtime>>

\* _terminate_by_request_timeout.
NextTimeout(s) ==
    /\ pc[s] = "next"
    /\ NothingToReturn(s)
    /\ Recorded(s, <<Message("user", <<>>)>>)
    /\ Goto(s, "close")
    /\ UNCHANGED <<registryVars, current, context, history, outputs, attempt, runtime>>

\* Its call of wait_for_request passes over a request that has timed out.
SkipRequest(s) ==
    /\ pc[s] \in {"initial", "next"}
    /\ SkipStale(s)
    /\ UNCHANGED envVars

---------------------------------------------------------------------------
(* _close_session_and_terminate and _finish. *)

FailPending(s) ==
    /\ pc[s] = "fail"
    /\ Respond(current[s], Error)
    /\ Goto(s, "close")
    /\ UNCHANGED <<current, context, trace, history, outputs, attempt, runtime>>

Close(s) ==
    /\ pc[s] = "close"
    /\ CloseSession(s)
    /\ ClearCurrent(s)
    /\ Goto(s, "terminate")
    /\ UNCHANGED <<trace, history, outputs, attempt, runtime>>

Terminate(s) ==
    /\ pc[s] = "terminate"
    /\ TerminateRuntime(s)
    /\ Goto(s, "finish")
    /\ UNCHANGED <<current, context, trace, outputs, attempt>>

\* _finish closes again, scores and returns.
Finish(s) ==
    /\ pc[s] = "finish"
    /\ CloseSession(s)
    /\ Leave(s, "done")
    /\ UNCHANGED <<current, context, history, outputs, attempt, runtime>>

EnvStep(s) ==
    \/ Create(s) \/ Launch(s) \/ InitialRequest(s) \/ InitialTimeout(s) \/ Retry(s)
    \/ Relaunch(s) \/ Step(s) \/ NextRequest(s)
    \/ NextTimeout(s) \/ SkipRequest(s) \/ FailPending(s) \/ Close(s) \/ Terminate(s) \/ Finish(s)

RuntimeStep(s) ==
    \/ \E q \in Requests : SendRequest(s, q)
    \/ ReceiveAnswer(s)
    \/ StopWaiting(s)
    \/ RuntimeExits(s)

RegistryStep ==
    /\ \E q \in Requests : RejectHttp(q) \/ Submit(q) \/ SubmitTimeout(q)
    /\ UNCHANGED envVars

Next ==
    /\ RegistryStep \/ \E s \in Sessions : EnvStep(s) \/ RuntimeStep(s)
    /\ UNCHANGED late

Spec == Init /\ [][Next]_vars

(***************************************************************************)
(* Fairness: the environment's coroutine runs, its waits end by a request  *)
(* or by their timeout; the registry serves and times out what it holds.   *)
(* The runtime owes nothing.                                               *)
(***************************************************************************)
Fairness ==
    /\ \A s \in Sessions : WF_vars(EnvStep(s) /\ UNCHANGED late)
    /\ \A q \in Requests : WF_vars(RegistryStep /\ (RejectHttp(q) \/ Submit(q) \/ SubmitTimeout(q))
                                     /\ UNCHANGED late)

FairSpec == Spec /\ Fairness

---------------------------------------------------------------------------
(* Properties *)

Labels == {"create", "launch", "initial", "retry", "relaunch", "act", "next", "fail",
           "close", "terminate", "finish", "done", "raised"}

\* Every variable keeps its type.
TypeOK ==
    /\ RegistryTypeOK
    /\ pc \in [Sessions -> Labels]
    /\ current \in [Sessions -> Requests \cup {NoRequest}]
    /\ \A s \in Sessions : context[s] = Nothing \/ context[s] \in ContextType
    /\ outputs \in [Sessions -> 0..MaxModelCalls]
    /\ attempt \in [Sessions -> 0..MaxAttempts]
    /\ runtime \in [Sessions -> Requests \cup {Off, Thinking}]
    /\ late \in BOOLEAN

\* From the moment a rollout closes its session no request of the runtime waits
\* in the registry, and none can enter, although the runtime is terminated only
\* later: "an in-flight OpenAI request is not left waiting for proxy timeout".
\* While a rollout runs, a registered request is in the queue of its session,
\* once, or is the one the environment is answering: none is orphaned, to be
\* freed by the proxy's timeout only.
SessionsServed ==
    /\ \A s \in Sessions : pc[s] \in {"relaunch", "create", "terminate", "finish", "done"} =>
          s \notin Open /\ Of(s) \cap requests = {}
    /\ \A q \in requests : LET s == http[q].session IN
          pc[s] \notin {"retry", "close", "raised"} =>
              \/ current[s] = q
              \/ s \in Open /\ Cardinality({i \in DOMAIN queue[s] : queue[s][i] = q}) = 1

\* Provided its requests die with a runtime that was terminated, every request
\* the environment takes comes from the launch it is talking to: closing the
\* session before the runtime ends, and creating it after, keeps the attempts of
\* start() apart although they share a session id.
OwnRuntime(s) == ~late /\ current[s] # NoRequest => http[current[s]].by = attempt[s]

\* Every tool call that the trace or the runtime's history holds has arguments
\* that decode to an object, so converting the conversation again, for a retry or
\* for the next request, cannot fail on them.
CallsDecode(s) ==
    \A m \in ToSet(trace[s]) \cup ToSet(history[s]) :
        \A c \in ToSet(m.calls) : c.args = "object"

\* The calls a request is answered with are the ones the trace records with the
\* answer, although worker, environment and adapter each look for calls by
\* themselves, and the adapter in what is left of the text without its reasoning.
ToldAsRecorded(s) ==
    \A q \in Of(s) : LET answer == http'[q] IN
        http[q].st # "answered" /\ answer.reply \notin {Nothing, Error} =>
            trace'[s] # <<>> /\ answer.reply.calls = Last(trace'[s]).calls

\* Environment and runtime agree, on who is talking and on what was said.
RuntimeAgrees ==
    /\ [](\A s \in Sessions : OwnRuntime(s) /\ CallsDecode(s))
    /\ [][\A s \in Sessions : ToldAsRecorded(s)]_vars

\* A rollout whose first request was taken ends or fails, whatever the runtime
\* does; and every HTTP request is answered, whatever becomes of its session.
RolloutEnds ==
    /\ \A s \in Sessions : pc[s] = "act" ~> pc[s] \in {"done", "raised"}
    /\ \A q \in Requests : http[q] # Unused ~> http[q].st = "answered"
=============================================================================
