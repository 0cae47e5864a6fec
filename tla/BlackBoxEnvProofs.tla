------------------------- MODULE BlackBoxEnvProofs -------------------------
(* Proofs about black-box rollouts, for any number of sessions, requests,     *)
(* launches and model calls and whatever the model writes: no request is      *)
(* orphaned in the registry, the environment talks to the runtime it          *)
(* launched, and the runtime is told what the trace records.                  *)
EXTENDS BlackBoxEnv, FiniteSetTheorems, TLAPS

---------------------------------------------------------------------------
(* The inductive invariant. *)

\* What reaches the trace, the runtime and the registry: calls whose arguments decode.
GoodCall == [name : STRING, args : {"object"}]
FinishReasons == {"stop", "length", "tool_calls"}
GoodMessage == [role : {"user", "assistant", "tool"}, calls : Seq(GoodCall)]
BodyType == [context : ContextType, scoped : BOOLEAN, authorized : BOOLEAN,
             messages : Seq(GoodMessage)]
Told == [calls : Seq(GoodCall), finish : FinishReasons]
Live == [st : {"sent", "waiting"}, session : Sessions, by : Nat, body : BodyType,
         reply : {Nothing}]
Over == [st : {"answered"}, session : Sessions, by : Nat, body : {Nothing},
         reply : {Nothing, Error} \cup Told]

RegistryTypes ==
    /\ http \in [Requests -> {Unused} \cup Live \cup Over]
    /\ requests = {q \in Requests : http[q].st = "waiting"}
    /\ Open \subseteq Sessions /\ \A s \in Open : queue[s] \in Seq(Requests)

EnvTypes ==
    /\ pc \in [Sessions -> Labels]
    /\ current \in [Sessions -> Requests \cup {NoRequest}]
    /\ context \in [Sessions -> ContextType \cup {Nothing}]
    /\ trace \in [Sessions -> Seq(GoodMessage)]
    /\ history \in [Sessions -> Seq(GoodMessage)]
    /\ attempt \in [Sessions -> Nat]
    /\ runtime \in [Sessions -> Requests \cup {Off, Thinking}]
    /\ late \in BOOLEAN

Types == RegistryTypes /\ EnvTypes

\* A request that is not answered.
Pending(q) == http[q].st \in {"sent", "waiting"}

\* The environment has a current request only while it answers one.
CurrentKnown(s) ==
    /\ pc[s] \in {"create", "launch", "initial", "relaunch", "next", "terminate", "finish",
                  "done"} => current[s] = NoRequest
    /\ pc[s] = "act" => context[s] \in ContextType
    /\ current[s] \in Requests =>
         http[current[s]] # Unused /\ http[current[s]].session = s
    /\ runtime[s] \in Requests => http[runtime[s]] # Unused

\* A queue holds requests of its session that were submitted, each once.
QueueKnown(s) ==
    s \in Open =>
        /\ \A i \in DOMAIN queue[s] : /\ http[queue[s][i]].st \in {"waiting", "answered"}
                                      /\ http[queue[s][i]].session = s
        /\ \A i, j \in DOMAIN queue[s] : queue[s][i] = queue[s][j] => i = j

\* SessionsServed, of one session.
Served(s) ==
    /\ pc[s] \in {"relaunch", "create", "terminate", "finish", "done"} =>
         s \notin Open /\ \A q \in requests : http[q].session # s
    /\ pc[s] \notin {"retry", "close", "raised"} =>
         \A q \in requests : http[q].session = s =>
             current[s] = q \/ (s \in Open /\ q \in ToSet(queue[s]))

\* Unless late, the pending requests of a session are of its launch, and there are none
\* between the end of a runtime and the launch of the next one.
Launches(s) ==
    /\ pc[s] \in {"create", "launch"} => runtime[s] = Off
    /\ ~late =>
         \A q \in Requests : Pending(q) /\ http[q].session = s =>
             http[q].by = attempt[s] /\ pc[s] \notin {"create", "launch"}
    /\ OwnRuntime(s)

Local(s) == CurrentKnown(s) /\ QueueKnown(s) /\ Served(s) /\ Launches(s)
AllLocal == \A s \in Sessions : Local(s)
EnvInv == Types /\ AllLocal

---------------------------------------------------------------------------
(* What the model writes, on its way to the runtime. *)

\* What is left of a generation once the worker has parsed it.
LEMMA OutputFacts ==
    ASSUME NEW input, NEW gen \in Generations
    PROVE  /\ GenerationOutput(input, gen).calls \in Seq([name : STRING, args : Arguments])
           /\ GenerationOutput(input, gen).finish \in FinishReasons
           /\ GenerationOutput(input, gen).syntax = "none" =>
                GenerationOutput(input, gen).visible = "none"
<1>1. /\ gen \in [syntax : Syntaxes, visible : Syntaxes,
                  written : Seq([name : STRING, args : Arguments]), finish : {"stop", "length"}]
      /\ gen.syntax = "none" => gen.visible = "none"
  BY EnvAssumption
<1>2. CASE ParsesCalls(input, gen)
  <2>1. /\ GenerationOutput(input, gen).calls = gen.written
        /\ GenerationOutput(input, gen).finish \in {"tool_calls", gen.finish}
        /\ GenerationOutput(input, gen).visible = "none"
    BY <1>2 DEF GenerationOutput
  <2>2. GenerationOutput(input, gen).finish \in FinishReasons
    BY <1>1, <2>1 DEF FinishReasons
  <2>3. gen.written \in Seq([name : STRING, args : Arguments])
    BY <1>1
  <2> QED BY <2>1, <2>2, <2>3
<1>3. CASE ~ParsesCalls(input, gen)
  <2>1. /\ GenerationOutput(input, gen).calls = <<>>
        /\ GenerationOutput(input, gen).finish = gen.finish
        /\ GenerationOutput(input, gen).syntax = gen.syntax
        /\ GenerationOutput(input, gen).visible = gen.visible
    BY <1>3 DEF GenerationOutput
  <2> QED BY <1>1, <2>1 DEF FinishReasons
<1> QED BY <1>2, <1>3

\* An element of a sequence.
LEMMA ElementFacts ==
    ASSUME NEW S, NEW s \in Seq(S), NEW i \in 1..Len(s)
    PROVE  s[i] \in S /\ i \in DOMAIN s
OBVIOUS

\* A list of calls whose arguments all decode.
LEMMA GoodCalls ==
    ASSUME NEW calls \in Seq([name : STRING, args : Arguments]),
           \A c \in ToSet(calls) : c.args = "object"
    PROVE  calls \in Seq(GoodCall)
<1>1. \A i \in 1..Len(calls) : calls[i] \in GoodCall
  <2> SUFFICES ASSUME NEW i \in 1..Len(calls) PROVE calls[i] \in GoodCall
    OBVIOUS
  <2>1. calls[i] \in [name : STRING, args : Arguments] /\ i \in DOMAIN calls
    BY ElementFacts
  <2>2. calls[i].args = "object"
    BY <2>1 DEF ToSet
  <2> QED BY <2>1, <2>2 DEF GoodCall
<1> QED BY <1>1

\* Once an output is validated, the adapter finds the calls the worker found: it parses
\* again only where there is no syntax left to find.  And they all decode.
LEMMA RespondsAsValidated ==
    ASSUME NEW chat \in ContextType, NEW output,
           output.calls \in Seq([name : STRING, args : Arguments]), output.finish \in FinishReasons,
           output.syntax = "none" => output.visible = "none",
           ~InvalidToolCall(output, GenerationInput(chat))
    PROVE  /\ output.calls \in Seq(GoodCall)
           /\ BuildResponse(chat, output).calls = output.calls
           /\ BuildResponse(chat, output) \in Told
<1>1. output.calls \in Seq(GoodCall)
  <2>1. CASE output.calls = <<>>
    BY <2>1
  <2>2. CASE output.calls # <<>>
    <3>1. \A c \in ToSet(output.calls) : c.args = "object"
      BY <2>2 DEF InvalidToolCall
    <3> QED BY <3>1, GoodCalls
  <2> QED BY <2>1, <2>2
<1>2. ResponseCalls(chat, output) = output.calls
  <2>1. CASE ParsesAgain(chat, output)
    <3>1. output.calls = <<>> /\ chat.tools
      BY <2>1 DEF ParsesAgain
    <3>2. output.syntax = "none"
      BY <3>1 DEF InvalidToolCall, GenerationInput, LooksLikeUnparsedToolCall
    <3> QED BY <3>2 DEF ResponseCalls, SplitReasoningText
  <2>2. CASE ~ParsesAgain(chat, output)
    BY <2>2 DEF ResponseCalls
  <2> QED BY <2>1, <2>2
<1>3. BuildResponse(chat, output).calls = output.calls
  BY <1>2 DEF BuildResponse
<1>4. BuildResponse(chat, output) \in Told
  <2>1. PICK finish \in {"tool_calls", output.finish} :
            BuildResponse(chat, output) = [calls |-> output.calls, finish |-> finish]
    BY <1>2 DEF BuildResponse
  <2>2. finish \in FinishReasons
    BY <2>1 DEF FinishReasons
  <2> QED BY <1>1, <2>1, <2>2 DEF Told
<1> QED BY <1>1, <1>3, <1>4

\* A request is sent with the messages its runtime knows of.
LEMMA SentFacts ==
    ASSUME NEW s \in Sessions, NEW by \in Nat, NEW b \in Bodies, NEW known \in Seq(GoodMessage)
    PROVE  /\ Handler(s, by, WithMessages(b, known)) \in Live
           /\ Handler(s, by, WithMessages(b, known)).st = "sent"
           /\ Handler(s, by, WithMessages(b, known)).session = s
           /\ Handler(s, by, WithMessages(b, known)).by = by
<1>1. b \in [context : ContextType, scoped : BOOLEAN, authorized : BOOLEAN]
  BY EnvAssumption
<1>2. WithMessages(b, known) \in BodyType
  BY <1>1 DEF WithMessages, BodyType
<1> QED BY <1>2 DEF Handler, Live

---------------------------------------------------------------------------
(* Handlers, queues and messages. *)

\* The kinds of handlers.
LEMMA HandlerFacts ==
    ASSUME Types, NEW q \in Requests
    PROVE  /\ http[q].st \in {"unused", "sent", "waiting", "answered"}
           /\ http[q].st = "unused" <=> http[q] = Unused
           /\ Pending(q) => http[q] \in Live
           /\ http[q].st = "answered" => http[q] \in Over
           /\ http[q] # Unused => http[q].session \in Sessions /\ http[q].by \in Nat
           /\ http[q].st = "waiting" <=> q \in requests
BY DEF Types, RegistryTypes, Pending, Unused, Live, Over

\* A handler that is answered.
LEMMA AnsweredFacts ==
    ASSUME NEW h \in Live \cup Over, NEW reply \in {Nothing, Error} \cup Told
    PROVE  /\ Answered(h, reply) \in Over /\ Answered(h, reply).st = "answered"
           /\ Answered(h, reply).session = h.session /\ Answered(h, reply).by = h.by
           /\ Answered(h, reply).reply = reply /\ Answered(h, reply) # Unused
BY DEF Answered, Live, Over, Unused

\* A message that is recorded.
LEMMA MessageFacts ==
    ASSUME NEW role \in {"user", "assistant", "tool"}, NEW calls \in Seq(GoodCall)
    PROVE  Message(role, calls) \in GoodMessage /\ Message(role, calls).calls = calls
BY DEF Message, GoodMessage

\* The messages without calls.
LEMMA PlainMessages ==
    /\ <<Message("user", <<>>)>> \in Seq(GoodMessage)
    /\ <<Message("assistant", <<>>)>> \in Seq(GoodMessage)
    /\ <<Message("assistant", <<>>), Message("user", <<>>)>> \in Seq(GoodMessage)
    /\ Message("tool", <<>>) \in GoodMessage
<1>1. <<>> \in Seq(GoodCall)
  OBVIOUS
<1>2. /\ Message("user", <<>>) \in GoodMessage /\ Message("assistant", <<>>) \in GoodMessage
      /\ Message("tool", <<>>) \in GoodMessage
  BY <1>1, MessageFacts
<1> QED BY <1>2

\* The first request of a queue, and the rest.
LEMMA HeadAndTail ==
    ASSUME NEW S, NEW s \in Seq(S), s # <<>>
    PROVE  /\ Head(s) \in S /\ Tail(s) \in Seq(S) /\ Head(s) = s[1] /\ 1 \in DOMAIN s
           /\ \A i \in DOMAIN Tail(s) : Tail(s)[i] = s[i + 1] /\ i + 1 \in DOMAIN s /\ i \in Int
           /\ \A i \in DOMAIN s : i # 1 => i - 1 \in DOMAIN Tail(s) /\ Tail(s)[i - 1] = s[i]
           /\ \A x \in ToSet(s) : x = Head(s) \/ x \in ToSet(Tail(s))
<1>1. /\ Head(s) \in S /\ Tail(s) \in Seq(S) /\ Head(s) = s[1] /\ 1 \in DOMAIN s
      /\ \A i \in DOMAIN Tail(s) : Tail(s)[i] = s[i + 1] /\ i + 1 \in DOMAIN s /\ i \in Int
      /\ \A i \in DOMAIN s : i # 1 => i - 1 \in DOMAIN Tail(s) /\ Tail(s)[i - 1] = s[i]
  OBVIOUS
<1>2. \A x \in ToSet(s) : x = Head(s) \/ x \in ToSet(Tail(s))
  BY <1>1 DEF ToSet
<1> QED BY <1>1, <1>2

\* A request at the end of a queue.
LEMMA AppendFacts ==
    ASSUME NEW S, NEW s \in Seq(S), NEW x \in S
    PROVE  /\ Append(s, x) \in Seq(S)
           /\ \A i \in DOMAIN Append(s, x) :
                 \/ i \in DOMAIN s /\ Append(s, x)[i] = s[i]
                 \/ i = Len(s) + 1 /\ Append(s, x)[i] = x
           /\ ToSet(s) \cup {x} \subseteq ToSet(Append(s, x))
<1>1. /\ Append(s, x) \in Seq(S)
      /\ \A i \in DOMAIN Append(s, x) :
            \/ i \in DOMAIN s /\ Append(s, x)[i] = s[i]
            \/ i = Len(s) + 1 /\ Append(s, x)[i] = x
      /\ \A i \in DOMAIN s : i \in DOMAIN Append(s, x) /\ Append(s, x)[i] = s[i]
      /\ Len(s) + 1 \in DOMAIN Append(s, x) /\ Append(s, x)[Len(s) + 1] = x
  OBVIOUS
<1> QED BY <1>1 DEF ToSet
---------------------------------------------------------------------------
(* What a step does to the handlers, and what it leaves alone. *)

\* A step leaves the handler of q alone or answers it.
Advanced(q) ==
    \/ http'[q] = http[q]
    \/ /\ http[q] # Unused /\ http'[q] \in Over
       /\ http'[q].session = http[q].session /\ http'[q].by = http[q].by

\* A step that sends or submits q for another session than t.
Foreign(q, t) ==
    /\ http[q] = Unused \/ http[q].session # t
    /\ http'[q] # Unused /\ http'[q].session # t

\* The environment of t and its runtime do not take part in a step.
Apart(t) ==
    /\ pc'[t] = pc[t] /\ current'[t] = current[t] /\ context'[t] = context[t]
    /\ attempt'[t] = attempt[t] /\ runtime'[t] = runtime[t]
    /\ t \in Open <=> t \in Open'
    /\ t \in Open => queue'[t] = queue[t]

\* An advanced handler of session t that is pending afterwards was so before.
LEMMA AdvancedFacts ==
    ASSUME RegistryTypes, RegistryTypes', NEW q \in Requests, Advanced(q)
    PROVE  /\ http[q] # Unused =>
                http'[q] # Unused /\ http'[q].session = http[q].session /\ http'[q].by = http[q].by
           /\ http[q].st \in {"waiting", "answered"} => http'[q].st \in {"waiting", "answered"}
           /\ Pending(q)' => http'[q] = http[q] /\ Pending(q)
           /\ q \in requests' => q \in requests /\ http'[q] = http[q]
BY DEF RegistryTypes, Advanced, Pending, Over, Live, Unused

\* A queue that is not changed.
LEMMA QueueKept ==
    ASSUME RegistryTypes, RegistryTypes', NEW t \in Sessions, QueueKnown(t),
           t \in Open' => t \in Open /\ queue'[t] = queue[t],
           \A q \in Requests : Advanced(q) \/ Foreign(q, t)
    PROVE  QueueKnown(t)'
<1> SUFFICES ASSUME t \in Open', t \in Open, queue'[t] = queue[t]
             PROVE  /\ \A i \in DOMAIN queue[t] :
                          /\ http'[queue[t][i]].st \in {"waiting", "answered"}
                          /\ http'[queue[t][i]].session = t
                    /\ \A i, j \in DOMAIN queue[t] : queue[t][i] = queue[t][j] => i = j
  BY DEF QueueKnown
<1>1. \A i, j \in DOMAIN queue[t] : queue[t][i] = queue[t][j] => i = j
  BY DEF QueueKnown
<1>2. ASSUME NEW i \in DOMAIN queue[t]
      PROVE  /\ http'[queue[t][i]].st \in {"waiting", "answered"}
             /\ http'[queue[t][i]].session = t
  <2>1. /\ queue[t][i] \in Requests /\ http[queue[t][i]].st \in {"waiting", "answered"}
        /\ http[queue[t][i]].session = t
    BY DEF QueueKnown, RegistryTypes
  <2>2. http[queue[t][i]] # Unused
    BY <2>1 DEF Unused
  <2> QED BY <2>1, <2>2, AdvancedFacts DEF Foreign
<1> QED BY <1>1, <1>2

\* A session that stays with its launch, and may let go of its request.
LEMMA LaunchKept ==
    ASSUME Types, RegistryTypes', NEW t \in Sessions, CurrentKnown(t), Launches(t), late' = late,
           \A q \in Requests : Advanced(q) \/ Foreign(q, t),
           attempt'[t] = attempt[t], current'[t] \in {current[t], NoRequest},
           runtime'[t] \in {runtime[t], Off, Thinking},
           pc'[t] \in {"create", "launch"} => pc[t] \in {"create", "launch"} /\ runtime'[t] = Off
    PROVE  /\ Launches(t)'
           /\ current'[t] \in Requests =>
                http'[current'[t]] # Unused /\ http'[current'[t]].session = t
           /\ runtime'[t] \in Requests => http'[runtime'[t]] # Unused
<1>0. RegistryTypes
  BY DEF Types
<1>1. NoRequest \notin Requests /\ Off \notin Requests /\ Thinking \notin Requests
  BY EnvAssumption DEF NoRequest, Off, Thinking
<1>2. ASSUME current'[t] \in Requests
      PROVE  /\ current'[t] = current[t]
             /\ http'[current[t]] # Unused /\ http'[current[t]].session = t
             /\ http'[current[t]].by = http[current[t]].by
  BY <1>0, <1>1, <1>2, AdvancedFacts DEF CurrentKnown, Foreign
<1>3. ASSUME runtime'[t] \in Requests PROVE http'[runtime'[t]] # Unused
  <2>1. runtime'[t] = runtime[t] /\ http[runtime[t]] # Unused
    BY <1>1, <1>3 DEF CurrentKnown
  <2> QED BY <1>0, <1>3, <2>1, AdvancedFacts DEF Foreign
<1>4. ASSUME ~late, NEW q \in Requests, Pending(q)', http'[q].session = t
      PROVE  http'[q].by = attempt'[t] /\ pc'[t] \notin {"create", "launch"}
  <2>1. Pending(q) /\ http[q].session = t /\ http'[q] = http[q]
    BY <1>0, <1>4, AdvancedFacts DEF Foreign
  <2> QED BY <1>4, <2>1 DEF Launches
<1>5. OwnRuntime(t)'
  <2>1. CASE late \/ current'[t] = NoRequest
    BY <2>1 DEF OwnRuntime
  <2>2. CASE ~late /\ current'[t] # NoRequest
    <3>1. current'[t] \in Requests /\ current'[t] = current[t]
      BY <2>2 DEF Types, EnvTypes
    <3>2. http[current[t]].by = attempt[t]
      BY <2>2, <3>1 DEF Launches, OwnRuntime
    <3> QED BY <1>2, <3>1, <3>2 DEF OwnRuntime
  <2> QED BY <2>1, <2>2
<1> QED BY <1>2, <1>3, <1>4, <1>5 DEF Launches

\* Its registered requests were registered before.
LEMMA RegisteredKept ==
    ASSUME RegistryTypes, RegistryTypes', NEW t \in Sessions,
           \A q \in Requests : Advanced(q) \/ Foreign(q, t)
    PROVE  \A q \in requests' : http'[q].session = t => q \in requests /\ http[q].session = t
<1> SUFFICES ASSUME NEW q \in requests', http'[q].session = t
             PROVE  q \in requests /\ http[q].session = t
  OBVIOUS
<1>1. q \in Requests
  BY DEF RegistryTypes
<1> QED BY <1>1, AdvancedFacts DEF Foreign

\* What holds of a session that takes no part in a step goes on to hold.
LEMMA Elsewhere ==
    ASSUME Types, RegistryTypes', NEW t \in Sessions, Local(t), Apart(t), late' = late,
           \A q \in Requests : Advanced(q) \/ Foreign(q, t)
    PROVE  Local(t)'
<1>0. RegistryTypes
  BY DEF Types
<1>1. QueueKnown(t)'
  BY <1>0, QueueKept DEF Local, Apart
<1>2. /\ Launches(t)'
      /\ current'[t] \in Requests =>
           http'[current'[t]] # Unused /\ http'[current'[t]].session = t
      /\ runtime'[t] \in Requests => http'[runtime'[t]] # Unused
  <2>1. /\ current'[t] \in {current[t], NoRequest} /\ runtime'[t] \in {runtime[t], Off, Thinking}
        /\ attempt'[t] = attempt[t]
        /\ pc'[t] \in {"create", "launch"} =>
             pc[t] \in {"create", "launch"} /\ runtime'[t] = Off
    BY DEF Apart, Local, Launches
  <2> QED BY <2>1, LaunchKept DEF Local
<1>3. CurrentKnown(t)'
  BY <1>2 DEF Local, CurrentKnown, Apart
<1>4. \A q \in requests' : http'[q].session = t => q \in requests /\ http[q].session = t
  BY <1>0, RegisteredKept
<1>5. Served(t)'
  BY <1>4 DEF Local, Served, Apart
<1> QED BY <1>1, <1>2, <1>3, <1>5 DEF Local

---------------------------------------------------------------------------
(* What the operations of the registry do. *)

\* Every request is answered as the trace records it.
AnswersAgree == \A t \in Sessions : ToldAsRecorded(t)

\* A step that answers no request, or with errors only, has nothing to record.
Silent == \A q \in Requests : Pending(q) => http'[q].reply \in {Nothing, Error}

\* What a step must establish about the registry's own part.
Ordinary ==
    /\ RegistryTypes' /\ \A q \in Requests : Advanced(q)
    /\ Silent

\* A silent step agrees with the trace.
LEMMA SilentAgrees ==
    ASSUME Types, Silent
    PROVE  AnswersAgree
BY HandlerFacts DEF AnswersAgree, ToldAsRecorded, Silent, Of, Pending, Types, RegistryTypes

\* A step that leaves the handlers alone.
LEMMA KeptFacts ==
    ASSUME Types, http' = http, requests' = requests,
           Open' \subseteq Sessions, \A s \in Open' : queue'[s] \in Seq(Requests)
    PROVE  Ordinary
<1>1. RegistryTypes'
  BY DEF Types, RegistryTypes
<1>2. Silent
  BY HandlerFacts DEF Silent, Live
<1> QED BY <1>1, <1>2 DEF Ordinary, Advanced

\* The futures of some requests are resolved.
LEMMA ResolvedFacts ==
    ASSUME Types, NEW qs, NEW reply \in {Error} \cup Told, Resolved(qs, reply),
           Open' \subseteq Sessions, \A s \in Open' : queue'[s] \in Seq(Requests)
    PROVE  /\ RegistryTypes'
           /\ \A q \in Requests : Advanced(q)
           /\ requests' = requests \ qs
           /\ \A q \in qs \cap requests : http'[q] = Answered(http[q], reply)
           /\ \A q \in Requests : q \notin qs \cap requests => http'[q] = http[q]
<1>1. \A q \in Requests :
        /\ q \in qs \cap requests => http'[q] = Answered(http[q], reply)
        /\ q \notin qs \cap requests => http'[q] = http[q]
  BY DEF Resolved
<1>2. requests \subseteq Requests
  BY DEF Types, RegistryTypes
<1>3. ASSUME NEW q \in Requests, q \in qs \cap requests
      PROVE  /\ http[q] \in Live /\ http[q] # Unused /\ http'[q] \in Over
             /\ http'[q].st = "answered"
             /\ http'[q].session = http[q].session /\ http'[q].by = http[q].by
  <2>1. Pending(q) /\ http[q] \in Live /\ http[q] # Unused
    BY <1>3, HandlerFacts DEF Pending, Unused
  <2> QED BY <1>1, <1>3, <2>1, AnsweredFacts
<1>4. \A q \in Requests : Advanced(q)
  BY <1>1, <1>3 DEF Advanced
<1>5. http' \in [Requests -> {Unused} \cup Live \cup Over]
  <2>1. http' = [q \in Requests |-> http'[q]]
    BY DEF Resolved
  <2>2. \A q \in Requests : http'[q] \in {Unused} \cup Live \cup Over
    BY <1>1, <1>3 DEF Types, RegistryTypes
  <2> QED BY <2>1, <2>2
<1>6. requests' = {q \in Requests : http'[q].st = "waiting"}
  BY <1>1, <1>3, <1>2 DEF Resolved, Types, RegistryTypes
<1> QED BY <1>1, <1>2, <1>4, <1>5, <1>6 DEF RegistryTypes, Resolved

\* Requests are resolved with an error.
LEMMA FailedFacts ==
    ASSUME Types, NEW qs, Resolved(qs, Error),
           Open' \subseteq Sessions, \A s \in Open' : queue'[s] \in Seq(Requests)
    PROVE  Ordinary
<1>1. /\ RegistryTypes'
      /\ \A q \in Requests : Advanced(q)
      /\ \A q \in qs \cap requests : http'[q] = Answered(http[q], Error)
      /\ \A q \in Requests : q \notin qs \cap requests => http'[q] = http[q]
  BY ResolvedFacts
<1>2. ASSUME NEW q \in Requests, Pending(q) PROVE http'[q].reply \in {Nothing, Error}
  <2>1. http[q] \in Live
    BY <1>2, HandlerFacts
  <2>2. CASE q \in qs \cap requests
    BY <1>1, <2>1, <2>2, AnsweredFacts
  <2>3. CASE q \notin qs \cap requests
    BY <1>1, <2>1, <2>3 DEF Live
  <2> QED BY <2>2, <2>3
<1> QED BY <1>1, <1>2 DEF Ordinary, Silent

\* A session is closed: none of its requests waits, and none can enter.
LEMMA CloseFacts ==
    ASSUME Types, NEW s \in Sessions, CloseSession(s)
    PROVE  /\ Ordinary
           /\ s \notin Open'
           /\ \A t \in Sessions : t # s =>
                (t \in Open <=> t \in Open') /\ (t \in Open => queue'[t] = queue[t])
           /\ \A q \in requests' : http'[q].session # s
<1>1. queue' = [x \in Open \ {s} |-> queue[x]] /\ Resolved(Of(s), Error)
  BY DEF CloseSession
<1>2. Open' = Open \ {s} /\ \A t \in Open \ {s} : queue'[t] = queue[t]
  BY <1>1 DEF Open
<1>3. Open' \subseteq Sessions /\ \A t \in Open' : queue'[t] \in Seq(Requests)
  BY <1>2 DEF Types, RegistryTypes
<1>4. Ordinary
  BY <1>1, <1>3, FailedFacts
<1>5. ASSUME NEW q \in requests' PROVE http'[q].session # s
  <2>0. q \in requests /\ q \notin Of(s)
    BY <1>1 DEF Resolved
  <2>1. q \in Requests /\ http'[q] = http[q]
    BY <1>1, <2>0 DEF Resolved, Types, RegistryTypes
  <2>2. http[q] # Unused
    BY <2>0, <2>1 DEF Types, RegistryTypes, Unused
  <2> QED BY <2>0, <2>1, <2>2 DEF Of
<1> QED BY <1>2, <1>4, <1>5

\* The runtime is terminated: what it has sent is lost with it, unless late.
LEMMA TerminateFacts ==
    ASSUME Types, NEW s \in Sessions, TerminateRuntime(s)
    PROVE  /\ Ordinary
           /\ requests' = requests /\ queue' = queue
           /\ \A q \in requests' : http'[q] = http[q]
           /\ ~late => \A q \in Requests : Pending(q)' /\ http'[q].session = s => q \in requests
<1> DEFINE Lost(q) == ~late /\ q \in Of(s) /\ http[q].st = "sent"
<1>1. \A q \in Requests : /\ Lost(q) => http'[q] = Answered(http[q], Error)
                          /\ ~Lost(q) => http'[q] = http[q]
  BY DEF TerminateRuntime
<1>2. http' = [q \in Requests |-> http'[q]]
  BY DEF TerminateRuntime
<1> HIDE DEF Lost
<1>3. ASSUME NEW q \in Requests, Lost(q)
      PROVE  /\ http[q] \in Live /\ http[q] # Unused /\ http'[q] \in Over
             /\ http'[q].st = "answered" /\ http'[q].reply = Error /\ http[q].st = "sent"
             /\ http'[q].session = http[q].session /\ http'[q].by = http[q].by
  <2>1. http[q].st = "sent"
    BY <1>3 DEF Lost
  <2>2. http[q] \in Live /\ http[q] # Unused
    BY <2>1, HandlerFacts DEF Pending, Unused
  <2> QED BY <1>1, <1>3, <2>1, <2>2, AnsweredFacts
<1>4. requests' = requests /\ queue' = queue
  BY DEF TerminateRuntime
<1>5. RegistryTypes'
  <2>1. http' \in [Requests -> {Unused} \cup Live \cup Over]
    <3>1. \A q \in Requests : http'[q] \in {Unused} \cup Live \cup Over
      BY <1>1, <1>3 DEF Types, RegistryTypes
    <3> QED BY <1>2, <3>1
  <2>2. requests' = {q \in Requests : http'[q].st = "waiting"}
    BY <1>1, <1>3, <1>4 DEF Types, RegistryTypes
  <2>3. Open' \subseteq Sessions /\ \A t \in Open' : queue'[t] \in Seq(Requests)
    BY <1>4 DEF Types, RegistryTypes, Open
  <2> QED BY <2>1, <2>2, <2>3 DEF RegistryTypes
<1>6. \A q \in Requests : Advanced(q)
  BY <1>1, <1>3 DEF Advanced
<1>7. Silent
  BY <1>1, <1>3, HandlerFacts DEF Silent, Live
<1>8. \A q \in requests' : http'[q] = http[q]
  BY <1>1, <1>3, <1>4 DEF Types, RegistryTypes
<1>9. ASSUME ~late, NEW q \in Requests, Pending(q)', http'[q].session = s
      PROVE  q \in requests
  <2>1. ~Lost(q) /\ http'[q] = http[q]
    BY <1>1, <1>3, <1>9 DEF Pending
  <2>2. http[q].st # "sent"
    <3>1. http[q] # Unused
      BY <1>9, <2>1 DEF Pending, Unused
    <3> QED BY <1>9, <2>1, <3>1 DEF Lost, Of
  <2>3. http[q].st = "waiting"
    BY <1>9, <2>1, <2>2 DEF Pending
  <2> QED BY <2>3, HandlerFacts
<1> QED BY <1>4, <1>5, <1>6, <1>7, <1>8, <1>9 DEF Ordinary

\* A request leaves the queue of its session.
LEMMA TailFacts ==
    ASSUME Types, NEW s \in Sessions, s \in Open, queue[s] # <<>>, QueueKnown(s),
           queue' = [queue EXCEPT ![s] = Tail(@)], requests' = requests, http' = http
    PROVE  /\ Ordinary
           /\ Head(queue[s]) \in Requests
           /\ http[Head(queue[s])].session = s
           /\ Open' = Open
           /\ \A t \in Open : t # s => queue'[t] = queue[t]
           /\ QueueKnown(s)'
           /\ \A q \in ToSet(queue[s]) : q = Head(queue[s]) \/ q \in ToSet(queue'[s])
<1>1. queue[s] \in Seq(Requests)
  BY DEF Types, RegistryTypes
<1>2. /\ Open' = Open /\ queue'[s] = Tail(queue[s])
      /\ \A t \in Open : t # s => queue'[t] = queue[t]
  BY DEF Open
<1>3. /\ Head(queue[s]) \in Requests /\ Tail(queue[s]) \in Seq(Requests)
      /\ Head(queue[s]) = queue[s][1] /\ 1 \in DOMAIN queue[s]
      /\ \A i \in DOMAIN Tail(queue[s]) :
            Tail(queue[s])[i] = queue[s][i + 1] /\ i + 1 \in DOMAIN queue[s] /\ i \in Int
      /\ \A q \in ToSet(queue[s]) : q = Head(queue[s]) \/ q \in ToSet(Tail(queue[s]))
  BY <1>1, HeadAndTail
<1>4. Open' \subseteq Sessions /\ \A t \in Open' : queue'[t] \in Seq(Requests)
  BY <1>2, <1>3 DEF Types, RegistryTypes
<1>5. Ordinary
  BY <1>4, KeptFacts
<1>6. QueueKnown(s)'
  <2>1. ASSUME NEW i \in DOMAIN Tail(queue[s])
        PROVE  /\ http'[queue'[s][i]].st \in {"waiting", "answered"}
               /\ http'[queue'[s][i]].session = s
    BY <1>2, <1>3, <2>1 DEF QueueKnown
  <2>2. ASSUME NEW i \in DOMAIN Tail(queue[s]), NEW j \in DOMAIN Tail(queue[s]),
               queue'[s][i] = queue'[s][j]
        PROVE  i = j
    <3>1. i + 1 = j + 1 /\ i \in Int /\ j \in Int
      BY <1>2, <1>3, <2>2 DEF QueueKnown
    <3> QED BY <3>1
  <2> QED BY <1>2, <2>1, <2>2 DEF QueueKnown
<1>7. http[Head(queue[s])].session = s
  BY <1>3 DEF QueueKnown
<1> QED BY <1>2, <1>3, <1>5, <1>6, <1>7

\* The environment of s takes q: a pending request of its session and its launch.
LEMMA WaitFacts ==
    ASSUME Types, NEW s \in Sessions, Local(s), NEW q \in Requests, WaitForRequest(s, q)
    PROVE  /\ Ordinary
           /\ requests' = requests /\ http' = http /\ Open' = Open
           /\ \A t \in Open : t # s => queue'[t] = queue[t]
           /\ QueueKnown(s)'
           /\ s \in Open
           /\ \A p \in ToSet(queue[s]) : p = q \/ p \in ToSet(queue'[s])
           /\ http[q] \in Live /\ http[q] # Unused /\ http[q].session = s
           /\ ~late => http[q].by = attempt[s]
<1>1. /\ s \in Open /\ queue[s] # <<>> /\ Head(queue[s]) = q /\ q \in requests
      /\ queue' = [queue EXCEPT ![s] = Tail(@)] /\ requests' = requests /\ http' = http
      /\ QueueKnown(s)
  BY DEF WaitForRequest, Local
<1>2. /\ Ordinary /\ http[q].session = s /\ Open' = Open
      /\ \A t \in Open : t # s => queue'[t] = queue[t]
      /\ QueueKnown(s)'
      /\ \A p \in ToSet(queue[s]) : p = q \/ p \in ToSet(queue'[s])
  BY <1>1, TailFacts
<1>3. Pending(q) /\ http[q] \in Live /\ http[q] # Unused
  <2>1. http[q].st = "waiting"
    BY <1>1, HandlerFacts
  <2> QED BY <2>1, HandlerFacts DEF Pending, Unused
<1>4. ~late => http[q].by = attempt[s]
  BY <1>2, <1>3 DEF Local, Launches
<1> QED BY <1>1, <1>2, <1>3, <1>4

---------------------------------------------------------------------------
(* The steps of the environment. *)

\* It suffices to look at the session whose environment or runtime takes the step.
LEMMA OneSession ==
    ASSUME EnvInv, NEW s \in Sessions, Ordinary, EnvTypes', late' = late,
           \A t \in Sessions : t # s => Apart(t),
           Local(s)'
    PROVE  EnvInv'
<1>1. Types /\ RegistryTypes' /\ \A q \in Requests : Advanced(q)
  BY DEF EnvInv, Ordinary
<1>2. ASSUME NEW t \in Sessions, t # s PROVE Local(t)'
  BY <1>1, <1>2, Elsewhere DEF EnvInv, AllLocal
<1> QED BY <1>1, <1>2 DEF EnvInv, AllLocal, Types

\* A session is created when no request of its name waits.
LEMMA CreateStep ==
    ASSUME EnvInv, NEW s \in Sessions, Create(s), late' = late
    PROVE  EnvInv' /\ AnswersAgree
<1>1. Types /\ Local(s) /\ pc[s] = "create"
  BY DEF EnvInv, AllLocal, Create
<1>2. /\ requests' = requests /\ http' = http
      /\ queue' = [x \in Open \cup {s} |-> IF x = s THEN <<>> ELSE queue[x]]
      /\ pc' = [pc EXCEPT ![s] = "launch"]
      /\ UNCHANGED <<current, context, trace, history, attempt, runtime>>
  BY DEF Create, CreateSession, Goto
<1>3. /\ Open' = Open \cup {s} /\ queue'[s] = <<>>
      /\ \A t \in Open : t # s => queue'[t] = queue[t]
  BY <1>2 DEF Open
<1>4. Ordinary
  <2>1. Open' \subseteq Sessions /\ \A t \in Open' : queue'[t] \in Seq(Requests)
    <3>1. <<>> \in Seq(Requests)
      OBVIOUS
    <3>2. \A t \in Open' : t # s => t \in Open /\ queue'[t] \in Seq(Requests)
      BY <1>1, <1>3 DEF Types, RegistryTypes
    <3> QED BY <1>1, <1>3, <3>1, <3>2 DEF Types, RegistryTypes
  <2> QED BY <1>1, <1>2, <2>1, KeptFacts
<1>5. EnvTypes'
  BY <1>1, <1>2 DEF Types, EnvTypes, Labels
<1>6. \A t \in Sessions : t # s => Apart(t)
  BY <1>1, <1>2, <1>3 DEF Apart, Types, EnvTypes
<1>7. pc'[s] = "launch"
  BY <1>1, <1>2 DEF Types, EnvTypes
<1>8. Local(s)'
  <2>1. CurrentKnown(s)' /\ Launches(s)'
    BY <1>1, <1>2, <1>7 DEF Local, CurrentKnown, Launches, OwnRuntime, Pending
  <2>2. QueueKnown(s)'
    BY <1>3 DEF QueueKnown
  <2>3. Served(s)'
    BY <1>1, <1>2, <1>7 DEF Local, Served
  <2> QED BY <2>1, <2>2, <2>3 DEF Local
<1> QED BY <1>1, <1>4, <1>5, <1>6, <1>8, OneSession, SilentAgrees DEF Ordinary

\* A runtime is launched while none runs and no request of an earlier one is left.
LEMMA LaunchStep ==
    ASSUME EnvInv, NEW s \in Sessions, Launch(s), late' = late
    PROVE  EnvInv' /\ AnswersAgree
<1>1. Types /\ Local(s) /\ pc[s] = "launch"
  BY DEF EnvInv, AllLocal, Launch
<1>2. /\ requests' = requests /\ http' = http /\ queue' = queue
      /\ attempt' = [attempt EXCEPT ![s] = @ + 1]
      /\ UNCHANGED <<current, context, trace>>
  BY DEF Launch, registryVars
<1>3. PICK label \in {"initial", "retry"} :
        /\ pc' = [pc EXCEPT ![s] = label]
        /\ \/ /\ runtime' = [runtime EXCEPT ![s] = Thinking]
              /\ history' = [history EXCEPT ![s] = <<Message("user", <<>>)>>]
           \/ runtime' = runtime /\ history' = history
  BY DEF Launch, Goto
<1>4. Ordinary
  BY <1>1, <1>2, KeptFacts DEF Types, RegistryTypes, Open
<1>5. EnvTypes'
  <2>1. pc' \in [Sessions -> Labels]
    BY <1>1, <1>3 DEF Types, EnvTypes, Labels
  <2>2. attempt' \in [Sessions -> Nat]
    BY <1>1, <1>2 DEF Types, EnvTypes
  <2>3. runtime' \in [Sessions -> Requests \cup {Off, Thinking}]
    BY <1>1, <1>3 DEF Types, EnvTypes
  <2>4. history' \in [Sessions -> Seq(GoodMessage)]
    BY <1>1, <1>3, PlainMessages DEF Types, EnvTypes
  <2> QED BY <1>1, <1>2, <2>1, <2>2, <2>3, <2>4 DEF Types, EnvTypes
<1>6. \A t \in Sessions : t # s => Apart(t)
  BY <1>1, <1>2, <1>3 DEF Apart, Types, EnvTypes, Open
<1>7. pc'[s] = label /\ runtime'[s] \in {runtime[s], Thinking} /\ current'[s] = NoRequest
  BY <1>1, <1>2, <1>3 DEF Types, EnvTypes, Local, CurrentKnown
<1>8. Local(s)'
  <2>1. CurrentKnown(s)'
    <3>1. Thinking \notin Requests /\ NoRequest \notin Requests
      BY EnvAssumption DEF Thinking, NoRequest
    <3> QED BY <1>1, <1>2, <1>3, <1>7, <3>1 DEF Local, CurrentKnown
  <2>2. QueueKnown(s)'
    BY <1>1, <1>2 DEF Local, QueueKnown, Open
  <2>3. Served(s)'
    BY <1>1, <1>2, <1>7 DEF Local, Served, Open, CurrentKnown
  <2>4. Launches(s)'
    BY <1>1, <1>2, <1>7 DEF Local, Launches, OwnRuntime, Pending
  <2> QED BY <2>1, <2>2, <2>3, <2>4 DEF Local
<1> QED BY <1>1, <1>2, <1>4, <1>5, <1>6, <1>8, OneSession, SilentAgrees DEF Ordinary

\* The environment takes a request, and answers it next or lets it go with its session.
LEMMA TakeRequest ==
    ASSUME EnvInv, NEW s \in Sessions, NEW q \in Requests, WaitForRequest(s, q),
           pc[s] \in {"initial", "next"},
           NEW label \in {"act", "fail", "retry", "close", "raised"},
           pc' = [pc EXCEPT ![s] = label],
           \/ SetCurrent(s, q)
           \/ UNCHANGED <<current, context>> /\ label \in {"retry", "close", "raised"},
           trace' \in [Sessions -> Seq(GoodMessage)],
           UNCHANGED <<history, attempt, runtime, late>>
    PROVE  EnvInv' /\ AnswersAgree
<1>1. Types /\ Local(s) /\ RegistryTypes
  BY DEF EnvInv, AllLocal, Types
<1>2. /\ Ordinary
      /\ requests' = requests /\ http' = http /\ Open' = Open
      /\ \A t \in Open : t # s => queue'[t] = queue[t]
      /\ QueueKnown(s)'
      /\ s \in Open
      /\ \A p \in ToSet(queue[s]) : p = q \/ p \in ToSet(queue'[s])
      /\ http[q] \in Live /\ http[q] # Unused /\ http[q].session = s
      /\ ~late => http[q].by = attempt[s]
  BY <1>1, WaitFacts
<1>3. /\ pc'[s] = label /\ attempt'[s] = attempt[s] /\ runtime'[s] = runtime[s]
      /\ current[s] = NoRequest
  BY <1>1 DEF Types, EnvTypes, Local, CurrentKnown
<1>4. \/ current'[s] = q /\ context'[s] \in ContextType
      \/ current'[s] = NoRequest /\ label \in {"retry", "close", "raised"}
  <2>1. http[q].body.context \in ContextType
    BY <1>2 DEF Live, BodyType
  <2> QED BY <1>1, <1>3, <2>1 DEF SetCurrent, Types, EnvTypes
<1>5. EnvTypes'
  <2>1. http[q].body.context \in ContextType
    BY <1>2 DEF Live, BodyType
  <2>2. pc' \in [Sessions -> Labels]
    BY <1>1 DEF Types, EnvTypes, Labels
  <2>3. /\ current' \in [Sessions -> Requests \cup {NoRequest}]
        /\ context' \in [Sessions -> ContextType \cup {Nothing}]
    BY <1>1, <2>1 DEF SetCurrent, Types, EnvTypes
  <2> QED BY <1>1, <2>2, <2>3 DEF Types, EnvTypes
<1>6. \A t \in Sessions : t # s => Apart(t)
  BY <1>1, <1>2 DEF Apart, Types, EnvTypes, SetCurrent
<1>7. Local(s)'
  <2>1. CurrentKnown(s)'
    BY <1>1, <1>2, <1>3, <1>4 DEF Local, CurrentKnown
  <2>2. Served(s)'
    <3>1. ASSUME NEW p \in requests, http[p].session = s
          PROVE  p = q \/ p \in ToSet(queue'[s])
      <4>1. p \in ToSet(queue[s])
        <5>1. p # NoRequest
          BY <1>1, EnvAssumption DEF RegistryTypes, NoRequest
        <5> QED BY <1>1, <1>3, <3>1, <5>1 DEF Local, Served
      <4> QED BY <1>2, <4>1
    <3> QED BY <1>2, <1>3, <1>4, <3>1 DEF Served
  <2>3. Launches(s)'
    BY <1>1, <1>2, <1>3, <1>4 DEF Local, Launches, OwnRuntime, Pending
  <2> QED BY <1>2, <2>1, <2>2, <2>3 DEF Local
<1> QED BY <1>1, <1>2, <1>5, <1>6, <1>7, OneSession, SilentAgrees DEF Ordinary

\* The messages of a request that is registered, as the trace takes them over.
LEMMA ObservedMessages ==
    ASSUME EnvInv, NEW s \in Sessions, NEW q \in Requests, WaitForRequest(s, q)
    PROVE  http[q].body.messages \in Seq(GoodMessage)
<1>1. Types /\ Local(s)
  BY DEF EnvInv, AllLocal
<1>2. http[q] \in Live
  BY <1>1, WaitFacts
<1> QED BY <1>2 DEF Live, BodyType

\* Messages are recorded.
LEMMA RecordedFacts ==
    ASSUME Types, NEW s \in Sessions, NEW messages \in Seq(GoodMessage)
    PROVE  /\ Recorded(s, messages) =>
                trace' \in [Sessions -> Seq(GoodMessage)] /\ trace'[s] = trace[s] \o messages
           /\ trace' = [trace EXCEPT ![s] = <<>>] => trace' \in [Sessions -> Seq(GoodMessage)]
<1>1. trace \in [Sessions -> Seq(GoodMessage)]
  BY DEF Types, EnvTypes
<1>2. trace[s] \o messages \in Seq(GoodMessage) /\ <<>> \in Seq(GoodMessage)
  BY <1>1
<1> QED BY <1>1, <1>2 DEF Recorded

\* The first request of a launch.
LEMMA InitialRequestStep ==
    ASSUME EnvInv, NEW s \in Sessions, InitialRequest(s), late' = late
    PROVE  EnvInv' /\ AnswersAgree
<1>1. Types
  BY DEF EnvInv
<1>2. PICK q \in Requests :
        /\ WaitForRequest(s, q)
        /\ \/ Converts(q) /\ Observe(s, q) /\ Goto(s, "act")
           \/ Converts(q) /\ SetCurrent(s, q) /\ Leave(s, "raised")
           \/ Goto(s, "retry") /\ UNCHANGED <<current, context, trace>>
  BY DEF InitialRequest
<1>3. pc[s] \in {"initial", "next"} /\ UNCHANGED <<history, attempt, runtime, late>>
  BY DEF InitialRequest
<1>4. trace' \in [Sessions -> Seq(GoodMessage)]
  BY <1>1, <1>2, ObservedMessages, RecordedFacts DEF Observe, Leave, Types, EnvTypes
<1>5. CASE Observe(s, q) /\ Goto(s, "act")
  BY <1>2, <1>3, <1>4, <1>5, TakeRequest DEF Observe, Goto
<1>6. CASE SetCurrent(s, q) /\ Leave(s, "raised")
  BY <1>2, <1>3, <1>4, <1>6, TakeRequest DEF Leave
<1>7. CASE Goto(s, "retry") /\ UNCHANGED <<current, context, trace>>
  BY <1>2, <1>3, <1>4, <1>7, TakeRequest DEF Goto
<1> QED BY <1>2, <1>5, <1>6, <1>7

\* The next request.
LEMMA NextRequestStep ==
    ASSUME EnvInv, NEW s \in Sessions, NextRequest(s), late' = late
    PROVE  EnvInv' /\ AnswersAgree
<1>1. Types
  BY DEF EnvInv
<1>2. PICK q \in Requests :
        /\ WaitForRequest(s, q)
        /\ \/ Converts(q) /\ Observe(s, q) /\ Goto(s, "act")
           \/ Converts(q) /\ ObserveTooLong(s, q) /\ Goto(s, "fail")
           \/ Leave(s, "raised") /\ UNCHANGED <<current, context>>
           \/ /\ Goto(s, "close")
              /\ Recorded(s, <<Message("user", <<>>)>>)
              /\ UNCHANGED <<current, context>>
  BY DEF NextRequest
<1>3. pc[s] \in {"initial", "next"} /\ UNCHANGED <<history, attempt, runtime, late>>
  BY DEF NextRequest
<1>4. trace' \in [Sessions -> Seq(GoodMessage)]
  BY <1>1, <1>2, ObservedMessages, RecordedFacts, PlainMessages
     DEF Observe, ObserveTooLong, Leave, Types, EnvTypes
<1>5. CASE Observe(s, q) /\ Goto(s, "act")
  BY <1>2, <1>3, <1>4, <1>5, TakeRequest DEF Observe, Goto
<1>6. CASE ObserveTooLong(s, q) /\ Goto(s, "fail")
  BY <1>2, <1>3, <1>4, <1>6, TakeRequest DEF ObserveTooLong, Goto
<1>7. CASE Leave(s, "raised") /\ UNCHANGED <<current, context>>
  BY <1>2, <1>3, <1>4, <1>7, TakeRequest DEF Leave
<1>8. CASE Goto(s, "close") /\ UNCHANGED <<current, context>>
  BY <1>2, <1>3, <1>4, <1>8, TakeRequest DEF Goto
<1> QED BY <1>2, <1>5, <1>6, <1>7, <1>8

\* A wait times out, and the session is to be closed.
LEMMA TimeoutStep ==
    ASSUME EnvInv, NEW s \in Sessions, InitialTimeout(s) \/ NextTimeout(s), late' = late
    PROVE  EnvInv' /\ AnswersAgree
<1>1. Types /\ Local(s)
  BY DEF EnvInv, AllLocal
<1>2. /\ UNCHANGED <<queue, requests, http, current, context, history, attempt, runtime>>
      /\ pc[s] \in {"initial", "next"}
  BY DEF InitialTimeout, NextTimeout, registryVars
<1>3. PICK label \in {"retry", "close"} : pc' = [pc EXCEPT ![s] = label]
  BY DEF InitialTimeout, NextTimeout, Goto
<1>4. trace' \in [Sessions -> Seq(GoodMessage)]
  BY <1>1, RecordedFacts, PlainMessages DEF InitialTimeout, NextTimeout, Types, EnvTypes
<1>5. Ordinary
  BY <1>1, <1>2, KeptFacts DEF Types, RegistryTypes, Open
<1>6. EnvTypes'
  BY <1>1, <1>2, <1>3, <1>4 DEF Types, EnvTypes, Labels
<1>7. \A t \in Sessions : t # s => Apart(t)
  BY <1>1, <1>2, <1>3 DEF Apart, Types, EnvTypes, Open
<1>8. pc'[s] = label
  BY <1>1, <1>3 DEF Types, EnvTypes
<1>9. Local(s)'
  <2>1. /\ Launches(s)' /\ QueueKnown(s)' /\ Served(s)'
    BY <1>1, <1>2, <1>8
       DEF Local, Launches, OwnRuntime, Pending, QueueKnown, Open, Served
  <2>2. CurrentKnown(s)'
    BY <1>1, <1>2, <1>8 DEF Local, CurrentKnown
  <2> QED BY <2>1, <2>2 DEF Local
<1> QED BY <1>1, <1>2, <1>5, <1>6, <1>7, <1>9, OneSession, SilentAgrees DEF Ordinary

\* A session is closed, and its environment goes on to a state in which none of its
\* requests waits: start closes it before it launches again, the end of a rollout
\* before the runtime ends, and once more when it is scored.
LEMMA CloseStep ==
    ASSUME EnvInv, NEW s \in Sessions, Retry(s) \/ Close(s) \/ Finish(s), late' = late
    PROVE  EnvInv' /\ AnswersAgree
<1>1. Types /\ Local(s)
  BY DEF EnvInv, AllLocal
<1>2. CloseSession(s) /\ UNCHANGED <<history, attempt, runtime>>
  BY DEF Retry, Close, Finish
<1>3. PICK label \in {"relaunch", "terminate", "done"} : pc' = [pc EXCEPT ![s] = label]
  BY DEF Retry, Close, Finish, Goto, Leave
<1>4. /\ \/ ClearCurrent(s)
         \/ current' = current /\ context' = context /\ current[s] = NoRequest
      /\ pc[s] \notin {"create", "launch"}
  BY <1>1 DEF Retry, Close, Finish, Local, CurrentKnown
<1>5. trace' \in [Sessions -> Seq(GoodMessage)]
  BY <1>1, RecordedFacts, PlainMessages DEF Retry, Close, Finish, Leave, Types, EnvTypes
<1>6. /\ Ordinary
      /\ s \notin Open'
      /\ \A t \in Sessions : t # s =>
           (t \in Open <=> t \in Open') /\ (t \in Open => queue'[t] = queue[t])
      /\ \A q \in requests' : http'[q].session # s
  BY <1>1, <1>2, CloseFacts
<1>7. EnvTypes'
  <2>1. /\ current' \in [Sessions -> Requests \cup {NoRequest}]
        /\ context' \in [Sessions -> ContextType \cup {Nothing}]
    BY <1>1, <1>4 DEF ClearCurrent, Types, EnvTypes
  <2>2. pc' \in [Sessions -> Labels]
    BY <1>1, <1>3 DEF Types, EnvTypes, Labels
  <2> QED BY <1>1, <1>2, <1>5, <2>1, <2>2 DEF Types, EnvTypes
<1>8. \A t \in Sessions : t # s => Apart(t)
  BY <1>1, <1>2, <1>3, <1>4, <1>6 DEF Apart, Types, EnvTypes, ClearCurrent
<1>9. pc'[s] = label /\ current'[s] = NoRequest
  BY <1>1, <1>3, <1>4 DEF Types, EnvTypes, ClearCurrent
<1>10. Local(s)'
  <2>1. /\ Launches(s)'
        /\ current'[s] \in Requests =>
             http'[current'[s]] # Unused /\ http'[current'[s]].session = s
        /\ runtime'[s] \in Requests => http'[runtime'[s]] # Unused
    BY <1>1, <1>2, <1>6, <1>9, LaunchKept DEF Local, Ordinary
  <2>2. CurrentKnown(s)'
    BY <1>9, <2>1 DEF CurrentKnown
  <2>3. QueueKnown(s)' /\ Served(s)'
    BY <1>6, <1>9 DEF QueueKnown, Served
  <2> QED BY <2>1, <2>2, <2>3 DEF Local
<1> QED BY <1>1, <1>6, <1>7, <1>8, <1>10, OneSession, SilentAgrees DEF Ordinary

\* The runtime is terminated after its session was closed: nothing of it is left.
LEMMA TerminateStep ==
    ASSUME EnvInv, NEW s \in Sessions, Relaunch(s) \/ Terminate(s), late' = late
    PROVE  EnvInv' /\ AnswersAgree
<1>1. Types /\ Local(s)
  BY DEF EnvInv, AllLocal
<1>2. /\ TerminateRuntime(s) /\ UNCHANGED <<current, context, trace, attempt>>
      /\ pc[s] \in {"relaunch", "terminate"}
  BY DEF Relaunch, Terminate
<1>3. PICK label \in {"create", "finish"} : pc' = [pc EXCEPT ![s] = label]
  BY DEF Relaunch, Terminate, Goto
<1>4. /\ Ordinary
      /\ requests' = requests /\ queue' = queue
      /\ \A q \in requests' : http'[q] = http[q]
      /\ ~late => \A q \in Requests : Pending(q)' /\ http'[q].session = s => q \in requests
  BY <1>1, <1>2, TerminateFacts
<1>5. runtime' = [runtime EXCEPT ![s] = Off] /\ history' = [history EXCEPT ![s] = <<>>]
  BY <1>2 DEF TerminateRuntime
<1>6. EnvTypes'
  <2>1. history' \in [Sessions -> Seq(GoodMessage)]
    <3>1. <<>> \in Seq(GoodMessage)
      OBVIOUS
    <3> QED BY <1>1, <1>5, <3>1 DEF Types, EnvTypes
  <2>2. pc' \in [Sessions -> Labels] /\ runtime' \in [Sessions -> Requests \cup {Off, Thinking}]
    BY <1>1, <1>3, <1>5 DEF Types, EnvTypes, Labels
  <2> QED BY <1>1, <1>2, <2>1, <2>2 DEF Types, EnvTypes
<1>7. \A t \in Sessions : t # s => Apart(t)
  BY <1>1, <1>2, <1>3, <1>4, <1>5 DEF Apart, Types, EnvTypes, Open
<1>8. pc'[s] = label /\ runtime'[s] = Off /\ current'[s] = NoRequest /\ current[s] = NoRequest
  BY <1>1, <1>2, <1>3, <1>5 DEF Types, EnvTypes, Local, CurrentKnown
<1>9. \A q \in requests : http[q].session # s
  BY <1>1, <1>2 DEF Local, Served
<1>10. Local(s)'
  <2>1. Off \notin Requests /\ NoRequest \notin Requests
    BY EnvAssumption DEF Off, NoRequest
  <2>2. CurrentKnown(s)'
    BY <1>3, <1>8, <2>1 DEF CurrentKnown
  <2>3. QueueKnown(s)' /\ Served(s)'
    BY <1>1, <1>2, <1>4, <1>8, <1>9 DEF Local, QueueKnown, Served, Open
  <2>4. ASSUME ~late, NEW q \in Requests, Pending(q)', http'[q].session = s PROVE FALSE
    BY <1>4, <1>9, <2>4
  <2>5. Launches(s)'
    BY <1>8, <2>4 DEF Launches, OwnRuntime
  <2> QED BY <2>2, <2>3, <2>5 DEF Local
<1> QED BY <1>1, <1>4, <1>6, <1>7, <1>10, OneSession, SilentAgrees DEF Ordinary

\* A request that has timed out is passed over.
LEMMA SkipStep ==
    ASSUME EnvInv, NEW s \in Sessions, SkipRequest(s), late' = late
    PROVE  EnvInv' /\ AnswersAgree
<1>1. Types /\ Local(s) /\ RegistryTypes
  BY DEF EnvInv, AllLocal, Types
<1>2. /\ s \in Open /\ queue[s] # <<>> /\ Head(queue[s]) \notin requests
      /\ queue' = [queue EXCEPT ![s] = Tail(@)] /\ requests' = requests /\ http' = http
      /\ UNCHANGED <<pc, current, context, trace, history, attempt, runtime>>
      /\ pc[s] \in {"initial", "next"}
  BY DEF SkipRequest, SkipStale, envVars
<1>3. /\ Ordinary
      /\ Open' = Open
      /\ \A t \in Open : t # s => queue'[t] = queue[t]
      /\ QueueKnown(s)'
      /\ \A q \in ToSet(queue[s]) : q = Head(queue[s]) \/ q \in ToSet(queue'[s])
  BY <1>1, <1>2, TailFacts DEF Local
<1>4. EnvTypes'
  BY <1>1, <1>2 DEF Types, EnvTypes
<1>5. \A t \in Sessions : t # s => Apart(t)
  BY <1>2, <1>3 DEF Apart
<1>6. Local(s)'
  <2>1. Launches(s)' /\ CurrentKnown(s)'
    BY <1>1, <1>2 DEF Local, Launches, OwnRuntime, Pending, CurrentKnown
  <2>2. Served(s)'
    BY <1>1, <1>2, <1>3 DEF Local, Served
  <2> QED BY <1>3, <2>1, <2>2 DEF Local
<1> QED BY <1>1, <1>2, <1>3, <1>4, <1>5, <1>6, OneSession, SilentAgrees DEF Ordinary

\* The request the environment holds fails.
LEMMA FailStep ==
    ASSUME EnvInv, NEW s \in Sessions, FailPending(s), late' = late
    PROVE  EnvInv' /\ AnswersAgree
<1>1. Types /\ Local(s) /\ RegistryTypes
  BY DEF EnvInv, AllLocal, Types
<1>2. /\ Resolved({current[s]}, Error) /\ queue' = queue
      /\ pc[s] = "fail" /\ pc' = [pc EXCEPT ![s] = "close"]
      /\ UNCHANGED <<current, context, trace, history, attempt, runtime>>
  BY DEF FailPending, Respond, Goto
<1>3. Ordinary
  BY <1>1, <1>2, FailedFacts DEF RegistryTypes, Open
<1>4. EnvTypes'
  BY <1>1, <1>2 DEF Types, EnvTypes, Labels
<1>5. \A t \in Sessions : t # s => Apart(t)
  BY <1>1, <1>2 DEF Apart, Types, EnvTypes, Open
<1>6. pc'[s] = "close"
  BY <1>1, <1>2 DEF Types, EnvTypes
<1>7. Local(s)'
  <2>1. /\ Launches(s)'
        /\ current'[s] \in Requests =>
             http'[current'[s]] # Unused /\ http'[current'[s]].session = s
        /\ runtime'[s] \in Requests => http'[runtime'[s]] # Unused
    BY <1>1, <1>2, <1>3, <1>6, LaunchKept DEF Local, Ordinary
  <2>2. CurrentKnown(s)'
    BY <1>6, <2>1 DEF CurrentKnown
  <2>3. QueueKnown(s)'
    BY <1>1, <1>2, <1>3, QueueKept DEF Local, Open, Ordinary
  <2>4. Served(s)'
    BY <1>6 DEF Served
  <2> QED BY <2>1, <2>2, <2>3, <2>4 DEF Local
<1> QED BY <1>1, <1>3, <1>4, <1>5, <1>7, OneSession, SilentAgrees DEF Ordinary

\* A generation that is not answered: another is asked for, or the rollout fails.
LEMMA UnansweredStep ==
    ASSUME EnvInv, NEW s \in Sessions, NEW output, pc[s] = "act",
           StepInvalid(s, output) \/ StepRaises(s, output), late' = late
    PROVE  EnvInv' /\ AnswersAgree
<1>1. Types /\ Local(s)
  BY DEF EnvInv, AllLocal
<1>2. UNCHANGED <<queue, requests, http, current, context, history, attempt, runtime>>
  BY DEF StepInvalid, StepRaises, registryVars
<1>3. PICK label \in {"act", "fail", "raised"} : pc' = [pc EXCEPT ![s] = label]
  <2>1. CASE UNCHANGED pc
    BY <1>1, <2>1 DEF Types, EnvTypes
  <2>2. CASE pc' # pc
    BY <2>2 DEF StepInvalid, StepRaises, Goto, Leave
  <2> QED BY <2>1, <2>2
<1>4. trace' \in [Sessions -> Seq(GoodMessage)]
  BY <1>1, RecordedFacts, PlainMessages DEF StepInvalid, StepRaises, Leave
<1>5. Ordinary
  BY <1>1, <1>2, KeptFacts DEF Types, RegistryTypes, Open
<1>6. EnvTypes'
  BY <1>1, <1>2, <1>3, <1>4 DEF Types, EnvTypes, Labels
<1>7. \A t \in Sessions : t # s => Apart(t)
  BY <1>1, <1>2, <1>3 DEF Apart, Types, EnvTypes, Open
<1>8. pc'[s] = label
  BY <1>1, <1>3 DEF Types, EnvTypes
<1>9. Local(s)'
  <2>1. Launches(s)' /\ QueueKnown(s)' /\ Served(s)'
    BY <1>1, <1>2, <1>8
       DEF Local, Launches, OwnRuntime, Pending, QueueKnown, Open, Served
  <2>2. CurrentKnown(s)'
    BY <1>1, <1>2, <1>8 DEF Local, CurrentKnown
  <2> QED BY <2>1, <2>2 DEF Local
<1> QED BY <1>1, <1>2, <1>5, <1>6, <1>7, <1>9, OneSession, SilentAgrees DEF Ordinary

\* A generation that is answered: the response has the calls of the generation, which
\* the trace records.
LEMMA AnsweringStep ==
    ASSUME EnvInv, NEW s \in Sessions, NEW gen \in Generations, NEW output,
           output = GenerationOutput(Input(s), gen),
           pc[s] = "act", StepResponds(s, output), late' = late
    PROVE  EnvInv' /\ AnswersAgree
<1> DEFINE reply == BuildResponse(context[s], output)
<1>1. Types /\ Local(s) /\ RegistryTypes
  BY DEF EnvInv, AllLocal, Types
<1>2. output.calls \in Seq(GoodCall) /\ reply.calls = output.calls /\ reply \in Told
  <2>1. context[s] \in ContextType
    BY <1>1 DEF Local, CurrentKnown
  <2>2. /\ output.calls \in Seq([name : STRING, args : Arguments])
        /\ output.finish \in FinishReasons
        /\ output.syntax = "none" => output.visible = "none"
    BY OutputFacts
  <2>3. ~InvalidToolCall(output, GenerationInput(context[s]))
    BY DEF StepResponds, Input
  <2> QED BY <2>1, <2>2, <2>3, RespondsAsValidated
<1> HIDE DEF reply
<1>3. /\ Resolved({current[s]}, reply) /\ queue' = queue /\ ClearCurrent(s)
      /\ Recorded(s, <<Message("assistant", output.calls)>>)
      /\ UNCHANGED <<history, attempt, runtime>>
  BY DEF StepResponds, Respond, reply
<1>4. PICK label \in {"close", "next"} : pc' = [pc EXCEPT ![s] = label]
  BY DEF StepResponds, Goto
<1>5. /\ RegistryTypes'
      /\ \A q \in Requests : Advanced(q)
      /\ requests' = requests \ {current[s]}
      /\ \A q \in {current[s]} \cap requests : http'[q] = Answered(http[q], reply)
      /\ \A q \in Requests : q \notin {current[s]} \cap requests => http'[q] = http[q]
  BY <1>1, <1>2, <1>3, ResolvedFacts DEF RegistryTypes, Open
<1>6. /\ <<Message("assistant", output.calls)>> \in Seq(GoodMessage)
      /\ Message("assistant", output.calls).calls = output.calls
  BY <1>2, MessageFacts
<1>7. /\ trace' \in [Sessions -> Seq(GoodMessage)]
      /\ trace'[s] = trace[s] \o <<Message("assistant", output.calls)>>
  BY <1>1, <1>3, <1>6, RecordedFacts
<1>8. EnvTypes'
  <2>1. /\ current' \in [Sessions -> Requests \cup {NoRequest}]
        /\ context' \in [Sessions -> ContextType \cup {Nothing}]
    BY <1>1, <1>3 DEF ClearCurrent, Types, EnvTypes
  <2>2. pc' \in [Sessions -> Labels]
    BY <1>1, <1>4 DEF Types, EnvTypes, Labels
  <2> QED BY <1>1, <1>3, <1>7, <2>1, <2>2 DEF Types, EnvTypes
<1>9. pc'[s] = label /\ current'[s] = NoRequest
  BY <1>1, <1>3, <1>4 DEF Types, EnvTypes, ClearCurrent
<1>10. Local(s)'
  <2>1. /\ Launches(s)'
        /\ current'[s] \in Requests =>
             http'[current'[s]] # Unused /\ http'[current'[s]].session = s
        /\ runtime'[s] \in Requests => http'[runtime'[s]] # Unused
    BY <1>1, <1>3, <1>5, <1>9, LaunchKept DEF Local
  <2>2. CurrentKnown(s)'
    BY <1>9, <2>1 DEF CurrentKnown
  <2>3. QueueKnown(s)'
    BY <1>1, <1>3, <1>5, QueueKept DEF Local, Open
  <2>4. Served(s)'
    <3>1. ASSUME NEW q \in requests', http'[q].session = s
          PROVE  s \in Open /\ q \in ToSet(queue[s])
      <4>1. q \in requests /\ http[q].session = s /\ q # current[s]
        BY <1>1, <1>5, <3>1, RegisteredKept
      <4> QED BY <1>1, <4>1 DEF Local, Served
    <3> QED BY <1>3, <1>9, <3>1 DEF Served, Open
  <2> QED BY <2>1, <2>2, <2>3, <2>4 DEF Local
<1>11. AllLocal'
  <2>1. ASSUME NEW t \in Sessions, t # s PROVE Local(t)'
    <3>1. Local(t) /\ Apart(t)
      BY <1>1, <1>3, <1>4, <2>1 DEF EnvInv, AllLocal, Apart, Types, EnvTypes, ClearCurrent, Open
    <3> QED BY <1>1, <1>5, <3>1, Elsewhere
  <2> QED BY <1>10, <2>1 DEF AllLocal
<1>12. AnswersAgree
  <2> SUFFICES ASSUME NEW t \in Sessions, NEW q \in Requests,
                      http[q] # Unused, http[q].session = t, http[q].st # "answered",
                      http'[q].reply \notin {Nothing, Error}
               PROVE  trace'[t] # <<>> /\ http'[q].reply.calls = Last(trace'[t]).calls
    BY DEF AnswersAgree, ToldAsRecorded, Of
  <2>1. http[q] \in Live
    BY <1>1, HandlerFacts DEF Pending
  <2>2. q = current[s] /\ http'[q] = Answered(http[q], reply)
    BY <1>5, <2>1 DEF Live
  <2>3. t = s /\ http'[q].reply.calls = output.calls
    BY <1>1, <1>2, <2>1, <2>2, AnsweredFacts DEF Local, CurrentKnown
  <2>4. trace'[s] # <<>> /\ Last(trace'[s]) = Message("assistant", output.calls)
    <3>1. trace[s] \in Seq(GoodMessage) /\ Message("assistant", output.calls) \in GoodMessage
      BY <1>1, <1>2, MessageFacts DEF Types, EnvTypes
    <3> QED BY <1>7, <3>1 DEF Last
  <2> QED BY <1>6, <2>3, <2>4
<1> QED BY <1>5, <1>8, <1>11, <1>12 DEF EnvInv, Types

---------------------------------------------------------------------------
(* The steps of the runtime and of the registry. *)

\* A runtime that does not wait any more, or exits.
LEMMA RuntimeMoves ==
    ASSUME EnvInv, NEW s \in Sessions, NEW x \in {Off, Thinking}, runtime[s] # Off,
           Ordinary, queue' = queue, runtime' = [runtime EXCEPT ![s] = x],
           history' \in [Sessions -> Seq(GoodMessage)],
           UNCHANGED <<pc, current, context, trace, attempt, late>>
    PROVE  EnvInv' /\ AnswersAgree
<1>1. Types /\ Local(s) /\ RegistryTypes
  BY DEF EnvInv, AllLocal, Types
<1>2. EnvTypes'
  BY <1>1 DEF Types, EnvTypes
<1>3. \A t \in Sessions : t # s => Apart(t)
  BY <1>1 DEF Apart, Types, EnvTypes, Open
<1>4. /\ pc'[s] = pc[s] /\ current'[s] = current[s] /\ runtime'[s] = x
      /\ pc[s] \notin {"create", "launch"}
  BY <1>1 DEF Types, EnvTypes, Local, Launches
<1>5. Local(s)'
  <2>1. /\ Launches(s)'
        /\ current'[s] \in Requests =>
             http'[current'[s]] # Unused /\ http'[current'[s]].session = s
        /\ runtime'[s] \in Requests => http'[runtime'[s]] # Unused
    BY <1>1, <1>4, LaunchKept DEF Local, Ordinary
  <2>2. CurrentKnown(s)'
    BY <1>1, <1>4, <2>1 DEF Local, CurrentKnown
  <2>3. QueueKnown(s)'
    BY <1>1, QueueKept DEF Local, Open, Ordinary
  <2>4. Served(s)'
    <3>1. \A q \in requests' : http'[q].session = s => q \in requests /\ http[q].session = s
      BY <1>1, RegisteredKept DEF Ordinary
    <3> QED BY <1>1, <1>4, <3>1 DEF Local, Served, Open
  <2> QED BY <2>1, <2>2, <2>3, <2>4 DEF Local
<1> QED BY <1>1, <1>2, <1>3, <1>5, OneSession, SilentAgrees DEF Ordinary

\* The client of a request takes its answer, or stops waiting for it.
LEMMA ReplyTaken ==
    ASSUME Types, NEW q \in Requests, http[q] # Unused,
           http' = [http EXCEPT ![q].reply = Nothing], requests' = requests, queue' = queue
    PROVE  Ordinary
<1>1. RegistryTypes /\ http[q] \in Live \cup Over
  BY DEF Types, RegistryTypes
<1>2. /\ \A p \in Requests : p # q => http'[p] = http[p]
      /\ http'[q] = [http[q] EXCEPT !.reply = Nothing]
  BY <1>1 DEF RegistryTypes
<1>3. CASE http[q] \in Live
  <2>1. http'[q] = http[q]
    BY <1>2, <1>3 DEF Live
  <2>2. http' = http
    BY <1>1, <1>2, <2>1 DEF RegistryTypes
  <2> QED BY <1>1, <2>2, KeptFacts DEF RegistryTypes, Open
<1>4. CASE http[q] \in Over
  <2>1. /\ http'[q] \in Over /\ http'[q].st = "answered" /\ http[q].st = "answered"
        /\ http'[q].session = http[q].session /\ http'[q].by = http[q].by
        /\ http'[q].reply = Nothing
    BY <1>2, <1>4 DEF Over
  <2>2. http' \in [Requests -> {Unused} \cup Live \cup Over]
    BY <1>1, <1>2, <2>1 DEF RegistryTypes
  <2>3. requests' = {p \in Requests : http'[p].st = "waiting"}
    BY <1>1, <1>2, <2>1 DEF RegistryTypes
  <2>4. RegistryTypes'
    BY <1>1, <2>2, <2>3 DEF RegistryTypes, Open
  <2>5. \A p \in Requests : Advanced(p)
    BY <1>2, <1>4, <2>1 DEF Advanced
  <2>6. Silent
    BY <1>2, <2>1, HandlerFacts DEF Silent, Live
  <2> QED BY <2>4, <2>5, <2>6 DEF Ordinary
<1> QED BY <1>1, <1>3, <1>4

\* The steps of a runtime that already runs, but for its next request.
LEMMA RuntimeSteps ==
    ASSUME EnvInv, NEW s \in Sessions, ReceiveAnswer(s) \/ StopWaiting(s) \/ RuntimeExits(s),
           late' = late
    PROVE  EnvInv' /\ AnswersAgree
<1>1. Types /\ Local(s)
  BY DEF EnvInv, AllLocal
<1>2. Off \notin Requests /\ Off # Thinking
  BY EnvAssumption DEF Off, Thinking
<1>3. CASE ReceiveAnswer(s) \/ StopWaiting(s)
  <2>1. /\ runtime[s] \in Requests
        /\ http' = [http EXCEPT ![runtime[s]].reply = Nothing]
        /\ runtime' = [runtime EXCEPT ![s] = Thinking]
        /\ UNCHANGED <<queue, requests, pc, current, context, trace, attempt>>
    BY <1>3 DEF ReceiveAnswer, StopWaiting
  <2>2. http[runtime[s]] # Unused
    BY <1>1, <2>1 DEF Local, CurrentKnown
  <2>3. Ordinary
    BY <1>1, <2>1, <2>2, ReplyTaken
  <2>4. history' \in [Sessions -> Seq(GoodMessage)]
    <3>1. CASE StopWaiting(s)
      BY <1>1, <3>1 DEF StopWaiting, Types, EnvTypes
    <3>2. CASE ReceiveAnswer(s)
      <4> DEFINE answer == http[runtime[s]].reply
                 told == <<Message("assistant", answer.calls), Message("tool", <<>>)>>
      <4>1. answer \notin {Nothing, Error} /\ history' = [history EXCEPT ![s] = @ \o told]
        BY <3>2 DEF ReceiveAnswer
      <4>2. answer \in Told
        BY <1>1, <2>1, <2>2, <4>1 DEF Types, RegistryTypes, Live, Over
      <4>3. answer.calls \in Seq(GoodCall)
        BY <4>2 DEF Told
      <4>4. told \in Seq(GoodMessage)
        BY <4>3, MessageFacts, PlainMessages
      <4> HIDE DEF told
      <4>5. history[s] \o told \in Seq(GoodMessage)
        BY <1>1, <4>4 DEF Types, EnvTypes
      <4> QED BY <1>1, <4>1, <4>5 DEF Types, EnvTypes
    <3> QED BY <1>3, <3>1, <3>2
  <2> QED BY <1>2, <2>1, <2>3, <2>4, RuntimeMoves
<1>4. CASE RuntimeExits(s)
  <2>1. /\ runtime[s] = Thinking /\ runtime' = [runtime EXCEPT ![s] = Off]
        /\ history' = [history EXCEPT ![s] = <<>>]
        /\ UNCHANGED <<queue, requests, http, pc, current, context, trace, attempt>>
    BY <1>4 DEF RuntimeExits, registryVars
  <2>2. Ordinary
    BY <1>1, <2>1, KeptFacts DEF Types, RegistryTypes, Open
  <2>3. history' \in [Sessions -> Seq(GoodMessage)]
    <3>1. <<>> \in Seq(GoodMessage)
      OBVIOUS
    <3> QED BY <1>1, <2>1, <3>1 DEF Types, EnvTypes
  <2> QED BY <1>2, <2>1, <2>2, <2>3, RuntimeMoves
<1> QED BY <1>3, <1>4

\* A request is sent by the runtime of the session's launch.
LEMMA SendStep ==
    ASSUME EnvInv, NEW s \in Sessions, NEW q \in Requests, SendRequest(s, q), late' = late
    PROVE  EnvInv' /\ AnswersAgree
<1>1. Types /\ Local(s) /\ RegistryTypes
  BY DEF EnvInv, AllLocal, Types
<1>2. PICK b \in Bodies :
        http' = [http EXCEPT ![q] = Handler(s, attempt[s], WithMessages(b, history[s]))]
  BY DEF SendRequest
<1>3. /\ runtime[s] = Thinking /\ http[q] = Unused /\ runtime' = [runtime EXCEPT ![s] = q]
      /\ UNCHANGED <<queue, requests, pc, current, context, trace, history, attempt>>
  BY DEF SendRequest
<1>4. /\ http'[q] \in Live /\ http'[q].st = "sent" /\ http'[q].session = s
      /\ http'[q].by = attempt[s] /\ http'[q] # Unused
      /\ \A p \in Requests : p # q => http'[p] = http[p]
  <2>1. history[s] \in Seq(GoodMessage) /\ attempt[s] \in Nat
    BY <1>1 DEF Types, EnvTypes
  <2> DEFINE handler == Handler(s, attempt[s], WithMessages(b, history[s]))
  <2>2. handler \in Live /\ handler.st = "sent" /\ handler.session = s /\ handler.by = attempt[s]
    BY <2>1, SentFacts
  <2> HIDE DEF handler
  <2>3. http'[q] = handler /\ \A p \in Requests : p # q => http'[p] = http[p]
    BY <1>1, <1>2 DEF RegistryTypes, handler
  <2> QED BY <2>2, <2>3 DEF Unused
<1>5. RegistryTypes'
  <2>1. http' \in [Requests -> {Unused} \cup Live \cup Over]
    <3>1. http' = [p \in Requests |-> http'[p]]
      BY <1>1, <1>2 DEF RegistryTypes
    <3>2. \A p \in Requests : http'[p] \in {Unused} \cup Live \cup Over
      BY <1>1, <1>4 DEF RegistryTypes
    <3> QED BY <3>1, <3>2
  <2>2. requests' = {p \in Requests : http'[p].st = "waiting"}
    <3>1. http[q].st # "waiting"
      BY <1>3 DEF Unused
    <3> QED BY <1>1, <1>3, <1>4, <3>1 DEF RegistryTypes
  <2> QED BY <1>1, <1>3, <2>1, <2>2 DEF RegistryTypes, Open
<1>6. EnvTypes'
  BY <1>1, <1>3 DEF Types, EnvTypes
<1>7. /\ \A p \in Requests : p # q => Advanced(p)
      /\ \A t \in Sessions : t # s => Foreign(q, t)
  BY <1>3, <1>4 DEF Advanced, Foreign
<1>8. ASSUME NEW t \in Sessions, t # s PROVE Local(t)'
  <2>1. Local(t) /\ Apart(t)
    BY <1>1, <1>3, <1>8 DEF EnvInv, AllLocal, Apart, Types, EnvTypes, Open
  <2>2. \A p \in Requests : Advanced(p) \/ Foreign(p, t)
    BY <1>7, <1>8
  <2> QED BY <1>1, <1>5, <2>1, <2>2, Elsewhere
<1>9. q \notin requests /\ requests \subseteq Requests
  BY <1>1, <1>3 DEF RegistryTypes, Unused
<1>10. pc[s] \notin {"create", "launch"}
  BY <1>1, <1>3 DEF Local, Launches, Off, Thinking
<1>11. current[s] # NoRequest => current[s] \in Requests /\ current[s] # q
  BY <1>1, <1>3 DEF Types, EnvTypes, Local, CurrentKnown
<1>12. Local(s)'
  <2>1. CurrentKnown(s)'
    <3>1. runtime'[s] = q
      BY <1>1, <1>3 DEF Types, EnvTypes
    <3>2. NoRequest \notin Requests
      BY EnvAssumption DEF NoRequest
    <3> QED BY <1>1, <1>3, <1>4, <1>11, <3>1, <3>2 DEF Local, CurrentKnown
  <2>2. QueueKnown(s)'
    <3>1. ASSUME s \in Open, NEW i \in DOMAIN queue[s]
          PROVE  http'[queue[s][i]] = http[queue[s][i]]
      <4>1. queue[s][i] \in Requests /\ http[queue[s][i]].st \in {"waiting", "answered"}
        BY <1>1, <3>1 DEF Local, QueueKnown, RegistryTypes
      <4>2. queue[s][i] # q
        BY <1>3, <4>1 DEF Unused
      <4> QED BY <1>4, <4>1, <4>2
    <3> QED BY <1>1, <1>3, <3>1 DEF Local, QueueKnown, Open
  <2>3. Served(s)'
    BY <1>1, <1>3, <1>4, <1>9 DEF Local, Served, Open
  <2>4. Launches(s)'
    <3>1. ASSUME ~late, NEW p \in Requests, Pending(p)', http'[p].session = s
          PROVE  http'[p].by = attempt[s]
      BY <1>1, <1>4, <3>1 DEF Local, Launches, Pending
    <3>2. OwnRuntime(s)'
      BY <1>1, <1>3, <1>4, <1>11 DEF Local, Launches, OwnRuntime
    <3> QED BY <1>3, <1>10, <3>1, <3>2 DEF Launches
  <2> QED BY <2>1, <2>2, <2>3, <2>4 DEF Local
<1>13. Silent
  BY <1>1, <1>3, <1>4, HandlerFacts DEF Silent, Live, Pending, Unused
<1> QED BY <1>1, <1>5, <1>6, <1>8, <1>12, <1>13, SilentAgrees DEF EnvInv, AllLocal, Types

\* A request that is answered by the route or by its timeout.
LEMMA FreedStep ==
    ASSUME EnvInv, Ordinary, queue' = queue, UNCHANGED envVars, late' = late
    PROVE  EnvInv' /\ AnswersAgree
<1>1. Types
  BY DEF EnvInv
<1>2. EnvTypes' /\ \A t \in Sessions : Apart(t)
  BY <1>1 DEF Types, EnvTypes, envVars, Apart, Open
<1>3. ASSUME NEW t \in Sessions PROVE Local(t)'
  BY <1>1, <1>2, Elsewhere DEF EnvInv, AllLocal, Ordinary
<1> QED BY <1>1, <1>2, <1>3, SilentAgrees DEF EnvInv, AllLocal, Types, Ordinary

\* One handler is answered with an error.
LEMMA ErrorFacts ==
    ASSUME Types, NEW q \in Requests, http[q].st = "sent",
           http' = [http EXCEPT ![q] = Answered(@, Error)], requests' = requests, queue' = queue
    PROVE  Ordinary
<1>1. RegistryTypes
  BY DEF Types
<1>2. http[q] \in Live /\ http[q] # Unused
  BY HandlerFacts DEF Pending, Unused
<1>3. /\ \A p \in Requests : p # q => http'[p] = http[p]
      /\ http'[q] = Answered(http[q], Error)
  BY <1>1 DEF RegistryTypes
<1>4. /\ http'[q] \in Over /\ http'[q].st = "answered" /\ http'[q].reply = Error
      /\ http'[q].session = http[q].session /\ http'[q].by = http[q].by
  BY <1>2, <1>3, AnsweredFacts
<1>5. RegistryTypes'
  <2>1. http' \in [Requests -> {Unused} \cup Live \cup Over]
    <3>1. \A p \in Requests : http'[p] \in {Unused} \cup Live \cup Over
      BY <1>1, <1>3, <1>4 DEF RegistryTypes
    <3>2. http' = [p \in Requests |-> http'[p]]
      BY <1>1 DEF RegistryTypes
    <3> QED BY <3>1, <3>2
  <2>2. requests' = {p \in Requests : http'[p].st = "waiting"}
    BY <1>1, <1>3, <1>4 DEF RegistryTypes
  <2> QED BY <1>1, <2>1, <2>2 DEF RegistryTypes, Open
<1>6. \A p \in Requests : Advanced(p)
  BY <1>2, <1>3, <1>4 DEF Advanced
<1>7. Silent
  BY <1>3, <1>4, HandlerFacts DEF Silent, Live
<1> QED BY <1>5, <1>6, <1>7 DEF Ordinary

\* A request is parked in the queue of its session, which is open.
LEMMA ParkStep ==
    ASSUME EnvInv, NEW q \in Requests, http[q].st = "sent", http[q].session \in Open,
           requests' = requests \cup {q},
           queue' = [queue EXCEPT ![http[q].session] = Append(@, q)],
           http' = [http EXCEPT ![q].st = "waiting"],
           UNCHANGED envVars, late' = late
    PROVE  EnvInv' /\ AnswersAgree
<1>1. Types /\ RegistryTypes /\ http[q] \in Live /\ http[q] # Unused
  BY HandlerFacts DEF EnvInv, Types, Pending, Unused
<1>0. PICK s \in Sessions : s = http[q].session
  BY <1>1 DEF Live
<1>2. s \in Open /\ Local(s)
  BY <1>0 DEF EnvInv, AllLocal
<1>3. /\ \A p \in Requests : p # q => http'[p] = http[p]
      /\ http'[q] = [http[q] EXCEPT !.st = "waiting"]
  BY <1>1 DEF RegistryTypes
<1>4. /\ http'[q] \in Live /\ http'[q].st = "waiting" /\ http'[q].reply = Nothing
      /\ http'[q].session = s /\ http'[q].by = http[q].by /\ http'[q] # Unused
  BY <1>0, <1>1, <1>3 DEF Live, Unused
<1>5. queue' = [queue EXCEPT ![s] = Append(@, q)] /\ queue[s] \in Seq(Requests)
  BY <1>0, <1>1, <1>2 DEF RegistryTypes
<1>6. /\ Open' = Open /\ queue'[s] = Append(queue[s], q)
      /\ \A t \in Open : t # s => queue'[t] = queue[t]
  BY <1>2, <1>5 DEF Open
<1>7. /\ Append(queue[s], q) \in Seq(Requests)
      /\ \A i \in DOMAIN Append(queue[s], q) :
            \/ i \in DOMAIN queue[s] /\ Append(queue[s], q)[i] = queue[s][i]
            \/ i = Len(queue[s]) + 1 /\ Append(queue[s], q)[i] = q
      /\ ToSet(queue[s]) \cup {q} \subseteq ToSet(Append(queue[s], q))
  BY <1>5, AppendFacts
<1>8. RegistryTypes'
  <2>1. http' \in [Requests -> {Unused} \cup Live \cup Over]
    <3>1. \A p \in Requests : http'[p] \in {Unused} \cup Live \cup Over
      BY <1>1, <1>3, <1>4 DEF RegistryTypes
    <3>2. http' = [p \in Requests |-> http'[p]]
      BY <1>1 DEF RegistryTypes
    <3> QED BY <3>1, <3>2
  <2>2. requests' = {p \in Requests : http'[p].st = "waiting"}
    BY <1>1, <1>3, <1>4 DEF RegistryTypes
  <2>3. \A t \in Open' : queue'[t] \in Seq(Requests)
    BY <1>1, <1>6, <1>7 DEF RegistryTypes
  <2> QED BY <1>1, <1>6, <2>1, <2>2, <2>3 DEF RegistryTypes
<1>9. EnvTypes'
  BY <1>1 DEF Types, EnvTypes, envVars
<1>10. ASSUME NEW t \in Sessions, t # s PROVE Local(t)'
  <2>1. Local(t) /\ Apart(t)
    BY <1>6, <1>10 DEF EnvInv, AllLocal, Apart, envVars
  <2>2. \A p \in Requests : Advanced(p) \/ Foreign(p, t)
    BY <1>0, <1>3, <1>4, <1>10 DEF Advanced, Foreign
  <2> QED BY <1>1, <1>8, <2>1, <2>2, Elsewhere
<1>11. Local(s)'
  <2>1. CurrentKnown(s)'
    <3>1. \A p \in Requests : http[p] # Unused =>
            http'[p] # Unused /\ http'[p].session = http[p].session
      BY <1>0, <1>3, <1>4
    <3> QED BY <1>2, <3>1 DEF Local, CurrentKnown, envVars
  <2>2. QueueKnown(s)'
    <3>1. \A i \in DOMAIN queue[s] :
            /\ queue[s][i] \in Requests /\ queue[s][i] # q
            /\ http'[queue[s][i]].st \in {"waiting", "answered"}
            /\ http'[queue[s][i]].session = s
      BY <1>2, <1>3, <1>5 DEF Local, QueueKnown
    <3>2. ASSUME NEW i \in DOMAIN queue'[s]
          PROVE  /\ http'[queue'[s][i]].st \in {"waiting", "answered"}
                 /\ http'[queue'[s][i]].session = s
      <4>1. (i \in DOMAIN queue[s] /\ queue'[s][i] = queue[s][i]) \/ queue'[s][i] = q
        BY <1>6, <1>7
      <4>2. CASE queue'[s][i] = q
        BY <1>4, <1>6, <4>2
      <4>3. CASE i \in DOMAIN queue[s] /\ queue'[s][i] = queue[s][i]
        BY <3>1, <4>3
      <4> QED BY <4>1, <4>2, <4>3
    <3>3. ASSUME NEW i \in DOMAIN queue'[s], NEW j \in DOMAIN queue'[s],
                 queue'[s][i] = queue'[s][j]
          PROVE  i = j
      <4>1. \A k \in DOMAIN queue'[s] :
              \/ k \in DOMAIN queue[s] /\ queue'[s][k] = queue[s][k] /\ queue[s][k] # q
              \/ k = Len(queue[s]) + 1 /\ queue'[s][k] = q
        BY <1>6, <1>7, <3>1
      <4>2. \A k, l \in DOMAIN queue[s] : queue[s][k] = queue[s][l] => k = l
        BY <1>2 DEF Local, QueueKnown
      <4> QED BY <3>3, <4>1, <4>2
    <3> QED BY <3>2, <3>3 DEF QueueKnown
  <2>3. Served(s)'
    <3>1. ASSUME NEW p \in requests', http'[p].session = s, pc[s] \notin {"retry", "close", "raised"}
          PROVE  current[s] = p \/ p \in ToSet(queue'[s])
      <4>1. CASE p = q
        BY <1>6, <1>7, <4>1
      <4>2. CASE p # q
        <5>1. p \in requests /\ p \in Requests /\ http[p].session = s
          BY <1>1, <1>3, <3>1, <4>2 DEF RegistryTypes
        <5> QED BY <1>2, <1>6, <1>7, <3>1, <5>1 DEF Local, Served
      <4> QED BY <4>1, <4>2
    <3> QED BY <1>2, <1>6, <3>1 DEF Local, Served, envVars
  <2>4. Launches(s)'
    <3>1. \A p \in Requests : Pending(p)' => Pending(p) /\ http'[p].session = http[p].session
                                              /\ http'[p].by = http[p].by
      BY <1>0, <1>1, <1>3, <1>4 DEF Pending, Live
    <3>2. OwnRuntime(s)'
      <4>1. \A p \in Requests : http'[p].by = http[p].by
        BY <1>3, <1>4
      <4>2. current[s] # NoRequest => current[s] \in Requests
        BY <1>1, <1>2 DEF Types, EnvTypes
      <4> QED BY <1>2, <4>1, <4>2 DEF Local, Launches, OwnRuntime, envVars
    <3> QED BY <1>2, <3>1, <3>2 DEF Local, Launches, envVars
  <2> QED BY <2>1, <2>2, <2>3, <2>4 DEF Local
<1>12. Silent
  BY <1>1, <1>3, <1>4, HandlerFacts DEF Silent, Live
<1> QED BY <1>1, <1>8, <1>9, <1>10, <1>11, <1>12, SilentAgrees DEF EnvInv, AllLocal, Types

\* The registry's own steps.
LEMMA RegistrySteps ==
    ASSUME EnvInv, RegistryStep, late' = late
    PROVE  EnvInv' /\ AnswersAgree
<1>1. UNCHANGED envVars
  BY DEF RegistryStep
<1>2. PICK q \in Requests : RejectHttp(q) \/ Submit(q) \/ SubmitTimeout(q)
  BY DEF RegistryStep
<1>3. Types
  BY DEF EnvInv
<1>4. CASE RejectHttp(q)
  <2>1. Ordinary /\ queue' = queue
    BY <1>3, <1>4, ErrorFacts DEF RejectHttp
  <2> QED BY <1>1, <2>1, FreedStep
<1>5. CASE SubmitTimeout(q)
  <2>1. Resolved({q}, Error) /\ queue' = queue
    BY <1>5 DEF SubmitTimeout
  <2>2. Ordinary
    BY <1>3, <2>1, FailedFacts DEF Types, RegistryTypes, Open
  <2> QED BY <1>1, <2>1, <2>2, FreedStep
<1>6. CASE Submit(q)
  <2>1. CASE http[q].session \in closed \/ http[q].session \notin Open
    <3>1. Ordinary /\ queue' = queue
      BY <1>3, <1>6, <2>1, ErrorFacts DEF Submit
    <3> QED BY <1>1, <3>1, FreedStep
  <2>2. CASE http[q].session \notin closed /\ http[q].session \in Open
    <3>1. /\ http[q].st = "sent" /\ requests' = requests \cup {q}
          /\ queue' = [queue EXCEPT ![http[q].session] = Append(@, q)]
          /\ http' = [http EXCEPT ![q].st = "waiting"]
      BY <1>6, <2>2 DEF Submit
    <3> QED BY <1>1, <2>2, <3>1, ParkStep
  <2> QED BY <2>1, <2>2
<1> QED BY <1>2, <1>4, <1>5, <1>6

---------------------------------------------------------------------------
(* The theorems. *)

\* Before the first step no session is open and nothing runs.
LEMMA EnvInit == Init => EnvInv
<1> SUFFICES ASSUME Init PROVE EnvInv
  OBVIOUS
<1>1. /\ http = [q \in Requests |-> Unused] /\ requests = {} /\ Open = {}
      /\ pc = [s \in Sessions |-> "create"] /\ current = [s \in Sessions |-> NoRequest]
      /\ runtime = [s \in Sessions |-> Off]
  BY DEF Init, RegistryInit, Open
<1>2. RegistryTypes
  BY <1>1 DEF RegistryTypes, Unused
<1>3. EnvTypes
  <2>1. <<>> \in Seq(GoodMessage)
    OBVIOUS
  <2>2. late \in BOOLEAN
    BY EnvAssumption DEF Init
  <2> QED BY <2>1, <2>2 DEF Init, EnvTypes, Labels
<1>4. ASSUME NEW s \in Sessions PROVE Local(s)
  <2>1. NoRequest \notin Requests /\ Off \notin Requests
    BY EnvAssumption DEF NoRequest, Off
  <2>2. CurrentKnown(s) /\ QueueKnown(s) /\ Served(s)
    BY <1>1, <2>1 DEF CurrentKnown, QueueKnown, Served
  <2>3. Launches(s)
    BY <1>1 DEF Launches, OwnRuntime, Pending, Unused
  <2> QED BY <2>2, <2>3 DEF Local
<1> QED BY <1>2, <1>3, <1>4 DEF EnvInv, AllLocal, Types

\* Every step keeps the invariant, and answers a request as the trace records it.
LEMMA EnvNext == EnvInv /\ [Next]_vars => EnvInv' /\ [AnswersAgree]_vars
<1> SUFFICES ASSUME EnvInv, [Next]_vars PROVE EnvInv' /\ [AnswersAgree]_vars
  OBVIOUS
<1>1. CASE UNCHANGED vars
  <2>1. EnvInv'
    BY <1>1
       DEF vars, registryVars, envVars, EnvInv, Types, RegistryTypes, EnvTypes, AllLocal, Local,
           CurrentKnown, QueueKnown, Served, Launches, OwnRuntime, Pending, Open
  <2> QED BY <1>1, <2>1
<1>2. CASE Next
  <2>0. late' = late
    BY <1>2 DEF Next
  <2>1. CASE RegistryStep
    BY <2>0, <2>1, RegistrySteps
  <2>2. ASSUME NEW s \in Sessions, EnvStep(s) PROVE EnvInv' /\ AnswersAgree
    <3>1. CASE Step(s)
      <4>1. PICK gen \in Generations : \E output \in {GenerationOutput(Input(s), gen)} :
              StepInvalid(s, output) \/ StepResponds(s, output) \/ StepRaises(s, output)
        BY <3>1 DEF Step
      <4>2. PICK output : /\ output = GenerationOutput(Input(s), gen)
                          /\ \/ StepInvalid(s, output)
                             \/ StepResponds(s, output)
                             \/ StepRaises(s, output)
        BY <4>1
      <4>3. pc[s] = "act"
        BY <3>1 DEF Step
      <4> QED BY <2>0, <4>2, <4>3, UnansweredStep, AnsweringStep
    <3>2. CASE Create(s)
      BY <2>0, <3>2, CreateStep
    <3>3. CASE Launch(s)
      BY <2>0, <3>3, LaunchStep
    <3>4. CASE InitialRequest(s)
      BY <2>0, <3>4, InitialRequestStep
    <3>5. CASE NextRequest(s)
      BY <2>0, <3>5, NextRequestStep
    <3>6. CASE InitialTimeout(s) \/ NextTimeout(s)
      BY <2>0, <3>6, TimeoutStep
    <3>7. CASE Retry(s) \/ Close(s) \/ Finish(s)
      BY <2>0, <3>7, CloseStep
    <3>8. CASE Relaunch(s) \/ Terminate(s)
      BY <2>0, <3>8, TerminateStep
    <3>9. CASE SkipRequest(s)
      BY <2>0, <3>9, SkipStep
    <3>10. CASE FailPending(s)
      BY <2>0, <3>10, FailStep
    <3> QED BY <2>2, <3>1, <3>2, <3>3, <3>4, <3>5, <3>6, <3>7, <3>8, <3>9, <3>10 DEF EnvStep
  <2>3. ASSUME NEW s \in Sessions, RuntimeStep(s) PROVE EnvInv' /\ AnswersAgree
    <3>1. CASE \E q \in Requests : SendRequest(s, q)
      BY <2>0, <3>1, SendStep
    <3>2. CASE ReceiveAnswer(s) \/ StopWaiting(s) \/ RuntimeExits(s)
      BY <2>0, <3>2, RuntimeSteps
    <3> QED BY <2>3, <3>1, <3>2 DEF RuntimeStep
  <2> QED BY <1>2, <2>1, <2>2, <2>3 DEF Next
<1> QED BY <1>1, <1>2

\* The inductive invariant of a black-box rollout.
THEOREM EnvInvariant == Spec => []EnvInv
<1>1. EnvInv /\ [Next]_vars => EnvInv'
  BY EnvNext
<1> QED BY EnvInit, <1>1, PTL DEF Spec

\* A request that is in a queue without repetitions is there once.
LEMMA OnceInQueue ==
    ASSUME NEW s, NEW q, q \in ToSet(queue[s]),
           \A i, j \in DOMAIN queue[s] : queue[s][i] = queue[s][j] => i = j
    PROVE  Cardinality({i \in DOMAIN queue[s] : queue[s][i] = q}) = 1
<1>1. PICK i \in DOMAIN queue[s] : queue[s][i] = q
  BY DEF ToSet
<1>2. {j \in DOMAIN queue[s] : queue[s][j] = q} = {i}
  BY <1>1
<1> QED BY <1>2, FS_Singleton

\* No request is orphaned: while a rollout runs, a registered request is queued once or
\* the one that is being answered, and there is none from the moment its session closes.
THEOREM SessionsAreServed == Spec => []SessionsServed
<1>1. EnvInv => SessionsServed
  <2> SUFFICES ASSUME EnvInv PROVE SessionsServed
    OBVIOUS
  <2>1. Types /\ RegistryTypes
    BY DEF EnvInv, Types
  <2>2. ASSUME NEW s \in Sessions,
               pc[s] \in {"relaunch", "create", "terminate", "finish", "done"}
        PROVE  s \notin Open /\ Of(s) \cap requests = {}
    BY <2>2 DEF EnvInv, AllLocal, Local, Served, Of
  <2>3. ASSUME NEW q \in requests, pc[http[q].session] \notin {"retry", "close", "raised"}
        PROVE  \/ current[http[q].session] = q
               \/ /\ http[q].session \in Open
                  /\ Cardinality({i \in DOMAIN queue[http[q].session] :
                                     queue[http[q].session][i] = q}) = 1
    <3>1. http[q].session \in Sessions
      BY <2>1, HandlerFacts DEF RegistryTypes, Pending, Live
    <3>2. PICK s \in Sessions : s = http[q].session
      BY <3>1
    <3>3. Local(s)
      BY DEF EnvInv, AllLocal
    <3>4. current[s] = q \/ (s \in Open /\ q \in ToSet(queue[s]))
      BY <2>3, <3>2, <3>3 DEF Local, Served
    <3>5. s \in Open => \A i, j \in DOMAIN queue[s] : queue[s][i] = queue[s][j] => i = j
      BY <3>3 DEF Local, QueueKnown
    <3>6. CASE current[s] = q
      BY <3>2, <3>6
    <3>7. CASE s \in Open /\ q \in ToSet(queue[s])
      <4>1. Cardinality({i \in DOMAIN queue[s] : queue[s][i] = q}) = 1
        BY <3>5, <3>7, OnceInQueue
      <4> QED BY <3>2, <3>7, <4>1
    <3> QED BY <3>4, <3>6, <3>7
  <2> QED BY <2>2, <2>3 DEF SessionsServed
<1> QED BY EnvInvariant, <1>1, PTL

\* Messages with good calls have calls that decode.
LEMMA GoodMessages ==
    ASSUME NEW messages \in Seq(GoodMessage), NEW m \in ToSet(messages), NEW c \in ToSet(m.calls)
    PROVE  c.args = "object"
<1>1. m \in GoodMessage
  BY ElementFacts DEF ToSet
<1>2. m.calls \in Seq(GoodCall)
  BY <1>1 DEF GoodMessage
<1>3. c \in GoodCall
  BY <1>2, ElementFacts DEF ToSet
<1> QED BY <1>3 DEF GoodCall

\* The environment talks to the runtime it launched unless requests outlive their
\* runtime, no conversation holds a call that cannot be converted again, and the runtime
\* is told the calls that the trace records.
THEOREM RuntimeInAgreement == Spec => RuntimeAgrees
<1>1. EnvInv => \A s \in Sessions : OwnRuntime(s) /\ CallsDecode(s)
  <2> SUFFICES ASSUME EnvInv, NEW s \in Sessions PROVE OwnRuntime(s) /\ CallsDecode(s)
    OBVIOUS
  <2>1. OwnRuntime(s)
    BY DEF EnvInv, AllLocal, Local, Launches
  <2>2. trace[s] \in Seq(GoodMessage) /\ history[s] \in Seq(GoodMessage)
    BY DEF EnvInv, Types, EnvTypes
  <2>3. CallsDecode(s)
    BY <2>2, GoodMessages DEF CallsDecode
  <2> QED BY <2>1, <2>3
<1>2. EnvInv /\ [Next]_vars => [\A s \in Sessions : ToldAsRecorded(s)]_vars
  BY EnvNext DEF AnswersAgree
<1> QED BY EnvInvariant, <1>1, <1>2, PTL DEF Spec, RuntimeAgrees
============================================================================
