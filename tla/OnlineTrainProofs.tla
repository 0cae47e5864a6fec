-------------------------- MODULE OnlineTrainProofs --------------------------
(* Proofs about the rollout engines and the pipeline run that drives them:    *)
(* an engine is quiet once pause_generation has returned, for any number of   *)
(* engines, clients and slots; and in every run mode the engines serve the    *)
(* current policy and the GPU is shared as planned, for any number of epochs, *)
(* updates and checkpoints.                                                   *)
EXTENDS OnlineTrain, TLAPS

---------------------------------------------------------------------------
(* The engines, under any control calls. *)

Pos(s) == 1..Len(s)

\* The driver has at most one call in the inbox of an engine, and none once the
\* call has returned.
OneDriverCall ==
    \A e \in Engines :
        /\ \A i, j \in Pos(inbox[e]) :
              inbox[e][i] = Driver /\ inbox[e][j] = Driver => i = j
        /\ control[e] = NoCall => \A i \in Pos(inbox[e]) : inbox[e][i] # Driver

\* Types, for versions of any kind.
AnyCall == [st : {"idle", "queued", "parked", "working"}, eng : Engines, out : Seq(Int),
            left : 0..MaxTotal]
AnyControl == [op : OpNames, version : Int]
WorkerTypes ==
    /\ ready \in [Engines -> BOOLEAN]
    /\ onGpu \in [Engines -> SUBSET Tags]
    /\ weights \in [Engines -> Int]
    /\ inbox \in [Engines -> Seq(Clients \cup {Driver})]
    /\ call \in [Clients -> AnyCall]
    /\ control \in [Engines -> AnyControl]
    /\ raised \in BOOLEAN

\* The inductive invariant of the engines.
WorkerInv == WorkerTypes /\ OneDriverCall /\ QuietWhenPaused /\ OutputBounded

\* The oldest call of an inbox and the calls behind it.
LEMMA InboxTail ==
    ASSUME NEW S, NEW s \in Seq(S), s # <<>>
    PROVE  /\ Tail(s) \in Seq(S)
           /\ 1 \in Pos(s) /\ Head(s) = s[1]
           /\ DOMAIN Tail(s) = Pos(Tail(s))
           /\ \A i \in Pos(Tail(s)) : Tail(s)[i] = s[i + 1] /\ i + 1 \in Pos(s)
  BY DEF Pos

\* A call that arrives goes behind the others.
LEMMA InboxAppend ==
    ASSUME NEW S, NEW s \in Seq(S), NEW x \in S
    PROVE  /\ Append(s, x) \in Seq(S)
           /\ Len(Append(s, x)) = Len(s) + 1
           /\ DOMAIN Append(s, x) = Pos(Append(s, x))
           /\ Append(s, x)[Len(s) + 1] = x
           /\ \A i \in Pos(s) : Append(s, x)[i] = s[i]
           /\ Pos(Append(s, x)) = Pos(s) \cup {Len(s) + 1}
  BY DEF Pos

\* The budget of a submission is positive or zero tokens short of the limit.
LEMMA RemainingBound ==
    ASSUME NEW out \in Seq(Int), Len(out) <= MaxTotal
    PROVE  /\ Remaining(out) \in 0..MaxTotal
           /\ Len(out) + Remaining(out) <= MaxTotal
  BY WorkerAssumption DEF Remaining

\* What the top of the generate loop does to a call.
LEMMA SubmittedFacts ==
    ASSUME NEW r \in AnyCall, Len(r.out) + r.left <= MaxTotal
    PROVE  /\ Submitted(r) \in AnyCall
           /\ Submitted(r).eng = r.eng
           /\ Len(Submitted(r).out) + Submitted(r).left <= MaxTotal
  <1>1. r.out \in Seq(Int) /\ r.left \in 0..MaxTotal
    BY DEF AnyCall
  <1>2. Len(r.out) \in Nat /\ Len(r.out) <= MaxTotal
    BY <1>1, WorkerAssumption
  <1>3. /\ Remaining(r.out) \in 0..MaxTotal
        /\ Len(r.out) + Remaining(r.out) <= MaxTotal
    BY <1>1, <1>2, RemainingBound
  <1> QED BY <1>1, <1>2, <1>3, WorkerAssumption DEF Submitted, AnyCall, GenCall

\* What each step of generate makes of its call; the other calls stay.
LEMMA GenerateStepCall ==
    ASSUME WorkerInv, NEW c \in Clients, GenerateStep(c)
    PROVE  /\ call' = [call EXCEPT ![c] = call'[c]]
           /\ call'[c] \in AnyCall
           /\ Len(call'[c].out) + call'[c].left <= MaxTotal
           /\ call'[c].eng = call[c].eng
           /\ call'[c].st = "working" => ready[call[c].eng] \/ call[c].st = "working"
  <1>1. /\ call \in [Clients -> AnyCall]
        /\ call[c] \in AnyCall
        /\ Len(call[c].out) + call[c].left <= MaxTotal
        /\ call[c].out \in Seq(Int)
        /\ call[c].left \in 0..MaxTotal
        /\ call[c].eng \in Engines
    BY DEF WorkerInv, WorkerTypes, OutputBounded, AnyCall
  <1>2. Len(call[c].out) \in Nat /\ Len(call[c].out) <= MaxTotal
    BY <1>1, WorkerAssumption
  <1>3. CASE StartGenerate(c)
    <2>1. CASE ready[call[c].eng]
      <3>1. call' = [call EXCEPT ![c] = Submitted(call[c])]
        BY <1>1, <1>3, <2>1 DEF StartGenerate
      <3> QED BY <1>1, <2>1, <3>1, SubmittedFacts
    <2>2. CASE ~ready[call[c].eng]
      <3>1. call' = [call EXCEPT ![c] = GenCall("parked", call[c].eng, call[c].out, 0)]
        BY <1>1, <1>3, <2>2 DEF StartGenerate
      <3> QED BY <1>1, <1>2, <3>1, WorkerAssumption DEF AnyCall, GenCall
    <2> QED BY <2>1, <2>2
  <1>4. CASE Decode(c)
    <2> DEFINE out == Append(call[c].out, weights[call[c].eng])
    <2>1. weights[call[c].eng] \in Int
      BY <1>1 DEF WorkerInv, WorkerTypes
    <2>2. out \in Seq(Int) /\ Len(out) = Len(call[c].out) + 1
      BY <2>1, <1>1
    <2>3. /\ call' = [call EXCEPT ![c] = GenCall("working", call[c].eng, out, call[c].left - 1)]
          /\ call[c].st = "working"
          /\ call[c].left > 0
      BY <1>1, <1>4 DEF Decode
    <2> HIDE DEF out
    <2> QED BY <1>1, <1>2, <2>2, <2>3, WorkerAssumption DEF AnyCall, GenCall
  <1>5. CASE Finish(c)
    <2>1. call' = [call EXCEPT ![c] = GenCall("idle", call[c].eng, call[c].out, 0)]
      BY <1>1, <1>5 DEF Finish
    <2> QED BY <1>1, <1>2, <2>1, WorkerAssumption DEF AnyCall, GenCall
  <1>6. CASE Abort(c)
    <2> DEFINE out == IF ContinueAfterAbort /\ ClearAfterAbort THEN <<>> ELSE call[c].out
    <2> DEFINE st == IF ContinueAfterAbort THEN "parked" ELSE "idle"
    <2>1. out \in Seq(Int) /\ Len(out) <= MaxTotal
      BY <1>1, <1>2, WorkerAssumption
    <2>2. st \in {"parked", "idle"}
      OBVIOUS
    <2>3. call' = [call EXCEPT ![c] = GenCall(st, call[c].eng, out, 0)]
      BY <1>1, <1>6 DEF Abort
    <2> HIDE DEF out, st
    <2> QED BY <1>1, <2>1, <2>2, <2>3, WorkerAssumption DEF AnyCall, GenCall
  <1> QED BY <1>3, <1>4, <1>5, <1>6 DEF GenerateStep

\* The driver's call leaves the inbox: no other call of the driver is there.
LEMMA ControlInbox ==
    ASSUME WorkerInv, NEW e \in Engines, NEW name, Control(e, name)
    PROVE  /\ inbox' \in [Engines -> Seq(Clients \cup {Driver})]
           /\ \A f \in Engines \ {e} : inbox'[f] = inbox[f]
           /\ \A i \in Pos(inbox'[e]) : inbox'[e][i] # Driver
           /\ DOMAIN inbox'[e] = Pos(inbox'[e])
           /\ ~Pausing(e)
           /\ control[e].op = name
  <1>1. inbox[e] \in Seq(Clients \cup {Driver}) /\ inbox[e] # <<>> /\ Head(inbox[e]) = Driver
    BY DEF WorkerInv, WorkerTypes, Control, Admits
  <1>2. /\ Tail(inbox[e]) \in Seq(Clients \cup {Driver})
        /\ 1 \in Pos(inbox[e]) /\ inbox[e][1] = Driver
        /\ DOMAIN Tail(inbox[e]) = Pos(Tail(inbox[e]))
        /\ \A i \in Pos(Tail(inbox[e])) :
              Tail(inbox[e])[i] = inbox[e][i + 1] /\ i + 1 \in Pos(inbox[e])
    BY <1>1, InboxTail
  <1>3. inbox' = [inbox EXCEPT ![e] = Tail(@)]
    BY DEF Control
  <1>4. inbox'[e] = Tail(inbox[e])
    BY <1>3 DEF WorkerInv, WorkerTypes
  <1>5. \A i \in Pos(Tail(inbox[e])) : Tail(inbox[e])[i] # Driver
    <2> SUFFICES ASSUME NEW i \in Pos(Tail(inbox[e])), Tail(inbox[e])[i] = Driver
                 PROVE  FALSE
      OBVIOUS
    <2>1. i \in Nat \ {0} /\ i + 1 # 1
      BY DEF Pos
    <2>2. inbox[e][i + 1] = Driver /\ i + 1 \in Pos(inbox[e])
      BY <1>2
    <2> QED BY <1>2, <2>1, <2>2 DEF WorkerInv, OneDriverCall
  <1>6. ~Pausing(e)
    <2>1. 1 \in DOMAIN inbox[e]
      BY <1>1, <1>2 DEF Pos
    <2> QED BY <1>2, <2>1 DEF Pausing
  <1> QED BY <1>2, <1>3, <1>4, <1>5, <1>6 DEF WorkerInv, WorkerTypes, Control

\* A control call that returns at once and leaves ready and the calls alone
\* keeps the driver's bookkeeping and the quiet of the engine.
LEMMA ReturningCall ==
    ASSUME WorkerInv, NEW e \in Engines, NEW name,
           Control(e, name), Return(e), UNCHANGED <<ready, call>>
    PROVE  /\ control' \in [Engines -> AnyControl]
           /\ OneDriverCall'
           /\ QuietWhenPaused'
  <1>1. /\ control' = [control EXCEPT ![e] = NoCall]
        /\ control \in [Engines -> AnyControl]
    BY DEF Return, WorkerInv, WorkerTypes
  <1>2. NoCall \in AnyControl
    BY DEF NoCall, Op, OpNames, AnyControl
  <1>3. OneDriverCall'
    <2> SUFFICES ASSUME NEW f \in Engines
                 PROVE  /\ \A i, j \in Pos(inbox'[f]) :
                             inbox'[f][i] = Driver /\ inbox'[f][j] = Driver => i = j
                        /\ control'[f] = NoCall => \A i \in Pos(inbox'[f]) : inbox'[f][i] # Driver
      BY DEF OneDriverCall, Pos
    <2>1. CASE f = e
      BY <2>1, ControlInbox
    <2>2. CASE f # e
      <3>1. inbox'[f] = inbox[f] /\ control'[f] = control[f]
        BY <1>1, <2>2, ControlInbox
      <3> QED BY <3>1 DEF OneDriverCall, WorkerInv
    <2> QED BY <2>1, <2>2
  <1>4. ASSUME NEW f \in Engines, Working(f)' # {} PROVE ready'[f] \/ Pausing(f)'
    <2>1. Working(f) # {}
      BY <1>4 DEF Working, OnEngine
    <2>2. ready[f] \/ Pausing(f)
      BY <2>1 DEF WorkerInv, QuietWhenPaused
    <2>3. CASE ready[f]
      BY <2>3
    <2>4. CASE Pausing(f)
      <3>1. f # e
        BY <2>4, ControlInbox
      <3> QED BY <1>1, <2>4, <3>1, ControlInbox DEF Pausing
    <2> QED BY <2>2, <2>3, <2>4
  <1> QED BY <1>1, <1>2, <1>3, <1>4 DEF QuietWhenPaused

\* Working(e) looks only at the calls.
LEMMA OneCallWorking ==
    ASSUME WorkerInv, NEW c \in Clients, NEW e \in Engines,
           call' = [call EXCEPT ![c] = call'[c]], call'[c].eng = call[c].eng,
           Working(e)' # {}, Working(e) = {}
    PROVE  call'[c].st = "working" /\ call[c].st # "working" /\ call[c].eng = e
  <1>1. call \in [Clients -> AnyCall]
    BY DEF WorkerInv, WorkerTypes
  <1>2. PICK d \in Clients : call'[d].eng = e /\ call'[d].st = "working"
    BY DEF Working, OnEngine
  <1>3. d = c
    BY <1>1, <1>2 DEF Working, OnEngine
  <1> QED BY <1>1, <1>2, <1>3 DEF Working, OnEngine

\* Steps of the generate calls.
LEMMA GenerateStepInv ==
    ASSUME WorkerInv, NEW c \in Clients, GenerateStep(c)
    PROVE  WorkerInv'
  <1>1. /\ UNCHANGED <<ready, onGpu, weights, control, raised>>
        /\ call[c].eng \in Engines
        /\ inbox \in [Engines -> Seq(Clients \cup {Driver})]
    BY DEF GenerateStep, StartGenerate, Decode, Finish, Abort, WorkerInv, WorkerTypes, AnyCall
  <1>2. call' \in [Clients -> AnyCall] /\ OutputBounded'
    BY GenerateStepCall DEF WorkerInv, WorkerTypes, OutputBounded
  <1>3. /\ inbox' \in [Engines -> Seq(Clients \cup {Driver})]
        /\ \A e \in Engines :
              \/ inbox'[e] = inbox[e]
              \/ /\ DOMAIN inbox'[e] = Pos(inbox'[e])
                 /\ \A i \in Pos(inbox'[e]) :
                       inbox'[e][i] = inbox[e][i + 1] /\ i + 1 \in Pos(inbox[e])
    <2>1. CASE UNCHANGED inbox
      BY <1>1, <2>1
    <2>2. CASE StartGenerate(c)
      <3> DEFINE s == inbox[call[c].eng]
      <3>1. s \in Seq(Clients \cup {Driver}) /\ s # <<>>
        BY <1>1, <2>2 DEF StartGenerate, Admits
      <3>2. /\ Tail(s) \in Seq(Clients \cup {Driver})
            /\ DOMAIN Tail(s) = Pos(Tail(s))
            /\ \A i \in Pos(Tail(s)) : Tail(s)[i] = s[i + 1] /\ i + 1 \in Pos(s)
        BY <3>1, InboxTail
      <3>3. inbox' = [inbox EXCEPT ![call[c].eng] = Tail(s)]
        BY <2>2 DEF StartGenerate
      <3> QED BY <1>1, <3>2, <3>3
    <2> QED BY <2>1, <2>2 DEF GenerateStep, Decode, Finish, Abort
  <1>4. \A e \in Engines : inbox[e] \in Seq(Clients \cup {Driver}) /\ DOMAIN inbox[e] = Pos(inbox[e])
    BY <1>1 DEF Pos
  <1>5. OneDriverCall'
    <2> SUFFICES ASSUME NEW e \in Engines
                 PROVE  /\ \A i, j \in Pos(inbox'[e]) :
                             inbox'[e][i] = Driver /\ inbox'[e][j] = Driver => i = j
                        /\ control'[e] = NoCall => \A i \in Pos(inbox'[e]) : inbox'[e][i] # Driver
      BY DEF OneDriverCall, Pos
    <2>1. CASE inbox'[e] = inbox[e]
      BY <1>1, <2>1 DEF OneDriverCall, WorkerInv
    <2>2. CASE \A i \in Pos(inbox'[e]) : inbox'[e][i] = inbox[e][i + 1] /\ i + 1 \in Pos(inbox[e])
      <3>1. \A i, j \in Pos(inbox'[e]) : i + 1 = j + 1 => i = j
        BY DEF Pos
      <3> QED BY <1>1, <2>2, <3>1 DEF OneDriverCall, WorkerInv
    <2> QED BY <1>3, <2>1, <2>2
  <1>6. QuietWhenPaused'
    <2> SUFFICES ASSUME NEW e \in Engines, Working(e)' # {}
                 PROVE  ready'[e] \/ Pausing(e)'
      BY DEF QuietWhenPaused
    <2>1. CASE Working(e) # {}
      <3>1. ready[e] \/ Pausing(e)
        BY <2>1 DEF WorkerInv, QuietWhenPaused
      <3>2. ASSUME Pausing(e) PROVE Pausing(e)'
        BY <1>1, <1>3, <1>4, <3>2 DEF Pausing
      <3> QED BY <1>1, <3>1, <3>2
    <2>2. CASE Working(e) = {}
      <3>1. call'[c].st = "working" /\ call[c].st # "working" /\ call[c].eng = e
        BY <2>2, GenerateStepCall, OneCallWorking
      <3> QED BY <1>1, <3>1, GenerateStepCall
    <2> QED BY <2>1, <2>2
  <1> QED BY <1>1, <1>2, <1>3, <1>5, <1>6 DEF WorkerInv, WorkerTypes

\* A new generate call goes behind the others.
LEMMA GenerateInv ==
    ASSUME WorkerInv, NEW c \in Clients, NEW e \in Engines, Generate(c, e)
    PROVE  WorkerInv'
  <1>1. /\ UNCHANGED <<ready, onGpu, weights, control, raised>>
        /\ call' = [call EXCEPT ![c] = GenCall("queued", e, <<>>, 0)]
        /\ inbox' = [inbox EXCEPT ![e] = Append(inbox[e], c)]
        /\ inbox \in [Engines -> Seq(Clients \cup {Driver})]
        /\ call \in [Clients -> AnyCall]
    BY DEF Generate, WorkerInv, WorkerTypes
  <1>2. GenCall("queued", e, <<>>, 0) \in AnyCall
    BY WorkerAssumption DEF GenCall, AnyCall
  <1>3. call' \in [Clients -> AnyCall] /\ OutputBounded'
    <2>1. Len(GenCall("queued", e, <<>>, 0).out) + GenCall("queued", e, <<>>, 0).left <= MaxTotal
      BY WorkerAssumption DEF GenCall
    <2> QED BY <1>1, <1>2, <2>1 DEF WorkerInv, OutputBounded
  <1>4. /\ inbox[e] \in Seq(Clients \cup {Driver})
        /\ Len(inbox[e]) \in Nat
        /\ DOMAIN inbox[e] = Pos(inbox[e])
        /\ c \in Clients \cup {Driver} /\ c # Driver
    BY <1>1, WorkerAssumption DEF Pos
  <1>5. /\ inbox'[e] \in Seq(Clients \cup {Driver})
        /\ DOMAIN inbox'[e] = Pos(inbox'[e])
        /\ \A i \in Pos(inbox'[e]) :
              inbox'[e][i] = Driver => i \in Pos(inbox[e]) /\ inbox[e][i] = Driver
    BY <1>1, <1>4, InboxAppend
  <1>6. inbox' \in [Engines -> Seq(Clients \cup {Driver})]
    BY <1>1, <1>5
  <1>7. OneDriverCall'
    <2> SUFFICES ASSUME NEW f \in Engines
                 PROVE  /\ \A i, j \in Pos(inbox'[f]) :
                             inbox'[f][i] = Driver /\ inbox'[f][j] = Driver => i = j
                        /\ control'[f] = NoCall => \A i \in Pos(inbox'[f]) : inbox'[f][i] # Driver
      BY DEF OneDriverCall, Pos
    <2>1. CASE f = e
      BY <1>1, <1>5, <2>1 DEF OneDriverCall, WorkerInv
    <2>2. CASE f # e
      BY <1>1, <2>2 DEF OneDriverCall, WorkerInv
    <2> QED BY <2>1, <2>2
  <1>8. QuietWhenPaused'
    <2> SUFFICES ASSUME NEW f \in Engines, Working(f)' # {}
                 PROVE  ready'[f] \/ Pausing(f)'
      BY DEF QuietWhenPaused
    <2>1. Working(f) # {}
      BY <1>1 DEF Working, OnEngine, GenCall
    <2>2. ready[f] \/ Pausing(f)
      BY <2>1 DEF WorkerInv, QuietWhenPaused
    <2>3. ASSUME Pausing(f) PROVE Pausing(f)'
      <3>1. CASE f = e
        BY <1>1, <1>4, <1>5, <2>3, <3>1 DEF Pausing
      <3>2. CASE f # e
        BY <1>1, <2>3, <3>2 DEF Pausing
      <3> QED BY <3>1, <3>2
    <2> QED BY <1>1, <2>2, <2>3
  <1> QED BY <1>1, <1>3, <1>6, <1>7, <1>8 DEF WorkerInv, WorkerTypes

\* The driver calls every engine: none was pausing.
LEMMA CallEnginesInv ==
    ASSUME WorkerInv, NEW o \in [Engines -> AnyControl], \A e \in Engines : o[e] # NoCall,
           CallEngines(o)
    PROVE  WorkerInv'
  <1>1. /\ UNCHANGED <<ready, onGpu, weights, call, raised>>
        /\ control' = o
        /\ inbox' = [e \in Engines |-> Append(inbox[e], Driver)]
        /\ \A e \in Engines : control[e] = NoCall
        /\ inbox \in [Engines -> Seq(Clients \cup {Driver})]
    BY DEF CallEngines, WorkerInv, WorkerTypes
  <1>2. \A e \in Engines : o[e] # NoCall
    OBVIOUS
  <1>3. ASSUME NEW e \in Engines
        PROVE  /\ inbox'[e] \in Seq(Clients \cup {Driver})
               /\ \A i \in Pos(inbox'[e]) : inbox'[e][i] = Driver => i = Len(inbox[e]) + 1
    <2>1. inbox[e] \in Seq(Clients \cup {Driver}) /\ Driver \in Clients \cup {Driver}
      BY <1>1
    <2>2. \A i \in Pos(inbox[e]) : inbox[e][i] # Driver
      BY <1>1 DEF WorkerInv, OneDriverCall
    <2>3. inbox'[e] = Append(inbox[e], Driver)
      BY <1>1
    <2> QED BY <2>1, <2>2, <2>3, InboxAppend
  <1>4. inbox' \in [Engines -> Seq(Clients \cup {Driver})]
    BY <1>1, <1>3
  <1>5. OneDriverCall'
    BY <1>1, <1>2, <1>3 DEF OneDriverCall, Pos
  <1>6. QuietWhenPaused'
    <2> SUFFICES ASSUME NEW e \in Engines, Working(e)' # {}
                 PROVE  ready'[e]
      BY DEF QuietWhenPaused
    <2>1. Working(e) # {}
      BY <1>1 DEF Working, OnEngine
    <2>2. ~Pausing(e)
      BY <1>1 DEF Pausing, NoCall, Op
    <2> QED BY <1>1, <2>1, <2>2 DEF WorkerInv, QuietWhenPaused
  <1>7. OutputBounded'
    BY <1>1 DEF WorkerInv, OutputBounded
  <1> QED BY <1>1, <1>2, <1>4, <1>5, <1>6, <1>7 DEF WorkerInv, WorkerTypes

\* The control calls that only touch memory and weights.
LEMMA MemoryCallInv ==
    ASSUME WorkerInv, NEW e \in Engines,
           \/ PauseGenerationAgain(e) \/ ReleaseGpuMemory(e)
           \/ ResumeWeights(e) \/ ResumeKvCache(e) \/ UpdateWeights(e)
    PROVE  WorkerInv'
  <1>1. UNCHANGED <<ready, call>> /\ Return(e)
    BY DEF PauseGenerationAgain, ReleaseGpuMemory, ResumeWeights, ResumeKvCache, UpdateWeights
  <1>2. PICK name : Control(e, name)
    BY DEF PauseGenerationAgain, ReleaseGpuMemory, ResumeWeights, ResumeKvCache, UpdateWeights
  <1>3. /\ inbox' \in [Engines -> Seq(Clients \cup {Driver})]
        /\ control' \in [Engines -> AnyControl]
        /\ OneDriverCall'
        /\ QuietWhenPaused'
    BY <1>1, <1>2, ControlInbox, ReturningCall
  <1>4. OutputBounded'
    BY <1>1 DEF WorkerInv, OutputBounded
  <1>5. /\ onGpu \in [Engines -> SUBSET Tags]
        /\ weights \in [Engines -> Int]
        /\ control[e].version \in Int
        /\ raised \in BOOLEAN
    BY DEF WorkerInv, WorkerTypes, AnyControl
  <1>6. /\ onGpu' \in [Engines -> SUBSET Tags]
        /\ weights' \in [Engines -> Int]
        /\ raised' \in BOOLEAN
    <2>1. CASE PauseGenerationAgain(e)
      BY <1>5, <2>1 DEF PauseGenerationAgain
    <2>2. CASE ReleaseGpuMemory(e)
      BY <1>5, <2>2 DEF ReleaseGpuMemory, Lost
    <2>3. CASE ResumeWeights(e)
      BY <1>5, <2>3 DEF ResumeWeights, Tags
    <2>4. CASE ResumeKvCache(e)
      BY <1>5, <2>4 DEF ResumeKvCache, Tags
    <2>5. CASE UpdateWeights(e)
      BY <1>5, <2>5 DEF UpdateWeights
    <2> QED BY <2>1, <2>2, <2>3, <2>4, <2>5
  <1> QED BY <1>1, <1>3, <1>4, <1>6 DEF WorkerInv, WorkerTypes

\* pause_generation starts: its call is the driver's only one, so it is pausing.
LEMMA PauseInv ==
    ASSUME WorkerInv, NEW e \in Engines, PauseGeneration(e)
    PROVE  WorkerInv'
  <1>1. /\ UNCHANGED <<onGpu, weights, call, control, raised>>
        /\ ready' = [ready EXCEPT ![e] = FALSE]
        /\ Control(e, "pause")
        /\ ready \in [Engines -> BOOLEAN]
    BY DEF PauseGeneration, WorkerInv, WorkerTypes
  <1>2. /\ inbox' \in [Engines -> Seq(Clients \cup {Driver})]
        /\ \A f \in Engines \ {e} : inbox'[f] = inbox[f]
        /\ \A i \in Pos(inbox'[e]) : inbox'[e][i] # Driver
        /\ DOMAIN inbox'[e] = Pos(inbox'[e])
        /\ control[e].op = "pause"
    BY <1>1, ControlInbox
  <1>3. Pausing(e)'
    BY <1>1, <1>2 DEF Pausing
  <1>4. OneDriverCall'
    <2> SUFFICES ASSUME NEW f \in Engines
                 PROVE  /\ \A i, j \in Pos(inbox'[f]) :
                             inbox'[f][i] = Driver /\ inbox'[f][j] = Driver => i = j
                        /\ control'[f] = NoCall => \A i \in Pos(inbox'[f]) : inbox'[f][i] # Driver
      BY DEF OneDriverCall, Pos
    <2>1. CASE f = e
      BY <1>2, <2>1
    <2>2. CASE f # e
      BY <1>1, <1>2, <2>2 DEF OneDriverCall, WorkerInv
    <2> QED BY <2>1, <2>2
  <1>5. ASSUME NEW f \in Engines, Working(f)' # {} PROVE ready'[f] \/ Pausing(f)'
    <2>1. CASE f = e
      BY <1>3, <2>1
    <2>2. CASE f # e
      <3>1. Working(f) # {}
        BY <1>1, <1>5 DEF Working, OnEngine
      <3>2. ready[f] \/ Pausing(f)
        BY <3>1 DEF WorkerInv, QuietWhenPaused
      <3> QED BY <1>1, <1>2, <2>2, <3>2 DEF Pausing
    <2> QED BY <2>1, <2>2
  <1>6. OutputBounded'
    BY <1>1 DEF WorkerInv, OutputBounded
  <1> QED BY <1>1, <1>2, <1>4, <1>5, <1>6 DEF WorkerInv, WorkerTypes, QuietWhenPaused

\* pause_generation returns.
LEMMA PausedInv ==
    ASSUME WorkerInv, NEW e \in Engines, Paused(e)
    PROVE  WorkerInv'
  <1>1. /\ UNCHANGED <<ready, onGpu, weights, inbox, call, raised>>
        /\ control' = [control EXCEPT ![e] = NoCall]
        /\ Pausing(e) /\ Working(e) = {}
        /\ inbox \in [Engines -> Seq(Clients \cup {Driver})]
        /\ control \in [Engines -> AnyControl]
    BY DEF Paused, Return, WorkerInv, WorkerTypes
  <1>2. NoCall \in AnyControl
    BY DEF NoCall, Op, OpNames, AnyControl
  <1>3. \A i \in Pos(inbox[e]) : inbox[e][i] # Driver
    BY <1>1 DEF Pausing, Pos
  <1>4. OneDriverCall'
    BY <1>1, <1>3 DEF OneDriverCall, WorkerInv, Pos
  <1>5. ASSUME NEW f \in Engines, Working(f)' # {} PROVE ready'[f] \/ Pausing(f)'
    <2>1. Working(f) # {} /\ f # e
      BY <1>1, <1>5 DEF Working, OnEngine
    <2> QED BY <1>1, <2>1 DEF WorkerInv, QuietWhenPaused, Pausing
  <1>6. OutputBounded'
    BY <1>1 DEF WorkerInv, OutputBounded
  <1> QED BY <1>1, <1>2, <1>4, <1>5, <1>6 DEF WorkerInv, WorkerTypes, QuietWhenPaused

\* resume_generation: only its own engine's calls move on.
LEMMA ResumeInv ==
    ASSUME WorkerInv, NEW e \in Engines, ResumeGeneration(e)
    PROVE  WorkerInv'
  <1> DEFINE woken(c) == IF c \in OnEngine(e, {"parked"}) THEN Submitted(call[c]) ELSE call[c]
  <1>1. /\ UNCHANGED <<onGpu, weights, raised>>
        /\ ready' = [ready EXCEPT ![e] = TRUE]
        /\ call' = [c \in Clients |-> woken(c)]
        /\ control' = [control EXCEPT ![e] = NoCall]
        /\ Control(e, "resume")
        /\ ready \in [Engines -> BOOLEAN]
        /\ control \in [Engines -> AnyControl]
    BY DEF ResumeGeneration, Return, WorkerInv, WorkerTypes
  <1>2. /\ inbox' \in [Engines -> Seq(Clients \cup {Driver})]
        /\ \A f \in Engines \ {e} : inbox'[f] = inbox[f]
        /\ \A i \in Pos(inbox'[e]) : inbox'[e][i] # Driver
    BY <1>1, ControlInbox
  <1>3. ASSUME NEW c \in Clients
        PROVE  /\ woken(c) \in AnyCall
               /\ woken(c).eng = call[c].eng
               /\ Len(woken(c).out) + woken(c).left <= MaxTotal
               /\ woken(c) # call[c] => call[c].eng = e
    <2>1. call[c] \in AnyCall /\ Len(call[c].out) + call[c].left <= MaxTotal
      BY DEF WorkerInv, WorkerTypes, OutputBounded
    <2> QED BY <2>1, SubmittedFacts DEF OnEngine
  <1>4. call' \in [Clients -> AnyCall]
    BY <1>1, <1>3
  <1>5. OutputBounded'
    BY <1>1, <1>3 DEF OutputBounded
  <1>6. NoCall \in AnyControl
    BY DEF NoCall, Op, OpNames, AnyControl
  <1>7. OneDriverCall'
    <2> SUFFICES ASSUME NEW f \in Engines
                 PROVE  /\ \A i, j \in Pos(inbox'[f]) :
                             inbox'[f][i] = Driver /\ inbox'[f][j] = Driver => i = j
                        /\ control'[f] = NoCall => \A i \in Pos(inbox'[f]) : inbox'[f][i] # Driver
      BY DEF OneDriverCall, Pos
    <2>1. CASE f = e
      BY <1>2, <2>1
    <2>2. CASE f # e
      BY <1>1, <1>2, <2>2 DEF OneDriverCall, WorkerInv
    <2> QED BY <2>1, <2>2
  <1>8. ASSUME NEW f \in Engines, Working(f)' # {} PROVE ready'[f] \/ Pausing(f)'
    <2>1. CASE f = e
      BY <1>1, <2>1
    <2>2. CASE f # e
      <3>1. Working(f) # {}
        <4>1. PICK c \in Clients : call'[c].eng = f /\ call'[c].st = "working"
          BY <1>8 DEF Working, OnEngine
        <4>2. call'[c] = woken(c)
          BY <1>1
        <4>3. call'[c] = call[c]
          BY <1>3, <2>2, <4>1, <4>2
        <4> QED BY <4>1, <4>3 DEF Working, OnEngine
      <3>2. ready[f] \/ Pausing(f)
        BY <3>1 DEF WorkerInv, QuietWhenPaused
      <3> QED BY <1>1, <1>2, <2>2, <3>2 DEF Pausing
    <2> QED BY <2>1, <2>2
  <1> HIDE DEF woken
  <1> QED BY <1>1, <1>2, <1>4, <1>5, <1>6, <1>7, <1>8 DEF WorkerInv, WorkerTypes, QuietWhenPaused

\* The invariant is inductive.
LEMMA WorkerInvInductive ==
    ASSUME WorkerInv, [WorkerNext]_workerVars
    PROVE  WorkerInv'
  <1>1. ASSUME NEW e \in Engines, ControlStep(e) PROVE WorkerInv'
    BY <1>1, MemoryCallInv, PauseInv, PausedInv, ResumeInv DEF ControlStep
  <1>2. CASE UNCHANGED workerVars
    BY <1>2 DEF workerVars, WorkerInv, WorkerTypes, OneDriverCall, QuietWhenPaused, Working,
                OnEngine, Pausing, OutputBounded
  <1>3. ASSUME NEW o \in Ops, CallEngines([e \in Engines |-> o]) PROVE WorkerInv'
    <2>1. o \in AnyControl /\ o # NoCall
      BY WorkerAssumption DEF Ops, Op, Update, OpNames, NoCall, AnyControl
    <2>2. /\ [e \in Engines |-> o] \in [Engines -> AnyControl]
          /\ \A e \in Engines : [f \in Engines |-> o][e] # NoCall
      BY <2>1
    <2> QED BY <1>3, <2>2, CallEnginesInv
  <1> QED BY <1>1, <1>2, <1>3, GenerateStepInv, GenerateInv DEF WorkerNext, WorkerStep

\* Nothing is queued, paused or generated initially.
LEMMA WorkerInitInv ==
    ASSUME WorkerInit PROVE WorkerInv
  <1>1. \A c \in Clients : \E e \in Engines : call[c] = GenCall("idle", e, <<>>, 0)
    BY DEF WorkerInit
  <1>2. call \in [Clients -> AnyCall]
    <2>1. \A e \in Engines : GenCall("idle", e, <<>>, 0) \in AnyCall
      BY WorkerAssumption DEF GenCall, AnyCall
    <2> QED BY <2>1 DEF WorkerInit
  <1>3. OutputBounded
    <2>1. \A e \in Engines : Len(GenCall("idle", e, <<>>, 0).out) + GenCall("idle", e, <<>>, 0).left <= MaxTotal
      BY WorkerAssumption DEF GenCall
    <2> QED BY <1>1, <2>1 DEF OutputBounded
  <1>4. QuietWhenPaused
    BY DEF WorkerInit, QuietWhenPaused
  <1>5. OneDriverCall
    BY DEF WorkerInit, OneDriverCall, Pos
  <1>6. WorkerTypes
    <2>1. onGpu \in [Engines -> SUBSET Tags] /\ weights \in [Engines -> Int]
      BY DEF WorkerInit, Lost
    <2>2. control \in [Engines -> AnyControl]
      <3>1. NoCall \in AnyControl
        BY DEF NoCall, Op, OpNames, AnyControl
      <3> QED BY <3>1 DEF WorkerInit
    <2>3. inbox \in [Engines -> Seq(Clients \cup {Driver})]
      BY DEF WorkerInit
    <2>4. ready \in [Engines -> BOOLEAN] /\ raised \in BOOLEAN
      BY DEF WorkerInit
    <2> QED BY <1>2, <2>1, <2>2, <2>3, <2>4 DEF WorkerTypes
  <1> QED BY <1>3, <1>4, <1>5, <1>6 DEF WorkerInv


\* The versions that the engines hold and sample are those the updates install.
VersionsServed ==
    /\ weights \in [Engines -> Versions \cup {Lost, 0}]
    /\ control \in [Engines -> [op : OpNames, version : Versions \cup {0}]]
    /\ \A c \in Clients : call[c].out \in Seq(Versions \cup {Lost, 0})

\* A call whose tokens are of these versions has its type.
LEMMA TypedByVersions == WorkerInv /\ VersionsServed => WorkerTypeOK
  <1> SUFFICES ASSUME WorkerInv, VersionsServed PROVE WorkerTypeOK
    OBVIOUS
  <1>1. call \in [Clients -> AnyCall] /\ \A c \in Clients : call[c].out \in Seq(Versions \cup {Lost, 0})
    BY DEF WorkerInv, WorkerTypes, VersionsServed
  <1>2. call \in [Clients -> CallState]
    <2> SUFFICES ASSUME NEW c \in Clients PROVE call[c] \in CallState
      BY <1>1
    <2>1. call[c] \in AnyCall /\ call[c].out \in Seq(Versions \cup {Lost, 0})
      BY <1>1
    <2> QED BY <2>1 DEF AnyCall, CallState
  <1> QED BY <1>2 DEF WorkerInv, WorkerTypes, VersionsServed, WorkerTypeOK

\* What a step does to a call leaves its tokens, adds one of the engine's version, or
\* drops them.
LEMMA TokensOfGenerate ==
    ASSUME WorkerInv, VersionsServed, NEW c \in Clients, GenerateStep(c)
    PROVE  call'[c].out \in Seq(Versions \cup {Lost, 0})
  <1>1. /\ call \in [Clients -> AnyCall] /\ call[c] \in AnyCall
        /\ call[c].out \in Seq(Versions \cup {Lost, 0})
        /\ weights[call[c].eng] \in Versions \cup {Lost, 0}
    BY DEF WorkerInv, WorkerTypes, VersionsServed, AnyCall
  <1>2. CASE StartGenerate(c)
    <2>1. \/ call'[c] = Submitted(call[c])
          \/ call'[c] = GenCall("parked", call[c].eng, call[c].out, 0)
      BY <1>1, <1>2 DEF StartGenerate
    <2> QED BY <1>1, <2>1 DEF Submitted, GenCall
  <1>3. CASE Decode(c)
    <2>1. call'[c].out = Append(call[c].out, weights[call[c].eng])
      BY <1>1, <1>3 DEF Decode, GenCall
    <2> QED BY <1>1, <2>1
  <1>4. CASE Finish(c)
    BY <1>1, <1>4 DEF Finish, GenCall
  <1>5. CASE Abort(c)
    <2>1. call'[c].out \in {<<>>, call[c].out}
      BY <1>1, <1>5 DEF Abort, GenCall
    <2>2. <<>> \in Seq(Versions \cup {Lost, 0})
      OBVIOUS
    <2> QED BY <1>1, <2>1, <2>2
  <1> QED BY <1>2, <1>3, <1>4, <1>5 DEF GenerateStep

\* The engines come to hold no other version.
LEMMA VersionsNext ==
    ASSUME WorkerInv, VersionsServed, [WorkerNext]_workerVars
    PROVE  VersionsServed'
  <1> USE DEF VersionsServed
  <1>0. /\ call \in [Clients -> AnyCall] /\ <<>> \in Seq(Versions \cup {Lost, 0})
        /\ NoCall \in [op : OpNames, version : Versions \cup {0}]
    BY DEF WorkerInv, WorkerTypes, NoCall, Op, OpNames
  <1>1. ASSUME NEW c \in Clients, GenerateStep(c) PROVE VersionsServed'
    <2>1. UNCHANGED <<weights, control>>
      BY <1>1 DEF GenerateStep, StartGenerate, Decode, Finish, Abort
    <2>2. call' = [call EXCEPT ![c] = call'[c]]
      BY <1>1, GenerateStepCall
    <2> QED BY <1>0, <1>1, <2>1, <2>2, TokensOfGenerate
  <1>2. ASSUME NEW e \in Engines, ControlStep(e) PROVE VersionsServed'
    <2>1. CASE ResumeGeneration(e)
      <3>1. /\ weights' = weights /\ control' = [control EXCEPT ![e] = NoCall]
            /\ \A c \in Clients : call'[c] \in {Submitted(call[c]), call[c]}
        BY <2>1 DEF ResumeGeneration, Return
      <3>2. \A c \in Clients : call'[c].out = call[c].out
        BY <3>1 DEF Submitted, GenCall
      <3> QED BY <1>0, <3>1, <3>2
    <2>2. CASE ~ResumeGeneration(e)
      <3>1. call' = call /\ control' \in {control, [control EXCEPT ![e] = NoCall]}
        BY <1>2, <2>2 DEF ControlStep, PauseGenerationAgain, PauseGeneration, Paused,
              ReleaseGpuMemory, ResumeWeights, ResumeKvCache, UpdateWeights, Return
      <3>2. \/ weights' = weights \/ weights' = [weights EXCEPT ![e] = Lost]
            \/ weights' = [weights EXCEPT ![e] = control[e].version]
        BY <1>2, <2>2 DEF ControlStep, PauseGenerationAgain, PauseGeneration, Paused,
              ReleaseGpuMemory, ResumeWeights, ResumeKvCache, UpdateWeights
      <3> QED BY <1>0, <3>1, <3>2
    <2> QED BY <2>1, <2>2
  <1>3. ASSUME NEW c \in Clients, NEW e \in Engines, Generate(c, e) PROVE VersionsServed'
    BY <1>0, <1>3 DEF Generate, GenCall
  <1>4. ASSUME NEW o \in Ops, CallEngines([e \in Engines |-> o]) PROVE VersionsServed'
    <2>1. o \in [op : OpNames, version : Versions \cup {0}]
      BY DEF Ops, Op, Update, OpNames
    <2> QED BY <1>4, <2>1 DEF CallEngines
  <1>5. CASE UNCHANGED workerVars
    BY <1>5 DEF workerVars
  <1> QED BY <1>1, <1>2, <1>3, <1>4, <1>5 DEF WorkerNext, WorkerStep

\* Whatever its callers do, once pause_generation has returned the engine is
\* quiet until resume_generation, and no generate call outgrows its budget.
THEOREM WorkerSafety == WorkerSpec => [](WorkerTypeOK /\ QuietWhenPaused /\ OutputBounded)
<1>1. WorkerInit => WorkerInv /\ VersionsServed
  <2> SUFFICES ASSUME WorkerInit PROVE VersionsServed
    BY WorkerInitInv
  <2>1. NoCall \in [op : OpNames, version : Versions \cup {0}]
    BY DEF NoCall, Op, OpNames
  <2>2. \A c \in Clients : call[c].out = <<>>
    BY DEF WorkerInit, GenCall
  <2>3. <<>> \in Seq(Versions \cup {Lost, 0})
    OBVIOUS
  <2>4. /\ weights \in [Engines -> Versions \cup {Lost, 0}]
        /\ control \in [Engines -> [op : OpNames, version : Versions \cup {0}]]
    BY <2>1 DEF WorkerInit
  <2> QED BY <2>2, <2>3, <2>4 DEF VersionsServed
<1>2. WorkerInv /\ VersionsServed /\ [WorkerNext]_workerVars => (WorkerInv /\ VersionsServed)'
  BY WorkerInvInductive, VersionsNext
<1>3. WorkerInv /\ VersionsServed => WorkerTypeOK /\ QuietWhenPaused /\ OutputBounded
  BY TypedByVersions DEF WorkerInv
<1> QED BY <1>1, <1>2, <1>3, PTL DEF WorkerSpec

\* No update replaces the weights of an engine that works on a request: the
\* assertion in update_weights_* is enough, because a pause that has returned
\* has drained the engine.
THEOREM QuietUpdates == WorkerSpec => UpdatesAreQuiet
<1> DEFINE Good == \A e \in Engines : weights'[e] \notin {weights[e], Lost} => Working(e) = {}
<1>1. WorkerInit => WorkerInv
  BY WorkerInitInv
<1>2. WorkerInv /\ [WorkerNext]_workerVars => WorkerInv'
  BY WorkerInvInductive
<1>3. WorkerInv /\ [WorkerNext]_workerVars => [Good]_workerVars
  <2> SUFFICES ASSUME WorkerInv, WorkerNext, NEW f \in Engines,
                      weights'[f] \notin {weights[f], Lost}
               PROVE  Working(f) = {}
    OBVIOUS
  <2>1. weights \in [Engines -> Int]
    BY DEF WorkerInv, WorkerTypes
  <2>2. PICK e \in Engines : UpdateWeights(e)
    <3>1. ASSUME NEW e \in Engines, ReleaseGpuMemory(e) PROVE FALSE
      BY <2>1, <3>1 DEF ReleaseGpuMemory
    <3>2. weights' # weights
      OBVIOUS
    <3> QED BY <3>1, <3>2 DEF WorkerNext, WorkerStep, GenerateStep, ControlStep, Generate,
                  StartGenerate, Decode, Finish, Abort, CallEngines, PauseGenerationAgain,
                  PauseGeneration, Paused, ResumeGeneration, ResumeWeights, ResumeKvCache
  <2>3. f = e /\ ~ready[e] /\ Control(e, "update")
    BY <2>1, <2>2 DEF UpdateWeights
  <2>4. ~Pausing(e)
    BY <2>3, ControlInbox
  <2> QED BY <2>3, <2>4 DEF WorkerInv, QuietWhenPaused
<1>4. QED
  BY <1>1, <1>2, <1>3, PTL DEF WorkerSpec, UpdatesAreQuiet

---------------------------------------------------------------------------
(* What a step of the controller needs and what it changes.  A state is the *)
(* set of facts that hold once the calls to the engines have returned.      *)

\* "ready" and the memory tags are of every engine; "fresh": the engines hold the weights
\* of the last update; "current", "initial": so does the actor, or those it started with;
\* "copy": so does the copy on the CPU; "shared": one resource group; "raises": the
\* engines refuse an update.
Facts == Tags \cup {"ready", "fresh", "enqueued", "actor", "value", "current", "initial",
                    "copy", "shared", "raises"}
State == SUBSET Facts

\* The GPU is shared as planned, and rollouts meet engines that can serve them.
Fine(b) ==
    /\ ~("actor" \in b /\ "value" \in b)
    /\ "shared" \in b /\ "actor" \in b => "kv_cache" \notin b
    /\ "shared" \in b /\ "value" \in b => b \cap Tags = {}
    /\ "enqueued" \in b /\ "ready" \in b => Tags \cup {"fresh"} \subseteq b

\* No engine can be working on a request.
Quiet(b) == "ready" \notin b \/ "enqueued" \notin b

\* Steps that compute with a Megatron worker, or send its weights.
Critical == {"train_actor", "update", "compute_old", "eval", "compute_ref", "train_value",
             "compute_values"}

Needs(b, s) ==
    /\ s \in {"release", "update", "train_actor"} => Quiet(b)
    /\ s \in {"update", "train_actor", "compute_old", "eval"} => "actor" \in b /\ "current" \in b
    /\ s = "compute_ref" => "actor" \in b /\ "initial" \in b
    /\ s \in {"train_value", "compute_values"} => "value" \in b
    /\ s \in {"load_checkpoint", "start_engines"} => "enqueued" \notin b
    /\ s = "start_engines" => "current" \in b /\ "initial" \in b

Adds(b, s) ==
    CASE s = "start_engines" -> Tags \cup {"fresh"}
      [] s = "resume_weights" -> {"weights"}
      [] s = "resume_kv_cache" -> {"kv_cache"}
      [] s = "resume" -> {"ready"}
      [] s = "enqueue" -> {"enqueued"}
      [] s \in {"start_actor", "actor_to_gpu"} -> {"actor"}
      [] s \in {"start_value", "value_to_gpu"} -> {"value"}
      [] s = "update" -> IF "ready" \in b THEN {"raises"} ELSE {"fresh"}
      [] s = "copy_weights" -> IF "current" \in b THEN {"copy"} ELSE {}
      [] s = "apply_copy" -> IF "copy" \in b THEN {"current"} ELSE {}
      [] s = "apply_init" -> {"initial"}
      [] s \in {"load_checkpoint", "train_actor"} -> {"current"}
      [] OTHER -> {}

Removes(s) ==
    CASE s = "pause" -> {"ready"}
      [] s = "release" -> Tags \cup {"fresh"}
      [] s = "actor_to_cpu" -> {"actor"}
      [] s = "value_to_cpu" -> {"value"}
      [] s = "copy_weights" -> {"copy"}
      [] s \in {"load_teacher", "apply_copy"} -> {"current", "initial"}
      [] s = "apply_init" -> {"current"}
      [] s \in {"load_checkpoint", "train_actor"} -> {"fresh", "copy", "initial"}
      [] OTHER -> {}

After(b, s) == (b \ Removes(s)) \cup Adds(b, s)

\* A step from b to c.  Nothing is asked of the shutdown, nor of what follows a refused
\* update, for the run ends there, except that no Megatron worker is used next.
Steps1(b, s, c) ==
    \/ s = "shutdown"
    \/ "raises" \in b /\ s \notin Critical
    \/ Needs(b, s) /\ c = After(b, s) /\ Fine(c)

\* Steps that lead from b to c.
Runs(b, plan, c) ==
    \E f \in [0..Len(plan) -> State] :
        /\ f[0] = b /\ f[Len(plan)] = c
        /\ \A i \in 1..Len(plan) : Steps1(f[i - 1], plan[i], f[i])

\* From every state of P the plan leads to a state of Q.
Leads(P, plan, Q) ==
    /\ P \subseteq State /\ Q \subseteq State /\ plan \in Seq(Steps)
    /\ \A b \in P : \E c \in Q : Runs(b, plan, c)

\* A step is a plan.
LEMMA OneStep ==
    ASSUME NEW P \in SUBSET State, NEW Q \in SUBSET State, NEW s \in Steps,
           \A b \in P : \E c \in Q : Steps1(b, s, c)
    PROVE  Leads(P, <<s>>, Q)
<1> SUFFICES ASSUME NEW b \in P PROVE \E c \in Q : Runs(b, <<s>>, c)
  BY DEF Leads
<1>1. PICK c \in Q : Steps1(b, s, c)
  OBVIOUS
<1> DEFINE f == [i \in 0..1 |-> IF i = 0 THEN b ELSE c]
<1>2. /\ f \in [0..1 -> State] /\ f[0] = b /\ f[1] = c
      /\ Len(<<s>>) = 1 /\ <<s>>[1] = s
  OBVIOUS
<1> HIDE DEF f
<1>3. \A i \in 1..1 : i = 1
  OBVIOUS
<1>4. Runs(b, <<s>>, c)
  BY <1>1, <1>2, <1>3 DEF Runs
<1> QED BY <1>4

\* The empty plan leads nowhere else.
LEMMA NoStep ==
    ASSUME NEW P \in SUBSET State
    PROVE  Leads(P, <<>>, P)
<1> SUFFICES ASSUME NEW b \in P PROVE Runs(b, <<>>, b)
  BY DEF Leads
<1> DEFINE f == [i \in 0..0 |-> b]
<1>1. f \in [0..0 -> State] /\ f[0] = b /\ Len(<<>>) = 0 /\ 1..0 = {}
  OBVIOUS
<1> HIDE DEF f
<1> QED BY <1>1 DEF Runs

\* Plans are put together in any grouping.
LEMMA ThreePlans ==
    ASSUME NEW p \in Seq(Steps), NEW q \in Seq(Steps), NEW r \in Seq(Steps)
    PROVE  (p \o q) \o r = p \o (q \o r)
OBVIOUS

\* Plans follow one another.
LEMMA Then ==
    ASSUME NEW P, NEW Q, NEW R, NEW p, NEW q, Leads(P, p, Q), Leads(Q, q, R)
    PROVE  Leads(P, p \o q, R)
<1>1. p \in Seq(Steps) /\ q \in Seq(Steps) /\ p \o q \in Seq(Steps)
  BY DEF Leads
<1> SUFFICES ASSUME NEW b \in P PROVE \E c \in R : Runs(b, p \o q, c)
  BY <1>1 DEF Leads
<1>2. PICK c \in Q : Runs(b, p, c)
  BY DEF Leads
<1>3. PICK d \in R : Runs(c, q, d)
  BY DEF Leads
<1>4. PICK m \in Nat, n \in Nat : m = Len(p) /\ n = Len(q) /\ Len(p \o q) = m + n
  BY <1>1
<1>5. PICK f \in [0..m -> State] :
        f[0] = b /\ f[m] = c /\ \A i \in 1..m : Steps1(f[i - 1], p[i], f[i])
  BY <1>2, <1>4 DEF Runs
<1>6. PICK g \in [0..n -> State] :
        g[0] = c /\ g[n] = d /\ \A i \in 1..n : Steps1(g[i - 1], q[i], g[i])
  BY <1>3, <1>4 DEF Runs
<1> DEFINE h == [i \in 0..(m + n) |-> IF i <= m THEN f[i] ELSE g[i - m]]
<1>7. /\ h \in [0..(m + n) -> State]
      /\ \A i \in 0..m : h[i] = f[i]
      /\ \A i \in m..(m + n) : h[i] = g[i - m]
  <2>1. ASSUME NEW i \in 0..(m + n)
        PROVE  (IF i <= m THEN f[i] ELSE g[i - m]) \in State
    <3>1. CASE i <= m
      BY <3>1
    <3>2. CASE i > m
      BY <3>2
    <3> QED BY <3>1, <3>2
  <2>2. ASSUME NEW i \in m..(m + n) PROVE h[i] = g[i - m]
    <3>1. CASE i = m
      BY <1>5, <1>6, <3>1
    <3>2. CASE i > m
      BY <3>2
    <3> QED BY <3>1, <3>2
  <2>3. \A i \in 0..m : h[i] = f[i]
    OBVIOUS
  <2>4. h \in [0..(m + n) -> State]
    BY <2>1
  <2> HIDE DEF h
  <2> QED BY <2>2, <2>3, <2>4
<1> HIDE DEF h
<1>8. h[0] = b /\ h[m + n] = d
  BY <1>5, <1>6, <1>7
<1>9. ASSUME NEW i \in 1..(m + n) PROVE Steps1(h[i - 1], (p \o q)[i], h[i])
  <2>1. CASE i <= m
    <3>1. (p \o q)[i] = p[i] /\ i \in 1..m /\ i - 1 \in 0..m /\ i \in 0..m
      BY <1>1, <1>4, <2>1
    <3> QED BY <1>5, <1>7, <3>1
  <2>2. CASE i > m
    <3>1. /\ (p \o q)[i] = q[i - m] /\ i - m \in 1..n
          /\ i - 1 \in m..(m + n) /\ i \in m..(m + n) /\ (i - 1) - m = (i - m) - 1
      BY <1>1, <1>4, <2>2
    <3>2. Steps1(g[(i - m) - 1], q[i - m], g[i - m])
      BY <1>6, <3>1
    <3> QED BY <1>7, <3>1, <3>2
  <2> QED BY <2>1, <2>2
<1> QED BY <1>4, <1>7, <1>8, <1>9 DEF Runs

\* A stronger start and a weaker end.
LEMMA Weaken ==
    ASSUME NEW P, NEW Q, NEW p, Leads(P, p, Q), NEW P2 \in SUBSET P, NEW Q2 \in SUBSET State,
           Q \subseteq Q2
    PROVE  Leads(P2, p, Q2)
BY DEF Leads

\* The first step of what is left.
LEMMA FirstStep ==
    ASSUME NEW b, NEW c, NEW plan \in Seq(Steps), plan # <<>>, Runs(b, plan, c)
    PROVE  \E d \in State : Steps1(b, Head(plan), d) /\ Runs(d, Tail(plan), c)
<1>1. PICK n \in Nat : n = Len(Tail(plan)) /\ Len(plan) = n + 1
  OBVIOUS
<1>2. Head(plan) = plan[1] /\ \A i \in 1..n : Tail(plan)[i] = plan[i + 1]
  BY <1>1
<1>3. PICK f \in [0..(n + 1) -> State] :
        f[0] = b /\ f[n + 1] = c /\ \A i \in 1..(n + 1) : Steps1(f[i - 1], plan[i], f[i])
  BY <1>1 DEF Runs
<1> DEFINE g == [i \in 0..n |-> f[i + 1]]
<1>4. g \in [0..n -> State] /\ \A i \in 0..n : g[i] = f[i + 1]
  OBVIOUS
<1> HIDE DEF g
<1>5. ASSUME NEW i \in 1..n PROVE Steps1(g[i - 1], Tail(plan)[i], g[i])
  <2>1. i + 1 \in 1..(n + 1) /\ (i + 1) - 1 = i /\ (i - 1) + 1 = i /\ i - 1 \in 0..n /\ i \in 0..n
    OBVIOUS
  <2>2. Steps1(f[(i + 1) - 1], plan[i + 1], f[i + 1])
    BY <1>3, <2>1
  <2> QED BY <1>2, <1>4, <2>1, <2>2
<1>6. Runs(g[0], Tail(plan), c)
  <2>1. g[n] = c /\ g \in [0..Len(Tail(plan)) -> State]
    BY <1>1, <1>3, <1>4
  <2>2. g[Len(Tail(plan))] = c /\ \A i \in 1..Len(Tail(plan)) : Steps1(g[i - 1], Tail(plan)[i], g[i])
    BY <1>1, <1>5, <2>1
  <2> QED BY <2>1, <2>2 DEF Runs
<1>7. Steps1(b, Head(plan), g[0])
  <2>1. 1 \in 1..(n + 1) /\ 1 - 1 = 0 /\ 0 \in 0..n
    OBVIOUS
  <2>2. Steps1(f[1 - 1], plan[1], f[1])
    BY <1>3, <2>1
  <2> QED BY <1>2, <1>3, <1>4, <2>1, <2>2
<1> QED BY <1>4, <1>6, <1>7

\* When nothing is left, the end is reached.
LEMMA NothingLeft ==
    ASSUME NEW b, NEW c, Runs(b, <<>>, c)
    PROVE  b = c
<1>1. Len(<<>>) = 0
  OBVIOUS
<1> QED BY <1>1 DEF Runs

\* The states of which it is known that all of Y holds, and none of N.
Know(Y, N) == {b \in State : Fine(b) /\ Y \subseteq b /\ N \cap b = {}}

\* Each step, as what it does to the facts.
LEMMA AfterIs ==
    ASSUME NEW b
    PROVE  /\ After(b, "pause") = b \ {"ready"}
           /\ After(b, "release") = b \ {"weights", "kv_cache", "fresh"}
           /\ After(b, "resume_weights") = b \cup {"weights"}
           /\ After(b, "resume_kv_cache") = b \cup {"kv_cache"}
           /\ After(b, "resume") = b \cup {"ready"}
           /\ After(b, "update") = b \cup (IF "ready" \in b THEN {"raises"} ELSE {"fresh"})
           /\ After(b, "enqueue") = b \cup {"enqueued"}
           /\ After(b, "start_engines") = b \cup {"weights", "kv_cache", "fresh"}
           /\ After(b, "start_actor") = b \cup {"actor"}
           /\ After(b, "actor_to_gpu") = b \cup {"actor"}
           /\ After(b, "actor_to_cpu") = b \ {"actor"}
           /\ After(b, "start_value") = b \cup {"value"}
           /\ After(b, "value_to_gpu") = b \cup {"value"}
           /\ After(b, "value_to_cpu") = b \ {"value"}
  BY DEF After, Adds, Removes, Tags

\* The steps that change the weights of the actor, and those that change nothing here.
LEMMA AfterTraining ==
    ASSUME NEW b
    PROVE  /\ \A s \in {"load_checkpoint", "train_actor"} :
                 After(b, s) = (b \ {"fresh", "copy", "initial"}) \cup {"current"}
           /\ After(b, "copy_weights") =
                 (b \ {"copy"}) \cup (IF "current" \in b THEN {"copy"} ELSE {})
           /\ After(b, "load_teacher") = b \ {"current", "initial"}
           /\ After(b, "apply_copy") =
                 (b \ {"current", "initial"}) \cup (IF "copy" \in b THEN {"current"} ELSE {})
           /\ After(b, "apply_init") = (b \ {"current"}) \cup {"initial"}
           /\ \A s \in {"compute_values", "train_value", "compute_ref", "compute_old", "eval"} :
                 After(b, s) = b
  BY DEF After, Adds, Removes

\* A step that is allowed wherever Y and N are known, and makes Y2 and N2 known.
LEMMA Advance ==
    ASSUME NEW Y, NEW N, NEW Y2, NEW N2, NEW s \in Steps,
           \A b \in Know(Y, N) : /\ Needs(b, s) /\ Fine(After(b, s))
                                 /\ After(b, s) \subseteq Facts
                                 /\ Y2 \subseteq After(b, s) /\ N2 \cap After(b, s) = {}
    PROVE  Leads(Know(Y, N), <<s>>, Know(Y2, N2))
<1>1. Know(Y, N) \in SUBSET State /\ Know(Y2, N2) \in SUBSET State
  BY DEF Know
<1>2. ASSUME NEW b \in Know(Y, N) PROVE \E c \in Know(Y2, N2) : Steps1(b, s, c)
  <2>1. After(b, s) \in Know(Y2, N2)
    BY DEF Know, State
  <2> QED BY <2>1 DEF Steps1, Know
<1> QED BY <1>1, <1>2, OneStep

\* pause
LEMMA PauseLeads ==
    ASSUME NEW Y, NEW N, NEW Y2 \in SUBSET (Y \ {"ready"}), NEW N2 \in SUBSET (N \cup {"ready"})
    PROVE  Leads(Know(Y, N), <<"pause">>, Know(Y2, N2))
<1>1. "pause" \in Steps
  BY DEF Steps, EngineOps
<1>2. ASSUME NEW b \in Know(Y, N)
      PROVE  /\ Needs(b, "pause") /\ Fine(After(b, "pause")) /\ After(b, "pause") \subseteq Facts
             /\ Y2 \subseteq After(b, "pause") /\ N2 \cap After(b, "pause") = {}
  <2>1. After(b, "pause") = b \ {"ready"}
    BY AfterIs
  <2>2. Needs(b, "pause")
    BY DEF Needs, Know, Quiet
  <2> QED BY <2>1, <2>2 DEF Know, State, Fine, Facts, Tags
<1> QED BY <1>1, <1>2, Advance

\* release: no engine may be working.
LEMMA ReleaseLeads ==
    ASSUME NEW Y, NEW N, "ready" \in N \/ "enqueued" \in N,
           NEW Y2 \in SUBSET (Y \ {"weights", "kv_cache", "fresh"}),
           NEW N2 \in SUBSET (N \cup {"weights", "kv_cache", "fresh"})
    PROVE  Leads(Know(Y, N), <<"release">>, Know(Y2, N2))
<1>1. "release" \in Steps
  BY DEF Steps, EngineOps
<1>2. ASSUME NEW b \in Know(Y, N)
      PROVE  /\ Needs(b, "release") /\ Fine(After(b, "release")) /\ After(b, "release") \subseteq Facts
             /\ Y2 \subseteq After(b, "release") /\ N2 \cap After(b, "release") = {}
  <2>1. After(b, "release") = b \ {"weights", "kv_cache", "fresh"}
    BY AfterIs
  <2>2. Needs(b, "release")
    BY DEF Needs, Know, Quiet
  <2> QED BY <2>1, <2>2 DEF Know, State, Fine, Facts, Tags
<1> QED BY <1>1, <1>2, Advance

\* resume_weights: no value model where the GPUs are shared.
LEMMA ResumeWeightsLeads ==
    ASSUME NEW Y, NEW N, "value" \in N,
           NEW Y2 \in SUBSET (Y \cup {"weights"}), NEW N2 \in SUBSET (N \ {"weights"})
    PROVE  Leads(Know(Y, N), <<"resume_weights">>, Know(Y2, N2))
<1>1. "resume_weights" \in Steps
  BY DEF Steps, EngineOps
<1>2. ASSUME NEW b \in Know(Y, N)
      PROVE  /\ Needs(b, "resume_weights") /\ Fine(After(b, "resume_weights"))
             /\ After(b, "resume_weights") \subseteq Facts
             /\ Y2 \subseteq After(b, "resume_weights") /\ N2 \cap After(b, "resume_weights") = {}
  <2>1. After(b, "resume_weights") = b \cup {"weights"}
    BY AfterIs
  <2>2. Needs(b, "resume_weights")
    BY DEF Needs, Know, Quiet
  <2> QED BY <2>1, <2>2 DEF Know, State, Fine, Facts, Tags
<1> QED BY <1>1, <1>2, Advance

\* resume_kv_cache: no Megatron worker where the GPUs are shared.
LEMMA ResumeKvCacheLeads ==
    ASSUME NEW Y, NEW N, {"value", "actor"} \subseteq N,
           NEW Y2 \in SUBSET (Y \cup {"kv_cache"}), NEW N2 \in SUBSET (N \ {"kv_cache"})
    PROVE  Leads(Know(Y, N), <<"resume_kv_cache">>, Know(Y2, N2))
<1>1. "resume_kv_cache" \in Steps
  BY DEF Steps, EngineOps
<1>2. ASSUME NEW b \in Know(Y, N)
      PROVE  /\ Needs(b, "resume_kv_cache") /\ Fine(After(b, "resume_kv_cache"))
             /\ After(b, "resume_kv_cache") \subseteq Facts
             /\ Y2 \subseteq After(b, "resume_kv_cache") /\ N2 \cap After(b, "resume_kv_cache") = {}
  <2>1. After(b, "resume_kv_cache") = b \cup {"kv_cache"}
    BY AfterIs
  <2>2. Needs(b, "resume_kv_cache")
    BY DEF Needs, Know, Quiet
  <2> QED BY <2>1, <2>2 DEF Know, State, Fine, Facts, Tags
<1> QED BY <1>1, <1>2, Advance

\* resume and enqueue: rollouts will meet engines that serve the current weights.
LEMMA ServeLeads ==
    ASSUME NEW Y, NEW N, Tags \cup {"fresh"} \subseteq Y,
           NEW s \in {"resume", "enqueue"}, NEW x, x = IF s = "resume" THEN "ready" ELSE "enqueued",
           NEW Y2 \in SUBSET (Y \cup {x}), NEW N2 \in SUBSET (N \ {x})
    PROVE  Leads(Know(Y, N), <<s>>, Know(Y2, N2))
<1>1. s \in Steps
  BY DEF Steps, EngineOps
<1>2. ASSUME NEW b \in Know(Y, N)
      PROVE  /\ Needs(b, s) /\ Fine(After(b, s)) /\ After(b, s) \subseteq Facts
             /\ Y2 \subseteq After(b, s) /\ N2 \cap After(b, s) = {}
  <2>1. After(b, s) = b \cup {x} /\ x \in {"ready", "enqueued"}
    BY AfterIs
  <2> QED BY <2>1 DEF Know, State, Fine, Needs, Facts, Tags
<1> QED BY <1>1, <1>2, Advance

\* update of paused engines.
LEMMA UpdateLeads ==
    ASSUME NEW Y, NEW N, {"actor", "current"} \subseteq Y, "ready" \in N,
           NEW Y2 \in SUBSET (Y \cup {"fresh"}), NEW N2 \in SUBSET (N \ {"fresh"})
    PROVE  Leads(Know(Y, N), <<"update">>, Know(Y2, N2))
<1>1. "update" \in Steps
  BY DEF Steps
<1>2. ASSUME NEW b \in Know(Y, N)
      PROVE  /\ Needs(b, "update") /\ Fine(After(b, "update")) /\ After(b, "update") \subseteq Facts
             /\ Y2 \subseteq After(b, "update") /\ N2 \cap After(b, "update") = {}
  <2>1. After(b, "update") = b \cup {"fresh"}
    BY AfterIs DEF Know
  <2>2. Needs(b, "update")
    BY DEF Needs, Know, Quiet
  <2> QED BY <2>1, <2>2 DEF Know, State, Fine, Facts, Tags
<1> QED BY <1>1, <1>2, Advance

\* update of engines that were not paused: they refuse it.
LEMMA RefusedLeads ==
    ASSUME NEW Y, NEW N, {"actor", "current", "ready"} \subseteq Y, "enqueued" \in N
    PROVE  Leads(Know(Y, N), <<"update">>, Know({"raises"}, {}))
<1>1. "update" \in Steps
  BY DEF Steps
<1>2. ASSUME NEW b \in Know(Y, N)
      PROVE  /\ Needs(b, "update") /\ Fine(After(b, "update")) /\ After(b, "update") \subseteq Facts
             /\ {"raises"} \subseteq After(b, "update") /\ {} \cap After(b, "update") = {}
  <2>1. After(b, "update") = b \cup {"raises"}
    BY AfterIs DEF Know
  <2>2. Needs(b, "update")
    BY DEF Needs, Know, Quiet
  <2> QED BY <2>1, <2>2 DEF Know, State, Fine, Facts, Tags
<1> QED BY <1>1, <1>2, Advance

\* The actor on the GPU: neither the value model nor, where they share it, a KV cache is.
LEMMA ActorOnLeads ==
    ASSUME NEW Y, NEW N, NEW s \in {"start_actor", "actor_to_gpu"},
           {"value", "kv_cache"} \subseteq N \/ {"value", "shared"} \subseteq N,
           NEW Y2 \in SUBSET (Y \cup {"actor"}), NEW N2 \in SUBSET (N \ {"actor"})
    PROVE  Leads(Know(Y, N), <<s>>, Know(Y2, N2))
<1>1. s \in Steps
  BY DEF Steps, EngineOps
<1>2. ASSUME NEW b \in Know(Y, N)
      PROVE  /\ Needs(b, s) /\ Fine(After(b, s)) /\ After(b, s) \subseteq Facts
             /\ Y2 \subseteq After(b, s) /\ N2 \cap After(b, s) = {}
  <2>1. After(b, s) = b \cup {"actor"}
    BY AfterIs DEF Know
  <2>2. Needs(b, s)
    BY DEF Needs, Know, Quiet
  <2> QED BY <2>1, <2>2 DEF Know, State, Fine, Facts, Tags
<1> QED BY <1>1, <1>2, Advance

\* The actor off the GPU.
LEMMA ActorOffLeads ==
    ASSUME NEW Y, NEW N, NEW Y2 \in SUBSET (Y \ {"actor"}), NEW N2 \in SUBSET (N \cup {"actor"})
    PROVE  Leads(Know(Y, N), <<"actor_to_cpu">>, Know(Y2, N2))
<1>1. "actor_to_cpu" \in Steps
  BY DEF Steps, EngineOps
<1>2. ASSUME NEW b \in Know(Y, N)
      PROVE  /\ Needs(b, "actor_to_cpu") /\ Fine(After(b, "actor_to_cpu")) /\ After(b, "actor_to_cpu") \subseteq Facts
             /\ Y2 \subseteq After(b, "actor_to_cpu") /\ N2 \cap After(b, "actor_to_cpu") = {}
  <2>1. After(b, "actor_to_cpu") = b \ {"actor"}
    BY AfterIs DEF Know
  <2>2. Needs(b, "actor_to_cpu")
    BY DEF Needs, Know, Quiet
  <2> QED BY <2>1, <2>2 DEF Know, State, Fine, Facts, Tags
<1> QED BY <1>1, <1>2, Advance

\* The value model on the GPU: neither the actor nor an engine is.
LEMMA ValueOnLeads ==
    ASSUME NEW Y, NEW N, NEW s \in {"start_value", "value_to_gpu"},
           {"actor"} \cup Tags \subseteq N,
           NEW Y2 \in SUBSET (Y \cup {"value"}), NEW N2 \in SUBSET (N \ {"value"})
    PROVE  Leads(Know(Y, N), <<s>>, Know(Y2, N2))
<1>1. s \in Steps
  BY DEF Steps, EngineOps
<1>2. ASSUME NEW b \in Know(Y, N)
      PROVE  /\ Needs(b, s) /\ Fine(After(b, s)) /\ After(b, s) \subseteq Facts
             /\ Y2 \subseteq After(b, s) /\ N2 \cap After(b, s) = {}
  <2>1. After(b, s) = b \cup {"value"}
    BY AfterIs DEF Know
  <2>2. Needs(b, s)
    BY DEF Needs, Know, Quiet
  <2> QED BY <2>1, <2>2 DEF Know, State, Fine, Facts, Tags
<1> QED BY <1>1, <1>2, Advance

\* The value model off the GPU.
LEMMA ValueOffLeads ==
    ASSUME NEW Y, NEW N, NEW Y2 \in SUBSET (Y \ {"value"}), NEW N2 \in SUBSET (N \cup {"value"})
    PROVE  Leads(Know(Y, N), <<"value_to_cpu">>, Know(Y2, N2))
<1>1. "value_to_cpu" \in Steps
  BY DEF Steps, EngineOps
<1>2. ASSUME NEW b \in Know(Y, N)
      PROVE  /\ Needs(b, "value_to_cpu") /\ Fine(After(b, "value_to_cpu")) /\ After(b, "value_to_cpu") \subseteq Facts
             /\ Y2 \subseteq After(b, "value_to_cpu") /\ N2 \cap After(b, "value_to_cpu") = {}
  <2>1. After(b, "value_to_cpu") = b \ {"value"}
    BY AfterIs DEF Know
  <2>2. Needs(b, "value_to_cpu")
    BY DEF Needs, Know, Quiet
  <2> QED BY <2>1, <2>2 DEF Know, State, Fine, Facts, Tags
<1> QED BY <1>1, <1>2, Advance

\* The engines start, before any rollout and any Megatron worker.
LEMMA StartEnginesLeads ==
    ASSUME NEW Y, NEW N, {"current", "initial"} \subseteq Y, {"actor", "value", "enqueued"} \subseteq N,
           NEW Y2 \in SUBSET (Y \cup {"weights", "kv_cache", "fresh"}), NEW N2 \in SUBSET (N \ {"weights", "kv_cache", "fresh"})
    PROVE  Leads(Know(Y, N), <<"start_engines">>, Know(Y2, N2))
<1>1. "start_engines" \in Steps
  BY DEF Steps, EngineOps
<1>2. ASSUME NEW b \in Know(Y, N)
      PROVE  /\ Needs(b, "start_engines") /\ Fine(After(b, "start_engines")) /\ After(b, "start_engines") \subseteq Facts
             /\ Y2 \subseteq After(b, "start_engines") /\ N2 \cap After(b, "start_engines") = {}
  <2>1. After(b, "start_engines") = b \cup {"weights", "kv_cache", "fresh"}
    BY AfterIs DEF Know
  <2>2. Needs(b, "start_engines")
    BY DEF Needs, Know, Quiet
  <2> QED BY <2>1, <2>2 DEF Know, State, Fine, Facts, Tags
<1> QED BY <1>1, <1>2, Advance

\* Weights of a new step: no engine may be working, and the actor is ready to train.
LEMMA TrainLeads ==
    ASSUME NEW Y, NEW N, NEW s \in {"load_checkpoint", "train_actor"},
           "enqueued" \in N \/ (s = "train_actor" /\ "ready" \in N),
           s = "train_actor" => {"actor", "current"} \subseteq Y,
           NEW Y2 \in SUBSET ((Y \ {"fresh", "copy", "initial"}) \cup {"current"}), NEW N2 \in SUBSET (N \ {"current"})
    PROVE  Leads(Know(Y, N), <<s>>, Know(Y2, N2))
<1>1. s \in Steps
  BY DEF Steps, EngineOps
<1>2. ASSUME NEW b \in Know(Y, N)
      PROVE  /\ Needs(b, s) /\ Fine(After(b, s)) /\ After(b, s) \subseteq Facts
             /\ Y2 \subseteq After(b, s) /\ N2 \cap After(b, s) = {}
  <2>1. After(b, s) = (b \ {"fresh", "copy", "initial"}) \cup {"current"}
    BY AfterTraining
  <2>2. Needs(b, s)
    BY DEF Needs, Know, Quiet
  <2> QED BY <2>1, <2>2 DEF Know, State, Fine, Facts, Tags
<1> QED BY <1>1, <1>2, Advance

\* The current weights are copied.
LEMMA CopyLeads ==
    ASSUME NEW Y, NEW N, "current" \in Y,
           NEW Y2 \in SUBSET (Y \cup {"copy"}), NEW N2 \in SUBSET (N \ {"copy"})
    PROVE  Leads(Know(Y, N), <<"copy_weights">>, Know(Y2, N2))
<1>1. "copy_weights" \in Steps
  BY DEF Steps, EngineOps
<1>2. ASSUME NEW b \in Know(Y, N)
      PROVE  /\ Needs(b, "copy_weights") /\ Fine(After(b, "copy_weights")) /\ After(b, "copy_weights") \subseteq Facts
             /\ Y2 \subseteq After(b, "copy_weights") /\ N2 \cap After(b, "copy_weights") = {}
  <2>1. After(b, "copy_weights") = b \cup {"copy"}
    BY AfterTraining DEF Know
  <2>2. Needs(b, "copy_weights")
    BY DEF Needs, Know, Quiet
  <2> QED BY <2>1, <2>2 DEF Know, State, Fine, Facts, Tags
<1> QED BY <1>1, <1>2, Advance

\* The teacher takes the place of the actor's weights.
LEMMA LoadTeacherLeads ==
    ASSUME NEW Y, NEW N, NEW Y2 \in SUBSET (Y \ {"current", "initial"}), NEW N2 \in SUBSET N
    PROVE  Leads(Know(Y, N), <<"load_teacher">>, Know(Y2, N2))
<1>1. "load_teacher" \in Steps
  BY DEF Steps, EngineOps
<1>2. ASSUME NEW b \in Know(Y, N)
      PROVE  /\ Needs(b, "load_teacher") /\ Fine(After(b, "load_teacher")) /\ After(b, "load_teacher") \subseteq Facts
             /\ Y2 \subseteq After(b, "load_teacher") /\ N2 \cap After(b, "load_teacher") = {}
  <2>1. After(b, "load_teacher") = b \ {"current", "initial"}
    BY AfterTraining DEF Know
  <2>2. Needs(b, "load_teacher")
    BY DEF Needs, Know, Quiet
  <2> QED BY <2>1, <2>2 DEF Know, State, Fine, Facts, Tags
<1> QED BY <1>1, <1>2, Advance

\* The copy comes back.
LEMMA ApplyCopyLeads ==
    ASSUME NEW Y, NEW N, "copy" \in Y,
           NEW Y2 \in SUBSET ((Y \ {"initial"}) \cup {"current"}), NEW N2 \in SUBSET (N \ {"current"})
    PROVE  Leads(Know(Y, N), <<"apply_copy">>, Know(Y2, N2))
<1>1. "apply_copy" \in Steps
  BY DEF Steps, EngineOps
<1>2. ASSUME NEW b \in Know(Y, N)
      PROVE  /\ Needs(b, "apply_copy") /\ Fine(After(b, "apply_copy")) /\ After(b, "apply_copy") \subseteq Facts
             /\ Y2 \subseteq After(b, "apply_copy") /\ N2 \cap After(b, "apply_copy") = {}
  <2>1. After(b, "apply_copy") = (b \ {"initial"}) \cup {"current"}
    BY AfterTraining DEF Know
  <2>2. Needs(b, "apply_copy")
    BY DEF Needs, Know, Quiet
  <2> QED BY <2>1, <2>2 DEF Know, State, Fine, Facts, Tags
<1> QED BY <1>1, <1>2, Advance

\* The initial weights take the place of the actor's.
LEMMA ApplyInitLeads ==
    ASSUME NEW Y, NEW N, NEW Y2 \in SUBSET ((Y \ {"current"}) \cup {"initial"}), NEW N2 \in SUBSET (N \ {"initial"})
    PROVE  Leads(Know(Y, N), <<"apply_init">>, Know(Y2, N2))
<1>1. "apply_init" \in Steps
  BY DEF Steps, EngineOps
<1>2. ASSUME NEW b \in Know(Y, N)
      PROVE  /\ Needs(b, "apply_init") /\ Fine(After(b, "apply_init")) /\ After(b, "apply_init") \subseteq Facts
             /\ Y2 \subseteq After(b, "apply_init") /\ N2 \cap After(b, "apply_init") = {}
  <2>1. After(b, "apply_init") = (b \ {"current"}) \cup {"initial"}
    BY AfterTraining DEF Know
  <2>2. Needs(b, "apply_init")
    BY DEF Needs, Know, Quiet
  <2> QED BY <2>1, <2>2 DEF Know, State, Fine, Facts, Tags
<1> QED BY <1>1, <1>2, Advance

\* A Megatron worker computes.
LEMMA ComputeLeads ==
    ASSUME NEW Y, NEW N, NEW s \in {"compute_values", "train_value", "compute_ref", "compute_old", "eval"},
           s \in {"compute_values", "train_value"} => "value" \in Y,
           s \in {"compute_old", "eval"} => {"actor", "current"} \subseteq Y,
           s = "compute_ref" => {"actor", "initial"} \subseteq Y,
           NEW Y2 \in SUBSET Y, NEW N2 \in SUBSET N
    PROVE  Leads(Know(Y, N), <<s>>, Know(Y2, N2))
<1>1. s \in Steps
  BY DEF Steps, EngineOps
<1>2. ASSUME NEW b \in Know(Y, N)
      PROVE  /\ Needs(b, s) /\ Fine(After(b, s)) /\ After(b, s) \subseteq Facts
             /\ Y2 \subseteq After(b, s) /\ N2 \cap After(b, s) = {}
  <2>1. After(b, s) = b
    BY AfterTraining DEF Know
  <2>2. Needs(b, s)
    BY DEF Needs, Know, Quiet
  <2> QED BY <2>1, <2>2 DEF Know, State, Fine, Facts, Tags
<1> QED BY <1>1, <1>2, Advance

\* The shutdown may follow in any state, and leads anywhere.
LEMMA ShutdownLeads ==
    ASSUME NEW P \in SUBSET State, NEW Q \in SUBSET State, Q # {}
    PROVE  Leads(P, <<"shutdown">>, Q)
<1>1. "shutdown" \in Steps
  BY DEF Steps
<1> QED BY <1>1, OneStep DEF Steps1

\* So does a step that a refused update keeps from happening.
LEMMA NeverLeads ==
    ASSUME NEW Q \in SUBSET State, Q # {}, NEW s \in Steps \ Critical
    PROVE  Leads(Know({"raises"}, {}), <<s>>, Q)
<1>1. Know({"raises"}, {}) \in SUBSET State /\ \A b \in Know({"raises"}, {}) : "raises" \in b
  BY DEF Know
<1> QED BY <1>1, OneStep DEF Steps1

\* Other knowledge at the start and at the end of a plan.
LEMMA Knowing ==
    ASSUME NEW Y, NEW N, NEW Y2, NEW N2, NEW p, Leads(Know(Y, N), p, Know(Y2, N2)),
           NEW Y1, NEW N1, Y \subseteq Y1, N \subseteq N1,
           NEW Y3 \in SUBSET Y2, NEW N3 \in SUBSET N2
    PROVE  Leads(Know(Y1, N1), p, Know(Y3, N3))
<1>1. Know(Y1, N1) \in SUBSET Know(Y, N) /\ Know(Y2, N2) \subseteq Know(Y3, N3)
  BY DEF Know
<1>2. Know(Y3, N3) \in SUBSET State
  BY DEF Know
<1> QED BY <1>1, <1>2, Weaken

---------------------------------------------------------------------------
(* What the switches of the stage managers and the run modes lead to.  The  *)
(* facts of Y and N that a plan does not name stay as they are.             *)

Frame == {"shared", "enqueued"}

\* value_to_cpu where there is a value worker, and no step where there is none.
LEMMA ValueToCpuLeads ==
    ASSUME NEW Y, NEW N, "value" \in N, "value" \notin Y
    PROVE  Leads(Know(Y, N), ValueToCpu, Know(Y, N))
<1>1. CASE Ppo
  <2>1. ValueToCpu = <<"value_to_cpu">>
    BY <1>1 DEF ValueToCpu
  <2> QED BY <2>1, ValueOffLeads
<1>2. CASE ~Ppo
  <2>1. ValueToCpu = <<>> /\ Know(Y, N) \in SUBSET State
    BY <1>2 DEF ValueToCpu, Know
  <2> QED BY <2>1, NoStep
<1> QED BY <1>1, <1>2

\* The engines pause and release their memory: they are quiet from then on.
LEMMA HaltLeads ==
    ASSUME NEW Y, NEW N, Y \cap {"ready", "weights", "kv_cache", "fresh"} = {}
    PROVE  Leads(Know(Y, N), <<"pause", "release">>, Know(Y, N \cup {"ready", "weights", "kv_cache"}))
<1>1. Leads(Know(Y, N), <<"pause">>, Know(Y, N \cup {"ready"}))
  BY PauseLeads
<1>2. Leads(Know(Y, N \cup {"ready"}), <<"release">>, Know(Y, N \cup {"ready", "weights", "kv_cache"}))
  BY ReleaseLeads
<1>3. Leads(Know(Y, N), <<"pause">> \o <<"release">>, Know(Y, N \cup {"ready", "weights", "kv_cache"}))
  BY <1>1, <1>2, Then
<1>4. <<"pause", "release">> = <<"pause">> \o <<"release">>
  OBVIOUS
<1> QED BY <1>3, <1>4

\* switch_to_train of the colocated manager: the actor has the GPUs.
LEMMA SwitchToTrainLeads ==
    ASSUME Colocated, NEW Y \in SUBSET Frame, NEW N \in SUBSET Frame
    PROVE  Leads(Know(Y \cup {"current"}, N \cup {"value", "raises"}), SwitchToTrain,
                 Know(Y \cup {"current", "actor"},
                      N \cup {"value", "raises", "ready", "weights", "kv_cache"}))
<1> DEFINE off == (N \cup {"value", "raises"}) \cup {"ready", "weights", "kv_cache"}
<1>1. Leads(Know(Y \cup {"current"}, N \cup {"value", "raises"}), <<"pause", "release">>,
            Know(Y \cup {"current"}, off))
  BY HaltLeads DEF Frame
<1>2. Leads(Know(Y \cup {"current"}, off), ValueToCpu, Know(Y \cup {"current"}, off))
  BY ValueToCpuLeads DEF Frame
<1>3. Leads(Know(Y \cup {"current"}, off), <<"actor_to_gpu">>, Know(Y \cup {"current", "actor"}, off))
  BY ActorOnLeads DEF Frame
<1>4. SwitchToTrain = (<<"pause", "release">> \o ValueToCpu) \o <<"actor_to_gpu">>
  BY DEF SwitchToTrain
<1>5. off = N \cup {"value", "raises", "ready", "weights", "kv_cache"}
  OBVIOUS
<1> HIDE DEF off
<1> QED BY <1>1, <1>2, <1>3, <1>4, <1>5, Then

\* switch_to_weight_sync of the colocated manager: the actor and empty weights of the engines.
LEMMA SwitchToWeightSyncLeads ==
    ASSUME Colocated, NEW Y \in SUBSET Frame, NEW N \in SUBSET Frame
    PROVE  Leads(Know(Y \cup {"current"}, N \cup {"value", "raises"}), SwitchToWeightSync,
                 Know(Y \cup {"current", "actor", "weights"},
                      N \cup {"value", "raises", "ready", "kv_cache"}))
<1> DEFINE off == (N \cup {"value", "raises"}) \cup {"ready", "weights", "kv_cache"}
           off2 == N \cup {"value", "raises", "ready", "kv_cache"}
<1>1. Leads(Know(Y \cup {"current"}, N \cup {"value", "raises"}), <<"pause", "release">>,
            Know(Y \cup {"current"}, off))
  BY HaltLeads DEF Frame
<1>2. Leads(Know(Y \cup {"current"}, off), <<"resume_weights">>, Know(Y \cup {"current", "weights"}, off2))
  BY ResumeWeightsLeads DEF Frame
<1>3. Leads(Know(Y \cup {"current", "weights"}, off2), ValueToCpu, Know(Y \cup {"current", "weights"}, off2))
  BY ValueToCpuLeads DEF Frame
<1>4. Leads(Know(Y \cup {"current", "weights"}, off2), <<"actor_to_gpu">>,
            Know(Y \cup {"current", "actor", "weights"}, off2))
  BY ActorOnLeads DEF Frame
<1>5. SwitchToWeightSync =
        ((<<"pause", "release">> \o <<"resume_weights">>) \o ValueToCpu) \o <<"actor_to_gpu">>
  <2>1. <<"pause", "release", "resume_weights">> = <<"pause", "release">> \o <<"resume_weights">>
    OBVIOUS
  <2> QED BY <2>1 DEF SwitchToWeightSync
<1> HIDE DEF off, off2
<1>6. Leads(Know(Y \cup {"current"}, N \cup {"value", "raises"}), SwitchToWeightSync,
            Know(Y \cup {"current", "actor", "weights"}, off2))
  BY <1>1, <1>2, <1>3, <1>4, <1>5, Then
<1> QED BY <1>6 DEF off2

\* switch_to_rollout of the colocated manager after an update: the engines serve again.
LEMMA SwitchToRolloutLeads ==
    ASSUME Colocated, NEW Y \in SUBSET Frame, NEW N \in SUBSET Frame
    PROVE  Leads(Know(Y \cup {"current", "fresh"}, N \cup {"value", "raises"}), SwitchToRollout,
                 Know(Y \cup {"current", "fresh", "weights", "kv_cache", "ready"},
                      N \cup {"value", "raises", "actor"}))
<1> DEFINE off == N \cup {"value", "raises", "actor"}
           on == Y \cup {"current", "fresh"}
<1>1. Leads(Know(on, N \cup {"value", "raises"}), <<"actor_to_cpu">>, Know(on, off))
  BY ActorOffLeads DEF Frame
<1>2. Leads(Know(on, off), ValueToCpu, Know(on, off))
  BY ValueToCpuLeads DEF Frame
<1>3. Leads(Know(on, off), <<"resume_weights">>, Know(on \cup {"weights"}, off))
  BY ResumeWeightsLeads DEF Frame
<1>4. Leads(Know(on \cup {"weights"}, off), <<"resume_kv_cache">>,
            Know(on \cup {"weights", "kv_cache"}, off))
  BY ResumeKvCacheLeads DEF Frame
<1>5. Leads(Know(on \cup {"weights", "kv_cache"}, off), <<"resume">>,
            Know(Y \cup {"current", "fresh", "weights", "kv_cache", "ready"}, off))
  BY ServeLeads DEF Frame, Tags
<1>6. SwitchToRollout = (((<<"actor_to_cpu">> \o ValueToCpu) \o <<"resume_weights">>)
                           \o <<"resume_kv_cache">>) \o <<"resume">>
  <2>1. ValueToCpu \in Seq(Steps)
    <3>1. <<>> \in Seq(Steps)
      OBVIOUS
    <3>2. <<"value_to_cpu">> \in Seq(Steps)
      BY DEF Steps
    <3> QED BY <3>1, <3>2 DEF ValueToCpu
  <2> QED BY <2>1 DEF SwitchToRollout, Steps, EngineOps
<1> HIDE DEF off, on
<1>7. Leads(Know(on, N \cup {"value", "raises"}), SwitchToRollout,
            Know(Y \cup {"current", "fresh", "weights", "kv_cache", "ready"}, off))
  BY <1>1, <1>2, <1>3, <1>4, <1>5, <1>6, Then
<1> QED BY <1>7 DEF off, on

\* Rollouts are running and the engines serve them with the current weights.
Rest(Y) == Know(Y \cup {"current", "ready", "weights", "kv_cache", "fresh", "enqueued"},
                {"actor", "value", "raises"})
Resting == Rest({"shared"})

\* There is such a state.
LEMMA RestIsState ==
    ASSUME NEW Y \in SUBSET {"shared"}
    PROVE  Rest(Y) \in SUBSET State /\ Rest(Y) # {}
<1> DEFINE b == Y \cup {"current", "ready", "weights", "kv_cache", "fresh", "enqueued"}
<1>1. b \in Rest(Y)
  BY DEF Rest, Know, State, Facts, Tags, Fine
<1> QED BY <1>1 DEF Rest, Know

\* Serving engines keep serving.
LEMMA ServeOn ==
    ASSUME NEW Y \in SUBSET {"shared"},
           NEW s \in {"resume_weights", "resume_kv_cache", "resume", "enqueue"}
    PROVE  Leads(Rest(Y), <<s>>, Rest(Y))
<1> DEFINE on == Y \cup {"current", "ready", "weights", "kv_cache", "fresh", "enqueued"}
           off == {"actor", "value", "raises"}
<1>1. on \ off = on /\ off \ on = off
  OBVIOUS
<1>2. Tags \cup {"fresh"} \subseteq on /\ {"actor", "value"} \subseteq off
  BY DEF Tags
<1>3. CASE s = "resume_weights"
  BY <1>3, <1>2, ResumeWeightsLeads DEF Rest
<1>4. CASE s = "resume_kv_cache"
  BY <1>4, <1>2, ResumeKvCacheLeads DEF Rest
<1>5. CASE s \in {"resume", "enqueue"}
  BY <1>5, <1>2, ServeLeads DEF Rest
<1> QED BY <1>3, <1>4, <1>5

\* The weights have been sent, or the engines have refused them.
Synced ==
    IF Colocated THEN Know({"shared", "current", "fresh"}, {"value", "raises"})
    ELSE Know({"raises"}, {})

\* The start of a schedule or of an evaluation.
LEMMA StartRolloutsLeads ==
    /\ Leads(Synced, StartRollouts, Resting)
    /\ Leads(Resting, StartRollouts, Resting)
<1>1. CASE Colocated
  <2> DEFINE on == {"shared", "current", "fresh", "weights", "kv_cache", "ready"}
             off == {"value", "raises", "actor"}
  <2>1. Leads(Know({"shared"} \cup {"current", "fresh"}, {} \cup {"value", "raises"}), SwitchToRollout,
              Know({"shared"} \cup {"current", "fresh", "weights", "kv_cache", "ready"}, {} \cup off))
    BY <1>1, SwitchToRolloutLeads DEF Frame
  <2>2. Leads(Synced, SwitchToRollout, Know(on, off))
    <3>1. {"shared"} \cup {"current", "fresh"} = {"shared", "current", "fresh"}
      OBVIOUS
    <3>2. {"shared"} \cup {"current", "fresh", "weights", "kv_cache", "ready"} = on
      OBVIOUS
    <3>3. {} \cup {"value", "raises"} = {"value", "raises"} /\ {} \cup off = off
      OBVIOUS
    <3> HIDE DEF on, off
    <3> QED BY <1>1, <2>1, <3>1, <3>2, <3>3 DEF Synced
  <2>3. Leads(Know(on, off), <<"enqueue">>, Resting)
    BY ServeLeads DEF Rest, Resting, Tags
  <2>4. Leads(Synced, StartRollouts, Resting)
    BY <2>2, <2>3, Then DEF StartRollouts
  <2>5. Resting \in SUBSET Synced /\ Resting \in SUBSET State
    BY <1>1 DEF Resting, Rest, Know, Synced
  <2> QED BY <2>4, <2>5, Weaken
<1>2. CASE ~Colocated
  <2>1. StartRollouts = ((<<"resume_weights">> \o <<"resume_kv_cache">>) \o <<"resume">>) \o <<"enqueue">>
    BY <1>2 DEF StartRollouts, SwitchToRollout
  <2>2. /\ Leads(Resting, <<"resume_weights">>, Resting)
        /\ Leads(Resting, <<"resume_kv_cache">>, Resting)
        /\ Leads(Resting, <<"resume">>, Resting)
        /\ Leads(Resting, <<"enqueue">>, Resting)
    BY ServeOn DEF Resting
  <2>3. Leads(Synced, <<"resume_weights">>, Resting)
    <3>1. "resume_weights" \in Steps \ Critical
      BY DEF Steps, EngineOps, Critical
    <3>2. Resting \in SUBSET State /\ Resting # {}
      BY RestIsState DEF Resting
    <3> QED BY <1>2, <3>1, <3>2, NeverLeads DEF Synced
  <2>4. ASSUME NEW P, Leads(P, <<"resume_weights">>, Resting)
        PROVE  Leads(P, StartRollouts, Resting)
    BY <2>1, <2>2, <2>4, Then
  <2> QED BY <2>2, <2>3, <2>4
<1> QED BY <1>1, <1>2

\* The workers have started; the weights may be sent; where the engines do not share
\* the GPUs they have not been paused.
Together == IF Colocated THEN {"shared"} ELSE {}
Boot(Y) == Know(Y \cup {"ready", "current", "initial"}, Tags \cup {"enqueued", "actor", "value", "raises"})
Started(Y) == Know(Y \cup {"ready", "current"}, Tags \cup {"enqueued", "actor", "value", "raises"})
Trained ==
    IF Colocated THEN Know({"shared", "current"}, {"enqueued", "value", "raises"})
    ELSE Know({"ready", "current"}, {"kv_cache", "enqueued", "value", "raises"})

\* The weights are sent.
LEMMA SyncLeads == Leads(Trained, SwitchToWeightSync \o <<"update">>, Synced)
<1>1. CASE Colocated
  <2> DEFINE off == {"enqueued", "value", "raises", "ready", "kv_cache"}
  <2>1. Leads(Know({"shared"} \cup {"current"}, {"enqueued"} \cup {"value", "raises"}), SwitchToWeightSync,
              Know({"shared"} \cup {"current", "actor", "weights"},
                   {"enqueued"} \cup {"value", "raises", "ready", "kv_cache"}))
    BY <1>1, SwitchToWeightSyncLeads DEF Frame
  <2>2. Leads(Trained, SwitchToWeightSync, Know({"shared", "current", "actor", "weights"}, off))
    <3>1. {"shared"} \cup {"current"} = {"shared", "current"}
      OBVIOUS
    <3>2. {"enqueued"} \cup {"value", "raises"} = {"enqueued", "value", "raises"}
      OBVIOUS
    <3>3. {"shared"} \cup {"current", "actor", "weights"} = {"shared", "current", "actor", "weights"}
      OBVIOUS
    <3>4. {"enqueued"} \cup {"value", "raises", "ready", "kv_cache"} = off
      OBVIOUS
    <3> HIDE DEF off
    <3> QED BY <1>1, <2>1, <3>1, <3>2, <3>3, <3>4 DEF Trained
  <2>3. Leads(Know({"shared", "current", "actor", "weights"}, off), <<"update">>,
              Know({"shared", "current", "fresh"}, {"value", "raises"}))
    BY UpdateLeads
  <2> QED BY <1>1, <2>2, <2>3, Then DEF Synced
<1>2. CASE ~Colocated
  <2> DEFINE off == {"kv_cache", "enqueued", "value", "raises"}
  <2>1. Leads(Know({"ready", "current"}, off), ValueToCpu, Know({"ready", "current"}, off))
    BY ValueToCpuLeads
  <2>2. Leads(Know({"ready", "current"}, off), <<"actor_to_gpu">>, Know({"ready", "current", "actor"}, off))
    BY ActorOnLeads
  <2>3. Leads(Know({"ready", "current", "actor"}, off), <<"update">>, Know({"raises"}, {}))
    BY RefusedLeads
  <2>4. SwitchToWeightSync = ValueToCpu \o <<"actor_to_gpu">>
    BY <1>2 DEF SwitchToWeightSync
  <2>5. Trained = Know({"ready", "current"}, off) /\ Synced = Know({"raises"}, {})
    BY <1>2 DEF Trained, Synced
  <2> HIDE DEF off
  <2> QED BY <2>1, <2>2, <2>3, <2>4, <2>5, Then
<1> QED BY <1>1, <1>2

\* The actor takes the GPUs and loads a checkpoint.
LEMMA LoadLeads == Leads(Started(Together), SwitchToTrain \o <<"load_checkpoint">>, Trained)
<1>1. CASE Colocated
  <2> DEFINE off == {"enqueued", "value", "raises", "ready", "weights", "kv_cache"}
  <2>1. Leads(Know({"shared"} \cup {"current"}, {"enqueued"} \cup {"value", "raises"}), SwitchToTrain,
              Know({"shared"} \cup {"current", "actor"},
                   {"enqueued"} \cup {"value", "raises", "ready", "weights", "kv_cache"}))
    BY <1>1, SwitchToTrainLeads DEF Frame
  <2>2. Leads(Started(Together), SwitchToTrain, Know({"shared", "current", "actor"}, off))
    <3> DEFINE P == Know({"shared"} \cup {"current"}, {"enqueued"} \cup {"value", "raises"})
               Q == Know({"shared"} \cup {"current", "actor"},
                         {"enqueued"} \cup {"value", "raises", "ready", "weights", "kv_cache"})
    <3>1. Started(Together) \in SUBSET P
      BY <1>1 DEF Started, Together, Know
    <3>2. Q \subseteq Know({"shared", "current", "actor"}, off)
      BY DEF Know
    <3>3. Know({"shared", "current", "actor"}, off) \in SUBSET State
      BY DEF Know
    <3>4. Leads(P, SwitchToTrain, Q)
      BY <2>1
    <3> HIDE DEF P, Q, off
    <3> QED BY <3>1, <3>2, <3>3, <3>4, Weaken
  <2>3. Leads(Know({"shared", "current", "actor"}, off), <<"load_checkpoint">>,
              Know({"shared", "current"}, {"enqueued", "value", "raises"}))
    BY TrainLeads
  <2> QED BY <1>1, <2>2, <2>3, Then DEF Trained
<1>2. CASE ~Colocated
  <2> DEFINE off == {"kv_cache", "enqueued", "value", "raises"}
  <2>1. Leads(Know({"ready", "current"}, off), ValueToCpu, Know({"ready", "current"}, off))
    BY ValueToCpuLeads
  <2>2. Leads(Know({"ready", "current"}, off), <<"actor_to_gpu">>, Know({"ready", "current", "actor"}, off))
    BY ActorOnLeads
  <2>3. Leads(Know({"ready", "current", "actor"}, off), <<"load_checkpoint">>, Know({"ready", "current"}, off))
    BY TrainLeads
  <2>4. SwitchToTrain = ValueToCpu \o <<"actor_to_gpu">>
    <3>1. ValueToCpu \in Seq(Steps)
      BY <2>1 DEF Leads
    <3> QED BY <1>2, <3>1 DEF SwitchToTrain
  <2>5. Trained = Know({"ready", "current"}, off)
    BY <1>2 DEF Trained
  <2>6. Started(Together) \in SUBSET Know({"ready", "current"}, off)
    BY DEF Started, Together, Know, Tags
  <2>7. Know({"ready", "current"}, off) \subseteq State
    BY DEF Know
  <2> HIDE DEF off
  <2>8. Leads(Know({"ready", "current"}, off), SwitchToTrain \o <<"load_checkpoint">>, Know({"ready", "current"}, off))
    BY <2>1, <2>2, <2>3, <2>4, Then
  <2> QED BY <2>5, <2>6, <2>7, <2>8, Weaken
<1> QED BY <1>1, <1>2

\* run_online_rl_train up to the first schedule.
LEMMA RunOnlineRlTrainLeads == Leads(Started(Together), RunOnlineRlTrain, Resting)
<1> DEFINE eval == IF EvalOnStart THEN StartRollouts ELSE <<>>
<1>1. Leads(Started(Together), (SwitchToTrain \o <<"load_checkpoint">>) \o (SwitchToWeightSync \o <<"update">>), Synced)
  BY LoadLeads, SyncLeads, Then
<1>2. Leads(Synced, eval \o StartRollouts, Resting)
  <2>1. CASE EvalOnStart
    BY <2>1, StartRolloutsLeads, Then
  <2>2. CASE ~EvalOnStart
    <3>1. Synced \in SUBSET State
      BY StartRolloutsLeads DEF Leads
    <3>2. Leads(Synced, <<>>, Synced)
      BY <3>1, NoStep
    <3> QED BY <2>2, <3>2, StartRolloutsLeads, Then
  <2> QED BY <2>1, <2>2
<1>3. RunOnlineRlTrain =
        ((SwitchToTrain \o <<"load_checkpoint">>) \o (SwitchToWeightSync \o <<"update">>)) \o (eval \o StartRollouts)
  <2>1. /\ SwitchToTrain \in Seq(Steps) /\ SwitchToWeightSync \in Seq(Steps)
        /\ StartRollouts \in Seq(Steps)
        /\ <<"load_checkpoint">> \in Seq(Steps) /\ <<"update">> \in Seq(Steps)
    <3>1. \A s \in {"value_to_cpu", "actor_to_gpu", "actor_to_cpu", "pause", "release", "resume_weights",
                    "resume_kv_cache", "resume", "enqueue", "load_checkpoint", "update"} : s \in Steps
      BY DEF Steps, EngineOps
    <3>2. <<>> \in Seq(Steps)
      OBVIOUS
    <3>3. ValueToCpu \in Seq(Steps)
      BY <3>1, <3>2 DEF ValueToCpu
    <3>4. SwitchToTrain \in Seq(Steps)
      BY <3>1, <3>2, <3>3 DEF SwitchToTrain
    <3>5. SwitchToWeightSync \in Seq(Steps)
      BY <3>1, <3>3 DEF SwitchToWeightSync
    <3> QED BY <3>1, <3>4, <3>5, StartRolloutsLeads DEF Leads
  <2>2. eval \in Seq(Steps)
    BY <1>2, <2>1
  <2> HIDE DEF eval
  <2> DEFINE load == SwitchToTrain \o <<"load_checkpoint">>
  <2>3. RunOnlineRlTrain = (((load \o SwitchToWeightSync) \o <<"update">>) \o eval) \o StartRollouts
    BY DEF RunOnlineRlTrain, eval
  <2>4. load \in Seq(Steps)
    BY <2>1
  <2> HIDE DEF load
  <2>5. (load \o SwitchToWeightSync) \o <<"update">> = load \o (SwitchToWeightSync \o <<"update">>)
    BY <2>1, <2>4, ThreePlans, Zenon
  <2> DEFINE sync == load \o (SwitchToWeightSync \o <<"update">>)
  <2>6. sync \in Seq(Steps)
    BY <2>1, <2>4
  <2> HIDE DEF sync
  <2>7. (sync \o eval) \o StartRollouts = sync \o (eval \o StartRollouts)
    <3>1. PICK start \in Seq(Steps) : start = StartRollouts
      BY <2>1
    <3>2. (sync \o eval) \o start = sync \o (eval \o start)
      BY <2>2, <2>6
    <3> QED BY <3>1, <3>2, Zenon
  <2> QED BY <2>3, <2>5, <2>7 DEF load, sync
<1> HIDE DEF eval
<1> QED BY <1>1, <1>2, <1>3, Then

\* Where engines and Megatron workers are both there, each leaves the GPU before the
\* next one starts.
LEMMA BothStartLeads ==
    ASSUME NEW Y \in SUBSET {"shared"}, NeedsRolloutWorker, NeedsMegatronWorker
    PROVE  Leads(Boot(Y), InitializeWorkers, Boot(Y))
<1> DEFINE on == Y \cup {"ready", "current", "initial"}
           off == Tags \cup {"enqueued", "actor", "value", "raises"}
           off2 == {"enqueued", "actor", "value", "raises"}
           off3 == Tags \cup {"enqueued", "value", "raises"}
           off4 == Tags \cup {"enqueued", "actor", "raises"}
<1>1. Leads(Know(on, off), <<"start_engines">>, Know(on, off2))
  BY StartEnginesLeads DEF Tags
<1>2. Leads(Know(on, off2), <<"release">>, Know(on, off))
  BY ReleaseLeads DEF Tags
<1>3. Leads(Know(on, off), <<"start_actor">>, Know(on, off3))
  BY ActorOnLeads DEF Tags
<1>4. Leads(Know(on, off3), <<"actor_to_cpu">>, Know(on, off))
  BY ActorOffLeads DEF Tags
<1>5. Leads(Know(on, off), IF Ppo THEN <<"start_value", "value_to_cpu">> ELSE <<>>, Know(on, off))
  <2>1. Leads(Know(on, off), <<"start_value">>, Know(on, off4))
    BY ValueOnLeads DEF Tags
  <2>2. Leads(Know(on, off4), <<"value_to_cpu">>, Know(on, off))
    BY ValueOffLeads DEF Tags
  <2>3. Leads(Know(on, off), <<>>, Know(on, off))
    <3>1. Know(on, off) \in SUBSET State
      BY DEF Know
    <3> QED BY <3>1, NoStep
  <2>4. <<"start_value", "value_to_cpu">> = <<"start_value">> \o <<"value_to_cpu">>
    OBVIOUS
  <2> HIDE DEF on, off, off4
  <2>5. Leads(Know(on, off), <<"start_value">> \o <<"value_to_cpu">>, Know(on, off))
    BY <2>1, <2>2, Then
  <2> QED BY <2>3, <2>4, <2>5
<1>6. InitializeWorkers = (((<<"start_engines">> \o <<"release">>) \o <<"start_actor">>) \o <<"actor_to_cpu">>)
                            \o (IF Ppo THEN <<"start_value", "value_to_cpu">> ELSE <<>>)
  BY DEF InitializeWorkers
<1>7. Boot(Y) = Know(on, off)
  BY DEF Boot
<1> HIDE DEF on, off, off2, off3, off4
<1> QED BY <1>1, <1>2, <1>3, <1>4, <1>5, <1>6, <1>7, Then

\* The teacher's weights come and go.
LEMMA InitializeTeacherLeads ==
    ASSUME NEW Y, NEW N, "current" \in Y, "initial" \notin Y, "copy" \notin Y \cup N, "current" \notin N
    PROVE  Leads(Know(Y, N), InitializeTeacher, Know(Y, N))
<1>1. CASE ~setup.opd
  <2>1. InitializeTeacher = <<>> /\ Know(Y, N) \in SUBSET State
    BY <1>1 DEF InitializeTeacher, Know
  <2> QED BY <2>1, NoStep
<1>2. CASE setup.opd
  <2>1. Leads(Know(Y, N), <<"copy_weights">>, Know(Y \cup {"copy"}, N))
    BY CopyLeads
  <2>2. Leads(Know(Y \cup {"copy"}, N), <<"load_teacher">>, Know((Y \cup {"copy"}) \ {"current"}, N))
    BY LoadTeacherLeads
  <2>3. Leads(Know((Y \cup {"copy"}) \ {"current"}, N), <<"apply_copy">>, Know(Y, N))
    BY ApplyCopyLeads
  <2>4. InitializeTeacher = (<<"copy_weights">> \o <<"load_teacher">>) \o <<"apply_copy">>
    BY <1>2 DEF InitializeTeacher
  <2> QED BY <2>1, <2>2, <2>3, <2>4, Then
<1> QED BY <1>1, <1>2

\* The start of a run that has engines and Megatron workers.
LEMMA InitializeLeads ==
    ASSUME NEW Y \in SUBSET {"shared"}, NeedsRolloutWorker, NeedsMegatronWorker
    PROVE  Leads(Boot(Y), InitializeWorkers \o InitializeTeacher, Started(Y))
<1> DEFINE on == Y \cup {"ready", "current"}
           off == Tags \cup {"enqueued", "actor", "value", "raises"}
<1>1. Leads(Know(on, off), InitializeTeacher, Know(on, off))
  BY InitializeTeacherLeads DEF Tags
<1>2. Boot(Y) \in SUBSET Know(on, off) /\ Started(Y) = Know(on, off)
  BY DEF Boot, Started, Know
<1> HIDE DEF on, off
<1>3. Leads(Boot(Y), InitializeTeacher, Started(Y))
  <2>1. Know(on, off) \in SUBSET State
    BY <1>1 DEF Leads
  <2> QED BY <1>1, <1>2, <2>1, Weaken
<1> QED BY <1>3, BothStartLeads, Then

\* A run without engines: the actor starts on the GPU and stays there.
Alone == Know({"current", "actor"}, {"enqueued", "value", "raises"})

\* Its start leads there.
LEMMA AloneLeads ==
    ASSUME ~NeedsRolloutWorker, NeedsMegatronWorker, ~Ppo
    PROVE  Leads(Boot({}), InitializeWorkers \o InitializeTeacher \o <<"load_checkpoint">>, Alone)
<1> DEFINE on == {"current", "actor"}
           off == {"enqueued", "value", "raises"}
<1>1. Leads(Boot({}), <<"start_actor">>, Know(on, off))
  <2> DEFINE on1 == {} \cup {"ready", "current", "initial"}
             off1 == Tags \cup {"enqueued", "actor", "value", "raises"}
  <2>1. Leads(Know(on1, off1), <<"start_actor">>, Know(on, off))
    BY ActorOnLeads DEF Tags
  <2> QED BY <2>1 DEF Boot
<1>2. InitializeWorkers = <<"start_actor">>
  BY DEF InitializeWorkers
<1>3. Leads(Know(on, off), InitializeTeacher, Know(on, off))
  BY InitializeTeacherLeads
<1>4. Leads(Know(on, off), <<"load_checkpoint">>, Know(on, off))
  BY TrainLeads
<1>5. Alone = Know(on, off)
  BY DEF Alone
<1> HIDE DEF on, off
<1> QED BY <1>1, <1>2, <1>3, <1>4, <1>5, Then

\* A run of evaluations only has no Megatron worker.
LEMMA EvalOnlyLeads ==
    ASSUME NeedsRolloutWorker, ~NeedsMegatronWorker, ~Ppo
    PROVE  Leads(Boot({}), InitializeWorkers \o InitializeTeacher \o <<"enqueue">>, Rest({}))
<1> DEFINE on == {"ready", "current", "weights", "kv_cache", "fresh"}
           off == {"actor", "value", "raises"}
<1>1. Leads(Boot({}), <<"start_engines">>, Know(on, off))
  <2> DEFINE on1 == {} \cup {"ready", "current", "initial"}
             off1 == Tags \cup {"enqueued", "actor", "value", "raises"}
  <2>1. Leads(Know(on1, off1), <<"start_engines">>, Know(on, off))
    BY StartEnginesLeads DEF Tags
  <2> QED BY <2>1 DEF Boot
<1>2. InitializeWorkers = <<"start_engines">>
  BY DEF InitializeWorkers
<1>3. Leads(Know(on, off), InitializeTeacher, Know(on, off))
  BY InitializeTeacherLeads
<1>4. Leads(Know(on, off), <<"enqueue">>, Rest({}))
  <2>1. Leads(Know(on, off), <<"enqueue">>, Know({} \cup (on \cup {"enqueued"}), off))
    BY ServeLeads DEF Tags
  <2>2. on \cup {"enqueued"} = {"current", "ready", "weights", "kv_cache", "fresh", "enqueued"}
    OBVIOUS
  <2> QED BY <2>1, <2>2 DEF Rest
<1> HIDE DEF on, off
<1> QED BY <1>1, <1>2, <1>3, <1>4, Then

\* Training and evaluating in turn: after the first update nothing more changes.
LEMMA EpochsLeads == Leads(Alone, Epochs, Alone)
<1> DEFINE n == 2 * NumEpochs
<1>1. n \in Nat \ {0}
  BY TrainAssumption
<1>2. \A s \in {"train_actor", "eval"} : s \in Steps
  BY DEF Steps
<1>3. Epochs \in [1..n -> {"train_actor", "eval"}] /\ Epochs[1] = "train_actor"
  <2>1. 1 \in 1..n /\ 1 % 2 = 1
    BY <1>1
  <2> QED BY <2>1 DEF Epochs
<1>4. Epochs \in Seq(Steps) /\ Len(Epochs) = n
  <2>1. Epochs \in [1..n -> Steps]
    BY <1>2, <1>3
  <2> QED BY <1>1, <2>1
<1> HIDE DEF n
<1>5. Alone \in SUBSET State
  BY DEF Alone, Know
<1> SUFFICES ASSUME NEW b \in Alone PROVE \E c \in Alone : Runs(b, Epochs, c)
  BY <1>4, <1>5 DEF Leads
<1> DEFINE c == (b \ {"fresh", "copy", "initial"}) \cup {"current"}
           f == [i \in 0..n |-> IF i = 0 THEN b ELSE c]
<1>6. c \in Alone /\ Fine(c)
  BY DEF Alone, Know, State, Facts, Fine
<1>7. ASSUME NEW d \in {b, c}
      PROVE  Steps1(d, "train_actor", c)
  <2>1. After(d, "train_actor") = c
    <3>1. After(d, "train_actor") = (d \ {"fresh", "copy", "initial"}) \cup {"current"}
      BY AfterTraining
    <3> QED BY <3>1
  <2>2. Needs(d, "train_actor")
    BY <1>6 DEF Needs, Quiet, Alone, Know
  <2> QED BY <1>6, <2>1, <2>2 DEF Steps1
<1>8. Steps1(c, "eval", c)
  <2>1. After(c, "eval") = c
    BY AfterTraining
  <2>2. Needs(c, "eval")
    BY <1>6 DEF Needs, Alone, Know
  <2> QED BY <1>6, <2>1, <2>2 DEF Steps1
<1> HIDE DEF c
<1>9. /\ f \in [0..n -> State] /\ f[0] = b
      /\ \A i \in 1..n : f[i] = c
  BY <1>1, <1>5, <1>6
<1> HIDE DEF f
<1>10. ASSUME NEW i \in 1..n PROVE Steps1(f[i - 1], Epochs[i], f[i])
  <2>1. CASE i = 1
    BY <1>3, <1>7, <1>9, <2>1
  <2>2. CASE i # 1
    <3>1. i - 1 \in 1..n
      BY <1>1, <2>2
    <3>2. f[i - 1] = c /\ f[i] = c /\ Epochs[i] \in {"train_actor", "eval"}
      BY <1>3, <1>9, <3>1
    <3> QED BY <1>7, <1>8, <3>2
  <2> QED BY <2>1, <2>2
<1>11. f[n] = c
  BY <1>1, <1>9
<1> QED BY <1>4, <1>6, <1>9, <1>10, <1>11 DEF Runs

\* The shutdown ends a plan.
LEMMA EndsLeads ==
    ASSUME NEW P, NEW Q, NEW p, Leads(P, p, Q)
    PROVE  Leads(P, p \o <<"shutdown">>, Resting)
<1>1. Q \in SUBSET State /\ Resting \in SUBSET State /\ Resting # {}
  BY RestIsState DEF Leads, Resting
<1>2. Leads(Q, <<"shutdown">>, Resting)
  BY <1>1, ShutdownLeads
<1> QED BY <1>2, Then

\* run_sft_train and run_replay_rl_train after the checkpoint.
LEMMA TrainingLeads ==
    /\ Leads(Alone, Epochs \o <<"shutdown">>, Resting)
    /\ Leads(Alone, <<"train_actor">> \o <<"shutdown">>, Resting)
<1>1. Leads(Alone, <<"train_actor">>, Alone)
  BY TrainLeads DEF Alone
<1> QED BY <1>1, EpochsLeads, EndsLeads

\* compute_ref_and_old_logprobs_for_mismatch: the initial weights, then the current ones.
LogprobSteps == <<"copy_weights">> \o <<"apply_init">> \o <<"compute_ref">> \o <<"apply_copy">>
                  \o <<"compute_old">>

\* The weights are swapped back in the end.
LEMMA LogprobsLeads ==
    Leads(Know({"current", "actor"}, {}), LogprobSteps, Know({"current", "actor"}, {}))
<1> DEFINE on == {"current", "actor"}
           on2 == {"actor", "copy", "initial"}
<1>1. Leads(Know(on, {}), <<"copy_weights">>, Know({"current", "actor", "copy"}, {}))
  BY CopyLeads
<1>2. Leads(Know({"current", "actor", "copy"}, {}), <<"apply_init">>, Know(on2, {}))
  BY ApplyInitLeads
<1>3. Leads(Know(on2, {}), <<"compute_ref">>, Know(on2, {}))
  BY ComputeLeads
<1>4. Leads(Know(on2, {}), <<"apply_copy">>, Know(on, {}))
  BY ApplyCopyLeads
<1>5. Leads(Know(on, {}), <<"compute_old">>, Know(on, {}))
  BY ComputeLeads
<1> HIDE DEF on, on2
<1>6. Leads(Know(on, {}), LogprobSteps, Know(on, {}))
  BY <1>1, <1>2, <1>3, <1>4, <1>5, Then DEF LogprobSteps
<1> QED BY <1>6 DEF on

\* run_mismatch_test after its rollouts, or with those of an earlier run.
LEMMA MismatchLogprobsLeads ==
    /\ Leads(Started(Together), MismatchLogprobs, Resting)
    /\ Colocated => Leads(Resting, MismatchLogprobs, Resting)
<1> DEFINE on == {"current", "actor"}
<1>1. ASSUME NEW P, Leads(P, SwitchToTrain, Know(on, {}))
      PROVE  Leads(P, MismatchLogprobs, Resting)
  <2>1. Leads(Know(on, {}), LogprobSteps, Know(on, {}))
    BY LogprobsLeads
  <2> HIDE DEF on
  <2>2. Leads(P, (SwitchToTrain \o LogprobSteps) \o <<"shutdown">>, Resting)
    BY <1>1, <2>1, Then, EndsLeads
  <2>3. MismatchLogprobs = (SwitchToTrain \o LogprobSteps) \o <<"shutdown">>
    <3>1. /\ SwitchToTrain \in Seq(Steps)
          /\ \A s \in {"copy_weights", "apply_init", "compute_ref", "apply_copy", "compute_old",
                       "shutdown"} : s \in Steps
      BY <1>1 DEF Leads, Steps
    <3>2. LogprobSteps = <<"copy_weights", "apply_init", "compute_ref", "apply_copy", "compute_old">>
      <4>1. <<"copy_weights", "apply_init">> = <<"copy_weights">> \o <<"apply_init">>
        OBVIOUS
      <4>2. <<"copy_weights", "apply_init", "compute_ref">>
              = <<"copy_weights", "apply_init">> \o <<"compute_ref">>
        OBVIOUS
      <4>3. <<"copy_weights", "apply_init", "compute_ref", "apply_copy">>
              = <<"copy_weights", "apply_init", "compute_ref">> \o <<"apply_copy">>
        OBVIOUS
      <4>4. <<"copy_weights", "apply_init", "compute_ref", "apply_copy", "compute_old">>
              = <<"copy_weights", "apply_init", "compute_ref", "apply_copy">> \o <<"compute_old">>
        OBVIOUS
      <4> QED BY <4>1, <4>2, <4>3, <4>4, Zenon DEF LogprobSteps
    <3> QED BY <3>1, <3>2 DEF MismatchLogprobs
  <2> QED BY <2>2, <2>3
<1>2. CASE Colocated
  <2> DEFINE P == Know({"shared"} \cup {"current"}, {} \cup {"value", "raises"})
             Q == Know({"shared"} \cup {"current", "actor"},
                       {} \cup {"value", "raises", "ready", "weights", "kv_cache"})
  <2>1. Leads(P, SwitchToTrain, Q)
    BY <1>2, SwitchToTrainLeads DEF Frame
  <2>2. Q \subseteq Know(on, {}) /\ Know(on, {}) \in SUBSET State
    BY DEF Know
  <2>3. Started(Together) \in SUBSET P /\ Resting \in SUBSET P
    BY <1>2 DEF Started, Together, Resting, Rest, Know
  <2> HIDE DEF P, Q, on
  <2>4. Leads(Started(Together), SwitchToTrain, Know(on, {})) /\ Leads(Resting, SwitchToTrain, Know(on, {}))
    BY <2>1, <2>2, <2>3, Weaken
  <2> QED BY <1>1, <2>4
<1>3. CASE ~Colocated
  <2> DEFINE off == Tags \cup {"enqueued", "actor", "value", "raises"}
  <2>1. Started(Together) = Know({} \cup {"ready", "current"}, off)
    BY <1>3 DEF Started, Together
  <2>2. Leads(Know({} \cup {"ready", "current"}, off), ValueToCpu, Know({} \cup {"ready", "current"}, off))
    BY ValueToCpuLeads
  <2>3. Leads(Know({} \cup {"ready", "current"}, off), <<"actor_to_gpu">>, Know(on, {}))
    BY ActorOnLeads DEF Tags
  <2>4. SwitchToTrain = ValueToCpu \o <<"actor_to_gpu">>
    <3>1. ValueToCpu \in Seq(Steps)
      BY <2>2 DEF Leads
    <3> QED BY <1>3, <3>1 DEF SwitchToTrain
  <2> HIDE DEF off, on
  <2> QED BY <1>1, <1>3, <2>1, <2>2, <2>3, <2>4, Then
<1> QED BY <1>2, <1>3

\* load_or_generate_mismatch_rollouts generates.
LEMMA GenerateMismatchRolloutsLeads == Leads(Started(Together), GenerateMismatchRollouts, Resting)
<1>1. Started(Together) \in SUBSET Trained /\ Synced \subseteq State
  BY DEF Started, Together, Trained, Synced, Know, Tags
<1>2. Leads(Started(Together), SwitchToWeightSync \o <<"update">>, Synced)
  BY <1>1, SyncLeads, Weaken
<1> QED BY <1>2, StartRolloutsLeads, Then DEF GenerateMismatchRollouts

\* switch_to_value_train of the colocated manager: the value model has the GPUs.
LEMMA SwitchToValueTrainLeads ==
    ASSUME Colocated
    PROVE  Leads(Know({"shared", "current", "enqueued"}, {"value", "raises"}), SwitchToValueTrain,
                 Know({"shared", "current", "enqueued", "value"},
                      {"ready", "weights", "kv_cache", "actor", "raises"}))
<1> DEFINE on == {"shared", "current", "enqueued"}
           off == {"value", "raises"} \cup {"ready", "weights", "kv_cache"}
<1>1. Leads(Know(on, {"value", "raises"}), <<"pause", "release">>, Know(on, off))
  BY HaltLeads
<1>2. Leads(Know(on, off), <<"actor_to_cpu">>, Know(on, off \cup {"actor"}))
  BY ActorOffLeads
<1>3. Leads(Know(on, off \cup {"actor"}), <<"value_to_gpu">>,
            Know({"shared", "current", "enqueued", "value"},
                 {"ready", "weights", "kv_cache", "actor", "raises"}))
  BY ValueOnLeads DEF Tags
<1>4. SwitchToValueTrain = (<<"pause", "release">> \o <<"actor_to_cpu">>) \o <<"value_to_gpu">>
  BY DEF SwitchToValueTrain
<1> HIDE DEF off
<1>5. Leads(Know(on, {"value", "raises"}), SwitchToValueTrain,
            Know({"shared", "current", "enqueued", "value"},
                 {"ready", "weights", "kv_cache", "actor", "raises"}))
  <2> DEFINE Q == Know({"shared", "current", "enqueued", "value"},
                       {"ready", "weights", "kv_cache", "actor", "raises"})
  <2>1. Leads(Know(on, off \cup {"actor"}), <<"value_to_gpu">>, Q)
    BY <1>3
  <2> HIDE DEF on, Q
  <2>2. Leads(Know(on, {"value", "raises"}), SwitchToValueTrain, Q)
    BY <1>1, <1>2, <1>4, <2>1, Then
  <2> QED BY <2>2 DEF Q
<1> QED BY <1>5

\* A batch of the PPO setups up to the update of the actor: the value model computes and
\* trains, then the actor takes its place.
LEMMA PpoTrainLeads ==
    ASSUME Colocated, Ppo, TrainsActor
    PROVE  Leads(Know({"shared", "current", "enqueued"}, {"value", "raises"}),
                 SwitchToOnlineTrainPhase \o PrepareSamples \o TrainSamples,
                 Know({"shared", "current", "enqueued"}, {"value", "raises"}))
<1> DEFINE on == {"shared", "current", "enqueued"}
           von == {"shared", "current", "enqueued", "value"}
           voff == {"ready", "weights", "kv_cache", "actor", "raises"}
           off == {"ready", "weights", "kv_cache", "actor", "raises", "value"}
           aon == {"shared", "current", "enqueued", "actor"}
           aoff == {"ready", "weights", "kv_cache", "raises", "value"}
<1>1. Leads(Know(on, {"value", "raises"}), SwitchToOnlineTrainPhase, Know(von, voff))
  BY SwitchToValueTrainLeads DEF SwitchToOnlineTrainPhase
<1>2. Leads(Know(von, voff), <<"actor_to_cpu">>, Know(von, voff))
  BY ActorOffLeads
<1>3. Leads(Know(von, voff), <<"value_to_gpu">>, Know(von, voff))
  BY ValueOnLeads DEF Tags
<1>4. Leads(Know(von, voff), <<"compute_values">>, Know(von, voff))
  BY ComputeLeads
<1>5. Leads(Know(von, voff), <<"train_value">>, Know(von, voff))
  BY ComputeLeads
<1>6. Leads(Know(von, voff), <<"value_to_cpu">>, Know(on, off))
  BY ValueOffLeads
<1>7. Leads(Know(on, off), <<"actor_to_gpu">>, Know(aon, aoff))
  BY ActorOnLeads
<1>8. Leads(Know(aon, aoff), <<"train_actor">>, Know(on, {"value", "raises"}))
  BY TrainLeads
<1>9. PrepareSamples = (<<"actor_to_cpu">> \o <<"value_to_gpu">>) \o <<"compute_values">>
  BY DEF PrepareSamples
<1>10. TrainSamples = ((<<"train_value">> \o <<"value_to_cpu">>) \o <<"actor_to_gpu">>) \o <<"train_actor">>
  BY DEF TrainSamples
<1> HIDE DEF on, von, voff, off, aon, aoff
<1>11. Leads(Know(von, voff), PrepareSamples, Know(von, voff))
  BY <1>2, <1>3, <1>4, <1>9, Then
<1>12. Leads(Know(von, voff), TrainSamples, Know(on, {"value", "raises"}))
  BY <1>5, <1>6, <1>7, <1>8, <1>10, Then
<1>13. Leads(Know(on, {"value", "raises"}), SwitchToOnlineTrainPhase \o PrepareSamples \o TrainSamples,
             Know(on, {"value", "raises"}))
  BY <1>1, <1>11, <1>12, Then
<1> QED BY <1>13 DEF on

\* A batch of the other setups up to the update of the actor.
LEMMA GrpoTrainLeads ==
    ASSUME Colocated, ~Ppo
    PROVE  Leads(Know({"shared", "current", "enqueued"}, {"value", "raises"}),
                 SwitchToOnlineTrainPhase \o PrepareSamples \o TrainSamples,
                 Know({"shared", "current", "enqueued"}, {"value", "raises"}))
<1> DEFINE on == {"shared", "current", "enqueued"}
           P == Know({"shared", "enqueued"} \cup {"current"}, {} \cup {"value", "raises"})
           Q == Know({"shared", "enqueued"} \cup {"current", "actor"},
                     {} \cup {"value", "raises", "ready", "weights", "kv_cache"})
<1>1. Leads(P, SwitchToTrain, Q)
  BY SwitchToTrainLeads DEF Frame
<1>2. Leads(Q, <<"train_actor">>, Know(on, {"value", "raises"}))
  BY TrainLeads
<1>3. SwitchToOnlineTrainPhase \o PrepareSamples \o TrainSamples = SwitchToTrain \o <<"train_actor">>
  <2>1. PrepareSamples = <<>> /\ SwitchToOnlineTrainPhase = SwitchToTrain
    BY DEF PrepareSamples, SwitchToOnlineTrainPhase
  <2>2. TrainSamples = <<"train_actor">>
    BY DEF TrainSamples, TrainsActor
  <2>3. SwitchToTrain \in Seq(Steps) /\ <<"train_actor">> \in Seq(Steps)
    BY <1>1, <1>2 DEF Leads
  <2> QED BY <2>1, <2>2, <2>3
<1>4. P = Know(on, {"value", "raises"})
  <2>1. {"shared", "enqueued"} \cup {"current"} = on /\ {} \cup {"value", "raises"} = {"value", "raises"}
    OBVIOUS
  <2> HIDE DEF on
  <2> QED BY <2>1
<1> HIDE DEF P, Q
<1> QED BY <1>1, <1>2, <1>3, <1>4, Then

\* A batch: train, send the weights, serve again.
LEMMA BatchLeads ==
    ASSUME Colocated, TrainsActor
    PROVE  Leads(Resting, SwitchToOnlineTrainPhase \o PrepareSamples \o TrainSamples \o SyncRollout, Resting)
<1> DEFINE on == {"shared", "current", "enqueued"}
           P == Know(on, {"value", "raises"})
<1>1. Leads(P, SwitchToOnlineTrainPhase \o PrepareSamples \o TrainSamples, P)
  BY PpoTrainLeads, GrpoTrainLeads
<1>2. Leads(P, SwitchToWeightSync,
            Know({"shared", "enqueued"} \cup {"current", "actor", "weights"},
                 {} \cup {"value", "raises", "ready", "kv_cache"}))
  <2>1. Leads(Know({"shared", "enqueued"} \cup {"current"}, {} \cup {"value", "raises"}), SwitchToWeightSync,
              Know({"shared", "enqueued"} \cup {"current", "actor", "weights"},
                   {} \cup {"value", "raises", "ready", "kv_cache"}))
    BY SwitchToWeightSyncLeads DEF Frame
  <2>2. {"shared", "enqueued"} \cup {"current"} = on /\ {} \cup {"value", "raises"} = {"value", "raises"}
    OBVIOUS
  <2> HIDE DEF on
  <2> QED BY <2>1, <2>2
<1>3. Leads(Know({"shared", "enqueued"} \cup {"current", "actor", "weights"},
                 {} \cup {"value", "raises", "ready", "kv_cache"}), <<"update">>,
            Know({"shared", "enqueued"} \cup {"current", "fresh"}, {} \cup {"value", "raises"}))
  BY UpdateLeads
<1>4. Leads(Know({"shared", "enqueued"} \cup {"current", "fresh"}, {} \cup {"value", "raises"}),
            SwitchToRollout,
            Know({"shared", "enqueued"} \cup {"current", "fresh", "weights", "kv_cache", "ready"},
                 {} \cup {"value", "raises", "actor"}))
  BY SwitchToRolloutLeads DEF Frame
<1>5. /\ Know({"shared", "enqueued"} \cup {"current", "fresh", "weights", "kv_cache", "ready"},
                 {} \cup {"value", "raises", "actor"}) \subseteq Resting
      /\ Resting \in SUBSET State
      /\ Resting \in SUBSET P
  BY DEF Resting, Rest, Know
<1>6. SyncRollout = SwitchToWeightSync \o <<"update">> \o SwitchToRollout
  BY DEF SyncRollout
<1> HIDE DEF on, P
<1>7. Leads(P, SyncRollout,
            Know({"shared", "enqueued"} \cup {"current", "fresh", "weights", "kv_cache", "ready"},
                 {} \cup {"value", "raises", "actor"}))
  BY <1>2, <1>3, <1>4, <1>6, Then
<1>8. Leads(P, SyncRollout, Resting)
  <2>1. P \in SUBSET P
    OBVIOUS
  <2> QED BY <1>5, <1>7, <2>1, Weaken
<1>9. Leads(P, SwitchToOnlineTrainPhase \o PrepareSamples \o TrainSamples \o SyncRollout, Resting)
  BY <1>1, <1>8, Then
<1> QED BY <1>5, <1>9, Weaken

\* A configuration of the run.  There is no warmup that trains only the value model: the
\* engines would serve again without an update.
SetupOK ==
    /\ setup \in [mode : RunModes \cup {"ended"}, colocated : BOOLEAN, ppo : BOOLEAN, opd : BOOLEAN]
    /\ setup.ppo => setup.mode \in {"online_rl_train", "ended"} /\ NumValueOnly = 0

\* The steps of a run, from the start of its workers, end where rollouts are served.
LEMMA StartLeads ==
    ASSUME SetupOK, Start
    PROVE  /\ setup.mode \in {"online_rl_train", "mismatch_test"} => Leads(Boot(Together), todo, Resting)
           /\ setup.mode \in {"sft_train", "replay_rl_train"} => Leads(Boot({}), todo, Resting)
           /\ setup.mode = "eval_only" => Leads(Boot({}), todo, Rest({}))
<1>1. CASE setup.mode = "online_rl_train"
  <2>1. todo = (InitializeWorkers \o InitializeTeacher) \o RunOnlineRlTrain
    BY <1>1 DEF Start
  <2>2. Leads(Boot(Together), InitializeWorkers \o InitializeTeacher, Started(Together))
    BY <1>1, InitializeLeads DEF NeedsRolloutWorker, NeedsMegatronWorker, Together
  <2> QED BY <1>1, <2>1, <2>2, RunOnlineRlTrainLeads, Then
<1>2. CASE setup.mode = "mismatch_test"
  <2>1. PICK run \in {MismatchLogprobs, GenerateMismatchRollouts} :
          todo = (InitializeWorkers \o InitializeTeacher) \o run
    BY <1>2 DEF Start
  <2>2. Leads(Boot(Together), InitializeWorkers \o InitializeTeacher, Started(Together))
    BY <1>2, InitializeLeads DEF NeedsRolloutWorker, NeedsMegatronWorker, Together
  <2>3. Leads(Started(Together), run, Resting)
    BY MismatchLogprobsLeads, GenerateMismatchRolloutsLeads
  <2> QED BY <1>2, <2>1, <2>2, <2>3, Then
<1>3. CASE setup.mode = "sft_train"
  <2>1. todo = InitializeWorkers \o InitializeTeacher \o RunSftTrain
    BY <1>3 DEF Start
  <2>2. Leads(Boot({}), InitializeWorkers \o InitializeTeacher \o <<"load_checkpoint">>, Alone)
    BY <1>3, AloneLeads DEF NeedsRolloutWorker, NeedsMegatronWorker, SetupOK, Ppo
  <2>3. Leads(Boot({}), (InitializeWorkers \o InitializeTeacher \o <<"load_checkpoint">>)
                          \o (Epochs \o <<"shutdown">>), Resting)
    BY <2>2, TrainingLeads, Then
  <2>4. todo = (InitializeWorkers \o InitializeTeacher \o <<"load_checkpoint">>)
                 \o (Epochs \o <<"shutdown">>)
    <3>1. /\ InitializeWorkers \in Seq(Steps) /\ InitializeTeacher \in Seq(Steps)
          /\ Epochs \in Seq(Steps) /\ <<"shutdown">> \in Seq(Steps) /\ <<"load_checkpoint">> \in Seq(Steps)
      <4>1. "start_actor" \in Steps /\ "shutdown" \in Steps /\ "load_checkpoint" \in Steps
        BY DEF Steps
      <4>2. InitializeWorkers = <<"start_actor">>
        <5>1. ~NeedsRolloutWorker /\ NeedsMegatronWorker /\ ~Ppo
          BY <1>3 DEF NeedsRolloutWorker, NeedsMegatronWorker, SetupOK, Ppo
        <5> QED BY <5>1 DEF InitializeWorkers
      <4>3. Leads(Know({"current"}, {}), InitializeTeacher, Know({"current"}, {}))
        BY InitializeTeacherLeads
      <4> QED BY <4>1, <4>2, <4>3, EpochsLeads DEF Leads
    <3>2. RunSftTrain = (<<"load_checkpoint">> \o Epochs) \o <<"shutdown">>
      BY DEF RunSftTrain
    <3> DEFINE before == InitializeWorkers \o InitializeTeacher
    <3>3. before \in Seq(Steps)
      BY <3>1
    <3>4. todo = before \o ((<<"load_checkpoint">> \o Epochs) \o <<"shutdown">>)
      BY <2>1, <3>2
    <3> HIDE DEF before
    <3>5. todo = (before \o <<"load_checkpoint">>) \o (Epochs \o <<"shutdown">>)
      <4>1. PICK load \in Seq(Steps), last \in Seq(Steps), each \in Seq(Steps) :
              load = <<"load_checkpoint">> /\ last = <<"shutdown">> /\ each = Epochs
        BY <3>1
      <4>2. before \o ((load \o each) \o last) = (before \o load) \o (each \o last)
        <5>1. PICK first \in Seq(Steps) : first = before
          BY <3>3
        <5>2. (load \o each) \o last = load \o (each \o last)
          OBVIOUS
        <5>3. PICK rest \in Seq(Steps) : rest = each \o last
          <6>1. each \o last \in Seq(Steps)
            OBVIOUS
          <6> QED BY <6>1, Zenon
        <5>4. first \o (load \o rest) = (first \o load) \o rest
          OBVIOUS
        <5> QED BY <5>1, <5>2, <5>3, <5>4, Zenon
      <4> QED BY <3>4, <4>1, <4>2, Zenon
    <3> QED BY <3>5 DEF before
  <2> QED BY <1>3, <2>3, <2>4
<1>4. CASE setup.mode = "replay_rl_train"
  <2>1. todo = InitializeWorkers \o InitializeTeacher \o RunReplayRlTrain
    BY <1>4 DEF Start
  <2>2. Leads(Boot({}), InitializeWorkers \o InitializeTeacher \o <<"load_checkpoint">>, Alone)
    BY <1>4, AloneLeads DEF NeedsRolloutWorker, NeedsMegatronWorker, SetupOK, Ppo
  <2>3. Leads(Boot({}), (InitializeWorkers \o InitializeTeacher \o <<"load_checkpoint">>)
                          \o (<<"train_actor">> \o <<"shutdown">>), Resting)
    BY <2>2, TrainingLeads, Then
  <2>4. todo = (InitializeWorkers \o InitializeTeacher \o <<"load_checkpoint">>)
                 \o (<<"train_actor">> \o <<"shutdown">>)
    <3>1. /\ InitializeWorkers \in Seq(Steps) /\ InitializeTeacher \in Seq(Steps)
          /\ \A s \in {"load_checkpoint", "train_actor", "shutdown"} : s \in Steps
      <4>1. "start_actor" \in Steps /\ \A s \in {"load_checkpoint", "train_actor", "shutdown"} : s \in Steps
        BY DEF Steps
      <4>2. InitializeWorkers = <<"start_actor">>
        <5>1. ~NeedsRolloutWorker /\ NeedsMegatronWorker /\ ~Ppo
          BY <1>4 DEF NeedsRolloutWorker, NeedsMegatronWorker, SetupOK, Ppo
        <5> QED BY <5>1 DEF InitializeWorkers
      <4>3. Leads(Know({"current"}, {}), InitializeTeacher, Know({"current"}, {}))
        BY InitializeTeacherLeads
      <4> QED BY <4>1, <4>2, <4>3 DEF Leads
    <3>2. RunReplayRlTrain = (<<"load_checkpoint">> \o <<"train_actor">>) \o <<"shutdown">>
      BY DEF RunReplayRlTrain
    <3>3. \A s \in {"load_checkpoint", "train_actor", "shutdown"} : <<s>> \in Seq(Steps)
      BY <3>1
    <3> QED BY <2>1, <3>1, <3>2, <3>3
  <2> QED BY <1>4, <2>3, <2>4
<1>5. CASE setup.mode = "eval_only"
  <2>1. todo = InitializeWorkers \o InitializeTeacher \o <<"enqueue">>
    <3>1. [online_rl_train |-> RunOnlineRlTrain, replay_rl_train |-> RunReplayRlTrain,
           sft_train |-> RunSftTrain, eval_only |-> <<"enqueue">>][setup.mode] = <<"enqueue">>
      BY <1>5
    <3> QED BY <1>5, <3>1, Zenon DEF Start
  <2>2. Leads(Boot({}), InitializeWorkers \o InitializeTeacher \o <<"enqueue">>, Rest({}))
    BY <1>5, EvalOnlyLeads DEF NeedsRolloutWorker, NeedsMegatronWorker, SetupOK, Ppo
  <2> QED BY <1>5, <2>1, <2>2
<1> QED BY <1>1, <1>2, <1>3, <1>4, <1>5

---------------------------------------------------------------------------
(* The invariant of the run: the facts match the variables, and the steps   *)
(* that are left lead to where rollouts are served.                         *)

TrainTypes ==
    /\ todo \in Seq(Steps)
    /\ enqueued \in BOOLEAN /\ actor \in BOOLEAN /\ value \in BOOLEAN
    /\ global_step \in Nat /\ value_step \in Nat
    /\ params \in Int /\ copied \in Int

\* A call of a client in an inbox is queued there, and is there once.
Queued ==
    \A e \in Engines :
        /\ \A i, j \in Pos(inbox[e]) : inbox[e][i] = inbox[e][j] => i = j
        /\ \A i \in Pos(inbox[e]) : inbox[e][i] \in Clients =>
              call[inbox[e][i]].st = "queued" /\ call[inbox[e][i]].eng = e

\* The tokens of a call are of the steps so far, in their order.
Ordered(out) ==
    /\ \A i \in Pos(out) : out[i] \in 0..global_step
    /\ \A i, j \in Pos(out) : i < j => out[i] <= out[j]

\* Those of a call that starts again after an abort are of one step, the current one while
\* the engine works on it.
OneStepOnly(r) ==
    /\ \A i, j \in Pos(r.out) : r.out[i] = r.out[j]
    /\ r.st = "working" => \A i \in Pos(r.out) : r.out[i] = global_step
    /\ r.st \in {"queued", "parked"} => r.out = <<>>

Tokens ==
    \A c \in Clients :
        /\ Ordered(call[c].out)
        /\ ClearAfterAbort => OneStepOnly(call[c])
        /\ ~enqueued => call[c].st = "idle" /\ call[c].out = <<>>

\* Engine e is as the facts of b say.
At(e, b) ==
    /\ ready[e] = ("ready" \in b)
    /\ onGpu[e] = b \cap Tags
    /\ "fresh" \in b => weights[e] = global_step

\* The driver's call still waits in the inbox.
Waits(e) == \E i \in DOMAIN inbox[e] : inbox[e][i] = Driver

\* Once every engine has answered, the facts are those of st: e has answered, or its pause
\* drains requests that it may still work on, or its call from b to st waits.
Comes(e, st, b) ==
    /\ Waits(e)
    /\ control[e].op \in EngineOps \cup {"update"}
    /\ control[e].op = "update" => control[e].version = global_step
    /\ Fine(b) /\ "raises" \notin b /\ Needs(b, control[e].op)
    /\ st = After(b, control[e].op)
    /\ At(e, b)
Answers(e, st) ==
    \/ control[e] = NoCall /\ At(e, st)
    \/ Pausing(e) /\ At(e, st) /\ ("enqueued" \in st => Tags \cup {"fresh"} \subseteq st)
    \/ \E b \in State : Comes(e, st, b)

\* The other variables are as the facts of st say.
Matches(st) ==
    /\ enqueued = ("enqueued" \in st) /\ actor = ("actor" \in st) /\ value = ("value" \in st)
    /\ ("shared" \in st) = (Placement.rollout = Placement.megatron)
    /\ "current" \in st => params = global_step
    /\ "initial" \in st => params = 0
    /\ "copy" \in st => copied = global_step
    /\ raised => "raises" \in st
    /\ "raises" \in st => raised \/ \A e \in Engines : control[e].op = "update" /\ ready[e]

\* Where the controller comes to wait for rollouts, they are served.
AtRest(fin) ==
    \/ fin \in Resting
    \/ setup.mode = "eval_only" /\ fin \in Rest({})

On(st, fin) ==
    /\ Fine(st) /\ Matches(st)
    /\ \A e \in Engines : Answers(e, st)
    /\ Runs(st, todo, fin)
    /\ IF setup.mode = "ended" THEN todo = <<>> ELSE AtRest(fin)
Phase == \E st, fin \in State : On(st, fin)

\* The inductive invariant of the run.
TrainInv == WorkerInv /\ TrainTypes /\ SetupOK /\ Queued /\ Tokens /\ Phase

---------------------------------------------------------------------------
(* What the invariant says of a state. *)

\* A call to the engines changes no fact about anything else.
LEMMA AfterCall ==
    ASSUME NEW b, NEW s \in EngineOps \cup {"update"}, NEW st, st = After(b, s)
    PROVE  /\ \A x \in {"shared", "actor", "value", "enqueued", "current", "initial", "copy"} :
                 x \in st <=> x \in b
           /\ "raises" \in st <=> "raises" \in b \/ (s = "update" /\ "ready" \in b)
<1>1. CASE s = "pause"
  <2>1. st = b \ {"ready"}
    BY <1>1, AfterIs
  <2> QED BY <1>1, <2>1
<1>2. CASE s = "release"
  <2>1. st = b \ {"weights", "kv_cache", "fresh"}
    BY <1>2, AfterIs
  <2> QED BY <1>2, <2>1
<1>3. CASE s = "resume_weights"
  <2>1. st = b \cup {"weights"}
    BY <1>3, AfterIs
  <2> QED BY <1>3, <2>1
<1>4. CASE s = "resume_kv_cache"
  <2>1. st = b \cup {"kv_cache"}
    BY <1>4, AfterIs
  <2> QED BY <1>4, <2>1
<1>5. CASE s = "resume"
  <2>1. st = b \cup {"ready"}
    BY <1>5, AfterIs
  <2> QED BY <1>5, <2>1
<1>6. CASE s = "update"
  <2>1. st = b \cup (IF "ready" \in b THEN {"raises"} ELSE {"fresh"})
    BY <1>6, AfterIs
  <2> QED BY <1>6, <2>1
<1> QED BY <1>1, <1>2, <1>3, <1>4, <1>5, <1>6 DEF EngineOps

\* A request the engine works on is one of a rollout, and the engine has not paused.
LEMMA ServesCurrent ==
    ASSUME TrainInv
    PROVE  ServesCurrentPolicy
<1> SUFFICES ASSUME NEW e \in Engines, Working(e) # {}
             PROVE  onGpu[e] = Tags /\ weights[e] = global_step
  BY DEF ServesCurrentPolicy
<1>1. enqueued
  BY DEF TrainInv, Tokens, Working, OnEngine
<1>2. ready[e] \/ Pausing(e)
  BY DEF TrainInv, WorkerInv, QuietWhenPaused
<1>3. PICK st \in State, fin \in State : On(st, fin)
  BY DEF TrainInv, Phase
<1>4. "enqueued" \in st /\ Fine(st) /\ Answers(e, st)
  BY <1>1, <1>3 DEF On, Matches
<1>5. ASSUME NEW b, Fine(b), "enqueued" \in b, "ready" \in b, At(e, b)
      PROVE  onGpu[e] = Tags /\ weights[e] = global_step
  BY <1>5 DEF Fine, At
<1>6. ~(Pausing(e) /\ Waits(e))
  BY DEF Pausing, Waits
<1>7. CASE control[e] = NoCall /\ At(e, st)
  <2>1. ~Pausing(e)
    BY <1>7 DEF Pausing, NoCall, Op
  <2>2. "ready" \in st
    BY <1>2, <1>7, <2>1 DEF At
  <2> QED BY <1>4, <1>5, <1>7, <2>2
<1>8. CASE Pausing(e) /\ At(e, st) /\ ("enqueued" \in st => Tags \cup {"fresh"} \subseteq st)
  BY <1>4, <1>8 DEF At
<1>9. CASE \E b \in State : Comes(e, st, b)
  <2>1. PICK b \in State : Comes(e, st, b)
    BY <1>9
  <2>2. Fine(b) /\ At(e, b) /\ Waits(e) /\ st = After(b, control[e].op)
        /\ control[e].op \in EngineOps \cup {"update"}
    BY <2>1 DEF Comes
  <2>3. "ready" \in b
    BY <1>2, <1>6, <2>2 DEF At
  <2>4. "enqueued" \in b
    BY <1>4, <2>2, AfterCall
  <2> QED BY <1>5, <2>2, <2>3, <2>4
<1> QED BY <1>4, <1>7, <1>8, <1>9 DEF Answers

\* Tokens come in the order of the policies.
LEMMA SegmentsOrdered ==
    ASSUME TrainInv
    PROVE  PolicySegments
<1> SUFFICES ASSUME NEW c \in Clients, NEW i \in DOMAIN call[c].out, NEW j \in DOMAIN call[c].out
             PROVE  /\ call[c].out[i] # Lost
                    /\ i < j => call[c].out[i] <= call[c].out[j]
                    /\ ClearAfterAbort => call[c].out[i] = call[c].out[j]
  BY DEF PolicySegments
<1>1. call[c].out \in Seq(Int)
  BY DEF TrainInv, WorkerInv, WorkerTypes, AnyCall
<1>2. i \in Pos(call[c].out) /\ j \in Pos(call[c].out)
  BY <1>1 DEF Pos
<1> QED BY <1>2 DEF TrainInv, Tokens, Ordered, OneStepOnly, Lost, TrainTypes

\* The next step meets the facts it needs.
LEMMA SharedAsPlanned ==
    ASSUME TrainInv
    PROVE  GpuShared
<1>1. PICK st \in State, fin \in State : On(st, fin)
  BY DEF TrainInv, Phase
<1>2. /\ Fine(st) /\ Matches(st) /\ Runs(st, todo, fin)
      /\ \A e \in Engines : Answers(e, st)
  BY <1>1 DEF On
<1>3. ~(actor /\ value)
  BY <1>2 DEF Matches, Fine
<1>4. ASSUME Placement.rollout = Placement.megatron, NEW e \in Engines
      PROVE  (actor => "kv_cache" \notin onGpu[e]) /\ (value => onGpu[e] = {})
  <2>1. PICK b \in State : Fine(b) /\ At(e, b)
                           /\ \A x \in {"shared", "actor", "value"} : x \in b <=> x \in st
    <3>1. CASE At(e, st)
      BY <1>2, <3>1
    <3>2. CASE \E b \in State : Comes(e, st, b)
      <4>1. PICK b \in State : Comes(e, st, b)
        BY <3>2
      <4>2. /\ Fine(b) /\ At(e, b) /\ st = After(b, control[e].op)
            /\ control[e].op \in EngineOps \cup {"update"}
        BY <4>1 DEF Comes
      <4>3. \A x \in {"shared", "actor", "value"} : x \in b <=> x \in st
        BY <4>2, AfterCall
      <4> QED BY <4>2, <4>3
    <3> QED BY <1>2, <3>1, <3>2 DEF Answers
  <2> QED BY <1>2, <1>4, <2>1 DEF Matches, Fine, At, Tags
<1>5. ASSUME todo # <<>>, Head(todo) \in Critical PROVE Needs(st, Head(todo))
  <2>1. PICK d \in State : Steps1(st, Head(todo), d)
    BY <1>2, <1>5, FirstStep DEF TrainInv, TrainTypes
  <2> QED BY <1>5, <2>1 DEF Steps1, Critical
<1>6. /\ todo # <<>> /\ Head(todo) \in {"train_actor", "update", "compute_old", "eval"} =>
            actor /\ params = global_step
      /\ todo # <<>> /\ Head(todo) = "compute_ref" => actor /\ params = 0
      /\ todo # <<>> /\ Head(todo) \in {"train_value", "compute_values"} => value
  BY <1>2, <1>5 DEF Critical, Needs, Matches
<1> QED BY <1>3, <1>4, <1>6 DEF GpuShared

---------------------------------------------------------------------------
(* The invariant holds initially and every step keeps it. *)

\* The steps of the controller that leave the engines alone.
OwnStep ==
    \/ StartMegatronWorker \/ MoveWorker \/ SwapWeights \/ LoadCheckpoint \/ Compute
    \/ TrainValue \/ TrainActor \/ EnqueueRollouts
Goes == BeginBatch \/ EndSchedule \/ BeginMismatchLogprobs \/ EndRun
EngineStep == StartEngines \/ UpdateRolloutModelWeights \/ \E s \in EngineOps : CallRolloutWorker(s)

\* Every step is one of these.
LEMMA NextCases ==
    ASSUME [Next]_vars
    PROVE  \/ OwnStep \/ EngineStep \/ Shutdown \/ Fails \/ Goes
           \/ \E c \in Clients, e \in Engines : RolloutGenerates(c, e)
           \/ \E c \in Clients : GenerateStep(c) /\ UNCHANGED trainVars
           \/ \E e \in Engines : ControlStep(e) /\ UNCHANGED trainVars
           \/ UNCHANGED vars
  BY DEF Next, Controller, OwnStep, Goes, EngineStep, WorkerStep

\* What the first of them leave alone.
LEMMA OwnStepFrame ==
    ASSUME OwnStep
    PROVE  UNCHANGED workerVars /\ todo' = Tail(todo) /\ todo # <<>> /\ UNCHANGED setup /\ Returned
  BY DEF OwnStep, StartMegatronWorker, MoveWorker, SwapWeights, LoadCheckpoint, Compute, TrainValue,
         TrainActor, EnqueueRollouts, Step

\* The controller has waited and goes on with a plan.
LEMMA GoesFrame ==
    ASSUME Goes
    PROVE  UNCHANGED <<workerVars, setup, enqueued, actor, value, modelVars>> /\ Waiting
  BY DEF Goes, BeginBatch, EndSchedule, BeginMismatchLogprobs, EndRun, Continue

\* What the engines answer keeps their invariant.
LEMMA ControlStepInv ==
    ASSUME WorkerInv, NEW e \in Engines, ControlStep(e)
    PROVE  WorkerInv'
  BY MemoryCallInv, PauseInv, PausedInv, ResumeInv DEF ControlStep

\* So does the controller.
LEMMA EngineStepInv ==
    ASSUME TrainInv, EngineStep
    PROVE  WorkerInv'
<1>1. WorkerInv
  BY DEF TrainInv
<1>2. CASE StartEngines
  <2>1. /\ UNCHANGED <<ready, inbox, call, control, raised>>
        /\ onGpu' = [e \in Engines |-> Tags] /\ weights' = [e \in Engines |-> 0]
    BY <1>2 DEF StartEngines
  <2>2. WorkerTypes'
    BY <1>1, <2>1 DEF WorkerInv, WorkerTypes
  <2>3. OneDriverCall' /\ QuietWhenPaused' /\ OutputBounded'
    BY <1>1, <2>1 DEF WorkerInv, OneDriverCall, QuietWhenPaused, OutputBounded, Working, OnEngine, Pausing
  <2> QED BY <2>2, <2>3 DEF WorkerInv
<1>3. ASSUME NEW s \in EngineOps, CallRolloutWorker(s) PROVE WorkerInv'
  <2>1. Op(s) \in AnyControl /\ Op(s) # NoCall
    BY DEF Op, AnyControl, OpNames, EngineOps, NoCall
  <2>2. /\ [e \in Engines |-> Op(s)] \in [Engines -> AnyControl]
        /\ \A e \in Engines : [f \in Engines |-> Op(s)][e] # NoCall
    BY <2>1
  <2> QED BY <1>1, <1>3, <2>2, CallEnginesInv DEF CallRolloutWorker
<1>4. CASE UpdateRolloutModelWeights
  <2>1. Update(params) \in AnyControl /\ Update(params) # NoCall
    BY DEF Update, AnyControl, OpNames, NoCall, Op, TrainInv, TrainTypes
  <2>2. /\ [e \in Engines |-> Update(params)] \in [Engines -> AnyControl]
        /\ \A e \in Engines : [f \in Engines |-> Update(params)][e] # NoCall
    BY <2>1
  <2> QED BY <1>1, <1>4, <2>2, CallEnginesInv DEF UpdateRolloutModelWeights
<1> QED BY <1>2, <1>3, <1>4 DEF EngineStep

\* The shutdown empties the inboxes and ends the calls.
LEMMA ShutdownInv ==
    ASSUME WorkerInv, Shutdown
    PROVE  WorkerInv'
<1>1. /\ UNCHANGED <<ready, control, raised>>
      /\ onGpu' = [e \in Engines |-> {}] /\ weights' = [e \in Engines |-> Lost]
      /\ inbox' = [e \in Engines |-> <<>>]
      /\ call' = [c \in Clients |-> GenCall("idle", call[c].eng, <<>>, 0)]
  BY DEF Shutdown, ShutdownRolloutActors, ShutdownPipelineWorkers
<1>2. ASSUME NEW c \in Clients
      PROVE  /\ GenCall("idle", call[c].eng, <<>>, 0) \in AnyCall
             /\ Len(call'[c].out) + call'[c].left <= MaxTotal
             /\ call'[c].st = "idle"
  <2>1. call[c].eng \in Engines
    BY DEF WorkerInv, WorkerTypes, AnyCall
  <2>2. call'[c] = GenCall("idle", call[c].eng, <<>>, 0)
    BY <1>1
  <2> QED BY <2>1, <2>2, WorkerAssumption DEF GenCall, AnyCall
<1>3. WorkerTypes'
  <2>1. call' \in [Clients -> AnyCall]
    BY <1>1, <1>2
  <2>2. /\ onGpu' \in [Engines -> SUBSET Tags] /\ weights' \in [Engines -> Int]
        /\ inbox' \in [Engines -> Seq(Clients \cup {Driver})]
    BY <1>1 DEF Lost
  <2> QED BY <1>1, <2>1, <2>2 DEF WorkerInv, WorkerTypes
<1>4. OneDriverCall'
  BY <1>1 DEF OneDriverCall, Pos
<1>5. QuietWhenPaused' /\ OutputBounded'
  BY <1>2 DEF QuietWhenPaused, OutputBounded, Working, OnEngine
<1> QED BY <1>3, <1>4, <1>5 DEF WorkerInv

\* Every step keeps the invariant of the engines.
LEMMA NextWorkerInv ==
    ASSUME TrainInv, [Next]_vars
    PROVE  WorkerInv'
<1>1. WorkerInv
  BY DEF TrainInv
<1>2. CASE UNCHANGED workerVars
  BY <1>1, <1>2 DEF workerVars, WorkerInv, WorkerTypes, OneDriverCall, QuietWhenPaused, Working,
              OnEngine, Pausing, OutputBounded
<1>3. CASE OwnStep \/ Fails \/ Goes \/ UNCHANGED vars
  BY <1>2, <1>3, OwnStepFrame, GoesFrame DEF Fails, vars
<1>4. ASSUME NEW c \in Clients, NEW e \in Engines, RolloutGenerates(c, e) PROVE WorkerInv'
  BY <1>1, <1>4, GenerateInv DEF RolloutGenerates
<1> QED BY <1>1, <1>3, <1>4, NextCases, EngineStepInv, ShutdownInv, GenerateStepInv, ControlStepInv

\* Types, but for a new plan.
LEMMA NextTypes ==
    ASSUME TrainInv, [Next]_vars
    PROVE  SetupOK' /\ (Goes \/ TrainTypes')
<1>1. TrainTypes /\ SetupOK
  BY DEF TrainInv
<1>2. CASE UNCHANGED trainVars
  BY <1>1, <1>2 DEF TrainTypes, SetupOK, trainVars, modelVars
<1>3. ASSUME todo # <<>> PROVE Tail(todo) \in Seq(Steps)
  BY <1>1, <1>3 DEF TrainTypes
<1>4. CASE OwnStep
  <2>1. todo' \in Seq(Steps) /\ setup' = setup
    BY <1>3, <1>4, OwnStepFrame
  <2>2. enqueued' \in BOOLEAN /\ actor' \in BOOLEAN /\ value' \in BOOLEAN
    BY <1>1, <1>4 DEF OwnStep, StartMegatronWorker, MoveWorker, SwapWeights, LoadCheckpoint, Compute,
                      TrainValue, TrainActor, EnqueueRollouts, TrainTypes
  <2>3. global_step' \in Nat /\ value_step' \in Nat /\ params' \in Int /\ copied' \in Int
    <3>1. CASE LoadCheckpoint
      BY <1>1, <3>1, TrainAssumption DEF LoadCheckpoint, TrainTypes
    <3>2. CASE TrainValue \/ TrainActor
      BY <1>1, <3>2, TrainAssumption DEF TrainValue, TrainActor, TrainTypes
    <3>3. CASE SwapWeights
      BY <1>1, <3>3 DEF SwapWeights, TrainTypes, Teacher
    <3>4. CASE StartMegatronWorker \/ MoveWorker \/ Compute \/ EnqueueRollouts
      BY <1>1, <3>4 DEF StartMegatronWorker, MoveWorker, Compute, EnqueueRollouts, TrainTypes, modelVars
    <3> QED BY <1>4, <3>1, <3>2, <3>3, <3>4 DEF OwnStep
  <2> QED BY <1>1, <2>1, <2>2, <2>3 DEF TrainTypes, SetupOK
<1>5. CASE EngineStep
  <2>1. /\ todo' = Tail(todo) /\ todo # <<>>
        /\ UNCHANGED <<setup, enqueued, actor, value, modelVars>>
    BY <1>5 DEF EngineStep, StartEngines, UpdateRolloutModelWeights, CallRolloutWorker, Step
  <2> QED BY <1>1, <1>3, <2>1 DEF TrainTypes, SetupOK, modelVars
<1>6. CASE Shutdown
  <2>1. /\ todo' = <<>> /\ enqueued' = FALSE /\ actor' = FALSE /\ value' = FALSE
        /\ UNCHANGED modelVars /\ setup' = [setup EXCEPT !.mode = "ended"]
    BY <1>6 DEF Shutdown, ShutdownRolloutActors, ShutdownPipelineWorkers
  <2>2. <<>> \in Seq(Steps)
    OBVIOUS
  <2>3. SetupOK'
    BY <1>1, <2>1 DEF SetupOK
  <2> QED BY <1>1, <2>1, <2>2, <2>3 DEF TrainTypes, modelVars
<1>7. CASE Fails
  <2>1. todo' = <<"shutdown">> /\ UNCHANGED <<setup, enqueued, actor, value, modelVars>>
    BY <1>7 DEF Fails
  <2>2. <<"shutdown">> \in Seq(Steps)
    BY DEF Steps
  <2> QED BY <1>1, <2>1, <2>2 DEF TrainTypes, SetupOK, modelVars
<1>8. CASE Goes
  BY <1>1, <1>8, GoesFrame DEF SetupOK
<1> QED BY <1>2, <1>4, <1>5, <1>6, <1>7, <1>8, NextCases DEF RolloutGenerates, vars

\* What a step of generate does to the inboxes: a call that starts leaves its own.
LEMMA QueuedGenerateStep ==
    ASSUME TrainInv, NEW c \in Clients, GenerateStep(c)
    PROVE  Queued'
<1>1. /\ inbox \in [Engines -> Seq(Clients \cup {Driver})] /\ call \in [Clients -> AnyCall]
      /\ call[c].eng \in Engines
  BY DEF TrainInv, WorkerInv, WorkerTypes, AnyCall
<1>2. call' = [call EXCEPT ![c] = call'[c]]
  BY GenerateStepCall DEF TrainInv
<1>3. ASSUME NEW e \in Engines, NEW i \in Pos(inbox[e]), inbox[e][i] \in Clients
      PROVE  call[inbox[e][i]].st = "queued" /\ call[inbox[e][i]].eng = e
  BY <1>3 DEF TrainInv, Queued
<1>4. CASE StartGenerate(c)
  <2> DEFINE s == inbox[call[c].eng]
  <2>1. s \in Seq(Clients \cup {Driver}) /\ s # <<>> /\ Head(s) = c
    BY <1>1, <1>4 DEF StartGenerate, Admits
  <2>2. /\ 1 \in Pos(s) /\ s[1] = c
        /\ \A i \in Pos(Tail(s)) : Tail(s)[i] = s[i + 1] /\ i + 1 \in Pos(s)
    BY <2>1, InboxTail
  <2>3. inbox' = [inbox EXCEPT ![call[c].eng] = Tail(s)]
    BY <1>4 DEF StartGenerate
  <2>4. \A i \in Pos(Tail(s)) : i \in Nat \ {0} /\ i + 1 # 1
    BY DEF Pos
  <2>5. \A i, j \in Pos(s) : s[i] = s[j] => i = j
    BY <1>1 DEF TrainInv, Queued
  <2> HIDE DEF s
  <2>6. \A i, j \in Pos(Tail(s)) : Tail(s)[i] = Tail(s)[j] => i = j
    <3> SUFFICES ASSUME NEW i \in Pos(Tail(s)), NEW j \in Pos(Tail(s)), Tail(s)[i] = Tail(s)[j]
                 PROVE  i = j
      OBVIOUS
    <3>1. i + 1 = j + 1
      BY <2>2, <2>5
    <3> QED BY <2>4, <3>1
  <2>7. \A i \in Pos(Tail(s)) : Tail(s)[i] # c
    BY <2>2, <2>4, <2>5
  <2> SUFFICES ASSUME NEW e \in Engines
               PROVE  /\ \A i, j \in Pos(inbox'[e]) : inbox'[e][i] = inbox'[e][j] => i = j
                      /\ \A i \in Pos(inbox'[e]) : inbox'[e][i] \in Clients =>
                            call'[inbox'[e][i]].st = "queued" /\ call'[inbox'[e][i]].eng = e
    BY DEF Queued, Pos
  <2>8. CASE e = call[c].eng
    <3>1. inbox'[e] = Tail(s) /\ s = inbox[e]
      BY <1>1, <2>3, <2>8 DEF s
    <3>2. ASSUME NEW i \in Pos(Tail(s)), Tail(s)[i] \in Clients
          PROVE  call'[Tail(s)[i]].st = "queued" /\ call'[Tail(s)[i]].eng = e
      <4>1. Tail(s)[i] = inbox[e][i + 1] /\ i + 1 \in Pos(inbox[e])
        BY <2>2, <3>1
      <4>2. call[Tail(s)[i]].st = "queued" /\ call[Tail(s)[i]].eng = e
        <5>1. inbox[e][i + 1] \in Clients
          BY <3>2, <4>1
        <5>2. call[inbox[e][i + 1]].st = "queued" /\ call[inbox[e][i + 1]].eng = e
          BY <1>3, <4>1, <5>1
        <5> QED BY <4>1, <5>2
      <4>3. call'[Tail(s)[i]] = call[Tail(s)[i]]
        BY <1>1, <1>2, <2>7, <3>2
      <4> QED BY <4>2, <4>3
    <3> QED BY <2>6, <3>1, <3>2
  <2>9. CASE e # call[c].eng
    <3>1. inbox'[e] = inbox[e]
      BY <1>1, <2>3, <2>9
    <3>2. \A i, j \in Pos(inbox[e]) : inbox[e][i] = inbox[e][j] => i = j
      BY DEF TrainInv, Queued
    <3>3. ASSUME NEW i \in Pos(inbox[e]), inbox[e][i] \in Clients
          PROVE  call'[inbox[e][i]].st = "queued" /\ call'[inbox[e][i]].eng = e
      <4>1. call[inbox[e][i]].st = "queued" /\ call[inbox[e][i]].eng = e
        BY <1>3, <3>3
      <4> QED BY <1>1, <1>2, <2>9, <3>3, <4>1
    <3> QED BY <3>1, <3>2, <3>3
  <2> QED BY <2>8, <2>9
<1>5. CASE Decode(c) \/ Finish(c) \/ Abort(c)
  <2>1. inbox' = inbox /\ call[c].st = "working"
    BY <1>5 DEF Decode, Finish, Abort
  <2>2. ASSUME NEW e \in Engines, NEW i \in Pos(inbox[e]), inbox[e][i] \in Clients
        PROVE  call'[inbox[e][i]] = call[inbox[e][i]]
    <3>1. inbox[e][i] # c
      BY <1>3, <2>1, <2>2
    <3> QED BY <1>1, <1>2, <2>2, <3>1
  <2> QED BY <1>3, <2>1, <2>2 DEF Queued, TrainInv
<1> QED BY <1>4, <1>5 DEF GenerateStep

\* A new call was not in an inbox.
LEMMA QueuedGenerate ==
    ASSUME TrainInv, NEW c \in Clients, NEW e \in Engines, Generate(c, e)
    PROVE  Queued'
<1>1. /\ inbox \in [Engines -> Seq(Clients \cup {Driver})] /\ call \in [Clients -> AnyCall]
      /\ inbox' = [inbox EXCEPT ![e] = Append(inbox[e], c)]
      /\ call' = [call EXCEPT ![c] = GenCall("queued", e, <<>>, 0)]
      /\ call[c].st = "idle"
  BY DEF TrainInv, WorkerInv, WorkerTypes, Generate
<1>2. ASSUME NEW f \in Engines, NEW i \in Pos(inbox[f])
      PROVE  /\ inbox[f][i] # c
             /\ inbox[f][i] \in Clients => call'[inbox[f][i]].st = "queued" /\ call'[inbox[f][i]].eng = f
  <2>1. inbox[f][i] \in Clients => call[inbox[f][i]].st = "queued" /\ call[inbox[f][i]].eng = f
    BY DEF TrainInv, Queued
  <2> QED BY <1>1, <2>1
<1>3. /\ Len(inbox[e]) \in Nat
      /\ Append(inbox[e], c)[Len(inbox[e]) + 1] = c
      /\ \A i \in Pos(inbox[e]) : Append(inbox[e], c)[i] = inbox[e][i]
      /\ Pos(Append(inbox[e], c)) = Pos(inbox[e]) \cup {Len(inbox[e]) + 1}
  <2>1. inbox[e] \in Seq(Clients \cup {Driver}) /\ c \in Clients \cup {Driver}
    BY <1>1
  <2>2. Len(inbox[e]) \in Nat
    BY <2>1
  <2> QED BY <2>1, <2>2, InboxAppend
<1>4. call'[c].st = "queued" /\ call'[c].eng = e
  BY <1>1 DEF GenCall
<1> SUFFICES ASSUME NEW f \in Engines
             PROVE  /\ \A i, j \in Pos(inbox'[f]) : inbox'[f][i] = inbox'[f][j] => i = j
                    /\ \A i \in Pos(inbox'[f]) : inbox'[f][i] \in Clients =>
                          call'[inbox'[f][i]].st = "queued" /\ call'[inbox'[f][i]].eng = f
  BY DEF Queued, Pos
<1>5. \A i, j \in Pos(inbox[f]) : inbox[f][i] = inbox[f][j] => i = j
  BY DEF TrainInv, Queued
<1>6. CASE f = e
  <2>1. inbox'[f] = Append(inbox[e], c)
    BY <1>1, <1>6
  <2> DEFINE s == Append(inbox[e], c)
  <2>2. ASSUME NEW i \in Pos(s), NEW j \in Pos(s), s[i] = s[j] PROVE i = j
    <3>1. ASSUME NEW k \in Pos(inbox[e]) PROVE s[k] = inbox[e][k] /\ s[k] # c
      <4>1. s[k] = inbox[e][k]
        BY <1>3
      <4> QED BY <1>2, <4>1
    <3>2. s[Len(inbox[e]) + 1] = c /\ Pos(s) = Pos(inbox[e]) \cup {Len(inbox[e]) + 1}
      BY <1>3
    <3> HIDE DEF s
    <3>3. CASE i \in Pos(inbox[e]) /\ j \in Pos(inbox[e])
      BY <1>5, <1>6, <2>2, <3>1, <3>3
    <3>4. CASE i = Len(inbox[e]) + 1 \/ j = Len(inbox[e]) + 1
      BY <2>2, <3>1, <3>2, <3>4
    <3> QED BY <3>2, <3>3, <3>4
  <2>3. ASSUME NEW i \in Pos(s), s[i] \in Clients
        PROVE  call'[s[i]].st = "queued" /\ call'[s[i]].eng = e
    <3>1. CASE i \in Pos(inbox[e])
      <4>1. s[i] = inbox[e][i]
        BY <1>3, <3>1
      <4> QED BY <1>2, <2>3, <3>1, <4>1
    <3>2. CASE i = Len(inbox[e]) + 1
      <4>1. s[i] = c
        BY <1>3, <3>2
      <4> HIDE DEF s
      <4> QED BY <1>4, <4>1
    <3>3. Pos(s) = Pos(inbox[e]) \cup {Len(inbox[e]) + 1}
      BY <1>3
    <3> HIDE DEF s
    <3> QED BY <3>1, <3>2, <3>3
  <2> HIDE DEF s
  <2>4. inbox'[f] = s
    BY <2>1 DEF s
  <2> QED BY <1>6, <2>2, <2>3, <2>4
<1>7. CASE f # e
  <2>1. inbox'[f] = inbox[f]
    BY <1>1, <1>7
  <2> QED BY <1>2, <1>5, <2>1
<1> QED BY <1>6, <1>7

\* A control call leaves, and the calls it moves on were parked.
LEMMA QueuedControl ==
    ASSUME TrainInv, NEW e \in Engines, ControlStep(e)
    PROVE  Queued'
<1>1. /\ inbox \in [Engines -> Seq(Clients \cup {Driver})] /\ call \in [Clients -> AnyCall]
      /\ WorkerInv
  BY DEF TrainInv, WorkerInv, WorkerTypes
<1>2. ASSUME NEW c \in Clients, call[c].st = "queued" PROVE call'[c] = call[c]
  <2>1. CASE ResumeGeneration(e)
    BY <1>2, <2>1 DEF ResumeGeneration, OnEngine
  <2>2. CASE ~ResumeGeneration(e)
    BY <2>2 DEF ControlStep, PauseGenerationAgain, PauseGeneration, Paused, ReleaseGpuMemory,
                ResumeWeights, ResumeKvCache, UpdateWeights
  <2> QED BY <2>1, <2>2
<1>3. CASE inbox' = inbox
  <2>1. ASSUME NEW f \in Engines, NEW i \in Pos(inbox[f]), inbox[f][i] \in Clients
        PROVE  call'[inbox[f][i]].st = "queued" /\ call'[inbox[f][i]].eng = f
    <3>1. call[inbox[f][i]].st = "queued" /\ call[inbox[f][i]].eng = f
      BY <2>1 DEF TrainInv, Queued
    <3> QED BY <1>2, <2>1, <3>1
  <2> QED BY <1>3, <2>1 DEF TrainInv, Queued
<1>4. CASE Admits(e, Driver) /\ inbox' = [inbox EXCEPT ![e] = Tail(@)]
  <2> DEFINE s == inbox[e]
  <2>1. s \in Seq(Clients \cup {Driver}) /\ s # <<>>
    BY <1>1, <1>4 DEF Admits
  <2>2. \A i \in Pos(Tail(s)) : Tail(s)[i] = s[i + 1] /\ i + 1 \in Pos(s)
    BY <2>1, InboxTail
  <2> SUFFICES ASSUME NEW f \in Engines
               PROVE  /\ \A i, j \in Pos(inbox'[f]) : inbox'[f][i] = inbox'[f][j] => i = j
                      /\ \A i \in Pos(inbox'[f]) : inbox'[f][i] \in Clients =>
                            call'[inbox'[f][i]].st = "queued" /\ call'[inbox'[f][i]].eng = f
    BY DEF Queued, Pos
  <2>3. \A i, j \in Pos(inbox[f]) : inbox[f][i] = inbox[f][j] => i = j
    BY DEF TrainInv, Queued
  <2>4. ASSUME NEW i \in Pos(inbox[f]), inbox[f][i] \in Clients
        PROVE  call'[inbox[f][i]].st = "queued" /\ call'[inbox[f][i]].eng = f
    <3>1. call[inbox[f][i]].st = "queued" /\ call[inbox[f][i]].eng = f
      BY <2>4 DEF TrainInv, Queued
    <3> QED BY <1>2, <2>4, <3>1
  <2>5. CASE f # e
    <3>1. inbox'[f] = inbox[f]
      BY <1>1, <1>4, <2>5
    <3> QED BY <2>3, <2>4, <3>1
  <2>6. CASE f = e
    <3>1. inbox'[f] = Tail(s) /\ inbox[f] = s
      BY <1>1, <1>4, <2>6
    <3> HIDE DEF s
    <3>2. \A i, j \in Pos(Tail(s)) : i \in Nat /\ (i + 1 = j + 1 => i = j)
      BY DEF Pos
    <3>3. ASSUME NEW i \in Pos(Tail(s)), NEW j \in Pos(Tail(s)), Tail(s)[i] = Tail(s)[j]
          PROVE  i = j
      <4>1. i + 1 = j + 1
        BY <2>2, <2>3, <3>1, <3>3
      <4> QED BY <3>2, <4>1
    <3>4. ASSUME NEW i \in Pos(Tail(s)), Tail(s)[i] \in Clients
          PROVE  call'[Tail(s)[i]].st = "queued" /\ call'[Tail(s)[i]].eng = f
      BY <2>2, <2>4, <3>1, <3>4
    <3> QED BY <3>1, <3>3, <3>4
  <2> QED BY <2>5, <2>6
<1> QED BY <1>3, <1>4 DEF ControlStep, PauseGenerationAgain, PauseGeneration, Paused, ReleaseGpuMemory,
              ResumeGeneration, ResumeWeights, ResumeKvCache, UpdateWeights, Control

\* The driver's call goes behind those of the clients.
LEMMA QueuedCall ==
    ASSUME TrainInv, NEW o, CallEngines(o)
    PROVE  Queued'
<1>1. /\ inbox \in [Engines -> Seq(Clients \cup {Driver})] /\ call' = call
      /\ inbox' = [e \in Engines |-> Append(inbox[e], Driver)]
      /\ \A e \in Engines : control[e] = NoCall
  BY DEF TrainInv, WorkerInv, WorkerTypes, CallEngines
<1> SUFFICES ASSUME NEW f \in Engines
             PROVE  /\ \A i, j \in Pos(inbox'[f]) : inbox'[f][i] = inbox'[f][j] => i = j
                    /\ \A i \in Pos(inbox'[f]) : inbox'[f][i] \in Clients =>
                          call'[inbox'[f][i]].st = "queued" /\ call'[inbox'[f][i]].eng = f
  BY DEF Queued, Pos
<1> DEFINE s == Append(inbox[f], Driver)
<1>2. inbox[f] \in Seq(Clients \cup {Driver}) /\ Driver \in Clients \cup {Driver}
  BY <1>1
<1>3. /\ s[Len(inbox[f]) + 1] = Driver
      /\ \A i \in Pos(inbox[f]) : s[i] = inbox[f][i]
      /\ Pos(s) = Pos(inbox[f]) \cup {Len(inbox[f]) + 1}
  <2>1. Len(inbox[f]) \in Nat
    BY <1>2
  <2>2. /\ Append(inbox[f], Driver)[Len(inbox[f]) + 1] = Driver
        /\ \A i \in Pos(inbox[f]) : Append(inbox[f], Driver)[i] = inbox[f][i]
        /\ Pos(Append(inbox[f], Driver)) = Pos(inbox[f]) \cup {Len(inbox[f]) + 1}
    <3>1. PICK q \in Seq(Clients \cup {Driver}) : q = inbox[f]
      BY <1>2
    <3>2. /\ Append(q, Driver)[Len(q) + 1] = Driver
          /\ \A i \in Pos(q) : Append(q, Driver)[i] = q[i]
          /\ Pos(Append(q, Driver)) = Pos(q) \cup {Len(q) + 1}
      BY <1>2 DEF Pos
    <3> QED BY <3>1, <3>2, Zenon
  <2> QED BY <2>2
<1>4. inbox'[f] = s
  BY <1>1
<1> HIDE DEF s
<1>5. \A i \in Pos(inbox[f]) : inbox[f][i] # Driver
  BY <1>1 DEF TrainInv, WorkerInv, OneDriverCall
<1>6. \A i, j \in Pos(inbox[f]) : inbox[f][i] = inbox[f][j] => i = j
  BY DEF TrainInv, Queued
<1>7. \A i \in Pos(inbox[f]) : inbox[f][i] \in Clients =>
        call[inbox[f][i]].st = "queued" /\ call[inbox[f][i]].eng = f
  BY DEF TrainInv, Queued
<1>8. ASSUME NEW i \in Pos(s), NEW j \in Pos(s), s[i] = s[j] PROVE i = j
  <2>1. CASE i \in Pos(inbox[f]) /\ j \in Pos(inbox[f])
    <3>1. s[i] = inbox[f][i] /\ s[j] = inbox[f][j]
      BY <1>3, <2>1
    <3> QED BY <1>6, <1>8, <2>1, <3>1
  <2>2. CASE i \in Pos(inbox[f]) /\ j = Len(inbox[f]) + 1
    BY <1>3, <1>5, <1>8, <2>2
  <2>3. CASE i = Len(inbox[f]) + 1 /\ j \in Pos(inbox[f])
    BY <1>3, <1>5, <1>8, <2>3
  <2>4. CASE i = Len(inbox[f]) + 1 /\ j = Len(inbox[f]) + 1
    BY <2>4
  <2> QED BY <1>3, <2>1, <2>2, <2>3, <2>4
<1>9. ASSUME NEW i \in Pos(s), s[i] \in Clients
      PROVE  call'[s[i]].st = "queued" /\ call'[s[i]].eng = f
  <2>1. i \in Pos(inbox[f])
    BY <1>3, <1>9, WorkerAssumption
  <2>2. s[i] = inbox[f][i]
    BY <1>3, <2>1
  <2> QED BY <1>1, <1>7, <1>9, <2>1, <2>2
<1> QED BY <1>4, <1>8, <1>9

\* Every step keeps the inboxes in order.
LEMMA NextQueued ==
    ASSUME TrainInv, [Next]_vars
    PROVE  Queued'
<1>1. CASE UNCHANGED <<inbox, call>>
  BY <1>1 DEF TrainInv, Queued
<1>2. CASE OwnStep \/ Fails \/ Goes \/ UNCHANGED vars \/ StartEngines
  <2>1. UNCHANGED <<inbox, call>>
    BY <1>2, OwnStepFrame, GoesFrame DEF Fails, vars, StartEngines, workerVars
  <2> QED BY <1>1, <2>1
<1>3. CASE EngineStep
  BY <1>2, <1>3, QueuedCall DEF EngineStep, UpdateRolloutModelWeights, CallRolloutWorker
<1>4. CASE Shutdown
  BY <1>4 DEF Shutdown, ShutdownRolloutActors, Queued, Pos
<1> QED BY <1>2, <1>3, <1>4, NextCases, QueuedGenerateStep, QueuedGenerate, QueuedControl
      DEF RolloutGenerates

\* A step that leaves the calls alone, and training once the engines are quiet.
LEMMA TokensStay ==
    ASSUME TrainInv, UNCHANGED <<call, enqueued>>, global_step' \in Nat, global_step' >= global_step,
           \/ global_step' = global_step
           \/ \A e \in Engines : Working(e) = {}
    PROVE  Tokens'
<1>1. /\ call \in [Clients -> AnyCall] /\ global_step \in Nat
  BY DEF TrainInv, WorkerInv, WorkerTypes, TrainTypes
<1> SUFFICES ASSUME NEW c \in Clients
             PROVE  /\ Ordered(call[c].out)'
                    /\ ClearAfterAbort => OneStepOnly(call[c])'
                    /\ ~enqueued' => call'[c].st = "idle" /\ call'[c].out = <<>>
  BY DEF Tokens
<1>2. /\ Ordered(call[c].out)
      /\ ClearAfterAbort => OneStepOnly(call[c])
      /\ ~enqueued => call[c].st = "idle" /\ call[c].out = <<>>
  BY DEF TrainInv, Tokens
<1>3. PICK r \in AnyCall : r = call[c] /\ r = call'[c]
  BY <1>1
<1>4. Ordered(call[c].out)'
  BY <1>1, <1>2, <1>3 DEF Ordered
<1>5. ClearAfterAbort => OneStepOnly(call[c])'
  <2>1. CASE global_step' = global_step
    BY <1>2, <1>3, <2>1 DEF OneStepOnly
  <2>2. CASE \A e \in Engines : Working(e) = {}
    <3>1. r.st # "working"
      BY <1>3, <2>2 DEF Working, OnEngine, AnyCall
    <3> QED BY <1>2, <1>3, <3>1 DEF OneStepOnly
  <2> QED BY <2>1, <2>2
<1> QED BY <1>2, <1>4, <1>5

\* Every call starts anew or is gone.
LEMMA TokensNone ==
    ASSUME \A c \in Clients : call'[c].out = <<>> /\ (enqueued' \/ call'[c].st = "idle")
    PROVE  Tokens'
<1> SUFFICES ASSUME NEW c \in Clients
             PROVE  /\ Ordered(call[c].out)'
                    /\ ClearAfterAbort => OneStepOnly(call[c])'
                    /\ ~enqueued' => call'[c].st = "idle" /\ call'[c].out = <<>>
  BY DEF Tokens
<1>1. call'[c].out = <<>> /\ Pos(<<>>) = {}
  BY DEF Pos
<1> QED BY <1>1 DEF Ordered, OneStepOnly

\* The tokens of one call change.
LEMMA TokensOfOne ==
    ASSUME TrainInv, NEW c \in Clients, UNCHANGED <<enqueued, global_step>>, enqueued,
           call' = [call EXCEPT ![c] = call'[c]],
           Ordered(call'[c].out), ClearAfterAbort => OneStepOnly(call'[c])
    PROVE  Tokens'
<1>1. call \in [Clients -> AnyCall]
  BY DEF TrainInv, WorkerInv, WorkerTypes
<1> SUFFICES ASSUME NEW d \in Clients
             PROVE  Ordered(call[d].out)' /\ (ClearAfterAbort => OneStepOnly(call[d])')
  BY DEF Tokens
<1>2. CASE d = c
  BY <1>2 DEF Ordered, OneStepOnly
<1>3. CASE d # c
  <2>1. call'[d] = call[d]
    BY <1>1, <1>3
  <2>2. Ordered(call[d].out) /\ (ClearAfterAbort => OneStepOnly(call[d]))
    BY DEF TrainInv, Tokens
  <2> QED BY <2>1, <2>2 DEF Ordered, OneStepOnly
<1> QED BY <1>2, <1>3

\* generate appends tokens of the current step.
LEMMA TokensGenerateStep ==
    ASSUME TrainInv, NEW c \in Clients, GenerateStep(c), UNCHANGED trainVars
    PROVE  Tokens'
<1>1. /\ call' = [call EXCEPT ![c] = call'[c]] /\ call[c] \in AnyCall /\ WorkerInv
      /\ call \in [Clients -> AnyCall] /\ global_step \in Nat
      /\ call[c].out \in Seq(Int)
  BY GenerateStepCall DEF TrainInv, WorkerInv, WorkerTypes, TrainTypes, AnyCall
<1>2. Ordered(call[c].out) /\ (ClearAfterAbort => OneStepOnly(call[c]))
  BY DEF TrainInv, Tokens
<1>3. enqueued
  <2>1. CASE StartGenerate(c)
    <3>1. inbox[call[c].eng] \in Seq(Clients \cup {Driver}) /\ inbox[call[c].eng] # <<>>
          /\ Head(inbox[call[c].eng]) = c
      BY <1>1, <2>1 DEF StartGenerate, Admits, WorkerInv, WorkerTypes, AnyCall
    <3>2. 1 \in Pos(inbox[call[c].eng]) /\ inbox[call[c].eng][1] = c
      BY <3>1, InboxTail
    <3>3. call[c].eng \in Engines
      BY <1>1 DEF AnyCall
    <3>4. call[c].st = "queued"
      BY <3>2, <3>3 DEF TrainInv, Queued
    <3> QED BY <3>4 DEF TrainInv, Tokens
  <2>2. CASE Decode(c) \/ Finish(c) \/ Abort(c)
    BY <2>2 DEF Decode, Finish, Abort, TrainInv, Tokens
  <2> QED BY <2>1, <2>2 DEF GenerateStep
<1>4. Ordered(call'[c].out) /\ (ClearAfterAbort => OneStepOnly(call'[c]))
  <2>1. CASE StartGenerate(c)
    <3>1. inbox[call[c].eng] \in Seq(Clients \cup {Driver}) /\ inbox[call[c].eng] # <<>>
          /\ Head(inbox[call[c].eng]) = c
      BY <1>1, <2>1 DEF StartGenerate, Admits, WorkerInv, WorkerTypes, AnyCall
    <3>2. 1 \in Pos(inbox[call[c].eng]) /\ inbox[call[c].eng][1] = c
      BY <3>1, InboxTail
    <3>3. call[c].eng \in Engines
      BY <1>1 DEF AnyCall
    <3>4. call[c].st = "queued"
      BY <3>2, <3>3 DEF TrainInv, Queued
    <3>5. call'[c].out = call[c].out
      BY <1>1, <2>1 DEF StartGenerate, Submitted, GenCall
    <3>6. ClearAfterAbort => call[c].out = <<>>
      BY <1>2, <3>4 DEF OneStepOnly
    <3>7. Pos(<<>>) = {}
      BY DEF Pos
    <3> QED BY <1>2, <3>5, <3>6, <3>7 DEF OneStepOnly
  <2>2. CASE Decode(c)
    <3>1. call'[c].out = Append(call[c].out, weights[call[c].eng]) /\ call'[c].st = "working"
      BY <1>1, <2>2 DEF Decode, GenCall
    <3>2. weights[call[c].eng] = global_step
      <4>1. call[c].eng \in Engines /\ Working(call[c].eng) # {}
        BY <1>1, <2>2 DEF Decode, Working, OnEngine, AnyCall
      <4> QED BY <4>1, ServesCurrent DEF ServesCurrentPolicy
    <3> DEFINE n == Len(call[c].out)
               out == Append(call[c].out, global_step)
    <3>3. /\ n \in Nat /\ Pos(out) = 1..(n + 1) /\ Pos(call[c].out) = 1..n
          /\ out[n + 1] = global_step /\ \A i \in 1..n : out[i] = call[c].out[i]
      BY <1>1 DEF Pos
    <3>4. call'[c].out = out
      BY <3>1, <3>2
    <3> HIDE DEF n, out
    <3>5. Ordered(out)
      <4>1. \A i \in 1..n : call[c].out[i] \in 0..global_step
        BY <1>2, <3>3 DEF Ordered
      <4>2. \A i, j \in 1..n : i < j => call[c].out[i] <= call[c].out[j]
        BY <1>2, <3>3 DEF Ordered
      <4>3. \A i \in Pos(out) : out[i] \in 0..global_step
        BY <1>1, <3>3, <4>1
      <4>4. ASSUME NEW i \in Pos(out), NEW j \in Pos(out), i < j PROVE out[i] <= out[j]
        <5>1. CASE j = n + 1
          BY <1>1, <3>3, <4>3, <5>1
        <5>2. CASE j # n + 1
          <6>1. i \in 1..n /\ j \in 1..n
            BY <3>3, <4>4, <5>2
          <6> QED BY <3>3, <4>2, <4>4, <6>1
        <5> QED BY <5>1, <5>2
      <4> QED BY <4>3, <4>4 DEF Ordered
    <3>6. ASSUME ClearAfterAbort PROVE \A i \in Pos(out) : out[i] = global_step
      <4>1. call[c].st = "working"
        BY <2>2 DEF Decode
      <4>2. \A i \in 1..n : call[c].out[i] = global_step
        BY <1>2, <3>3, <3>6, <4>1 DEF OneStepOnly
      <4> QED BY <3>3, <4>2
    <3> QED BY <3>1, <3>4, <3>5, <3>6 DEF OneStepOnly
  <2>3. CASE Finish(c)
    <3>1. call'[c].out = call[c].out /\ call'[c].st = "idle"
      BY <1>1, <2>3 DEF Finish, GenCall
    <3> QED BY <1>2, <3>1 DEF OneStepOnly
  <2>4. CASE Abort(c)
    <3> DEFINE out == IF ContinueAfterAbort /\ ClearAfterAbort THEN <<>> ELSE call[c].out
               st == IF ContinueAfterAbort THEN "parked" ELSE "idle"
    <3>1. call'[c] = GenCall(st, call[c].eng, out, 0)
      BY <1>1, <2>4 DEF Abort
    <3>2. call'[c].out = out /\ call'[c].st = st
      BY <3>1 DEF GenCall
    <3>3. Pos(<<>>) = {}
      BY DEF Pos
    <3>4. CASE out = <<>>
      <4> HIDE DEF out, st
      <4> QED BY <3>2, <3>3, <3>4 DEF Ordered, OneStepOnly
    <3>5. CASE ~(ContinueAfterAbort /\ ClearAfterAbort)
      <4>1. out = call[c].out /\ (ClearAfterAbort => st = "idle")
        BY <3>5, WorkerAssumption
      <4> HIDE DEF out, st
      <4> QED BY <1>2, <3>2, <4>1 DEF OneStepOnly
    <3> QED BY <3>4, <3>5
  <2> QED BY <2>1, <2>2, <2>3, <2>4 DEF GenerateStep
<1>5. UNCHANGED <<enqueued, global_step>>
  BY DEF trainVars, modelVars
<1> QED BY <1>1, <1>3, <1>4, <1>5, TokensOfOne

\* The next step is taken from st to d, with the calls before it answered.
Moves(s, st, d, fin) ==
    /\ Fine(st) /\ Matches(st) /\ "raises" \notin st
    /\ \A e \in Engines : control[e] = NoCall /\ At(e, st)
    /\ Needs(st, s) /\ d = After(st, s) /\ Fine(d)
    /\ Runs(d, Tail(todo), fin)
    /\ AtRest(fin) /\ setup.mode # "ended"

\* Once every engine has answered, the facts hold of all of them.
LEMMA AllAnswered ==
    ASSUME TrainInv, Returned, NEW st, \A e \in Engines : Answers(e, st)
    PROVE  \A e \in Engines : control[e] = NoCall /\ At(e, st)
<1> SUFFICES ASSUME NEW e \in Engines PROVE control[e] = NoCall /\ At(e, st)
  OBVIOUS
<1>1. control[e] = NoCall
  BY DEF Returned
<1>2. control[e].op = "none"
  BY <1>1 DEF NoCall, Op
<1>3. ~Pausing(e)
  BY <1>2 DEF Pausing
<1>4. ASSUME NEW b, Comes(e, st, b) PROVE FALSE
  BY <1>2, <1>4 DEF Comes, EngineOps
<1> QED BY <1>1, <1>3, <1>4 DEF Answers

\* So every step of the controller finds what it needs.
LEMMA StepFacts ==
    ASSUME TrainInv, NEW s \in Steps \ {"shutdown"}, Step(s)
    PROVE  \E st, d, fin \in State : Moves(s, st, d, fin)
<1>1. PICK st \in State, fin \in State : On(st, fin)
  BY DEF TrainInv, Phase
<1>2. todo \in Seq(Steps) /\ todo # <<>> /\ Head(todo) = s /\ Returned /\ ~raised
  BY DEF Step, TrainInv, TrainTypes
<1>3. \A e \in Engines : control[e] = NoCall /\ At(e, st)
  BY <1>1, <1>2, AllAnswered DEF On
<1>4. "raises" \notin st
  <2>1. PICK e \in Engines : TRUE
    BY TrainAssumption
  <2>2. control[e].op # "update"
    BY <1>3, <2>1 DEF NoCall, Op
  <2> QED BY <1>1, <1>2, <2>2 DEF On, Matches
<1>5. PICK d \in State : Steps1(st, s, d) /\ Runs(d, Tail(todo), fin)
  BY <1>1, <1>2, FirstStep DEF On
<1>6. Needs(st, s) /\ d = After(st, s) /\ Fine(d)
  BY <1>4, <1>5 DEF Steps1
<1> QED BY <1>1, <1>2, <1>3, <1>4, <1>5, <1>6 DEF Moves, On

\* An engine is quiet where the facts say so.
LEMMA QuietEngines ==
    ASSUME TrainInv, NEW s, NEW st, NEW d, NEW fin, Moves(s, st, d, fin), Quiet(st)
    PROVE  \A e \in Engines : Working(e) = {}
<1> SUFFICES ASSUME NEW e \in Engines, Working(e) # {} PROVE FALSE
  OBVIOUS
<1>1. enqueued
  BY DEF TrainInv, Tokens, Working, OnEngine
<1>2. "enqueued" \in st /\ control[e] = NoCall /\ At(e, st)
  BY <1>1 DEF Moves, Matches
<1>3. ~ready[e]
  <2>1. "ready" \notin st
    BY <1>2 DEF Quiet
  <2> QED BY <1>2, <2>1 DEF At
<1>4. ~Pausing(e)
  BY <1>2 DEF Pausing, NoCall, Op
<1> QED BY <1>3, <1>4 DEF TrainInv, WorkerInv, QuietWhenPaused

\* A new call has no tokens.
LEMMA TokensGenerate ==
    ASSUME TrainInv, NEW c \in Clients, NEW e \in Engines, RolloutGenerates(c, e)
    PROVE  Tokens'
<1>1. /\ call \in [Clients -> AnyCall] /\ enqueued
      /\ call' = [call EXCEPT ![c] = GenCall("queued", e, <<>>, 0)]
      /\ UNCHANGED <<enqueued, global_step>>
  BY DEF TrainInv, WorkerInv, WorkerTypes, RolloutGenerates, Generate, trainVars, modelVars
<1>2. call'[c].out = <<>> /\ call' = [call EXCEPT ![c] = call'[c]]
  BY <1>1 DEF GenCall
<1>3. Pos(<<>>) = {}
  BY DEF Pos
<1>4. Ordered(call'[c].out) /\ OneStepOnly(call'[c])
  BY <1>2, <1>3 DEF Ordered, OneStepOnly
<1> QED BY <1>1, <1>2, <1>4, TokensOfOne

\* An engine that resumes moves parked calls on, with their tokens.
LEMMA TokensControl ==
    ASSUME TrainInv, NEW e \in Engines, ControlStep(e), UNCHANGED trainVars
    PROVE  Tokens'
<1>1. UNCHANGED <<enqueued, global_step>> /\ call \in [Clients -> AnyCall] /\ global_step \in Nat
  BY DEF trainVars, modelVars, TrainInv, WorkerInv, WorkerTypes, TrainTypes
<1>2. CASE ResumeGeneration(e)
  <2> SUFFICES ASSUME NEW c \in Clients
               PROVE  /\ Ordered(call[c].out)'
                      /\ ClearAfterAbort => OneStepOnly(call[c])'
                      /\ ~enqueued' => call'[c].st = "idle" /\ call'[c].out = <<>>
    BY DEF Tokens
  <2>1. /\ Ordered(call[c].out)
        /\ ClearAfterAbort => OneStepOnly(call[c])
        /\ ~enqueued => call[c].st = "idle" /\ call[c].out = <<>>
    BY DEF TrainInv, Tokens
  <2>2. CASE c \in OnEngine(e, {"parked"})
    <3>1. call'[c] = Submitted(call[c]) /\ call[c].st = "parked"
      BY <1>2, <2>2 DEF ResumeGeneration, OnEngine
    <3>2. call'[c].out = call[c].out
      BY <3>1 DEF Submitted, GenCall
    <3>3. Pos(<<>>) = {}
      BY DEF Pos
    <3>4. Ordered(call[c].out)'
      BY <1>1, <2>1, <3>2 DEF Ordered
    <3>5. ClearAfterAbort => OneStepOnly(call[c])'
      BY <2>1, <3>1, <3>2, <3>3 DEF OneStepOnly
    <3> QED BY <1>1, <2>1, <3>1, <3>4, <3>5
  <2>3. CASE c \notin OnEngine(e, {"parked"})
    <3>1. call'[c] = call[c]
      BY <1>2, <2>3 DEF ResumeGeneration
    <3> QED BY <1>1, <2>1, <3>1 DEF Ordered, OneStepOnly
  <2> QED BY <2>2, <2>3
<1>3. CASE ~ResumeGeneration(e)
  <2>1. call' = call
    BY <1>3 DEF ControlStep, PauseGenerationAgain, PauseGeneration, Paused, ReleaseGpuMemory,
                ResumeWeights, ResumeKvCache, UpdateWeights
  <2> QED BY <1>1, <2>1, TokensStay
<1> QED BY <1>2, <1>3

\* Training meets quiet engines, and a checkpoint is loaded before the first rollout.
LEMMA TokensOwnStep ==
    ASSUME TrainInv, OwnStep
    PROVE  Tokens'
<1>1. call' = call /\ global_step \in Nat /\ enqueued \in BOOLEAN
  BY OwnStepFrame DEF workerVars, TrainInv, TrainTypes
<1>2. CASE TrainActor
  <2>1. PICK st \in State, d \in State, fin \in State : Moves("train_actor", st, d, fin)
    BY <1>2, StepFacts DEF TrainActor, Steps
  <2>2. \A e \in Engines : Working(e) = {}
    <3>1. Quiet(st)
      BY <2>1 DEF Moves, Needs
    <3> QED BY <2>1, <3>1, QuietEngines
  <2>3. enqueued' = enqueued /\ global_step' \in Nat /\ global_step' >= global_step
    BY <1>1, <1>2, TrainAssumption DEF TrainActor
  <2> QED BY <1>1, <2>2, <2>3, TokensStay
<1>3. CASE LoadCheckpoint
  <2>1. PICK st \in State, d \in State, fin \in State : Moves("load_checkpoint", st, d, fin)
    BY <1>3, StepFacts DEF LoadCheckpoint, Steps
  <2>2. ~enqueued
    BY <2>1 DEF Moves, Needs, Matches
  <2>3. \A c \in Clients : call'[c].out = <<>> /\ call'[c].st = "idle"
    BY <1>1, <2>2 DEF TrainInv, Tokens
  <2> QED BY <2>3, TokensNone
<1>4. CASE EnqueueRollouts
  <2>1. enqueued' = TRUE /\ global_step' = global_step
    BY <1>4 DEF EnqueueRollouts, modelVars
  <2> SUFFICES ASSUME NEW c \in Clients
               PROVE  Ordered(call[c].out)' /\ (ClearAfterAbort => OneStepOnly(call[c])')
    BY <2>1 DEF Tokens
  <2>2. Ordered(call[c].out) /\ (ClearAfterAbort => OneStepOnly(call[c]))
    BY DEF TrainInv, Tokens
  <2> QED BY <1>1, <2>1, <2>2 DEF Ordered, OneStepOnly
<1>5. CASE StartMegatronWorker \/ MoveWorker \/ SwapWeights \/ Compute \/ TrainValue
  <2>1. UNCHANGED <<enqueued, global_step>>
    BY <1>5 DEF StartMegatronWorker, MoveWorker, SwapWeights, Compute, TrainValue, modelVars
  <2> QED BY <1>1, <2>1, TokensStay
<1> QED BY <1>2, <1>3, <1>4, <1>5 DEF OwnStep

\* Every step keeps the tokens in their order.
LEMMA NextTokens ==
    ASSUME TrainInv, [Next]_vars
    PROVE  Tokens'
<1>1. global_step \in Nat
  BY DEF TrainInv, TrainTypes
<1>2. CASE EngineStep \/ Fails \/ Goes \/ UNCHANGED vars
  <2>1. UNCHANGED <<call, enqueued, global_step>>
    BY <1>2, GoesFrame DEF EngineStep, StartEngines, UpdateRolloutModelWeights, CallRolloutWorker,
              CallEngines, Fails, vars, workerVars, trainVars, modelVars
  <2> QED BY <1>1, <2>1, TokensStay
<1>3. CASE Shutdown
  <2>1. call' = [c \in Clients |-> GenCall("idle", call[c].eng, <<>>, 0)]
    BY <1>3 DEF Shutdown, ShutdownRolloutActors
  <2>2. \A c \in Clients : call'[c].out = <<>> /\ call'[c].st = "idle"
    BY <2>1 DEF GenCall
  <2> QED BY <2>2, TokensNone
<1> QED BY <1>2, <1>3, NextCases, TokensOwnStep, TokensGenerate, TokensGenerateStep, TokensControl

\* An engine that no step touches answers as before.
LEMMA AnswersStay ==
    ASSUME NEW f, NEW st, Answers(f, st), ready'[f] = ready[f], onGpu'[f] = onGpu[f],
           weights'[f] = weights[f], control'[f] = control[f], global_step' = global_step,
           Waits(f)' <=> Waits(f)
    PROVE  Answers(f, st)'
<1>1. ASSUME NEW b, At(f, b) PROVE At(f, b)'
  BY <1>1 DEF At
<1>2. Pausing(f) => Pausing(f)'
  BY DEF Pausing, Waits
<1>3. ASSUME NEW b \in State, Comes(f, st, b) PROVE Comes(f, st, b)'
  BY <1>1, <1>3 DEF Comes
<1> QED BY <1>1, <1>2, <1>3 DEF Answers

\* Requests that arrive or start leave the driver's call where it is.
LEMMA GenerateAnswers ==
    ASSUME TrainInv, UNCHANGED trainVars,
           \/ \E c \in Clients : GenerateStep(c)
           \/ \E c \in Clients, e \in Engines : Generate(c, e)
    PROVE  UNCHANGED <<ready, onGpu, weights, control, raised>>
           /\ \A f \in Engines : Waits(f)' <=> Waits(f)
<1>1. UNCHANGED <<ready, onGpu, weights, control, raised>>
  BY DEF GenerateStep, StartGenerate, Decode, Finish, Abort, Generate
<1>2. inbox \in [Engines -> Seq(Clients \cup {Driver})]
  BY DEF TrainInv, WorkerInv, WorkerTypes
<1>3. CASE inbox' = inbox
  BY <1>1, <1>3 DEF Waits
<1>4. ASSUME NEW c \in Clients, StartGenerate(c) PROVE \A f \in Engines : Waits(f)' <=> Waits(f)
  <2> DEFINE e == call[c].eng
             s == inbox[e]
  <2>1. s # <<>> /\ Head(s) = c /\ inbox' = [inbox EXCEPT ![e] = Tail(s)]
    BY <1>4 DEF StartGenerate, Admits
  <2> SUFFICES ASSUME NEW f \in Engines PROVE Waits(f)' <=> Waits(f)
    OBVIOUS
  <2>2. CASE f = e
    <3>1. s \in Seq(Clients \cup {Driver}) /\ inbox[f] = s /\ inbox'[f] = Tail(s)
      BY <1>2, <2>1, <2>2
    <3> HIDE DEF s
    <3>2. /\ DOMAIN s = Pos(s) /\ DOMAIN Tail(s) = Pos(Tail(s)) /\ 1 \in Pos(s) /\ s[1] = c
          /\ \A i \in Pos(Tail(s)) : Tail(s)[i] = s[i + 1] /\ i + 1 \in Pos(s)
      BY <2>1, <3>1, InboxTail DEF Pos
    <3>3. \A i \in Pos(s) : i # 1 => i - 1 \in Pos(Tail(s)) /\ (i - 1) + 1 = i
      BY <2>1, <3>1 DEF Pos
    <3>4. c # Driver
      BY WorkerAssumption
    <3>5. (\E i \in Pos(Tail(s)) : Tail(s)[i] = Driver) <=> \E i \in Pos(s) : s[i] = Driver
      <4>1. ASSUME NEW i \in Pos(s), s[i] = Driver PROVE \E j \in Pos(Tail(s)) : Tail(s)[j] = Driver
        <5>1. i # 1
          BY <3>2, <3>4, <4>1
        <5>2. i - 1 \in Pos(Tail(s)) /\ Tail(s)[i - 1] = s[(i - 1) + 1] /\ (i - 1) + 1 = i
          BY <3>2, <3>3, <5>1
        <5> QED BY <4>1, <5>2
      <4> QED BY <3>2, <4>1
    <3> QED BY <3>1, <3>2, <3>5 DEF Waits
  <2>3. CASE f # e
    <3>1. inbox'[f] = inbox[f]
      BY <1>2, <2>1, <2>3
    <3> QED BY <3>1 DEF Waits
  <2> QED BY <2>2, <2>3
<1>5. ASSUME NEW c \in Clients, NEW e \in Engines, Generate(c, e)
      PROVE  \A f \in Engines : Waits(f)' <=> Waits(f)
  <2>1. inbox' = [inbox EXCEPT ![e] = Append(inbox[e], c)]
    BY <1>5 DEF Generate
  <2> SUFFICES ASSUME NEW f \in Engines PROVE Waits(f)' <=> Waits(f)
    OBVIOUS
  <2>2. CASE f = e
    <3> DEFINE s == inbox[e]
               t == Append(s, c)
    <3>1. s \in Seq(Clients \cup {Driver}) /\ c \in Clients \cup {Driver} /\ DOMAIN s = Pos(s)
      BY <1>2 DEF Pos
    <3>2. /\ DOMAIN t = Pos(t) /\ t[Len(s) + 1] = c /\ \A i \in Pos(s) : t[i] = s[i]
          /\ Pos(t) = Pos(s) \cup {Len(s) + 1}
      BY <3>1, InboxAppend
    <3>3. c # Driver
      BY WorkerAssumption
    <3>4. inbox'[f] = t /\ inbox[f] = s
      BY <1>2, <2>1, <2>2
    <3> HIDE DEF s, t
    <3> QED BY <3>1, <3>2, <3>3, <3>4 DEF Waits
  <2>3. CASE f # e
    <3>1. inbox'[f] = inbox[f]
      BY <1>2, <2>1, <2>3
    <3> QED BY <3>1 DEF Waits
  <2> QED BY <2>2, <2>3
<1> QED BY <1>1, <1>3, <1>4, <1>5 DEF GenerateStep, Decode, Finish, Abort

\* What the rollouts do changes no fact.
LEMMA GeneratePhase ==
    ASSUME TrainInv, UNCHANGED trainVars,
           \/ \E c \in Clients : GenerateStep(c)
           \/ \E c \in Clients, e \in Engines : Generate(c, e)
    PROVE  Phase'
<1>1. PICK st \in State, fin \in State : On(st, fin)
  BY DEF TrainInv, Phase
<1>2. /\ UNCHANGED <<ready, onGpu, weights, control, raised>>
      /\ \A f \in Engines : Waits(f)' <=> Waits(f)
  BY GenerateAnswers
<1>3. UNCHANGED <<setup, todo, enqueued, actor, value, params, copied, global_step>>
  BY DEF trainVars, modelVars
<1>4. \A e \in Engines : Answers(e, st)'
  BY <1>1, <1>2, <1>3, AnswersStay DEF On
<1>5. Matches(st)'
  BY <1>1, <1>2, <1>3 DEF On, Matches, Placement, MegatronGroup, NeedsRolloutWorker,
     NeedsMegatronWorker, Colocated, Ppo
<1>6. AtRest(fin) => AtRest(fin)'
  BY <1>3 DEF AtRest, Resting, Rest
<1>7. On(st, fin)'
  BY <1>1, <1>3, <1>4, <1>5, <1>6 DEF On
<1> QED BY <1>7 DEF Phase

\* A control call that gets its slot comes from facts that let it.
LEMMA CallComes ==
    ASSUME TrainInv, NEW e \in Engines, NEW name \in EngineOps \cup {"update"}, Control(e, name),
           NEW st, Answers(e, st)
    PROVE  \E b \in State : Comes(e, st, b) /\ control[e].op = name
<1>1. control[e].op = name /\ ~Pausing(e)
  BY ControlInbox DEF TrainInv
<1>2. control[e] # NoCall
  BY <1>1 DEF NoCall, Op, EngineOps
<1> QED BY <1>1, <1>2 DEF Answers

\* The engine has done the call: it is as the facts after it say.
LEMMA ControlAnswers ==
    ASSUME TrainInv, NEW e \in Engines, ControlStep(e), UNCHANGED trainVars, NEW st, Answers(e, st)
    PROVE  Answers(e, st)'
<1>1. /\ ready \in [Engines -> BOOLEAN] /\ onGpu \in [Engines -> SUBSET Tags]
      /\ weights \in [Engines -> Int] /\ control \in [Engines -> AnyControl]
      /\ global_step' = global_step
  BY DEF TrainInv, WorkerInv, WorkerTypes, trainVars, modelVars
<1>2. ASSUME Return(e), At(e, st)' PROVE Answers(e, st)'
  <2>1. control'[e] = NoCall
    BY <1>1, <1>2 DEF Return
  <2> QED BY <1>2, <2>1 DEF Answers
<1>3. CASE PauseGenerationAgain(e)
  <2>1. PICK b \in State : Comes(e, st, b) /\ control[e].op = "pause"
    BY <1>3, CallComes DEF PauseGenerationAgain, EngineOps
  <2>2. st = b \ {"ready"} /\ At(e, b)
    BY <2>1, AfterIs DEF Comes
  <2>3. UNCHANGED <<ready, onGpu, weights>> /\ Return(e) /\ ~ready[e]
    BY <1>3 DEF PauseGenerationAgain
  <2>4. At(e, st)'
    BY <1>1, <2>2, <2>3 DEF At, Tags
  <2> QED BY <1>2, <2>3, <2>4
<1>4. CASE PauseGeneration(e)
  <2>1. PICK b \in State : Comes(e, st, b) /\ control[e].op = "pause"
    BY <1>4, CallComes DEF PauseGeneration, EngineOps
  <2>2. st = b \ {"ready"} /\ At(e, b) /\ Fine(b)
    BY <2>1, AfterIs DEF Comes
  <2>3. UNCHANGED <<onGpu, weights, control>> /\ ready[e] /\ ready' = [ready EXCEPT ![e] = FALSE]
        /\ Control(e, "pause")
    BY <1>4 DEF PauseGeneration
  <2>4. At(e, st)'
    <3>1. ready'[e] = ("ready" \in st)
      <4>1. ready'[e] = FALSE /\ "ready" \notin st
        BY <1>1, <2>2, <2>3
      <4>2. ("ready" \in st) = FALSE
        BY <4>1
      <4> QED BY <4>1, <4>2, Zenon
    <3>2. onGpu'[e] = st \cap Tags
      BY <2>2, <2>3 DEF At, Tags
    <3>3. "fresh" \in st => weights'[e] = global_step'
      BY <1>1, <2>2, <2>3 DEF At
    <3> QED BY <1>1, <2>3, <3>1, <3>2, <3>3 DEF At
  <2>5. "ready" \in b
    BY <2>2, <2>3 DEF At
  <2>6. "enqueued" \in st => Tags \cup {"fresh"} \subseteq st
    BY <2>2, <2>5 DEF Fine, Tags
  <2>7. Pausing(e)'
    <3>1. /\ \A i \in Pos(inbox'[e]) : inbox'[e][i] # Driver
          /\ DOMAIN inbox'[e] = Pos(inbox'[e])
      BY <2>3, ControlInbox DEF TrainInv
    <3> QED BY <2>1, <2>3, <3>1 DEF Pausing
  <2> QED BY <2>4, <2>6, <2>7 DEF Answers
<1>5. CASE Paused(e)
  <2>1. UNCHANGED <<ready, onGpu, weights>> /\ Return(e) /\ Pausing(e)
    BY <1>5 DEF Paused
  <2>2. At(e, st)
    <3>1. control[e] # NoCall /\ ~Waits(e)
      BY <2>1 DEF Pausing, NoCall, Op, Waits
    <3> QED BY <3>1 DEF Answers, Comes
  <2>3. At(e, st)'
    BY <1>1, <2>1, <2>2 DEF At
  <2> QED BY <1>2, <2>1, <2>3
<1>6. CASE ResumeGeneration(e)
  <2>1. PICK b \in State : Comes(e, st, b) /\ control[e].op = "resume"
    BY <1>6, CallComes DEF ResumeGeneration, EngineOps
  <2>2. st = b \cup {"ready"} /\ At(e, b)
    BY <2>1, AfterIs DEF Comes
  <2>3. UNCHANGED <<onGpu, weights>> /\ Return(e) /\ ready' = [ready EXCEPT ![e] = TRUE]
    BY <1>6 DEF ResumeGeneration
  <2>4. At(e, st)'
    BY <1>1, <2>2, <2>3 DEF At, Tags
  <2> QED BY <1>2, <2>3, <2>4
<1>7. CASE ReleaseGpuMemory(e)
  <2>1. PICK b \in State : Comes(e, st, b) /\ control[e].op = "release"
    BY <1>7, CallComes DEF ReleaseGpuMemory, EngineOps
  <2>2. st = b \ {"weights", "kv_cache", "fresh"} /\ At(e, b)
    BY <2>1, AfterIs DEF Comes
  <2>3. ready' = ready /\ Return(e) /\ onGpu' = [onGpu EXCEPT ![e] = {}]
    BY <1>7 DEF ReleaseGpuMemory
  <2>4. At(e, st)'
    BY <1>1, <2>2, <2>3 DEF At, Tags
  <2> QED BY <1>2, <2>3, <2>4
<1>8. CASE ResumeWeights(e)
  <2>1. PICK b \in State : Comes(e, st, b) /\ control[e].op = "resume_weights"
    BY <1>8, CallComes DEF ResumeWeights, EngineOps
  <2>2. st = b \cup {"weights"} /\ At(e, b)
    BY <2>1, AfterIs DEF Comes
  <2>3. UNCHANGED <<ready, weights>> /\ Return(e)
        /\ onGpu' = [onGpu EXCEPT ![e] = onGpu[e] \cup {"weights"}]
    BY <1>8 DEF ResumeWeights
  <2>4. At(e, st)'
    BY <1>1, <2>2, <2>3 DEF At, Tags
  <2> QED BY <1>2, <2>3, <2>4
<1>9. CASE ResumeKvCache(e)
  <2>1. PICK b \in State : Comes(e, st, b) /\ control[e].op = "resume_kv_cache"
    BY <1>9, CallComes DEF ResumeKvCache, EngineOps
  <2>2. st = b \cup {"kv_cache"} /\ At(e, b)
    BY <2>1, AfterIs DEF Comes
  <2>3. UNCHANGED <<ready, weights>> /\ Return(e)
        /\ onGpu' = [onGpu EXCEPT ![e] = onGpu[e] \cup {"kv_cache"}]
    BY <1>9 DEF ResumeKvCache
  <2>4. At(e, st)'
    BY <1>1, <2>2, <2>3 DEF At, Tags
  <2> QED BY <1>2, <2>3, <2>4
<1>10. CASE UpdateWeights(e)
  <2>1. PICK b \in State : Comes(e, st, b) /\ control[e].op = "update"
    BY <1>10, CallComes DEF UpdateWeights
  <2>2. /\ st = b \cup (IF "ready" \in b THEN {"raises"} ELSE {"fresh"})
        /\ At(e, b) /\ control[e].version = global_step
    BY <2>1, AfterIs DEF Comes
  <2>3. UNCHANGED <<ready, onGpu>> /\ Return(e)
        /\ (IF ready[e] THEN UNCHANGED weights
            ELSE weights' = [weights EXCEPT ![e] = control[e].version])
    BY <1>10 DEF UpdateWeights
  <2>4. CASE ready[e]
    <3>1. st = b \cup {"raises"} /\ weights' = weights
      BY <2>2, <2>3, <2>4 DEF At
    <3>2. At(e, st)'
      BY <1>1, <2>2, <2>3, <3>1 DEF At, Tags
    <3> QED BY <1>2, <2>3, <3>2
  <2>5. CASE ~ready[e]
    <3>1. st = b \cup {"fresh"} /\ weights' = [weights EXCEPT ![e] = control[e].version]
      BY <2>2, <2>3, <2>5 DEF At
    <3>2. At(e, st)'
      BY <1>1, <2>2, <2>3, <3>1 DEF At, Tags
    <3> QED BY <1>2, <2>3, <3>2
  <2> QED BY <2>4, <2>5
<1> QED BY <1>3, <1>4, <1>5, <1>6, <1>7, <1>8, <1>9, <1>10 DEF ControlStep

\* A control call touches its own engine only.
LEMMA ControlOthers ==
    ASSUME TrainInv, NEW e \in Engines, ControlStep(e), UNCHANGED trainVars,
           NEW f \in Engines, f # e, NEW st, Answers(f, st)
    PROVE  Answers(f, st)'
<1>1. /\ ready \in [Engines -> BOOLEAN] /\ onGpu \in [Engines -> SUBSET Tags]
      /\ weights \in [Engines -> Int] /\ control \in [Engines -> AnyControl]
      /\ inbox \in [Engines -> Seq(Clients \cup {Driver})]
      /\ global_step' = global_step
  BY DEF TrainInv, WorkerInv, WorkerTypes, trainVars, modelVars
<1>2. inbox'[f] = inbox[f]
  BY <1>1 DEF ControlStep, PauseGenerationAgain, PauseGeneration, Paused, ResumeGeneration,
     ReleaseGpuMemory, ResumeWeights, ResumeKvCache, UpdateWeights, Control
<1>3. control'[f] = control[f]
  BY <1>1 DEF ControlStep, PauseGenerationAgain, PauseGeneration, Paused, ResumeGeneration,
     ReleaseGpuMemory, ResumeWeights, ResumeKvCache, UpdateWeights, Return
<1>4. ready'[f] = ready[f] /\ onGpu'[f] = onGpu[f]
  BY <1>1 DEF ControlStep, PauseGenerationAgain, PauseGeneration, Paused, ResumeGeneration,
     ReleaseGpuMemory, ResumeWeights, ResumeKvCache, UpdateWeights
<1>5. weights'[f] = weights[f]
  BY <1>1 DEF ControlStep, PauseGenerationAgain, PauseGeneration, Paused, ResumeGeneration,
     ReleaseGpuMemory, ResumeWeights, ResumeKvCache, UpdateWeights
<1>6. Waits(f)' <=> Waits(f)
  BY <1>2 DEF Waits
<1> QED BY <1>1, <1>3, <1>4, <1>5, <1>6, AnswersStay

\* Only an update that meets an engine that is not paused raises.
LEMMA ControlRaises ==
    ASSUME TrainInv, NEW e \in Engines, ControlStep(e), UNCHANGED trainVars,
           NEW st, Answers(e, st), Matches(st)
    PROVE  (raised' => "raises" \in st) /\ ("raises" \in st => raised')
<1>1. raised \in BOOLEAN
  BY DEF TrainInv, WorkerInv, WorkerTypes
<1>2. CASE UpdateWeights(e)
  <2>1. PICK b \in State : Comes(e, st, b) /\ control[e].op = "update"
    BY <1>2, CallComes DEF UpdateWeights
  <2>2. /\ st = After(b, "update") /\ At(e, b) /\ "raises" \notin b
    BY <2>1 DEF Comes
  <2>3. "raises" \in st <=> "ready" \in b
    BY <2>2, AfterCall
  <2>4. ready[e] <=> "ready" \in b
    BY <2>2 DEF At
  <2>5. IF ready[e] THEN raised' = TRUE ELSE raised' = raised
    BY <1>2 DEF UpdateWeights
  <2>6. raised => "raises" \in st
    BY DEF Matches
  <2> QED BY <2>3, <2>4, <2>5, <2>6
<1>3. CASE ~UpdateWeights(e)
  <2>1. raised' = raised
    BY <1>3 DEF ControlStep, PauseGenerationAgain, PauseGeneration, Paused, ResumeGeneration,
       ReleaseGpuMemory, ResumeWeights, ResumeKvCache
  <2>2. control[e].op # "update"
    BY <1>3 DEF ControlStep, PauseGenerationAgain, PauseGeneration, Paused, ResumeGeneration,
       ReleaseGpuMemory, ResumeWeights, ResumeKvCache, Control, Pausing
  <2> QED BY <2>1, <2>2 DEF Matches
<1> QED BY <1>2, <1>3

\* What an engine answers is what the facts said it would.
LEMMA ControlPhase ==
    ASSUME TrainInv, NEW e \in Engines, ControlStep(e), UNCHANGED trainVars
    PROVE  Phase'
<1>1. PICK st \in State, fin \in State : On(st, fin)
  BY DEF TrainInv, Phase
<1>2. Matches(st) /\ \A f \in Engines : Answers(f, st)
  BY <1>1 DEF On
<1>3. UNCHANGED <<setup, todo, enqueued, actor, value, params, copied, global_step>>
  BY DEF trainVars, modelVars
<1>4. \A f \in Engines : Answers(f, st)'
  BY <1>2, ControlAnswers, ControlOthers
<1>5. (raised' => "raises" \in st) /\ ("raises" \in st => raised')
  BY <1>2, ControlRaises
<1>6. Matches(st)'
  BY <1>2, <1>3, <1>5 DEF Matches, Placement, MegatronGroup, NeedsRolloutWorker,
     NeedsMegatronWorker, Colocated, Ppo
<1>7. AtRest(fin) => AtRest(fin)'
  BY <1>3 DEF AtRest, Resting, Rest
<1>8. On(st, fin)'
  BY <1>1, <1>3, <1>4, <1>6, <1>7 DEF On
<1> QED BY <1>8 DEF Phase

\* A step of the controller has been taken, and the facts are those after it.
LEMMA StepTo ==
    ASSUME NEW s, NEW st, NEW d \in State, NEW fin \in State, Moves(s, st, d, fin),
           todo' = Tail(todo), UNCHANGED setup, Matches(d)', \A e \in Engines : Answers(e, d)'
    PROVE  Phase'
<1>1. /\ Fine(d) /\ Runs(d, todo', fin) /\ setup'.mode # "ended"
      /\ AtRest(fin)
  BY DEF Moves
<1>2. AtRest(fin)'
  BY <1>1 DEF AtRest, Resting, Rest
<1>3. On(d, fin)'
  BY <1>1, <1>2 DEF On
<1> QED BY <1>3 DEF Phase

\* What a step that leaves the engines alone has to keep of their facts.
LEMMA EnginesStay ==
    ASSUME NEW s, NEW st, NEW d, NEW fin, Moves(s, st, d, fin), UNCHANGED workerVars,
           "ready" \in d <=> "ready" \in st, d \cap Tags = st \cap Tags,
           "fresh" \in d => "fresh" \in st /\ global_step' = global_step
    PROVE  \A e \in Engines : Answers(e, d)'
<1> SUFFICES ASSUME NEW e \in Engines PROVE Answers(e, d)'
  OBVIOUS
<1>1. control[e] = NoCall /\ At(e, st)
  BY DEF Moves
<1>2. ready' = ready /\ onGpu' = onGpu /\ weights' = weights /\ control' = control
  BY DEF workerVars
<1>3. ready[e] = ("ready" \in d)
  <2>1. ready[e] = ("ready" \in st)
    BY <1>1 DEF At
  <2>2. ("ready" \in d) = ("ready" \in st)
    OBVIOUS
  <2> QED BY <2>1, <2>2, Zenon
<1>4. onGpu[e] = d \cap Tags
  BY <1>1 DEF At
<1>5. "fresh" \in d => weights[e] = global_step'
  BY <1>1 DEF At
<1>6. At(e, d)'
  BY <1>2, <1>3, <1>4, <1>5 DEF At
<1> QED BY <1>1, <1>2, <1>6 DEF Answers

\* What such a step has to keep of the others.
LEMMA OthersStay ==
    ASSUME NEW s, NEW st, NEW d, NEW fin, Moves(s, st, d, fin), ~raised', UNCHANGED setup,
           "raises" \notin d, "shared" \in d <=> "shared" \in st,
           "enqueued" \in d <=> enqueued', "actor" \in d <=> actor', "value" \in d <=> value',
           enqueued' \in BOOLEAN, actor' \in BOOLEAN, value' \in BOOLEAN,
           "current" \in d => params' = global_step', "initial" \in d => params' = 0,
           "copy" \in d => copied' = global_step'
    PROVE  Matches(d)'
<1>1. ("shared" \in st) = (Placement.rollout = Placement.megatron)
  BY DEF Moves, Matches
<1>2. Placement' = Placement
  BY DEF Placement, MegatronGroup, NeedsRolloutWorker, NeedsMegatronWorker, Colocated, Ppo
<1>3. ("shared" \in d) = (Placement'.rollout = Placement'.megatron)
  BY <1>1, <1>2
<1>4. enqueued' = ("enqueued" \in d) /\ actor' = ("actor" \in d) /\ value' = ("value" \in d)
  OBVIOUS
<1> QED BY <1>3, <1>4 DEF Matches

\* What the facts before a step say of the variables.
LEMMA FactsBefore ==
    ASSUME TrainInv, NEW s, Step(s), NEW st, NEW d, NEW fin, Moves(s, st, d, fin)
    PROVE  /\ enqueued \in BOOLEAN /\ actor \in BOOLEAN /\ value \in BOOLEAN
           /\ "enqueued" \in st <=> enqueued
           /\ "actor" \in st <=> actor
           /\ "value" \in st <=> value
           /\ "current" \in st => params = global_step
           /\ "initial" \in st => params = 0
           /\ "copy" \in st => copied = global_step
           /\ ~raised /\ "raises" \notin st
           /\ todo' = Tail(todo) /\ UNCHANGED setup
           /\ d = After(st, s)
  BY DEF Moves, Matches, Step, TrainInv, TrainTypes

\* The Megatron workers come and go, and rollouts are enqueued.
LEMMA WorkerPhase ==
    ASSUME TrainInv, StartMegatronWorker \/ MoveWorker \/ EnqueueRollouts
    PROVE  Phase'
<1>1. PICK s \in {"start_actor", "start_value", "actor_to_gpu", "actor_to_cpu", "value_to_gpu",
                  "value_to_cpu", "enqueue"} :
        /\ Step(s) /\ UNCHANGED <<workerVars, modelVars>>
        /\ s \in {"start_actor", "actor_to_gpu"} => actor' = TRUE /\ UNCHANGED <<value, enqueued>>
        /\ s = "actor_to_cpu" => actor' = FALSE /\ UNCHANGED <<value, enqueued>>
        /\ s \in {"start_value", "value_to_gpu"} => value' = TRUE /\ UNCHANGED <<actor, enqueued>>
        /\ s = "value_to_cpu" => value' = FALSE /\ UNCHANGED <<actor, enqueued>>
        /\ s = "enqueue" => enqueued' = TRUE /\ UNCHANGED <<actor, value>>
  <2>1. CASE StartMegatronWorker
    BY <2>1 DEF StartMegatronWorker
  <2>2. CASE MoveWorker
    BY <2>2 DEF MoveWorker
  <2>3. CASE EnqueueRollouts
    BY <2>3 DEF EnqueueRollouts
  <2> QED BY <2>1, <2>2, <2>3
<1>2. s \in Steps \ {"shutdown"}
  BY DEF Steps
<1>3. PICK st \in State, d \in State, fin \in State : Moves(s, st, d, fin)
  BY <1>1, <1>2, StepFacts
<1>4. /\ enqueued \in BOOLEAN /\ actor \in BOOLEAN /\ value \in BOOLEAN
      /\ "enqueued" \in st <=> enqueued
      /\ "actor" \in st <=> actor
      /\ "value" \in st <=> value
      /\ "current" \in st => params = global_step
      /\ "initial" \in st => params = 0
      /\ "copy" \in st => copied = global_step
      /\ ~raised /\ "raises" \notin st
      /\ todo' = Tail(todo) /\ UNCHANGED setup
      /\ d = After(st, s)
  BY <1>1, <1>3, FactsBefore
<1>5. /\ raised' = raised /\ params' = params /\ copied' = copied /\ global_step' = global_step
  BY <1>1 DEF workerVars, modelVars
<1>6. d = CASE s \in {"start_actor", "actor_to_gpu"} -> st \cup {"actor"}
            [] s = "actor_to_cpu" -> st \ {"actor"}
            [] s \in {"start_value", "value_to_gpu"} -> st \cup {"value"}
            [] s = "value_to_cpu" -> st \ {"value"}
            [] s = "enqueue" -> st \cup {"enqueued"}
  BY <1>4, AfterIs
<1>7. /\ \A x \in {"raises", "shared", "current", "initial", "copy", "ready", "fresh"} :
            x \in d <=> x \in st
      /\ d \cap Tags = st \cap Tags
  BY <1>6 DEF Tags
<1>8. /\ enqueued' \in BOOLEAN /\ actor' \in BOOLEAN /\ value' \in BOOLEAN
      /\ "enqueued" \in d <=> enqueued'
      /\ "actor" \in d <=> actor'
      /\ "value" \in d <=> value'
  <2>1. CASE s \in {"start_actor", "actor_to_gpu"}
    <3>1. d = st \cup {"actor"}
      BY <1>6, <2>1
    <3>2. actor' = TRUE /\ UNCHANGED <<value, enqueued>>
      BY <1>1, <2>1
    <3> QED BY <1>4, <3>1, <3>2
  <2>2. CASE s = "actor_to_cpu"
    <3>1. d = st \ {"actor"}
      BY <1>6, <2>2
    <3>2. actor' = FALSE /\ UNCHANGED <<value, enqueued>>
      BY <1>1, <2>2
    <3> QED BY <1>4, <3>1, <3>2
  <2>3. CASE s \in {"start_value", "value_to_gpu"}
    <3>1. d = st \cup {"value"}
      BY <1>6, <2>3
    <3>2. value' = TRUE /\ UNCHANGED <<actor, enqueued>>
      BY <1>1, <2>3
    <3> QED BY <1>4, <3>1, <3>2
  <2>4. CASE s = "value_to_cpu"
    <3>1. d = st \ {"value"}
      BY <1>6, <2>4
    <3>2. value' = FALSE /\ UNCHANGED <<actor, enqueued>>
      BY <1>1, <2>4
    <3> QED BY <1>4, <3>1, <3>2
  <2>5. CASE s = "enqueue"
    <3>1. d = st \cup {"enqueued"}
      BY <1>6, <2>5
    <3>2. enqueued' = TRUE /\ UNCHANGED <<actor, value>>
      BY <1>1, <2>5
    <3> QED BY <1>4, <3>1, <3>2
  <2> QED BY <2>1, <2>2, <2>3, <2>4, <2>5
<1>9. Matches(d)'
  BY <1>3, <1>4, <1>5, <1>7, <1>8, OthersStay
<1>10. \A e \in Engines : Answers(e, d)'
  BY <1>1, <1>3, <1>5, <1>7, EnginesStay
<1> QED BY <1>3, <1>4, <1>9, <1>10, StepTo

\* The actor's weights are swapped, loaded or trained.
LEMMA ModelPhase ==
    ASSUME TrainInv, SwapWeights \/ LoadCheckpoint \/ Compute \/ TrainValue \/ TrainActor
    PROVE  Phase'
<1> DEFINE idle == {"compute_values", "train_value", "compute_ref", "compute_old", "eval"}
<1>1. PICK s \in idle \cup {"copy_weights", "load_teacher", "apply_init", "apply_copy",
                            "load_checkpoint", "train_actor"} :
        /\ Step(s) /\ UNCHANGED <<workerVars, enqueued, actor, value>>
        /\ s \in idle => UNCHANGED <<params, copied, global_step>>
        /\ s = "copy_weights" => copied' = params /\ UNCHANGED <<params, global_step>>
        /\ s = "load_teacher" => UNCHANGED <<copied, global_step>>
        /\ s = "apply_init" => params' = 0 /\ UNCHANGED <<copied, global_step>>
        /\ s = "apply_copy" => params' = copied /\ UNCHANGED <<copied, global_step>>
        /\ s \in {"load_checkpoint", "train_actor"} => params' = global_step'
  <2>1. CASE SwapWeights
    BY <2>1 DEF SwapWeights
  <2>2. CASE LoadCheckpoint
    BY <2>2 DEF LoadCheckpoint
  <2>3. CASE Compute
    BY <2>3 DEF Compute, modelVars
  <2>4. CASE TrainValue
    BY <2>4 DEF TrainValue
  <2>5. CASE TrainActor
    BY <2>5 DEF TrainActor
  <2> QED BY <2>1, <2>2, <2>3, <2>4, <2>5
<1>2. s \in Steps \ {"shutdown"}
  BY DEF Steps
<1>3. PICK st \in State, d \in State, fin \in State : Moves(s, st, d, fin)
  BY <1>1, <1>2, StepFacts
<1>4. /\ enqueued \in BOOLEAN /\ actor \in BOOLEAN /\ value \in BOOLEAN
      /\ "enqueued" \in st <=> enqueued
      /\ "actor" \in st <=> actor
      /\ "value" \in st <=> value
      /\ "current" \in st => params = global_step
      /\ "initial" \in st => params = 0
      /\ "copy" \in st => copied = global_step
      /\ ~raised /\ "raises" \notin st
      /\ todo' = Tail(todo) /\ UNCHANGED setup
      /\ d = After(st, s)
  BY <1>1, <1>3, FactsBefore
<1>5. raised' = raised /\ enqueued' = enqueued /\ actor' = actor /\ value' = value
  BY <1>1 DEF workerVars
<1>6. /\ s \in idle => d = st
      /\ s = "copy_weights" => d = (st \ {"copy"}) \cup (IF "current" \in st THEN {"copy"} ELSE {})
      /\ s = "load_teacher" => d = st \ {"current", "initial"}
      /\ s = "apply_init" => d = (st \ {"current"}) \cup {"initial"}
      /\ s = "apply_copy" =>
            d = (st \ {"current", "initial"}) \cup (IF "copy" \in st THEN {"current"} ELSE {})
      /\ s \in {"load_checkpoint", "train_actor"} =>
            d = (st \ {"fresh", "copy", "initial"}) \cup {"current"}
  BY <1>4, AfterTraining
<1>7. /\ \A x \in {"raises", "shared", "enqueued", "actor", "value", "ready"} : x \in d <=> x \in st
      /\ d \cap Tags = st \cap Tags
      /\ "fresh" \in d => "fresh" \in st /\ s \notin {"load_checkpoint", "train_actor"}
  BY <1>6 DEF Tags
<1>8. s \notin {"load_checkpoint", "train_actor"} => global_step' = global_step
  BY <1>1
<1>9. /\ "current" \in d => params' = global_step'
      /\ "initial" \in d => params' = 0
      /\ "copy" \in d => copied' = global_step'
  <2>1. CASE s \in idle
    BY <1>1, <1>4, <1>6, <2>1
  <2>2. CASE s = "copy_weights"
    BY <1>1, <1>4, <1>6, <2>2
  <2>3. CASE s = "load_teacher"
    BY <1>1, <1>4, <1>6, <2>3
  <2>4. CASE s = "apply_init"
    BY <1>1, <1>4, <1>6, <2>4
  <2>5. CASE s = "apply_copy"
    BY <1>1, <1>4, <1>6, <2>5
  <2>6. CASE s \in {"load_checkpoint", "train_actor"}
    BY <1>1, <1>4, <1>6, <2>6
  <2> QED BY <2>1, <2>2, <2>3, <2>4, <2>5, <2>6
<1>10. Matches(d)'
  BY <1>3, <1>4, <1>5, <1>7, <1>9, OthersStay
<1>11. \A e \in Engines : Answers(e, d)'
  BY <1>1, <1>3, <1>7, <1>8, EnginesStay
<1> QED BY <1>3, <1>4, <1>10, <1>11, StepTo

\* The engines start with the weights of step 0, which the actor also starts with.
LEMMA StartEnginesPhase ==
    ASSUME TrainInv, StartEngines
    PROVE  Phase'
<1>1. /\ Step("start_engines")
      /\ onGpu' = [e \in Engines |-> Tags] /\ weights' = [e \in Engines |-> 0]
      /\ UNCHANGED <<ready, inbox, call, control, raised, enqueued, actor, value>>
      /\ UNCHANGED <<params, copied, global_step>>
  BY DEF StartEngines, modelVars
<1>2. "start_engines" \in Steps \ {"shutdown"}
  BY DEF Steps
<1>3. PICK st \in State, d \in State, fin \in State : Moves("start_engines", st, d, fin)
  BY <1>1, <1>2, StepFacts
<1>4. /\ enqueued \in BOOLEAN /\ actor \in BOOLEAN /\ value \in BOOLEAN
      /\ "enqueued" \in st <=> enqueued
      /\ "actor" \in st <=> actor
      /\ "value" \in st <=> value
      /\ "current" \in st => params = global_step
      /\ "initial" \in st => params = 0
      /\ "copy" \in st => copied = global_step
      /\ ~raised /\ "raises" \notin st
      /\ todo' = Tail(todo) /\ UNCHANGED setup
      /\ d = After(st, "start_engines")
  BY <1>1, <1>3, FactsBefore
<1>5. d = st \cup {"weights", "kv_cache", "fresh"}
  BY <1>4, AfterIs
<1>6. /\ \A x \in {"raises", "shared", "enqueued", "actor", "value", "ready", "current", "initial",
                   "copy"} : x \in d <=> x \in st
      /\ d \cap Tags = Tags
  BY <1>5 DEF Tags
<1>7. global_step = 0
  <2>1. "current" \in st /\ "initial" \in st
    BY <1>3 DEF Moves, Needs
  <2> QED BY <1>4, <2>1
<1>8. Matches(d)'
  BY <1>1, <1>3, <1>4, <1>6, OthersStay
<1>9. ASSUME NEW e \in Engines PROVE Answers(e, d)'
  <2>1. control[e] = NoCall /\ At(e, st)
    BY <1>3 DEF Moves
  <2>2. ready[e] = ("ready" \in d)
    <3>1. ready[e] = ("ready" \in st)
      BY <2>1 DEF At
    <3>2. ("ready" \in d) = ("ready" \in st)
      BY <1>6
    <3> QED BY <3>1, <3>2, Zenon
  <2>3. onGpu'[e] = d \cap Tags /\ weights'[e] = global_step'
    BY <1>1, <1>6, <1>7
  <2>4. At(e, d)'
    BY <1>1, <2>2, <2>3 DEF At
  <2> QED BY <1>1, <2>1, <2>4 DEF Answers
<1> QED BY <1>3, <1>4, <1>8, <1>9, StepTo

\* A call to the engines waits in their inboxes, and what they will answer is known.
LEMMA CallPhase ==
    ASSUME TrainInv, UpdateRolloutModelWeights \/ \E s \in EngineOps : CallRolloutWorker(s)
    PROVE  Phase'
<1>1. PICK s \in EngineOps \cup {"update"}, o \in AnyControl :
        /\ Step(s) /\ CallEngines([e \in Engines |-> o]) /\ o.op = s
        /\ s = "update" => o.version = params
        /\ UNCHANGED <<enqueued, actor, value, params, copied, global_step>>
  <2>1. CASE UpdateRolloutModelWeights
    <3>1. /\ Update(params).op = "update" /\ Update(params).version = params
          /\ Update(params) \in AnyControl
      BY DEF Update, AnyControl, OpNames, TrainInv, TrainTypes
    <3> QED BY <2>1, <3>1 DEF UpdateRolloutModelWeights, modelVars
  <2>2. ASSUME NEW s \in EngineOps, CallRolloutWorker(s)
        PROVE  /\ Step(s) /\ CallEngines([e \in Engines |-> Op(s)]) /\ Op(s).op = s
               /\ UNCHANGED <<enqueued, actor, value, params, copied, global_step>>
               /\ s # "update" /\ Op(s) \in AnyControl
    BY <2>2 DEF CallRolloutWorker, modelVars, Op, EngineOps, AnyControl, OpNames
  <2> QED BY <2>1, <2>2
<1>2. s \in Steps \ {"shutdown"}
  BY DEF Steps, EngineOps
<1>3. PICK st \in State, d \in State, fin \in State : Moves(s, st, d, fin)
  BY <1>1, <1>2, StepFacts
<1>4. /\ "enqueued" \in st <=> enqueued
      /\ "actor" \in st <=> actor
      /\ "value" \in st <=> value
      /\ "current" \in st => params = global_step
      /\ "initial" \in st => params = 0
      /\ "copy" \in st => copied = global_step
      /\ ~raised /\ "raises" \notin st
      /\ todo' = Tail(todo) /\ UNCHANGED setup
      /\ d = After(st, s)
  BY <1>1, <1>3, FactsBefore
<1>5. /\ UNCHANGED <<ready, onGpu, weights, raised>>
      /\ control' = [e \in Engines |-> o]
      /\ inbox' = [e \in Engines |-> Append(inbox[e], Driver)]
  BY <1>1 DEF CallEngines
<1>6. /\ \A x \in {"shared", "actor", "value", "enqueued", "current", "initial", "copy"} :
            x \in d <=> x \in st
      /\ "raises" \in d => s = "update" /\ "ready" \in st
  BY <1>4, AfterCall
<1>7. /\ Fine(st) /\ Needs(st, s) /\ Matches(st) /\ \A e \in Engines : At(e, st)
  BY <1>3 DEF Moves
<1>8. Matches(d)'
  <2>1. Placement' = Placement
    BY <1>4 DEF Placement, MegatronGroup, NeedsRolloutWorker, NeedsMegatronWorker, Colocated, Ppo
  <2>2. /\ ("shared" \in d) = ("shared" \in st) /\ ("enqueued" \in d) = ("enqueued" \in st)
        /\ ("actor" \in d) = ("actor" \in st) /\ ("value" \in d) = ("value" \in st)
    BY <1>6
  <2>3. /\ ("shared" \in d) = (Placement'.rollout = Placement'.megatron)
        /\ enqueued' = ("enqueued" \in d) /\ actor' = ("actor" \in d) /\ value' = ("value" \in d)
    <3>1. /\ ("shared" \in st) = (Placement.rollout = Placement.megatron)
          /\ enqueued = ("enqueued" \in st) /\ actor = ("actor" \in st) /\ value = ("value" \in st)
      BY <1>7 DEF Matches
    <3>2. enqueued' = enqueued /\ actor' = actor /\ value' = value
      BY <1>1
    <3> QED BY <2>1, <2>2, <3>1, <3>2, Zenon
  <2>4. "raises" \in d => \A e \in Engines : control'[e].op = "update" /\ ready'[e]
    BY <1>1, <1>5, <1>6, <1>7 DEF At
  <2>5. /\ "current" \in d => params' = global_step'
        /\ "initial" \in d => params' = 0
        /\ "copy" \in d => copied' = global_step'
        /\ ~raised'
    BY <1>1, <1>4, <1>5, <1>6
  <2> QED BY <2>3, <2>4, <2>5 DEF Matches
<1>9. ASSUME NEW e \in Engines PROVE Answers(e, d)'
  <2>1. control'[e] = o
    BY <1>5
  <2>2. Waits(e)'
    <3>1. inbox[e] \in Seq(Clients \cup {Driver}) /\ Driver \in Clients \cup {Driver}
      BY DEF TrainInv, WorkerInv, WorkerTypes
    <3>2. /\ Append(inbox[e], Driver)[Len(inbox[e]) + 1] = Driver
          /\ Len(inbox[e]) + 1 \in Pos(Append(inbox[e], Driver))
          /\ DOMAIN Append(inbox[e], Driver) = Pos(Append(inbox[e], Driver))
      BY <3>1, InboxAppend
    <3>3. inbox'[e] = Append(inbox[e], Driver)
      BY <1>5
    <3> QED BY <3>2, <3>3 DEF Waits
  <2>3. At(e, st)'
    BY <1>1, <1>5, <1>7 DEF At
  <2>4. s = "update" => o.version = global_step'
    BY <1>1, <1>4, <1>7 DEF Needs
  <2>5. Comes(e, d, st)'
    BY <1>1, <1>4, <1>7, <2>1, <2>2, <2>3, <2>4 DEF Comes
  <2> QED BY <2>5 DEF Answers
<1> QED BY <1>3, <1>4, <1>8, <1>9, StepTo

\* Where only the plan changes, the facts stay.
LEMMA SameFacts ==
    ASSUME UNCHANGED <<workerVars, setup, enqueued, actor, value, modelVars>>,
           NEW st, Matches(st), \A e \in Engines : Answers(e, st)
    PROVE  /\ Matches(st)' /\ \A e \in Engines : Answers(e, st)'
           /\ \A fin : AtRest(fin) => AtRest(fin)'
<1>1. /\ UNCHANGED <<ready, onGpu, weights, inbox, control, raised>>
      /\ UNCHANGED <<setup, enqueued, actor, value, params, copied, global_step>>
  BY DEF workerVars, modelVars
<1>2. Matches(st)'
  BY <1>1 DEF Matches, Placement, MegatronGroup, NeedsRolloutWorker, NeedsMegatronWorker, Colocated, Ppo
<1>3. ASSUME NEW e \in Engines PROVE Answers(e, st)'
  <2>1. Waits(e)' <=> Waits(e)
    BY <1>1 DEF Waits
  <2> QED BY <1>1, <2>1, AnswersStay
<1>4. ASSUME NEW fin, AtRest(fin) PROVE AtRest(fin)'
  BY <1>1, <1>4 DEF AtRest, Resting, Rest
<1> QED BY <1>2, <1>3, <1>4

\* A step that fails leaves the shutdown.
LEMMA FailsPhase ==
    ASSUME TrainInv, Fails
    PROVE  Phase'
<1>1. /\ todo # <<>> /\ todo' = <<"shutdown">>
      /\ UNCHANGED <<workerVars, setup, enqueued, actor, value, modelVars>>
  BY DEF Fails
<1>2. PICK st \in State, fin \in State : On(st, fin)
  BY DEF TrainInv, Phase
<1>3. Fine(st) /\ Matches(st) /\ (\A e \in Engines : Answers(e, st)) /\ setup.mode # "ended" /\ AtRest(fin)
  BY <1>1, <1>2 DEF On
<1>4. Leads({st}, <<"shutdown">>, {fin})
  <2>1. {st} \in SUBSET State /\ {fin} \in SUBSET State /\ {fin} # {}
    OBVIOUS
  <2> QED BY <2>1, ShutdownLeads
<1>5. Runs(st, todo', fin)
  BY <1>1, <1>4 DEF Leads
<1>6. Matches(st)' /\ (\A e \in Engines : Answers(e, st)') /\ AtRest(fin)'
  BY <1>1, <1>3, SameFacts
<1>7. On(st, fin)'
  BY <1>1, <1>3, <1>5, <1>6 DEF On
<1> QED BY <1>7 DEF Phase

\* The shutdown takes everything from the GPU.
LEMMA ShutdownPhase ==
    ASSUME TrainInv, Shutdown
    PROVE  Phase'
<1>1. /\ todo' = <<>> /\ setup' = [setup EXCEPT !.mode = "ended"] /\ Returned
      /\ enqueued' = FALSE /\ actor' = FALSE /\ value' = FALSE
      /\ onGpu' = [e \in Engines |-> {}] /\ UNCHANGED <<ready, control, raised>>
  BY DEF Shutdown, ShutdownRolloutActors, ShutdownPipelineWorkers
<1>2. PICK st \in State, fin \in State : On(st, fin)
  BY DEF TrainInv, Phase
<1>3. Matches(st) /\ \A e \in Engines : Answers(e, st)
  BY <1>2 DEF On
<1>4. \A e \in Engines : control[e] = NoCall /\ At(e, st)
  BY <1>1, <1>3, AllAnswered
<1> DEFINE d == (st \cap {"ready", "raises"}) \cup {"shared"}
<1>5. d \in State /\ Fine(d)
  BY DEF State, Facts, Fine, Tags
<1>6. /\ "ready" \in d <=> "ready" \in st
      /\ "raises" \in d <=> "raises" \in st
      /\ "shared" \in d
      /\ \A x \in Tags \cup {"enqueued", "actor", "value", "current", "initial", "copy", "fresh"} : x \notin d
  BY DEF Tags
<1> HIDE DEF d
<1>7. Matches(d)'
  <2>1. setup'.mode = "ended"
    BY <1>1 DEF TrainInv, SetupOK
  <2>2. Placement'.rollout = Placement'.megatron
    BY <2>1 DEF Placement, MegatronGroup, NeedsRolloutWorker, NeedsMegatronWorker
  <2>3. raised' => "raises" \in d
    BY <1>1, <1>3, <1>6 DEF Matches
  <2>4. "raises" \in d => raised'
    <3>1. PICK e \in Engines : TRUE
      BY TrainAssumption
    <3>2. control[e].op # "update"
      BY <1>4, <3>1 DEF NoCall, Op
    <3> QED BY <1>1, <1>3, <1>6, <3>2 DEF Matches
  <2>5. /\ enqueued' = ("enqueued" \in d) /\ actor' = ("actor" \in d) /\ value' = ("value" \in d)
        /\ ("shared" \in d) = (Placement'.rollout = Placement'.megatron)
    <3>1. ("enqueued" \in d) = FALSE /\ ("actor" \in d) = FALSE /\ ("value" \in d) = FALSE
      BY <1>6
    <3>2. ("shared" \in d) = TRUE /\ (Placement'.rollout = Placement'.megatron) = TRUE
      BY <1>6, <2>2
    <3> QED BY <1>1, <3>1, <3>2, Zenon
  <2> QED BY <1>6, <2>3, <2>4, <2>5 DEF Matches
<1>8. ASSUME NEW e \in Engines PROVE Answers(e, d)'
  <2>1. ready[e] = ("ready" \in d)
    <3>1. ready[e] = ("ready" \in st)
      BY <1>4 DEF At
    <3>2. ("ready" \in d) = ("ready" \in st)
      BY <1>6
    <3> QED BY <3>1, <3>2, Zenon
  <2>2. onGpu'[e] = d \cap Tags
    BY <1>1, <1>6
  <2>3. At(e, d)'
    BY <1>1, <1>6, <2>1, <2>2 DEF At
  <2> QED BY <1>1, <1>4, <2>3 DEF Answers
<1>9. Runs(d, <<>>, d)
  <2>1. Leads({d}, <<>>, {d})
    BY <1>5, NoStep
  <2> QED BY <2>1 DEF Leads
<1>10. On(d, d)'
  <2>1. setup'.mode = "ended"
    BY <1>1 DEF TrainInv, SetupOK
  <2> QED BY <1>1, <1>5, <1>7, <1>8, <1>9, <2>1 DEF On
<1> QED BY <1>5, <1>10 DEF Phase

\* A plan that starts where the controller waits leads to where it waits again.
LEMMA GoesInv ==
    ASSUME TrainInv, Goes
    PROVE  Phase' /\ TrainTypes'
<1>1. /\ UNCHANGED <<workerVars, setup, enqueued, actor, value, modelVars>>
      /\ todo = <<>> /\ setup.mode # "ended"
  BY GoesFrame DEF Waiting
<1>2. PICK st \in State, fin \in State : On(st, fin)
  BY DEF TrainInv, Phase
<1>3. Fine(st) /\ Matches(st) /\ (\A e \in Engines : Answers(e, st)) /\ AtRest(fin) /\ st = fin
  BY <1>1, <1>2, NothingLeft DEF On
<1>4. ASSUME setup.mode \in {"online_rl_train", "mismatch_test"} PROVE Colocated /\ st \in Resting
  <2>1. st \in Resting
    BY <1>3, <1>4 DEF AtRest
  <2>2. "shared" \in st
    BY <2>1 DEF Resting, Rest, Know
  <2>3. Placement.rollout = Placement.megatron
    BY <1>3, <2>2 DEF Matches
  <2> QED BY <1>4, <2>1, <2>3 DEF Placement, MegatronGroup, NeedsRolloutWorker, NeedsMegatronWorker, NoGroup
<1>5. \E fin2 \in State : Leads({st}, todo', {fin2}) /\ AtRest(fin2)
  <2>1. ASSUME NEW plan, Leads(Resting, plan, Resting), st \in Resting
        PROVE  \E fin2 \in State : Leads({st}, plan, {fin2}) /\ AtRest(fin2)
    <3>1. PICK fin2 \in Resting : Runs(st, plan, fin2)
      BY <2>1 DEF Leads
    <3>2. fin2 \in State /\ plan \in Seq(Steps)
      BY <2>1, <3>1 DEF Leads
    <3> QED BY <3>1, <3>2 DEF Leads, AtRest
  <2>2. CASE BeginBatch
    <3>1. setup.mode = "online_rl_train"
          /\ todo' = SwitchToOnlineTrainPhase \o PrepareSamples \o TrainSamples \o SyncRollout
      BY <2>2 DEF BeginBatch, Continue
    <3>2. TrainsActor
      BY DEF TrainsActor, Ppo, TrainInv, SetupOK, TrainTypes
    <3> QED BY <1>4, <2>1, <3>1, <3>2, BatchLeads
  <2>3. CASE EndSchedule
    BY <1>4, <2>1, <2>3, StartRolloutsLeads DEF EndSchedule, Continue
  <2>4. CASE BeginMismatchLogprobs
    BY <1>4, <2>1, <2>4, MismatchLogprobsLeads DEF BeginMismatchLogprobs, Continue
  <2>5. CASE EndRun
    <3>1. todo' = <<"shutdown">>
      BY <2>5 DEF EndRun, Continue
    <3>2. {st} \in SUBSET State /\ {fin} \in SUBSET State /\ {fin} # {}
      OBVIOUS
    <3>3. Leads({st}, <<"shutdown">>, {fin})
      BY <3>2, ShutdownLeads
    <3> QED BY <1>3, <3>1, <3>3
  <2> QED BY <2>2, <2>3, <2>4, <2>5 DEF Goes
<1>6. PICK fin2 \in State : Leads({st}, todo', {fin2}) /\ AtRest(fin2)
  BY <1>5
<1>7. Runs(st, todo', fin2) /\ todo' \in Seq(Steps)
  BY <1>6 DEF Leads
<1>8. Matches(st)' /\ (\A e \in Engines : Answers(e, st)') /\ AtRest(fin2)'
  BY <1>1, <1>3, <1>6, SameFacts
<1>9. On(st, fin2)'
  BY <1>1, <1>3, <1>7, <1>8 DEF On
<1>10. TrainTypes'
  BY <1>1, <1>7 DEF TrainInv, TrainTypes, modelVars
<1> QED BY <1>9, <1>10 DEF Phase

\* Every step leads on along the plan.
LEMMA NextPhase ==
    ASSUME TrainInv, [Next]_vars
    PROVE  Phase'
<1>1. CASE OwnStep
  BY <1>1, WorkerPhase, ModelPhase DEF OwnStep
<1>2. CASE EngineStep
  BY <1>2, StartEnginesPhase, CallPhase DEF EngineStep
<1>3. CASE UNCHANGED vars
  <2>1. PICK st \in State, fin \in State : On(st, fin)
    BY DEF TrainInv, Phase
  <2>2. UNCHANGED <<workerVars, setup, enqueued, actor, value, modelVars>> /\ todo' = todo
    BY <1>3 DEF vars, trainVars
  <2>3. /\ Matches(st) /\ \A e \in Engines : Answers(e, st)
    BY <2>1 DEF On
  <2>4. Matches(st)' /\ (\A e \in Engines : Answers(e, st)') /\ (AtRest(fin) => AtRest(fin)')
    BY <2>2, <2>3, SameFacts
  <2>5. On(st, fin)'
    BY <2>1, <2>2, <2>4 DEF On
  <2> QED BY <2>5 DEF Phase
<1> QED BY <1>1, <1>2, <1>3, NextCases, ShutdownPhase, FailsPhase, GoesInv, GeneratePhase, ControlPhase
      DEF RolloutGenerates

\* Every step keeps the invariant.
LEMMA TrainInvInductive ==
    ASSUME TrainInv, [Next]_vars
    PROVE  TrainInv'
<1>1. SetupOK' /\ TrainTypes'
  BY NextTypes, GoesInv
<1> QED BY <1>1, NextWorkerInv, NextQueued, NextTokens, NextPhase DEF TrainInv

\* The value model is trained alone in no configuration.
NoWarmup == \A c \in Setups : c.ppo => NumValueOnly = 0

\* The run starts with nothing on the GPU, and the weights of step 0.
LEMMA TrainInitInv ==
    ASSUME NoWarmup, Init
    PROVE  TrainInv
<1>1. /\ WorkerInit /\ onGpu = [e \in Engines |-> {}]
      /\ setup \in Setups /\ enqueued = FALSE /\ actor = FALSE /\ value = FALSE
      /\ params = 0 /\ copied = 0 /\ global_step = 0 /\ value_step = 0 /\ Start
  BY DEF Init
<1>2. WorkerInv
  BY <1>1, WorkerInitInv
<1>3. SetupOK /\ setup.mode \in RunModes
  BY <1>1, TrainAssumption DEF NoWarmup, SetupOK
<1>4. Queued
  BY <1>1 DEF WorkerInit, Queued, Pos
<1>5. Tokens
  <2>1. \A c \in Clients : call[c].out = <<>> /\ call[c].st = "idle"
    BY <1>1 DEF WorkerInit, GenCall
  <2>2. Pos(<<>>) = {}
    BY DEF Pos
  <2> QED BY <2>1, <2>2 DEF Tokens, Ordered, OneStepOnly
<1> DEFINE shared == IF Placement.rollout = Placement.megatron THEN {"shared"} ELSE {}
           st == shared \cup {"ready", "current", "initial"}
<1>6. /\ st \in State /\ Fine(st) /\ st \in Boot({})
      /\ "shared" \in st <=> Placement.rollout = Placement.megatron
      /\ "ready" \in st
      /\ \A x \in Tags \cup {"enqueued", "actor", "value", "copy", "fresh", "raises"} : x \notin st
  BY DEF State, Facts, Fine, Tags, Boot, Know
<1>7. setup.mode \in {"online_rl_train", "mismatch_test"} => st \in Boot(Together)
  <2>1. CASE Colocated /\ setup.mode \in {"online_rl_train", "mismatch_test"}
    <3>1. Placement.rollout = Placement.megatron
      BY <2>1 DEF Placement, MegatronGroup, NeedsRolloutWorker, NeedsMegatronWorker
    <3>2. st = {"shared"} \cup {"ready", "current", "initial"}
      BY <3>1
    <3> HIDE DEF st
    <3> QED BY <1>6, <2>1, <3>2 DEF Boot, Know, Together
  <2>2. CASE ~Colocated
    BY <1>6, <2>2 DEF Together
  <2> QED BY <2>1, <2>2
<1> HIDE DEF shared, st
<1>8. \E fin \in State : Runs(st, todo, fin) /\ AtRest(fin) /\ todo \in Seq(Steps)
  <2>1. CASE setup.mode \in {"online_rl_train", "mismatch_test"}
    BY <1>1, <1>3, <1>7, <2>1, StartLeads DEF Leads, AtRest
  <2>2. CASE setup.mode \in {"sft_train", "replay_rl_train"}
    BY <1>1, <1>3, <1>6, <2>2, StartLeads DEF Leads, AtRest
  <2>3. CASE setup.mode = "eval_only"
    BY <1>1, <1>3, <1>6, <2>3, StartLeads DEF Leads, AtRest
  <2> QED BY <1>3, <2>1, <2>2, <2>3 DEF RunModes
<1>9. PICK fin \in State : Runs(st, todo, fin) /\ AtRest(fin) /\ todo \in Seq(Steps)
  BY <1>8
<1>10. TrainTypes
  <2>1. enqueued \in BOOLEAN /\ actor \in BOOLEAN /\ value \in BOOLEAN
    BY <1>1
  <2>2. global_step \in Nat /\ value_step \in Nat /\ params \in Int /\ copied \in Int
    BY <1>1
  <2> QED BY <1>9, <2>1, <2>2 DEF TrainTypes
<1>11. Matches(st)
  <2>1. /\ enqueued = ("enqueued" \in st) /\ actor = ("actor" \in st) /\ value = ("value" \in st)
        /\ ("shared" \in st) = (Placement.rollout = Placement.megatron)
    <3>1. ("enqueued" \in st) = FALSE /\ ("actor" \in st) = FALSE /\ ("value" \in st) = FALSE
      BY <1>6
    <3>2. ("shared" \in st) = (Placement.rollout = Placement.megatron)
      BY <1>6
    <3> QED BY <1>1, <3>1, <3>2, Zenon
  <2>2. ~raised
    BY <1>1 DEF WorkerInit
  <2> QED BY <1>1, <1>6, <2>1, <2>2 DEF Matches
<1>12. ASSUME NEW e \in Engines PROVE Answers(e, st)
  <2>1. ready[e] = ("ready" \in st)
    <3>1. ("ready" \in st) = TRUE /\ ready[e] = TRUE
      BY <1>1, <1>6 DEF WorkerInit
    <3> QED BY <3>1, Zenon
  <2>2. onGpu[e] = st \cap Tags
    BY <1>1, <1>6
  <2>3. control[e] = NoCall
    BY <1>1 DEF WorkerInit
  <2> QED BY <1>6, <2>1, <2>2, <2>3 DEF Answers, At
<1>13. On(st, fin)
  <2>1. setup.mode # "ended"
    BY <1>3 DEF RunModes
  <2> QED BY <1>6, <1>9, <1>11, <1>12, <2>1 DEF On
<1> QED BY <1>2, <1>3, <1>4, <1>5, <1>6, <1>10, <1>13 DEF TrainInv, Phase

\* In every run mode, with any number of engines, rollouts, epochs, updates and
\* checkpoints, whatever fails: the engines serve the weights of the last update from
\* resident memory, a call returns tokens of policies in their order, the two Megatron
\* workers and the engines share the GPU as the stage managers plan it, and an engine that
\* has answered a pause is quiet until it resumes.
THEOREM PolicyIsServed ==
    ASSUME NoWarmup
    PROVE  Spec => [](PolicyServed /\ QuietWhenPaused)
<1>1. Init => TrainInv
  BY TrainInitInv
<1>2. TrainInv /\ [Next]_vars => TrainInv'
  BY TrainInvInductive
<1>3. TrainInv => PolicyServed /\ QuietWhenPaused
  BY ServesCurrent, SegmentsOrdered, SharedAsPlanned DEF PolicyServed, TrainInv, WorkerInv
<1> QED BY <1>1, <1>2, <1>3, PTL DEF Spec

\* Nor does any step of the run, the start of the engines included, put other weights into
\* an engine that works on a request.
THEOREM RunUpdatesQuietly ==
    ASSUME NoWarmup
    PROVE  Spec => UpdatesAreQuiet
<1> DEFINE Good == \A e \in Engines : weights'[e] \notin {weights[e], Lost} => Working(e) = {}
<1>1. Init => TrainInv
  BY TrainInitInv
<1>2. TrainInv /\ [Next]_vars => TrainInv'
  BY TrainInvInductive
<1>3. TrainInv /\ [Next]_vars => [Good]_workerVars
  <2> SUFFICES ASSUME TrainInv, [Next]_vars, NEW f \in Engines, weights'[f] \notin {weights[f], Lost}
               PROVE  Working(f) = {}
    OBVIOUS
  <2>1. weights \in [Engines -> Int] /\ WorkerInv
    BY DEF TrainInv, WorkerInv, WorkerTypes
  <2>2. CASE \E e \in Engines : ControlStep(e)
    <3>1. PICK e \in Engines : ControlStep(e)
      BY <2>2
    <3>2. UpdateWeights(e)
      BY <2>1, <3>1 DEF ControlStep, PauseGenerationAgain, PauseGeneration, Paused, ResumeGeneration,
                ReleaseGpuMemory, ResumeWeights, ResumeKvCache
    <3>3. f = e /\ ~ready[e] /\ Control(e, "update")
      BY <2>1, <3>2 DEF UpdateWeights
    <3>4. ~Pausing(e)
      BY <2>1, <3>3, ControlInbox
    <3> QED BY <2>1, <3>3, <3>4 DEF WorkerInv, QuietWhenPaused
  <2>3. CASE StartEngines
    <3>1. Step("start_engines") /\ "start_engines" \in Steps \ {"shutdown"}
      BY <2>3 DEF StartEngines, Steps
    <3>2. PICK st \in State, d \in State, fin \in State : Moves("start_engines", st, d, fin)
      BY <3>1, StepFacts
    <3>3. ~enqueued
      BY <3>1, <3>2, FactsBefore DEF Moves, Needs
    <3> QED BY <3>3 DEF TrainInv, Tokens, Working, OnEngine
  <2>4. weights'[f] # weights[f] /\ weights'[f] # Lost
    OBVIOUS
  <2>5. CASE Shutdown
    BY <2>4, <2>5 DEF Shutdown, ShutdownPipelineWorkers
  <2>6. CASE weights' = weights
    BY <2>4, <2>6
  <2>7. \/ \E e \in Engines : ControlStep(e)
        \/ StartEngines
        \/ Shutdown
        \/ weights' = weights
    BY NextCases, OwnStepFrame, GoesFrame DEF EngineStep, UpdateRolloutModelWeights, CallRolloutWorker,
       CallEngines, Fails, RolloutGenerates, Generate, GenerateStep, StartGenerate, Decode, Finish,
       Abort, vars, workerVars
  <2> QED BY <2>2, <2>3, <2>5, <2>6, <2>7
<1> QED BY <1>1, <1>2, <1>3, PTL DEF Spec, UpdatesAreQuiet
============================================================================
