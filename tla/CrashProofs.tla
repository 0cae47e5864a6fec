---------------------------- MODULE CrashProofs ----------------------------
(***************************************************************************)
(* Proofs about the two components whose processes die under them.         *)
(*                                                                         *)
(* Checkpointing: what a restart loads belongs together, and a process     *)
(* that ends outside the two writes of a checkpoint resumes within one     *)
(* interval, for every stride, interval, number of retries, of crashes and *)
(* of kept exports.                                                        *)
(*                                                                         *)
(* The processor pool, for any calls and any number of workers: whatever   *)
(* times out, crashes or is killed, self.tasks holds exactly the calls     *)
(* whose answer is still to come, so no call is answered twice.            *)
(***************************************************************************)
EXTENDS Checkpoint, ProcessorPool, FiniteSetTheorems, TLAPS

---------------------------------------------------------------------------
(* Checkpointing. *)

\* Between due checkpoints: what is being saved, or was saved by this process.
Saving == {"save_actor", "save_extra", "save_hf", "fill_hf", "cleanup", "save_value"}

\* Progress: the actor on disk is at most one interval behind, at a multiple of
\* the interval; memory is strictly less than one interval ahead unless its
\* checkpoint is due; once the actor is written memory and disk are level.
WithinInterval ==
    /\ actor.step % Interval = 0
    /\ reached <= actor.step + Interval
    /\ pc \in Saving \cup {"train"} => global_step % Stride = 0 /\ actor.step <= global_step
    /\ pc = "train" => global_step < actor.step + Interval
    /\ pc \in Saving =>
         global_step % Interval = 0 /\ global_step <= actor.step + Interval
    /\ pc \in Saving \ {"save_actor"} => global_step = actor.step

\* The history: there is none beyond the actor's step, and none yet for a step
\* that is being written, whichever attempt it is.
HistoryOfActor ==
    /\ \A s \in Steps : s > actor.step => extra[s] = -1
    /\ pc \in {"save_actor", "save_extra"} => extra[global_step] = -1
    /\ pc = "save_extra" => scores = actor.scores
    /\ extra[actor.step] # -1 => extra[actor.step] = actor.scores
    /\ actor.step > 0 => dir

\* Exports: none beyond the actor's step; the newest complete one is older than
\* one that is being written.
ExportsKept ==
    /\ \A s \in Steps : hf[s] # "none" => s <= actor.step
    /\ hf_newest <= actor.step
    /\ pc \in {"save_actor", "save_extra", "save_hf", "fill_hf"} => hf_newest < global_step
    /\ pc = "cleanup" => hf_newest = global_step
    /\ hf_newest > 0 => hf[hf_newest] = "complete"

\* Value model: its label may run ahead of its updates only after the warmup.
ValueWarm ==
    /\ value.step <= actor.step
    /\ value.step > 0 => value.updates > NumValueOnly
    /\ value_step <= value_updates \/ value_updates > NumValueOnly
    /\ ppo /\ pc \in Saving => value_updates > NumValueOnly

\* A restart resumes wherever the process is or was, except between the two writes.
Resumes ==
    /\ pc \in Saving => global_step > 0
    /\ ~BetweenWrites => (dir => Loadable)

CheckpointInv ==
    WithinInterval /\ HistoryOfActor /\ Resumes /\ ExportsKept /\ ValueWarm

---------------------------------------------------------------------------
(* Arithmetic. *)

\* Division with remainder.
LEMMA Division ==
    ASSUME NEW d \in Nat \ {0}, NEW x \in Nat
    PROVE  \E q \in Nat, r \in 0..d - 1 : x = d * q + r /\ x % d = r
<1>1. /\ x \div d \in Nat
      /\ (x % d) \in 0..d - 1
      /\ x = d * (x \div d) + (x % d)
  OBVIOUS
<1> QED BY <1>1

\* The quotient of a multiple.
LEMMA MultipleQuotient ==
    ASSUME NEW d \in Nat \ {0}, NEW x \in Nat, x % d = 0
    PROVE  \E q \in Nat : x = d * q
<1>1. PICK q \in Nat, r \in 0..d - 1 : x = d * q + r /\ x % d = r
  BY Division
<1>2. x = d * q
  BY <1>1
<1> QED BY <1>2

\* A product leaves no remainder.
LEMMA ProductRemainder ==
    ASSUME NEW d \in Nat \ {0}, NEW x \in Nat, NEW p \in Int, x = d * p
    PROVE  x % d = 0
<1>1. PICK q \in Nat, r \in 0..d - 1 : x = d * q + r /\ x % d = r
  BY Division
<1>2. d * (p - q) = r
  BY <1>1
<1>3. CASE p - q >= 1
  <2>1. d * (p - q) >= d * 1
    BY <1>3
  <2> QED BY <1>1, <1>2, <2>1
<1>4. CASE p - q <= -1
  <2>1. d * (p - q) <= d * (-1)
    BY <1>4
  <2> QED BY <1>1, <1>2, <2>1
<1>5. CASE p - q = 0
  BY <1>1, <1>2, <1>5
<1> QED BY <1>3, <1>4, <1>5

\* Two different multiples are at least one divisor apart.
LEMMA MultiplesGap ==
    ASSUME NEW d \in Nat \ {0}, NEW x \in Nat, NEW y \in Nat,
           x % d = 0, y % d = 0, x < y
    PROVE  x + d <= y
<1>1. PICK p \in Nat : x = d * p
  BY MultipleQuotient
<1>2. PICK q \in Nat : y = d * q
  BY MultipleQuotient
<1>3. d * (q - p) > 0
  BY <1>1, <1>2
<1>4. q - p >= 1
  <2>1. CASE q - p <= 0
    <3>1. d * (q - p) <= d * 0
      BY <2>1
    <3> QED BY <1>3, <3>1
  <2> QED BY <2>1
<1>5. d * (q - p) >= d * 1
  BY <1>4
<1> QED BY <1>1, <1>2, <1>5

\* The sum of two multiples is a multiple.
LEMMA MultiplesSum ==
    ASSUME NEW d \in Nat \ {0}, NEW x \in Nat, NEW y \in Nat, x % d = 0, y % d = 0
    PROVE  (x + y) % d = 0
<1>1. PICK p \in Nat : x = d * p
  BY MultipleQuotient
<1>2. PICK q \in Nat : y = d * q
  BY MultipleQuotient
<1>3. x + y = d * (p + q) /\ x + y \in Nat /\ p + q \in Int
  BY <1>1, <1>2
<1> QED BY <1>3, ProductRemainder

\* A number divides itself, and nothing.
LEMMA OwnMultiple ==
    ASSUME NEW d \in Nat \ {0}
    PROVE  d % d = 0 /\ 0 % d = 0
<1>1. d = d * 1 /\ 0 = d * 0
  OBVIOUS
<1> QED BY <1>1, ProductRemainder

\* A multiple of the interval is a multiple of the stride.
LEMMA StrideDivides ==
    ASSUME NEW x \in Nat, x % Interval = 0
    PROVE  x % Stride = 0
<1>1. Stride \in Nat \ {0} /\ Interval \in Nat \ {0} /\ Interval % Stride = 0
  BY CheckpointAssumption
<1>2. PICK q \in Nat : x = Interval * q
  BY <1>1, MultipleQuotient
<1>3. PICK m \in Nat : Interval = Stride * m
  BY <1>1, MultipleQuotient
<1>4. m * q \in Int /\ x = Stride * (m * q)
  BY <1>1, <1>2, <1>3
<1> QED BY <1>1, <1>4, ProductRemainder

---------------------------------------------------------------------------
(* The inductive invariant. *)

\* The facts about the constants that every step uses.
LEMMA ConstantTypes ==
    /\ Stride \in Nat \ {0}
    /\ Interval \in Nat \ {0}
    /\ MaxUpdates \in Nat \ {0}
    /\ MaxRetries \in Nat /\ NumValueOnly \in Nat /\ MostRecentK \in Nat
    /\ Interval % Stride = 0
  BY CheckpointAssumption

\* The variables keep their types.
THEOREM CheckpointTypeCorrect == Spec => []TypeOK
<1> USE ConstantTypes
<1>1. Init => TypeOK
  <2> SUFFICES ASSUME Init PROVE TypeOK
    OBVIOUS
  <2>1. 0 \in Steps
    BY DEF Steps
  <2>2. extra \in [Steps -> Nat \cup {-1}] /\ hf \in [Steps -> {"none", "partial", "complete"}]
    BY DEF Init
  <2>3. /\ actor \in [step : Steps, scores : Nat] /\ value \in [step : Steps, updates : Nat]
        /\ global_step \in Steps /\ hf_newest \in Steps
    BY <2>1 DEF Init
  <2>4. {global_step, value_step, scores, value_updates, attempt, reached, hf_newest, crashes}
          \subseteq Nat
    BY DEF Init
  <2>5. /\ ppo \in BOOLEAN /\ save_hf \in BOOLEAN /\ dir \in BOOLEAN /\ pc = "down"
    BY DEF Init
  <2> QED BY <2>2, <2>3, <2>4, <2>5 DEF TypeOK, Init
<1>2. TypeOK /\ [Next]_vars => TypeOK'
  <2> SUFFICES ASSUME TypeOK, [Next]_vars PROVE TypeOK'
    OBVIOUS
  <2>1. CASE LoadCheckpointIfExisted
    <3>1. Steps \subseteq Nat
      BY DEF Steps
    <3>2. /\ actor.step \in Steps /\ value.step \in Steps /\ value.updates \in Nat
          /\ extra[actor.step] \in Nat \cup {-1}
      BY DEF TypeOK
    <3>3. global_step' = actor.step /\ attempt' = 0 /\ pc' = "train"
      BY <2>1 DEF LoadCheckpointIfExisted
    <3>4. scores' \in Nat
      <4>1. dir => extra[actor.step] # -1
        BY <2>1 DEF LoadCheckpointIfExisted, Loadable
      <4>2. scores' = IF dir THEN extra[actor.step] ELSE 0
        BY <2>1 DEF LoadCheckpointIfExisted
      <4> QED BY <3>2, <4>1, <4>2
    <3>5. value_step' \in Nat /\ value_updates' \in Nat
      <4>1. \/ value_step' = value.step /\ value_updates' = value.updates
            \/ value_step' = 0 /\ value_updates' = 0
        BY <2>1 DEF LoadCheckpointIfExisted, LoadValue
      <4>2. value.step \in Nat /\ value.updates \in Nat /\ 0 \in Nat
        BY <3>1, <3>2
      <4>3. CASE value_step' = value.step /\ value_updates' = value.updates
        BY <4>2, <4>3
      <4>4. CASE value_step' = 0 /\ value_updates' = 0
        BY <4>4
      <4> QED BY <4>1, <4>3, <4>4
    <3>6. /\ UNCHANGED <<ppo, save_hf, disk, reached, hf_newest, crashes>>
          /\ stopped' = "none"
      BY <2>1 DEF LoadCheckpointIfExisted
    <3> QED BY <3>1, <3>2, <3>3, <3>4, <3>5, <3>6 DEF TypeOK, Places, disk
  <2>2. CASE LoadFails
    BY <2>2 DEF LoadFails, TypeOK, Places, memory, disk
  <2>3. CASE TrainOnlineSampleDataset
    <3>1. global_step' \in Steps /\ global_step' \in Nat
      <4>1. /\ global_step' = global_step + Stride \/ global_step' = global_step
            /\ global_step < MaxUpdates
        BY <2>3 DEF TrainOnlineSampleDataset
      <4>2. global_step \in Nat /\ Stride \in Nat /\ MaxUpdates \in Nat
        BY CheckpointAssumption DEF TypeOK
      <4> QED BY <4>1, <4>2 DEF Steps
    <3>2. value_step' \in Nat /\ value_updates' \in Nat /\ scores' \in Nat /\ reached' \in Nat
      <4>1. {value_step, value_updates, scores, reached} \subseteq Nat /\ Stride \in Nat
        BY CheckpointAssumption DEF TypeOK
      <4>2. /\ value_step' = value_step + Stride \/ value_step' = value_step
            /\ value_updates' = value_updates + Stride \/ value_updates' = value_updates
            /\ scores' = scores + 1
            /\ reached' = global_step' \/ reached' = reached
        BY <2>3 DEF TrainOnlineSampleDataset
      <4> QED BY <3>1, <4>1, <4>2
    <3> QED BY <2>3, <3>1, <3>2 DEF TrainOnlineSampleDataset, CheckpointDue, TypeOK, Places, disk
  <2>4. CASE SaveActor
    BY <2>4 DEF SaveActor, TypeOK, Places, memory
  <2>5. CASE SaveExtraInfo
    BY <2>5 DEF SaveExtraInfo, TypeOK, Places, memory
  <2>6. ASSUME NEW made \in BOOLEAN, SaveAttemptFails(made) PROVE TypeOK'
    <3>1. dir' \in BOOLEAN
      BY <2>6 DEF SaveAttemptFails, TypeOK
    <3>2. pc' \in {"save_actor", "down"} /\ attempt' \in Nat
          /\ stopped' \in {"none"} \cup Places
      BY <2>6 DEF SaveAttemptFails, TypeOK, Places
    <3> QED BY <2>6, <3>1, <3>2 DEF SaveAttemptFails, TypeOK, Places
  <2>7. CASE MakeHfDir
    BY <2>7 DEF MakeHfDir, TypeOK, Places, memory
  <2>8. CASE SaveHfPretrained
    BY <2>8 DEF SaveHfPretrained, TypeOK, Places, memory
  <2>9. CASE SaveHfFails
    BY <2>9 DEF SaveHfFails, TypeOK, Places, memory, disk
  <2>10. ASSUME NEW failed \in SUBSET OldHfDirs, CleanupOldHfCheckpoints(failed)
         PROVE  TypeOK'
    BY <2>10 DEF CleanupOldHfCheckpoints, TypeOK, Places, memory
  <2>11. CASE SaveValue
    BY <2>11 DEF SaveValue, TypeOK, Places, memory
  <2>12. ASSUME NEW made \in BOOLEAN, Crash(made) PROVE TypeOK'
    <3>1. dir' \in BOOLEAN /\ pc' = "down" /\ stopped' \in Places
      BY <2>12 DEF Crash, TypeOK
    <3>2. crashes' \in Nat
      BY <2>12 DEF Crash, TypeOK
    <3> QED BY <2>12, <3>1, <3>2 DEF Crash, TypeOK, memory
  <2>13. CASE Finished \/ UNCHANGED vars
    BY <2>13 DEF Finished, vars, memory, disk, TypeOK, Places
  <2> QED BY <2>1, <2>2, <2>3, <2>4, <2>5, <2>6, <2>7, <2>8, <2>9, <2>10, <2>11,
             <2>12, <2>13 DEF Next
<1> QED BY <1>1, <1>2, PTL DEF Spec

\* One training call moves the actor by one stride or not at all; a due checkpoint
\* is at the end of the interval at the latest, so nothing is trained past it.
LEMMA TrainingWithinInterval ==
    ASSUME TypeOK, WithinInterval, TrainOnlineSampleDataset
    PROVE  WithinInterval'
<1> USE ConstantTypes
<1>1. /\ global_step \in Nat /\ reached \in Nat /\ actor.step \in Nat
      /\ global_step % Stride = 0 /\ actor.step % Interval = 0
      /\ actor.step <= global_step /\ global_step < actor.step + Interval
      /\ reached <= actor.step + Interval
  BY DEF TypeOK, Steps, WithinInterval, TrainOnlineSampleDataset
<1>2. actor' = actor
  BY DEF TrainOnlineSampleDataset, disk
<1>3. actor.step + Interval \in Nat /\ (actor.step + Interval) % Stride = 0
  BY <1>1, StrideDivides, MultiplesSum
<1>4. global_step + Stride <= actor.step + Interval
  BY <1>1, <1>3, MultiplesGap
<1>5. (global_step + Stride) % Stride = 0
  BY <1>1, MultiplesSum, OwnMultiple
<1>6. CASE ~ShouldTrainActor
  <2>1. global_step' = global_step /\ pc' = "train" /\ reached' \in {global_step, reached}
    BY <1>6 DEF TrainOnlineSampleDataset, CheckpointDue
  <2> QED BY <1>1, <1>2, <2>1 DEF WithinInterval, Saving
<1>7. CASE ShouldTrainActor
  <2>1. /\ global_step' = global_step + Stride
        /\ reached' \in {global_step', reached}
        /\ pc' = IF global_step' % Interval = 0 THEN "save_actor" ELSE "train"
    BY <1>7 DEF TrainOnlineSampleDataset, CheckpointDue
  <2>2. CASE global_step' % Interval = 0
    BY <1>1, <1>2, <1>4, <1>5, <2>1, <2>2 DEF WithinInterval, Saving
  <2>3. CASE global_step' % Interval # 0
    <3>1. (actor.step + Interval) % Interval = 0
      BY <1>1, MultiplesSum, OwnMultiple
    <3>2. global_step' # actor.step + Interval
      BY <2>3, <3>1
    <3> QED BY <1>1, <1>2, <1>4, <1>5, <2>1, <2>3, <3>2 DEF WithinInterval, Saving
  <2> QED BY <2>2, <2>3
<1> QED BY <1>6, <1>7

\* Every step stays within the interval: a load starts level with the disk, a
\* save brings the disk level with memory.
LEMMA WithinIntervalStep ==
    ASSUME TypeOK, WithinInterval, HistoryOfActor, [Next]_vars
    PROVE  WithinInterval'
<1> USE ConstantTypes
<1>0. actor.step \in Nat /\ global_step \in Nat /\ reached \in Nat
  BY DEF TypeOK, Steps
<1>1. CASE LoadCheckpointIfExisted
  <2>1. actor.step % Stride = 0
    BY <1>0, StrideDivides DEF WithinInterval
  <2> QED BY <1>0, <1>1, <2>1
          DEF LoadCheckpointIfExisted, WithinInterval, Saving, disk
<1>2. CASE TrainOnlineSampleDataset
  BY <1>2, TrainingWithinInterval
<1>3. CASE SaveActor
  BY <1>0, <1>3 DEF SaveActor, WithinInterval, Saving, memory
<1>4. CASE SaveExtraInfo
  BY <1>0, <1>4 DEF SaveExtraInfo, WithinInterval, Saving, memory
<1>5. ASSUME NEW made \in BOOLEAN, SaveAttemptFails(made) PROVE WithinInterval'
  <2>1. pc' \in {"save_actor", "down"}
    BY <1>5 DEF SaveAttemptFails
  <2> QED BY <1>0, <1>5, <2>1 DEF SaveAttemptFails, WithinInterval, Saving
<1>6. CASE MakeHfDir \/ SaveHfPretrained \/ SaveHfFails
  BY <1>6 DEF MakeHfDir, SaveHfPretrained, SaveHfFails, WithinInterval, Saving, memory, disk
<1>7. ASSUME NEW failed \in SUBSET OldHfDirs, CleanupOldHfCheckpoints(failed)
      PROVE  WithinInterval'
  BY <1>7 DEF CleanupOldHfCheckpoints, WithinInterval, Saving, memory
<1>8. CASE SaveValue
  BY <1>0, <1>8 DEF SaveValue, WithinInterval, Saving, memory
<1>9. CASE LoadFails \/ Finished \/ UNCHANGED vars
  BY <1>9 DEF LoadFails, Finished, vars, WithinInterval, Saving, memory, disk
<1>10. ASSUME NEW made \in BOOLEAN, Crash(made) PROVE WithinInterval'
  BY <1>10 DEF Crash, WithinInterval, Saving, memory
<1> QED BY <1>1, <1>2, <1>3, <1>4, <1>5, <1>6, <1>7, <1>8, <1>9, <1>10 DEF Next

\* The history that is loaded is the one of the actor that is loaded, across
\* failing attempts and crashes between the two writes.
LEMMA HistoryOfActorStep ==
    ASSUME TypeOK, WithinInterval, HistoryOfActor, [Next]_vars
    PROVE  HistoryOfActor'
<1> USE ConstantTypes
<1>0. /\ actor.step \in Steps /\ global_step \in Steps /\ actor.scores \in Nat
      /\ \A s \in Steps : s \in Nat
      /\ extra \in [Steps -> Nat \cup {-1}] /\ scores \in Nat
  BY DEF TypeOK, Steps
<1>1. CASE LoadCheckpointIfExisted
  BY <1>0, <1>1 DEF LoadCheckpointIfExisted, HistoryOfActor, disk
<1>2. CASE TrainOnlineSampleDataset
  <2>1. CASE pc' = "train"
    BY <1>2, <2>1 DEF TrainOnlineSampleDataset, HistoryOfActor, disk
  <2>2. CASE pc' # "train"
    <3>1. pc' = "save_actor" /\ global_step' = global_step + Stride
      BY <1>2, <2>2 DEF TrainOnlineSampleDataset, CheckpointDue
    <3>2. global_step' \in Steps /\ global_step' > actor.step
      BY <1>0, <1>2, <3>1 DEF TrainOnlineSampleDataset, WithinInterval, Steps
    <3>3. UNCHANGED <<actor, dir, extra>>
      BY <1>2 DEF TrainOnlineSampleDataset, disk
    <3> QED BY <1>0, <3>1, <3>2, <3>3 DEF HistoryOfActor
  <2> QED BY <2>1, <2>2
<1>3. CASE SaveActor
  <2>1. /\ actor'.step = global_step /\ actor'.scores = scores /\ dir'
        /\ extra' = extra /\ global_step' = global_step /\ scores' = scores
        /\ extra[global_step] = -1 /\ actor.step <= global_step
        /\ pc' = "save_extra"
    BY <1>3 DEF SaveActor, memory, HistoryOfActor, WithinInterval, Saving
  <2> QED BY <1>0, <2>1 DEF HistoryOfActor
<1>4. CASE SaveExtraInfo
  <2>1. /\ UNCHANGED <<actor, dir>> /\ global_step = actor.step /\ scores = actor.scores
        /\ extra' = [extra EXCEPT ![global_step] = scores]
        /\ pc' \in {"save_hf", "save_value"}
    BY <1>4 DEF SaveExtraInfo, memory, HistoryOfActor, WithinInterval, Saving
  <2> QED BY <1>0, <2>1 DEF HistoryOfActor
<1>5. ASSUME NEW made \in BOOLEAN, SaveAttemptFails(made) PROVE HistoryOfActor'
  <2>1. pc' \in {"save_actor", "down"} /\ UNCHANGED <<actor, extra, global_step>>
        /\ (dir => dir')
    BY <1>5 DEF SaveAttemptFails, TypeOK
  <2>2. extra[global_step] = -1
    BY <1>5 DEF SaveAttemptFails, HistoryOfActor
  <2> QED BY <2>1, <2>2 DEF HistoryOfActor
<1>6. CASE MakeHfDir \/ SaveHfPretrained \/ SaveHfFails
  BY <1>6 DEF MakeHfDir, SaveHfPretrained, SaveHfFails, HistoryOfActor, memory, disk
<1>7. ASSUME NEW failed \in SUBSET OldHfDirs, CleanupOldHfCheckpoints(failed)
      PROVE  HistoryOfActor'
  BY <1>7 DEF CleanupOldHfCheckpoints, HistoryOfActor, memory
<1>8. CASE SaveValue
  BY <1>8 DEF SaveValue, HistoryOfActor, memory
<1>9. CASE LoadFails \/ Finished \/ UNCHANGED vars
  BY <1>9 DEF LoadFails, Finished, vars, HistoryOfActor, memory, disk
<1>10. ASSUME NEW made \in BOOLEAN, Crash(made) PROVE HistoryOfActor'
  <2>1. pc' = "down" /\ UNCHANGED <<actor, extra, scores, global_step>> /\ (dir => dir')
    BY <1>10 DEF Crash, memory, TypeOK
  <2> QED BY <2>1 DEF HistoryOfActor
<1> QED BY <1>1, <1>2, <1>3, <1>4, <1>5, <1>6, <1>7, <1>8, <1>9, <1>10 DEF Next

\* The window opens with the actor's write and closes with that of the history.
\* A failed attempt, or the end of the process, outside of it finds an older
\* checkpoint, which neither touches.
LEMMA ResumesStep ==
    ASSUME TypeOK, WithinInterval, HistoryOfActor, Resumes, [Next]_vars
    PROVE  Resumes'
<1> USE ConstantTypes
<1>0. /\ actor.step \in Nat /\ global_step \in Nat /\ actor.step \in Steps
      /\ dir \in BOOLEAN /\ extra \in [Steps -> Nat \cup {-1}] /\ scores \in Nat
  BY DEF TypeOK, Steps
<1>1. CASE LoadCheckpointIfExisted
  <2>1. (dir => Loadable) /\ pc' = "train" /\ UNCHANGED <<actor, dir, extra>>
    BY <1>1 DEF LoadCheckpointIfExisted, disk
  <2> QED BY <2>1 DEF Resumes, Loadable, Saving
<1>2. CASE TrainOnlineSampleDataset
  <2>1. dir => Loadable
    BY <1>2 DEF TrainOnlineSampleDataset, Resumes, BetweenWrites, LastPlace
  <2>2. UNCHANGED <<actor, dir, extra>>
    BY <1>2 DEF TrainOnlineSampleDataset, disk
  <2>3. pc' \in Saving => global_step' > 0
    <3>1. pc' \in Saving => global_step' = global_step + Stride
      BY <1>2 DEF TrainOnlineSampleDataset, CheckpointDue, Saving
    <3> QED BY <1>0, <3>1
  <2> QED BY <2>1, <2>2, <2>3 DEF Resumes, Loadable
<1>3. CASE SaveActor
  <2>1. pc' = "save_extra" /\ actor'.step = global_step /\ global_step' = global_step
        /\ global_step > 0
    BY <1>3 DEF SaveActor, memory, Resumes, Saving
  <2>2. BetweenWrites'
    BY <2>1 DEF BetweenWrites, LastPlace
  <2> QED BY <2>1, <2>2 DEF Resumes
<1>4. CASE SaveExtraInfo
  <2>1. /\ UNCHANGED <<actor, dir, global_step>> /\ global_step = actor.step /\ global_step > 0
        /\ extra' = [extra EXCEPT ![global_step] = scores]
    BY <1>4 DEF SaveExtraInfo, memory, WithinInterval, Resumes, Saving
  <2>2. Loadable'
    BY <1>0, <2>1 DEF Loadable
  <2> QED BY <2>1, <2>2 DEF Resumes
<1>5. ASSUME NEW made \in BOOLEAN, SaveAttemptFails(made) PROVE Resumes'
  <2>1. /\ UNCHANGED <<actor, extra, global_step>> /\ pc \in {"save_actor", "save_extra"}
        /\ \/ pc' = "save_actor"
           \/ pc' = "down" /\ stopped' = pc
    BY <1>5 DEF SaveAttemptFails
  <2>2. LastPlace \in {"save_actor", "save_extra"} /\ LastPlace' \in {"save_actor", "save_extra"}
    BY <2>1 DEF LastPlace
  <2>3. global_step > 0
    BY <2>1 DEF Resumes, Saving
  <2>4. ASSUME ~BetweenWrites' PROVE Loadable'
    <3>1. actor.step \notin {0, global_step}
      BY <2>1, <2>2, <2>4 DEF BetweenWrites
    <3>2. dir /\ ~BetweenWrites
      BY <1>0, <3>1 DEF HistoryOfActor, BetweenWrites
    <3> QED BY <2>1, <3>2 DEF Resumes, Loadable
  <2> QED BY <2>1, <2>3, <2>4 DEF Resumes
<1>6. CASE MakeHfDir \/ SaveHfPretrained \/ SaveHfFails \/ SaveValue
  <2>1. /\ UNCHANGED <<actor, dir, extra, global_step>>
        /\ pc \in Saving \ {"save_actor", "save_extra"}
    BY <1>6 DEF MakeHfDir, SaveHfPretrained, SaveHfFails, SaveValue, memory, disk, Saving
  <2>2. ~BetweenWrites
    BY <2>1 DEF BetweenWrites, LastPlace, Saving
  <2> QED BY <2>1, <2>2 DEF Resumes, Loadable
<1>7. ASSUME NEW failed \in SUBSET OldHfDirs, CleanupOldHfCheckpoints(failed)
      PROVE  Resumes'
  <2>1. UNCHANGED <<actor, dir, extra, global_step>> /\ pc = "cleanup"
    BY <1>7 DEF CleanupOldHfCheckpoints, memory
  <2>2. ~BetweenWrites
    BY <2>1 DEF BetweenWrites, LastPlace
  <2> QED BY <2>1, <2>2 DEF Resumes, Loadable, Saving
<1>8. ASSUME NEW made \in BOOLEAN, Crash(made) PROVE Resumes'
  <2>1. /\ UNCHANGED <<actor, extra, global_step>>
        /\ pc \notin {"down", "failed"} /\ pc' = "down" /\ stopped' = pc
        /\ dir' = (dir \/ made) /\ (made => pc = "save_actor")
    BY <1>8 DEF Crash, memory
  <2>2. LastPlace = pc /\ LastPlace' = pc
    BY <2>1 DEF LastPlace
  <2>3. ASSUME ~BetweenWrites', dir' PROVE Loadable'
    <3>1. ~BetweenWrites
      BY <2>1, <2>2, <2>3 DEF BetweenWrites
    <3>2. dir
      <4>1. CASE made
        <5>1. actor.step # 0
          BY <2>1, <2>2, <2>3, <4>1 DEF BetweenWrites
        <5> QED BY <1>0, <5>1 DEF HistoryOfActor
      <4>2. CASE ~made
        BY <2>1, <2>3, <4>2
      <4> QED BY <4>1, <4>2
    <3> QED BY <2>1, <3>1, <3>2 DEF Resumes, Loadable
  <2> QED BY <2>1, <2>3 DEF Resumes, Saving
<1>9. CASE LoadFails
  <2>1. /\ UNCHANGED <<actor, dir, extra, global_step, stopped>>
        /\ pc = "down" /\ pc' = "failed"
    BY <1>9 DEF LoadFails, memory, disk
  <2>2. BetweenWrites' = BetweenWrites
    BY <2>1 DEF BetweenWrites, LastPlace
  <2> QED BY <2>1, <2>2 DEF Resumes, Loadable, Saving
<1>10. CASE Finished \/ UNCHANGED vars
  <2>1. UNCHANGED <<actor, dir, extra, global_step, stopped, pc>>
    BY <1>10 DEF Finished, vars, memory, disk
  <2>2. BetweenWrites' = BetweenWrites
    BY <2>1 DEF BetweenWrites, LastPlace
  <2> QED BY <2>1, <2>2 DEF Resumes, Loadable
<1> QED BY <1>1, <1>2, <1>3, <1>4, <1>5, <1>6, <1>7, <1>8, <1>9, <1>10 DEF Next

\* Nothing is newer than the newest export, so the removal never reaches it.
LEMMA NewestKept ==
    ASSUME TypeOK, ExportsKept, WithinInterval, pc = "cleanup"
    PROVE  hf_newest \notin OldHfDirs
<1> DEFINE dirs == {s \in Steps : hf[s] # "none"}
           newer == {t \in dirs : t > hf_newest}
<1>1. hf_newest = actor.step /\ actor.step \in Nat
  BY ConstantTypes DEF ExportsKept, WithinInterval, Saving, TypeOK, Steps
<1>2. newer = {}
  <2> SUFFICES ASSUME NEW t \in dirs, t > hf_newest PROVE FALSE
    OBVIOUS
  <2>1. t \in Nat /\ t <= actor.step
    BY ConstantTypes DEF ExportsKept, Steps
  <2> QED BY <1>1, <2>1
<1>3. Cardinality(newer) = 0
  BY <1>2, FS_EmptySet
<1>4. ASSUME hf_newest \in OldHfDirs PROVE FALSE
  <2>1. MostRecentK > 0 /\ Cardinality(newer) >= MostRecentK
    BY <1>4 DEF OldHfDirs
  <2> QED BY <1>3, <2>1, ConstantTypes
<1> QED BY <1>4

\* An export is written over none that was complete, and no removal reaches the
\* newest, failed or not.
LEMMA ExportsKeptStep ==
    ASSUME TypeOK, WithinInterval, ExportsKept, [Next]_vars
    PROVE  ExportsKept'
<1> USE ConstantTypes
<1>0. /\ actor.step \in Steps /\ global_step \in Steps /\ hf_newest \in Steps
      /\ \A s \in Steps : s \in Nat
      /\ hf \in [Steps -> {"none", "partial", "complete"}]
  BY DEF TypeOK, Steps
<1>1. CASE LoadCheckpointIfExisted
  BY <1>1 DEF LoadCheckpointIfExisted, ExportsKept, disk
<1>2. CASE TrainOnlineSampleDataset
  <2>1. CASE pc' = "train"
    BY <1>2, <2>1 DEF TrainOnlineSampleDataset, ExportsKept, disk
  <2>2. CASE pc' # "train"
    <3>1. pc' = "save_actor" /\ global_step' = global_step + Stride
      BY <1>2, <2>2 DEF TrainOnlineSampleDataset, CheckpointDue
    <3>2. actor.step <= global_step /\ UNCHANGED <<actor, hf, hf_newest>>
      BY <1>2 DEF TrainOnlineSampleDataset, WithinInterval, disk
    <3> QED BY <1>0, <3>1, <3>2 DEF ExportsKept
  <2> QED BY <2>1, <2>2
<1>3. CASE SaveActor
  <2>1. actor'.step = global_step /\ actor.step <= global_step
    BY <1>3 DEF SaveActor, WithinInterval, Saving
  <2> QED BY <1>0, <1>3, <2>1 DEF SaveActor, memory, ExportsKept
<1>4. CASE SaveExtraInfo
  BY <1>4 DEF SaveExtraInfo, memory, ExportsKept
<1>5. ASSUME NEW made \in BOOLEAN, SaveAttemptFails(made) PROVE ExportsKept'
  <2>1. pc' \in {"save_actor", "down"}
    BY <1>5 DEF SaveAttemptFails
  <2> QED BY <1>5, <2>1 DEF SaveAttemptFails, ExportsKept
<1>6. CASE MakeHfDir
  <2>1. global_step = actor.step /\ hf_newest < global_step
    BY <1>6 DEF MakeHfDir, WithinInterval, Saving, ExportsKept
  <2>2. UNCHANGED <<actor, hf_newest, global_step>> /\ pc' = "fill_hf"
        /\ hf' = [hf EXCEPT ![global_step] = "partial"]
    BY <1>6 DEF MakeHfDir, memory
  <2> QED BY <1>0, <2>1, <2>2 DEF ExportsKept
<1>7. CASE SaveHfPretrained
  <2>1. global_step = actor.step
    BY <1>7 DEF SaveHfPretrained, WithinInterval, Saving
  <2>2. UNCHANGED <<actor, global_step>> /\ pc' = "cleanup" /\ hf_newest' = global_step
        /\ hf' = [hf EXCEPT ![global_step] = "complete"]
    BY <1>7 DEF SaveHfPretrained, memory
  <2> QED BY <1>0, <2>1, <2>2 DEF ExportsKept
<1>8. CASE SaveHfFails
  BY <1>8 DEF SaveHfFails, ExportsKept, memory, disk
<1>9. ASSUME NEW failed \in SUBSET OldHfDirs, CleanupOldHfCheckpoints(failed)
      PROVE  ExportsKept'
  <2>1. /\ UNCHANGED <<actor, global_step, hf_newest>> /\ pc' = "save_value"
        /\ \A s \in Steps : s \notin OldHfDirs => hf'[s] = hf[s]
        /\ \A s \in OldHfDirs : hf[s] # "none"
    BY <1>9 DEF CleanupOldHfCheckpoints, memory, OldHfDirs
  <2>2. \A s \in Steps : hf'[s] # "none" => hf[s] # "none"
    BY <2>1
  <2>3. hf'[hf_newest] = hf[hf_newest]
    BY <1>0, <1>9, <2>1, NewestKept DEF CleanupOldHfCheckpoints
  <2> QED BY <2>1, <2>2, <2>3 DEF ExportsKept
<1>10. CASE SaveValue
  BY <1>10 DEF SaveValue, ExportsKept, memory
<1>11. CASE LoadFails \/ Finished \/ UNCHANGED vars
  BY <1>11 DEF LoadFails, Finished, vars, ExportsKept, memory, disk
<1>12. ASSUME NEW made \in BOOLEAN, Crash(made) PROVE ExportsKept'
  BY <1>12 DEF Crash, ExportsKept, memory
<1> QED BY <1>1, <1>2, <1>3, <1>4, <1>5, <1>6, <1>7, <1>8, <1>9, <1>10, <1>11, <1>12 DEF Next

\* The actor is trained, and therefore saved, only after the warmup of the value
\* model, also where a restart relabelled an older value model.
LEMMA ValueWarmStep ==
    ASSUME TypeOK, WithinInterval, ValueWarm, [Next]_vars
    PROVE  ValueWarm'
<1> USE ConstantTypes
<1>0. /\ actor.step \in Nat /\ global_step \in Nat /\ value.step \in Nat
      /\ value.updates \in Nat /\ value_step \in Nat /\ value_updates \in Nat
  BY DEF TypeOK, Steps
<1>1. CASE LoadCheckpointIfExisted
  BY <1>0, <1>1 DEF LoadCheckpointIfExisted, LoadValue, ValueWarm, Saving, disk
<1>2. CASE TrainOnlineSampleDataset
  <2>1. /\ UNCHANGED <<ppo, actor, value>>
        /\ pc' \in Saving => ShouldTrainActor
        /\ value_step' = IF ppo THEN value_step + Stride ELSE value_step
        /\ value_updates' = IF ppo THEN value_updates + Stride ELSE value_updates
    BY <1>2 DEF TrainOnlineSampleDataset, CheckpointDue, Saving, disk
  <2>2. value_step' <= value_updates' \/ value_updates' > NumValueOnly
    BY <1>0, <2>1 DEF ValueWarm
  <2>3. ppo /\ ShouldTrainActor => value_updates' > NumValueOnly
    BY <1>0, <2>1 DEF ValueWarm, ShouldTrainActor
  <2> QED BY <2>1, <2>2, <2>3 DEF ValueWarm
<1>3. CASE SaveActor
  BY <1>0, <1>3 DEF SaveActor, memory, ValueWarm, WithinInterval, Saving
<1>4. CASE SaveExtraInfo
  BY <1>4 DEF SaveExtraInfo, memory, ValueWarm, Saving
<1>5. ASSUME NEW made \in BOOLEAN, SaveAttemptFails(made) PROVE ValueWarm'
  <2>1. pc' \in {"save_actor", "down"} /\ pc \in Saving
    BY <1>5 DEF SaveAttemptFails, Saving
  <2> QED BY <1>5, <2>1 DEF SaveAttemptFails, ValueWarm, Saving
<1>6. CASE MakeHfDir \/ SaveHfPretrained \/ SaveHfFails
  BY <1>6 DEF MakeHfDir, SaveHfPretrained, SaveHfFails, ValueWarm, Saving, memory, disk
<1>7. ASSUME NEW failed \in SUBSET OldHfDirs, CleanupOldHfCheckpoints(failed)
      PROVE  ValueWarm'
  BY <1>7 DEF CleanupOldHfCheckpoints, ValueWarm, Saving, memory
<1>8. CASE SaveValue
  <2>1. global_step = actor.step /\ (ppo => value_updates > NumValueOnly)
    BY <1>8 DEF SaveValue, WithinInterval, ValueWarm, Saving
  <2> QED BY <1>0, <1>8, <2>1 DEF SaveValue, ValueWarm, Saving, memory
<1>9. CASE LoadFails \/ Finished \/ UNCHANGED vars
  BY <1>9 DEF LoadFails, Finished, vars, ValueWarm, Saving, memory, disk
<1>10. ASSUME NEW made \in BOOLEAN, Crash(made) PROVE ValueWarm'
  BY <1>10 DEF Crash, ValueWarm, Saving, memory
<1> QED BY <1>1, <1>2, <1>3, <1>4, <1>5, <1>6, <1>7, <1>8, <1>9, <1>10 DEF Next

\* CheckpointInv holds of a run that starts and keeps holding.
LEMMA CheckpointInductive == Spec => []CheckpointInv
<1>1. Init => CheckpointInv
  <2> SUFFICES ASSUME Init PROVE CheckpointInv
    OBVIOUS
  <2> USE ConstantTypes
  <2>1. 0 % Interval = 0 /\ 0 \in Steps
    BY OwnMultiple DEF Steps
  <2>2. WithinInterval
    BY <2>1 DEF Init, WithinInterval, Saving
  <2>3. HistoryOfActor
    BY <2>1 DEF Init, HistoryOfActor
  <2>4. ExportsKept /\ ValueWarm
    BY <2>1 DEF Init, ExportsKept, ValueWarm, Saving
  <2>5. Resumes
    BY DEF Init, Resumes, Saving
  <2> QED BY <2>2, <2>3, <2>4, <2>5 DEF CheckpointInv
<1>2. TypeOK /\ CheckpointInv /\ [Next]_vars => CheckpointInv'
  BY WithinIntervalStep, HistoryOfActorStep, ResumesStep, ExportsKeptStep, ValueWarmStep
     DEF CheckpointInv
<1> QED BY <1>1, <1>2, CheckpointTypeCorrect, PTL DEF Spec

\* What a restart loads belongs together (load_checkpoint), whenever the process
\* died and whatever writes failed before.
THEOREM RestartConsistent == Spec => []LoadsMatch
<1>1. TypeOK /\ CheckpointInv => LoadsMatch
  BY DEF CheckpointInv, HistoryOfActor, ValueWarm, LoadsMatch, Loadable
<1> QED BY <1>1, CheckpointInductive, CheckpointTypeCorrect, PTL

\* Wherever the process ends outside the two writes of save_checkpoint, whatever ended
\* or failed before, a restart resumes from a loadable checkpoint, or from the start
\* when there is none, and repeats at most one interval; the newest complete export
\* stays (save_checkpoint, save_checkpoint_if_needed, _cleanup_old_hf_checkpoints).
THEOREM CrashCostBounded == Spec => []LostWorkBounded
<1>1. CheckpointInv => LostWorkBounded
  BY DEF CheckpointInv, WithinInterval, Resumes, ExportsKept, LostWorkBounded
<1> QED BY <1>1, CheckpointInductive, PTL

---------------------------------------------------------------------------
(* The processor pool: the inductive invariant. *)

AnyProcess == [worker : Workers, gen : Nat]
AnyMessage == [task : Tasks, kind : {"started", "ok", "error", "closed"},
               from : AnyProcess \cup {Free}]
States == {"idle", "reading", "received", "running", "dead"}

\* PoolTypeOK with any number of replacements of a worker, and queues that are sequences.
Types ==
    /\ call \in [Tasks -> {"idle", "queued", "started"} \cup Outcomes]
    /\ assigned \in [Tasks -> AnyProcess \cup {Free}]
    /\ result \in [Tasks -> {"pending"} \cup Outcomes]
    /\ tasks \subseteq Tasks /\ IsFiniteSet(tasks)
    /\ inq \in Seq(Tasks \cup {Stop})
    /\ outq \in Seq(AnyMessage) /\ soon \in Seq(AnyMessage)
    /\ worker \in [Workers -> [gen : Nat, st : States, task : Tasks \cup {NoTask}]]

\* A process that has taken a task has one; a call that is started has a process, and
\* only close() answers in no process's name.
Named ==
    /\ \A w \in Workers : worker[w].st \in {"received", "running"} => worker[w].task \in Tasks
    /\ \A t \in Tasks : call[t] = "started" => assigned[t] # Free
    /\ \A i \in DOMAIN outq : outq[i].from # Free
    /\ \A i \in DOMAIN soon : soon[i].from = Free => soon[i].kind = "closed"

\* What is scheduled or resolved belongs to a call that was made.
Called ==
    /\ \A i \in DOMAIN soon : call[soon[i].task] # "idle"
    /\ \A t \in Tasks : result[t] # "pending" => call[t] # "idle"

PoolInv == Types /\ Named /\ Called /\ TasksExact

---------------------------------------------------------------------------
(* Queues. *)

\* The first message of a queue, and the rest.
LEMMA HeadAndTail ==
    ASSUME NEW S, NEW s \in Seq(S), s # <<>>
    PROVE  /\ Head(s) \in S /\ Tail(s) \in Seq(S) /\ Head(s) = s[1] /\ 1 \in DOMAIN s
           /\ \A i \in DOMAIN Tail(s) : Tail(s)[i] = s[i + 1] /\ i + 1 \in DOMAIN s /\ i + 1 # 1
           /\ \A i \in DOMAIN s : i # 1 => i - 1 \in DOMAIN Tail(s) /\ Tail(s)[i - 1] = s[i]
           /\ \A i \in DOMAIN s \cup DOMAIN Tail(s) : i \in Nat
OBVIOUS

\* One more message at the end of a queue.
LEMMA AppendFacts ==
    ASSUME NEW S, NEW s \in Seq(S), NEW x \in S
    PROVE  /\ Append(s, x) \in Seq(S)
           /\ \A i \in DOMAIN Append(s, x) :
                 \/ i \in DOMAIN s /\ Append(s, x)[i] = s[i]
                 \/ i = Len(s) + 1 /\ Append(s, x)[i] = x
           /\ \A i \in DOMAIN s : i \in DOMAIN Append(s, x) /\ Append(s, x)[i] = s[i]
           /\ Len(s) + 1 \in DOMAIN Append(s, x) /\ Append(s, x)[Len(s) + 1] = x
OBVIOUS

\* Two queues, one after the other.
LEMMA ConcatFacts ==
    ASSUME NEW S, NEW s \in Seq(S), NEW t \in Seq(S)
    PROVE  /\ s \o t \in Seq(S)
           /\ \A i \in DOMAIN (s \o t) :
                 \/ i \in DOMAIN s /\ (s \o t)[i] = s[i]
                 \/ i - Len(s) \in DOMAIN t /\ (s \o t)[i] = t[i - Len(s)] /\ i \in Nat
           /\ \A i \in DOMAIN s : i \in DOMAIN (s \o t) /\ (s \o t)[i] = s[i]
           /\ \A i \in DOMAIN t : /\ Len(s) + i \in DOMAIN (s \o t) /\ (s \o t)[Len(s) + i] = t[i]
OBVIOUS

\* A list of a finite set holds each of its members once.
LEMMA ListOfSet ==
    ASSUME NEW S, IsFiniteSet(S), NEW list \in SetToSeqs(S)
    PROVE  /\ list \in Seq(S)
           /\ \A i, j \in DOMAIN list : list[i] = list[j] => i = j
           /\ \A x \in S : \E i \in DOMAIN list : list[i] = x
<1> DEFINE n == Cardinality(S)
<1>1. n \in Nat
  BY FS_CardinalityType
<1>2. list \in [1..n -> S] /\ \A i, j \in 1..n : i # j => list[i] # list[j]
  BY DEF SetToSeqs
<1>3. list \in Injection(1..n, S)
  BY <1>2 DEF Injection, IsInjective
<1>4. Cardinality(1..n) = n
  <2>1. CASE n = 0
    <3>1. 1..n = {}
      BY <2>1
    <3> QED BY <2>1, <3>1, FS_EmptySet
  <2>2. CASE n # 0
    <3>1. 1 \in Int /\ n \in Int /\ ~(1 > n) /\ n - 1 + 1 = n
      BY <1>1, <2>2
    <3> HIDE DEF n
    <3> QED BY <3>1, FS_Interval
  <2> QED BY <2>1, <2>2
<1>5. list \in Surjection(1..n, S)
  BY <1>3, <1>4, FS_Injection
<1>6. list \in Seq(S)
  BY <1>1, <1>2
<1> QED BY <1>2, <1>5, <1>6 DEF Surjection

---------------------------------------------------------------------------
(* Every step keeps the invariant. *)

\* What a step that touches neither the calls nor what the listener has scheduled keeps.
LEMMA CallsUntouched ==
    ASSUME PoolInv, UNCHANGED <<call, result, tasks, soon>>
    PROVE  Called' /\ TasksExact'
BY DEF PoolInv, Called, TasksExact, Waiting, Answered

\* The worker processes, and the ends that others put to them.
LEMMA WorkerKeeps ==
    ASSUME PoolInv, NEW w \in Workers, WorkerStep(w) \/ StopWorker(w)
    PROVE  PoolInv'
<1>0. Types /\ Named
  BY DEF PoolInv
<1>1. UNCHANGED <<call, assigned, result, tasks, soon>>
  BY DEF WorkerStep, StopWorker, LockQueue, Receive, Announce, Answer, WorkerCrash
<1>2. Called' /\ TasksExact'
  BY <1>1, CallsUntouched
<1>3. /\ worker[w] \in [gen : Nat, st : States, task : Tasks \cup {NoTask}]
      /\ Self(w) \in AnyProcess /\ Self(w) # Free
  BY <1>0 DEF Types, Self, Process, AnyProcess, Free
<1>4. CASE LockQueue(w) \/ WorkerCrash(w) \/ StopWorker(w)
  <2>1. /\ UNCHANGED <<inq, outq>>
        /\ worker' = [worker EXCEPT ![w].st = "reading"] \/ worker' = [worker EXCEPT ![w].st = "dead"]
    BY <1>4 DEF LockQueue, WorkerCrash, StopWorker
  <2>2. Types'
    <3>1. "reading" \in States /\ "dead" \in States
      BY DEF States
    <3>2. worker' \in [Workers -> [gen : Nat, st : States, task : Tasks \cup {NoTask}]]
      <4>1. worker \in [Workers -> [gen : Nat, st : States, task : Tasks \cup {NoTask}]]
        BY <1>0 DEF Types
      <4>2. CASE worker' = [worker EXCEPT ![w].st = "reading"]
        BY <3>1, <4>1, <4>2
      <4>3. CASE worker' = [worker EXCEPT ![w].st = "dead"]
        BY <3>1, <4>1, <4>3
      <4> QED BY <2>1, <4>2, <4>3
    <3> QED BY <1>0, <1>1, <2>1, <3>2 DEF Types
  <2>3. Named'
    BY <1>0, <1>1, <2>1 DEF Types, Named
  <2> QED BY <1>2, <2>2, <2>3 DEF PoolInv
<1>5. CASE Receive(w)
  <2>1. /\ inq # <<>> /\ inq' = Tail(inq) /\ outq' = outq
        /\ worker' = [worker EXCEPT ![w] =
              IF Head(inq) = Stop THEN [worker[w] EXCEPT !.st = "dead"]
                                  ELSE [worker[w] EXCEPT !.st = "received", !.task = Head(inq)]]
    BY <1>5 DEF Receive
  <2>2. Head(inq) \in Tasks \cup {Stop} /\ Tail(inq) \in Seq(Tasks \cup {Stop})
    BY <1>0, <2>1, HeadAndTail DEF Types
  <2>3. Types'
    BY <1>0, <1>1, <1>3, <2>1, <2>2 DEF Types, States
  <2>4. Named'
    BY <1>0, <1>1, <1>3, <2>1, <2>2 DEF Types, Named
  <2> QED BY <1>2, <2>3, <2>4 DEF PoolInv
<1>6. CASE Announce(w) \/ Answer(w)
  <2>1. PICK kind \in {"started", "ok", "error"} :
          /\ outq' = Append(outq, Message(worker[w].task, kind, Self(w)))
          /\ inq' = inq /\ worker[w].st \in {"received", "running"}
          /\ \/ worker' = [worker EXCEPT ![w].st = "running"] /\ worker[w].st = "received"
             \/ worker' = [worker EXCEPT ![w] = Fresh(worker[w].gen)]
    BY <1>6 DEF Announce, Answer
  <2> DEFINE m == Message(worker[w].task, kind, Self(w))
  <2>2. worker[w].task \in Tasks
    BY <1>0, <2>1 DEF Named
  <2>3. m \in AnyMessage /\ m.from # Free
    BY <1>3, <2>2 DEF AnyMessage, Message
  <2>4. outq \in Seq(AnyMessage) /\ outq' = Append(outq, m)
    BY <1>0, <2>1 DEF Types
  <2> HIDE DEF m
  <2>5. outq' \in Seq(AnyMessage) /\ \A i \in DOMAIN outq' : outq'[i].from # Free
    BY <1>0, <2>3, <2>4, AppendFacts DEF Named
  <2>6. /\ worker' \in [Workers -> [gen : Nat, st : States, task : Tasks \cup {NoTask}]]
        /\ \A v \in Workers : v # w => worker'[v] = worker[v]
        /\ worker'[w].st \in {"received", "running"} => worker'[w].task \in Tasks
    <3>1. CASE worker' = [worker EXCEPT ![w].st = "running"]
      BY <1>0, <2>2, <3>1 DEF Types, States
    <3>2. CASE worker' = [worker EXCEPT ![w] = Fresh(worker[w].gen)]
      <4>1. /\ Fresh(worker[w].gen) \in [gen : Nat, st : States, task : Tasks \cup {NoTask}]
            /\ Fresh(worker[w].gen).st = "idle"
        BY <1>3 DEF Fresh, States
      <4> QED BY <1>0, <3>2, <4>1 DEF Types
    <3> QED BY <2>1, <3>1, <3>2
  <2>7. Types' /\ Named'
    BY <1>0, <1>1, <2>1, <2>5, <2>6 DEF Types, Named
  <2> QED BY <1>2, <2>7 DEF PoolInv
<1> QED BY <1>4, <1>5, <1>6 DEF WorkerStep

\* The listener: an answer of a call that still waits is scheduled and ends its entry,
\* a stale one is dropped.
LEMMA ListenKeeps ==
    ASSUME PoolInv, Listen
    PROVE  PoolInv'
<1> DEFINE m == Head(outq)
<1>0. Types /\ Named /\ Called /\ TasksExact
  BY DEF PoolInv
<1>1. /\ outq # <<>> /\ outq' = Tail(outq)
      /\ m.task \in tasks => /\ soon' = Append(soon, m)
                             /\ tasks' = IF m.kind = "started" THEN tasks ELSE tasks \ {m.task}
      /\ m.task \notin tasks => UNCHANGED <<soon, tasks>>
      /\ UNCHANGED <<call, assigned, result, inq, worker>>
  BY DEF Listen
<1>2. outq \in Seq(AnyMessage) /\ soon \in Seq(AnyMessage)
  BY <1>0 DEF Types
<1>3. /\ m \in AnyMessage /\ outq' \in Seq(AnyMessage) /\ m.from # Free
      /\ \A i \in DOMAIN outq' : outq'[i].from # Free
  BY <1>0, <1>1, <1>2, HeadAndTail DEF Named
<1> HIDE DEF m
<1>4. CASE m.task \notin tasks
  <2>1. Called' /\ TasksExact'
    BY <1>1, <1>4, CallsUntouched
  <2>2. Types' /\ Named'
    BY <1>0, <1>1, <1>3, <1>4 DEF Types, Named
  <2> QED BY <2>1, <2>2 DEF PoolInv
<1>5. CASE m.task \in tasks
  <2>1. m.task \in Tasks /\ m.task \in Waiting /\ ~Answered(m.task)
    BY <1>0, <1>5 DEF TasksExact, Waiting
  <2>2. soon' = Append(soon, m) /\ soon' \in Seq(AnyMessage)
    BY <1>1, <1>2, <1>3, <1>5, AppendFacts
  <2>3. /\ \A i \in DOMAIN soon' : \/ i \in DOMAIN soon /\ soon'[i] = soon[i]
                                   \/ i = Len(soon) + 1 /\ soon'[i] = m
        /\ \A i \in DOMAIN soon : i \in DOMAIN soon' /\ soon'[i] = soon[i]
        /\ Len(soon) + 1 \in DOMAIN soon' /\ soon'[Len(soon) + 1] = m
    BY <1>2, <1>3, <2>2, AppendFacts
  <2>4. Types'
    <3>1. tasks' \subseteq Tasks /\ IsFiniteSet(tasks')
      BY <1>0, <1>1, <1>5, FS_Subset DEF Types
    <3> QED BY <1>0, <1>1, <1>3, <2>2, <3>1 DEF Types
  <2>5. Named'
    BY <1>0, <1>1, <1>3, <2>3 DEF Named
  <2>6. Called'
    BY <1>0, <1>1, <2>1, <2>3 DEF Called, Waiting
  <2>7. \A t \in Tasks : Answered(t)' <=> Answered(t) \/ (t = m.task /\ m.kind # "started")
    BY <1>1, <2>3 DEF Answered
  <2>8. TasksExact'
    <3>1. tasks' = {t \in Waiting' : ~Answered(t)'}
      BY <1>0, <1>1, <1>5, <2>7 DEF TasksExact, Waiting
    <3>2. \A i, j \in DOMAIN soon' : soon'[i].task = soon'[j].task /\ soon'[i].kind # "started"
                                       /\ soon'[j].kind # "started" => i = j
      BY <1>0, <2>1, <2>3 DEF TasksExact, Answered
    <3> QED BY <3>1, <3>2 DEF TasksExact
  <2> QED BY <2>4, <2>5, <2>6, <2>8 DEF PoolInv
<1> QED BY <1>4, <1>5

\* The event loop's callback: a call is started, or its future is set.
LEMMA CallbackKeeps ==
    ASSUME PoolInv, Callback
    PROVE  PoolInv'
<1> DEFINE m == Head(soon)
<1>0. Types /\ Named /\ Called /\ TasksExact
  BY DEF PoolInv
<1>1. /\ soon # <<>> /\ soon' = Tail(soon)
      /\ m.kind = "started" =>
            /\ assigned' = [assigned EXCEPT ![m.task] = m.from]
            /\ call' = [call EXCEPT ![m.task] = IF call[m.task] = "queued" THEN "started"
                                                                        ELSE call[m.task]]
            /\ UNCHANGED result
      /\ m.kind # "started" =>
            /\ result' = [result EXCEPT ![m.task] =
                            IF result[m.task] = "pending" THEN m.kind ELSE result[m.task]]
            /\ UNCHANGED <<assigned, call>>
      /\ UNCHANGED <<tasks, inq, outq, worker>>
  BY DEF Callback
<1>2. soon \in Seq(AnyMessage)
  BY <1>0 DEF Types
<1>3. /\ m \in AnyMessage /\ soon' \in Seq(AnyMessage) /\ m = soon[1] /\ 1 \in DOMAIN soon
      /\ \A i \in DOMAIN soon' : soon'[i] = soon[i + 1] /\ i + 1 \in DOMAIN soon /\ i + 1 # 1
      /\ \A i \in DOMAIN soon : i # 1 => i - 1 \in DOMAIN soon' /\ soon'[i - 1] = soon[i]
      /\ \A i \in DOMAIN soon \cup DOMAIN soon' : i \in Nat
  BY <1>1, <1>2, HeadAndTail
<1>4. /\ m.task \in Tasks /\ m.kind \in {"started", "ok", "error", "closed"}
      /\ m.from \in AnyProcess \cup {Free} /\ call[m.task] # "idle"
      /\ m.from = Free => m.kind = "closed"
  BY <1>0, <1>3 DEF AnyMessage, Named, Called
<1> HIDE DEF m
<1>5. \A t \in Tasks :
        (\E i \in DOMAIN soon : soon[i].task = t /\ soon[i].kind # "started")
          <=> \/ t = m.task /\ m.kind # "started"
              \/ \E i \in DOMAIN soon' : soon'[i].task = t /\ soon'[i].kind # "started"
  BY <1>3
<1>6. \A t \in Tasks : Waiting' = Waiting /\ (call'[t] = "idle" <=> call[t] = "idle")
  BY <1>0, <1>1, <1>4 DEF Types, Waiting
<1>7. \A t \in Tasks : Answered(t)' <=> Answered(t)
  <2>1. CASE m.kind = "started"
    BY <1>1, <1>5, <2>1 DEF Answered
  <2>2. CASE m.kind # "started"
    <3>1. \A t \in Tasks : result'[t] # "pending" <=> result[t] # "pending" \/ t = m.task
      BY <1>0, <1>1, <1>4, <2>2 DEF Types
    <3> QED BY <1>5, <2>2, <3>1 DEF Answered
  <2> QED BY <2>1, <2>2
<1>8. Types'
  <2>1. CASE m.kind = "started"
    <3>1. assigned' \in [Tasks -> AnyProcess \cup {Free}]
      BY <1>0, <1>1, <1>4, <2>1 DEF Types
    <3>2. call' \in [Tasks -> {"idle", "queued", "started"} \cup Outcomes]
      BY <1>0, <1>1, <1>4, <2>1 DEF Types
    <3> QED BY <1>0, <1>1, <1>3, <2>1, <3>1, <3>2 DEF Types
  <2>2. CASE m.kind # "started"
    <3>1. m.kind \in Outcomes
      BY <1>4, <2>2 DEF Outcomes
    <3>2. result' \in [Tasks -> {"pending"} \cup Outcomes]
      BY <1>0, <1>1, <1>4, <2>2, <3>1 DEF Types
    <3> QED BY <1>0, <1>1, <1>3, <2>2, <3>2 DEF Types
  <2> QED BY <2>1, <2>2
<1>9. Named'
  <2>1. \A t \in Tasks : call'[t] = "started" => assigned'[t] # Free
    BY <1>0, <1>1, <1>4 DEF Named, Types
  <2> QED BY <1>0, <1>1, <1>3, <2>1 DEF Named
<1>10. Called'
  <2>1. \A t \in Tasks : result'[t] # "pending" => call'[t] # "idle"
    BY <1>0, <1>1, <1>4, <1>6 DEF Called, Types
  <2>2. ASSUME NEW i \in DOMAIN soon' PROVE call'[soon'[i].task] # "idle"
    <3>1. soon'[i] = soon[i + 1] /\ i + 1 \in DOMAIN soon /\ soon'[i] \in AnyMessage
      BY <1>3
    <3>2. soon'[i].task \in Tasks
      BY <3>1 DEF AnyMessage
    <3> QED BY <1>0, <1>6, <3>1, <3>2 DEF Called
  <2> QED BY <2>1, <2>2 DEF Called
<1>11. TasksExact'
  <2>1. tasks' = {t \in Waiting' : ~Answered(t)'}
    <3>1. Waiting' = Waiting
      BY <1>4, <1>6
    <3> QED BY <1>0, <1>1, <1>7, <3>1 DEF TasksExact, Waiting
  <2>2. ASSUME NEW i \in DOMAIN soon', NEW j \in DOMAIN soon', soon'[i].task = soon'[j].task,
               soon'[i].kind # "started", soon'[j].kind # "started"
        PROVE  i = j
    <3>1. i + 1 = j + 1
      BY <1>0, <1>3, <2>2 DEF TasksExact
    <3> QED BY <1>3, <3>1
  <2> QED BY <2>1, <2>2 DEF TasksExact
<1> QED BY <1>8, <1>9, <1>10, <1>11 DEF PoolInv

\* A call is made, or refused by a closed pool.
LEMMA GenerateKeeps ==
    ASSUME PoolInv, NEW t \in Tasks, Generate(t) \/ GenerateRefused(t)
    PROVE  PoolInv'
<1>0. Types /\ Named /\ Called /\ TasksExact
  BY DEF PoolInv
<1>1. /\ call[t] = "idle" /\ UNCHANGED <<assigned, result, outq, soon, worker>>
      /\ \/ call' = [call EXCEPT ![t] = "queued"] /\ tasks' = tasks \cup {t} /\ inq' = Append(inq, t)
         \/ call' = [call EXCEPT ![t] = "closed"] /\ UNCHANGED <<tasks, inq>>
  BY DEF Generate, GenerateRefused
<1>2. ~Answered(t) /\ t \notin tasks
  BY <1>0, <1>1 DEF Called, TasksExact, Answered, Waiting
<1>3. /\ \A u \in Tasks : u # t => call'[u] = call[u]
      /\ call'[t] \in {"queued", "closed"} /\ (call'[t] = "queued" <=> tasks' = tasks \cup {t})
      /\ call'[t] = "closed" => tasks' = tasks
  BY <1>0, <1>1, <1>2 DEF Types
<1>4. Types'
  <2>1. inq \in Seq(Tasks \cup {Stop}) => inq' \in Seq(Tasks \cup {Stop})
    BY <1>1
  <2>2. IsFiniteSet(tasks \cup {t})
    BY <1>0, FS_AddElement DEF Types
  <2>3. IsFiniteSet(tasks') /\ tasks' \subseteq Tasks
    BY <1>0, <1>1, <2>2 DEF Types
  <2> QED BY <1>0, <1>1, <2>1, <2>3 DEF Types, Outcomes
<1>5. Named'
  BY <1>0, <1>1, <1>3 DEF Named
<1>6. Called'
  <2>1. \A i \in DOMAIN soon : soon[i] \in AnyMessage
    BY <1>0 DEF Types
  <2>2. \A i \in DOMAIN soon : soon[i].task \in Tasks
    BY <2>1 DEF AnyMessage
  <2> QED BY <1>0, <1>1, <1>3, <2>2 DEF Called
<1>7. TasksExact'
  <2>1. \A u \in Tasks : Answered(u)' <=> Answered(u)
    BY <1>1 DEF Answered
  <2>2. tasks' = {u \in Waiting' : ~Answered(u)'}
    BY <1>0, <1>2, <1>3, <2>1 DEF TasksExact, Waiting
  <2> QED BY <1>0, <1>1, <2>2 DEF TasksExact
<1> QED BY <1>4, <1>5, <1>6, <1>7 DEF PoolInv

\* A call ends by its answer, or by its deadline: then its worker is replaced, and an
\* answer that still comes is dropped.
LEMMA EndKeeps ==
    ASSUME PoolInv, NEW t \in Tasks, Return(t) \/ Timeout(t)
    PROVE  PoolInv'
<1>0. Types /\ Named /\ Called /\ TasksExact
  BY DEF PoolInv
<1>1. /\ call[t] \in {"queued", "started"} /\ tasks' = tasks \ {t}
      /\ UNCHANGED <<assigned, inq, outq, soon>>
      /\ \/ /\ Return(t) /\ call' = [call EXCEPT ![t] = result[t]]
            /\ result[t] # "pending" /\ UNCHANGED <<result, worker>>
         \/ /\ Timeout(t) /\ call' = [call EXCEPT ![t] = "timeout"]
            /\ result' = [result EXCEPT ![t] = "timeout"]
            /\ Restart(assigned[t]) /\ call[t] = "started"
  BY DEF Return, Timeout
<1>2. result[t] # "pending" => result[t] \in Outcomes
  BY <1>0 DEF Types
<1>3. /\ \A u \in Tasks : u # t => call'[u] = call[u] /\ result'[u] = result[u]
      /\ call'[t] \in Outcomes /\ result'[t] \in Outcomes
      /\ call' \in [Tasks -> {"idle", "queued", "started"} \cup Outcomes]
      /\ result' \in [Tasks -> {"pending"} \cup Outcomes]
  <2>1. "timeout" \in Outcomes
    BY DEF Outcomes
  <2> QED BY <1>0, <1>1, <1>2, <2>1 DEF Types
<1>4. "idle" \notin Outcomes /\ "queued" \notin Outcomes /\ "started" \notin Outcomes
  BY DEF Outcomes
<1>5. /\ worker' \in [Workers -> [gen : Nat, st : States, task : Tasks \cup {NoTask}]]
      /\ \A w \in Workers : worker'[w].st \in {"received", "running"} => worker'[w].task \in Tasks
  <2>1. CASE worker' = worker
    BY <1>0, <2>1 DEF Types, Named
  <2>2. CASE worker' # worker
    <3>1. call[t] = "started" /\ Restart(assigned[t])
      BY <1>1, <2>2
    <3>2. assigned[t] \in AnyProcess
      BY <1>0, <3>1 DEF Types, Named
    <3>3. PICK w \in Workers : w = assigned[t].worker
      BY <3>2 DEF AnyProcess
    <3> DEFINE new == Fresh(worker[w].gen + 1)
    <3>4. worker' = [worker EXCEPT ![w] = new]
      BY <2>2, <3>1, <3>3 DEF Restart
    <3>5. new \in [gen : Nat, st : States, task : Tasks \cup {NoTask}] /\ new.st = "idle"
      BY <1>0 DEF Types, Fresh, States
    <3> HIDE DEF new
    <3> QED BY <1>0, <3>4, <3>5 DEF Types, Named
  <2> QED BY <2>1, <2>2
<1>6. Types'
  BY <1>0, <1>1, <1>3, <1>5, FS_Subset DEF Types
<1>7. Named'
  BY <1>0, <1>1, <1>3, <1>4, <1>5 DEF Named
<1>8. Called'
  <2>1. \A i \in DOMAIN soon : soon[i] \in AnyMessage
    BY <1>0 DEF Types
  <2>2. \A i \in DOMAIN soon : soon[i].task \in Tasks
    BY <2>1 DEF AnyMessage
  <2> QED BY <1>0, <1>1, <1>3, <1>4, <2>2 DEF Called
<1>9. TasksExact'
  <2>1. \A u \in Tasks : u # t => (Answered(u)' <=> Answered(u))
    BY <1>1, <1>3 DEF Answered
  <2>2. Waiting' = Waiting \ {t}
    BY <1>3, <1>4 DEF Waiting
  <2>3. tasks' = {u \in Waiting' : ~Answered(u)'}
    BY <1>0, <1>1, <2>1, <2>2 DEF TasksExact, Waiting
  <2> QED BY <1>0, <1>1, <2>3 DEF TasksExact
<1> QED BY <1>6, <1>7, <1>8, <1>9 DEF PoolInv

\* close() begins by ending the processes.
LEMMA CloseBeginKeeps ==
    ASSUME PoolInv, CloseBegin
    PROVE  PoolInv'
<1>0. Types /\ Named
  BY DEF PoolInv
<1>1. UNCHANGED <<call, assigned, result, tasks, outq, soon, worker>>
  BY DEF CloseBegin
<1>2. inq' \in Seq(Tasks \cup {Stop})
  <2> DEFINE stops == [w \in 1..Cardinality(Workers) |-> Stop]
  <2>1. stops \in Seq(Tasks \cup {Stop})
    BY FS_CardinalityType, PoolAssumption
  <2>2. inq \in Seq(Tasks \cup {Stop}) /\ inq' = inq \o stops
    BY <1>0 DEF Types, CloseBegin
  <2> HIDE DEF stops
  <2> QED BY <2>1, <2>2
<1>3. Types' /\ Named'
  BY <1>0, <1>1, <1>2 DEF Types, Named
<1> QED BY <1>1, <1>3, CallsUntouched DEF PoolInv

\* close() ends by failing every call that is left, each one once.
LEMMA CloseEndKeeps ==
    ASSUME PoolInv, CloseEnd
    PROVE  PoolInv'
<1> DEFINE failures == {Message(t, "closed", Free) : t \in tasks}
<1>0. Types /\ Named /\ Called /\ TasksExact
  BY DEF PoolInv
<1>1. PICK ms \in SetToSeqs(failures) : soon' = soon \o ms
  BY DEF CloseEnd
<1>2. tasks' = {} /\ UNCHANGED <<call, assigned, result, inq, outq, worker>>
  BY DEF CloseEnd
<1>3. /\ failures \subseteq AnyMessage
      /\ \A x \in failures : x.kind = "closed" /\ x.task \in tasks /\ x.from = Free
      /\ \A x, y \in failures : x.task = y.task => x = y
      /\ \A t \in tasks : \E x \in failures : x.task = t
  <2>1. \A t \in tasks : /\ Message(t, "closed", Free).kind = "closed"
                          /\ Message(t, "closed", Free).task = t
                          /\ Message(t, "closed", Free).from = Free
                          /\ Message(t, "closed", Free) \in AnyMessage
    BY <1>0 DEF Message, AnyMessage, Types
  <2> QED BY <2>1
<1>4. IsFiniteSet(failures)
  <2> DEFINE f == [t \in tasks |-> Message(t, "closed", Free)]
  <2>1. f \in Surjection(tasks, failures)
    BY DEF Surjection
  <2> QED BY <1>0, <2>1, FS_Surjection DEF Types
<1> HIDE DEF failures
<1>5. /\ ms \in Seq(failures) /\ \A i, j \in DOMAIN ms : ms[i] = ms[j] => i = j
      /\ \A x \in failures : \E i \in DOMAIN ms : ms[i] = x
  BY <1>4, ListOfSet
<1>6. ms \in Seq(AnyMessage) /\ soon \in Seq(AnyMessage) /\ \A i \in DOMAIN ms : ms[i] \in failures
  BY <1>0, <1>3, <1>5 DEF Types
<1>7. /\ soon' \in Seq(AnyMessage)
      /\ \A i \in DOMAIN soon' :
            \/ i \in DOMAIN soon /\ soon'[i] = soon[i]
            \/ i - Len(soon) \in DOMAIN ms /\ soon'[i] = ms[i - Len(soon)] /\ i \in Nat
      /\ \A i \in DOMAIN soon : i \in DOMAIN soon' /\ soon'[i] = soon[i]
      /\ \A i \in DOMAIN ms : Len(soon) + i \in DOMAIN soon' /\ soon'[Len(soon) + i] = ms[i]
  BY <1>1, <1>6, ConcatFacts
<1>8. \A t \in tasks : t \in Tasks /\ t \in Waiting /\ ~Answered(t) /\ call[t] # "idle"
  BY <1>0 DEF TasksExact, Waiting
<1>9. Types'
  BY <1>0, <1>2, <1>7, FS_EmptySet DEF Types
<1>10. Named'
  BY <1>0, <1>2, <1>3, <1>6, <1>7 DEF Named
<1>11. Called'
  BY <1>0, <1>2, <1>3, <1>6, <1>7, <1>8 DEF Called
<1>12. TasksExact'
  <2>1. \A t \in tasks : Answered(t)'
    <3> SUFFICES ASSUME NEW t \in tasks PROVE Answered(t)'
      OBVIOUS
    <3>1. PICK i \in DOMAIN ms : ms[i].task = t /\ ms[i].kind = "closed"
      BY <1>3, <1>5
    <3> QED BY <1>7, <3>1 DEF Answered
  <2>2. \A t \in Tasks : Answered(t) => Answered(t)'
    BY <1>2, <1>7 DEF Answered
  <2>3. tasks' = {t \in Waiting' : ~Answered(t)'}
    BY <1>0, <1>2, <2>1, <2>2 DEF TasksExact, Waiting
  <2>4. ASSUME NEW i \in DOMAIN soon', NEW j \in DOMAIN soon', soon'[i].task = soon'[j].task,
               soon'[i].kind # "started", soon'[j].kind # "started"
        PROVE  i = j
    <3>1. CASE i \in DOMAIN soon /\ soon'[i] = soon[i] /\ j \in DOMAIN soon /\ soon'[j] = soon[j]
      BY <1>0, <2>4, <3>1 DEF TasksExact
    <3>2. CASE /\ i - Len(soon) \in DOMAIN ms /\ soon'[i] = ms[i - Len(soon)] /\ i \in Nat
               /\ j - Len(soon) \in DOMAIN ms /\ soon'[j] = ms[j - Len(soon)] /\ j \in Nat
      <4>1. i - Len(soon) = j - Len(soon)
        BY <1>3, <1>5, <1>6, <2>4, <3>2
      <4>2. Len(soon) \in Nat
        BY <1>6
      <4> QED BY <3>2, <4>1, <4>2
    <3>3. ASSUME NEW k \in DOMAIN soon, NEW n \in DOMAIN ms, soon[k].task = ms[n].task,
                 soon[k].kind # "started"
          PROVE  FALSE
      <4>1. ms[n].task \in tasks
        BY <1>3, <1>6
      <4> QED BY <1>8, <3>3, <4>1 DEF Answered
    <3> QED BY <1>7, <2>4, <3>1, <3>2, <3>3
  <2> QED BY <2>3, <2>4 DEF TasksExact
<1> QED BY <1>9, <1>10, <1>11, <1>12 DEF PoolInv

---------------------------------------------------------------------------
(* The theorem. *)

\* The invariant holds initially.
LEMMA InitKeeps ==
    ASSUME PoolInit
    PROVE  PoolInv
<1>1. Types
  BY FS_EmptySet DEF PoolInit, Types, States, Fresh, NoTask
<1>2. Named /\ Called /\ TasksExact
  BY DEF PoolInit, Named, Called, TasksExact, Waiting, Fresh
<1> QED BY <1>1, <1>2 DEF PoolInv

\* Every step keeps it.
LEMMA NextKeeps ==
    ASSUME PoolInv, [PoolNext]_poolVars
    PROVE  PoolInv'
<1>1. CASE UNCHANGED poolVars
  BY <1>1 DEF poolVars, PoolInv, Types, Named, Called, TasksExact, Waiting, Answered
<1>2. CASE \E w \in Workers : WorkerStep(w) \/ StopWorker(w)
  BY <1>2, WorkerKeeps
<1>3. CASE \E t \in Tasks : LoopStep(t)
  BY <1>3, GenerateKeeps, EndKeeps DEF LoopStep
<1>4. CASE Listen \/ Callback \/ CloseBegin \/ CloseEnd
  BY <1>4, ListenKeeps, CallbackKeeps, CloseBeginKeeps, CloseEndKeeps
<1> QED BY <1>1, <1>2, <1>3, <1>4 DEF PoolNext

\* self.tasks holds exactly the calls that wait and whose answer has not passed the
\* listener, and no call has two answers on their way, whatever times out, crashes, is
\* killed or answers late, and however close() interleaves with it.
THEOREM PoolTasksExact == PoolSpec => []TasksExact
<1>1. PoolInit => PoolInv
  BY InitKeeps
<1>2. PoolInv /\ [PoolNext]_poolVars => PoolInv'
  BY NextKeeps
<1>3. PoolInv => TasksExact
  BY DEF PoolInv
<1> QED BY <1>1, <1>2, <1>3, PTL DEF PoolSpec
============================================================================
