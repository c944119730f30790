---------------------- MODULE ThreadlessExecutorProofs ----------------------
(***************************************************************************)
(* Proofs about ThreadlessExecutor, for any set of tasks and event sources *)
(* and any bound on the wakers a poll runs itself.                         *)
(***************************************************************************)
EXTENDS ThreadlessExecutor, FiniteSetTheorems, TLAPS

(* The cell of a task whose future is polled or over.                      *)
Taken == [future |-> FALSE, stale |-> TRUE, inUse |-> TRUE]

(* Every reference to a task names one that was spawned.                   *)
RefsOK ==
    /\ tasks \in Seq(born)
    /\ armed \subseteq born \X Source
    /\ done \cup failed \subseteq born
    /\ done \cap failed = {}

(* The loop has a future only while it polls, and a poll that registered   *)
(* its waker still has it: wakers run between the polls.                   *)
SlotOK ==
    /\ PollsFront
    /\ pc # "poll" => slot = NoTask
    /\ pollArmed => pc = "poll" /\ \E s \in Source : <<slot, s>> \in armed

(* A cell is empty while its future is polled, and for ever once it ended. *)
CellsOK ==
    \A t \in Task : inner[t] = IF slot = t \/ t \in done \cup failed THEN Taken ELSE MakeTask

IInv == TypeOK /\ RefsOK /\ SlotOK /\ CellsOK

CountOK == IsFiniteSet(born) /\ tasksUntilCompletion = Cardinality(born \ done)
-----------------------------------------------------------------------------
LEMMA StepCases ==
    ASSUME [Next]_execVars
    PROVE  \/ \E t \in Task : MainSpawn(t) \/ PollSpawn(t)
           \/ NaiveRun
           \/ \E t \in Task, s \in Source : FireWaker(t, s)
           \/ HandlersDone
           \/ StepReturns
           \/ ConsumeFront
           \/ \E s \in Source : RegisterWaker(s)
           \/ PollWake
           \/ PollPending
           \/ PollReady
           \/ PollThrow
           \/ UNCHANGED execVars
  BY DEF Next, Boot, Step, PollReturn

(* What consume makes of the two forms a cell has.                         *)
LEMMA Cells ==
    /\ MakeTask \in InnerTask /\ Taken \in InnerTask /\ MakeTask # Taken
    /\ Consume(MakeTask) = "take" /\ Consumed(MakeTask) = Taken
    /\ Consume(Taken) = "skip" /\ Consumed(Taken) = Taken
    /\ Deconsumed(Taken) = MakeTask
  BY DEF MakeTask, Taken, InnerTask, Consume, Consumed, Deconsumed

LEMMA SeqMonotone ==
    ASSUME NEW S, NEW T, S \subseteq T PROVE Seq(S) \subseteq Seq(T)
  OBVIOUS

(* The front of the queue, when there is one.                              *)
LEMMA Front ==
    ASSUME NEW S, NEW q \in Seq(S), q # <<>>
    PROVE  Head(q) \in S /\ Tail(q) \in Seq(S)
  OBVIOUS

LEMMA Push ==
    ASSUME NEW S, NEW q \in Seq(S), NEW e \in S
    PROVE  /\ Append(q, e) \in Seq(S)
           /\ q # <<>> => Append(q, e) # <<>> /\ Head(Append(q, e)) = Head(q)
<1>1. Append(q, e) \in Seq(S)
  OBVIOUS
<1>2. ASSUME q # <<>> PROVE Append(q, e) # <<>> /\ Head(Append(q, e)) = Head(q)
  <2>1. Len(q) \in Nat /\ Len(q) > 0
    BY <1>2
  <2>2. Len(Append(q, e)) = Len(q) + 1 /\ Append(q, e)[1] = q[1]
    BY <2>1
  <2> QED
    BY <1>1, <1>2, <2>1, <2>2
<1> QED
  BY <1>1, <1>2

(* Where ConsumeFront goes.                                                *)
LEMMA ConsumeOutcome ==
    ASSUME IInv, ConsumeFront
    PROVE  LET t == Head(tasks) IN
           /\ tasks # <<>> /\ t \in born /\ t \in Task /\ pc = "step" /\ slot = NoTask /\ ~pollArmed
           /\ UNCHANGED <<tasksUntilCompletion, born, done, failed, pollArmed, selfWakes, armed>>
           /\ \/ /\ t \in done \cup failed
                 /\ tasks' = Tail(tasks) /\ UNCHANGED <<slot, pc, inner>>
              \/ /\ t \in Live
                 /\ slot' = t /\ pc' = "poll" /\ tasks' = tasks
                 /\ inner' = [inner EXCEPT ![t] = Taken]
<1> DEFINE t == Head(tasks)
<1>1. /\ tasks # <<>> /\ pc = "step" /\ slot = NoTask /\ ~pollArmed
      /\ UNCHANGED <<tasksUntilCompletion, born, done, failed, pollArmed, selfWakes, armed>>
  BY DEF ConsumeFront, IInv, SlotOK
<1>2. t \in born /\ t \in Task /\ t # NoTask
  BY <1>1, Front, ThreadlessAssumption DEF IInv, RefsOK, TypeOK
<1>3. CASE t \in done \cup failed
  <2>1. inner[t] = Taken
    BY <1>2, <1>3 DEF IInv, CellsOK
  <2>2. inner' = [inner EXCEPT ![t] = Taken] /\ tasks' = Tail(tasks) /\ UNCHANGED <<slot, pc>>
    BY <2>1, Cells DEF ConsumeFront
  <2>3. inner' = inner
    BY <1>2, <2>1, <2>2 DEF IInv, TypeOK
  <2> QED
    BY <1>1, <1>2, <1>3, <2>2, <2>3
<1>4. CASE t \notin done \cup failed
  <2>1. inner[t] = MakeTask
    BY <1>1, <1>2, <1>4 DEF IInv, CellsOK
  <2>2. inner' = [inner EXCEPT ![t] = Taken] /\ slot' = t /\ pc' = "poll" /\ tasks' = tasks
    BY <2>1, Cells DEF ConsumeFront
  <2> QED
    BY <1>1, <1>2, <1>4, <2>2 DEF Live
<1> QED
  BY <1>3, <1>4
-----------------------------------------------------------------------------
(* The count.                                                              *)

LEMMA CountInit == Init => CountOK
  BY FS_EmptySet DEF Init, CountOK

LEMMA CountStep ==
    ASSUME IInv, CountOK, [Next]_execVars
    PROVE  CountOK'
<1> USE DEF CountOK
<1>0. IsFiniteSet(born \ done)
  BY FS_Subset
<1>1. ASSUME UNCHANGED <<tasksUntilCompletion, born, done>> PROVE CountOK'
  BY <1>1
<1>2. ASSUME NEW t \in Task, Spawn(t) PROVE CountOK'
  <2>1. t \notin born /\ born' = born \cup {t} /\ done' = done
        /\ tasksUntilCompletion' = tasksUntilCompletion + 1
    BY <1>2 DEF Spawn
  <2>2. born' \ done' = (born \ done) \cup {t} /\ t \notin born \ done
    BY <2>1 DEF IInv, RefsOK
  <2>3. Cardinality(born' \ done') = Cardinality(born \ done) + 1
    BY <1>0, <2>2, FS_AddElement
  <2>4. IsFiniteSet(born')
    BY <2>1, FS_AddElement
  <2> QED
    BY <2>1, <2>3, <2>4
<1>3. ASSUME PollReady PROVE CountOK'
  <2>1. Head(tasks) \in born \ done
    BY <1>3 DEF PollReady, IInv, SlotOK, PollsFront, Live
  <2>2. born' \ done' = (born \ done) \ {Head(tasks)} /\ born' = born
        /\ tasksUntilCompletion' = tasksUntilCompletion - 1
    BY <1>3 DEF PollReady
  <2>3. Cardinality(born' \ done') = Cardinality(born \ done) - 1
    BY <1>0, <2>1, <2>2, FS_RemoveElement
  <2> QED
    BY <2>2, <2>3
<1> QED
  BY <1>1, <1>2, <1>3, StepCases
  DEF MainSpawn, PollSpawn, NaiveRun, FireWaker, HandlersDone, StepReturns, ConsumeFront,
      RegisterWaker, PollWake, PollPending, PollThrow, execVars

(* What is counted is a number between none and all of the tasks.          *)
LEMMA CountBounds ==
    ASSUME NEW all, NEW over, IsFiniteSet(all)
    PROVE  Cardinality(all \ over) \in 0 .. Cardinality(all)
<1>1. IsFiniteSet(all \ over) /\ Cardinality(all \ over) <= Cardinality(all)
  BY FS_Subset
<1>2. Cardinality(all \ over) \in Nat /\ Cardinality(all) \in Nat
  BY <1>1, FS_CardinalityType
<1> QED
  BY <1>1, <1>2
-----------------------------------------------------------------------------
(* The invariant.                                                          *)

LEMMA InvInit == Init => IInv
<1> SUFFICES ASSUME Init PROVE IInv
  OBVIOUS
<1>1. TypeOK
  <2>1. tasksUntilCompletion \in 0 .. Cardinality(born)
    BY CountInit, CountBounds DEF CountOK
  <2>2. inner \in [Task -> InnerTask]
    BY Cells DEF Init
  <2>3. selfWakes \in 0 .. MaxSelfWakes /\ pc \in Pc
    BY ThreadlessAssumption DEF Init, Pc
  <2>4. tasks \in Seq(Task)
    <3>1. tasks = <<>>
      BY DEF Init
    <3> QED
      BY <3>1
  <2>4a. pollArmed \in BOOLEAN
    BY DEF Init
  <2>5. born \in SUBSET Task /\ done \in SUBSET Task /\ failed \in SUBSET Task /\ armed \in SUBSET (Task \X Source)
    BY DEF Init
  <2>6. slot \in Task \cup {NoTask}
    BY DEF Init
  <2> QED
    BY <2>1, <2>2, <2>3, <2>4, <2>4a, <2>5, <2>6 DEF TypeOK
<1>2. RefsOK
  BY DEF Init, RefsOK
<1>3. SlotOK /\ CellsOK
  BY ThreadlessAssumption DEF Init, SlotOK, PollsFront, CellsOK
<1> QED
  BY <1>1, <1>2, <1>3 DEF IInv

LEMMA RefsStep ==
    ASSUME IInv, [Next]_execVars
    PROVE  RefsOK'
<1> USE DEF RefsOK, IInv
<1>1. ASSUME UNCHANGED <<tasks, born, done, failed, armed>> PROVE RefsOK'
  BY <1>1
<1>2. ASSUME NEW t \in Task, Spawn(t) PROVE RefsOK'
  <2>1. tasks \in Seq(born') /\ t \in born'
    BY <1>2, SeqMonotone DEF Spawn
  <2>2. tasks' \in Seq(born')
    BY <1>2, <2>1, Push DEF Spawn
  <2> QED
    BY <1>2, <2>2 DEF Spawn
<1>3. ASSUME NEW t \in Task, NEW s \in Source, FireWaker(t, s) PROVE RefsOK'
  BY <1>3, Push DEF FireWaker
<1>4. ASSUME ConsumeFront PROVE RefsOK'
  BY <1>4, ConsumeOutcome, Front
<1>5. ASSUME NEW s \in Source, RegisterWaker(s) PROVE RefsOK'
  <2>1. Head(tasks) \in born
    BY <1>5, Front DEF RegisterWaker, SlotOK, PollsFront
  <2> QED
    BY <1>5, <2>1 DEF RegisterWaker
<1>6. ASSUME PollWake PROVE RefsOK'
  BY <1>6, Front, Push DEF PollWake, SlotOK, PollsFront
<1>7. ASSUME PollPending PROVE RefsOK'
  BY <1>7, Front DEF PollPending, PopFront, SlotOK, PollsFront
<1>8. ASSUME PollReady \/ PollThrow PROVE RefsOK'
  <2>1. Head(tasks) \in Live /\ Tail(tasks) \in Seq(born)
    BY <1>8, Front DEF PollReady, PollThrow, SlotOK, PollsFront
  <2> QED
    BY <1>8, <2>1 DEF PollReady, PollThrow, PopFront, Live
<1> QED
  BY <1>1, <1>2, <1>3, <1>4, <1>5, <1>6, <1>7, <1>8, StepCases
  DEF MainSpawn, PollSpawn, NaiveRun, HandlersDone, StepReturns, execVars

LEMMA SlotStep ==
    ASSUME IInv, [Next]_execVars
    PROVE  SlotOK'
<1> USE DEF SlotOK, IInv
<1>1. ASSUME NEW t \in Task, Spawn(t) PROVE SlotOK'
  <2>1. tasks # <<>> => tasks' # <<>> /\ Head(tasks') = Head(tasks)
    BY <1>1, Push DEF Spawn, TypeOK
  <2>2. Live \subseteq Live'
    BY <1>1 DEF Spawn, Live, RefsOK
  <2> QED
    BY <1>1, <2>1, <2>2 DEF Spawn, PollsFront
<1>2. ASSUME NEW t \in Task, NEW s \in Source, FireWaker(t, s) PROVE SlotOK'
  BY <1>2 DEF FireWaker, PollsFront
<1>3. ASSUME NaiveRun \/ HandlersDone \/ StepReturns PROVE SlotOK'
  BY <1>3 DEF NaiveRun, HandlersDone, StepReturns, PollsFront
<1>4. ASSUME ConsumeFront PROVE SlotOK'
  BY <1>4, ConsumeOutcome DEF PollsFront, Live
<1>5. ASSUME NEW s \in Source, RegisterWaker(s) PROVE SlotOK'
  BY <1>5 DEF RegisterWaker, PollsFront, Live
<1>6. ASSUME PollWake PROVE SlotOK'
  <2>1. tasks' # <<>> /\ Head(tasks') = Head(tasks)
    BY <1>6, Push, Front DEF PollWake, PollsFront, TypeOK
  <2> QED
    BY <1>6, <2>1 DEF PollWake, PollsFront, Live
<1>7. ASSUME PollPending \/ PollReady \/ PollThrow PROVE SlotOK'
  BY <1>7 DEF PollPending, PollReady, PollThrow, PopFront, PollsFront
<1>8. ASSUME UNCHANGED execVars PROVE SlotOK'
  BY <1>8 DEF execVars, PollsFront, Live
<1> QED
  BY <1>1, <1>2, <1>3, <1>4, <1>5, <1>6, <1>7, <1>8, StepCases DEF MainSpawn, PollSpawn

LEMMA CellsStep ==
    ASSUME IInv, [Next]_execVars
    PROVE  CellsOK'
<1> USE DEF IInv, CellsOK
<1>1. ASSUME UNCHANGED <<inner, slot, done, failed>> PROVE CellsOK'
  BY <1>1
<1>2. ASSUME NEW t \in Task, Spawn(t) PROVE CellsOK'
  <2>1. t \notin done \cup failed /\ slot # t
    BY <1>2, ThreadlessAssumption DEF Spawn, RefsOK, SlotOK, PollsFront, Live
  <2>2. inner[t] = MakeTask /\ inner' = inner
    BY <1>2, <2>1 DEF Spawn, TypeOK
  <2> QED
    BY <1>2, <2>2 DEF Spawn
<1>3. ASSUME ConsumeFront PROVE CellsOK'
  BY <1>3, ConsumeOutcome, ThreadlessAssumption DEF TypeOK
<1>4. ASSUME PollPending PROVE CellsOK'
  <2>1. Head(tasks) = slot /\ slot \in Live
    BY <1>4 DEF PollPending, SlotOK, PollsFront
  <2>2. slot \in Task /\ inner[slot] = Taken
    BY <2>1 DEF Live, TypeOK
  <2>3. inner' = [inner EXCEPT ![slot] = MakeTask] /\ slot' = NoTask /\ UNCHANGED <<done, failed>>
    BY <1>4, <2>1, <2>2, Cells DEF PollPending, PopFront, TypeOK
  <2> QED
    BY <2>1, <2>2, <2>3, ThreadlessAssumption DEF TypeOK, Live
<1>5. ASSUME PollReady \/ PollThrow PROVE CellsOK'
  <2>1. Head(tasks) = slot /\ slot \in Live
    BY <1>5 DEF PollReady, PollThrow, SlotOK, PollsFront
  <2>2. /\ inner' = inner /\ slot' = NoTask
        /\ (done \cup failed)' = done \cup failed \cup {slot}
    BY <1>5, <2>1 DEF PollReady, PollThrow, PopFront
  <2> QED
    BY <2>2, ThreadlessAssumption DEF TypeOK
<1> QED
  BY <1>1, <1>2, <1>3, <1>4, <1>5, StepCases
  DEF MainSpawn, PollSpawn, NaiveRun, FireWaker, HandlersDone, StepReturns, RegisterWaker,
      PollWake, execVars

LEMMA TypeStep ==
    ASSUME IInv, CountOK, [Next]_execVars
    PROVE  TypeOK'
<1>1. tasksUntilCompletion' \in 0 .. Cardinality(born')
  BY CountStep, CountBounds DEF CountOK
<1>2. RefsOK' /\ SlotOK' /\ CellsOK'
  BY RefsStep, SlotStep, CellsStep
<1>3. born' \subseteq Task
  BY StepCases, ConsumeOutcome
  DEF IInv, TypeOK, MainSpawn, PollSpawn, Spawn, NaiveRun, FireWaker, HandlersDone, StepReturns,
      RegisterWaker, PollWake, PollPending, PollReady, PollThrow, execVars
<1>4. tasks' \in Seq(Task) /\ done' \subseteq Task /\ failed' \subseteq Task
      /\ armed' \subseteq Task \X Source
  BY <1>2, <1>3, SeqMonotone DEF RefsOK
<1>5. slot' \in Task \cup {NoTask}
  BY <1>2, <1>3 DEF SlotOK, PollsFront, Live
<1>6. pc' \in Pc
  BY StepCases, ConsumeOutcome
  DEF IInv, TypeOK, Pc, MainSpawn, PollSpawn, Spawn, NaiveRun, FireWaker, HandlersDone,
      StepReturns, RegisterWaker, PollWake, PollPending, PollReady, PollThrow, PopFront, execVars
<1>7. selfWakes' \in 0 .. MaxSelfWakes
  <2>1. \/ selfWakes' = selfWakes
        \/ selfWakes' = 0
        \/ selfWakes < MaxSelfWakes /\ selfWakes' = selfWakes + 1
    BY StepCases
    DEF MainSpawn, PollSpawn, Spawn, NaiveRun, FireWaker, HandlersDone, StepReturns,
        ConsumeFront, RegisterWaker, PollWake, PollPending, PollReady, PollThrow, execVars
  <2> QED
    BY <2>1, ThreadlessAssumption DEF IInv, TypeOK
<1>8. inner' \in [Task -> InnerTask]
  <2>1. DOMAIN inner' = Task /\ inner' = [t \in Task |-> inner'[t]]
    BY StepCases, ConsumeOutcome
    DEF IInv, TypeOK, MainSpawn, PollSpawn, Spawn, NaiveRun, FireWaker, HandlersDone,
        StepReturns, RegisterWaker, PollWake, PollPending, PollReady, PollThrow, execVars
  <2>2. \A t \in Task : inner'[t] \in InnerTask
    BY <1>2, Cells DEF CellsOK
  <2> QED
    BY <2>1, <2>2
<1>9. pollArmed' \in BOOLEAN
  BY StepCases, ConsumeOutcome
  DEF IInv, TypeOK, MainSpawn, PollSpawn, Spawn, NaiveRun, FireWaker, HandlersDone,
      StepReturns, RegisterWaker, PollWake, PollPending, PollReady, PollThrow, PopFront, execVars
<1> QED
  BY <1>1, <1>3, <1>4, <1>5, <1>6, <1>7, <1>8, <1>9 DEF TypeOK

(* The inductive invariant of the executor without workers.                *)
THEOREM Invariant == Spec => [](IInv /\ CountOK)
<1>1. Init => IInv /\ CountOK
  BY InvInit, CountInit
<1>2. IInv /\ CountOK /\ [Next]_execVars => IInv' /\ CountOK'
  BY TypeStep, RefsStep, SlotStep, CellsStep, CountStep DEF IInv
<1> QED
  BY <1>1, <1>2, PTL DEF Spec

(* Types, with at most as many tasks counted as there are.                 *)
THEOREM TypeCorrect == Spec => []TypeOK
  BY Invariant, PTL DEF IInv

(* The loop polls the front of its queue with that task's own future.      *)
THEOREM FrontPolled == Spec => []PollsFront
  BY Invariant, PTL DEF IInv, SlotOK
-----------------------------------------------------------------------------
(* Wake-ups.                                                               *)

LEMMA QueuedPush ==
    ASSUME NEW S, NEW q \in Seq(S), NEW e, NEW t,
           t = e \/ \E i \in DOMAIN q : q[i] = t
    PROVE  \E i \in DOMAIN Append(q, e) : Append(q, e)[i] = t
<1> DEFINE r == Append(q, e)
<1>1. Len(q) \in Nat /\ DOMAIN q = 1 .. Len(q)
  OBVIOUS
<1>2. DOMAIN r = 1 .. Len(q) + 1 /\ r[Len(q) + 1] = e
  BY <1>1
<1>3. \A i \in 1 .. Len(q) : r[i] = q[i]
  BY <1>1
<1>4. CASE t = e
  BY <1>1, <1>2, <1>4
<1>5. CASE \E i \in DOMAIN q : q[i] = t
  <2>1. PICK i \in 1 .. Len(q) : q[i] = t
    BY <1>1, <1>5
  <2>2. i \in DOMAIN r /\ r[i] = t
    BY <1>1, <1>2, <1>3, <2>1
  <2> QED
    BY <2>2
<1> QED
  BY <1>4, <1>5

LEMMA QueuedPop ==
    ASSUME NEW S, NEW q \in Seq(S), q # <<>>, NEW t, t # Head(q),
           \E i \in DOMAIN q : q[i] = t
    PROVE  \E i \in DOMAIN Tail(q) : Tail(q)[i] = t
<1>1. Len(q) \in Nat /\ DOMAIN q = 1 .. Len(q) /\ Head(q) = q[1]
  OBVIOUS
<1>2. PICK i \in 1 .. Len(q) : q[i] = t
  BY <1>1
<1>3. i # 1 /\ i - 1 \in 1 .. Len(q) - 1
  BY <1>1, <1>2
<1>4. DOMAIN Tail(q) = 1 .. Len(q) - 1 /\ Tail(q)[i - 1] = q[i]
  BY <1>1, <1>3
<1> QED
  BY <1>2, <1>3, <1>4

LEMMA WakeupStep ==
    ASSUME IInv, NoTaskStranded, [Next]_execVars
    PROVE  NoTaskStranded'
<1> USE DEF NoTaskStranded, Queued
<1>0. tasks \in Seq(Task)
  BY DEF IInv, TypeOK
<1>1. ASSUME UNCHANGED <<tasks, born, done, failed, armed>> PROVE NoTaskStranded'
  BY <1>1 DEF Live
<1>2. ASSUME NEW e \in Task, tasks' = Append(tasks, e), Live' \subseteq Live \cup {e},
             \A t \in Task, s \in Source : t # e /\ <<t, s>> \in armed => <<t, s>> \in armed'
      PROVE  NoTaskStranded'
  <2> SUFFICES ASSUME NEW t \in Live'
               PROVE  \/ \E i \in DOMAIN tasks' : tasks'[i] = t
                      \/ \E s \in Source : <<t, s>> \in armed'
    OBVIOUS
  <2>1. CASE t = e \/ \E i \in DOMAIN tasks : tasks[i] = t
    BY <1>0, <1>2, <2>1, QueuedPush
  <2>2. CASE t # e /\ ~\E i \in DOMAIN tasks : tasks[i] = t
    BY <1>2, <2>2 DEF Live, IInv, TypeOK
  <2> QED
    BY <2>1, <2>2
<1>3. ASSUME NEW e, tasks # <<>>, e = Head(tasks), tasks' = Tail(tasks), Live' \subseteq Live,
             armed' = armed, e \in Live' => \E s \in Source : <<e, s>> \in armed
      PROVE  NoTaskStranded'
  <2> SUFFICES ASSUME NEW t \in Live'
               PROVE  \/ \E i \in DOMAIN tasks' : tasks'[i] = t
                      \/ \E s \in Source : <<t, s>> \in armed'
    OBVIOUS
  <2>1. CASE t # e /\ \E i \in DOMAIN tasks : tasks[i] = t
    BY <1>0, <1>3, <2>1, QueuedPop
  <2>2. CASE ~(t # e /\ \E i \in DOMAIN tasks : tasks[i] = t)
    BY <1>3, <2>2
  <2> QED
    BY <2>1, <2>2
<1>4. ASSUME NEW t \in Task, Spawn(t) PROVE NoTaskStranded'
  BY <1>2, <1>4 DEF Spawn, Live
<1>5. ASSUME NEW t \in Task, NEW s \in Source, FireWaker(t, s) PROVE NoTaskStranded'
  BY <1>2, <1>5 DEF FireWaker, Live
<1>6. ASSUME ConsumeFront PROVE NoTaskStranded'
  <2>1. CASE Head(tasks) \in done \cup failed
    <3>1. /\ tasks # <<>> /\ tasks' = Tail(tasks) /\ armed' = armed
          /\ Live' = Live /\ Head(tasks) \notin Live
      BY <1>6, <2>1, ConsumeOutcome DEF Live
    <3> QED
      BY <1>3, <3>1
  <2>2. CASE Head(tasks) \notin done \cup failed
    BY <1>1, <1>6, <2>2, ConsumeOutcome
  <2> QED
    BY <2>1, <2>2
<1>7. ASSUME NEW s \in Source, RegisterWaker(s) PROVE NoTaskStranded'
  BY <1>7 DEF RegisterWaker, Live
<1>8. ASSUME PollWake PROVE NoTaskStranded'
  <2>1. Head(tasks) \in Task
    BY <1>8, Front DEF PollWake, IInv, SlotOK, PollsFront, TypeOK
  <2> QED
    BY <1>2, <1>8, <2>1 DEF PollWake, Live
<1>9. ASSUME PollPending PROVE NoTaskStranded'
  <2>1. tasks # <<>> /\ \E s \in Source : <<Head(tasks), s>> \in armed
    BY <1>9 DEF PollPending, IInv, SlotOK, PollsFront
  <2>2. tasks' = Tail(tasks) /\ armed' = armed /\ Live' = Live
    BY <1>9 DEF PollPending, PopFront, Live
  <2> QED
    BY <1>3, <2>1, <2>2
<1>10. ASSUME PollReady \/ PollThrow PROVE NoTaskStranded'
  <2>1. /\ tasks # <<>> /\ tasks' = Tail(tasks) /\ armed' = armed
        /\ Live' \subseteq Live /\ Head(tasks) \notin Live'
    BY <1>10 DEF PollReady, PollThrow, PopFront, IInv, SlotOK, PollsFront, Live
  <2> QED
    BY <1>3, <2>1
<1> QED
  BY <1>1, <1>4, <1>5, <1>6, <1>7, <1>8, <1>9, <1>10, StepCases
  DEF MainSpawn, PollSpawn, NaiveRun, HandlersDone, StepReturns, execVars

(* Without workers no wake-up is lost: whatever a task's pending poll left *)
(* behind, it is in the queue or a handler has its waker.                  *)
THEOREM NothingStranded == Spec => []NoTaskStranded
<1>1. Init => NoTaskStranded
  BY DEF Init, NoTaskStranded, Live
<1>2. IInv /\ NoTaskStranded /\ [Next]_execVars => NoTaskStranded'
  BY WakeupStep
<1> QED
  BY <1>1, <1>2, Invariant, PTL DEF Spec

(* naive_run returns only when every task that was spawned has completed.  *)
THEOREM ExitSafe == Spec => []ExitMeansAllDone
<1>1. Init => ExitMeansAllDone
  BY DEF Init, ExitMeansAllDone, Exited
<1>2. IInv /\ CountOK /\ ExitMeansAllDone /\ [Next]_execVars => ExitMeansAllDone'
  <2> SUFFICES ASSUME IInv, CountOK, ExitMeansAllDone, [Next]_execVars, Exited'
               PROVE  born' = done'
    BY DEF ExitMeansAllDone
  <2>1. CASE Exited
    <3>1. UNCHANGED <<born, done>>
      BY <2>1, StepCases
      DEF Exited, MainSpawn, PollSpawn, NaiveRun, FireWaker, HandlersDone, StepReturns,
          ConsumeFront, RegisterWaker, PollWake, PollPending, PollReady, PollThrow, execVars
    <3> QED
      BY <2>1, <3>1 DEF ExitMeansAllDone
  <2>2. CASE ~Exited
    <3>1. StepReturns /\ ~(tasksUntilCompletion > 0)
      BY <2>2, StepCases, ConsumeOutcome
      DEF Exited, MainSpawn, PollSpawn, Spawn, NaiveRun, FireWaker, HandlersDone, StepReturns,
          RegisterWaker, PollWake, PollPending, PollReady, PollThrow, PopFront, execVars
    <3>2. Cardinality(born \ done) = 0 /\ IsFiniteSet(born \ done)
      <4>1. IsFiniteSet(born \ done) /\ Cardinality(born \ done) \in Nat
        BY FS_Subset, FS_CardinalityType DEF CountOK
      <4> QED
        BY <3>1, <4>1 DEF CountOK
    <3>3. born \ done = {}
      BY <3>2, FS_EmptySet
    <3> QED
      BY <3>1, <3>3 DEF StepReturns, IInv, RefsOK
  <2> QED
    BY <2>1, <2>2
<1> QED
  BY <1>1, <1>2, Invariant, PTL DEF Spec
-----------------------------------------------------------------------------
(* The executor implements TaskLifecycle.                                  *)

LEMMA MappedInit == Init => Lifecycle!LifecycleInit
<1> SUFFICES ASSUME Init, NEW t \in Task
             PROVE  StateOf(t) = "unborn" /\ PollerOf(t) = NoThread
  BY DEF Lifecycle!LifecycleInit
<1> QED
  BY ThreadlessAssumption DEF Init, StateOf, PollerOf

(* A step that leaves the futures alone is not seen.                       *)
LEMMA MappedSame ==
    ASSUME UNCHANGED <<born, done, failed, slot>>
    PROVE  UNCHANGED Lifecycle!lifecycleVars
<1>1. \A t \in Task : StateOf(t)' = StateOf(t) /\ PollerOf(t)' = PollerOf(t)
  BY DEF StateOf, PollerOf, Live
<1> QED
  BY <1>1 DEF Lifecycle!lifecycleVars

LEMMA MappedBorn ==
    ASSUME IInv, NEW t \in Task, Spawn(t)
    PROVE  Lifecycle!LifecycleNext
<1>1. t \notin born \cup done \cup failed /\ slot # t /\ born' = born \cup {t}
      /\ UNCHANGED <<done, failed, slot>>
  BY ThreadlessAssumption DEF Spawn, IInv, RefsOK, SlotOK, PollsFront, Live
<1>2. StateOf(t) = "unborn" /\ StateOf(t)' = "waiting"
  BY <1>1 DEF StateOf, Live
<1>3. \A u \in Task : (u # t => StateOf(u)' = StateOf(u)) /\ PollerOf(u)' = PollerOf(u)
  BY <1>1 DEF StateOf, PollerOf, Live
<1>4. Lifecycle!Born(t)
  BY <1>2, <1>3 DEF Lifecycle!Born
<1> QED
  BY <1>4 DEF Lifecycle!LifecycleNext

LEMMA MappedBegin ==
    ASSUME IInv, ConsumeFront
    PROVE  Lifecycle!LifecycleNext \/ UNCHANGED Lifecycle!lifecycleVars
<1>1. PICK t \in Task : t = Head(tasks)
  BY ConsumeOutcome
<1>2. CASE t \in done \cup failed
  BY <1>1, <1>2, ConsumeOutcome, MappedSame DEF Live
<1>3. CASE t \notin done \cup failed
  <2>1. t \in born /\ slot = NoTask /\ slot' = t /\ UNCHANGED <<born, done, failed>>
    BY <1>1, <1>3, ConsumeOutcome
  <2>2. StateOf(t) = "waiting" /\ StateOf(t)' = "polling" /\ PollerOf(t)' = Main
    BY <1>3, <2>1, ThreadlessAssumption DEF StateOf, PollerOf, Live
  <2>3. \A u \in Task : PollerOf(u) # Main
    BY <2>1, ThreadlessAssumption DEF PollerOf
  <2>4. \A u \in Task : u # t => StateOf(u)' = StateOf(u) /\ PollerOf(u)' = PollerOf(u)
    BY <2>1, ThreadlessAssumption DEF StateOf, PollerOf, Live
  <2>5. Lifecycle!Begin(t, Main)
    BY <2>2, <2>3, <2>4 DEF Lifecycle!Begin
  <2> QED
    BY <2>5 DEF Lifecycle!LifecycleNext
<1> QED
  BY <1>2, <1>3

LEMMA MappedEnd ==
    ASSUME IInv, pc = "poll", NEW outcome \in {"waiting", "done", "failed"},
           slot' = NoTask, born' = born,
           done' = IF outcome = "done" THEN done \cup {Head(tasks)} ELSE done,
           failed' = IF outcome = "failed" THEN failed \cup {Head(tasks)} ELSE failed
    PROVE  Lifecycle!LifecycleNext
<1>1. PICK t \in Task : t = Head(tasks) /\ slot = t /\ t \in Live
  BY DEF IInv, SlotOK, PollsFront, Live, TypeOK
<1>2. StateOf(t) = "polling" /\ StateOf(t)' = outcome /\ PollerOf(t)' = NoThread
  BY <1>1, ThreadlessAssumption DEF StateOf, PollerOf, Live
<1>3. \A u \in Task : u # t => StateOf(u)' = StateOf(u) /\ PollerOf(u)' = PollerOf(u)
  BY <1>1, ThreadlessAssumption DEF StateOf, PollerOf, Live
<1>4. Lifecycle!End(t, outcome)
  BY <1>2, <1>3 DEF Lifecycle!End
<1> QED
  BY <1>4 DEF Lifecycle!LifecycleNext

(* Whatever is queued or woken, the loop does to a future only what        *)
(* TaskLifecycle allows: one is polled at a time, and none after it ended. *)
THEOREM Refinement == Spec => ImplementsLifecycle
<1>1. Init => Lifecycle!LifecycleInit
  BY MappedInit
<1>2. IInv /\ [Next]_execVars => [Lifecycle!LifecycleNext]_(Lifecycle!lifecycleVars)
  <2> SUFFICES ASSUME IInv, [Next]_execVars
               PROVE  Lifecycle!LifecycleNext \/ UNCHANGED Lifecycle!lifecycleVars
    OBVIOUS
  <2>1. ASSUME PollPending PROVE Lifecycle!LifecycleNext
    BY <2>1, MappedEnd DEF PollPending, PopFront
  <2>2. ASSUME PollReady PROVE Lifecycle!LifecycleNext
    BY <2>2, MappedEnd DEF PollReady, PopFront
  <2>3. ASSUME PollThrow PROVE Lifecycle!LifecycleNext
    BY <2>3, MappedEnd DEF PollThrow, PopFront
  <2> QED
    BY <2>1, <2>2, <2>3, MappedBorn, MappedBegin, MappedSame, StepCases
    DEF MainSpawn, PollSpawn, NaiveRun, FireWaker, HandlersDone, StepReturns,
        RegisterWaker, PollWake, execVars
<1> QED
  BY <1>1, <1>2, Invariant, PTL DEF Spec, ImplementsLifecycle, Lifecycle!LifecycleSpec
=============================================================================
