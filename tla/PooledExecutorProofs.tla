------------------------ MODULE PooledExecutorProofs ------------------------
(***************************************************************************)
(* Proofs about PooledExecutor, for any number of workers, tasks and event *)
(* sources.  Everything rests on one inductive invariant, OwnInv.          *)
(***************************************************************************)
EXTENDS PooledExecutor, FiniteSetTheorems, TLAPS

(* Where a worker is inside the poll of a task it consumed, or about to    *)
(* give its future back.                                                   *)
Polling == {"poll", "deconsume", "finish"} \cup SpawnPc \cup WakePc

Holding == Polling \cup {"consume"}

(* The two forms a task's cell has.                                        *)
Taken == [future |-> FALSE, stale |-> TRUE, inUse |-> TRUE]

(* A task is in flight until it is pushed on a queue, and known from then  *)
(* on.                                                                     *)
InFlight == {"spawn_head", "spawn_push"}

Known == {t \in born : \A th \in Thread : pc[th] \in InFlight => child[th] # t}

(* The runtime lock is held by the thread inside a spawn, if any.          *)
LockOK ==
    /\ pc[Main] \in MainPc
    /\ \A w \in Worker : pc[w] \in WorkerPc
    /\ \A th \in Thread : pc[th] \in SpawnPc <=> runtimeLock = th

(* Every reference to a task names a known one.                            *)
RefsOK ==
    /\ queues \in [Worker -> Seq(Known)]
    /\ armed \subseteq Known \X Source
    /\ done \cup failed \subseteq Known
    /\ \A w \in Worker : pc[w] \in Holding => cur[w] \in Known
    /\ pc[Main] \in {"wake_head", "wake_push"} => cur[Main] \in Known
    /\ \A th \in Thread : pc[th] \in InFlight => child[th] \in born

(* A worker holds the future of the task it popped exactly while it polls. *)
SlotsOK ==
    \A w \in Worker :
        /\ pc[w] \in Polling => slot[w] = cur[w]
        /\ pc[w] \notin Polling => slot[w] = NoTask

(* A cell is empty exactly while one worker holds the future, and for ever *)
(* once the task is over.                                                  *)
CellsOK ==
    /\ \A t \in Task : inner[t] \in {MakeTask, Taken}
    /\ \A w \in Worker : slot[w] # NoTask => slot[w] \in Live /\ inner[slot[w]] = Taken
    /\ \A w, v \in Worker : slot[w] = slot[v] /\ slot[w] # NoTask => w = v
    /\ \A t \in Live : inner[t] = Taken => \E w \in Worker : slot[w] = t
    /\ \A t \in done \cup failed : inner[t] = Taken
    /\ done \cap failed = {}

OwnInv == TypeOK /\ LockOK /\ RefsOK /\ SlotsOK /\ CellsOK
-----------------------------------------------------------------------------
(* A step of the program is a step of one operation, or none.              *)
LEMMA StepCases ==
    ASSUME [Next]_execVars
    PROVE  \/ \E t \in Task : MainSpawn(t)
           \/ \E w \in Worker, t \in Task : PollSpawn(w, t)
           \/ \E th \in Thread : SpawnHead(th)
           \/ \E th \in Thread : SpawnPush(th)
           \/ \E th \in Thread : SpawnCount(th)
           \/ \E w \in Worker : PopOwn(w)
           \/ \E w \in Worker : StealTask(w)
           \/ \E w \in Worker : ConsumeTask(w)
           \/ \E w \in Worker, s \in Source : RegisterWaker(w, s)
           \/ \E w \in Worker : PollWake(w)
           \/ \E w \in Worker : PollPending(w)
           \/ \E w \in Worker : PollReady(w)
           \/ \E w \in Worker : PollThrow(w)
           \/ \E w \in Worker : DeconsumeTask(w)
           \/ \E w \in Worker : FinishTask(w)
           \/ NaiveRun
           \/ \E t \in Task, s \in Source : FireWaker(t, s)
           \/ \E th \in Thread : RespawnHead(th)
           \/ \E th \in Thread : RespawnPush(th)
           \/ ExecutorStep
           \/ UNCHANGED execVars
  BY DEF Next, MainNext, WorkerNext, MainBoot, SpawnStep, WorkerStep,
         RespawnStep, PollReturn, Thread

(* What the constants' assumption gives the provers.                       *)
LEMMA Constants ==
    /\ WorkerCount \in Nat /\ WorkerCount > 0
    /\ 0 \in Worker
    /\ Worker \subseteq Int
    /\ Main \notin Worker
    /\ Main \in Thread
    /\ Worker \subseteq Thread
    /\ NoTask \notin Task
    /\ NoThread \notin Thread
  BY PoolAssumption DEF Worker, Thread

(* spawn_head stays an index into task_queues.                             *)
LEMMA NextHeadInWorker == ASSUME TypeOK PROVE NextHead \in Worker
  BY PoolAssumption DEF TypeOK, NextHead, Worker

LEMMA SeqMonotone ==
    ASSUME NEW S, NEW T, S \subseteq T PROVE Seq(S) \subseteq Seq(T)
  OBVIOUS

(* A push keeps the type of the queues, a pop returns an element of it.    *)
LEMMA QueuePush ==
    ASSUME NEW S, NEW qs \in [Worker -> Seq(S)], NEW i, NEW e \in S
    PROVE  [qs EXCEPT ![i] = Append(@, e)] \in [Worker -> Seq(S)]
<1>1. CASE i \in Worker
  <2>1. Append(qs[i], e) \in Seq(S)
    BY <1>1
  <2> QED
    BY <1>1, <2>1
<1>2. CASE i \notin Worker
  BY <1>2
<1> QED
  BY <1>1, <1>2

LEMMA QueuePop ==
    ASSUME NEW S, NEW qs \in [Worker -> Seq(S)], NEW i \in Worker, qs[i] # <<>>
    PROVE  /\ Head(qs[i]) \in S
           /\ [qs EXCEPT ![i] = Tail(@)] \in [Worker -> Seq(S)]
<1>1. Head(qs[i]) \in S /\ Tail(qs[i]) \in Seq(S)
  OBVIOUS
<1> QED
  BY <1>1
-----------------------------------------------------------------------------
(* Types.                                                                  *)

LEMMA TypeInit == Init => TypeOK
  BY Constants
  DEF Init, TypeOK, MakeTask, InnerTask, WorkerPc, MainPc, SpawnPc, Thread

LEMMA CellTypes ==
    ASSUME NEW cell \in InnerTask
    PROVE  /\ MakeTask \in InnerTask
           /\ Consumed(cell) \in InnerTask
           /\ Deconsumed(cell) \in InnerTask
  BY DEF InnerTask, MakeTask, Consumed, Deconsumed

LEMMA BornTasks == ASSUME TypeOK PROVE Seq(born) \subseteq Seq(Task) /\ born \subseteq Task
  BY SeqMonotone DEF TypeOK

LEMMA TypeStep ==
    ASSUME TypeOK, RefsOK, [Next]_execVars
    PROVE  TypeOK'
<1> USE Constants DEF TypeOK, Thread
<1> DEFINE Labels == WorkerPc \cup MainPc
<1>0. {"spawn_head", "spawn_push", "spawn_count", "own", "steal", "consume", "poll",
       "deconsume", "finish", "boot", "reactor", "wake_head", "wake_push", "exited"}
          \subseteq Labels
  BY DEF WorkerPc, MainPc, SpawnPc, WakePc
<1>1. ASSUME NEW th \in Thread, NEW t \in Task, SpawnBoxed(th, t) PROVE TypeOK'
  BY <1>0, <1>1, CellTypes DEF SpawnBoxed
<1>2. ASSUME NEW th \in Thread, SpawnHead(th) PROVE TypeOK'
  BY <1>0, <1>2, NextHeadInWorker DEF SpawnHead, taskVars
<1>3. ASSUME NEW th \in Thread, SpawnPush(th) PROVE TypeOK'
  <2>1. child[th] \in Task
    BY <1>3 DEF SpawnPush, At, RefsOK, InFlight
  <2>2. queues' \in [Worker -> Seq(Task)]
    BY <1>3, <2>1, QueuePush DEF SpawnPush
  <2> QED
    BY <1>0, <1>3, <2>2 DEF SpawnPush, taskVars
<1>4. ASSUME NEW th \in Thread, SpawnCount(th) PROVE TypeOK'
  BY <1>0, <1>4 DEF SpawnCount, taskVars, localVars
<1>5. ASSUME NEW w \in Worker, NEW q \in Worker, queues[q] # <<>>, Take(w, q)
      PROVE  TypeOK'
  BY <1>0, <1>5, QueuePop DEF Take, taskVars
<1>6. ASSUME NEW w \in Worker, PopOwn(w) PROVE TypeOK'
  <2>1. CASE queues[w] # <<>> /\ Take(w, w)
    BY <1>5, <2>1
  <2>2. CASE ~(queues[w] # <<>> /\ Take(w, w))
    <3>1. Victim(w, 0) \in Int
      BY DEF Victim
    <3>2. /\ pc' = [pc EXCEPT ![w] = "steal"]
          /\ target' = [target EXCEPT ![w] = Victim(w, 0)]
          /\ UNCHANGED <<queues, spawnHead, tasksRunning, runtimeLock, taskVars,
                         cur, child, pollArmed, armed>>
      BY <1>6, <2>2 DEF PopOwn
    <3> QED
      BY <1>0, <3>1, <3>2 DEF taskVars
  <2> QED
    BY <2>1, <2>2
<1>7. ASSUME NEW w \in Worker, StealTask(w) PROVE TypeOK'
  <2>1. CASE target[w] \in Worker /\ queues[target[w]] # <<>> /\ Take(w, target[w])
    BY <1>5, <2>1
  <2>2. CASE ~(target[w] \in Worker /\ queues[target[w]] # <<>> /\ Take(w, target[w]))
    <3>1. Victim(w, target[w] + 1) \in Int
      BY DEF Victim
    <3>2. /\ \/ pc' = [pc EXCEPT ![w] = "own"] /\ target' = [target EXCEPT ![w] = 0]
             \/ pc' = pc /\ target' = [target EXCEPT ![w] = Victim(w, @ + 1)]
          /\ UNCHANGED <<queues, spawnHead, tasksRunning, runtimeLock, taskVars,
                         cur, child, pollArmed, armed>>
      BY <1>7, <2>2 DEF StealTask
    <3>3. target' \in [Thread -> Int]
      <4>1. \/ target' = [target EXCEPT ![w] = 0]
            \/ target' = [target EXCEPT ![w] = Victim(w, target[w] + 1)]
        BY <3>2
      <4>2. target \in [Thread -> Int]
        OBVIOUS
      <4> QED BY ONLY <3>1, <4>1, <4>2
    <3>4. pc' \in [Thread -> Labels]
      BY <1>0, <3>2
    <3> QED
      BY <3>2, <3>3, <3>4 DEF taskVars
  <2> QED
    BY <2>1, <2>2
<1>8. ASSUME NEW w \in Worker, ConsumeTask(w) PROVE TypeOK'
  <2>1. inner' \in [Task -> InnerTask]
    BY <1>8, CellTypes DEF ConsumeTask
  <2>2. slot' \in [Worker -> Task \cup {NoTask}]
    BY <1>8 DEF ConsumeTask
  <2>3. pc' \in [Thread -> Labels]
    <3>1. pc' = [pc EXCEPT ![w] = "own"] \/ pc' = [pc EXCEPT ![w] = "poll"]
      BY <1>8 DEF ConsumeTask, LoopEnd
    <3>2. pc \in [Thread -> Labels]
      OBVIOUS
    <3> QED BY ONLY <1>0, <3>1, <3>2
  <2>5. cur' \in [Thread -> Task \cup {NoTask}]
    BY <1>8 DEF ConsumeTask, LoopEnd
  <2>4. pollArmed' \in [Worker -> BOOLEAN]
    BY <1>8 DEF ConsumeTask, LoopEnd
  <2> QED
    BY <1>8, <2>1, <2>2, <2>3, <2>4, <2>5 DEF ConsumeTask
<1>9. ASSUME NEW w \in Worker, NEW s \in Source, RegisterWaker(w, s) PROVE TypeOK'
  BY <1>0, <1>9, SMTT(30) DEF RegisterWaker, RefsOK, Known, Holding, Polling, At, taskVars
<1>10. ASSUME NEW w \in Worker, PollPending(w) PROVE TypeOK'
  BY <1>0, <1>10 DEF PollPending, taskVars, localVars
<1>11. ASSUME NEW w \in Worker, PollReady(w) PROVE TypeOK'
  BY <1>0, <1>11 DEF PollReady, taskVars, localVars
<1>12. ASSUME NEW w \in Worker, PollThrow(w) PROVE TypeOK'
  BY <1>0, <1>12 DEF PollThrow, LoopEnd, RefsOK, Known, Holding, Polling, At
<1>13. ASSUME NEW w \in Worker, DeconsumeTask(w) PROVE TypeOK'
  BY <1>0, <1>13, CellTypes DEF DeconsumeTask, LoopEnd
<1>14. ASSUME NEW w \in Worker, FinishTask(w) PROVE TypeOK'
  BY <1>0, <1>14, SMTT(30) DEF FinishTask, LoopEnd, RefsOK, Known, Holding, Polling, At
<1>15. ASSUME NaiveRun PROVE TypeOK'
  BY <1>0, <1>15 DEF NaiveRun, taskVars, localVars
<1>16. ASSUME ExecutorStep PROVE TypeOK'
  BY <1>0, <1>16 DEF ExecutorStep, taskVars, localVars
<1>17. ASSUME NEW t \in Task, NEW s \in Source, FireWaker(t, s) PROVE TypeOK'
  BY <1>0, <1>17 DEF FireWaker, taskVars
<1>18. ASSUME NEW th \in Thread, RespawnHead(th) PROVE TypeOK'
  BY <1>0, <1>18, NextHeadInWorker DEF RespawnHead, taskVars
<1>19. ASSUME NEW th \in Thread, RespawnPush(th) PROVE TypeOK'
  <2>1. cur[th] \in Task
    BY <1>19 DEF RespawnPush, At, RefsOK, Known, Holding, Polling, WakePc
  <2>2. queues' \in [Worker -> Seq(Task)]
    BY <1>19, <2>1, QueuePush DEF RespawnPush
  <2> QED
    BY <1>0, <1>19, <2>2 DEF RespawnPush, taskVars
<1>20. ASSUME UNCHANGED execVars PROVE TypeOK'
  BY <1>20 DEF execVars, taskVars, localVars
<1>21. ASSUME NEW w \in Worker, PollWake(w) PROVE TypeOK'
  BY <1>0, <1>21 DEF PollWake, taskVars, localVars
<1> QED
  BY <1>1, <1>2, <1>3, <1>4, <1>6, <1>7, <1>8, <1>9, <1>10, <1>11, <1>12, <1>13, <1>14,
     <1>15, <1>16, <1>17, <1>18, <1>19, <1>20, <1>21, StepCases DEF MainSpawn, PollSpawn
-----------------------------------------------------------------------------
(* The runtime lock.                                                       *)

LEMMA LockInit == Init => LockOK
  BY Constants DEF Init, LockOK, WorkerPc, MainPc, SpawnPc, WakePc, Thread

LEMMA LockStep ==
    ASSUME TypeOK, LockOK, [Next]_execVars
    PROVE  LockOK'
<1> USE Constants DEF TypeOK, LockOK, Thread, SpawnPc, WakePc, WorkerPc, MainPc
<1>1. ASSUME NEW th \in Thread, NEW t \in Task, SpawnBoxed(th, t),
             pc[th] = IF th = Main THEN "boot" ELSE "poll"
      PROVE  LockOK'
  BY <1>1 DEF SpawnBoxed
<1>2. ASSUME NEW th \in Thread, SpawnHead(th) \/ SpawnPush(th) PROVE LockOK'
  BY <1>2 DEF SpawnHead, SpawnPush, At
<1>3. ASSUME NEW th \in Thread, SpawnCount(th) PROVE LockOK'
  BY <1>3 DEF SpawnCount, At
<1>4. ASSUME NEW w \in Worker, NEW label \in WorkerPc \ SpawnPc,
             pc[w] \notin SpawnPc, pc' = [pc EXCEPT ![w] = label],
             runtimeLock' = runtimeLock
      PROVE  LockOK'
  BY <1>4
<1>5. ASSUME NEW label \in MainPc \ SpawnPc, pc[Main] \notin SpawnPc,
             pc' = [pc EXCEPT ![Main] = label], runtimeLock' = runtimeLock
      PROVE  LockOK'
  BY <1>5
<1>6. ASSUME pc' = pc, runtimeLock' = runtimeLock PROVE LockOK'
  BY <1>6
<1>7. ASSUME NEW w \in Worker, PopOwn(w) PROVE LockOK'
  BY <1>4, <1>7 DEF PopOwn, Take, At
<1>8. ASSUME NEW w \in Worker, StealTask(w) PROVE LockOK'
  BY <1>4, <1>6, <1>8 DEF StealTask, Take, At
<1>9. ASSUME NEW w \in Worker, ConsumeTask(w) PROVE LockOK'
  BY <1>4, <1>9 DEF ConsumeTask, LoopEnd, At
<1>10. ASSUME NEW w \in Worker,
              PollPending(w) \/ PollReady(w) \/ PollThrow(w) \/ DeconsumeTask(w) \/ FinishTask(w)
       PROVE  LockOK'
  BY <1>4, <1>10 DEF PollPending, PollReady, PollThrow, DeconsumeTask, FinishTask, LoopEnd, At
<1>11. ASSUME NaiveRun \/ ExecutorStep PROVE LockOK'
  BY <1>5, <1>11 DEF NaiveRun, ExecutorStep, At
<1>12. ASSUME NEW t \in Task, NEW s \in Source, FireWaker(t, s) PROVE LockOK'
  BY <1>5, <1>12 DEF FireWaker, At
<1>13. ASSUME NEW w \in Worker, PollWake(w) PROVE LockOK'
  BY <1>4, <1>13 DEF PollWake, At
<1>14. ASSUME NEW th \in Thread, RespawnHead(th) \/ RespawnPush(th) PROVE LockOK'
  <2>1. CASE th = Main
    BY <1>5, <1>14, <2>1 DEF RespawnHead, RespawnPush, At
  <2>2. CASE th \in Worker
    BY <1>4, <1>14, <2>2 DEF RespawnHead, RespawnPush, At
  <2> QED
    BY <2>1, <2>2
<1> QED
  BY <1>1, <1>2, <1>3, <1>6, <1>7, <1>8, <1>9, <1>10, <1>11, <1>12, <1>13, <1>14, StepCases
  DEF MainSpawn, PollSpawn, At, RegisterWaker, execVars
-----------------------------------------------------------------------------
(* References.                                                             *)

LEMMA RefsInit == Init => RefsOK
  BY Constants DEF Init, RefsOK, Known, InFlight, Holding, Polling, SpawnPc, WakePc, Thread

(* A step that moves one thread neither into nor out of the flight of a    *)
(* task leaves the known tasks as they are.                                *)
LEMMA KnownSame ==
    ASSUME TypeOK, UNCHANGED <<born, child>>, NEW th \in Thread, NEW label,
           pc' = [pc EXCEPT ![th] = label],
           pc[th] \in InFlight <=> label \in InFlight
    PROVE  Known' = Known
  BY DEF TypeOK, Known

LEMMA RefsStep ==
    ASSUME TypeOK, LockOK, RefsOK, [Next]_execVars
    PROVE  RefsOK'
<1> USE Constants DEF TypeOK, Thread, Holding, Polling, SpawnPc, WakePc, InFlight
<1>1. ASSUME NEW th \in Thread, NEW t \in Task, SpawnBoxed(th, t),
             pc[th] = IF th = Main THEN "boot" ELSE "poll"
      PROVE  RefsOK'
  <2>1. \A u \in Thread : pc[u] \notin InFlight
    BY <1>1 DEF SpawnBoxed, LockOK
  <2>2. Known' = Known /\ Known = born
    BY <1>1, <2>1 DEF SpawnBoxed, Known
  <2>3. \A u \in Thread : (pc[u] \in InFlight => child[u] \in born)'
    BY <1>1, <2>1 DEF SpawnBoxed
  <2>4. \A w \in Worker : (pc[w] \in Holding => cur[w] \in Known)'
    BY <1>1, <2>2 DEF SpawnBoxed, RefsOK
  <2>5. (pc[Main] \in {"wake_head", "wake_push"} => cur[Main] \in Known)'
    BY <1>1, <2>2 DEF SpawnBoxed, RefsOK
  <2>6. /\ queues' \in [Worker -> Seq(Known')]
        /\ armed' \subseteq Known' \X Source
        /\ done' \cup failed' \subseteq Known'
    BY <1>1, <2>2 DEF SpawnBoxed, RefsOK
  <2> QED
    BY <2>3, <2>4, <2>5, <2>6 DEF RefsOK
<1>2. ASSUME NEW th \in Thread, SpawnHead(th) PROVE RefsOK'
  <2>1. Known' = Known
    BY <1>2, KnownSame DEF SpawnHead, At, taskVars
  <2> QED
    BY <1>2, <2>1 DEF RefsOK, SpawnHead, At, taskVars
<1>3. ASSUME NEW th \in Thread, SpawnPush(th) PROVE RefsOK'
  <2>1. \A u \in Thread : pc[u] \in InFlight => u = th
    BY <1>3 DEF SpawnPush, At, LockOK
  <2>2. child[th] \in born
    BY <1>3 DEF SpawnPush, At, RefsOK
  <2>3. Known' = born
    BY <1>3, <2>1 DEF SpawnPush, Known, taskVars
  <2>4. Known \subseteq Known' /\ child[th] \in Known'
    BY <2>2, <2>3 DEF Known
  <2>5. queues \in [Worker -> Seq(Known')]
    BY <2>4, SeqMonotone DEF RefsOK
  <2>6. queues' \in [Worker -> Seq(Known')]
    BY <1>3, <2>4, <2>5, QueuePush DEF SpawnPush
  <2> QED
    BY <1>3, <2>1, <2>4, <2>6 DEF SpawnPush, At, RefsOK, taskVars
<1>4. ASSUME NEW th \in Thread, SpawnCount(th) PROVE RefsOK'
  <2>1. Known' = Known
    BY <1>4, KnownSame DEF SpawnCount, At, taskVars, localVars
  <2> QED
    BY <1>4, <2>1 DEF RefsOK, SpawnCount, At, taskVars, localVars
<1>5. ASSUME NEW w \in Worker, NEW q \in Worker, queues[q] # <<>>, Take(w, q),
             pc[w] \in {"own", "steal"}
      PROVE  RefsOK'
  <2>1. Known' = Known
    BY <1>5, KnownSame DEF Take, taskVars
  <2>2. Head(queues[q]) \in Known /\ queues' \in [Worker -> Seq(Known)]
    BY <1>5, QueuePop DEF Take, RefsOK
  <2> QED
    BY <1>5, <2>1, <2>2 DEF Take, taskVars, RefsOK
<1>6. ASSUME NEW w \in Worker, PopOwn(w) PROVE RefsOK'
  <2>1. CASE queues[w] # <<>> /\ Take(w, w)
    BY <1>5, <1>6, <2>1 DEF PopOwn, At
  <2>2. CASE ~(queues[w] # <<>> /\ Take(w, w))
    <3>1. /\ pc[w] = "own"
          /\ pc' = [pc EXCEPT ![w] = "steal"]
          /\ UNCHANGED <<queues, taskVars, cur, child, armed>>
      BY <1>6, <2>2 DEF PopOwn, At
    <3>2. Known' = Known
      BY <3>1, KnownSame DEF taskVars
    <3> QED
      BY <3>1, <3>2 DEF taskVars, RefsOK
  <2> QED
    BY <2>1, <2>2
<1>7. ASSUME NEW w \in Worker, StealTask(w) PROVE RefsOK'
  <2>1. CASE target[w] \in Worker /\ queues[target[w]] # <<>> /\ Take(w, target[w])
    BY <1>5, <1>7, <2>1 DEF StealTask, At
  <2>2. CASE ~(target[w] \in Worker /\ queues[target[w]] # <<>> /\ Take(w, target[w]))
    <3>1. /\ pc[w] = "steal"
          /\ pc' = [pc EXCEPT ![w] = "own"] \/ pc' = pc
          /\ UNCHANGED <<queues, taskVars, cur, child, armed>>
      BY <1>7, <2>2 DEF StealTask, At
    <3>2. Known' = Known
      BY <3>1, KnownSame DEF taskVars, Known
    <3> QED
      BY <3>1, <3>2 DEF taskVars, RefsOK
  <2> QED
    BY <2>1, <2>2
<1>8. ASSUME NEW w \in Worker, ConsumeTask(w) PROVE RefsOK'
  <2>1. /\ pc[w] = "consume"
        /\ UNCHANGED <<queues, born, done, failed, child, armed>>
    BY <1>8 DEF ConsumeTask, At
  <2>2. CASE pc' = [pc EXCEPT ![w] = "own"] /\ cur' = [cur EXCEPT ![w] = NoTask]
    <3>1. Known' = Known
      BY <2>1, <2>2, KnownSame
    <3> QED
      BY <2>1, <2>2, <3>1 DEF RefsOK
  <2>3. CASE pc' = [pc EXCEPT ![w] = "poll"] /\ cur' = cur
    <3>1. Known' = Known
      BY <2>1, <2>3, KnownSame
    <3> QED
      BY <2>1, <2>3, <3>1 DEF RefsOK
  <2> QED
    BY <1>8, <2>2, <2>3 DEF ConsumeTask, LoopEnd
<1>9. ASSUME NEW w \in Worker, NEW s \in Source, RegisterWaker(w, s) PROVE RefsOK'
  <2>1. Known' = Known
    BY <1>9 DEF RegisterWaker, taskVars, Known
  <2> QED
    BY <1>9, <2>1 DEF RefsOK, RegisterWaker, At, taskVars
<1>10. ASSUME NEW w \in Worker, PollPending(w) PROVE RefsOK'
  <2>1. Known' = Known
    BY <1>10, KnownSame DEF PollPending, At, taskVars, localVars
  <2> QED
    BY <1>10, <2>1 DEF RefsOK, PollPending, At, taskVars, localVars
<1>11. ASSUME NEW w \in Worker, PollReady(w) PROVE RefsOK'
  <2>1. Known' = Known
    BY <1>11, KnownSame DEF PollReady, At, taskVars, localVars
  <2> QED
    BY <1>11, <2>1 DEF RefsOK, PollReady, At, taskVars, localVars
<1>12. ASSUME NEW w \in Worker, PollThrow(w) PROVE RefsOK'
  <2>1. Known' = Known
    BY <1>12, KnownSame DEF PollThrow, LoopEnd, At
  <2> QED
    BY <1>12, <2>1 DEF RefsOK, PollThrow, LoopEnd, At
<1>13. ASSUME NEW w \in Worker, DeconsumeTask(w) PROVE RefsOK'
  <2>1. Known' = Known
    BY <1>13, KnownSame DEF DeconsumeTask, LoopEnd, At
  <2> QED
    BY <1>13, <2>1 DEF RefsOK, DeconsumeTask, LoopEnd, At
<1>14. ASSUME NEW w \in Worker, FinishTask(w) PROVE RefsOK'
  <2>1. Known' = Known
    BY <1>14, KnownSame DEF FinishTask, LoopEnd, At
  <2> QED
    BY <1>14, <2>1 DEF RefsOK, FinishTask, LoopEnd, At
<1>15. ASSUME NaiveRun PROVE RefsOK'
  <2>1. Known' = Known
    BY <1>15, KnownSame DEF NaiveRun, At, taskVars, localVars
  <2> QED
    BY <1>15, <2>1 DEF RefsOK, NaiveRun, taskVars, localVars
<1>16. ASSUME NEW t \in Task, NEW s \in Source, FireWaker(t, s) PROVE RefsOK'
  <2>1. Known' = Known
    BY <1>16, KnownSame DEF FireWaker, At, taskVars
  <2> QED
    BY <1>16, <2>1 DEF RefsOK, FireWaker, taskVars
<1>17. ASSUME NEW th \in Thread, RespawnHead(th) PROVE RefsOK'
  <2>1. Known' = Known
    BY <1>17, KnownSame DEF RespawnHead, At, taskVars
  <2> QED
    BY <1>17, <2>1 DEF RefsOK, RespawnHead, At, taskVars
<1>18. ASSUME NEW th \in Thread, RespawnPush(th) PROVE RefsOK'
  <2>1. Known' = Known
    BY <1>18, KnownSame DEF RespawnPush, At, taskVars
  <2>2. queues' \in [Worker -> Seq(Known)]
    BY <1>18, QueuePush DEF RespawnPush, At, RefsOK
  <2> QED
    BY <1>18, <2>1, <2>2 DEF RefsOK, RespawnPush, At, taskVars
<1>19. ASSUME ExecutorStep PROVE RefsOK'
  <2>1. Known' = Known
    BY <1>19, KnownSame DEF ExecutorStep, At, taskVars, localVars
  <2> QED
    BY <1>19, <2>1 DEF RefsOK, ExecutorStep, taskVars, localVars
<1>20. ASSUME UNCHANGED execVars PROVE RefsOK'
  <2>1. Known' = Known
    BY <1>20 DEF execVars, taskVars, localVars, Known
  <2> QED
    BY <1>20, <2>1 DEF execVars, taskVars, localVars, RefsOK
<1>21. ASSUME NEW w \in Worker, PollWake(w) PROVE RefsOK'
  <2>1. Known' = Known
    BY <1>21, KnownSame DEF PollWake, At, taskVars, localVars
  <2> QED
    BY <1>21, <2>1 DEF RefsOK, PollWake, At, taskVars, localVars
<1> QED
  BY <1>1, <1>2, <1>3, <1>4, <1>6, <1>7, <1>8, <1>9, <1>10, <1>11, <1>12, <1>13,
     <1>14, <1>15, <1>16, <1>17, <1>18, <1>19, <1>20, <1>21, StepCases
  DEF MainSpawn, PollSpawn, At
-----------------------------------------------------------------------------
(* Ownership.                                                              *)

(* What the operations of a cell do to its two forms.                      *)
LEMMA CellForms ==
    /\ MakeTask # Taken
    /\ MakeTask.future /\ ~Taken.future
    /\ Consume(MakeTask) = "take" /\ Consumed(MakeTask) = Taken
    /\ Consume(Taken) = "skip" /\ Consumed(Taken) = Taken
    /\ \A cell : Deconsumed(cell) = MakeTask
  BY DEF MakeTask, Taken, Consume, Consumed, Deconsumed

(* consume succeeds only for a free cell of a live task, and a worker that *)
(* consumed nothing starts over.                                           *)
LEMMA ConsumeOutcome ==
    ASSUME OwnInv, NEW w \in Worker, ConsumeTask(w)
    PROVE  /\ cur[w] \in born /\ slot[w] = NoTask
           /\ \/ /\ inner[cur[w]] = MakeTask
                 /\ inner' = [inner EXCEPT ![cur[w]] = Taken]
                 /\ slot' = [slot EXCEPT ![w] = cur[w]]
                 /\ pc' = [pc EXCEPT ![w] = "poll"]
                 /\ cur' = cur
              \/ /\ inner[cur[w]] = Taken
                 /\ inner' = inner
                 /\ slot' = slot
                 /\ pc' = [pc EXCEPT ![w] = "own"]
           /\ UNCHANGED <<born, done, failed>>
<1> USE DEF OwnInv
<1>1. cur[w] \in born /\ slot[w] = NoTask /\ pc[w] = "consume" /\ cur[w] \in Task
  BY DEF ConsumeTask, At, RefsOK, Known, SlotsOK, Holding, Polling, SpawnPc, WakePc, TypeOK
<1>2. inner[cur[w]] \in {MakeTask, Taken}
  BY <1>1 DEF CellsOK
<1>3. CASE inner[cur[w]] = MakeTask
  BY <1>1, <1>3, CellForms DEF ConsumeTask
<1>4. CASE inner[cur[w]] = Taken
  <2>1. inner' = [inner EXCEPT ![cur[w]] = inner[cur[w]]]
    BY <1>4, CellForms DEF ConsumeTask
  <2>2. inner' = inner
    BY <1>1, <2>1 DEF TypeOK
  <2> QED
    BY <1>1, <1>4, <2>2, CellForms DEF ConsumeTask, LoopEnd
<1> QED
  BY <1>2, <1>3, <1>4

LEMMA SlotsInit == Init => SlotsOK
  BY Constants DEF Init, SlotsOK, Polling, SpawnPc, WakePc, Thread

LEMMA SlotsStep ==
    ASSUME OwnInv, [Next]_execVars
    PROVE  SlotsOK'
<1> USE Constants DEF OwnInv, TypeOK, SlotsOK, Thread, Polling, SpawnPc, WakePc
<1>1. ASSUME NEW th \in Thread, NEW t \in Task, SpawnBoxed(th, t), pc[th] \in {"boot", "poll"}
      PROVE  SlotsOK'
  <2>1. th \in Worker => pc[th] = "poll"
    BY <1>1 DEF LockOK, WorkerPc
  <2>2. /\ pc' = [pc EXCEPT ![th] = "spawn_head"]
        /\ UNCHANGED <<slot, cur>>
    BY <1>1 DEF SpawnBoxed
  <2> QED
    BY <2>1, <2>2
<1>2. ASSUME NEW th \in Thread, SpawnHead(th) PROVE SlotsOK'
  BY <1>2 DEF SpawnHead, At, taskVars
<1>3. ASSUME NEW th \in Thread, SpawnPush(th) PROVE SlotsOK'
  BY <1>3 DEF SpawnPush, At, taskVars
<1>4. ASSUME NEW th \in Thread, SpawnCount(th) PROVE SlotsOK'
  BY <1>4 DEF SpawnCount, At, taskVars, localVars
<1>5. ASSUME NEW w \in Worker, NEW q \in Worker, pc[w] \in {"own", "steal"}, Take(w, q)
      PROVE  SlotsOK'
  BY <1>5 DEF Take, taskVars
<1>6. ASSUME NEW w \in Worker, PopOwn(w) PROVE SlotsOK'
  <2>1. CASE Take(w, w)
    BY <1>5, <1>6, <2>1 DEF PopOwn, At
  <2>2. CASE ~Take(w, w)
    BY <1>6, <2>2 DEF PopOwn, At, taskVars
  <2> QED
    BY <2>1, <2>2
<1>7. ASSUME NEW w \in Worker, StealTask(w) PROVE SlotsOK'
  <2>1. CASE target[w] \in Worker /\ Take(w, target[w])
    BY <1>5, <1>7, <2>1 DEF StealTask, At
  <2>2. CASE ~(target[w] \in Worker /\ Take(w, target[w]))
    BY <1>7, <2>2 DEF StealTask, At, taskVars
  <2> QED
    BY <2>1, <2>2
<1>8. ASSUME NEW w \in Worker, ConsumeTask(w) PROVE SlotsOK'
  <2>1. \A v \in Worker \ {w} : pc'[v] = pc[v] /\ cur'[v] = cur[v] /\ slot'[v] = slot[v]
    BY <1>8 DEF ConsumeTask, LoopEnd
  <2>2. \/ pc'[w] = "poll" /\ slot'[w] = cur'[w]
        \/ pc'[w] = "own" /\ slot'[w] = NoTask
    BY <1>8, ConsumeOutcome
  <2> QED
    BY <2>1, <2>2
<1>9. ASSUME NEW w \in Worker, NEW s \in Source, RegisterWaker(w, s) PROVE SlotsOK'
  BY <1>9 DEF RegisterWaker, taskVars
<1>10. ASSUME NEW w \in Worker, PollPending(w) PROVE SlotsOK'
  BY <1>10 DEF PollPending, At, taskVars, localVars
<1>11. ASSUME NEW w \in Worker, PollReady(w) PROVE SlotsOK'
  BY <1>11 DEF PollReady, At, taskVars, localVars
<1>12. ASSUME NEW w \in Worker, PollThrow(w) PROVE SlotsOK'
  BY <1>12 DEF PollThrow, LoopEnd, At
<1>13. ASSUME NEW w \in Worker, DeconsumeTask(w) PROVE SlotsOK'
  BY <1>13 DEF DeconsumeTask, LoopEnd, At
<1>14. ASSUME NEW w \in Worker, FinishTask(w) PROVE SlotsOK'
  BY <1>14 DEF FinishTask, LoopEnd, At
<1>15. ASSUME NaiveRun PROVE SlotsOK'
  BY <1>15 DEF NaiveRun, taskVars, localVars
<1>16. ASSUME NEW t \in Task, NEW s \in Source, FireWaker(t, s) PROVE SlotsOK'
  BY <1>16 DEF FireWaker, taskVars
<1>17. ASSUME NEW th \in Thread, RespawnHead(th) PROVE SlotsOK'
  BY <1>17 DEF RespawnHead, At, taskVars
<1>18. ASSUME NEW th \in Thread, RespawnPush(th) PROVE SlotsOK'
  BY <1>18 DEF RespawnPush, At, taskVars
<1>19. ASSUME ExecutorStep PROVE SlotsOK'
  BY <1>19 DEF ExecutorStep, taskVars, localVars
<1>20. ASSUME UNCHANGED execVars PROVE SlotsOK'
  BY <1>20 DEF execVars, taskVars, localVars
<1>21. ASSUME NEW w \in Worker, PollWake(w) PROVE SlotsOK'
  BY <1>21 DEF PollWake, At, taskVars, localVars
<1> QED
  BY <1>1, <1>2, <1>3, <1>4, <1>6, <1>7, <1>8, <1>9, <1>10, <1>11, <1>12, <1>13,
     <1>14, <1>15, <1>16, <1>17, <1>18, <1>19, <1>20, <1>21, StepCases
  DEF MainSpawn, PollSpawn, At

LEMMA CellsInit == Init => CellsOK
  BY Constants DEF Init, CellsOK, Live

LEMMA CellsStep ==
    ASSUME OwnInv, [Next]_execVars
    PROVE  CellsOK'
<1> USE Constants DEF OwnInv, TypeOK, CellsOK, Live
<1>1. ASSUME UNCHANGED taskVars PROVE CellsOK'
  BY <1>1 DEF taskVars
<1>2. ASSUME NEW th \in Thread, NEW t \in Task, SpawnBoxed(th, t) PROVE CellsOK'
  <2>1. /\ born' = born \cup {t} /\ t \notin born
        /\ inner' = [inner EXCEPT ![t] = MakeTask]
        /\ UNCHANGED <<done, failed, slot>>
    BY <1>2 DEF SpawnBoxed
  <2>2. Live' = Live \cup {t} /\ t \notin done \cup failed
    BY <2>1 DEF RefsOK, Known
  <2> QED
    BY <2>1, <2>2, CellForms
<1>3. ASSUME NEW w \in Worker, ConsumeTask(w) PROVE CellsOK'
  <2>1. CASE inner[cur[w]] = Taken
    BY <1>1, <1>3, <2>1, ConsumeOutcome, CellForms DEF taskVars
  <2>2. CASE inner[cur[w]] = MakeTask
    <3> DEFINE t == cur[w]
    <3>1. /\ inner' = [inner EXCEPT ![t] = Taken]
          /\ slot' = [slot EXCEPT ![w] = t]
          /\ UNCHANGED <<born, done, failed>>
          /\ t \in born /\ slot[w] = NoTask
      BY <1>3, <2>2, ConsumeOutcome, CellForms
    <3>2. t \in Task /\ t \in Live /\ t # NoTask
      BY <2>2, <3>1, CellForms
    <3>3. \A v \in Worker : slot[v] # t
      BY <2>2, <3>2, CellForms
    <3> HIDE DEF t
    <3>4. \A u \in Task : inner'[u] \in {MakeTask, Taken}
      BY <3>1, <3>2
    <3>5. \A v \in Worker : slot'[v] # NoTask => slot'[v] \in Live' /\ inner'[slot'[v]] = Taken
      BY <3>1, <3>2
    <3>6. \A v, u \in Worker : slot'[v] = slot'[u] /\ slot'[v] # NoTask => v = u
      BY <3>1, <3>2, <3>3
    <3>7. \A u \in Live' : inner'[u] = Taken => \E v \in Worker : slot'[v] = u
      BY <3>1, <3>2
    <3>8. \A u \in done' \cup failed' : inner'[u] = Taken
      BY <3>1, <3>2
    <3>9. done' \cap failed' = {}
      BY <3>1
    <3> QED
      BY <3>4, <3>5, <3>6, <3>7, <3>8, <3>9
  <2> QED
    BY <1>3, <2>1, <2>2, ConsumeOutcome
<1>4. ASSUME NEW w \in Worker, pc[w] \in Polling
      PROVE  slot[w] = cur[w] /\ cur[w] \in Live /\ inner[cur[w]] = Taken
  BY <1>4 DEF SlotsOK, RefsOK, Known, Holding
<1>5. ASSUME NEW w \in Worker, PollThrow(w) PROVE CellsOK'
  <2>1. slot[w] = cur[w] /\ cur[w] \in Live /\ inner[cur[w]] = Taken
    BY <1>4, <1>5 DEF PollThrow, At, Polling
  <2> QED
    BY <1>5, <2>1, SMTT(30) DEF PollThrow
<1>6. ASSUME NEW w \in Worker, FinishTask(w) PROVE CellsOK'
  <2>1. slot[w] = cur[w] /\ cur[w] \in Live /\ inner[cur[w]] = Taken
    BY <1>4, <1>6 DEF FinishTask, At, Polling
  <2> QED
    BY <1>6, <2>1, SMTT(30) DEF FinishTask
<1>7. ASSUME NEW w \in Worker, DeconsumeTask(w) PROVE CellsOK'
  <2>1. slot[w] = cur[w] /\ cur[w] \in Live /\ inner[cur[w]] = Taken
    BY <1>4, <1>7 DEF DeconsumeTask, At, Polling
  <2>2. inner' = [inner EXCEPT ![cur[w]] = MakeTask]
    BY <1>7, CellForms DEF DeconsumeTask
  <2> QED
    BY <1>7, <2>1, <2>2, CellForms, SMTT(30) DEF DeconsumeTask
<1>8. ASSUME NEW w \in Worker, PopOwn(w) \/ StealTask(w) PROVE CellsOK'
  BY <1>1, <1>8 DEF PopOwn, StealTask, Take
<1> QED
  BY <1>1, <1>2, <1>3, <1>5, <1>6, <1>7, <1>8, StepCases
  DEF MainSpawn, PollSpawn, SpawnHead, SpawnPush, SpawnCount, RegisterWaker, PollWake,
      PollPending, PollReady, NaiveRun, FireWaker, RespawnHead, RespawnPush,
      ExecutorStep, execVars, Thread
-----------------------------------------------------------------------------
(* What the invariant says of the futures.                                 *)

THEOREM OwnInvariant == Spec => []OwnInv
<1>1. Init => OwnInv
  BY TypeInit, LockInit, RefsInit, SlotsInit, CellsInit DEF OwnInv
<1>2. OwnInv /\ [Next]_execVars => OwnInv'
  BY TypeStep, LockStep, RefsStep, SlotsStep, CellsStep DEF OwnInv
<1> QED
  BY <1>1, <1>2, PTL DEF Spec

(* Every variable keeps its type: the queues hold tasks, spawn_head stays  *)
(* an index into them, and no cell takes a form consume does not know.     *)
THEOREM TypeCorrect == Spec => []TypeOK
<1>1. OwnInv => TypeOK
  BY DEF OwnInv
<1> QED
  BY <1>1, OwnInvariant, PTL

(* A worker only ever polls the future of the task it popped, and it has   *)
(* it: future_slot is never null when poll is called on it.                *)
THEOREM PollsOwned == Spec => []PollsOwnedFuture
<1>1. OwnInv => PollsOwnedFuture
  BY Constants
  DEF OwnInv, TypeOK, RefsOK, Known, SlotsOK, CellsOK, PollsOwnedFuture, Polling, Holding
<1> QED
  BY <1>1, OwnInvariant, PTL

(* However many queue entries and wakers name a task, its future is in one *)
(* place: no interleaving of pops, steals and wake-ups duplicates or drops *)
(* the future of a live task, or brings back the future of one that ended. *)
THEOREM OwnedOnce == Spec => []FutureOwnedOnce
<1>1. ASSUME OwnInv, NEW t \in born
      PROVE  LET holders == {w \in Worker : slot[w] = t}
             IN  IF t \in Live
                 THEN \/ inner[t].future /\ holders = {}
                      \/ ~inner[t].future /\ \E w \in Worker : holders = {w}
                 ELSE ~inner[t].future /\ holders = {}
  <2> DEFINE holders == {w \in Worker : slot[w] = t}
  <2>0. t \in Task /\ t # NoTask /\ inner[t] \in {MakeTask, Taken}
    BY <1>1, Constants DEF OwnInv, TypeOK, CellsOK
  <2>1. CASE t \notin Live
    BY <1>1, <2>0, <2>1, CellForms DEF OwnInv, CellsOK, Live
  <2>2. CASE t \in Live /\ inner[t] = MakeTask
    BY <1>1, <2>0, <2>2, CellForms DEF OwnInv, CellsOK
  <2>3. CASE t \in Live /\ inner[t] = Taken
    <3>1. PICK w \in Worker : slot[w] = t
      BY <1>1, <2>3 DEF OwnInv, CellsOK
    <3>2. holders = {w}
      BY <1>1, <2>0, <3>1 DEF OwnInv, CellsOK
    <3> QED
      BY <2>3, <3>2, CellForms
  <2> QED
    BY <2>0, <2>1, <2>2, <2>3
<1>2. OwnInv => FutureOwnedOnce
  BY <1>1 DEF FutureOwnedOnce
<1> QED
  BY <1>2, OwnInvariant, PTL
-----------------------------------------------------------------------------
(* The count that ends the program.                                        *)

CountOK == IsFiniteSet(born) /\ TasksRunningExact

LEMMA CountInit == Init => CountOK
  BY FS_EmptySet DEF Init, CountOK, TasksRunningExact

LEMMA CountStep ==
    ASSUME OwnInv, CountOK, [Next]_execVars
    PROVE  CountOK'
<1> USE Constants DEF CountOK, TasksRunningExact
<1>0. IsFiniteSet(born \ done) /\ Cardinality(born \ done) \in Nat
  BY FS_Subset, FS_CardinalityType
<1>1. ASSUME UNCHANGED <<tasksRunning, born, done, runtimeLock>> PROVE CountOK'
  BY <1>1
<1>2. ASSUME NEW th \in Thread, NEW t \in Task, SpawnBoxed(th, t) PROVE CountOK'
  <2>1. t \notin born /\ born' = born \cup {t} /\ done' = done
    BY <1>2 DEF SpawnBoxed
  <2>2. t \notin done
    BY <2>1 DEF OwnInv, RefsOK, Known
  <2>3. born' \ done' = (born \ done) \cup {t} /\ t \notin born \ done
    BY <2>1, <2>2
  <2>4. Cardinality(born' \ done') = Cardinality(born \ done) + 1
    BY <1>0, <2>3, FS_AddElement
  <2>5. IsFiniteSet(born')
    BY <2>1, FS_AddElement
  <2>6. runtimeLock = NoThread /\ runtimeLock' # NoThread /\ tasksRunning' = tasksRunning
    BY <1>2 DEF SpawnBoxed
  <2> QED
    BY <1>0, <2>4, <2>5, <2>6
<1>3. ASSUME NEW th \in Thread, SpawnCount(th) PROVE CountOK'
  <2>1. runtimeLock # NoThread
    BY <1>3 DEF OwnInv, LockOK, SpawnCount, At, SpawnPc
  <2>2. /\ runtimeLock' = NoThread /\ tasksRunning' = tasksRunning + 1
        /\ born' = born /\ done' = done
    BY <1>3 DEF SpawnCount, taskVars
  <2> QED
    BY <1>0, <2>1, <2>2
<1>4. ASSUME NEW w \in Worker, FinishTask(w) PROVE CountOK'
  <2>1. cur[w] \in born \ done
    BY <1>4 DEF FinishTask, At, OwnInv, SlotsOK, CellsOK, RefsOK, Known, Holding,
                Polling, Live, TypeOK
  <2>2. born' \ done' = (born \ done) \ {cur[w]}
    BY <1>4 DEF FinishTask
  <2>3. Cardinality(born' \ done') = Cardinality(born \ done) - 1
    BY <1>0, <2>1, <2>2, FS_RemoveElement, ZenonT(30)
  <2>4. tasksRunning' = tasksRunning - 1 /\ runtimeLock' = runtimeLock /\ born' = born
    BY <1>4 DEF FinishTask
  <2> QED
    BY <1>0, <2>3, <2>4
<1>5. ASSUME NEW w \in Worker, ConsumeTask(w) \/ PopOwn(w) \/ StealTask(w) PROVE CountOK'
  BY <1>1, <1>5 DEF ConsumeTask, PopOwn, StealTask, Take, taskVars
<1> QED
  BY <1>1, <1>2, <1>3, <1>4, <1>5, StepCases
  DEF MainSpawn, PollSpawn, SpawnHead, SpawnPush, RegisterWaker, PollWake, PollPending,
      PollReady, PollThrow, DeconsumeTask, NaiveRun, FireWaker, RespawnHead,
      RespawnPush, ExecutorStep, execVars, taskVars, Thread

(* tasks_running is exact: it counts the tasks that were made and have not *)
(* completed, less the one whose spawn has yet to count it.                *)
THEOREM CountExact == Spec => []TasksRunningExact
<1>1. Init => CountOK
  BY CountInit
<1>2. OwnInv /\ CountOK /\ [Next]_execVars => CountOK'
  BY CountStep
<1>3. CountOK => TasksRunningExact
  BY DEF CountOK
<1> QED
  BY <1>1, <1>2, <1>3, OwnInvariant, PTL DEF Spec

(* When step() reads no running task, no poll ever threw and every task    *)
(* has completed, but for one that is still inside a spawn.                *)
LEMMA StepReadsNone ==
    ASSUME OwnInv, CountOK, pc[Main] = "reactor", ~(tasksRunning > 0)
    PROVE  /\ failed = {}
           /\ Live # {} => \E w \in Worker : pc[w] = "spawn_count" /\ Live = {cur[w]}
<1> USE Constants DEF CountOK, TasksRunningExact
<1> DEFINE left == born \ done
<1>0. IsFiniteSet(left) /\ Cardinality(left) \in Nat
  BY FS_Subset, FS_CardinalityType
<1>1. failed \subseteq left /\ Live \subseteq left
  BY DEF OwnInv, RefsOK, Known, CellsOK, Live
<1>2. CASE runtimeLock = NoThread
  <2>1. Cardinality(left) = 0
    BY <1>0, <1>2
  <2>2. left = {}
    BY <1>0, <2>1, FS_EmptySet
  <2> QED
    BY <1>1, <2>2
<1>3. CASE runtimeLock # NoThread
  <2>1. PICK w \in Worker : runtimeLock = w /\ pc[w] \in SpawnPc
    BY <1>3 DEF OwnInv, TypeOK, LockOK, Thread, SpawnPc
  <2>2. cur[w] \in Live /\ cur[w] \in Known
    BY <2>1 DEF OwnInv, TypeOK, SlotsOK, CellsOK, RefsOK, Known, Holding, Polling
  <2>3. Cardinality(left) <= 1
    BY <1>0, <1>3
  <2>4. Cardinality(left \ {cur[w]}) = Cardinality(left) - 1 /\ IsFiniteSet(left \ {cur[w]})
    BY <1>0, <1>1, <2>2, FS_RemoveElement
  <2>5. left \ {cur[w]} = {}
    <3>1. Cardinality(left \ {cur[w]}) \in Nat
      BY <2>4, FS_CardinalityType
    <3>2. Cardinality(left \ {cur[w]}) = 0
      BY <1>0, <2>3, <2>4, <3>1
    <3> QED
      BY <2>4, <3>2, FS_EmptySet
  <2>6. left = {cur[w]} /\ Live = {cur[w]} /\ failed = {}
    BY <1>1, <2>2, <2>5 DEF Live
  <2>7. pc[w] \notin InFlight
    <3>1. SUFFICES ASSUME pc[w] \in InFlight PROVE FALSE
      OBVIOUS
    <3>2. child[w] \in born /\ child[w] \notin Known
      BY <3>1 DEF OwnInv, RefsOK, Known
    <3>3. child[w] \in left
      BY <3>2 DEF OwnInv, RefsOK
    <3> QED
      BY <2>2, <2>6, <3>2, <3>3
  <2> QED
    BY <2>1, <2>6, <2>7 DEF SpawnPc, InFlight
<1> QED
  BY <1>2, <1>3

(* naive_run never returns after a poll threw, and the one task it can     *)
(* leave behind is spawning: the push of the child precedes its count.     *)
THEOREM ExitSafe == Spec => []ExitLeavesOnlySpawner
<1>1. Init => ExitLeavesOnlySpawner
  BY Constants DEF Init, ExitLeavesOnlySpawner, Exited, Thread
<1>2. OwnInv /\ CountOK /\ ExitLeavesOnlySpawner /\ [Next]_execVars => ExitLeavesOnlySpawner'
  <2> SUFFICES ASSUME OwnInv, CountOK, ExitLeavesOnlySpawner, [Next]_execVars
               PROVE  ExitLeavesOnlySpawner'
    OBVIOUS
  <2>1. CASE ExecutorStep
    <3>1. /\ pc[Main] = "reactor" /\ ~(tasksRunning > 0)
          /\ pc' = [pc EXCEPT ![Main] = "exited"]
          /\ UNCHANGED <<born, done, failed, cur>>
      BY <2>1 DEF ExecutorStep, At, taskVars, localVars
    <3>2. \A w \in Worker : pc'[w] = pc[w]
      BY <3>1, Constants DEF OwnInv, TypeOK
    <3>3. /\ failed = {}
          /\ Live # {} => \E w \in Worker : pc[w] = "spawn_count" /\ Live = {cur[w]}
      BY <3>1, StepReadsNone
    <3> QED
      BY <3>1, <3>2, <3>3 DEF ExitLeavesOnlySpawner, Live
  <2>2. CASE Exited /\ ~ExecutorStep
    <3>1. UNCHANGED execVars
      BY <2>2, StepCases
      DEF MainSpawn, PollSpawn, SpawnHead, SpawnPush, SpawnCount, PopOwn, StealTask,
          ConsumeTask, RegisterWaker, PollWake, PollPending, PollReady, PollThrow, DeconsumeTask,
          FinishTask, NaiveRun, FireWaker, RespawnHead, RespawnPush, At
    <3> QED
      BY <3>1 DEF ExitLeavesOnlySpawner, Exited, Live, execVars, taskVars, localVars
  <2>3. CASE ~Exited /\ ~ExecutorStep
    <3> USE Constants DEF Exited, OwnInv, TypeOK, Thread
    <3>1. ASSUME NEW w \in Worker, PopOwn(w) \/ StealTask(w) \/ ConsumeTask(w)
          PROVE  ~Exited'
      BY <2>3, <3>1 DEF PopOwn, StealTask, Take, ConsumeTask, LoopEnd
    <3>2. ASSUME NEW th \in Thread, SpawnHead(th) \/ SpawnPush(th) \/ SpawnCount(th)
          PROVE  ~Exited'
      BY <2>3, <3>2 DEF SpawnHead, SpawnPush, SpawnCount
    <3>3. ASSUME NEW w \in Worker,
                 PollPending(w) \/ PollReady(w) \/ PollThrow(w) \/ DeconsumeTask(w) \/ FinishTask(w)
          PROVE  ~Exited'
      BY <2>3, <3>3 DEF PollPending, PollReady, PollThrow, DeconsumeTask, FinishTask, LoopEnd
    <3>4. ASSUME NaiveRun PROVE ~Exited'
      BY <2>3, <3>4 DEF NaiveRun
    <3>5. ASSUME NEW t \in Task, NEW s \in Source, FireWaker(t, s) PROVE ~Exited'
      BY <2>3, <3>5 DEF FireWaker
    <3>6. ASSUME NEW w \in Worker, NEW s \in Source, RegisterWaker(w, s) PROVE ~Exited'
      BY <2>3, <3>6 DEF RegisterWaker
    <3>7. ASSUME NEW th \in Thread, NEW t \in Task, SpawnBoxed(th, t) PROVE ~Exited'
      BY <2>3, <3>7 DEF SpawnBoxed
    <3>8. ASSUME UNCHANGED execVars PROVE ~Exited'
      BY <2>3, <3>8 DEF execVars
    <3>9. ASSUME NEW w \in Worker, PollWake(w) PROVE ~Exited'
      BY <2>3, <3>9 DEF PollWake
    <3>10. ASSUME NEW th \in Thread, RespawnHead(th) \/ RespawnPush(th) PROVE ~Exited'
      BY <2>3, <3>10 DEF RespawnHead, RespawnPush
    <3>11. ~Exited'
      BY <2>3, <3>1, <3>2, <3>3, <3>4, <3>5, <3>6, <3>7, <3>8, <3>9, <3>10, StepCases
      DEF MainSpawn, PollSpawn
    <3> QED
      BY <3>11 DEF ExitLeavesOnlySpawner
  <2> QED
    BY <2>1, <2>2, <2>3
<1>3. Init => CountOK
  BY CountInit
<1>4. OwnInv /\ CountOK /\ [Next]_execVars => CountOK'
  BY CountStep
<1> QED
  BY <1>1, <1>2, <1>3, <1>4, OwnInvariant, PTL DEF Spec
-----------------------------------------------------------------------------
(* The executor implements TaskLifecycle.                                  *)

LEMMA ChosenHolder ==
    ASSUME NEW held, NEW w \in Worker, \A v \in Worker : held[v] = held[w] => v = w
    PROVE  (CHOOSE v \in Worker : held[v] = held[w]) = w
  OBVIOUS

(* A held task is polled by its holder, whether it is asked before or      *)
(* after a step.                                                           *)
LEMMA HolderPolls ==
    ASSUME OwnInv, NEW w \in Worker, slot[w] # NoTask
    PROVE  BeingPolled(slot[w]) /\ PollerOf(slot[w]) = w
<1>1. \A v \in Worker : slot[v] = slot[w] => v = w
  BY DEF OwnInv, CellsOK
<1> QED
  BY <1>1, ChosenHolder DEF BeingPolled, PollerOf

LEMMA MappedInit == Init => Lifecycle!LifecycleInit
<1> SUFFICES ASSUME Init, NEW t \in Task
             PROVE  StateOf(t) = "unborn" /\ PollerOf(t) = NoThread
  BY DEF Lifecycle!LifecycleInit
<1>1. ~BeingPolled(t) /\ t \notin born \cup done \cup failed
  BY Constants DEF Init, BeingPolled
<1> QED
  BY <1>1 DEF StateOf, PollerOf

(* A step that leaves the futures alone is not seen.                       *)
LEMMA MappedSame ==
    ASSUME UNCHANGED taskVars
    PROVE  UNCHANGED Lifecycle!lifecycleVars
<1>1. \A t \in Task : StateOf(t)' = StateOf(t) /\ PollerOf(t)' = PollerOf(t)
  BY DEF StateOf, PollerOf, BeingPolled, Live, taskVars
<1> QED
  BY <1>1 DEF Lifecycle!lifecycleVars

(* A task whose holders, and whose place in born, done and failed, a step  *)
(* leaves alone is seen unchanged.                                         *)
LEMMA MappedOther ==
    ASSUME OwnInv, NEW u \in Task,
           \A v \in Worker : slot'[v] = u <=> slot[v] = u,
           u \in born' <=> u \in born, u \in done' <=> u \in done,
           u \in failed' <=> u \in failed
    PROVE  StateOf(u)' = StateOf(u) /\ PollerOf(u)' = PollerOf(u)
<1>1. BeingPolled(u)' <=> BeingPolled(u)
  BY DEF BeingPolled
<1>2. StateOf(u)' = StateOf(u)
  BY <1>1 DEF StateOf
<1>3. CASE BeingPolled(u)
  <2>1. PICK v \in Worker : slot[v] = u
    BY <1>3 DEF BeingPolled
  <2>2. \A x \in Worker : (slot[x] = slot[v] => x = v) /\ (slot'[x] = slot'[v] => x = v)
    BY <2>1, Constants DEF OwnInv, CellsOK, TypeOK
  <2>3. slot[v] = u /\ slot'[v] = u
    BY <2>1
  <2>4. PollerOf(u) = v
    BY <1>3, <2>2, <2>3, ChosenHolder DEF PollerOf
  <2>5. PollerOf(u)' = v
    BY <1>1, <1>3, <2>2, <2>3, ChosenHolder DEF PollerOf
  <2> QED
    BY <1>2, <2>4, <2>5
<1>4. CASE ~BeingPolled(u)
  BY <1>1, <1>2, <1>4 DEF PollerOf
<1> QED
  BY <1>3, <1>4

(* A worker that stops polling a task.                                     *)
LEMMA MappedEnd ==
    ASSUME OwnInv, NEW w \in Worker, NEW t \in Task,
           NEW outcome \in {"waiting", "done", "failed"},
           slot[w] = t, slot' = [slot EXCEPT ![w] = NoTask], born' = born,
           done' = IF outcome = "done" THEN done \cup {t} ELSE done,
           failed' = IF outcome = "failed" THEN failed \cup {t} ELSE failed
    PROVE  Lifecycle!LifecycleNext
<1>1. t # NoTask /\ t \in Live
  BY Constants DEF OwnInv, CellsOK
<1>2. \A v \in Worker : slot'[v] # t
  BY <1>1, Constants DEF OwnInv, TypeOK, CellsOK
<1>3. BeingPolled(t) /\ ~BeingPolled(t)'
  BY <1>2 DEF BeingPolled
<1>4. StateOf(t) = "polling" /\ StateOf(t)' = outcome /\ PollerOf(t)' = NoThread
  <2>1. t \in born /\ t \notin done /\ t \notin failed
    BY <1>1 DEF Live
  <2>2. StateOf(t) = "polling"
    BY <1>3, <2>1 DEF StateOf
  <2>3. StateOf(t)' = outcome
    BY <1>3, <2>1 DEF StateOf
  <2>4. PollerOf(t)' = NoThread
    BY <1>3 DEF PollerOf
  <2> QED
    BY <2>2, <2>3, <2>4
<1>5. ASSUME NEW u \in Task, u # t
      PROVE  StateOf(u)' = StateOf(u) /\ PollerOf(u)' = PollerOf(u)
  <2>1. \A v \in Worker : slot'[v] = u <=> slot[v] = u
    BY <1>5, Constants DEF OwnInv, TypeOK
  <2> QED
    BY <1>5, <2>1, MappedOther
<1>6. Lifecycle!End(t, outcome)
  BY <1>1, <1>4, <1>5 DEF Lifecycle!End
<1> QED
  BY <1>1, <1>6 DEF Lifecycle!LifecycleNext

LEMMA MappedBorn ==
    ASSUME OwnInv, NEW th \in Thread, NEW t \in Task, SpawnBoxed(th, t)
    PROVE  Lifecycle!LifecycleNext
<1>1. t \notin born /\ t # NoTask /\ born' = born \cup {t} /\ UNCHANGED <<done, failed, slot>>
  BY Constants DEF SpawnBoxed
<1>2. t \notin done \cup failed /\ ~BeingPolled(t)
  BY <1>1 DEF OwnInv, RefsOK, Known, CellsOK, BeingPolled, Live
<1>3. ~BeingPolled(t)'
  BY <1>1, <1>2 DEF BeingPolled
<1>4. StateOf(t) = "unborn" /\ StateOf(t)' = "waiting"
  BY <1>1, <1>2, <1>3 DEF StateOf
<1>5. PollerOf(t)' = PollerOf(t)
  BY <1>2, <1>3 DEF PollerOf
<1>6. ASSUME NEW u \in Task, u # t
      PROVE  StateOf(u)' = StateOf(u) /\ PollerOf(u)' = PollerOf(u)
  BY <1>1, <1>6, MappedOther
<1>7. Lifecycle!Born(t)
  BY <1>4, <1>5, <1>6 DEF Lifecycle!Born
<1> QED
  BY <1>7 DEF Lifecycle!LifecycleNext

LEMMA MappedBegin ==
    ASSUME OwnInv, OwnInv', NEW w \in Worker, ConsumeTask(w)
    PROVE  Lifecycle!LifecycleNext \/ UNCHANGED Lifecycle!lifecycleVars
<1>1. CASE inner[cur[w]] = Taken
  BY <1>1, MappedSame, ConsumeOutcome, CellForms DEF taskVars
<1>2. CASE inner[cur[w]] = MakeTask
  <2>1. PICK t \in Task : t = cur[w]
    BY ConsumeOutcome DEF OwnInv, TypeOK
  <2>2. /\ slot[w] = NoTask /\ slot' = [slot EXCEPT ![w] = t]
        /\ UNCHANGED <<born, done, failed>>
    BY <1>2, <2>1, ConsumeOutcome, CellForms
  <2>3. /\ t # NoTask /\ t \in born /\ t \notin done /\ t \notin failed
        /\ \A v \in Worker : slot[v] # t
    BY <1>2, <2>1, ConsumeOutcome, CellForms, Constants DEF OwnInv, CellsOK
  <2>4. ~BeingPolled(t)
    BY <2>3 DEF BeingPolled
  <2>5. slot'[w] = t /\ \A v \in Worker : slot'[v] = slot'[w] => v = w
    BY <2>2, <2>3 DEF OwnInv, TypeOK
  <2>6. BeingPolled(t)'
    BY <2>5 DEF BeingPolled
  <2>7. StateOf(t) = "waiting" /\ StateOf(t)' = "polling"
    BY <2>2, <2>3, <2>4, <2>6 DEF StateOf
  <2>8. PollerOf(t)' = w
    BY <2>5, <2>6, ChosenHolder DEF PollerOf
  <2>9. ASSUME NEW u \in Task, u # t
        PROVE  StateOf(u)' = StateOf(u) /\ PollerOf(u)' = PollerOf(u)
    <3>1. \A v \in Worker : slot'[v] = u <=> slot[v] = u
      BY <2>2, <2>3, <2>9, Constants DEF OwnInv, TypeOK
    <3> QED
      BY <2>2, <3>1, MappedOther
  <2>10. \A u \in Task : PollerOf(u) # w
    <3> SUFFICES ASSUME NEW u \in Task, PollerOf(u) = w PROVE FALSE
      OBVIOUS
    <3>1. BeingPolled(u)
      BY Constants DEF PollerOf
    <3>2. PICK v \in Worker : slot[v] = u
      BY <3>1 DEF BeingPolled
    <3>3. PollerOf(u) = v
      BY <3>2, HolderPolls, Constants
    <3> QED
      BY <2>2, <3>2, <3>3, Constants
  <2>11. Lifecycle!Begin(t, w)
    BY <2>7, <2>8, <2>9, <2>10 DEF Lifecycle!Begin
  <2> QED
    BY <2>11 DEF Lifecycle!LifecycleNext
<1> QED
  BY <1>1, <1>2, ConsumeOutcome

(* Whatever is queued, stolen or woken, the executor only does to a future *)
(* what TaskLifecycle allows: it is polled by one worker at a time, a      *)
(* worker polls one at a time, and none is polled again once it ended.     *)
THEOREM Refinement == Spec => ImplementsLifecycle
<1>1. Init => Lifecycle!LifecycleInit
  BY MappedInit
<1>2. OwnInv /\ OwnInv' /\ [Next]_execVars
          => [Lifecycle!LifecycleNext]_(Lifecycle!lifecycleVars)
  <2> SUFFICES ASSUME OwnInv, OwnInv', [Next]_execVars
               PROVE  Lifecycle!LifecycleNext \/ UNCHANGED Lifecycle!lifecycleVars
    OBVIOUS
  <2>1. ASSUME NEW w \in Worker, pc[w] \in Polling
        PROVE  cur[w] \in Task /\ slot[w] = cur[w]
    BY <2>1, Constants DEF OwnInv, SlotsOK, CellsOK, RefsOK, Known, Holding, TypeOK
  <2>2. ASSUME NEW w \in Worker, PollThrow(w) PROVE Lifecycle!LifecycleNext
    <3>1. PICK t \in Task : t = cur[w] /\ slot[w] = t
      BY <2>1, <2>2 DEF PollThrow, At, Polling
    <3> QED
      BY <2>2, <3>1, MappedEnd DEF PollThrow
  <2>3. ASSUME NEW w \in Worker, FinishTask(w) PROVE Lifecycle!LifecycleNext
    <3>1. PICK t \in Task : t = cur[w] /\ slot[w] = t
      BY <2>1, <2>3 DEF FinishTask, At, Polling
    <3> QED
      BY <2>3, <3>1, MappedEnd DEF FinishTask
  <2>4. ASSUME NEW w \in Worker, DeconsumeTask(w) PROVE Lifecycle!LifecycleNext
    <3>1. PICK t \in Task : t = cur[w] /\ slot[w] = t
      BY <2>1, <2>4 DEF DeconsumeTask, At, Polling
    <3> QED
      BY <2>4, <3>1, MappedEnd DEF DeconsumeTask
  <2>5. ASSUME NEW w \in Worker, PopOwn(w) \/ StealTask(w)
        PROVE  UNCHANGED Lifecycle!lifecycleVars
    BY <2>5, MappedSame DEF PopOwn, StealTask, Take
  <2> QED
    BY <2>2, <2>3, <2>4, <2>5, MappedBorn, MappedBegin, MappedSame, StepCases
    DEF MainSpawn, PollSpawn, SpawnHead, SpawnPush, SpawnCount, RegisterWaker,
        PollWake, PollPending, PollReady, NaiveRun, FireWaker, RespawnHead, RespawnPush,
        ExecutorStep, execVars, Thread
<1> QED
  BY <1>1, <1>2, OwnInvariant, PTL DEF Spec, ImplementsLifecycle, Lifecycle!LifecycleSpec
-----------------------------------------------------------------------------
(* One worker.  With two or more, an entry popped while its task is still  *)
(* inside a poll is dropped, and the wake-up with it (pooled_strand); with *)
(* one, nobody pops during a poll.                                         *)

(* Something other than the thread that polls a task leads to it.          *)
Parked(t) ==
    \/ Queued(t)
    \/ \E s \in Source : <<t, s>> \in armed
    \/ pc[Main] \in WakePc /\ cur[Main] = t

(* The queue a thread is about to push on is one of the executor's.        *)
TargetsOK ==
    \A th \in Thread : pc[th] \in {"spawn_push", "wake_push"} => target[th] \in Worker

(* A live task is parked unless a worker holds it.                         *)
KeptOK ==
    \A t \in Live \cap Known :
        Parked(t) \/ \E w \in Worker : pc[w] \in Holding /\ cur[w] = t

(* A poll that registered its waker is on a parked task, and only such a   *)
(* poll returns pending.                                                   *)
PollsParked ==
    \A w \in Worker :
        /\ pollArmed[w] => pc[w] \in Polling /\ Parked(cur[w])
        /\ pc[w] = "deconsume" => pollArmed[w]

SoleInv == TargetsOK /\ KeptOK /\ PollsParked

LEMMA SoleInit == Init => SoleInv
  BY Constants
  DEF Init, SoleInv, TargetsOK, KeptOK, PollsParked, Live, Thread, WorkerPc, MainPc

LEMMA TargetsStep ==
    ASSUME TypeOK, LockOK, TargetsOK, [Next]_execVars
    PROVE  TargetsOK'
<1> USE Constants DEF TypeOK, TargetsOK, Thread
<1>1. ASSUME NEW th \in Thread, NEW t \in Task, SpawnBoxed(th, t) PROVE TargetsOK'
  BY <1>1 DEF SpawnBoxed
<1>2. ASSUME NEW th \in Thread, SpawnHead(th) \/ RespawnHead(th) PROVE TargetsOK'
  BY <1>2, NextHeadInWorker DEF SpawnHead, RespawnHead
<1>3. ASSUME NEW th \in Thread, NEW label,
             pc' = [pc EXCEPT ![th] = label], label \notin {"spawn_push", "wake_push"},
             \A u \in Thread \ {th} : target'[u] = target[u]
      PROVE  TargetsOK'
  BY <1>3
<1>4. ASSUME NEW th \in Thread, SpawnPush(th) \/ RespawnPush(th) \/ SpawnCount(th)
      PROVE  TargetsOK'
  <2>1. PICK label \in {"spawn_count", "reactor", "poll", "boot"} :
            pc' = [pc EXCEPT ![th] = label]
    BY <1>4 DEF SpawnPush, RespawnPush, SpawnCount
  <2>2. \A u \in Thread \ {th} : target'[u] = target[u]
    BY <1>4 DEF SpawnPush, RespawnPush, SpawnCount, localVars
  <2> QED
    BY <1>3, <2>1, <2>2
<1>5. ASSUME NEW w \in Worker, PopOwn(w) PROVE TargetsOK'
  <2>1. PICK label \in {"consume", "steal"} : pc' = [pc EXCEPT ![w] = label]
    BY <1>5 DEF PopOwn, Take
  <2>2. \A u \in Thread \ {w} : target'[u] = target[u]
    BY <1>5 DEF PopOwn, Take
  <2> QED
    BY <1>3, <2>1, <2>2
<1>6. ASSUME NEW w \in Worker, StealTask(w) PROVE TargetsOK'
  <2>1. PICK label \in {"consume", "steal", "own"} : pc' = [pc EXCEPT ![w] = label]
    <3>1. pc[w] = "steal" => pc = [pc EXCEPT ![w] = "steal"]
      OBVIOUS
    <3> QED
      BY <1>6, <3>1 DEF StealTask, Take, At
  <2>2. \A u \in Thread \ {w} : target'[u] = target[u]
    BY <1>6 DEF StealTask, Take
  <2> QED
    BY <1>3, <2>1, <2>2
<1>7. ASSUME NEW w \in Worker, ConsumeTask(w) PROVE TargetsOK'
  <2>1. PICK label \in {"own", "poll"} : pc' = [pc EXCEPT ![w] = label]
    BY <1>7 DEF ConsumeTask, LoopEnd
  <2>2. target' = target
    BY <1>7 DEF ConsumeTask
  <2> QED
    BY <1>3, <2>1, <2>2
<1>8. ASSUME NEW w \in Worker,
             PollThrow(w) \/ DeconsumeTask(w) \/ FinishTask(w) \/ PollPending(w)
                 \/ PollReady(w) \/ PollWake(w)
      PROVE  TargetsOK'
  <2>1. PICK label \in {"own", "deconsume", "finish", "wake_head"} :
            pc' = [pc EXCEPT ![w] = label]
    BY <1>8
    DEF PollThrow, DeconsumeTask, FinishTask, PollPending, PollReady, PollWake, LoopEnd
  <2>2. target' = target
    BY <1>8
    DEF PollThrow, DeconsumeTask, FinishTask, PollPending, PollReady, PollWake, localVars
  <2> QED
    BY <1>3, <2>1, <2>2
<1>9. ASSUME NEW w \in Worker, NEW s \in Source, RegisterWaker(w, s) PROVE TargetsOK'
  BY <1>9 DEF RegisterWaker
<1>10. ASSUME NaiveRun \/ ExecutorStep PROVE TargetsOK'
  BY <1>3, <1>10 DEF NaiveRun, ExecutorStep, localVars
<1>11. ASSUME NEW t \in Task, NEW s \in Source, FireWaker(t, s) PROVE TargetsOK'
  BY <1>3, <1>11 DEF FireWaker
<1>12. ASSUME UNCHANGED execVars PROVE TargetsOK'
  BY <1>12 DEF execVars, localVars
<1> QED
  BY <1>1, <1>2, <1>4, <1>5, <1>6, <1>7, <1>8, <1>9, <1>10, <1>11, <1>12, StepCases
  DEF MainSpawn, PollSpawn

(* A push keeps every entry and adds one.                                  *)
LEMMA PushQueued ==
    ASSUME TypeOK, NEW q \in Worker, NEW e,
           queues' = [queues EXCEPT ![q] = Append(@, e)]
    PROVE  Queued(e)' /\ \A t : Queued(t) => Queued(t)'
<1>1. queues[q] \in Seq(Task) /\ queues'[q] = Append(queues[q], e)
  BY DEF TypeOK
<1>2. /\ Len(queues[q]) + 1 \in DOMAIN queues'[q]
      /\ queues'[q][Len(queues[q]) + 1] = e
      /\ \A i \in DOMAIN queues[q] : i \in DOMAIN queues'[q] /\ queues'[q][i] = queues[q][i]
  BY <1>1
<1>3. \A w \in Worker \ {q} : queues'[w] = queues[w]
  BY DEF TypeOK
<1> QED
  BY <1>2, <1>3 DEF Queued

(* A pop loses no entry but the one at the head.                           *)
LEMMA PopQueued ==
    ASSUME TypeOK, NEW q \in Worker, queues[q] # <<>>,
           queues' = [queues EXCEPT ![q] = Tail(@)],
           NEW t, Queued(t), t # Head(queues[q])
    PROVE  Queued(t)'
<1>1. queues[q] \in Seq(Task) /\ queues'[q] = Tail(queues[q])
  BY DEF TypeOK
<1>2. \A w \in Worker \ {q} : queues'[w] = queues[w]
  BY DEF TypeOK
<1>3. PICK w \in Worker : \E i \in DOMAIN queues[w] : queues[w][i] = t
  BY DEF Queued
<1>4. PICK i \in DOMAIN queues[w] : queues[w][i] = t
  BY <1>3
<1>5. CASE w = q
  <2> DEFINE s == queues[q]
  <2>1. i \in 1 .. Len(s) /\ i # 1 /\ s[i] = t
    BY <1>1, <1>4, <1>5
  <2>2. i - 1 \in DOMAIN Tail(s) /\ Tail(s)[i - 1] = t
    <3>1. s \in Seq(Task) /\ s # <<>>
      BY <1>1
    <3> HIDE DEF s
    <3> QED BY <2>1, <3>1
  <2> QED
    BY <1>1, <2>2 DEF Queued
<1>6. CASE w # q
  BY <1>2, <1>4, <1>6 DEF Queued
<1> QED
  BY <1>5, <1>6

LEMMA ParkedSame ==
    ASSUME NEW t, Parked(t), queues' = queues, armed \subseteq armed',
           pc[Main] \in WakePc => pc'[Main] \in WakePc /\ cur'[Main] = cur[Main]
    PROVE  Parked(t)'
  BY DEF Parked, Queued

(* A parked task stays parked, unless a worker takes it off a queue.       *)
LEMMA ParkedStep ==
    ASSUME OwnInv, TargetsOK, [Next]_execVars, NEW t, Parked(t),
           \A w, q \in Worker : queues[q] # <<>> /\ Take(w, q) => t # Head(queues[q])
    PROVE  Parked(t)'
<1> USE Constants DEF OwnInv, TypeOK, Thread, At, WakePc
<1>1. ASSUME NEW th \in Thread, NEW u \in Task, SpawnBoxed(th, u),
             pc[th] = IF th = Main THEN "boot" ELSE "poll"
      PROVE  Parked(t)'
  BY <1>1, ParkedSame DEF SpawnBoxed
<1>2. ASSUME NEW th \in Thread, SpawnHead(th) PROVE Parked(t)'
  BY <1>2, ParkedSame DEF SpawnHead
<1>3. ASSUME NEW th \in Thread, SpawnPush(th) PROVE Parked(t)'
  <2>0. PICK e : e = child[th]
    OBVIOUS
  <2>1. \A u : Queued(u) => Queued(u)'
    BY <1>3, <2>0, PushQueued DEF SpawnPush, TargetsOK
  <2>2. /\ armed' = armed
        /\ pc[Main] \in WakePc => pc'[Main] = pc[Main] /\ cur'[Main] = cur[Main]
    BY <1>3 DEF SpawnPush
  <2> QED
    BY <2>1, <2>2 DEF Parked
<1>4. ASSUME NEW th \in Thread, SpawnCount(th) PROVE Parked(t)'
  BY <1>4, ParkedSame DEF SpawnCount, localVars
<1>5. ASSUME NEW w \in Worker, NEW q \in Worker, queues[q] # <<>>, Take(w, q)
      PROVE  Parked(t)'
  <2>1. Queued(t) => Queued(t)'
    BY <1>5, PopQueued DEF Take
  <2>2. armed' = armed /\ pc'[Main] = pc[Main] /\ cur'[Main] = cur[Main]
    BY <1>5 DEF Take
  <2> QED
    BY <2>1, <2>2 DEF Parked
<1>6. ASSUME NEW w \in Worker, PopOwn(w) PROVE Parked(t)'
  <2>1. CASE queues[w] # <<>>
    BY <1>5, <1>6, <2>1 DEF PopOwn
  <2>2. CASE queues[w] = <<>>
    BY <1>6, <2>2, ParkedSame DEF PopOwn
  <2> QED
    BY <2>1, <2>2
<1>7. ASSUME NEW w \in Worker, StealTask(w) PROVE Parked(t)'
  <2>1. CASE target[w] \in Worker /\ queues[target[w]] # <<>>
    BY <1>5, <1>7, <2>1 DEF StealTask
  <2>2. CASE ~(target[w] \in Worker /\ queues[target[w]] # <<>>)
    BY <1>7, <2>2, ParkedSame DEF StealTask
  <2> QED
    BY <2>1, <2>2
<1>8. ASSUME NEW w \in Worker, ConsumeTask(w) PROVE Parked(t)'
  BY <1>8, ParkedSame DEF ConsumeTask, LoopEnd
<1>9. ASSUME NEW w \in Worker, NEW s \in Source, RegisterWaker(w, s) PROVE Parked(t)'
  BY <1>9, ParkedSame DEF RegisterWaker
<1>10. ASSUME NEW w \in Worker,
              PollWake(w) \/ PollPending(w) \/ PollReady(w) \/ PollThrow(w)
                  \/ DeconsumeTask(w) \/ FinishTask(w)
       PROVE  Parked(t)'
  BY <1>10, ParkedSame
  DEF PollWake, PollPending, PollReady, PollThrow, DeconsumeTask, FinishTask, LoopEnd, localVars
<1>11. ASSUME NaiveRun \/ ExecutorStep PROVE Parked(t)'
  BY <1>11, ParkedSame DEF NaiveRun, ExecutorStep, localVars
<1>12. ASSUME NEW u \in Task, NEW s \in Source, FireWaker(u, s) PROVE Parked(t)'
  BY <1>12 DEF FireWaker, Parked, Queued
<1>13. ASSUME NEW th \in Thread, RespawnHead(th) PROVE Parked(t)'
  BY <1>13, ParkedSame DEF RespawnHead
<1>14. ASSUME NEW th \in Thread, RespawnPush(th) PROVE Parked(t)'
  <2>0. PICK e : e = cur[th]
    OBVIOUS
  <2>1. Queued(e)' /\ \A u : Queued(u) => Queued(u)'
    BY <1>14, <2>0, PushQueued DEF RespawnPush, TargetsOK
  <2>2. /\ armed' = armed
        /\ th # Main => pc'[Main] = pc[Main] /\ cur'[Main] = cur[Main]
    BY <1>14 DEF RespawnPush
  <2> QED
    BY <2>0, <2>1, <2>2 DEF Parked
<1>15. ASSUME UNCHANGED execVars PROVE Parked(t)'
  BY <1>15, ParkedSame DEF execVars, localVars
<1> QED
  BY <1>1, <1>2, <1>3, <1>4, <1>6, <1>7, <1>8, <1>9, <1>10, <1>11, <1>12, <1>13,
     <1>14, <1>15, StepCases
  DEF MainSpawn, PollSpawn

(* A step that takes no task off a queue and ends no poll, and after which *)
(* no further task is live and known, keeps the two parts about tasks.     *)
LEMMA SoleSame ==
    ASSUME SoleInv,
           \A t : Parked(t) => Parked(t)',
           Live' \cap Known' \subseteq Live \cap Known,
           \A w \in Worker :
               /\ pc[w] \in Holding => pc'[w] \in Holding /\ cur'[w] = cur[w]
               /\ pc[w] \in Polling => pc'[w] \in Polling
               /\ pollArmed'[w] = pollArmed[w]
               /\ pc'[w] = "deconsume" => pc[w] = "deconsume" \/ pollArmed[w]
    PROVE  KeptOK' /\ PollsParked'
<1>1. KeptOK'
  BY DEF SoleInv, KeptOK
<1>2. PollsParked'
  BY DEF SoleInv, PollsParked, Holding
<1> QED
  BY <1>1, <1>2

(* With one worker, taking a task or ending a poll strands nothing either. *)
LEMMA SoleStep ==
    ASSUME WorkerCount = 1, OwnInv, SoleInv, [Next]_execVars
    PROVE  KeptOK' /\ PollsParked'
<1> USE Constants DEF OwnInv, TypeOK, Thread, At
<1> DEFINE Quiet == \A t : Parked(t) => Parked(t)'
<1>0. (\A w, q \in Worker : ~(queues[q] # <<>> /\ Take(w, q))) => Quiet
  BY ParkedStep DEF SoleInv
<1>1. ASSUME NEW th \in Thread, NEW u \in Task, SpawnBoxed(th, u),
             pc[th] = IF th = Main THEN "boot" ELSE "poll"
      PROVE  KeptOK' /\ PollsParked'
  <2>1. Quiet
    BY <1>0, <1>1 DEF SpawnBoxed, Take
  <2>2. Live' \cap Known' \subseteq Live \cap Known
    <3>1. \A v \in Thread : pc[v] \notin InFlight
      BY <1>1 DEF SpawnBoxed, LockOK, SpawnPc, InFlight
    <3> QED
      BY <1>1, <3>1 DEF SpawnBoxed, Live, Known, InFlight
  <2>3. \A w \in Worker :
            /\ pc'[w] = IF w = th THEN "spawn_head" ELSE pc[w]
            /\ cur'[w] = cur[w] /\ pollArmed'[w] = pollArmed[w]
            /\ w = th => pc[w] = "poll"
    BY <1>1 DEF SpawnBoxed
  <2> QED
    BY <2>1, <2>2, <2>3, SoleSame DEF Holding, Polling, SpawnPc
<1>2. ASSUME NEW th \in Thread, NEW label, pc' = [pc EXCEPT ![th] = label],
             UNCHANGED <<born, done, failed, child, pollArmed>>,
             \A w \in Worker : cur'[w] = cur[w],
             th \in Worker =>
                 /\ pc[th] \in Holding => label \in Holding
                 /\ pc[th] \in Polling => label \in Polling
                 /\ label = "deconsume" => pollArmed[th],
             pc[th] \in InFlight <=> label \in InFlight,
             Quiet
      PROVE  KeptOK' /\ PollsParked'
  <2>1. Known' = Known /\ Live' = Live
    BY <1>2, KnownSame DEF Live
  <2> QED
    BY <1>2, <2>1, SoleSame
<1>3. ASSUME NEW th \in Thread, SpawnHead(th) PROVE KeptOK' /\ PollsParked'
  <2>1. Quiet
    BY <1>0, <1>3 DEF SpawnHead, Take
  <2> QED
    BY <1>2, <1>3, <2>1 DEF SpawnHead, taskVars, Holding, Polling, SpawnPc, InFlight
<1>4. ASSUME NEW th \in Thread, SpawnPush(th) PROVE KeptOK' /\ PollsParked'
  <2>1. Quiet
    BY <1>0, <1>4 DEF SpawnPush, Take
  <2>0. PICK e : e = child[th]
    OBVIOUS
  <2>2. Queued(e)'
    BY <1>4, <2>0, PushQueued DEF SpawnPush, SoleInv, TargetsOK
  <2>3. /\ pc' = [pc EXCEPT ![th] = "spawn_count"] /\ pc[th] = "spawn_push"
        /\ \A v \in Thread \ {th} : child'[v] = child[v]
        /\ UNCHANGED <<born, done, failed, cur, pollArmed>>
    BY <1>4 DEF SpawnPush, taskVars
  <2>4. Live' = Live /\ Known' \subseteq Known \cup {e}
    BY <2>0, <2>3 DEF Live, Known, InFlight
  <2>5. KeptOK'
    <3> SUFFICES ASSUME NEW t \in Live' \cap Known'
                 PROVE  Parked(t)' \/ \E w \in Worker : pc'[w] \in Holding /\ cur'[w] = t
      BY DEF KeptOK
    <3>1. CASE t = e
      BY <2>2, <3>1 DEF Parked
    <3>2. CASE t \in Live \cap Known
      BY <2>1, <2>3, <3>2 DEF SoleInv, KeptOK, Holding, Polling, SpawnPc
    <3> QED
      BY <2>4, <3>1, <3>2
  <2>6. PollsParked'
    BY <2>1, <2>3 DEF SoleInv, PollsParked, Polling, SpawnPc
  <2> QED
    BY <2>5, <2>6
<1>5. ASSUME NEW th \in Thread, SpawnCount(th) PROVE KeptOK' /\ PollsParked'
  <2>1. Quiet
    BY <1>0, <1>5 DEF SpawnCount, Take, SpawnPc, LockOK, MainPc, WorkerPc
  <2> QED
    BY <1>2, <1>5, <2>1 DEF SpawnCount, taskVars, localVars, Holding, Polling, SpawnPc, InFlight
<1>6. ASSUME NEW w \in Worker, NEW q \in Worker, pc[w] \in {"own", "steal"},
             queues[q] # <<>>, Take(w, q)
      PROVE  KeptOK' /\ PollsParked'
  <2>1. \A v \in Worker : v = w
    BY DEF Worker
  <2>2. /\ pc' = [pc EXCEPT ![w] = "consume"]
        /\ cur' = [cur EXCEPT ![w] = Head(queues[q])]
        /\ UNCHANGED <<born, done, failed, child, pollArmed>>
    BY <1>6 DEF Take, taskVars
  <2>3. Known' = Known /\ Live' = Live
    BY <1>6, <2>2, KnownSame DEF Live, InFlight
  <2>4. pc[w] \notin Holding /\ pc[w] \notin Polling
    BY <1>6 DEF Holding, Polling, SpawnPc, WakePc
  <2>5. pc'[w] = "consume" /\ pc'[w] \in Holding /\ cur'[w] = Head(queues[q])
    BY <2>2 DEF Holding
  <2>6. \A t \in Live \cap Known : t # Head(queues[q]) => Parked(t)'
    <3> SUFFICES ASSUME NEW t \in Live \cap Known, t # Head(queues[q]) PROVE Parked(t)'
      OBVIOUS
    <3>1. Parked(t)
      BY <2>1, <2>4 DEF SoleInv, KeptOK
    <3>2. Queued(t) => Queued(t)'
      BY <1>6, PopQueued DEF Take
    <3>3. armed' = armed /\ pc'[Main] = pc[Main] /\ cur'[Main] = cur[Main]
      BY <1>6 DEF Take
    <3> QED
      BY <3>1, <3>2, <3>3 DEF Parked
  <2>7. KeptOK'
    BY <2>3, <2>5, <2>6 DEF KeptOK
  <2>8. PollsParked'
    BY <2>1, <2>2, <2>4, <2>5 DEF SoleInv, PollsParked
  <2> QED
    BY <2>7, <2>8
<1>7. ASSUME NEW w \in Worker, PopOwn(w) PROVE KeptOK' /\ PollsParked'
  <2>1. CASE queues[w] # <<>>
    BY <1>6, <1>7, <2>1 DEF PopOwn
  <2>2. CASE queues[w] = <<>>
    <3>1. Quiet
      BY <1>0, <1>7, <2>2 DEF PopOwn, Take
    <3> QED
      BY <1>2, <1>7, <2>2, <3>1
      DEF PopOwn, taskVars, Holding, Polling, SpawnPc, WakePc, InFlight
  <2> QED
    BY <2>1, <2>2
<1>8. ASSUME NEW w \in Worker, StealTask(w) PROVE KeptOK' /\ PollsParked'
  <2>1. CASE target[w] \in Worker /\ queues[target[w]] # <<>>
    BY <1>6, <1>8, <2>1 DEF StealTask
  <2>2. CASE ~(target[w] \in Worker /\ queues[target[w]] # <<>>)
    <3>1. /\ \/ pc' = [pc EXCEPT ![w] = "steal"]
             \/ pc' = [pc EXCEPT ![w] = "own"]
          /\ pc[w] = "steal"
          /\ UNCHANGED <<queues, cur, born, done, failed, child, pollArmed, armed>>
      BY <1>8, <2>2 DEF StealTask, taskVars
    <3>2. Quiet
      BY <3>1, ParkedSame
    <3> QED
      BY <1>2, <3>1, <3>2 DEF Holding, Polling, SpawnPc, WakePc, InFlight
  <2> QED
    BY <2>1, <2>2
<1>9. ASSUME NEW w \in Worker, ConsumeTask(w) PROVE KeptOK' /\ PollsParked'
  <2>1. \A v \in Worker : v = w
    BY DEF Worker
  <2>2. Quiet
    BY <1>9, ParkedSame DEF ConsumeTask, LoopEnd
  <2>3. pc[w] = "consume" /\ ~pollArmed[w] /\ child' = child
    BY <1>9 DEF ConsumeTask, SoleInv, PollsParked, Polling, SpawnPc, WakePc
  <2>4. CASE inner[cur[w]] = MakeTask
    <3>1. /\ pc' = [pc EXCEPT ![w] = "poll"] /\ cur' = cur
          /\ UNCHANGED <<born, done, failed>>
      BY <1>9, <2>4, ConsumeOutcome, CellForms
    <3>2. pollArmed' = pollArmed
      BY <1>9, <2>4, CellForms DEF ConsumeTask
    <3> QED
      BY <1>2, <2>2, <2>3, <3>1, <3>2 DEF Holding, Polling, InFlight
  <2>5. CASE inner[cur[w]] = Taken
    <3>1. /\ pc' = [pc EXCEPT ![w] = "own"]
          /\ UNCHANGED <<born, done, failed>>
          /\ slot[w] = NoTask
          /\ cur[w] \in born
      BY <1>9, <2>5, ConsumeOutcome, CellForms
    <3>2. cur[w] \notin Live
      BY <2>1, <2>5, <3>1 DEF CellsOK, Live
    <3>3. Known' = Known /\ Live' = Live
      BY <2>3, <3>1, KnownSame DEF Live, InFlight
    <3>4. ~pollArmed'[w]
      BY <1>9, <2>5, CellForms DEF ConsumeTask, LoopEnd
    <3>5. KeptOK'
      BY <2>1, <2>2, <3>2, <3>3 DEF SoleInv, KeptOK
    <3>6. PollsParked'
      BY <2>1, <3>1, <3>4 DEF PollsParked
    <3> QED
      BY <3>5, <3>6
  <2> QED
    BY <1>9, <2>4, <2>5, ConsumeOutcome
<1>10. ASSUME NEW w \in Worker, NEW s \in Source, RegisterWaker(w, s)
       PROVE  KeptOK' /\ PollsParked'
  <2>1. /\ UNCHANGED <<pc, cur, born, done, failed, child, queues>>
        /\ pc[w] = "poll"
        /\ armed' = armed \cup {<<cur[w], s>>}
        /\ pollArmed' = [pollArmed EXCEPT ![w] = TRUE]
    BY <1>10 DEF RegisterWaker, taskVars
  <2>2. Quiet
    BY <2>1, ParkedSame
  <2>3. Known' = Known /\ Live' = Live
    BY <2>1 DEF Known, Live
  <2>4. KeptOK'
    BY <2>1, <2>2, <2>3 DEF SoleInv, KeptOK
  <2>5. Parked(cur[w])'
    BY <2>1 DEF Parked
  <2>6. PollsParked'
    BY <2>1, <2>2, <2>5 DEF SoleInv, PollsParked, Polling
  <2> QED
    BY <2>4, <2>6
<1>11. ASSUME NEW w \in Worker, PollWake(w) \/ PollPending(w) \/ PollReady(w)
       PROVE  KeptOK' /\ PollsParked'
  <2>1. Quiet
    BY <1>11, ParkedSame DEF PollWake, PollPending, PollReady, localVars
  <2> QED
    BY <1>2, <1>11, <2>1
    DEF PollWake, PollPending, PollReady, taskVars, localVars, Holding, Polling, SpawnPc, WakePc, InFlight
<1>12. ASSUME NEW w \in Worker, PollThrow(w) \/ DeconsumeTask(w) \/ FinishTask(w)
       PROVE  KeptOK' /\ PollsParked'
  <2>1. \A v \in Worker : v = w
    BY DEF Worker
  <2>2. Quiet
    BY <1>12, ParkedSame DEF PollThrow, DeconsumeTask, FinishTask, LoopEnd
  <2>3. /\ pc' = [pc EXCEPT ![w] = "own"] /\ pc[w] \in {"poll", "deconsume", "finish"}
        /\ UNCHANGED <<born, child>> /\ ~pollArmed'[w]
    BY <1>12 DEF PollThrow, DeconsumeTask, FinishTask, LoopEnd
  <2>4. Known' = Known /\ Live' \subseteq Live
    <3>1. Known' = Known
      BY <2>3, KnownSame DEF InFlight
    <3>2. Live' \subseteq Live
      BY <1>12 DEF PollThrow, DeconsumeTask, FinishTask, Live
    <3> QED
      BY <3>1, <3>2
  <2>5. cur[w] \in Live' => Parked(cur[w])
    <3>1. CASE DeconsumeTask(w)
      BY <3>1 DEF DeconsumeTask, SoleInv, PollsParked
    <3>2. CASE PollThrow(w) \/ FinishTask(w)
      BY <3>2 DEF PollThrow, FinishTask, Live
    <3> QED
      BY <1>12, <3>1, <3>2
  <2>6. KeptOK'
    BY <2>1, <2>2, <2>4, <2>5 DEF SoleInv, KeptOK
  <2>7. PollsParked'
    BY <2>1, <2>3 DEF PollsParked
  <2> QED
    BY <2>6, <2>7
<1>13. ASSUME NaiveRun \/ ExecutorStep PROVE KeptOK' /\ PollsParked'
  <2>1. Quiet
    BY <1>13, ParkedSame DEF NaiveRun, ExecutorStep, localVars, WakePc
  <2> QED
    BY <1>2, <1>13, <2>1 DEF NaiveRun, ExecutorStep, taskVars, localVars, InFlight
<1>14. ASSUME NEW t \in Task, NEW s \in Source, FireWaker(t, s)
       PROVE  KeptOK' /\ PollsParked'
  <2>1. Quiet
    BY <1>0, <1>14 DEF FireWaker, Take
  <2> QED
    BY <1>2, <1>14, <2>1 DEF FireWaker, taskVars, InFlight
<1>15. ASSUME NEW th \in Thread, RespawnHead(th) \/ RespawnPush(th)
       PROVE  KeptOK' /\ PollsParked'
  <2>1. Quiet
    BY <1>0, <1>15 DEF RespawnHead, RespawnPush, Take
  <2>2. /\ UNCHANGED <<born, done, failed, child, pollArmed>>
        /\ \A w \in Worker : cur'[w] = cur[w]
        /\ pc[th] \in WakePc
    BY <1>15 DEF RespawnHead, RespawnPush, taskVars, WakePc
  <2>3. PICK label \in {"wake_push", "reactor", "poll"} :
            /\ pc' = [pc EXCEPT ![th] = label]
            /\ th \in Worker => label # "reactor"
    BY <1>15 DEF RespawnHead, RespawnPush
  <2> QED
    BY <1>2, <2>1, <2>2, <2>3 DEF Holding, Polling, SpawnPc, WakePc, InFlight
<1>16. ASSUME UNCHANGED execVars PROVE KeptOK' /\ PollsParked'
  <2>1. Quiet
    BY <1>16, ParkedSame DEF execVars, localVars
  <2>2. Known' = Known /\ Live' = Live
    BY <1>16 DEF execVars, taskVars, localVars, Known, Live
  <2> QED
    BY <1>16, <2>1, <2>2, SoleSame DEF execVars, localVars
<1> QED
  BY <1>1, <1>3, <1>4, <1>5, <1>7, <1>8, <1>9, <1>10, <1>11, <1>12, <1>13, <1>14,
     <1>15, <1>16, StepCases
  DEF MainSpawn, PollSpawn

(* A task of which no reference is left, and with it its future, can only  *)
(* be lost between workers: with "workers": 1 a wake-up during a poll      *)
(* waits in the queue until the future is back in its cell, so every live  *)
(* task stays referenced.                                                  *)
THEOREM SoleWorkerStrandsNone ==
    ASSUME WorkerCount = 1
    PROVE  Spec => []NoTaskStranded
<1>1. OwnInv /\ SoleInv /\ [Next]_execVars => SoleInv'
  BY TargetsStep, SoleStep DEF SoleInv, OwnInv
<1>2. OwnInv /\ SoleInv => NoTaskStranded
  <2> SUFFICES ASSUME OwnInv, SoleInv, NEW t \in Live PROVE Referenced(t)
    BY DEF NoTaskStranded
  <2>1. CASE t \in Known
    BY <2>1, Constants DEF SoleInv, KeptOK, Parked, Referenced
  <2>2. CASE t \notin Known
    BY <2>2 DEF Known, Live, Referenced
  <2> QED
    BY <2>1, <2>2
<1> QED
  BY <1>1, <1>2, SoleInit, OwnInvariant, PTL DEF Spec
=============================================================================
