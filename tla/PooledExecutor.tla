---------------------------- MODULE PooledExecutor ----------------------------
(***************************************************************************)
(* The work-stealing executor (ioruntime/PooledExecutor.cpp), the waker    *)
(* that puts a task back on a queue (futures/Waker.cpp), and the loop of   *)
(* the main thread that fires wakers and decides when the program ends     *)
(* (ioruntime/Runtime.cpp, ioruntime/GlobalRuntime.cpp).                   *)
(*                                                                         *)
(* One action is one critical section: every access to a queue, to         *)
(* spawn_head, to tasks_running and to a task cell is made under that      *)
(* object's own mutex, and the code never holds two of them at once.       *)
(* GlobalRuntime's lock is held over the whole of a spawn, so it is a      *)
(* variable.                                                               *)
(*                                                                         *)
(* The futures are the environment.  A poll may register its waker with    *)
(* event sources (a descriptor, a timeout, a child process), may run it at *)
(* once (as the readers of http/ do while they hand out bytes), may spawn  *)
(* tasks, and returns ready, throws, or returns pending; it returns        *)
(* pending only after registering its waker during that same poll, which   *)
(* is what poll_read, poll_write and TimeoutFuture::poll do.               *)
(***************************************************************************)
EXTENDS Integers, Sequences, FiniteSets, TaskCell

CONSTANTS
    WorkerCount,    \* number of worker threads
    Task,           \* the tasks that may ever be spawned
    Root,           \* those the main thread spawns before naive_run
    Source,         \* the event sources a waker can be registered with
    MaxQueued,      \* bound: wakers run only below this many queue entries
    Main,           \* the main thread
    NoTask,         \* an empty slot
    NoThread        \* a free lock

Worker == 0 .. WorkerCount - 1
Thread == Worker \cup {Main}

ASSUME PoolAssumption ==
    /\ WorkerCount \in Nat \ {0}
    /\ Root \subseteq Task
    /\ NoTask \notin Task
    /\ Main \notin Worker
    /\ NoThread \notin Thread

VARIABLES
    queues,         \* task_queues: one FIFO per worker
    spawnHead,      \* spawn_head_mutex: the queue the last (re)spawn used
    tasksRunning,   \* tasks_running_mutex
    runtimeLock,    \* the thread inside GlobalRuntime::spawn_boxed
    inner,          \* the InnerTask of each task
    born,           \* tasks whose Task object has been made
    done,           \* tasks whose poll returned ready
    failed,         \* tasks whose poll threw
    slot,           \* each worker's future_slot: the task whose future it owns
    pc,             \* where each thread is
    cur,            \* the RcPtr<Task> a thread holds in a local
    child,          \* the task a thread is spawning
    target,         \* the queue a (re)spawn picked, or a thief's next victim
    pollArmed,      \* has the worker's poll registered its waker?
    armed           \* the wakers the event handlers hold

taskVars == <<inner, born, done, failed, slot>>
localVars == <<cur, child, target, pollArmed>>
execVars == <<queues, spawnHead, tasksRunning, runtimeLock, taskVars, pc,
              localVars, armed>>

SpawnPc == {"spawn_head", "spawn_push", "spawn_count"}
WakePc == {"wake_head", "wake_push"}
WorkerPc == SpawnPc \cup WakePc
                \cup {"own", "steal", "consume", "poll", "deconsume", "finish"}
MainPc == SpawnPc \cup WakePc \cup {"boot", "reactor", "exited"}

Live == born \ (done \cup failed)

(* naive_run returned: main returns, and the process takes the workers     *)
(* with it.                                                                *)
Exited == pc[Main] = "exited"

At(th, label) == pc[th] = label /\ ~Exited

NextHead == IF spawnHead + 1 >= WorkerCount THEN 0 ELSE spawnHead + 1

Entries == UNION {{w} \X DOMAIN queues[w] : w \in Worker}

Init ==
    /\ queues = [w \in Worker |-> <<>>]
    /\ spawnHead = 0
    /\ tasksRunning = 0
    /\ runtimeLock = NoThread
    /\ inner = [t \in Task |-> MakeTask]
    /\ born = {}
    /\ done = {}
    /\ failed = {}
    /\ slot = [w \in Worker |-> NoTask]
    /\ pc = [th \in Thread |-> IF th = Main THEN "boot" ELSE "own"]
    /\ cur = [th \in Thread |-> NoTask]
    /\ child = [th \in Thread |-> NoTask]
    /\ target = [th \in Thread |-> 0]
    /\ pollArmed = [w \in Worker |-> FALSE]
    /\ armed = {}
-----------------------------------------------------------------------------
(* GlobalRuntime::spawn_boxed and PooledExecutor::spawn.                   *)

(* The runtime lock is taken and the Task object made.                     *)
SpawnBoxed(th, t) ==
    /\ runtimeLock = NoThread
    /\ t \in Task \ born
    /\ runtimeLock' = th
    /\ born' = born \cup {t}
    /\ inner' = [inner EXCEPT ![t] = MakeTask]
    /\ child' = [child EXCEPT ![th] = t]
    /\ pc' = [pc EXCEPT ![th] = "spawn_head"]
    /\ UNCHANGED <<queues, spawnHead, tasksRunning, done, failed, slot, cur,
                   target, pollArmed, armed>>

SpawnHead(th) ==
    /\ At(th, "spawn_head")
    /\ spawnHead' = NextHead
    /\ target' = [target EXCEPT ![th] = NextHead]
    /\ pc' = [pc EXCEPT ![th] = "spawn_push"]
    /\ UNCHANGED <<queues, tasksRunning, runtimeLock, taskVars, cur, child,
                   pollArmed, armed>>

SpawnPush(th) ==
    /\ At(th, "spawn_push")
    /\ queues' = [queues EXCEPT ![target[th]] = Append(@, child[th])]
    /\ child' = [child EXCEPT ![th] = NoTask]
    /\ target' = [target EXCEPT ![th] = 0]
    /\ pc' = [pc EXCEPT ![th] = "spawn_count"]
    /\ UNCHANGED <<spawnHead, tasksRunning, runtimeLock, taskVars, cur,
                   pollArmed, armed>>

(* The count is made last, and the runtime lock dropped.                   *)
SpawnCount(th) ==
    /\ At(th, "spawn_count")
    /\ tasksRunning' = tasksRunning + 1
    /\ runtimeLock' = NoThread
    /\ pc' = [pc EXCEPT ![th] = IF th = Main THEN "boot" ELSE "poll"]
    /\ UNCHANGED <<queues, spawnHead, taskVars, localVars, armed>>

SpawnStep(th) == SpawnHead(th) \/ SpawnPush(th) \/ SpawnCount(th)
-----------------------------------------------------------------------------
(* PooledExecutor::respawn, which a waker calls: on the main thread when a *)
(* handler fires it, on a worker when a poll runs its own.                 *)

RespawnHead(th) ==
    /\ At(th, "wake_head")
    /\ spawnHead' = NextHead
    /\ target' = [target EXCEPT ![th] = NextHead]
    /\ pc' = [pc EXCEPT ![th] = "wake_push"]
    /\ UNCHANGED <<queues, tasksRunning, runtimeLock, taskVars, cur, child,
                   pollArmed, armed>>

RespawnPush(th) ==
    /\ At(th, "wake_push")
    /\ queues' = [queues EXCEPT ![target[th]] = Append(@, cur[th])]
    /\ cur' = IF th = Main THEN [cur EXCEPT ![th] = NoTask] ELSE cur
    /\ target' = [target EXCEPT ![th] = 0]
    /\ pc' = [pc EXCEPT ![th] = IF th = Main THEN "reactor" ELSE "poll"]
    /\ UNCHANGED <<spawnHead, tasksRunning, runtimeLock, taskVars, child,
                   pollArmed, armed>>

RespawnStep(th) == RespawnHead(th) \/ RespawnPush(th)
-----------------------------------------------------------------------------
(* worker_thread_function, from the top of its loop to the poll.           *)

Take(w, q) ==
    /\ cur' = [cur EXCEPT ![w] = Head(queues[q])]
    /\ queues' = [queues EXCEPT ![q] = Tail(@)]
    /\ target' = [target EXCEPT ![w] = 0]
    /\ pc' = [pc EXCEPT ![w] = "consume"]
    /\ UNCHANGED <<spawnHead, tasksRunning, runtimeLock, taskVars, child,
                   pollArmed, armed>>

(* The next queue a thief tries after (or at) index v: never its own.      *)
Victim(w, v) == IF v = w THEN v + 1 ELSE v

PopOwn(w) ==
    /\ At(w, "own")
    /\ \/ queues[w] # <<>> /\ Take(w, w)
       \/ /\ queues[w] = <<>>
          /\ pc' = [pc EXCEPT ![w] = "steal"]
          /\ target' = [target EXCEPT ![w] = Victim(w, 0)]
          /\ UNCHANGED <<queues, spawnHead, tasksRunning, runtimeLock, taskVars,
                         cur, child, pollArmed, armed>>

StealTask(w) ==
    /\ At(w, "steal")
    /\ \/ /\ target[w] \in Worker
          /\ queues[target[w]] # <<>>
          /\ Take(w, target[w])
       \/ /\ target[w] \in Worker
          /\ queues[target[w]] = <<>>
          /\ target' = [target EXCEPT ![w] = Victim(w, @ + 1)]
          /\ UNCHANGED <<queues, spawnHead, tasksRunning, runtimeLock, taskVars,
                         pc, cur, child, pollArmed, armed>>
       \/ /\ target[w] \notin Worker
          /\ pc' = [pc EXCEPT ![w] = "own"]
          /\ target' = [target EXCEPT ![w] = 0]
          /\ UNCHANGED <<queues, spawnHead, tasksRunning, runtimeLock, taskVars,
                         cur, child, pollArmed, armed>>

(* The end of the loop body: the worker's reference to the task is gone.   *)
LoopEnd(w) ==
    /\ pc' = [pc EXCEPT ![w] = "own"]
    /\ cur' = [cur EXCEPT ![w] = NoTask]
    /\ pollArmed' = [pollArmed EXCEPT ![w] = FALSE]

ConsumeTask(w) ==
    /\ At(w, "consume")
    /\ LET result == Consume(inner[cur[w]])
       IN  /\ inner' = [inner EXCEPT ![cur[w]] = Consumed(@)]
           /\ \/ /\ result = "skip"
                 /\ LoopEnd(w)
                 /\ UNCHANGED slot
              \/ /\ result # "skip"
                 /\ slot' = [slot EXCEPT ![w] = IF result = "take" THEN cur[w] ELSE @]
                 /\ pc' = [pc EXCEPT ![w] = "poll"]
                 /\ UNCHANGED <<cur, pollArmed>>
    /\ UNCHANGED <<queues, spawnHead, tasksRunning, runtimeLock, born, done,
                   failed, child, target, armed>>
-----------------------------------------------------------------------------
(* What a future's poll may do.                                            *)

(* It hands its waker to an event handler.  A second registration with the *)
(* same source replaces the first.                                         *)
RegisterWaker(w, s) ==
    /\ At(w, "poll")
    /\ armed' = armed \cup {<<cur[w], s>>}
    /\ pollArmed' = [pollArmed EXCEPT ![w] = TRUE]
    /\ UNCHANGED <<queues, spawnHead, tasksRunning, runtimeLock, taskVars, pc,
                   cur, child, target>>

(* It runs its waker itself: respawn is called on the worker.              *)
PollWake(w) ==
    /\ At(w, "poll")
    /\ Cardinality(Entries) < MaxQueued
    /\ pc' = [pc EXCEPT ![w] = "wake_head"]
    /\ UNCHANGED <<queues, spawnHead, tasksRunning, runtimeLock, taskVars,
                   localVars, armed>>

PollSpawn(w, t) ==
    /\ At(w, "poll")
    /\ t \notin Root
    /\ SpawnBoxed(w, t)

PollPending(w) ==
    /\ At(w, "poll")
    /\ pollArmed[w]
    /\ pc' = [pc EXCEPT ![w] = "deconsume"]
    /\ UNCHANGED <<queues, spawnHead, tasksRunning, runtimeLock, taskVars,
                   localVars, armed>>

PollReady(w) ==
    /\ At(w, "poll")
    /\ pc' = [pc EXCEPT ![w] = "finish"]
    /\ UNCHANGED <<queues, spawnHead, tasksRunning, runtimeLock, taskVars,
                   localVars, armed>>

(* The catch clause only warns: the cell keeps its flags, tasks_running    *)
(* keeps its value, and future_slot destroys the future.                   *)
PollThrow(w) ==
    /\ At(w, "poll")
    /\ failed' = failed \cup {cur[w]}
    /\ slot' = [slot EXCEPT ![w] = NoTask]
    /\ LoopEnd(w)
    /\ UNCHANGED <<queues, spawnHead, tasksRunning, runtimeLock, inner, born,
                   done, child, target, armed>>

PollReturn(w) == PollPending(w) \/ PollReady(w) \/ PollThrow(w)
-----------------------------------------------------------------------------
(* After the poll.                                                         *)

DeconsumeTask(w) ==
    /\ At(w, "deconsume")
    /\ inner' = [inner EXCEPT ![cur[w]] = Deconsumed(@)]
    /\ slot' = [slot EXCEPT ![w] = NoTask]
    /\ LoopEnd(w)
    /\ UNCHANGED <<queues, spawnHead, tasksRunning, runtimeLock, born, done,
                   failed, child, target, armed>>

(* Mutant: a completed task stays counted.                                 *)
MutFinishTask(w) ==
    /\ At(w, "finish")
    /\ done' = done \cup {cur[w]}
    /\ slot' = [slot EXCEPT ![w] = NoTask]
    /\ LoopEnd(w)
    /\ UNCHANGED <<queues, spawnHead, tasksRunning, runtimeLock, inner, born,
                   failed, child, target, armed>>

FinishTask(w) ==
    /\ At(w, "finish")
    /\ tasksRunning' = tasksRunning - 1
    /\ done' = done \cup {cur[w]}
    /\ slot' = [slot EXCEPT ![w] = NoTask]
    /\ LoopEnd(w)
    /\ UNCHANGED <<queues, spawnHead, runtimeLock, inner, born, failed, child,
                   target, armed>>
-----------------------------------------------------------------------------
(* The main thread: spawns of main(), then naive_run.                      *)

MainSpawn(t) ==
    /\ At(Main, "boot")
    /\ t \in Root
    /\ SpawnBoxed(Main, t)

NaiveRun ==
    /\ At(Main, "boot")
    /\ Root \subseteq born
    /\ pc' = [pc EXCEPT ![Main] = "reactor"]
    /\ UNCHANGED <<queues, spawnHead, tasksRunning, runtimeLock, taskVars,
                   localVars, armed>>

(* A handler's reactor_step takes a waker out of its table and runs it.    *)
FireWaker(t, s) ==
    /\ At(Main, "reactor")
    /\ <<t, s>> \in armed
    /\ Cardinality(Entries) < MaxQueued
    /\ armed' = armed \ {<<t, s>>}
    /\ cur' = [cur EXCEPT ![Main] = t]
    /\ pc' = [pc EXCEPT ![Main] = "wake_head"]
    /\ UNCHANGED <<queues, spawnHead, tasksRunning, runtimeLock, taskVars,
                   child, target, pollArmed>>

(* Mutant: the loop ends while one task is still counted.                  *)
MutExecutorStep ==
    /\ At(Main, "reactor")
    /\ ~(tasksRunning > 1)
    /\ pc' = [pc EXCEPT ![Main] = "exited"]
    /\ UNCHANGED <<queues, spawnHead, tasksRunning, runtimeLock, taskVars,
                   localVars, armed>>

(* executor->step() ends the do-while when it reads no running task.       *)
ExecutorStep ==
    /\ At(Main, "reactor")
    /\ ~(tasksRunning > 0)
    /\ pc' = [pc EXCEPT ![Main] = "exited"]
    /\ UNCHANGED <<queues, spawnHead, tasksRunning, runtimeLock, taskVars,
                   localVars, armed>>
-----------------------------------------------------------------------------
WorkerStep(w) ==
    PopOwn(w) \/ StealTask(w) \/ ConsumeTask(w) \/ SpawnStep(w)
        \/ RespawnStep(w) \/ DeconsumeTask(w) \/ FinishTask(w)

WorkerNext(w) ==
    \/ WorkerStep(w)
    \/ PollReturn(w)
    \/ PollWake(w)
    \/ \E s \in Source : RegisterWaker(w, s)
    \/ \E t \in Task : PollSpawn(w, t)

MainBoot == SpawnStep(Main) \/ NaiveRun \/ \E t \in Task : MainSpawn(t)

MainNext ==
    \/ MainBoot
    \/ RespawnStep(Main)
    \/ ExecutorStep
    \/ \E t \in Task, s \in Source : FireWaker(t, s)

Next == MainNext \/ \E w \in Worker : WorkerNext(w)

Spec == Init /\ [][Next]_execVars

(* Every thread is scheduled, a poll returns, however often it spawns or   *)
(* runs its waker (no future of the program loops or blocks in poll), and  *)
(* the main thread looks at tasks_running again and again.  Nothing makes  *)
(* an event source fire.                                                   *)
Fairness ==
    /\ \A w \in Worker :
        /\ WF_execVars(WorkerStep(w))
        /\ SF_execVars(PollReturn(w))
    /\ WF_execVars(MainBoot)
    /\ WF_execVars(RespawnStep(Main))
    /\ WF_execVars(ExecutorStep)

FairSpec == Spec /\ Fairness
-----------------------------------------------------------------------------
(* Properties.                                                             *)

TypeOK ==
    /\ queues \in [Worker -> Seq(Task)]
    /\ spawnHead \in Worker
    /\ tasksRunning \in Int
    /\ runtimeLock \in Thread \cup {NoThread}
    /\ inner \in [Task -> InnerTask]
    /\ born \in SUBSET Task
    /\ done \in SUBSET Task
    /\ failed \in SUBSET Task
    /\ slot \in [Worker -> Task \cup {NoTask}]
    /\ pc \in [Thread -> WorkerPc \cup MainPc]
    /\ cur \in [Thread -> Task \cup {NoTask}]
    /\ child \in [Thread -> Task \cup {NoTask}]
    /\ target \in [Thread -> Int]
    /\ pollArmed \in [Worker -> BOOLEAN]
    /\ armed \in SUBSET (Task \X Source)

(* A live future is in exactly one place: its task's cell, or the          *)
(* future_slot of one worker, which is the worker polling it; a future     *)
(* that completed or threw is nowhere.  This is what consume, deconsume    *)
(* and the moves between queues have to achieve together.                  *)
FutureOwnedOnce ==
    \A t \in born :
        LET holders == {w \in Worker : slot[w] = t}
        IN  IF t \in Live
            THEN \/ inner[t].future /\ holders = {}
                 \/ ~inner[t].future /\ \E w \in Worker : holders = {w}
            ELSE ~inner[t].future /\ holders = {}

(* A worker that polls owns the future of the task it popped: consume      *)
(* never lets it through with an empty future_slot.                        *)
PollsOwnedFuture ==
    \A w \in Worker :
        pc[w] \in {"poll", "deconsume", "finish"} \cup SpawnPc \cup WakePc =>
            slot[w] = cur[w] /\ slot[w] \in Live

(* tasks_running counts the tasks that have not completed, less the one    *)
(* whose spawn has not reached its last critical section.  A task whose    *)
(* poll threw stays counted for ever.                                      *)
TasksRunningExact ==
    tasksRunning = Cardinality(born \ done) - (IF runtimeLock = NoThread THEN 0 ELSE 1)

(* naive_run returns only if no poll ever threw, and leaves a task behind  *)
(* only in one way: the task is inside its own poll, between the push and  *)
(* the count of a spawn whose child has already completed.                 *)
ExitLeavesOnlySpawner ==
    Exited =>
        /\ failed = {}
        /\ Live # {} => \E w \in Worker : pc[w] = "spawn_count" /\ Live = {cur[w]}

(* A live task is referenced: by a queue, a registered or firing waker, or *)
(* a thread.  A live task without a reference is destroyed, with its       *)
(* future, and nothing can ever wake it.                                   *)
Queued(t) == \E w \in Worker : \E i \in DOMAIN queues[w] : queues[w][i] = t

Referenced(t) ==
    \/ Queued(t)
    \/ \E th \in Thread : t \in {cur[th], child[th]}
    \/ \E s \in Source : <<t, s>> \in armed

NoTaskStranded == \A t \in Live : Referenced(t)

(* A queued task that no worker is polling is eventually polled: the       *)
(* owner's pops and the thieves' together starve no entry, and none is     *)
(* lost between two queues.                                                *)
BeingPolled(t) == \E w \in Worker : slot[w] = t

QueuedIsPolled ==
    \A t \in Task :
        (t \in Live /\ Queued(t)) ~> (BeingPolled(t) \/ t \notin Live \/ Exited)

(* What TaskLifecycle says of each task.                                   *)
StateOf(t) ==
    IF t \in done THEN "done"
    ELSE IF t \in failed THEN "failed"
    ELSE IF BeingPolled(t) THEN "polling"
    ELSE IF t \in born THEN "waiting" ELSE "unborn"

PollerOf(t) ==
    IF BeingPolled(t) THEN CHOOSE w \in Worker : slot[w] = t ELSE NoThread

(* The executor keeps the promises of TaskLifecycle: nobody polls a future *)
(* another thread is polling, and a task is over once it completes or      *)
(* throws, however many stale entries of it are still queued.              *)
Lifecycle == INSTANCE TaskLifecycle WITH
    Thread <- Worker,
    state <- [t \in Task |-> StateOf(t)],
    poller <- [t \in Task |-> PollerOf(t)]

ImplementsLifecycle == Lifecycle!LifecycleSpec

(* Once every task that was spawned has completed, naive_run returns.      *)
CompletionEndsRun ==
    (Root \subseteq born /\ born = done) ~> Exited
=============================================================================
