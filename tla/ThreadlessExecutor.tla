-------------------------- MODULE ThreadlessExecutor --------------------------
(***************************************************************************)
(* The executor used with no workers (ioruntime/ThreadlessExecutor.cpp)    *)
(* and the loop of the main thread that runs it (ioruntime/Runtime.cpp).   *)
(* One thread does everything: main() spawns the roots, and then every     *)
(* iteration of naive_run first lets the event handlers fire wakers and    *)
(* then calls step(), which polls until the queue is empty.  The front     *)
(* entry stays in the queue while its task is polled.                      *)
(*                                                                         *)
(* The futures are the environment, under the same contract as in          *)
(* PooledExecutor.  A poll that runs its own waker feeds the very step()   *)
(* it runs in; MaxSelfWakes says how often that happens in one step(): a   *)
(* reader wakes its task while it hands out bytes, and those leave through *)
(* poll_write, which then waits for a flag that only the reactor sets.     *)
(***************************************************************************)
EXTENDS Integers, Sequences, FiniteSets, TaskCell

CONSTANTS
    Task,           \* the tasks that may ever be spawned
    Root,           \* those main() spawns before naive_run
    Source,         \* the event sources a waker can be registered with
    MaxQueued,      \* bound: the reactor fires only below this many entries
    MaxSelfWakes,   \* how often polls run their own wakers during one step()
    Main,           \* the one thread
    NoTask,         \* an empty future_slot
    NoThread        \* the poller of a task nobody polls

ASSUME ThreadlessAssumption ==
    /\ Root \subseteq Task
    /\ NoTask \notin Task
    /\ Main # NoThread
    /\ MaxSelfWakes \in Nat

VARIABLES
    tasks,          \* the queue
    tasksUntilCompletion,
    inner,          \* the InnerTask of each task
    born,           \* tasks whose Task object has been made
    done,           \* tasks whose poll returned ready
    failed,         \* tasks whose poll threw
    slot,           \* future_slot: the task whose future the loop owns
    pc,             \* where the thread is
    pollArmed,      \* has the current poll registered its waker?
    selfWakes,      \* wakers that polls of this step() ran themselves
    armed           \* the wakers the event handlers hold

execVars == <<tasks, tasksUntilCompletion, inner, born, done, failed, slot, pc,
              pollArmed, selfWakes, armed>>

Pc == {"boot", "reactor", "step", "poll", "exited"}

Live == born \ (done \cup failed)

Exited == pc = "exited"

Init ==
    /\ tasks = <<>>
    /\ tasksUntilCompletion = 0
    /\ inner = [t \in Task |-> MakeTask]
    /\ born = {}
    /\ done = {}
    /\ failed = {}
    /\ slot = NoTask
    /\ pc = "boot"
    /\ pollArmed = FALSE
    /\ selfWakes = 0
    /\ armed = {}

(* Runtime::spawn makes the Task, ThreadlessExecutor::spawn counts it and  *)
(* queues it.                                                              *)
Spawn(t) ==
    /\ t \notin born
    /\ born' = born \cup {t}
    /\ inner' = [inner EXCEPT ![t] = MakeTask]
    /\ tasksUntilCompletion' = tasksUntilCompletion + 1
    /\ tasks' = Append(tasks, t)
    /\ UNCHANGED <<done, failed, slot, pc, pollArmed, selfWakes, armed>>

MainSpawn(t) == pc = "boot" /\ t \in Root /\ Spawn(t)

NaiveRun ==
    /\ pc = "boot"
    /\ Root \subseteq born
    /\ pc' = "reactor"
    /\ UNCHANGED <<tasks, tasksUntilCompletion, inner, born, done, failed, slot,
                   pollArmed, selfWakes, armed>>
-----------------------------------------------------------------------------
(* A handler's reactor_step runs a waker, and respawn queues its task.     *)
FireWaker(t, s) ==
    /\ pc = "reactor"
    /\ <<t, s>> \in armed
    /\ Len(tasks) < MaxQueued
    /\ armed' = armed \ {<<t, s>>}
    /\ tasks' = Append(tasks, t)
    /\ UNCHANGED <<tasksUntilCompletion, inner, born, done, failed, slot, pc,
                   pollArmed, selfWakes>>

HandlersDone ==
    /\ pc = "reactor"
    /\ pc' = "step"
    /\ selfWakes' = 0
    /\ UNCHANGED <<tasks, tasksUntilCompletion, inner, born, done, failed, slot,
                   pollArmed, armed>>
-----------------------------------------------------------------------------
(* step(): the queue is empty, and the count decides whether naive_run     *)
(* goes round again.                                                       *)
StepReturns ==
    /\ pc = "step"
    /\ tasks = <<>>
    /\ pc' = IF tasksUntilCompletion > 0 THEN "reactor" ELSE "exited"
    /\ UNCHANGED <<tasks, tasksUntilCompletion, inner, born, done, failed, slot,
                   pollArmed, selfWakes, armed>>

ConsumeFront ==
    /\ pc = "step"
    /\ tasks # <<>>
    /\ LET task == Head(tasks)
           result == Consume(inner[task])
       IN  /\ inner' = [inner EXCEPT ![task] = Consumed(@)]
           /\ \/ /\ result = "skip"
                 /\ tasks' = Tail(tasks)
                 /\ UNCHANGED <<slot, pc>>
              \/ /\ result # "skip"
                 /\ slot' = IF result = "take" THEN task ELSE slot
                 /\ pc' = "poll"
                 /\ UNCHANGED tasks
    /\ UNCHANGED <<tasksUntilCompletion, born, done, failed, pollArmed, selfWakes,
                   armed>>

RegisterWaker(s) ==
    /\ pc = "poll"
    /\ armed' = armed \cup {<<Head(tasks), s>>}
    /\ pollArmed' = TRUE
    /\ UNCHANGED <<tasks, tasksUntilCompletion, inner, born, done, failed, slot, pc,
                   selfWakes>>

(* The poll runs its own waker: respawn queues the task behind the front.  *)
PollWake ==
    /\ pc = "poll"
    /\ selfWakes < MaxSelfWakes
    /\ selfWakes' = selfWakes + 1
    /\ tasks' = Append(tasks, Head(tasks))
    /\ UNCHANGED <<tasksUntilCompletion, inner, born, done, failed, slot, pc,
                   pollArmed, armed>>

PollSpawn(t) == pc = "poll" /\ t \notin Root /\ Spawn(t)

(* The loop body ends: the entry is popped and future_slot is gone.        *)
PopFront ==
    /\ tasks' = Tail(tasks)
    /\ slot' = NoTask
    /\ pc' = "step"
    /\ pollArmed' = FALSE

(* Mutant: a pending task goes to the back of the queue.                   *)
MutPollPending ==
    /\ pc = "poll"
    /\ pollArmed
    /\ inner' = [inner EXCEPT ![Head(tasks)] = Deconsumed(@)]
    /\ tasks' = Append(Tail(tasks), Head(tasks))
    /\ slot' = NoTask
    /\ pc' = "step"
    /\ pollArmed' = FALSE
    /\ UNCHANGED <<tasksUntilCompletion, born, done, failed, selfWakes, armed>>

PollPending ==
    /\ pc = "poll"
    /\ pollArmed
    /\ inner' = [inner EXCEPT ![Head(tasks)] = Deconsumed(@)]
    /\ PopFront
    /\ UNCHANGED <<tasksUntilCompletion, born, done, failed, selfWakes, armed>>

(* Mutant: completion is not counted.                                      *)
MutPollReady ==
    /\ pc = "poll"
    /\ done' = done \cup {Head(tasks)}
    /\ PopFront
    /\ UNCHANGED <<tasksUntilCompletion, inner, born, failed, selfWakes, armed>>

PollReady ==
    /\ pc = "poll"
    /\ tasksUntilCompletion' = tasksUntilCompletion - 1
    /\ done' = done \cup {Head(tasks)}
    /\ PopFront
    /\ UNCHANGED <<inner, born, failed, selfWakes, armed>>

(* Mutant: a poll that threw is counted as a completion.                   *)
MutPollThrow ==
    /\ pc = "poll"
    /\ tasksUntilCompletion' = tasksUntilCompletion - 1
    /\ failed' = failed \cup {Head(tasks)}
    /\ PopFront
    /\ UNCHANGED <<inner, born, done, selfWakes, armed>>

(* The catch clause pops and logs: the task stays counted.                 *)
PollThrow ==
    /\ pc = "poll"
    /\ failed' = failed \cup {Head(tasks)}
    /\ PopFront
    /\ UNCHANGED <<tasksUntilCompletion, inner, born, done, selfWakes, armed>>

PollReturn == PollPending \/ PollReady \/ PollThrow
-----------------------------------------------------------------------------
Boot == NaiveRun \/ \E t \in Task : MainSpawn(t)

Step == HandlersDone \/ StepReturns \/ ConsumeFront

Next ==
    \/ Boot
    \/ Step
    \/ PollReturn
    \/ PollWake
    \/ \E s \in Source : RegisterWaker(s)
    \/ \E t \in Task : PollSpawn(t)
    \/ \E t \in Task, s \in Source : FireWaker(t, s)

Spec == Init /\ [][Next]_execVars

(* The thread runs, handlers and polls return.  FireWaker has no fairness: *)
(* nothing makes an event source fire.                                     *)
Fairness == WF_execVars(Boot) /\ WF_execVars(Step) /\ WF_execVars(PollReturn)

FairSpec == Spec /\ Fairness
-----------------------------------------------------------------------------
(* Properties.                                                             *)

TypeOK ==
    /\ tasks \in Seq(Task)
    /\ tasksUntilCompletion \in 0 .. Cardinality(born)
    /\ inner \in [Task -> InnerTask]
    /\ born \in SUBSET Task
    /\ done \in SUBSET Task
    /\ failed \in SUBSET Task
    /\ slot \in Task \cup {NoTask}
    /\ pc \in Pc
    /\ pollArmed \in BOOLEAN
    /\ selfWakes \in 0 .. MaxSelfWakes
    /\ armed \in SUBSET (Task \X Source)

(* The loop polls the front of the queue with that task's own future, and  *)
(* a waker or a spawn during the poll never changes which task is front.   *)
PollsFront ==
    pc = "poll" => tasks # <<>> /\ slot = Head(tasks) /\ slot \in Live

(* naive_run returns exactly when nothing is counted, so it can only       *)
(* return when every task completed: a poll that threw keeps the program   *)
(* running for ever.                                                       *)
ExitMeansAllDone == Exited => born = done

(* With one thread no wake-up is lost: a pending task always has a queue   *)
(* entry or a registered waker.                                            *)
Queued(t) == \E i \in DOMAIN tasks : tasks[i] = t

NoTaskStranded ==
    \A t \in Live : Queued(t) \/ \E s \in Source : <<t, s>> \in armed

(* step() always ends, and the handlers get their next turn: a registered  *)
(* waker runs only in the handlers, and a poll runs its own only so often  *)
(* before it needs an event.                                               *)
StepEnds == []<>(pc = "reactor" \/ Exited)

(* A wake-up is followed by a poll of the task.                            *)
WokenIsPolled ==
    \A t \in Task : (t \in Live /\ Queued(t)) ~> (slot = t \/ t \notin Live)

(* Once every spawned task has completed, naive_run returns.               *)
CompletionEndsRun == (Root \subseteq born /\ born = done) ~> Exited

(* The executor keeps the promises of TaskLifecycle, with one thread.      *)
StateOf(t) ==
    CASE t \notin born -> "unborn"
      [] t \in done -> "done"
      [] t \in failed -> "failed"
      [] t \in Live /\ slot = t -> "polling"
      [] OTHER -> "waiting"

PollerOf(t) == IF slot = t THEN Main ELSE NoThread

Lifecycle == INSTANCE TaskLifecycle WITH
    Thread <- {Main},
    state <- [t \in Task |-> StateOf(t)],
    poller <- [t \in Task |-> PollerOf(t)]

ImplementsLifecycle == Lifecycle!LifecycleSpec
=============================================================================
