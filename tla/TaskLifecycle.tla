---------------------------- MODULE TaskLifecycle ----------------------------
(***************************************************************************)
(* What an executor of this runtime promises about the tasks it is given,  *)
(* whatever queues, threads and wakers it uses to keep the promise: a      *)
(* future is polled by one thread at a time, a thread polls one future at  *)
(* a time, and a future whose poll completed or threw is never polled      *)
(* again.  PooledExecutor and ThreadlessExecutor are shown to implement    *)
(* this specification.                                                     *)
(***************************************************************************)
CONSTANTS
    Task,       \* the tasks that may ever be spawned
    Thread,     \* the threads that may poll
    NoThread    \* stands for "no thread polls it"

VARIABLES
    state,      \* what became of each task's future
    poller      \* the thread that is polling it, or NoThread

lifecycleVars == <<state, poller>>

TaskState == {"unborn", "waiting", "polling", "done", "failed"}

LifecycleInit ==
    /\ state = [t \in Task |-> "unborn"]
    /\ poller = [t \in Task |-> NoThread]

Born(t) ==
    /\ state[t] = "unborn"
    /\ state' = [state EXCEPT ![t] = "waiting"]
    /\ UNCHANGED poller

Begin(t, th) ==
    /\ state[t] = "waiting"
    /\ \A u \in Task : poller[u] # th
    /\ state' = [state EXCEPT ![t] = "polling"]
    /\ poller' = [poller EXCEPT ![t] = th]

End(t, outcome) ==
    /\ state[t] = "polling"
    /\ state' = [state EXCEPT ![t] = outcome]
    /\ poller' = [poller EXCEPT ![t] = NoThread]

LifecycleNext ==
    \E t \in Task :
        \/ Born(t)
        \/ \E th \in Thread : Begin(t, th)
        \/ \E outcome \in {"waiting", "done", "failed"} : End(t, outcome)

LifecycleSpec == LifecycleInit /\ [][LifecycleNext]_lifecycleVars
=============================================================================
