-------------------------- MODULE ChildProcessHandler --------------------------
(***************************************************************************)
(* ioruntime/GlobalChildProcessHandler.cpp: the SIGCHLD handler that       *)
(* counts, and reactor_step, the main thread's turn that reaps and runs    *)
(* the callbacks registered for a process.                                 *)
(*                                                                         *)
(* The runtime has no workers here: the main thread is the only one, and   *)
(* a signal interrupts whatever it is doing.  A mutex it holds while the   *)
(* signal handler asks for it is never given: the thread hangs.            *)
(***************************************************************************)
EXTENDS Integers

CONSTANTS
    Pid,            \* process numbers
    SizeMax,        \* the largest size_t
    NoHandler       \* the value of a table entry that does not exist

ASSUME ChildProcessAssumption == SizeMax \in Nat \ {0}

VARIABLES
    mpc,            \* where the main thread is
    pidReady,       \* _some_pid_is_ready_lol
    isReady,        \* is_ready, reactor_step's copy of it
    handlers,       \* the table of _process_handlers_mutex
    running,        \* the callback that reactor_step took out of it
    signalled       \* a SIGCHLD is pending; two of them are one

handlerVars == <<mpc, pidReady, isReady, handlers, running, signalled>>

MainPc == {"select", "turn", "counting", "reap", "run", "storing", "executor", "hung"}

HandlerInit ==
    /\ mpc = "select"
    /\ pidReady = 0
    /\ isReady = 0
    /\ handlers = [p \in Pid |-> NoHandler]
    /\ running = NoHandler
    /\ signalled = FALSE

HandlerTypeOK(Callback) ==
    /\ mpc \in MainPc
    /\ pidReady \in 0 .. SizeMax
    /\ isReady \in 0 .. SizeMax
    /\ handlers \in [Pid -> Callback \cup {NoHandler}]
    /\ running \in Callback \cup {NoHandler}
    /\ signalled \in BOOLEAN

(* A size_t wraps around.                                                  *)
Wrap(n) == n % (SizeMax + 1)

(* Mutant: the newest callback of a process replaces the one it has.       *)
MutRegistered(table, p, callback) == [table EXCEPT ![p] = callback]

(* map::emplace: a process that has a callback keeps it.                   *)
Registered(table, p, callback) ==
    IF table[p] = NoHandler THEN [table EXCEPT ![p] = callback] ELSE table

(* The signal handler adds one, unless it interrupts the thread while that *)
(* thread has the counter's lock.  A select it interrupts fires nothing.   *)
SignalHandler ==
    /\ signalled
    /\ mpc # "hung"
    /\ signalled' = FALSE
    /\ IF mpc \in {"counting", "storing"}
       THEN mpc' = "hung" /\ UNCHANGED pidReady
       ELSE /\ pidReady' = Wrap(pidReady + 1)
            /\ mpc' \in {mpc} \cup IF mpc = "select" THEN {"turn"} ELSE {}
    /\ UNCHANGED <<isReady, handlers, running>>
-----------------------------------------------------------------------------
(* reactor_step.                                                           *)

(* The select reactor had its turn.                                        *)
SelectReturns ==
    /\ mpc = "select"
    /\ mpc' = "turn"
    /\ UNCHANGED <<pidReady, isReady, handlers, running, signalled>>

LockCount ==
    /\ mpc = "turn"
    /\ mpc' = "counting"
    /\ UNCHANGED <<pidReady, isReady, handlers, running, signalled>>

ReadCount ==
    /\ mpc = "counting"
    /\ isReady' = pidReady
    /\ mpc' = IF pidReady = 0 THEN "executor" ELSE "reap"
    /\ UNCHANGED <<pidReady, handlers, running, signalled>>

(* waitpid takes a process that has ended; its callback leaves the table,  *)
(* and runs if the process exited by itself.                               *)
ReapPid(p, exited) ==
    /\ mpc = "reap"
    /\ isReady' = Wrap(isReady - 1)
    /\ handlers' = [handlers EXCEPT ![p] = NoHandler]
    /\ running' = IF exited THEN handlers[p] ELSE NoHandler
    /\ mpc' = "run"
    /\ UNCHANGED <<pidReady, signalled>>

CallbackRuns ==
    /\ mpc = "run"
    /\ running' = NoHandler
    /\ mpc' = "reap"
    /\ UNCHANGED <<pidReady, isReady, handlers, signalled>>

(* waitpid finds no process that has ended: what is left of the copy is    *)
(* written over the counter.                                               *)
StoreCount ==
    /\ mpc = "reap"
    /\ pidReady' = isReady
    /\ mpc' = "storing"
    /\ UNCHANGED <<isReady, handlers, running, signalled>>

UnlockCount ==
    /\ mpc = "storing"
    /\ mpc' = "executor"
    /\ UNCHANGED <<pidReady, isReady, handlers, running, signalled>>

ExecutorStepReturns ==
    /\ mpc = "executor"
    /\ mpc' = "select"
    /\ UNCHANGED <<pidReady, isReady, handlers, running, signalled>>
=============================================================================
