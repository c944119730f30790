---------------------------- MODULE FileDescriptor ----------------------------
(***************************************************************************)
(* Reading a descriptor asynchronously: FileDescriptor::poll_read, its     *)
(* constructor and destructor (ioruntime/FileDescriptor.cpp), on top of    *)
(* the select reactor.  poll_write is the same code in the write direction.*)
(*                                                                         *)
(* Each task owns one FileDescriptor object and polls it the way the       *)
(* program's futures do: after data it may read again at once or return    *)
(* pending, and between two reads it may be over and destroy the object.   *)
(* Descriptor numbers are reused after close, as the kernel does.          *)
(*                                                                         *)
(* The executor is abstracted to the number of queue entries of each task; *)
(* an entry is kept until the task can be polled.  That is                 *)
(* ThreadlessExecutor, and PooledExecutor with one worker: with more, an   *)
(* entry popped while the task is being polled is dropped, see             *)
(* PooledExecutor.                                                         *)
(***************************************************************************)
EXTENDS IoEventHandler, FiniteSets

CONSTANTS
    Task,           \* tasks, each with its FileDescriptor object
    NoFd,           \* the descriptor of a task that has none
    EvilCheckErrno, \* was the program built with EVIL_CHECK_ERRNO?
    MaxAvail,       \* bound: unread chunks a descriptor buffers
    MaxEntries      \* bound: a waker runs only below this many queue entries

ASSUME DescriptorAssumption ==
    /\ NoFd \notin Fd
    /\ EvilCheckErrno \in BOOLEAN
    /\ MaxAvail \in Nat \ {0}
    /\ MaxEntries \in Nat \ {0}

VARIABLES
    fd,             \* descriptor: the number the task's object is bound to
    ready,          \* ready_to_read of that object
    locked,         \* is ready_to_read locked by poll_read?
    pc,             \* where the task's thread is
    entries,        \* queue entries of the task
    avail           \* the kernel's unread chunks, per descriptor

taskVars == <<fd, ready, locked, pc, entries, avail>>
vars == <<handlerVars, taskVars>>

(* The keys poll_read registers under.                                     *)
WakerKey == 10
ReadyKey == 15

SetReady(t) == Callback("ready", t, ReadyKey)
Wake(t) == Callback("wake", t, WakerKey)

Pc == {"none", "use", "watch", "listen", "waiting", "poll", "again_locked",
       "waker_locked", "again", "waker", "again_error", "waker_error", "failed",
       "erase", "unuse", "close", "over"}

Open == {fd[t] : t \in Task} \ {NoFd}

Readable == {f \in Open : avail[f] > 0}

(* A task runs on a worker at any time, or on the main thread inside       *)
(* executor->step(), one task after the other.                             *)
Runs(t) ==
    Pooled \/ (rpc = "executor" /\ \A u \in Task \ {t} : pc[u] \in {"none", "waiting", "over"})

Idle ==
    \A t \in Task : pc[t] \in {"none", "over"} \/ (pc[t] = "waiting" /\ entries[t] = 0)

Init ==
    /\ HandlerInit
    /\ fd = [t \in Task |-> NoFd]
    /\ ready = [t \in Task |-> FALSE]
    /\ locked = [t \in Task |-> FALSE]
    /\ pc = [t \in Task |-> "none"]
    /\ entries = [t \in Task |-> 0]
    /\ avail = [f \in Fd |-> 0]

Goto(t, label) == pc' = [pc EXCEPT ![t] = label]
-----------------------------------------------------------------------------
(* The constructor, and the spawn of the task that owns the object.        *)

OpenFd(t, f) ==
    /\ Runs(t)
    /\ pc[t] = "none"
    /\ f \in Fd \ Open
    /\ fd' = [fd EXCEPT ![t] = f]
    /\ Goto(t, "use")
    /\ UNCHANGED <<handlerVars, ready, locked, entries, avail>>

RegisterUse(t) ==
    /\ Runs(t)
    /\ pc[t] = "use"
    /\ UseFd(fd[t])
    /\ Goto(t, "watch")
    /\ UNCHANGED <<fds, listeners, rpc, selected, visit, hand, fd, ready, locked,
                   entries, avail>>

RegisterWatch(t) ==
    /\ Runs(t)
    /\ pc[t] = "watch"
    /\ WatchFd(fd[t])
    /\ Goto(t, "listen")
    /\ UNCHANGED <<inUse, listeners, rpc, selected, visit, hand, fd, ready,
                   locked, entries, avail>>

RegisterReady(t) ==
    /\ Runs(t)
    /\ pc[t] = "listen"
    /\ AddListener(fd[t], SetReady(t))
    /\ entries' = [entries EXCEPT ![t] = 1]
    /\ Goto(t, "waiting")
    /\ UNCHANGED <<fds, inUse, rpc, selected, visit, hand, fd, ready, locked,
                   avail>>

Construct(t) == RegisterUse(t) \/ RegisterWatch(t) \/ RegisterReady(t)
-----------------------------------------------------------------------------
(* poll_read.  The descriptor is already watched and in use, so a          *)
(* registration only changes the listeners.                                *)

StartPoll(t) ==
    /\ Runs(t)
    /\ pc[t] = "waiting"
    /\ entries[t] > 0
    /\ entries' = [entries EXCEPT ![t] = @ - 1]
    /\ Goto(t, "poll")
    /\ UNCHANGED <<handlerVars, fd, ready, locked, avail>>

(* Mutant: pending is returned without registering the waker.              *)
MutReadNotReady(t) ==
    /\ Runs(t)
    /\ pc[t] = "poll"
    /\ ~ready[t]
    /\ Goto(t, "waiting")
    /\ UNCHANGED <<handlerVars, fd, ready, locked, entries, avail>>

(* Not ready: the waker is registered while the flag is still locked.      *)
ReadNotReady(t) ==
    /\ Runs(t)
    /\ pc[t] = "poll"
    /\ ~ready[t]
    /\ AddListener(fd[t], Wake(t))
    /\ Goto(t, "waiting")
    /\ UNCHANGED <<fds, inUse, rpc, selected, visit, hand, fd, ready, locked,
                   entries, avail>>

(* Ready, and read returns a chunk: the flag is cleared and unlocked.      *)
ReadData(t) ==
    /\ Runs(t)
    /\ pc[t] = "poll"
    /\ ready[t]
    /\ avail[fd[t]] > 0
    /\ avail' = [avail EXCEPT ![fd[t]] = @ - 1]
    /\ ready' = [ready EXCEPT ![t] = FALSE]
    /\ Goto(t, "again")
    /\ UNCHANGED <<handlerVars, fd, locked, entries>>

(* Mutant: after EAGAIN only the waker is registered again.                *)
MutReadAgain(t) ==
    /\ EvilCheckErrno
    /\ Runs(t)
    /\ pc[t] = "poll"
    /\ ready[t]
    /\ avail[fd[t]] = 0
    /\ ready' = [ready EXCEPT ![t] = FALSE]
    /\ locked' = [locked EXCEPT ![t] = TRUE]
    /\ Goto(t, "waker_locked")
    /\ UNCHANGED <<handlerVars, fd, entries, avail>>

(* Ready, but read returns EAGAIN, as the flag is of a readiness that was  *)
(* used: a build that looks at errno keeps the flag locked while both      *)
(* callbacks are registered again.                                         *)
ReadAgain(t) ==
    /\ EvilCheckErrno
    /\ Runs(t)
    /\ pc[t] = "poll"
    /\ ready[t]
    /\ avail[fd[t]] = 0
    /\ ready' = [ready EXCEPT ![t] = FALSE]
    /\ locked' = [locked EXCEPT ![t] = TRUE]
    /\ Goto(t, "again_locked")
    /\ UNCHANGED <<handlerVars, fd, entries, avail>>

(* Ready, but read fails: the peer reset the connection, or EAGAIN in any  *)
(* other build.  The error is returned once both callbacks are registered. *)
ReadError(t) ==
    /\ Runs(t)
    /\ pc[t] = "poll"
    /\ ready[t]
    /\ ready' = [ready EXCEPT ![t] = FALSE]
    /\ Goto(t, "again_error")
    /\ UNCHANGED <<handlerVars, fd, locked, entries, avail>>

(* Where poll_read goes when it has registered the flag's callback.        *)
AfterReady ==
    [again |-> "waker", again_locked |-> "waker_locked", again_error |-> "waker_error"]

(* Mutant: the callback that sets the flag is not registered again.        *)
MutReadyAgain(t) ==
    /\ Runs(t)
    /\ pc[t] \in DOMAIN AfterReady
    /\ Goto(t, AfterReady[pc[t]])
    /\ UNCHANGED <<handlerVars, fd, ready, locked, entries, avail>>

ReadyAgain(t) ==
    /\ Runs(t)
    /\ pc[t] \in DOMAIN AfterReady
    /\ AddListener(fd[t], SetReady(t))
    /\ Goto(t, AfterReady[pc[t]])
    /\ UNCHANGED <<fds, inUse, rpc, selected, visit, hand, fd, ready, locked,
                   entries, avail>>

(* The waker is registered.  After EAGAIN the future returns pending.      *)
WakerAgain(t) ==
    /\ Runs(t)
    /\ pc[t] = "waker_locked"
    /\ AddListener(fd[t], Wake(t))
    /\ locked' = [locked EXCEPT ![t] = FALSE]
    /\ Goto(t, "waiting")
    /\ UNCHANGED <<fds, inUse, rpc, selected, visit, hand, fd, ready, entries,
                   avail>>

(* After data, the future reads on or returns pending.                     *)
WakerAfterData(t, label) ==
    /\ Runs(t)
    /\ pc[t] = "waker"
    /\ AddListener(fd[t], Wake(t))
    /\ Goto(t, label)
    /\ UNCHANGED <<fds, inUse, rpc, selected, visit, hand, fd, ready, locked,
                   entries, avail>>

(* After an error, the future throws.                                      *)
WakerAfterError(t) ==
    /\ Runs(t)
    /\ pc[t] = "waker_error"
    /\ AddListener(fd[t], Wake(t))
    /\ Goto(t, "failed")
    /\ UNCHANGED <<fds, inUse, rpc, selected, visit, hand, fd, ready, locked,
                   entries, avail>>

Read(t) ==
    \/ StartPoll(t)
    \/ ReadNotReady(t)
    \/ ReadData(t)
    \/ ReadAgain(t)
    \/ ReadError(t)
    \/ ReadyAgain(t)
    \/ WakerAgain(t)
    \/ WakerAfterError(t)
    \/ \E label \in {"poll", "waiting"} : WakerAfterData(t, label)
-----------------------------------------------------------------------------
(* The destructor, run by the future when its connection is over, as it is *)
(* after an error.                                                         *)

(* Mutant: the destructor starts with the callbacks.                       *)
MutUnregisterWatch(t) ==
    /\ Runs(t)
    /\ pc[t] \in {"poll", "failed"}
    /\ Goto(t, "erase")
    /\ UNCHANGED <<handlerVars, fd, ready, locked, entries, avail>>

UnregisterWatch(t) ==
    /\ Runs(t)
    /\ pc[t] \in {"poll", "failed"}
    /\ UnwatchFd(fd[t])
    /\ Goto(t, "erase")
    /\ UNCHANGED <<inUse, listeners, rpc, selected, visit, hand, fd, ready,
                   locked, entries, avail>>

(* Mutant: the callbacks are left in the table.                            *)
MutUnregisterListeners(t) ==
    /\ Runs(t)
    /\ pc[t] = "erase"
    /\ Goto(t, "unuse")
    /\ UNCHANGED <<handlerVars, fd, ready, locked, entries, avail>>

UnregisterListeners(t) ==
    /\ Runs(t)
    /\ pc[t] = "erase"
    /\ EraseListeners(fd[t])
    /\ Goto(t, "unuse")
    /\ UNCHANGED <<fds, inUse, rpc, selected, visit, hand, fd, ready, locked,
                   entries, avail>>

UnregisterUse(t) ==
    /\ Runs(t)
    /\ pc[t] = "unuse"
    /\ UnuseFd(fd[t])
    /\ Goto(t, "close")
    /\ UNCHANGED <<fds, listeners, rpc, selected, visit, hand, fd, ready, locked,
                   entries, avail>>

(* ::close, and the task is over: its remaining queue entries are stale.   *)
CloseFd(t) ==
    /\ Runs(t)
    /\ pc[t] = "close"
    /\ fd' = [fd EXCEPT ![t] = NoFd]
    /\ avail' = [avail EXCEPT ![fd[t]] = 0]
    /\ ready' = [ready EXCEPT ![t] = FALSE]
    /\ entries' = [entries EXCEPT ![t] = 0]
    /\ Goto(t, "over")
    /\ UNCHANGED <<handlerVars, locked>>

Destruct(t) ==
    \/ pc[t] = "failed" /\ UnregisterWatch(t)
    \/ UnregisterListeners(t)
    \/ UnregisterUse(t)
    \/ CloseFd(t)
-----------------------------------------------------------------------------
(* The peer, the main thread and the callbacks it runs.                    *)

Arrive(f) ==
    /\ f \in Open
    /\ avail[f] < MaxAvail
    /\ avail' = [avail EXCEPT ![f] = @ + 1]
    /\ UNCHANGED <<handlerVars, fd, ready, locked, pc, entries>>

(* SetReadyFunctor: waits for the flag's lock.  The flag of an object that *)
(* is gone is kept alive by the functor, and read by nobody.               *)
RunSetReady ==
    /\ CallbackRun
    /\ Head(hand).act = "ready"
    /\ LET t == Head(hand).owner
       IN  /\ ~locked[t]
           /\ ready' = [ready EXCEPT ![t] = fd[t] # NoFd]
    /\ UNCHANGED <<fd, locked, pc, entries, avail>>

(* Waker: an entry of a task that is over is dropped when it is popped.    *)
RunWaker ==
    /\ CallbackRun
    /\ Head(hand).act = "wake"
    /\ LET t == Head(hand).owner
       IN  /\ entries[t] < MaxEntries
           /\ entries' = [entries EXCEPT ![t] = IF fd[t] = NoFd THEN @ ELSE @ + 1]
    /\ UNCHANGED <<fd, ready, locked, pc, avail>>

Reactor ==
    \/ CopyFds /\ UNCHANGED taskVars
    \/ Select(Readable, Open) /\ UNCHANGED taskVars
    \/ ListFdsInUse /\ UNCHANGED taskVars
    \/ MoveListenersOut /\ UNCHANGED taskVars
    \/ ListenersFired /\ UNCHANGED taskVars
    \/ ReactorStepReturns /\ UNCHANGED taskVars
    \/ ExecutorStepReturns(Idle) /\ UNCHANGED taskVars
    \/ RunSetReady
    \/ RunWaker

Poll(t) == Construct(t) \/ Read(t) \/ Destruct(t)

Next ==
    \/ Reactor
    \/ \E t \in Task :
        \/ Poll(t)
        \/ UnregisterWatch(t)
        \/ \E f \in Fd : OpenFd(t, f)
    \/ \E f \in Fd : Arrive(f)

Spec == Init /\ [][Next]_vars

(* The main thread loops, and a task with a queue entry is polled and its  *)
(* poll goes on.  No descriptor has to be opened or closed, no data has to *)
(* arrive.                                                                 *)
Fairness == WF_vars(Reactor) /\ \A t \in Task : WF_vars(Poll(t))

FairSpec == Spec /\ Fairness
-----------------------------------------------------------------------------
(* Properties.                                                             *)

(* Types, and at most one callback per key and descriptor: register_callback*)
(* replaces instead of piling up.                                          *)
TypeOK ==
    /\ HandlerTypeOK(Task)
    /\ \A f \in Fd : Len(listeners[f]) <= 2
    /\ fd \in [Task -> Fd \cup {NoFd}]
    /\ ready \in [Task -> BOOLEAN]
    /\ locked \in [Task -> BOOLEAN]
    /\ pc \in [Task -> Pc]
    /\ entries \in [Task -> 0 .. MaxEntries]
    /\ avail \in [Fd -> 0 .. MaxAvail]

Registered(t, cb) == \E i \in DOMAIN listeners[fd[t]] : listeners[fd[t]][i] = cb
InHand(cb) == \E i \in DOMAIN hand : hand[i] = cb

(* A descriptor's readiness is never forgotten: outside the sections that  *)
(* are about to register it again, the flag is set, or the callback that   *)
(* sets it is in the table or about to run.                                *)
ReadyOrArmed ==
    \A t \in Task :
        pc[t] \in {"waiting", "poll", "waker", "waker_locked", "waker_error", "failed"} =>
            ready[t] \/ Registered(t, SetReady(t)) \/ InHand(SetReady(t))

(* A task that returned pending has a queue entry, or its waker is in the  *)
(* table or about to run.                                                  *)
WaitingIsWakeable ==
    \A t \in Task :
        pc[t] = "waiting" =>
            entries[t] > 0 \/ Registered(t, Wake(t)) \/ InHand(Wake(t))

(* A reused descriptor number never inherits callbacks: those in the table *)
(* belong to the object that has the number now.                           *)
CallbacksOfOwner ==
    \A f \in Fd : \A i \in DOMAIN listeners[f] : fd[listeners[f][i].owner] = f

(* select is handed open descriptors only, up to the moment of the copy.   *)
WatchesOpenOnly == fds \subseteq Open

(* Data that waits in a descriptor is read by the task that waits for it,  *)
(* unless the task is over.                                                *)
DataIsRead ==
    \A t \in Task :
        (pc[t] = "waiting" /\ avail[fd[t]] > 0) ~> (pc[t] \in {"again", "over"})
=============================================================================
