----------------------------- MODULE TcpListener -----------------------------
(***************************************************************************)
(* Accepting connections: TcpListener (net/TcpListener.cpp) polled by the  *)
(* ForEachFuture (futures/ForEachFuture.hpp) that a Server is, on top of   *)
(* the select reactor.                                                     *)
(*                                                                         *)
(* poll_next holds the lock of connection_ready from its first line to its *)
(* return.  The listening socket is in blocking mode: accept waits when    *)
(* the backlog is empty.  The executor is abstracted to the number of      *)
(* queue entries of the listener's task, as in FileDescriptor.             *)
(***************************************************************************)
EXTENDS IoEventHandler

CONSTANTS
    Listener,       \* the listener's task
    Socket,         \* its descriptor
    MaxBacklog,     \* bound: connections the kernel queues
    MaxFailures,    \* bound: times accept fails
    MaxEntries      \* bound: a waker runs only below this many queue entries

ASSUME ListenerAssumption ==
    /\ Socket \in Fd
    /\ MaxBacklog \in Nat \ {0}
    /\ MaxFailures \in Nat
    /\ MaxEntries \in Nat \ {0}

VARIABLES
    connectionReady,
    locked,         \* is connection_ready locked by poll_next?
    pc,             \* where the listener's task is
    entries,        \* its queue entries
    backlog,        \* connections waiting in the kernel
    left,           \* history: did one leave it since select last saw any?
    failures        \* accept failures so far

taskVars == <<connectionReady, locked, pc, entries>>
listenerVars == <<taskVars, backlog, left, failures>>
vars == <<handlerVars, listenerVars>>

WakerKey == 1

SetReady == Callback("ready", Listener, 0)
Wake == Callback("wake", Listener, WakerKey)

Pc == {"waiting", "accept", "failed_ready",
       "ready_then_wake", "wake"}

Runs == Pooled \/ rpc = "executor"

Readable == IF backlog > 0 THEN {Socket} ELSE {}

(* main() makes the listener before the reactor runs: the constructor      *)
(* registers a callback, and the spawn queues the task.                    *)
Init ==
    /\ fds = {Socket}
    /\ inUse = {Socket}
    /\ listeners = [f \in Fd |-> IF f = Socket THEN <<SetReady>> ELSE <<>>]
    /\ rpc = "copy"
    /\ selected = {}
    /\ visit = {}
    /\ hand = <<>>
    /\ connectionReady = FALSE
    /\ locked = FALSE
    /\ pc = "waiting"
    /\ entries = 1
    /\ backlog = 0
    /\ left = FALSE
    /\ failures = 0
-----------------------------------------------------------------------------
(* poll_next.                                                              *)

(* Mutant: the polled entry stays in the queue.                            *)
MutStartPoll ==
    /\ Runs
    /\ pc = "waiting"
    /\ entries > 0
    /\ locked' = TRUE
    /\ pc' = IF connectionReady THEN "accept" ELSE "ready_then_wake"
    /\ UNCHANGED <<handlerVars, connectionReady, entries, backlog, left, failures>>

(* Mutant: the flag is not looked at.                                      *)
MutStartPollBlind ==
    /\ Runs
    /\ pc = "waiting"
    /\ entries > 0
    /\ entries' = entries - 1
    /\ locked' = TRUE
    /\ pc' = "accept"
    /\ UNCHANGED <<handlerVars, connectionReady, backlog, left, failures>>

StartPoll ==
    /\ Runs
    /\ pc = "waiting"
    /\ entries > 0
    /\ entries' = entries - 1
    /\ locked' = TRUE
    /\ pc' = IF connectionReady THEN "accept" ELSE "ready_then_wake"
    /\ UNCHANGED <<handlerVars, connectionReady, backlog, left, failures>>

(* accept returns a client.  With an empty backlog it blocks the thread.   *)
Accept ==
    /\ Runs
    /\ pc = "accept"
    /\ backlog > 0
    /\ backlog' = backlog - 1
    /\ connectionReady' = FALSE
    /\ pc' = "ready_then_wake"
    /\ UNCHANGED <<handlerVars, locked, entries, left, failures>>

(* accept fails: the connection was aborted, or no descriptor is left.     *)
AcceptFails(aborted) ==
    /\ Runs
    /\ pc = "accept"
    /\ backlog > 0
    /\ failures < MaxFailures
    /\ failures' = failures + 1
    /\ backlog' = IF aborted THEN backlog - 1 ELSE backlog
    /\ pc' = "failed_ready"
    /\ UNCHANGED <<handlerVars, connectionReady, locked, entries, left>>

(* The error path registers only the callback that sets the flag, and      *)
(* throws; the ForEachFuture's handler reports it and returns pending.     *)
FailedReady ==
    /\ Runs
    /\ pc = "failed_ready"
    /\ AddListener(Socket, SetReady)
    /\ connectionReady' = FALSE
    /\ locked' = FALSE
    /\ pc' = "waiting"
    /\ UNCHANGED <<fds, inUse, rpc, selected, visit, hand, entries, backlog, left, failures>>

(* Mutant: the waker is registered before the flag's callback.             *)
MutRegisterReady ==
    /\ Runs
    /\ pc = "ready_then_wake"
    /\ listeners' = [listeners EXCEPT ![Socket] =
                        InsertCallback(InsertCallback(@, Wake), SetReady)]
    /\ pc' = "wake"
    /\ UNCHANGED <<fds, inUse, rpc, selected, visit, hand, connectionReady,
                   locked, entries, backlog, left, failures>>

(* The other two paths register it and then the waker, and return; after a *)
(* client the ForEachFuture spawns a connection, and returns pending too.  *)
RegisterReady ==
    /\ Runs
    /\ pc = "ready_then_wake"
    /\ AddListener(Socket, SetReady)
    /\ pc' = "wake"
    /\ UNCHANGED <<fds, inUse, rpc, selected, visit, hand, connectionReady,
                   locked, entries, backlog, left, failures>>

(* Mutant: the waker is not registered.                                    *)
MutRegisterWaker ==
    /\ Runs
    /\ pc = "wake"
    /\ locked' = FALSE
    /\ pc' = "waiting"
    /\ UNCHANGED <<handlerVars, connectionReady, entries, backlog, left, failures>>

RegisterWaker ==
    /\ Runs
    /\ pc = "wake"
    /\ AddListener(Socket, Wake)
    /\ locked' = FALSE
    /\ pc' = "waiting"
    /\ UNCHANGED <<fds, inUse, rpc, selected, visit, hand, connectionReady,
                   entries, backlog, left, failures>>

PollNext == StartPoll \/ Accept \/ FailedReady \/ RegisterReady \/ RegisterWaker
-----------------------------------------------------------------------------
(* The clients, the main thread and the callbacks it runs.                 *)

Connect ==
    /\ backlog < MaxBacklog
    /\ backlog' = backlog + 1
    /\ UNCHANGED <<handlerVars, taskVars, left, failures>>

(* A client that resets its connection before it is accepted may leave the *)
(* backlog (accept(2)).                                                    *)
Leave ==
    /\ backlog > 0
    /\ backlog' = backlog - 1
    /\ left' = TRUE
    /\ UNCHANGED <<handlerVars, taskVars, failures>>

RunSetReady ==
    /\ CallbackRun
    /\ Head(hand).act = "ready"
    /\ ~locked
    /\ connectionReady' = TRUE
    /\ UNCHANGED <<locked, pc, entries, backlog, left, failures>>

RunWaker ==
    /\ CallbackRun
    /\ Head(hand).act = "wake"
    /\ entries < MaxEntries
    /\ entries' = entries + 1
    /\ UNCHANGED <<connectionReady, locked, pc, backlog, left, failures>>

Idle == pc = "waiting" /\ entries = 0

Reactor ==
    \/ CopyFds /\ UNCHANGED listenerVars
    \/ /\ Select(Readable, {Socket})
       /\ left' = (left /\ backlog = 0)
       /\ UNCHANGED <<taskVars, backlog, failures>>
    \/ ListFdsInUse /\ UNCHANGED listenerVars
    \/ MoveListenersOut /\ UNCHANGED listenerVars
    \/ ListenersFired /\ UNCHANGED listenerVars
    \/ ReactorStepReturns /\ UNCHANGED listenerVars
    \/ ExecutorStepReturns(Idle) /\ UNCHANGED listenerVars
    \/ RunSetReady
    \/ RunWaker

Next ==
    \/ Reactor
    \/ PollNext
    \/ \E aborted \in BOOLEAN : AcceptFails(aborted)
    \/ Connect
    \/ Leave

Spec == Init /\ [][Next]_vars

(* The main thread loops and the listener's polls go on.  Clients need not *)
(* come, nor leave.                                                        *)
Fairness == WF_vars(Reactor) /\ WF_vars(PollNext)

FairSpec == Spec /\ Fairness
-----------------------------------------------------------------------------
(* Properties.                                                             *)

(* Types; a listener's callbacks do not pile up although its flag callback *)
(* has no key: the first poll adds one to the constructor's, no later one  *)
(* adds to one that is still there.                                        *)
TypeOK ==
    /\ HandlerTypeOK({Listener})
    /\ \A f \in Fd : Len(listeners[f]) <= 3
    /\ connectionReady \in BOOLEAN
    /\ locked \in BOOLEAN
    /\ pc \in Pc
    /\ entries \in 0 .. MaxEntries
    /\ backlog \in 0 .. MaxBacklog
    /\ left \in BOOLEAN
    /\ failures \in 0 .. MaxFailures

InHand(cb) == \E i \in DOMAIN hand : hand[i] = cb

(* The flag goes before the waker: wherever the listener's waker waits to  *)
(* run, the flag is set already or a callback that sets it runs before it, *)
(* so a woken poll finds the flag.                                         *)
FlagBeforeWaker ==
    /\ \A i \in DOMAIN hand :
          hand[i] = Wake => connectionReady \/ \E j \in 1 .. i - 1 : hand[j] = SetReady
    /\ \A i \in DOMAIN listeners[Socket] :
          listeners[Socket][i] = Wake =>
              \/ connectionReady
              \/ InHand(SetReady)
              \/ \E j \in 1 .. i - 1 : listeners[Socket][j] = SetReady

(* As long as accept has not failed and the clients do not all leave, a    *)
(* client in the backlog gets the listener to call accept.  Once it        *)
(* failed, the listener has no waker.                                      *)
AcceptedUnlessFailed == backlog > 0 ~> pc = "accept" \/ failures > 0 \/ backlog = 0

(* The socket is in blocking mode, so an accept without a client blocks    *)
(* the thread that polls - the whole server, when it has no workers.  That *)
(* happens only when a client left the backlog after the select that saw   *)
(* it.                                                                     *)
BlocksOnlyForLeaver == pc = "accept" => backlog > 0 \/ left
=============================================================================
