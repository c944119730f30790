---------------------------- MODULE IoEventHandler ----------------------------
(***************************************************************************)
(* One direction of the select() reactor (ioruntime/IoEventHandler.cpp):   *)
(* the descriptor set, the table of callbacks and the table of descriptors *)
(* in use, each under its own mutex, and the main thread's reactor_step.   *)
(* The read, write and special directions are three copies of this.        *)
(*                                                                         *)
(* This module has no behaviour of its own: FileDescriptor and TcpListener *)
(* extend it with the objects that register callbacks and say what running *)
(* a callback does.                                                        *)
(***************************************************************************)
EXTENDS Integers, Sequences

CONSTANTS
    Fd,             \* descriptor numbers
    Pooled          \* TRUE: polls run on workers; FALSE: on the main thread

ASSUME FdAssumption == Fd \subseteq Nat /\ Pooled \in BOOLEAN

VARIABLES
    fds,            \* read_fds: the descriptors handed to select
    inUse,          \* read_fd_in_use
    listeners,      \* read_listeners: per descriptor, in insertion order
    rpc,            \* where the main thread is in its loop
    selected,       \* the fd_set copy select works on
    visit,          \* the copy of inUse still to be visited
    hand            \* callbacks moved out of the table and not yet run

handlerVars == <<fds, inUse, listeners, rpc, selected, visit, hand>>

ReactorPc == {"copy", "select", "list", "fire", "run", "executor"}

(* A callback: what it does, and its "unique" key (0 for none).  Every     *)
(* callback of the read direction is registered with once = true.          *)
Callback(act, owner, unique) == [act |-> act, owner |-> owner, unique |-> unique]

HandlerInit ==
    /\ fds = {}
    /\ inUse = {}
    /\ listeners = [f \in Fd |-> <<>>]
    /\ rpc = "copy"
    /\ selected = {}
    /\ visit = {}
    /\ hand = <<>>
-----------------------------------------------------------------------------
(* Registering and unregistering, one operator per critical section.       *)

UseFd(f) == inUse' = inUse \cup {f}

WatchFd(f) == fds' = fds \cup {f}

(* Mutant: the key is ignored, and callbacks pile up.                      *)
MutInsertCallback(ls, cb) == Append(ls, cb)

(* A callback whose key is taken replaces the function of the entry that   *)
(* has the key, which keeps its place in the order.                        *)
InsertCallback(ls, cb) ==
    LET same == {i \in DOMAIN ls : cb.unique # 0 /\ ls[i].unique = cb.unique}
    IN  IF same = {} THEN Append(ls, cb)
        ELSE LET first == CHOOSE i \in same : \A j \in same : i <= j
             IN  [ls EXCEPT ![first] = cb]

AddListener(f, cb) == listeners' = [listeners EXCEPT ![f] = InsertCallback(@, cb)]

UnwatchFd(f) == fds' = fds \ {f}

EraseListeners(f) == listeners' = [listeners EXCEPT ![f] = <<>>]

UnuseFd(f) == inUse' = inUse \ {f}
-----------------------------------------------------------------------------
(* reactor_step.                                                           *)

CopyFds ==
    /\ rpc = "copy"
    /\ selected' = fds
    /\ rpc' = "select"
    /\ UNCHANGED <<fds, inUse, listeners, visit, hand>>

(* select returns the readable ones of the copied set, an empty set when   *)
(* its 4 seconds are over, or an error when the set names a closed         *)
(* descriptor.  Nothing is fired in the last two cases.                    *)
Select(readable, open) ==
    /\ rpc = "select"
    /\ \/ /\ selected \subseteq open
          /\ selected \cap readable # {}
          /\ selected' = selected \cap readable
          /\ rpc' = "list"
       \/ /\ ~(selected \subseteq open) \/ selected \cap readable = {}
          /\ selected' = {}
          /\ rpc' = "executor"
    /\ UNCHANGED <<fds, inUse, listeners, visit, hand>>

(* safe_fire_listeners copies the table of descriptors in use.             *)
ListFdsInUse ==
    /\ rpc = "list"
    /\ visit' = inUse
    /\ rpc' = "fire"
    /\ UNCHANGED <<fds, inUse, listeners, selected, hand>>

(* fire_listeners_for moves a selected descriptor's callbacks out of the   *)
(* table, in order; a descriptor that was not selected is skipped.         *)
NextVisit == CHOOSE f \in visit : \A g \in visit : f <= g

MoveListenersOut ==
    /\ rpc = "fire"
    /\ visit # {}
    /\ visit' = visit \ {NextVisit}
    /\ IF NextVisit \in selected
       THEN /\ hand' = listeners[NextVisit]
            /\ listeners' = [listeners EXCEPT ![NextVisit] = <<>>]
            /\ rpc' = "run"
       ELSE UNCHANGED <<hand, listeners, rpc>>
    /\ UNCHANGED <<fds, inUse, selected>>

(* The first of the moved-out callbacks has been run.                      *)
CallbackRun ==
    /\ rpc = "run"
    /\ hand # <<>>
    /\ hand' = Tail(hand)
    /\ UNCHANGED <<fds, inUse, listeners, rpc, selected, visit>>

ListenersFired ==
    /\ rpc = "run"
    /\ hand = <<>>
    /\ rpc' = "fire"
    /\ UNCHANGED <<fds, inUse, listeners, selected, visit, hand>>

ReactorStepReturns ==
    /\ rpc = "fire"
    /\ visit = {}
    /\ selected' = {}
    /\ rpc' = "executor"
    /\ UNCHANGED <<fds, inUse, listeners, visit, hand>>

(* executor->step(): with workers it only reads a counter; without, it     *)
(* returns when its queue is empty (idle).                                 *)
ExecutorStepReturns(idle) ==
    /\ rpc = "executor"
    /\ Pooled \/ idle
    /\ rpc' = "copy"
    /\ UNCHANGED <<fds, inUse, listeners, selected, visit, hand>>

HandlerTypeOK(Owner) ==
    /\ fds \subseteq Fd
    /\ inUse \subseteq Fd
    /\ listeners \in [Fd -> Seq([act : {"ready", "wake"}, owner : Owner, unique : Nat])]
    /\ rpc \in ReactorPc
    /\ selected \subseteq Fd
    /\ visit \subseteq Fd
    /\ hand \in Seq([act : {"ready", "wake"}, owner : Owner, unique : Nat])
=============================================================================
