-------------------------- MODULE TimeoutEventHandler --------------------------
(***************************************************************************)
(* The timers of the main thread (ioruntime/TimeoutEventHandler.cpp): a    *)
(* multimap from a tick to a callback, and a reactor_step that moves the   *)
(* due callbacks out, runs them without the lock, and then erases what it  *)
(* used.  Timers are registered and disconnected by the polls of           *)
(* TimeoutFuture in between.                                               *)
(*                                                                         *)
(* Time is relative: an entry holds what is left until its tick.  A time   *)
(* in the past is -1, however long ago, and the clock moves at most once   *)
(* while the handler holds a reading it has not used (a bound of Pass).    *)
(*                                                                         *)
(* The module has no behaviour of its own: Connection owns the timers.     *)
(***************************************************************************)
EXTENDS Integers, Sequences, FiniteSets

CONSTANTS
    Period,         \* _inactivity_timeout
    Pooled          \* do polls run beside the reactor, on workers?

ASSUME TimeoutAssumption ==
    /\ Period \in Nat \ {0}
    /\ Pooled \in BOOLEAN

VARIABLES
    clocks,         \* the multimap, in the order of its ticks
    rpc,            \* where the main thread is
    lag,            \* how old present_time is
    callbacks       \* the functors moved out by this reactor_step

timerVars == <<clocks, rpc, lag, callbacks>>

Left == -1 .. Period

(* An entry names the flag its functor sets: that of its owner's current   *)
(* TimeoutFuture ("mine"), of one under construction ("fresh") or of one   *)
(* that is gone ("old"); and the state of its connection: held by its      *)
(* owner, about to be, or disconnected.                                    *)
Flag == {"mine", "fresh", "old"}
Handle == {"held", "fresh", "dead"}

CallbackInfo(Owner) ==
    [left : Left, owner : Owner, wakes : BOOLEAN, flag : Flag, handle : Handle,
     used : BOOLEAN]

FunctorOf(Owner) ==
    [act : {"ready", "wake"}, wakes : BOOLEAN, owner : Owner, flag : Flag]

TimersInit ==
    /\ clocks = <<>>
    /\ rpc = "clock"
    /\ lag = 0
    /\ callbacks = <<>>

Later(left) == IF left > -1 THEN left - 1 ELSE -1

(* One unit of time passes; those who keep a tick of their own move on too.*)
Pass ==
    /\ rpc = "collect" => lag = 0
    /\ lag' = IF rpc = "collect" THEN lag + 1 ELSE lag
    /\ clocks' = [i \in DOMAIN clocks |-> [clocks[i] EXCEPT !.left = Later(@)]]
    /\ UNCHANGED <<rpc, callbacks>>
-----------------------------------------------------------------------------
(* Mutant: the table is not kept in the order of its ticks.                *)
MutRegisterTimeout(entry) == clocks' = <<entry>> \o clocks

(* register_timeout_real: behind the entries of the same tick.             *)
RegisterTimeout(entry) ==
    \E n \in 0 .. Len(clocks) :
        /\ \A i \in 1 .. n : clocks[i].left <= entry.left
        /\ \A i \in n + 1 .. Len(clocks) : clocks[i].left > entry.left
        /\ clocks' = SubSeq(clocks, 1, n) \o <<entry>> \o SubSeq(clocks, n + 1, Len(clocks))

(* ~TimeoutEventConnection of the owner's connection.                      *)
Disconnect(owner) ==
    [i \in DOMAIN clocks |->
        IF clocks[i].owner = owner /\ clocks[i].handle = "held"
        THEN [clocks[i] EXCEPT !.handle = "dead"]
        ELSE clocks[i]]

(* The owner's connection becomes the one it registered last.              *)
Reconnect(owner) ==
    [i \in DOMAIN clocks |->
        IF clocks[i].owner # owner THEN clocks[i]
        ELSE [clocks[i] EXCEPT !.handle = IF @ = "fresh" THEN "held" ELSE "dead"]]

(* The owner's TimeoutFuture gives way to the one under construction, or   *)
(* to none: what pointed to its flag points to nobody's.                   *)
Renewed(flag) == IF flag = "fresh" THEN "mine" ELSE "old"

RenewFlags(seq, owner) ==
    [i \in DOMAIN seq |->
        IF seq[i].owner = owner THEN [seq[i] EXCEPT !.flag = Renewed(@)] ELSE seq[i]]
-----------------------------------------------------------------------------
(* reactor_step.                                                           *)

ReadClock ==
    /\ rpc = "clock"
    /\ rpc' = "collect"
    /\ lag' = 0
    /\ UNCHANGED <<clocks, callbacks>>

Due(entry) == entry.left + lag <= 0

(* The k-th of a set of positions, and the entries at them, in order.      *)
Nth(S, k) == CHOOSE i \in S : Cardinality({j \in S : j <= i}) = k

EntriesAt(S) == [k \in 1 .. Cardinality(S) |-> clocks[Nth(S, k)]]

Functor(entry) ==
    [act |-> "ready", wakes |-> entry.wakes, owner |-> entry.owner, flag |-> entry.flag]

(* The due functors are moved out and their entries marked, connected or   *)
(* not; of the others, the disconnected ones are erased.                   *)
CollectDue ==
    /\ rpc = "collect"
    /\ LET due == EntriesAt({i \in DOMAIN clocks : Due(clocks[i])})
           kept == EntriesAt({i \in DOMAIN clocks : Due(clocks[i]) \/ clocks[i].handle # "dead"})
       IN  /\ callbacks' = [k \in DOMAIN due |-> Functor(due[k])]
           /\ clocks' = [k \in DOMAIN kept |-> [kept[k] EXCEPT !.used = Due(kept[k])]]
    /\ lag' = 0
    /\ rpc' = "fire"

(* The next functor sets its flag; one with a waker then runs it.  What    *)
(* either does to its owner is conjoined.                                  *)
CallbackRun(act) ==
    /\ rpc = "fire"
    /\ callbacks # <<>>
    /\ Head(callbacks).act = act
    /\ callbacks' = IF act = "ready" /\ Head(callbacks).wakes
                    THEN <<[Head(callbacks) EXCEPT !.act = "wake"]>> \o Tail(callbacks)
                    ELSE Tail(callbacks)
    /\ UNCHANGED <<clocks, rpc, lag>>

(* Mutant: everything that is due is erased, used or not.                  *)
MutSweepUsed ==
    /\ rpc = "fire"
    /\ callbacks = <<>>
    /\ clocks' = EntriesAt({i \in DOMAIN clocks : clocks[i].left > 0})
    /\ rpc' = "executor"
    /\ UNCHANGED <<lag, callbacks>>

(* All have run, and the used entries are erased.  An entry registered     *)
(* since stays, even if it is due.                                         *)
SweepUsed ==
    /\ rpc = "fire"
    /\ callbacks = <<>>
    /\ clocks' = EntriesAt({i \in DOMAIN clocks : ~clocks[i].used})
    /\ rpc' = "executor"
    /\ UNCHANGED <<lag, callbacks>>

(* executor->step() with workers only looks at the count; without, it      *)
(* polls until nothing is queued.                                          *)
ExecutorStepReturns(idle) ==
    /\ rpc = "executor"
    /\ Pooled \/ idle
    /\ rpc' = "clock"
    /\ UNCHANGED <<clocks, lag, callbacks>>
-----------------------------------------------------------------------------
TimersTypeOK(Owner) ==
    /\ clocks \in Seq(CallbackInfo(Owner))
    /\ \A i, j \in DOMAIN clocks : i < j => clocks[i].left <= clocks[j].left
    /\ rpc \in {"clock", "collect", "fire", "executor"}
    /\ lag \in 0 .. 1
    /\ callbacks \in Seq(FunctorOf(Owner))
=============================================================================
