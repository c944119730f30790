------------------------------ MODULE Connection ------------------------------
(***************************************************************************)
(* A client's connection: Server::ConnectionFuture (http/Server.cpp) and   *)
(* the TimeoutFuture it owns (ioruntime/TimeoutFuture.cpp), polled by the  *)
(* executor while the reactor fires timers and wakers.                     *)
(*                                                                         *)
(* The parser, the response future and the copier are abstracted to what   *)
(* their polls return: pending, with their waker registered with a         *)
(* descriptor, ready, or an exception.  The executor is abstracted to the  *)
(* number of queue entries of each task, as in FileDescriptor.             *)
(***************************************************************************)
EXTENDS TimeoutEventHandler

CONSTANTS
    Conn,           \* the connections
    MaxBytes,       \* bound: how often a response makes progress
    MaxClocks,      \* bound: descriptors fire and timers are made below this many
    MaxEntries      \* bound: queue entries of a task beyond it are merged

ASSUME ConnectionAssumption ==
    /\ MaxBytes \in Nat \ {0}
    /\ MaxClocks \in Nat \ {0}
    /\ MaxEntries \in Nat \ {0}

VARIABLES
    state,          \* _state
    pc,             \* where the connection's task is
    after,          \* where it goes on after renewing its timer
    nested,         \* is PollResponse polled inside the try block of Listen?
    recovering,     \* _is_recovering
    bytes,          \* bytes the current copier has written
    answered,       \* responses of which the client got bytes
    left,           \* _tick of the connection's TimeoutFuture
    freshLeft,      \* _tick of the one under construction
    timedOut,       \* _timed_out of the first
    freshOut,       \* _timed_out of the second
    io,             \* descriptors that hold the task's waker
    entries         \* queue entries of the task

answerVars == <<bytes, answered>>
flagVars == <<left, freshLeft, timedOut, freshOut>>
connVars == <<state, pc, after, nested, recovering, answerVars, flagVars, io,
              entries>>
vars == <<timerVars, connVars>>

Io == {"read", "upstream", "write"}

State == {"Listen", "PollResponse", "Respond"}

Pc == {"none", "waiting", "poll", "catch", "timer", "connect", "expired",
       "renew", "replace", "drop", "over"}

(* With workers, a poll registers a timer only below the bound: otherwise  *)
(* the reactor's next turn, which erases what is over, comes first.        *)
Room == Pooled => Len(clocks) < MaxClocks

Goto(c, label) == pc' = [pc EXCEPT ![c] = label]

(* A task runs on a worker at any time, or on the main thread inside       *)
(* executor->step(), one task after the other.                             *)
Runs(c) ==
    Pooled \/ (rpc = "executor"
                /\ \A d \in Conn \ {c} : pc[d] \in {"none", "waiting", "over"})

Idle ==
    \A c \in Conn : pc[c] \in {"none", "over"} \/ (pc[c] = "waiting" /\ entries[c] = 0)

Polls(c, s) == Runs(c) /\ pc[c] = "poll" /\ state[c] = s

Init ==
    /\ TimersInit
    /\ state = [c \in Conn |-> "Listen"]
    /\ pc = [c \in Conn |-> "none"]
    /\ after = [c \in Conn |-> "waiting"]
    /\ nested = [c \in Conn |-> FALSE]
    /\ recovering = [c \in Conn |-> FALSE]
    /\ bytes = [c \in Conn |-> 0]
    /\ answered = [c \in Conn |-> 0]
    /\ left = [c \in Conn |-> Period]
    /\ freshLeft = [c \in Conn |-> Period]
    /\ timedOut = [c \in Conn |-> FALSE]
    /\ freshOut = [c \in Conn |-> FALSE]
    /\ io = [c \in Conn |-> {}]
    /\ entries = [c \in Conn |-> 0]

Tick ==
    /\ Pass
    /\ left' = [c \in Conn |-> IF pc[c] \in {"none", "over"} THEN left[c] ELSE Later(left[c])]
    /\ freshLeft' = [c \in Conn |-> IF pc[c] = "replace" THEN Later(freshLeft[c]) ELSE freshLeft[c]]
    /\ UNCHANGED <<state, pc, after, nested, recovering, answerVars, timedOut,
                   freshOut, io, entries>>

(* A client is accepted: the future starts its timer and is spawned.       *)
Connect(c) ==
    /\ Runs(c)
    /\ pc[c] = "none"
    /\ RegisterTimeout([left |-> Period, owner |-> c, wakes |-> FALSE,
                        flag |-> "mine", handle |-> "held", used |-> FALSE])
    /\ left' = [left EXCEPT ![c] = Period]
    /\ entries' = [entries EXCEPT ![c] = 1]
    /\ Goto(c, "waiting")
    /\ UNCHANGED <<rpc, lag, callbacks, state, after, nested, recovering,
                   answerVars, freshLeft, timedOut, freshOut, io>>

StartPoll(c) ==
    /\ Runs(c)
    /\ pc[c] = "waiting"
    /\ entries[c] > 0
    /\ entries' = [entries EXCEPT ![c] = @ - 1]
    /\ Goto(c, "poll")
    /\ UNCHANGED <<timerVars, state, after, nested, recovering, answerVars,
                   flagVars, io>>

(* The frame of a step that only moves the task and arms descriptor ios.   *)
Wait(c, label, ios) ==
    /\ io' = [io EXCEPT ![c] = @ \cup ios]
    /\ Goto(c, label)
    /\ UNCHANGED <<timerVars, after, recovering, flagVars, entries>>
-----------------------------------------------------------------------------
(* TimeoutFuture: its constructor, its move into _timeout, its poll.       *)

(* The new timer is registered with a functor that sets its flag, and is   *)
(* not woken by it.                                                        *)
Renew(c) ==
    /\ Runs(c)
    /\ pc[c] = "renew"
    /\ Room
    /\ RegisterTimeout([left |-> Period, owner |-> c, wakes |-> FALSE,
                        flag |-> "fresh", handle |-> "fresh", used |-> FALSE])
    /\ freshLeft' = [freshLeft EXCEPT ![c] = Period]
    /\ Goto(c, "replace")
    /\ UNCHANGED <<rpc, lag, callbacks, state, after, nested, recovering,
                   answerVars, left, timedOut, freshOut, io, entries>>

(* Mutant: the new timer is given the flag of the old one.                 *)
MutReplace(c) ==
    /\ Runs(c)
    /\ pc[c] = "replace"
    /\ clocks' = [i \in DOMAIN Reconnect(c) |->
                    IF clocks[i].owner = c /\ clocks[i].flag = "fresh"
                    THEN [Reconnect(c)[i] EXCEPT !.flag = "mine"] ELSE Reconnect(c)[i]]
    /\ left' = [left EXCEPT ![c] = freshLeft[c]]
    /\ freshLeft' = [freshLeft EXCEPT ![c] = Period]
    /\ after' = [after EXCEPT ![c] = "waiting"]
    /\ Goto(c, after[c])
    /\ UNCHANGED <<rpc, lag, callbacks, state, nested, recovering, answerVars,
                   timedOut, freshOut, io, entries>>

(* _timeout = TimeoutFuture(...): the old timer is disconnected, its flag  *)
(* is read by nobody any more.                                             *)
Replace(c) ==
    /\ Runs(c)
    /\ pc[c] = "replace"
    /\ clocks' = RenewFlags(Reconnect(c), c)
    /\ callbacks' = RenewFlags(callbacks, c)
    /\ left' = [left EXCEPT ![c] = freshLeft[c]]
    /\ timedOut' = [timedOut EXCEPT ![c] = freshOut[c]]
    /\ freshLeft' = [freshLeft EXCEPT ![c] = Period]
    /\ freshOut' = [freshOut EXCEPT ![c] = FALSE]
    /\ after' = [after EXCEPT ![c] = "waiting"]
    /\ Goto(c, after[c])
    /\ UNCHANGED <<rpc, lag, state, nested, recovering, answerVars, io, entries>>

(* Mutant: the poll registers the flag only, as the constructor does.      *)
MutTimerRegister(c) ==
    /\ Runs(c)
    /\ pc[c] = "timer"
    /\ Room
    /\ RegisterTimeout([left |-> left[c], owner |-> c, wakes |-> FALSE,
                        flag |-> "mine", handle |-> "fresh", used |-> FALSE])
    /\ Goto(c, "connect")
    /\ UNCHANGED <<rpc, lag, callbacks, state, after, nested, recovering,
                   answerVars, flagVars, io, entries>>

(* A poll registers the flag and the waker, for the same tick ...          *)
TimerRegister(c) ==
    /\ Runs(c)
    /\ pc[c] = "timer"
    /\ Room
    /\ RegisterTimeout([left |-> left[c], owner |-> c, wakes |-> TRUE,
                        flag |-> "mine", handle |-> "fresh", used |-> FALSE])
    /\ Goto(c, "connect")
    /\ UNCHANGED <<rpc, lag, callbacks, state, after, nested, recovering,
                   answerVars, flagVars, io, entries>>

(* ... in place of what was registered before, ...                         *)
TimerConnect(c) ==
    /\ Runs(c)
    /\ pc[c] = "connect"
    /\ clocks' = Reconnect(c)
    /\ Goto(c, "expired")
    /\ UNCHANGED <<rpc, lag, callbacks, state, after, nested, recovering,
                   answerVars, flagVars, io, entries>>

(* ... and then looks at the flag.  Pending, Listen renews its timer.      *)
TimerRead(c) ==
    /\ Runs(c)
    /\ pc[c] = "expired"
    /\ Goto(c, IF timedOut[c] THEN "catch"
               ELSE IF state[c] = "Listen" THEN "renew" ELSE "waiting")
    /\ UNCHANGED <<timerVars, state, after, nested, recovering, answerVars,
                   flagVars, io, entries>>

Timer(c) == Renew(c) \/ Replace(c) \/ TimerRegister(c) \/ TimerConnect(c) \/ TimerRead(c)
-----------------------------------------------------------------------------
(* ConnectionFuture::poll.                                                 *)

ParserPending(c) ==
    /\ Polls(c, "Listen")
    /\ Wait(c, "timer", {"read"})
    /\ UNCHANGED <<state, nested, answerVars>>

(* The request handler returns the future of a response, which is polled   *)
(* at once, inside the try block.                                          *)
ParserReady(c) ==
    /\ Polls(c, "Listen")
    /\ state' = [state EXCEPT ![c] = "PollResponse"]
    /\ nested' = [nested EXCEPT ![c] = TRUE]
    /\ Wait(c, "poll", {})
    /\ UNCHANGED answerVars

ResponsePending(c) ==
    /\ Polls(c, "PollResponse")
    /\ nested' = [nested EXCEPT ![c] = FALSE]
    /\ Wait(c, "waiting", {"upstream"})
    /\ UNCHANGED <<state, answerVars>>

(* switch_to_respond_mode: a new copier and a new timer.                   *)
SwitchToRespond(c) ==
    /\ state' = [state EXCEPT ![c] = "Respond"]
    /\ bytes' = [bytes EXCEPT ![c] = 0]
    /\ after' = [after EXCEPT ![c] = "poll"]
    /\ nested' = [nested EXCEPT ![c] = FALSE]
    /\ Goto(c, "renew")
    /\ UNCHANGED <<timerVars, answered, flagVars, io, entries>>

ResponseReady(c) ==
    /\ Polls(c, "PollResponse")
    /\ SwitchToRespond(c)
    /\ UNCHANGED recovering

(* The copier has written n more bytes to the client.                      *)
Write(c, n) ==
    /\ bytes[c] + n <= MaxBytes
    /\ bytes' = [bytes EXCEPT ![c] = @ + n]
    /\ answered' = [answered EXCEPT ![c] = IF bytes[c] = 0 /\ n > 0 THEN @ + 1 ELSE @]

(* Progress renews the timer before it is polled.                          *)
CopyPending(c, n) ==
    /\ Polls(c, "Respond")
    /\ Write(c, n)
    /\ after' = [after EXCEPT ![c] = IF n > 0 THEN "timer" ELSE @]
    /\ io' = [io EXCEPT ![c] = @ \cup {"write"}]
    /\ Goto(c, IF n > 0 THEN "renew" ELSE "timer")
    /\ UNCHANGED <<timerVars, state, nested, recovering, flagVars, entries>>

CopyReady(c, n) ==
    /\ Polls(c, "Respond")
    /\ bytes[c] + n > 0
    /\ Write(c, n)
    /\ Wait(c, "drop", {})
    /\ UNCHANGED <<state, nested>>

(* The parser, the handler or the response future throws inside the try    *)
(* block of Listen, or the copier inside that of Respond.                  *)
Throw(c, n) ==
    /\ Runs(c)
    /\ pc[c] = "poll"
    /\ state[c] = "PollResponse" => nested[c]
    /\ IF state[c] = "Respond" THEN Write(c, n) ELSE n = 0 /\ UNCHANGED answerVars
    /\ Wait(c, "catch", {})
    /\ UNCHANGED <<state, nested>>

(* A response future that throws in a later poll is caught by nobody: the  *)
(* exception reaches the executor, which drops the future.                 *)
ThrowUncaught(c) ==
    /\ Polls(c, "PollResponse")
    /\ ~nested[c]
    /\ Goto(c, "drop")
    /\ UNCHANGED <<timerVars, state, after, nested, recovering, answerVars,
                   flagVars, io, entries>>

(* Mutant: a response is replaced even if part of it was written.          *)
MutReplaceable(c) == ~recovering[c]

(* Respond can back out once, and only of a response nobody has seen.      *)
Replaceable(c) == ~recovering[c] /\ bytes[c] = 0

(* The catch clauses answer with an error page.                            *)
CatchListen(c) ==
    /\ Runs(c)
    /\ pc[c] = "catch"
    /\ state[c] # "Respond"
    /\ SwitchToRespond(c)
    /\ UNCHANGED recovering

CatchRespond(c) ==
    /\ Runs(c)
    /\ pc[c] = "catch"
    /\ state[c] = "Respond"
    /\ Replaceable(c)
    /\ recovering' = [recovering EXCEPT ![c] = TRUE]
    /\ SwitchToRespond(c)

(* The response cannot be replaced, or the error page handler throws.      *)
GiveUp(c) ==
    /\ Runs(c)
    /\ pc[c] = "catch"
    /\ Wait(c, "drop", {})
    /\ UNCHANGED <<state, nested, answerVars>>

(* The future is destroyed, and its timer and descriptors with it.         *)
Drop(c) ==
    /\ Runs(c)
    /\ pc[c] = "drop"
    /\ clocks' = RenewFlags(Disconnect(c), c)
    /\ callbacks' = RenewFlags(callbacks, c)
    /\ io' = [io EXCEPT ![c] = {}]
    /\ entries' = [entries EXCEPT ![c] = 0]
    /\ bytes' = [bytes EXCEPT ![c] = 0]
    /\ left' = [left EXCEPT ![c] = Period]
    /\ timedOut' = [timedOut EXCEPT ![c] = FALSE]
    /\ Goto(c, "over")
    /\ UNCHANGED <<rpc, lag, state, after, nested, recovering, answered,
                   freshLeft, freshOut>>

Future(c) ==
    \/ ParserPending(c) \/ ParserReady(c)
    \/ ResponsePending(c) \/ ResponseReady(c) \/ ThrowUncaught(c)
    \/ \E n \in 0 .. 1 : CopyPending(c, n) \/ CopyReady(c, n) \/ Throw(c, n)
    \/ CatchListen(c) \/ CatchRespond(c) \/ GiveUp(c)
    \/ Drop(c)

Poll(c) == StartPoll(c) \/ Timer(c) \/ Future(c)
-----------------------------------------------------------------------------
(* The main thread.                                                        *)

Woken(c) == IF entries[c] < MaxEntries THEN entries[c] + 1 ELSE MaxEntries

(* The select reactor runs the waker a descriptor holds; it is done before *)
(* the timers have their turn.                                             *)
FireDescriptor(c, i) ==
    /\ rpc = "clock"
    /\ i \in io[c]
    /\ Len(clocks) < MaxClocks
    /\ io' = [io EXCEPT ![c] = @ \ {i}]
    /\ entries' = [entries EXCEPT ![c] = Woken(c)]
    /\ UNCHANGED <<timerVars, state, pc, after, nested, recovering, answerVars,
                   flagVars>>

RunSetReady ==
    /\ CallbackRun("ready")
    /\ LET functor == Head(callbacks)
           c == functor.owner
       IN  /\ timedOut' = [timedOut EXCEPT ![c] = @ \/ functor.flag = "mine"]
           /\ freshOut' = [freshOut EXCEPT ![c] = @ \/ functor.flag = "fresh"]
    /\ UNCHANGED <<state, pc, after, nested, recovering, answerVars, left,
                   freshLeft, io, entries>>

RunWaker ==
    /\ CallbackRun("wake")
    /\ LET c == Head(callbacks).owner
       IN  entries' = [entries EXCEPT ![c] = IF pc[c] = "over" THEN 0 ELSE Woken(c)]
    /\ UNCHANGED <<state, pc, after, nested, recovering, answerVars, flagVars,
                   io>>

Reactor ==
    \/ ReadClock /\ UNCHANGED connVars
    \/ CollectDue /\ UNCHANGED connVars
    \/ SweepUsed /\ UNCHANGED connVars
    \/ ExecutorStepReturns(Idle) /\ UNCHANGED connVars
    \/ RunSetReady
    \/ RunWaker

Next ==
    \/ Reactor
    \/ Tick
    \/ \E c \in Conn :
        \/ Poll(c)
        \/ Connect(c)
        \/ \E i \in Io : FireDescriptor(c, i)

Spec == Init /\ [][Next]_vars

(* The main thread loops, time passes, and a task with a queue entry is    *)
(* polled and its poll goes on.  No descriptor has to become ready.        *)
Fairness == WF_vars(Reactor) /\ WF_vars(Tick) /\ \A c \in Conn : WF_vars(Poll(c))

FairSpec == Spec /\ Fairness
-----------------------------------------------------------------------------
(* Properties.                                                             *)

TypeOK ==
    /\ TimersTypeOK(Conn)
    /\ state \in [Conn -> State]
    /\ pc \in [Conn -> Pc]
    /\ after \in [Conn -> {"waiting", "poll", "timer"}]
    /\ nested \in [Conn -> BOOLEAN]
    /\ recovering \in [Conn -> BOOLEAN]
    /\ bytes \in [Conn -> 0 .. MaxBytes]
    /\ answered \in [Conn -> Nat]
    /\ left \in [Conn -> Left]
    /\ freshLeft \in [Conn -> Left]
    /\ timedOut \in [Conn -> BOOLEAN]
    /\ freshOut \in [Conn -> BOOLEAN]
    /\ io \in [Conn -> SUBSET Io]
    /\ entries \in [Conn -> 0 .. MaxEntries]

(* A response that waits for the client is wakeable by its timer: the      *)
(* waker is in the table, connected and unused, or about to run.           *)
TimerWakes ==
    \A c \in Conn :
        (pc[c] = "waiting" /\ state[c] = "Respond" /\ entries[c] = 0) =>
            \/ \E i \in DOMAIN clocks :
                /\ clocks[i].owner = c /\ clocks[i].wakes
                /\ clocks[i].handle = "held" /\ ~clocks[i].used
            \/ \E i \in DOMAIN callbacks :
                callbacks[i].owner = c /\ callbacks[i].wakes

(* A renewed timer starts from nothing: whatever the reactor still holds   *)
(* of the timers before it, the flag is only set once this timer's own     *)
(* tick has come.                                                          *)
NotBeforeTime == \A c \in Conn : timedOut[c] => left[c] <= 0

(* The client gets the bytes of one response at most: an error page never  *)
(* follows a response that was begun.                                      *)
OneResponse == \A c \in Conn : answered[c] <= 1

(* A response ends, written, replaced by an error page or cut off, even if *)
(* the client takes nothing any more.                                      *)
RespondEnds == \A c \in Conn : (state[c] = "Respond") ~> (pc[c] = "over")

(* A client that sends nothing is answered, or its connection closed.      *)
SilentIsTimedOut ==
    \A c \in Conn :
        (pc[c] = "waiting" /\ state[c] = "Listen") ~> (state[c] # "Listen" \/ pc[c] = "over")
=============================================================================
