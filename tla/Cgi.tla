---------------------------------- MODULE Cgi ----------------------------------
(***************************************************************************)
(* CGI scripts: the class Cgi (cgi/Cgi.cpp) with its three pipes, its      *)
(* child process, and the readers that answer a request with what the      *)
(* script writes (ResponseReader and CgiReader, http/OutgoingResponse.cpp).*)
(*                                                                         *)
(* Each connection runs one script.  A body and an output are numbers of   *)
(* units, a pipe holds a few of them.  The client of every connection can  *)
(* be written to, so that the copier around the reader, which writes what  *)
(* it has, even nothing, has its task woken by every select that succeeds. *)
(*                                                                         *)
(* There are no workers: tasks run on the main thread, in its turn at the  *)
(* executor, and only the scripts run beside it.                           *)
(***************************************************************************)
EXTENDS ChildProcessHandler, FiniteSets

CONSTANTS
    Conn,           \* the connections
    NoPid,          \* the value of pid before a fork
    HasBody,        \* the connections whose request has a body, be it empty
    Body,           \* the units of each request's body
    MaxOut,         \* bound: units each script writes
    Capacity        \* bound: units a pipe holds

Callback == [act : {"ready", "wake"}, conn : Conn]

ASSUME CgiAssumption ==
    /\ NoPid \notin Pid
    /\ NoHandler \notin Callback
    /\ Body \in [Conn -> Nat]
    /\ \A c \in Conn \ HasBody : Body[c] = 0
    /\ MaxOut \in [Conn -> Nat]
    /\ Capacity \in Nat \ {0}

VARIABLES
    task,           \* where the connection's response is
    woken,          \* is the task in the executor's queue?
    pid,            \* pid
    processRan,     \* *process_ran
    childInput,     \* does child_input still have its descriptor?
    errorReady,     \* ready_to_read of child_error_ipc
    outputReady,    \* ready_to_read of child_output
    inputReady,     \* ready_to_write of child_input
    bodyLeft,       \* units of the body the server has not written
    received,       \* units of the output the server has read
    script,         \* the child process
    holders,        \* children with a copy of child_input's descriptor
    inPipe,         \* units in the pipe to the script
    outPipe,        \* units in the pipe from it
    errPipe,        \* was the "F" of a failed start put into the third pipe?
    written,        \* units the script has written
    crashed         \* scripts that were killed by a signal

flagVars == <<errorReady, outputReady, inputReady>>
serverVars == <<task, woken, pid, processRan, childInput, flagVars, bodyLeft,
                received>>
scriptVars == <<script, holders, inPipe, outPipe, errPipe, written, crashed>>
vars == <<handlerVars, serverVars, scriptVars>>

(* "whole", "error", "cut" and "dropped" are the ends of a response: all   *)
(* of the output, an error page, an exception after that was no longer     *)
(* possible, and a client that went away.                                  *)
Over == {"whole", "error", "cut", "dropped"}
Task == {"none", "check", "write", "read"} \cup Over

Ended == {"exited", "failed", "killed"}
Process == {"none", "forked", "failing", "running", "writing", "reaped"} \cup Ended

Alive(c) == script[c] \in {"forked", "failing", "running", "writing"}

Gone(c) == script[c] \in Ended \cup {"reaped"}

(* The numbers of the processes that are there, zombies among them.        *)
PidsInUse == {pid[c] : c \in {d \in Conn : Alive(d) \/ script[d] \in Ended}}

Init ==
    /\ HandlerInit
    /\ task = [c \in Conn |-> "none"]
    /\ woken = [c \in Conn |-> FALSE]
    /\ pid = [c \in Conn |-> NoPid]
    /\ processRan = [c \in Conn |-> FALSE]
    /\ childInput = [c \in Conn |-> FALSE]
    /\ errorReady = [c \in Conn |-> FALSE]
    /\ outputReady = [c \in Conn |-> FALSE]
    /\ inputReady = [c \in Conn |-> FALSE]
    /\ bodyLeft = Body
    /\ received = [c \in Conn |-> 0]
    /\ script = [c \in Conn |-> "none"]
    /\ holders = [c \in Conn |-> {}]
    /\ inPipe = [c \in Conn |-> 0]
    /\ outPipe = [c \in Conn |-> 0]
    /\ errPipe = [c \in Conn |-> FALSE]
    /\ written = [c \in Conn |-> 0]
    /\ crashed = {}

(* A step of c's task, in the executor's turn of the main thread.          *)
Polls(c, place) == mpc = "executor" /\ woken[c] /\ task[c] = place

Goto(c, place, again) ==
    /\ task' = [task EXCEPT ![c] = place]
    /\ woken' = [woken EXCEPT ![c] = again]
-----------------------------------------------------------------------------
(* The server's side.                                                      *)

(* The constructor: the pipes, the fork, the callback for the process.     *)
(* The child has a copy of every descriptor of the server.                 *)
StartScript(c) ==
    /\ mpc = "executor"
    /\ task[c] = "none"
    /\ \E p \in Pid \ PidsInUse :
        /\ pid' = [pid EXCEPT ![c] = p]
        /\ handlers' = Registered(handlers, p, [act |-> "ready", conn |-> c])
    /\ Goto(c, "check", TRUE)
    /\ script' = [script EXCEPT ![c] = "forked"]
    /\ childInput' = [childInput EXCEPT ![c] = TRUE]
    /\ holders' = [d \in Conn |-> IF d = c \/ childInput[d] THEN holders[d] \cup {c}
                                  ELSE holders[d]]
    /\ UNCHANGED <<mpc, pidReady, isReady, running, signalled, processRan,
                   flagVars, bodyLeft, received, inPipe, outPipe, errPipe,
                   written, crashed>>

(* pipe or fork fails: the handler throws a CgiError.                      *)
StartFails(c) ==
    /\ mpc = "executor"
    /\ task[c] = "none"
    /\ Goto(c, "error", FALSE)
    /\ UNCHANGED <<handlerVars, pid, processRan, childInput, flagVars, bodyLeft,
                   received, scriptVars>>

RegisterWaker(c) ==
    /\ handlers' = Registered(handlers, pid[c], [act |-> "wake", conn |-> c])
    /\ UNCHANGED <<mpc, pidReady, isReady, running>>

(* The destructor closes the descriptors, and kills the process that has   *)
(* the number now if the script is not known to have exited.               *)
Killed(c) ==
    IF processRan[c] THEN {}
    ELSE {d \in Conn : Alive(d) /\ pid[d] = pid[c]}

Finish(c, end) ==
    /\ Goto(c, end, FALSE)
    /\ script' = [d \in Conn |-> IF d \in Killed(c) THEN "killed" ELSE script[d]]
    /\ holders' = [d \in Conn |-> holders[d] \ Killed(c)]
    /\ signalled' = (signalled \/ Killed(c) # {})
    /\ childInput' = [childInput EXCEPT ![c] = FALSE]
    /\ errorReady' = [errorReady EXCEPT ![c] = FALSE]
    /\ outputReady' = [outputReady EXCEPT ![c] = FALSE]
    /\ inputReady' = [inputReady EXCEPT ![c] = FALSE]
    /\ UNCHANGED <<pid, processRan, bodyLeft, received, inPipe, outPipe, errPipe,
                   written, crashed>>

(* poll_success: what the third pipe says comes first, then whether the    *)
(* process exited or wrote; else the body is written in the meantime.      *)
StartedWell(c) == ~errorReady[c] => processRan[c] \/ outputReady[c]

SuccessIndicated(c) ==
    /\ Polls(c, "check")
    /\ ~(errorReady[c] /\ errPipe[c])
    /\ StartedWell(c)
    /\ Goto(c, "write", TRUE)
    /\ RegisterWaker(c)
    /\ errorReady' = [errorReady EXCEPT ![c] = FALSE]
    /\ UNCHANGED <<signalled, pid, processRan, childInput, outputReady,
                   inputReady, bodyLeft, received, scriptVars>>

FailureIndicated(c) ==
    /\ Polls(c, "check")
    /\ errorReady[c] /\ errPipe[c]
    /\ RegisterWaker(c)
    /\ Finish(c, "error")

(* Who polls the body: poll_success while it does not know better, and     *)
(* CgiReader before it reads.                                              *)
WritesBody(c) ==
    \/ Polls(c, "check") /\ ~errorReady[c] /\ ~StartedWell(c)
    \/ Polls(c, "write")

AfterBody(c) ==
    IF task[c] = "check"
    THEN Goto(c, "check", FALSE) /\ RegisterWaker(c)
    ELSE Goto(c, "read", TRUE) /\ UNCHANGED <<mpc, pidReady, isReady, handlers, running>>

BodyPending(c) ==
    /\ WritesBody(c)
    /\ c \in HasBody /\ childInput[c]
    /\ ~inputReady[c]
    /\ AfterBody(c)
    /\ UNCHANGED <<signalled, pid, processRan, childInput, flagVars, bodyLeft,
                   received, scriptVars>>

(* Some units fit into the pipe.  After the last one it is closed, unless  *)
(* the copier has not seen the end yet, because its buffer was full.       *)
BodyWritten(c) ==
    /\ WritesBody(c)
    /\ inputReady[c] /\ ~Gone(c)
    /\ \E n \in 1 .. (Capacity - inPipe[c]) :
        /\ n <= bodyLeft[c]
        /\ bodyLeft' = [bodyLeft EXCEPT ![c] = @ - n]
        /\ inPipe' = [inPipe EXCEPT ![c] = @ + n]
        /\ \E open \in BOOLEAN :
            /\ n < bodyLeft[c] => open
            /\ childInput' = [childInput EXCEPT ![c] = open]
    /\ inputReady' = [inputReady EXCEPT ![c] = FALSE]
    /\ AfterBody(c)
    /\ UNCHANGED <<signalled, pid, processRan, errorReady, outputReady, received,
                   script, holders, outPipe, errPipe, written, crashed>>

(* All is written but the end, which is a write of nothing.                *)
EndWritten(c) ==
    /\ WritesBody(c)
    /\ c \in HasBody /\ childInput[c]
    /\ bodyLeft[c] = 0
    /\ inputReady[c]
    /\ childInput' = [childInput EXCEPT ![c] = FALSE]
    /\ inputReady' = [inputReady EXCEPT ![c] = FALSE]
    /\ AfterBody(c)
    /\ UNCHANGED <<signalled, pid, processRan, errorReady, outputReady, bodyLeft,
                   received, scriptVars>>

(* Mutant: the pipe stays open if there is no body.                        *)
MutBodyFinished(c) ==
    /\ WritesBody(c)
    /\ c \in HasBody => ~childInput[c]
    /\ AfterBody(c)
    /\ UNCHANGED <<signalled, pid, processRan, childInput, flagVars, bodyLeft,
                   received, scriptVars>>

(* There is no body, or it was written: the pipe is closed.                *)
BodyFinished(c) ==
    /\ WritesBody(c)
    /\ c \in HasBody => ~childInput[c]
    /\ childInput' = [childInput EXCEPT ![c] = FALSE]
    /\ AfterBody(c)
    /\ UNCHANGED <<signalled, pid, processRan, flagVars, bodyLeft, received,
                   scriptVars>>

(* The script is gone: the write fails, and the copier throws.             *)
BodyBroken(c) ==
    /\ WritesBody(c)
    /\ bodyLeft[c] > 0
    /\ inputReady[c] /\ Gone(c)
    /\ IF task[c] = "check" THEN RegisterWaker(c) /\ Finish(c, "error")
       ELSE UNCHANGED <<mpc, pidReady, isReady, handlers, running>> /\ Finish(c, "cut")

(* Mutant: the descriptor is still taken as ready after it was read.       *)
MutReadData(c) ==
    /\ Polls(c, "read")
    /\ outputReady[c]
    /\ outPipe[c] > 0
    /\ \E n \in 1 .. outPipe[c] :
        /\ outPipe' = [outPipe EXCEPT ![c] = @ - n]
        /\ received' = [received EXCEPT ![c] = @ + n]
    /\ RegisterWaker(c)
    /\ UNCHANGED <<signalled, task, woken, pid, processRan, childInput, flagVars,
                   bodyLeft, script, holders, inPipe, errPipe, written, crashed>>

(* Reading, by poll_read's contract: what is there, nothing yet, the end.  *)
ReadData(c) ==
    /\ Polls(c, "read")
    /\ outputReady[c]
    /\ outPipe[c] > 0
    /\ \E n \in 1 .. outPipe[c] :
        /\ outPipe' = [outPipe EXCEPT ![c] = @ - n]
        /\ received' = [received EXCEPT ![c] = @ + n]
    /\ outputReady' = [outputReady EXCEPT ![c] = FALSE]
    /\ RegisterWaker(c)
    /\ UNCHANGED <<signalled, task, woken, pid, processRan, childInput,
                   errorReady, inputReady, bodyLeft, script, holders, inPipe,
                   errPipe, written, crashed>>

ReadPending(c) ==
    /\ Polls(c, "read")
    /\ ~outputReady[c]
    /\ Goto(c, IF childInput[c] THEN "write" ELSE "read", FALSE)
    /\ RegisterWaker(c)
    /\ UNCHANGED <<signalled, pid, processRan, childInput, flagVars, bodyLeft,
                   received, scriptVars>>

(* Nobody has the other end of the pipe any more: the response is over.    *)
ReadEof(c) ==
    /\ Polls(c, "read")
    /\ outputReady[c]
    /\ outPipe[c] = 0
    /\ RegisterWaker(c)
    /\ Finish(c, "whole")

(* The client closes its connection, or its timer expires.                 *)
Disconnect(c) ==
    /\ mpc = "executor"
    /\ woken[c]
    /\ task[c] \in {"check", "write", "read"}
    /\ Finish(c, "dropped")
    /\ UNCHANGED <<mpc, pidReady, isReady, handlers, running>>

Poll(c) ==
    \/ StartScript(c) \/ StartFails(c)
    \/ SuccessIndicated(c) \/ FailureIndicated(c)
    \/ BodyPending(c) \/ BodyWritten(c) \/ EndWritten(c) \/ BodyFinished(c) \/ BodyBroken(c)
    \/ ReadData(c) \/ ReadPending(c) \/ ReadEof(c)
    \/ Disconnect(c)
-----------------------------------------------------------------------------
(* The main thread's other turns.                                          *)

(* select: the flags of the descriptors that are ready are set, the tasks  *)
(* are woken.                                                              *)
Open(c) == task[c] \in {"check", "write", "read"}

Select ==
    /\ SelectReturns
    /\ errorReady' = [c \in Conn |-> Open(c) /\ (errorReady[c] \/ errPipe[c] \/ Gone(c))]
    /\ outputReady' = [c \in Conn |-> Open(c) /\ (outputReady[c] \/ outPipe[c] > 0 \/ Gone(c))]
    /\ inputReady' = [c \in Conn |-> childInput[c] /\ (inputReady[c] \/ inPipe[c] < Capacity \/ Gone(c))]
    /\ woken' = [c \in Conn |-> Open(c)]
    /\ UNCHANGED <<task, pid, processRan, childInput, bodyLeft, received, scriptVars>>

Reap(c) ==
    /\ script[c] \in Ended
    /\ ReapPid(pid[c], script[c] # "killed")
    /\ script' = [script EXCEPT ![c] = "reaped"]
    /\ UNCHANGED <<serverVars, holders, inPipe, outPipe, errPipe, written, crashed>>

NothingToReap ==
    /\ \A c \in Conn : script[c] \notin Ended
    /\ StoreCount
    /\ UNCHANGED <<serverVars, scriptVars>>

RunCallback ==
    /\ CallbackRuns
    /\ IF running = NoHandler THEN UNCHANGED <<processRan, woken>>
       ELSE IF running.act = "ready"
       THEN processRan' = [processRan EXCEPT ![running.conn] = TRUE] /\ UNCHANGED woken
       ELSE woken' = [woken EXCEPT ![running.conn] = Open(running.conn)] /\ UNCHANGED processRan
    /\ UNCHANGED <<task, pid, childInput, flagVars, bodyLeft, received, scriptVars>>

(* The executor's step ends when its queue is empty.                       *)
QueueEmpty ==
    /\ \A c \in Conn : ~woken[c]
    /\ ExecutorStepReturns
    /\ UNCHANGED <<serverVars, scriptVars>>

MainTurn ==
    \/ Select
    \/ (LockCount \/ ReadCount \/ UnlockCount) /\ UNCHANGED <<serverVars, scriptVars>>
    \/ \E c \in Conn : Reap(c)
    \/ NothingToReap
    \/ RunCallback
    \/ QueueEmpty

Interrupt == SignalHandler /\ UNCHANGED <<serverVars, scriptVars>>
-----------------------------------------------------------------------------
(* The child process: what the server's code does before execve, then the  *)
(* script, which may do as it likes.                                       *)

ScriptFrame(c) ==
    UNCHANGED <<mpc, pidReady, isReady, handlers, running, serverVars>>

(* setup_redirection and execve: the child's own copy of the end the       *)
(* server writes to is closed, those of the other connections stay open.   *)
Execve(c) ==
    /\ script[c] = "forked"
    /\ script' = [script EXCEPT ![c] = "running"]
    /\ holders' = [holders EXCEPT ![c] = @ \ {c}]
    /\ ScriptFrame(c)
    /\ UNCHANGED <<signalled, inPipe, outPipe, errPipe, written, crashed>>

(* child_indicate_failure: "F" is written, then the child exits.           *)
IndicateFailure(c) ==
    /\ script[c] = "forked"
    /\ script' = [script EXCEPT ![c] = "failing"]
    /\ errPipe' = [errPipe EXCEPT ![c] = TRUE]
    /\ ScriptFrame(c)
    /\ UNCHANGED <<signalled, holders, inPipe, outPipe, written, crashed>>

(* A process that ends gives back its descriptors; its parent is signalled.*)
End(c, how) ==
    /\ script' = [script EXCEPT ![c] = how]
    /\ holders' = [d \in Conn |-> holders[d] \ {c}]
    /\ crashed' = IF how = "killed" THEN crashed \cup {c} ELSE crashed
    /\ signalled' = TRUE
    /\ ScriptFrame(c)
    /\ UNCHANGED <<inPipe, outPipe, errPipe, written>>

FailedExits(c) == script[c] = "failing" /\ End(c, "failed")

ScriptExits(c) == script[c] = "running" /\ End(c, "exited")

ScriptCrashes(c) == script[c] = "running" /\ End(c, "killed")

(* The script exits at the end of its input.                               *)
InputEnded(c) == inPipe[c] = 0 /\ ~childInput[c] /\ holders[c] = {}

ScriptCompletes(c) == InputEnded(c) /\ ScriptExits(c)

ScriptReads(c) ==
    /\ script[c] = "running"
    /\ inPipe[c] > 0
    /\ inPipe' = [inPipe EXCEPT ![c] = @ - 1]
    /\ ScriptFrame(c)
    /\ UNCHANGED <<signalled, script, holders, outPipe, errPipe, written, crashed>>

(* A script that begins to write does nothing else until there is room.    *)
ScriptBeginsWrite(c) ==
    /\ script[c] = "running"
    /\ written[c] < MaxOut[c]
    /\ script' = [script EXCEPT ![c] = "writing"]
    /\ ScriptFrame(c)
    /\ UNCHANGED <<signalled, holders, inPipe, outPipe, errPipe, written, crashed>>

ScriptWrites(c) ==
    /\ script[c] = "writing"
    /\ outPipe[c] < Capacity
    /\ outPipe' = [outPipe EXCEPT ![c] = @ + 1]
    /\ written' = [written EXCEPT ![c] = @ + 1]
    /\ script' = [script EXCEPT ![c] = "running"]
    /\ ScriptFrame(c)
    /\ UNCHANGED <<signalled, holders, inPipe, errPipe, crashed>>

(* What a script does in the end: it starts, consumes its input, finishes  *)
(* what it began to write, and exits when its input ends.                  *)
Progress(c) ==
    \/ Execve(c) \/ IndicateFailure(c) \/ FailedExits(c)
    \/ ScriptReads(c) \/ ScriptWrites(c) \/ ScriptCompletes(c)

Next ==
    \/ MainTurn
    \/ Interrupt
    \/ \E c \in Conn :
        \/ Poll(c)
        \/ Progress(c)
        \/ ScriptBeginsWrite(c)
        \/ ScriptExits(c)
        \/ ScriptCrashes(c)

Spec == Init /\ [][Next]_vars

(* The main thread runs, signals are delivered, and a script that can go   *)
(* on does.                                                                *)
Fairness ==
    /\ WF_vars(MainTurn \/ \E c \in Conn : Poll(c))
    /\ WF_vars(Interrupt)
    /\ \A c \in Conn : WF_vars(Progress(c))

FairSpec == Spec /\ Fairness
-----------------------------------------------------------------------------
(* Properties.                                                             *)

(* Every variable has its type; a count of signals never leaves size_t.    *)
TypeOK ==
    /\ HandlerTypeOK(Callback)
    /\ task \in [Conn -> Task]
    /\ woken \in [Conn -> BOOLEAN]
    /\ pid \in [Conn -> Pid \cup {NoPid}]
    /\ processRan \in [Conn -> BOOLEAN]
    /\ childInput \in [Conn -> BOOLEAN]
    /\ errorReady \in [Conn -> BOOLEAN]
    /\ outputReady \in [Conn -> BOOLEAN]
    /\ inputReady \in [Conn -> BOOLEAN]
    /\ bodyLeft \in [Conn -> Nat] /\ \A c \in Conn : bodyLeft[c] <= Body[c]
    /\ received \in [Conn -> Nat] /\ \A c \in Conn : received[c] <= MaxOut[c]
    /\ script \in [Conn -> Process]
    /\ holders \in [Conn -> SUBSET Conn]
    /\ inPipe \in [Conn -> 0 .. Capacity]
    /\ outPipe \in [Conn -> 0 .. Capacity]
    /\ errPipe \in [Conn -> BOOLEAN]
    /\ written \in [Conn -> Nat] /\ \A c \in Conn : written[c] <= MaxOut[c]
    /\ crashed \in SUBSET Conn

(* A response ends regularly only once its script has ended, with all that *)
(* the script wrote: no flag of a descriptor that was read already is      *)
(* taken for the end of the output.                                        *)
AnswerIsWhole ==
    [][\A c \in Conn : (task[c] = "read" /\ task'[c] = "whole") =>
                        Gone(c) /\ received[c] = written[c]]_vars

(* kill never hits the script of another connection: a number is given to  *)
(* somebody else only after the former script is known to have run.  The   *)
(* two exceptions: a script that was killed by a signal is reaped without  *)
(* a callback, and one that got the number of an earlier script may find   *)
(* that one's last callback in the place of its own.                       *)
KillHitsOwn ==
    \A c, d \in Conn :
        (c # d /\ Open(c) /\ Alive(d) /\ pid[c] = pid[d]) =>
            \/ processRan[c]
            \/ c \in crashed
            \/ \E e \in Conn \ {c, d} : pid[e] = pid[c]

(* Every response ends, whatever its script and the others' scripts do, if *)
(* scripts do not outlive their input; unless the signal handler hung.     *)
ResponseEnds == \A c \in Conn : (task[c] = "check") ~> (task[c] \in Over \/ mpc = "hung")

(* A child that wrote its "F" is marked as failed: its request is not      *)
(* answered as if the script had run.                                      *)
FailureIsErrored == \A c \in Conn : task[c] = "whole" => ~errPipe[c]
=============================================================================
