---------------------------------- MODULE CgiProofs ----------------------------------
(***************************************************************************)
(* Proofs about Cgi: for any number of connections, scripts, process       *)
(* numbers and units, and for scripts that do as they like.                *)
(***************************************************************************)
EXTENDS Cgi, TLAPS

(* Which tasks have a process, and a number for it.                        *)
TaskInv ==
    /\ \A c \in Conn : task[c] = "none" => script[c] = "none" /\ pid[c] = NoPid
    /\ \A c \in Conn : Open(c) => script[c] # "none"
    /\ \A c \in Conn : script[c] # "none" => pid[c] \in Pid

(* What was written is in the pipe or was read; a flag that is set means   *)
(* that there is something to read, be it the end.                         *)
OutputInv ==
    \A c \in Conn :
        /\ written[c] = received[c] + outPipe[c]
        /\ script[c] = "writing" => written[c] < MaxOut[c]
        /\ outputReady[c] => outPipe[c] > 0 \/ Gone(c)

(* A process that was not reaped yet.                                      *)
There(c) == Alive(c) \/ script[c] \in Ended

Shares(c, d) == d # c /\ pid[d] = pid[c]

PidInv == \A c, d \in Conn : There(c) /\ There(d) /\ pid[c] = pid[d] => c = d

(* The callback in the table is the one of a script that has the number,   *)
(* and the first of that script unless others have had it.                 *)
HandlerInv ==
    /\ running # NoHandler => mpc = "run"
    /\ \A p \in Pid : handlers[p] # NoHandler => \E c \in Conn : pid[c] = p
    /\ \A c \in Conn : There(c) =>
        \/ handlers[pid[c]] = [act |-> "ready", conn |-> c]
        \/ \E d \in Conn : Shares(c, d)

(* How it comes that a script which was reaped is not known to have run.   *)
ReapedInv ==
    /\ \A c \in Conn : Open(c) /\ script[c] = "killed" =>
        c \in crashed \/ \E d \in Conn : Shares(c, d)
    /\ \A c \in Conn : Open(c) /\ script[c] = "reaped" =>
        \/ processRan[c]
        \/ c \in crashed
        \/ running = [act |-> "ready", conn |-> c]
        \/ \E d \in Conn : Shares(c, d)

IInv == TypeOK /\ TaskInv /\ OutputInv /\ PidInv /\ HandlerInv /\ ReapedInv /\ KillHitsOwn
-----------------------------------------------------------------------------
(* What the steps have in common, as far as processes are concerned.       *)

(* No response begins or is opened again.                                  *)
NoTaskBegins ==
    \A d \in Conn : (Open(d)' => Open(d)) /\ (task'[d] = "none" => task[d] = "none")

MayRegister(c) ==
    \/ handlers' = handlers
    \/ handlers' = Registered(handlers, pid[c], [act |-> "wake", conn |-> c])

(* A step of the server in c's task, which is open.                        *)
InPoll(c) ==
    /\ Open(c)
    /\ NoTaskBegins
    /\ MayRegister(c)
    /\ UNCHANGED <<mpc, running, pid, processRan, crashed>>

PollStep(c) == InPoll(c) /\ script' = script

FinishStep(c) ==
    /\ InPoll(c)
    /\ ~Open(c)'
    /\ script' = [d \in Conn |-> IF d \in Killed(c) THEN "killed" ELSE script[d]]

(* A step of c's process.                                                  *)
ProcessStep(c) ==
    /\ Alive(c)
    /\ UNCHANGED <<mpc, running, handlers, task, pid, processRan>>
    /\ script'[c] \in Process \ {"none", "reaped"}
    /\ \A d \in Conn \ {c} : script'[d] = script[d]
    /\ crashed' = IF script'[c] = "killed" THEN crashed \cup {c} ELSE crashed

(* A step that has nothing to do with processes.                           *)
OtherStep ==
    /\ UNCHANGED <<handlers, running, task, pid, processRan, script, crashed>>
    /\ running # NoHandler => mpc' = "run"

LEMMA PollSteps ==
    ASSUME IInv, NEW c \in Conn, Poll(c)
    PROVE  StartScript(c) \/ StartFails(c) \/ PollStep(c) \/ FinishStep(c)
<1> USE DEF IInv, PollStep, FinishStep, InPoll, NoTaskBegins, MayRegister
<1>0. task \in [Conn -> Task]
  BY DEF TypeOK
<1>1. CASE StartScript(c) \/ StartFails(c)
  BY <1>1
<1>2. CASE SuccessIndicated(c)
  BY <1>0, <1>2 DEF SuccessIndicated, Polls, Goto, RegisterWaker, scriptVars, Open
<1>3. CASE FailureIndicated(c)
  BY <1>0, <1>3 DEF FailureIndicated, Polls, Goto, RegisterWaker, Finish, Open
<1>4. CASE BodyPending(c) \/ BodyWritten(c) \/ EndWritten(c) \/ BodyFinished(c)
  <2>1. AfterBody(c) /\ task[c] \in {"check", "write"}
    BY <1>4 DEF BodyPending, BodyWritten, EndWritten, BodyFinished, WritesBody, Polls
  <2>2. UNCHANGED <<pid, processRan, crashed, script>>
    BY <1>4 DEF BodyPending, BodyWritten, EndWritten, BodyFinished, scriptVars
  <2> QED
    BY <1>0, <2>1, <2>2 DEF AfterBody, Goto, RegisterWaker, Open
<1>5. CASE BodyBroken(c)
  <2>1. Finish(c, "error") \/ Finish(c, "cut")
    BY <1>5 DEF BodyBroken
  <2>2. RegisterWaker(c) \/ UNCHANGED <<mpc, handlers, running>>
    BY <1>5 DEF BodyBroken
  <2>3. task[c] \in {"check", "write"}
    BY <1>5 DEF BodyBroken, WritesBody, Polls
  <2> QED
    BY <1>0, <2>1, <2>2, <2>3 DEF Goto, RegisterWaker, Finish, Open
<1>6. CASE ReadData(c) \/ ReadPending(c)
  BY <1>0, <1>6 DEF ReadData, ReadPending, Polls, Goto, RegisterWaker, scriptVars, Open
<1>7. CASE ReadEof(c) \/ Disconnect(c)
  BY <1>0, <1>7 DEF ReadEof, Disconnect, Polls, Goto, RegisterWaker, Finish, Open
<1> QED
  BY <1>1, <1>2, <1>3, <1>4, <1>5, <1>6, <1>7 DEF Poll

LEMMA ProcessSteps ==
    ASSUME IInv, NEW c \in Conn,
           Progress(c) \/ ScriptBeginsWrite(c) \/ ScriptExits(c) \/ ScriptCrashes(c)
    PROVE  ProcessStep(c) \/ OtherStep
<1> USE DEF IInv, ProcessStep, Alive, ScriptFrame, serverVars, Process, Ended
<1>0. script \in [Conn -> Process] /\ (running # NoHandler => mpc = "run")
  BY DEF TypeOK, HandlerInv
<1>1. CASE Execve(c) \/ IndicateFailure(c) \/ ScriptWrites(c) \/ ScriptBeginsWrite(c)
  BY <1>0, <1>1 DEF Execve, IndicateFailure, ScriptWrites, ScriptBeginsWrite
<1>2. CASE FailedExits(c) \/ ScriptExits(c) \/ ScriptCrashes(c) \/ ScriptCompletes(c)
  BY <1>0, <1>2 DEF FailedExits, ScriptExits, ScriptCrashes, ScriptCompletes, End
<1>3. CASE ScriptReads(c)
  BY <1>0, <1>3 DEF ScriptReads, OtherStep
<1> QED
  BY <1>1, <1>2, <1>3 DEF Progress

LEMMA MainSteps ==
    ASSUME IInv, MainTurn \/ Interrupt \/ UNCHANGED vars
    PROVE  OtherStep \/ RunCallback \/ \E c \in Conn : Reap(c)
<1> USE DEF OtherStep
<1>0. running # NoHandler => mpc = "run"
  BY DEF IInv, HandlerInv
<1>1. CASE Select \/ NothingToReap \/ QueueEmpty
  BY <1>0, <1>1 DEF Select, SelectReturns, NothingToReap, StoreCount, QueueEmpty,
     ExecutorStepReturns, serverVars, scriptVars
<1>2. CASE (LockCount \/ ReadCount \/ UnlockCount) /\ UNCHANGED <<serverVars, scriptVars>>
  BY <1>0, <1>2 DEF LockCount, ReadCount, UnlockCount, serverVars, scriptVars
<1>3. CASE Interrupt
  BY <1>0, <1>3 DEF Interrupt, SignalHandler, serverVars, scriptVars
<1>4. CASE UNCHANGED vars
  BY <1>0, <1>4 DEF vars, handlerVars, serverVars, scriptVars
<1> QED
  BY <1>1, <1>2, <1>3, <1>4 DEF MainTurn

LEMMA Steps ==
    ASSUME IInv, [Next]_vars
    PROVE  \/ OtherStep \/ RunCallback
           \/ \E c \in Conn : \/ StartScript(c) \/ StartFails(c) \/ PollStep(c)
                             \/ FinishStep(c) \/ ProcessStep(c) \/ Reap(c)
  BY PollSteps, ProcessSteps, MainSteps DEF Next

(* What FinishStep kills was alive, and it has the number of the task.     *)
LEMMA KilledThere ==
    ASSUME IInv, NEW c \in Conn, NEW d \in Killed(c)
    PROVE  d \in Conn /\ Alive(d) /\ There(d) /\ pid[d] = pid[c] /\ script[d] # "none"
                /\ ~processRan[c]
  BY DEF Killed, Alive, There

(* One that is there after a step other than a start was there before it.  *)
LEMMA ThereBefore ==
    ASSUME IInv, OtherStep \/ RunCallback
              \/ \E c \in Conn : StartFails(c) \/ PollStep(c) \/ FinishStep(c) \/ ProcessStep(c) \/ Reap(c)
    PROVE  /\ \A d \in Conn : There(d)' => There(d)
           /\ \A d \in Conn : Alive(d)' => Alive(d)
           /\ \A d \in Conn : script'[d] = "none" <=> script[d] = "none"
           /\ pid' = pid
<1> USE DEF There, Alive, Ended
<1>0. script \in [Conn -> Process]
  BY DEF IInv, TypeOK
<1>1. CASE OtherStep \/ RunCallback
  BY <1>1 DEF OtherStep, RunCallback, scriptVars
<1>2. ASSUME NEW c \in Conn, StartFails(c) \/ PollStep(c)
      PROVE  script' = script /\ pid' = pid
  BY <1>2 DEF StartFails, PollStep, InPoll, scriptVars
<1>3. ASSUME NEW c \in Conn, FinishStep(c)
      PROVE  pid' = pid /\ \A d \in Conn : script'[d] = script[d] \/ (Alive(d) /\ script'[d] = "killed")
  BY <1>3, KilledThere DEF FinishStep, InPoll
<1>4. ASSUME NEW c \in Conn, ProcessStep(c)
      PROVE  /\ pid' = pid
             /\ \A d \in Conn : script'[d] = script[d]
                    \/ (Alive(d) /\ script'[d] \in Process \ {"none", "reaped"})
  BY <1>4 DEF ProcessStep
<1>5. ASSUME NEW c \in Conn, Reap(c)
      PROVE  /\ pid' = pid
             /\ \A d \in Conn : script'[d] = script[d] \/ (script[d] \in Ended /\ script'[d] = "reaped")
  BY <1>0, <1>5 DEF Reap, serverVars
<1> QED
  BY <1>0, <1>1, <1>2, <1>3, <1>4, <1>5 DEF Process

LEMMA StartEffect ==
    ASSUME IInv, NEW c \in Conn, StartScript(c)
    PROVE  /\ task[c] = "none" /\ script[c] = "none" /\ pid[c] = NoPid
           /\ pid'[c] \in Pid /\ script'[c] = "forked" /\ task'[c] = "check"
           /\ \A d \in Conn : There(d) => pid[d] # pid'[c]
           /\ \A d \in Conn \ {c} : pid'[d] = pid[d] /\ script'[d] = script[d] /\ task'[d] = task[d]
           /\ handlers' = Registered(handlers, pid'[c], [act |-> "ready", conn |-> c])
           /\ UNCHANGED <<mpc, running, processRan, crashed>>
           /\ running = NoHandler
  BY DEF StartScript, Goto, PidsInUse, There, IInv, TypeOK, TaskInv, HandlerInv

LEMMA TaskInvStep ==
    ASSUME IInv, [Next]_vars
    PROVE  TaskInv'
<1> USE DEF IInv, TaskInv
<1>1. ASSUME NEW c \in Conn, StartScript(c)
      PROVE  TaskInv'
  BY <1>1, StartEffect DEF Open
<1>2. ASSUME NEW c \in Conn, StartFails(c)
      PROVE  TaskInv'
  BY <1>2 DEF StartFails, Goto, Open, scriptVars, TypeOK
<1>3. ASSUME OtherStep \/ RunCallback \/ \E c \in Conn : PollStep(c) \/ FinishStep(c) \/ ProcessStep(c) \/ Reap(c)
      PROVE  TaskInv'
  <2>1. NoTaskBegins
    BY <1>3 DEF OtherStep, RunCallback, PollStep, FinishStep, InPoll, ProcessStep, Reap,
       NoTaskBegins, Open, serverVars
  <2> QED
    BY <1>3, <2>1, ThereBefore DEF NoTaskBegins
<1> QED
  BY <1>1, <1>2, <1>3, Steps

LEMMA PidInvStep ==
    ASSUME IInv, [Next]_vars
    PROVE  PidInv'
<1>1. ASSUME NEW c \in Conn, StartScript(c)
      PROVE  PidInv'
  <2>1. \A d \in Conn \ {c} : There(d)' = There(d)
    BY <1>1, StartEffect DEF There, Alive
  <2>2. \A d \in Conn \ {c} : There(d)' => pid'[d] = pid[d] /\ pid[d] # pid'[c]
    BY <1>1, <2>1, StartEffect
  <2>3. ASSUME NEW a \in Conn, NEW b \in Conn, There(a)', There(b)', pid'[a] = pid'[b]
        PROVE  a = b
    <3>1. CASE a = c \/ b = c
      BY <2>2, <2>3, <3>1
    <3>2. CASE a # c /\ b # c
      BY <2>1, <2>2, <2>3, <3>2 DEF IInv, PidInv
    <3> QED
      BY <3>1, <3>2
  <2> QED
    BY <2>3 DEF PidInv
<1>2. ASSUME OtherStep \/ RunCallback
              \/ \E c \in Conn : StartFails(c) \/ PollStep(c) \/ FinishStep(c) \/ ProcessStep(c) \/ Reap(c)
      PROVE  PidInv'
  BY <1>2, ThereBefore DEF IInv, PidInv
<1> QED
  BY <1>1, <1>2, Steps

(* The tables of callbacks.                                                *)
LEMMA RegisterKeeps ==
    ASSUME IInv, NEW c \in Conn, Open(c), MayRegister(c)
    PROVE  /\ \A p \in Pid : handlers[p] # NoHandler => handlers'[p] = handlers[p]
           /\ \A p \in Pid \ {pid[c]} : handlers'[p] = handlers[p]
  BY DEF MayRegister, Registered, IInv, TypeOK, HandlerTypeOK

LEMMA HandlerInvStep ==
    ASSUME IInv, [Next]_vars
    PROVE  HandlerInv'
<1> USE DEF IInv, HandlerInv
<1>0. /\ handlers \in [Pid -> Callback \cup {NoHandler}]
      /\ \A c \in Conn : [act |-> "ready", conn |-> c] \in Callback
      /\ NoHandler \notin Callback
      /\ \A c \in Conn : Open(c) => pid[c] \in Pid
      /\ \A c \in Conn : There(c) => pid[c] \in Pid
  BY CgiAssumption DEF TypeOK, HandlerTypeOK, Callback, TaskInv, There, Alive, Ended
<1>1. ASSUME NEW c \in Conn, StartScript(c)
      PROVE  HandlerInv'
  <2>1. /\ pid'[c] \in Pid /\ \A d \in Conn \ {c} : pid'[d] = pid[d]
        /\ handlers' = Registered(handlers, pid'[c], [act |-> "ready", conn |-> c])
        /\ running' = NoHandler
        /\ pid[c] = NoPid
    BY <1>1, StartEffect
  <2>2. \A p \in Pid \ {pid'[c]} : handlers'[p] = handlers[p]
    BY <1>0, <2>1 DEF Registered
  <2>3. \A p \in Pid : handlers'[p] # NoHandler => \E d \in Conn : pid'[d] = p
    <3> SUFFICES ASSUME NEW p \in Pid, handlers'[p] # NoHandler PROVE \E d \in Conn : pid'[d] = p
      OBVIOUS
    <3>1. CASE p = pid'[c]
      BY <3>1
    <3>2. CASE p # pid'[c]
      <4>1. PICK d \in Conn : pid[d] = p
        BY <2>2, <3>2
      <4>2. d # c
        BY <2>1, <4>1, CgiAssumption
      <4> QED
        BY <2>1, <4>1, <4>2
    <3> QED
      BY <3>1, <3>2
  <2>4. ASSUME NEW d \in Conn, There(d)'
        PROVE  (handlers[pid[d]] = [act |-> "ready", conn |-> d] \/ \E e \in Conn : Shares(d, e))'
    <3>1. CASE d = c
      <4>1. CASE handlers[pid'[c]] = NoHandler
        BY <1>0, <2>1, <3>1, <4>1 DEF Registered
      <4>2. CASE handlers[pid'[c]] # NoHandler
        <5>1. PICK e \in Conn : pid[e] = pid'[c]
          BY <2>1, <4>2
        <5>2. e # c
          BY <2>1, <5>1, CgiAssumption
        <5> QED
          BY <2>1, <3>1, <5>1, <5>2 DEF Shares
      <4> QED
        BY <4>1, <4>2
    <3>2. CASE d # c
      <4>1. There(d) /\ pid'[d] = pid[d] /\ pid[d] # pid'[c]
        <5>1. /\ pid'[d] = pid[d] /\ script'[d] = script[d] /\ task'[d] = task[d]
              /\ There(d) => pid[d] # pid'[c]
          <6>1. /\ \A e \in Conn \ {c} : pid'[e] = pid[e] /\ script'[e] = script[e] /\ task'[e] = task[e]
                /\ \A e \in Conn : There(e) => pid[e] # pid'[c]
            BY <1>1, StartEffect
          <6> QED BY ONLY <3>2, <6>1, d \in Conn
        <5>2. There(d)
          BY <2>4, <5>1 DEF There, Alive
        <5> QED BY <5>1, <5>2
      <4>2. handlers'[pid[d]] = handlers[pid[d]]
        BY <1>0, <2>2, <4>1
      <4>3. \A e \in Conn : Shares(d, e) => Shares(d, e)'
        <5> SUFFICES ASSUME NEW e \in Conn, Shares(d, e) PROVE Shares(d, e)'
          OBVIOUS
        <5>1. e # c
          BY <1>0, <2>1, <4>1, CgiAssumption DEF Shares
        <5> QED
          BY <2>1, <4>1, <5>1 DEF Shares
      <4> QED
        BY <4>1, <4>2, <4>3
    <3> QED
      BY <3>1, <3>2
  <2> QED
    BY <2>1, <2>3, <2>4
<1>2. ASSUME pid' = pid, handlers' = handlers, running' # NoHandler => mpc' = "run",
             \A d \in Conn : There(d)' => There(d)
      PROVE  HandlerInv'
  BY <1>2 DEF Shares
<1>3. ASSUME NEW c \in Conn, InPoll(c), \A d \in Conn : There(d)' => There(d)
      PROVE  HandlerInv'
  <2>1. UNCHANGED <<pid, mpc, running>> /\ Open(c) /\ MayRegister(c)
    BY <1>3 DEF InPoll
  <2>2. \A p \in Pid : handlers'[p] # NoHandler => \E d \in Conn : pid'[d] = p
    BY <2>1, RegisterKeeps
  <2>3. \A d \in Conn : There(d) /\ handlers[pid[d]] = [act |-> "ready", conn |-> d] =>
                            handlers'[pid[d]] = handlers[pid[d]]
    BY <1>0, <2>1, RegisterKeeps
  <2> QED
    BY <1>3, <2>1, <2>2, <2>3 DEF Shares
<1>4. ASSUME NEW c \in Conn, Reap(c)
      PROVE  HandlerInv'
  <2>1. /\ There(c) /\ pid' = pid /\ mpc' = "run"
        /\ handlers' = [handlers EXCEPT ![pid[c]] = NoHandler]
        /\ \A d \in Conn : There(d)' => There(d)
        /\ ~There(c)'
    BY <1>4, ThereBefore DEF Reap, ReapPid, There, Alive, Ended, serverVars, TypeOK
  <2>2. \A d \in Conn : There(d)' => pid[d] # pid[c]
    BY <2>1 DEF PidInv
  <2>3. \A d \in Conn : There(d)' => handlers'[pid[d]] = handlers[pid[d]]
    BY <1>0, <2>1, <2>2
  <2>4. \A p \in Pid : handlers'[p] # NoHandler => handlers[p] # NoHandler
    BY <1>0, <2>1
  <2> QED
    BY <2>1, <2>3, <2>4 DEF Shares
<1>5. CASE OtherStep
  BY <1>2, <1>5, ThereBefore DEF OtherStep
<1>6. CASE RunCallback
  BY <1>2, <1>6, ThereBefore DEF RunCallback, CallbackRuns
<1>7. ASSUME NEW c \in Conn, StartFails(c) \/ ProcessStep(c)
      PROVE  HandlerInv'
  BY <1>2, <1>7, ThereBefore DEF StartFails, ProcessStep, handlerVars
<1>8. ASSUME NEW c \in Conn, PollStep(c) \/ FinishStep(c)
      PROVE  HandlerInv'
  BY <1>3, <1>8, ThereBefore DEF PollStep, FinishStep
<1> QED
  BY <1>1, <1>4, <1>5, <1>6, <1>7, <1>8, Steps

(* What is known of a script is never forgotten.                           *)
LEMMA KnownBefore ==
    ASSUME IInv, OtherStep \/ RunCallback
              \/ \E c \in Conn : StartFails(c) \/ PollStep(c) \/ FinishStep(c) \/ ProcessStep(c) \/ Reap(c)
    PROVE  /\ \A d \in Conn : processRan[d] => processRan'[d]
           /\ crashed \subseteq crashed'
           /\ \A d \in Conn : Open(d)' => Open(d)
<1>0. task \in [Conn -> Task] /\ processRan \in [Conn -> BOOLEAN]
  BY DEF IInv, TypeOK
<1>1. CASE OtherStep \/ RunCallback
  BY <1>0, <1>1 DEF OtherStep, RunCallback, Open, scriptVars
<1>2. ASSUME NEW c \in Conn, StartFails(c) \/ Reap(c)
      PROVE  /\ processRan' = processRan /\ crashed' = crashed
             /\ \A d \in Conn : Open(d)' => Open(d)
  BY <1>0, <1>2 DEF StartFails, Reap, Goto, Open, scriptVars, serverVars
<1>3. ASSUME NEW c \in Conn, PollStep(c) \/ FinishStep(c) \/ ProcessStep(c)
      PROVE  /\ processRan' = processRan /\ crashed \subseteq crashed'
             /\ \A d \in Conn : Open(d)' => Open(d)
  BY <1>3 DEF PollStep, FinishStep, InPoll, NoTaskBegins, ProcessStep, Open
<1> QED
  BY <1>1, <1>2, <1>3

LEMMA ReapedInvStep ==
    ASSUME IInv, [Next]_vars
    PROVE  ReapedInv'
<1> USE DEF IInv
<1>0. script \in [Conn -> Process]
  BY DEF TypeOK
<1>1. ASSUME NEW c \in Conn, StartScript(c)
      PROVE  ReapedInv'
  <2>1. \A d \in Conn : Open(d)' /\ script'[d] \in {"killed", "reaped"} =>
            d # c /\ Open(d) /\ pid'[d] = pid[d] /\ script'[d] = script[d] /\ pid[d] \in Pid
    BY <1>1, StartEffect DEF Open, TaskInv
  <2>2. \A d \in Conn \ {c} : \A e \in Conn : pid[d] \in Pid /\ Shares(d, e) => Shares(d, e)'
    <3>1. pid[c] = NoPid /\ \A d \in Conn \ {c} : pid'[d] = pid[d]
      BY <1>1, StartEffect
    <3>2. NoPid \notin Pid
      BY CgiAssumption
    <3> QED BY ONLY <3>1, <3>2 DEF Shares
  <2>3. UNCHANGED <<processRan, crashed, running>>
    BY <1>1, StartEffect
  <2> QED
    BY <2>1, <2>2, <2>3 DEF ReapedInv
<1>2. ASSUME UNCHANGED <<pid, running>>,
             \A d \in Conn : processRan[d] => processRan'[d],
             crashed \subseteq crashed',
             \A d \in Conn : Open(d)' => Open(d),
             \A d \in Conn : script'[d] = "reaped" => script[d] = "reaped",
             \A d \in Conn : Open(d)' /\ script'[d] = "killed" =>
                \/ script[d] = "killed"
                \/ d \in crashed' \/ \E e \in Conn : Shares(d, e)
      PROVE  ReapedInv'
  BY <1>2 DEF ReapedInv, Shares
<1>3. CASE OtherStep
  BY <1>2, <1>3, KnownBefore DEF OtherStep
<1>4. ASSUME NEW c \in Conn, StartFails(c) \/ PollStep(c)
      PROVE  ReapedInv'
  BY <1>2, <1>4, KnownBefore DEF StartFails, PollStep, InPoll, handlerVars, scriptVars
<1>5. ASSUME NEW c \in Conn, FinishStep(c)
      PROVE  ReapedInv'
  <2>1. \A d \in Conn : script'[d] = "reaped" => script[d] = "reaped"
    BY <1>5 DEF FinishStep
  <2>2. \A d \in Conn : Open(d)' /\ script'[d] = "killed" =>
            script[d] = "killed" \/ \E e \in Conn : Shares(d, e)
    BY <1>5, KilledThere DEF FinishStep, Shares
  <2> QED
    BY <1>2, <1>5, <2>1, <2>2, KnownBefore DEF FinishStep, InPoll
<1>6. ASSUME NEW c \in Conn, ProcessStep(c)
      PROVE  ReapedInv'
  BY <1>2, <1>6, KnownBefore DEF ProcessStep
<1>7. ASSUME NEW c \in Conn, Reap(c)
      PROVE  ReapedInv'
  <2>1. /\ UNCHANGED <<pid, processRan, crashed, task>>
        /\ running = NoHandler
        /\ script[c] \in Ended
        /\ script'[c] = "reaped" /\ \A d \in Conn \ {c} : script'[d] = script[d]
        /\ script[c] # "killed" => running' = handlers[pid[c]]
    BY <1>0, <1>7 DEF Reap, ReapPid, serverVars, HandlerInv
  <2>2. \A d \in Conn : running # [act |-> "ready", conn |-> d]
    BY <2>1, CgiAssumption DEF Callback
  <2>3. \/ handlers[pid[c]] = [act |-> "ready", conn |-> c]
        \/ \E d \in Conn : Shares(c, d)
    BY <2>1 DEF HandlerInv, There
  <2> QED
    BY <2>1, <2>2, <2>3 DEF ReapedInv, Shares, Open
<1>8. CASE RunCallback
  <2>1. UNCHANGED <<task, pid, script, crashed>>
    BY <1>8 DEF RunCallback, scriptVars
  <2>2. \A d \in Conn : running = [act |-> "ready", conn |-> d] => processRan'[d]
    <3> SUFFICES ASSUME NEW d \in Conn, running = [act |-> "ready", conn |-> d] PROVE processRan'[d]
      OBVIOUS
    <3>1. running # NoHandler /\ running.act = "ready" /\ running.conn = d
      BY CgiAssumption DEF Callback
    <3> QED
      BY <1>8, <3>1 DEF RunCallback, TypeOK
  <2>3. \A d \in Conn : processRan[d] => processRan'[d]
    BY <1>8, KnownBefore
  <2> QED
    BY <2>1, <2>2, <2>3 DEF ReapedInv, Shares, Open
<1> QED
  BY <1>1, <1>3, <1>4, <1>5, <1>6, <1>7, <1>8, Steps

LEMMA KillHitsOwnStep ==
    ASSUME IInv, [Next]_vars
    PROVE  KillHitsOwn'
<1> USE DEF IInv
<1>1. ASSUME NEW c \in Conn, StartScript(c),
             NEW a \in Conn, NEW b \in Conn,
             a # b, Open(a)', Alive(b)', pid'[a] = pid'[b]
      PROVE  \/ processRan'[a]
             \/ a \in crashed'
             \/ \E e \in Conn \ {a, b} : pid'[e] = pid'[a]
  <2>1. /\ UNCHANGED <<processRan, crashed>> /\ pid[c] = NoPid /\ running = NoHandler
        /\ \A d \in Conn \ {c} : pid'[d] = pid[d] /\ script'[d] = script[d] /\ task'[d] = task[d]
        /\ \A d \in Conn : There(d) => pid[d] # pid'[c]
        /\ pid'[c] \in Pid
    BY <1>1, StartEffect
  <2>2. CASE a = c
    <3>1. There(b) /\ pid'[b] = pid[b]
      BY <1>1, <2>1, <2>2 DEF There, Alive
    <3> QED
      BY <1>1, <2>1, <2>2, <3>1
  <2>3. CASE b = c
    <3>1. Open(a) /\ pid[a] = pid'[c] /\ ~There(a)
      BY <1>1, <2>1, <2>3 DEF Open
    <3>2. script[a] = "reaped"
      BY <3>1 DEF TypeOK, TaskInv, Process, There, Alive
    <3>3. running # [act |-> "ready", conn |-> a]
      BY <2>1, CgiAssumption DEF Callback
    <3>4. processRan[a] \/ a \in crashed \/ \E e \in Conn : Shares(a, e)
      BY <3>1, <3>2, <3>3 DEF ReapedInv
    <3>5. \A e \in Conn : Shares(a, e) => e \in Conn \ {a, b} /\ pid'[e] = pid'[a]
      BY <1>1, <2>1, <2>3, <3>1, CgiAssumption DEF Shares
    <3> QED
      BY <2>1, <3>4, <3>5
  <2>4. CASE a # c /\ b # c
    <3>1. Open(a) /\ Alive(b) /\ pid[a] = pid[b] /\ pid[a] \in Pid
      BY <1>1, <2>1, <2>4 DEF Open, Alive, TaskInv
    <3>2. \A e \in Conn \ {a, b} : pid[e] = pid[a] => pid'[e] = pid'[a]
      BY <2>1, <2>4, <3>1, CgiAssumption
    <3> QED
      BY <1>1, <2>1, <3>1, <3>2 DEF KillHitsOwn
  <2> QED
    BY <2>2, <2>3, <2>4
<1>2. ASSUME OtherStep \/ RunCallback
              \/ \E c \in Conn : StartFails(c) \/ PollStep(c) \/ FinishStep(c) \/ ProcessStep(c) \/ Reap(c)
      PROVE  KillHitsOwn'
  BY <1>2, ThereBefore, KnownBefore DEF KillHitsOwn
<1>3. CASE \E c \in Conn : StartScript(c)
  BY <1>1, <1>3 DEF KillHitsOwn
<1> QED
  BY <1>2, <1>3, Steps
-----------------------------------------------------------------------------
(* The output.                                                             *)

LEMMA OutputInvStep ==
    ASSUME IInv, [Next]_vars
    PROVE  OutputInv'
<1> USE DEF IInv
<1>0. /\ script \in [Conn -> Process]
      /\ \A c \in Conn : written[c] \in Nat /\ received[c] \in Nat /\ outPipe[c] \in Nat /\ MaxOut[c] \in Nat
      /\ written \in [Conn -> Nat]
      /\ outPipe \in [Conn -> Nat]
      /\ outputReady \in [Conn -> BOOLEAN]
      /\ DOMAIN received = Conn
  BY CgiAssumption DEF TypeOK
<1>1. ASSUME UNCHANGED <<written, received, outPipe>>,
             \A d \in Conn : outputReady'[d] => outputReady[d] \/ outPipe[d] > 0 \/ Gone(d),
             \A d \in Conn : Gone(d) => Gone(d)',
             \A d \in Conn : script'[d] = "writing" => script[d] = "writing" \/ written[d] < MaxOut[d]
      PROVE  OutputInv'
  BY <1>1 DEF OutputInv
<1>2. ASSUME NEW c \in Conn, StartScript(c)
      PROVE  OutputInv'
  <2>1. /\ UNCHANGED <<written, received, outPipe, outputReady>>
        /\ script[c] = "none" /\ script' = [script EXCEPT ![c] = "forked"]
    BY <1>2, StartEffect DEF StartScript, flagVars
  <2> QED
    BY <1>0, <1>1, <2>1 DEF Gone, Ended
<1>3. ASSUME NEW c \in Conn, NEW end, Finish(c, end)
      PROVE  OutputInv'
  <2>1. \A d \in Conn : script'[d] = script[d] \/ (Alive(d) /\ script'[d] = "killed")
    BY <1>3, KilledThere DEF Finish
  <2>2. UNCHANGED <<written, received, outPipe>> /\ \A d \in Conn : outputReady'[d] => outputReady[d]
    BY <1>0, <1>3 DEF Finish
  <2> QED
    BY <1>1, <2>1, <2>2 DEF Gone, Alive, Ended
<1>4. ASSUME NEW c \in Conn, FailureIndicated(c) \/ BodyBroken(c) \/ ReadEof(c) \/ Disconnect(c)
      PROVE  OutputInv'
  BY <1>3, <1>4 DEF FailureIndicated, BodyBroken, ReadEof, Disconnect
<1>5. ASSUME NEW c \in Conn, StartFails(c) \/ SuccessIndicated(c) \/ BodyPending(c) \/ BodyWritten(c)
                 \/ EndWritten(c) \/ BodyFinished(c) \/ ReadPending(c)
      PROVE  OutputInv'
  <2>1. UNCHANGED <<written, received, outPipe, outputReady, script>>
    BY <1>5 DEF StartFails, SuccessIndicated, BodyPending, BodyWritten, EndWritten, BodyFinished, ReadPending,
       flagVars, scriptVars
  <2> QED
    BY <1>1, <2>1 DEF Gone
<1>6. ASSUME NEW c \in Conn, ReadData(c)
      PROVE  OutputInv'
  <2>1. PICK n \in 1 .. outPipe[c] :
            /\ outPipe' = [outPipe EXCEPT ![c] = @ - n]
            /\ received' = [received EXCEPT ![c] = @ + n]
    BY <1>6 DEF ReadData
  <2>2. UNCHANGED <<written, script>> /\ outputReady' = [outputReady EXCEPT ![c] = FALSE]
    BY <1>6 DEF ReadData
  <2> QED
    BY <1>0, <2>1, <2>2 DEF OutputInv, Gone
<1>7. CASE Select
  <2>1. UNCHANGED <<written, received, outPipe, script>>
          /\ \A d \in Conn : outputReady'[d] => outputReady[d] \/ outPipe[d] > 0 \/ Gone(d)
    BY <1>7 DEF Select, scriptVars
  <2> QED
    BY <1>1, <2>1 DEF Gone
<1>8. ASSUME NEW c \in Conn, Reap(c)
      PROVE  OutputInv'
  <2>1. UNCHANGED <<written, received, outPipe, outputReady>> /\ script' = [script EXCEPT ![c] = "reaped"]
    BY <1>8 DEF Reap, serverVars, flagVars
  <2> QED
    BY <1>0, <1>1, <2>1 DEF Gone
<1>9. ASSUME UNCHANGED <<written, received, outPipe, outputReady, script>>
      PROVE  OutputInv'
  BY <1>1, <1>9 DEF Gone
<1>10. CASE NothingToReap \/ RunCallback \/ QueueEmpty \/ Interrupt \/ UNCHANGED vars
            \/ ((LockCount \/ ReadCount \/ UnlockCount) /\ UNCHANGED <<serverVars, scriptVars>>)
  BY <1>9, <1>10 DEF NothingToReap, RunCallback, QueueEmpty, Interrupt, vars, serverVars, scriptVars, flagVars
<1>11. ASSUME NEW c \in Conn, Execve(c) \/ IndicateFailure(c) \/ ScriptBeginsWrite(c)
                  \/ FailedExits(c) \/ ScriptExits(c) \/ ScriptCrashes(c) \/ ScriptCompletes(c)
       PROVE  OutputInv'
  <2>1. UNCHANGED <<written, received, outPipe, outputReady>>
    BY <1>11 DEF Execve, IndicateFailure, ScriptBeginsWrite, FailedExits, ScriptExits, ScriptCrashes,
       ScriptCompletes, End, ScriptFrame, serverVars, flagVars
  <2>2. script[c] \in {"forked", "failing", "running"}
    BY <1>11 DEF Execve, IndicateFailure, ScriptBeginsWrite, FailedExits, ScriptExits, ScriptCrashes,
       ScriptCompletes
  <2>3. \E x : script' = [script EXCEPT ![c] = x] /\ (x = "writing" => written[c] < MaxOut[c])
    BY <1>11 DEF Execve, IndicateFailure, ScriptBeginsWrite, FailedExits, ScriptExits, ScriptCrashes,
       ScriptCompletes, End
  <2> QED
    BY <1>0, <1>1, <2>1, <2>2, <2>3 DEF Gone, Ended
<1>12. ASSUME NEW c \in Conn, ScriptReads(c)
       PROVE  OutputInv'
  BY <1>9, <1>12 DEF ScriptReads, ScriptFrame, serverVars, flagVars
<1>13. ASSUME NEW c \in Conn, ScriptWrites(c)
       PROVE  OutputInv'
  <2>1. /\ UNCHANGED <<received, outputReady>> /\ script[c] = "writing"
        /\ outPipe' = [outPipe EXCEPT ![c] = @ + 1] /\ written' = [written EXCEPT ![c] = @ + 1]
        /\ script' = [script EXCEPT ![c] = "running"]
    BY <1>13 DEF ScriptWrites, ScriptFrame, serverVars, flagVars
  <2> QED
    BY <1>0, <2>1 DEF OutputInv, Gone, Ended
<1> QED
  BY <1>2, <1>4, <1>5, <1>6, <1>7, <1>8, <1>10, <1>11, <1>12, <1>13
     DEF Next, MainTurn, Poll, Progress
-----------------------------------------------------------------------------
(* Type correctness.                                                       *)

LEMMA TypeInit == Init => TypeOK
<1> SUFFICES ASSUME Init PROVE TypeOK
  OBVIOUS
<1>1. HandlerTypeOK(Callback)
  <2>1. HandlerInit /\ SizeMax \in Nat \ {0}
    BY ChildProcessAssumption DEF Init
  <2>2. 0 \in 0 .. SizeMax
    BY <2>1
  <2> QED
    BY <2>1, <2>2 DEF HandlerInit, HandlerTypeOK, MainPc
<1>2. bodyLeft \in [Conn -> Nat] /\ \A c \in Conn : bodyLeft[c] <= Body[c]
  BY CgiAssumption DEF Init
<1>3. /\ received \in [Conn -> Nat] /\ \A c \in Conn : received[c] <= MaxOut[c]
      /\ written \in [Conn -> Nat] /\ \A c \in Conn : written[c] <= MaxOut[c]
      /\ inPipe \in [Conn -> 0 .. Capacity] /\ outPipe \in [Conn -> 0 .. Capacity]
  BY CgiAssumption DEF Init
<1>4. /\ woken \in [Conn -> BOOLEAN] /\ processRan \in [Conn -> BOOLEAN]
      /\ childInput \in [Conn -> BOOLEAN] /\ errorReady \in [Conn -> BOOLEAN]
      /\ outputReady \in [Conn -> BOOLEAN] /\ inputReady \in [Conn -> BOOLEAN]
      /\ errPipe \in [Conn -> BOOLEAN]
  BY DEF Init
<1>5. task \in [Conn -> Task] /\ script \in [Conn -> Process] /\ pid \in [Conn -> Pid \cup {NoPid}]
  BY DEF Init, Task, Process
<1> QED
  BY <1>1, <1>2, <1>3, <1>4, <1>5 DEF Init, TypeOK

(* The wake-ups and the callbacks of a poll.                               *)
LEMMA TypeOfRegister ==
    ASSUME IInv, NEW c \in Conn, Open(c), RegisterWaker(c), signalled' \in BOOLEAN
    PROVE  HandlerTypeOK(Callback)'
<1>1. pid[c] \in Pid /\ [act |-> "wake", conn |-> c] \in Callback
  BY DEF IInv, TaskInv, Callback
<1> QED
  BY <1>1 DEF RegisterWaker, Registered, IInv, TypeOK, HandlerTypeOK

LEMMA TypeOfFinish ==
    ASSUME IInv, NEW c \in Conn, NEW end \in Over, Finish(c, end), HandlerTypeOK(Callback)'
    PROVE  TypeOK'
<1> USE DEF IInv, TypeOK
<1>1. task' \in [Conn -> Task] /\ woken' \in [Conn -> BOOLEAN]
  BY DEF Finish, Goto, Task
<1>2. script' \in [Conn -> Process] /\ holders' \in [Conn -> SUBSET Conn]
  BY DEF Finish, Process, Ended
<1>3. /\ childInput' \in [Conn -> BOOLEAN] /\ errorReady' \in [Conn -> BOOLEAN]
      /\ outputReady' \in [Conn -> BOOLEAN] /\ inputReady' \in [Conn -> BOOLEAN]
  BY DEF Finish
<1> QED
  BY <1>1, <1>2, <1>3 DEF Finish

LEMMA TypeOfPoll ==
    ASSUME IInv, NEW c \in Conn, Poll(c)
    PROVE  TypeOK'
<1> USE DEF IInv, TypeOK
<1>1. CASE StartScript(c)
  <2>1. PICK p \in Pid : /\ pid' = [pid EXCEPT ![c] = p]
                         /\ handlers' = Registered(handlers, p, [act |-> "ready", conn |-> c])
    BY <1>1 DEF StartScript
  <2>2. HandlerTypeOK(Callback)'
    BY <1>1, <2>1 DEF StartScript, HandlerTypeOK, Registered, Callback
  <2>3. /\ task' \in [Conn -> Task] /\ script' \in [Conn -> Process]
        /\ woken' \in [Conn -> BOOLEAN] /\ childInput' \in [Conn -> BOOLEAN]
    BY <1>1 DEF StartScript, Goto, Task, Process
  <2>4. pid' \in [Conn -> Pid \cup {NoPid}] /\ holders' \in [Conn -> SUBSET Conn]
    BY <1>1, <2>1 DEF StartScript
  <2> QED
    BY <1>1, <2>2, <2>3, <2>4 DEF StartScript, flagVars
<1>2. CASE StartFails(c)
  BY <1>2 DEF StartFails, Goto, Task, Over, handlerVars, HandlerTypeOK, flagVars, scriptVars
<1>3. CASE SuccessIndicated(c) \/ ReadPending(c)
  <2>1. Open(c) /\ RegisterWaker(c) /\ signalled' \in BOOLEAN
    BY <1>3 DEF SuccessIndicated, ReadPending, Polls, Open, HandlerTypeOK
  <2>2. HandlerTypeOK(Callback)'
    BY <2>1, TypeOfRegister
  <2>3. task' \in [Conn -> Task] /\ woken' \in [Conn -> BOOLEAN]
    BY <1>3 DEF SuccessIndicated, ReadPending, Goto, Task
  <2> QED
    BY <1>3, <2>2, <2>3 DEF SuccessIndicated, ReadPending, flagVars, scriptVars
<1>4. CASE FailureIndicated(c) \/ ReadEof(c)
  <2>1. Open(c) /\ RegisterWaker(c) /\ signalled' \in BOOLEAN
    BY <1>4 DEF FailureIndicated, ReadEof, Polls, Open, HandlerTypeOK, Finish
  <2>2. HandlerTypeOK(Callback)'
    BY <2>1, TypeOfRegister
  <2>3. Finish(c, "error") \/ Finish(c, "whole")
    BY <1>4 DEF FailureIndicated, ReadEof
  <2> QED
    BY <2>2, <2>3, TypeOfFinish DEF Over
<1>5. CASE BodyBroken(c)
  <2>1. /\ Open(c) /\ signalled' \in BOOLEAN
        /\ Finish(c, "error") \/ Finish(c, "cut")
        /\ RegisterWaker(c) \/ UNCHANGED <<mpc, pidReady, isReady, handlers, running>>
    BY <1>5 DEF BodyBroken, WritesBody, Polls, Open, HandlerTypeOK, Finish
  <2>2. HandlerTypeOK(Callback)'
    <3>1. CASE RegisterWaker(c)
      BY <2>1, <3>1, TypeOfRegister
    <3>2. CASE UNCHANGED <<mpc, pidReady, isReady, handlers, running>>
      BY <2>1, <3>2 DEF HandlerTypeOK
    <3> QED
      BY <2>1, <3>1, <3>2
  <2> QED
    BY <2>1, <2>2, TypeOfFinish DEF Over
<1>6. CASE Disconnect(c)
  <2>1. HandlerTypeOK(Callback)' /\ Finish(c, "dropped")
    BY <1>6 DEF Disconnect, HandlerTypeOK, Finish
  <2> QED
    BY <2>1, TypeOfFinish DEF Over
<1>7. CASE BodyPending(c) \/ BodyWritten(c) \/ EndWritten(c) \/ BodyFinished(c)
  <2>1. Open(c) /\ AfterBody(c) /\ signalled' \in BOOLEAN
    BY <1>7 DEF BodyPending, BodyWritten, EndWritten, BodyFinished, WritesBody, Polls, Open, HandlerTypeOK
  <2>2. HandlerTypeOK(Callback)'
    <3>1. RegisterWaker(c) \/ UNCHANGED <<mpc, pidReady, isReady, handlers, running>>
      BY <2>1 DEF AfterBody
    <3> QED
      BY <2>1, <3>1, TypeOfRegister DEF HandlerTypeOK
  <2>3. task' \in [Conn -> Task] /\ woken' \in [Conn -> BOOLEAN]
    BY <2>1 DEF AfterBody, Goto, Task
  <2>4. CASE BodyPending(c) \/ EndWritten(c) \/ BodyFinished(c)
    BY <2>2, <2>3, <2>4 DEF BodyPending, EndWritten, BodyFinished, flagVars, scriptVars
  <2>5. CASE BodyWritten(c)
    <3>1. PICK n \in 1 .. (Capacity - inPipe[c]) :
            /\ n <= bodyLeft[c]
            /\ bodyLeft' = [bodyLeft EXCEPT ![c] = @ - n]
            /\ inPipe' = [inPipe EXCEPT ![c] = @ + n]
            /\ \E open \in BOOLEAN : childInput' = [childInput EXCEPT ![c] = open]
      BY <2>5 DEF BodyWritten
    <3>2. bodyLeft' \in [Conn -> Nat] /\ \A d \in Conn : bodyLeft'[d] <= Body[d]
      <4>1. inPipe[c] \in Nat /\ Capacity \in Nat /\ \A d \in Conn : bodyLeft[d] \in Nat /\ Body[d] \in Nat
        BY CgiAssumption
      <4>2. n \in Nat /\ bodyLeft[c] - n \in Nat /\ bodyLeft[c] - n <= Body[c]
        BY <3>1, <4>1
      <4> QED
        BY <3>1, <4>2
    <3>3. inPipe' \in [Conn -> 0 .. Capacity]
      BY <3>1, CgiAssumption
    <3>4. childInput' \in [Conn -> BOOLEAN] /\ inputReady' \in [Conn -> BOOLEAN]
      BY <2>5, <3>1 DEF BodyWritten
    <3> QED
      BY <2>2, <2>3, <2>5, <3>2, <3>3, <3>4 DEF BodyWritten
  <2> QED
    BY <1>7, <2>4, <2>5
<1>8. CASE ReadData(c)
  <2>1. HandlerTypeOK(Callback)'
    BY <1>8, TypeOfRegister DEF ReadData, Polls, Open, HandlerTypeOK
  <2>2. PICK n \in 1 .. outPipe[c] :
            /\ outPipe' = [outPipe EXCEPT ![c] = @ - n]
            /\ received' = [received EXCEPT ![c] = @ + n]
    BY <1>8 DEF ReadData
  <2>3. received[c] + n <= MaxOut[c]
    <3>1. /\ written[c] = received[c] + outPipe[c] /\ written[c] <= MaxOut[c]
          /\ received[c] \in Nat /\ outPipe[c] \in Nat /\ MaxOut[c] \in Nat
      BY CgiAssumption DEF OutputInv
    <3> QED
      BY <2>2, <3>1
  <2>4. received' \in [Conn -> Nat] /\ \A d \in Conn : received'[d] <= MaxOut[d]
    BY <2>2, <2>3, CgiAssumption
  <2>5. outPipe' \in [Conn -> 0 .. Capacity] /\ outputReady' \in [Conn -> BOOLEAN]
    BY <1>8, <2>2, CgiAssumption DEF ReadData
  <2> QED
    BY <1>8, <2>1, <2>4, <2>5 DEF ReadData
<1> QED
  BY <1>1, <1>2, <1>3, <1>4, <1>5, <1>6, <1>7, <1>8 DEF Poll

LEMMA TypeOfMain ==
    ASSUME IInv, MainTurn \/ Interrupt
    PROVE  TypeOK'
<1> USE DEF IInv, TypeOK
<1>0. SizeMax \in Nat /\ \A n \in Int : Wrap(n) \in 0 .. SizeMax
  BY ChildProcessAssumption DEF Wrap
<1>1. CASE Select
  <2>1. HandlerTypeOK(Callback)'
    BY <1>1 DEF Select, SelectReturns, HandlerTypeOK, MainPc
  <2>2. /\ errorReady' \in [Conn -> BOOLEAN] /\ outputReady' \in [Conn -> BOOLEAN]
        /\ inputReady' \in [Conn -> BOOLEAN] /\ woken' \in [Conn -> BOOLEAN]
    BY <1>1 DEF Select, Open
  <2> QED
    BY <1>1, <2>1, <2>2 DEF Select, scriptVars
<1>2. ASSUME HandlerTypeOK(Callback)', UNCHANGED <<serverVars, scriptVars>>
      PROVE  TypeOK'
  BY <1>2 DEF serverVars, flagVars, scriptVars
<1>3. CASE (LockCount \/ ReadCount \/ UnlockCount) /\ UNCHANGED <<serverVars, scriptVars>>
  <2>1. HandlerTypeOK(Callback)'
    BY <1>3 DEF LockCount, ReadCount, UnlockCount, HandlerTypeOK, MainPc
  <2> QED
    BY <1>2, <1>3, <2>1
<1>4. CASE NothingToReap \/ QueueEmpty
  <2>1. HandlerTypeOK(Callback)'
    BY <1>4 DEF NothingToReap, StoreCount, QueueEmpty, ExecutorStepReturns, HandlerTypeOK, MainPc
  <2> QED
    BY <1>2, <1>4, <2>1 DEF NothingToReap, QueueEmpty
<1>5. CASE Interrupt
  <2>1. pidReady' \in 0 .. SizeMax
    <3>1. Wrap(pidReady + 1) \in 0 .. SizeMax
      BY <1>0 DEF HandlerTypeOK
    <3> QED
      BY <1>5, <3>1 DEF Interrupt, SignalHandler, HandlerTypeOK
  <2>2. HandlerTypeOK(Callback)'
    BY <1>5, <2>1 DEF Interrupt, SignalHandler, HandlerTypeOK, MainPc
  <2> QED
    BY <1>2, <1>5, <2>2 DEF Interrupt
<1>6. ASSUME NEW c \in Conn, Reap(c)
      PROVE  TypeOK'
  <2>1. Wrap(isReady - 1) \in 0 .. SizeMax
    BY <1>0 DEF HandlerTypeOK
  <2>2. pid[c] \in Pid
    BY <1>6 DEF Reap, TaskInv, Ended
  <2>3. HandlerTypeOK(Callback)'
    BY <1>6, <2>1, <2>2 DEF Reap, ReapPid, HandlerTypeOK, MainPc
  <2>4. script' \in [Conn -> Process]
    BY <1>6 DEF Reap, Process
  <2> QED
    BY <1>6, <2>3, <2>4 DEF Reap, serverVars, flagVars
<1>7. CASE RunCallback
  <2>1. HandlerTypeOK(Callback)'
    BY <1>7 DEF RunCallback, CallbackRuns, HandlerTypeOK, MainPc
  <2>2. processRan' \in [Conn -> BOOLEAN]
    BY <1>7 DEF RunCallback
  <2>3. woken' \in [Conn -> BOOLEAN]
    <3>1. Open(running.conn) \in BOOLEAN
      BY DEF Open
    <3>2. woken' = woken \/ woken' = [woken EXCEPT ![running.conn] = Open(running.conn)]
      BY <1>7 DEF RunCallback
    <3> QED
      BY <3>1, <3>2
  <2> QED
    BY <1>7, <2>1, <2>2, <2>3 DEF RunCallback, flagVars, scriptVars
<1> QED
  BY <1>1, <1>3, <1>4, <1>5, <1>6, <1>7 DEF MainTurn

LEMMA TypeOfProcess ==
    ASSUME IInv, NEW c \in Conn,
           Progress(c) \/ ScriptBeginsWrite(c) \/ ScriptExits(c) \/ ScriptCrashes(c)
    PROVE  TypeOK'
<1> USE DEF IInv, TypeOK
<1>1. HandlerTypeOK(Callback)' /\ ScriptFrame(c)
  BY DEF Progress, Execve, IndicateFailure, FailedExits, ScriptReads, ScriptWrites, ScriptCompletes,
     ScriptBeginsWrite, ScriptExits, ScriptCrashes, End, ScriptFrame, HandlerTypeOK
<1>2. CASE Execve(c) \/ IndicateFailure(c) \/ ScriptBeginsWrite(c)
  <2>1. script' \in [Conn -> Process]
    BY <1>2 DEF Execve, IndicateFailure, ScriptBeginsWrite, Process
  <2>2. holders' \in [Conn -> SUBSET Conn]
    BY <1>2 DEF Execve, IndicateFailure, ScriptBeginsWrite
  <2>3. errPipe' \in [Conn -> BOOLEAN]
    BY <1>2 DEF Execve, IndicateFailure, ScriptBeginsWrite
  <2> QED
    BY <1>1, <1>2, <2>1, <2>2, <2>3 DEF Execve, IndicateFailure, ScriptBeginsWrite, ScriptFrame, serverVars, flagVars
<1>3. CASE FailedExits(c) \/ ScriptExits(c) \/ ScriptCrashes(c) \/ ScriptCompletes(c)
  <2>1. End(c, "failed") \/ End(c, "exited") \/ End(c, "killed")
    BY <1>3 DEF FailedExits, ScriptExits, ScriptCrashes, ScriptCompletes
  <2>2. script' \in [Conn -> Process] /\ holders' \in [Conn -> SUBSET Conn] /\ crashed' \in SUBSET Conn
    BY <2>1 DEF End, Process, Ended
  <2> QED
    BY <1>1, <2>1, <2>2 DEF End, ScriptFrame, serverVars, flagVars
<1>4. CASE ScriptReads(c)
  <2>1. inPipe' \in [Conn -> 0 .. Capacity]
    BY <1>4, CgiAssumption DEF ScriptReads
  <2> QED
    BY <1>1, <1>4, <2>1 DEF ScriptReads, ScriptFrame, serverVars, flagVars
<1>5. CASE ScriptWrites(c)
  <2>1. outPipe' \in [Conn -> 0 .. Capacity]
    BY <1>5, CgiAssumption DEF ScriptWrites
  <2>2. written[c] < MaxOut[c]
    BY <1>5 DEF ScriptWrites, OutputInv
  <2>3. written' \in [Conn -> Nat] /\ \A d \in Conn : written'[d] <= MaxOut[d]
    <3>1. written' = [written EXCEPT ![c] = @ + 1]
      BY <1>5 DEF ScriptWrites
    <3>2. written[c] \in Nat /\ MaxOut[c] \in Nat
      BY CgiAssumption
    <3>3. written[c] + 1 \in Nat /\ written[c] + 1 <= MaxOut[c]
      BY <2>2, <3>2
    <3> QED
      BY <3>1, <3>3
  <2>4. script' \in [Conn -> Process]
    BY <1>5 DEF ScriptWrites, Process
  <2> QED
    BY <1>1, <1>5, <2>1, <2>3, <2>4 DEF ScriptWrites, ScriptFrame, serverVars, flagVars
<1> QED
  BY <1>2, <1>3, <1>4, <1>5 DEF Progress

LEMMA TypeStep ==
    ASSUME IInv, [Next]_vars
    PROVE  TypeOK'
<1>1. CASE UNCHANGED vars
  BY <1>1 DEF IInv, TypeOK, HandlerTypeOK, vars, handlerVars, serverVars, flagVars, scriptVars
<1> QED
  BY <1>1, TypeOfPoll, TypeOfMain, TypeOfProcess DEF Next
-----------------------------------------------------------------------------
(* The theorems.                                                           *)

LEMMA InvInit == Init => IInv
<1> SUFFICES ASSUME Init PROVE IInv
  OBVIOUS
<1>1. \A c \in Conn : /\ task[c] = "none" /\ script[c] = "none" /\ pid[c] = NoPid
                      /\ outputReady[c] = FALSE
                      /\ written[c] = 0 /\ received[c] = 0 /\ outPipe[c] = 0
  BY DEF Init
<1>2. running = NoHandler /\ \A p \in Pid : handlers[p] = NoHandler
  BY DEF Init, HandlerInit
<1>3. \A c \in Conn : ~Open(c) /\ ~There(c)
  BY <1>1 DEF Open, There, Alive, Ended
<1>4. TaskInv /\ OutputInv
  BY <1>1, <1>3 DEF TaskInv, OutputInv
<1>5. PidInv /\ HandlerInv /\ ReapedInv /\ KillHitsOwn
  BY <1>2, <1>3 DEF PidInv, HandlerInv, ReapedInv, KillHitsOwn
<1> QED
  BY <1>4, <1>5, TypeInit DEF IInv

(* What holds of every script, its process, its number and its output.     *)
THEOREM Invariant == Spec => []IInv
<1>1. IInv /\ [Next]_vars => IInv'
  BY TypeStep, TaskInvStep, OutputInvStep, PidInvStep, HandlerInvStep, ReapedInvStep,
     KillHitsOwnStep DEF IInv
<1> QED
  BY InvInit, <1>1, PTL DEF Spec

(* Every variable keeps its type; a pipe never holds more than it can, and *)
(* nobody writes or reads more than there is (cgi/Cgi.cpp:52-152).         *)
THEOREM TypeCorrect == Spec => []TypeOK
<1>1. IInv => TypeOK
  BY DEF IInv
<1> QED
  BY <1>1, Invariant, PTL

(* kill hits nobody else's script, but for the two exceptions that the     *)
(* property names (the destructor, cgi/Cgi.cpp:430-440).                   *)
THEOREM KillSafe == Spec => []KillHitsOwn
<1>1. IInv => KillHitsOwn
  BY DEF IInv
<1> QED
  BY <1>1, Invariant, PTL

(* A response ends regularly only once its script has, and with all that   *)
(* the script wrote (poll_read, cgi/Cgi.cpp:130-152).                      *)
THEOREM Whole == Spec => AnswerIsWhole
<1>1. ASSUME IInv, [Next]_vars, NEW c \in Conn, task[c] = "read", task'[c] = "whole"
      PROVE  Gone(c) /\ received[c] = written[c]
  <2> USE DEF IInv
  <2>0. task \in [Conn -> Task]
    BY <1>1 DEF TypeOK
  <2>1. CASE ReadEof(c)
    <3>1. outputReady[c] /\ outPipe[c] = 0
      BY <2>1 DEF ReadEof
    <3>2. written[c] = received[c] + outPipe[c] /\ received[c] \in Nat /\ Gone(c)
      BY <1>1, <3>1 DEF OutputInv, TypeOK
    <3> QED
      BY <3>1, <3>2
  <2>2. ASSUME NEW d \in Conn, Poll(d), ~(d = c /\ ReadEof(c)) PROVE FALSE
    <3>1. CASE d # c
      <4>1. \A e : (\E place, again : Goto(d, place, again)) => task'[c] = task[c]
        BY <2>0, <3>1 DEF Goto
      <4>2. (\E place, again : Goto(d, place, again)) \/ task' = task
        BY <2>2 DEF Poll, StartScript, StartFails, SuccessIndicated, FailureIndicated, BodyPending,
           BodyWritten, EndWritten, BodyFinished, BodyBroken, AfterBody, ReadData, ReadPending, ReadEof,
           Disconnect, Finish
      <4> QED
        BY <1>1, <4>1, <4>2
    <3>2. CASE d = c
      BY <1>1, <2>0, <2>2, <3>2 DEF Poll, StartScript, StartFails, SuccessIndicated, FailureIndicated,
         BodyPending, BodyWritten, EndWritten, BodyFinished, BodyBroken, AfterBody, ReadData, ReadPending, ReadEof,
         Disconnect, Finish, Goto, Polls, WritesBody
    <3> QED
      BY <3>1, <3>2
  <2>3. CASE ~\E d \in Conn : Poll(d)
    <3>1. task' = task
      BY <1>1, <2>3, MainSteps, ProcessSteps DEF Next, OtherStep, ProcessStep, RunCallback, Reap, serverVars
    <3> QED
      BY <1>1, <3>1
  <2> QED
    BY <2>1, <2>2, <2>3
<1>2. IInv /\ [Next]_vars => [\A c \in Conn : (task[c] = "read" /\ task'[c] = "whole") =>
                                Gone(c) /\ received[c] = written[c]]_vars
  BY <1>1
<1> QED
  BY <1>2, Invariant, PTL DEF AnswerIsWhole, Spec
=============================================================================
