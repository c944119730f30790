# TLA+ verification of webserv

An HTTP server in C++20 built on its own asynchronous runtime: futures are
polled by an executor, with or without worker threads; the main thread runs a
`select` reactor, a timer and a child-process handler, whose callbacks wake
tasks up. A listener accepts connections; each connection parses requests,
lets a service choose what answers them, and copies the response to the client:
a file, a listing, what an upstream or a CGI script sends.

Contents: [inventory](#1-inventory), [modules](#2-modules),
[runs](#3-runs), [fairness](#4-fairness), [proofs](#5-proofs),
[what the checks found](#6-what-the-checks-found), [plan](#7-plan),
[not modelled](#8-not-modelled).

## 1. Inventory

| Component | State it keeps | Operations | What is hard | What makes it correct |
|---|---|---|---|---|
| Pooled executor (`ioruntime/PooledExecutor`) | a FIFO per worker, `spawn_head`, `tasks_running` | `spawn`, `respawn`, `step`, worker loop, `steal_task` | workers, thieves, wakers and spawns interleave at every mutex | a future is polled by one worker at a time and never after its end; no queued task starves; the count is exact; no wake-up is lost |
| Threadless executor (`ioruntime/ThreadlessExecutor`) | one FIFO, `tasks_until_completion` | `spawn`, `respawn`, `step` | wakers and spawns run inside polls | `step` ends; the front is what is polled; the end of the program |
| Task cell, waker (`futures/Task`, `futures/Waker`) | `future`, `stale`, `in_use` | `consume`, `deconsume`, `operator()` | one task has several queue entries | hand-over of the future |
| Runtime loop (`ioruntime/Runtime`, `GlobalRuntime`) | handlers, the executor, the global lock | `naive_run`, `spawn` | when the program ends | returns when all tasks are done |
| Select reactor (`ioruntime/IoEventHandler`) | per direction: `fd_set`, descriptors in use, callbacks | `register_*`, `unregister_*`, `reactor_step` | works on copies while workers change the originals | no callback lost, none inherited by a reused number |
| File descriptor (`ioruntime/FileDescriptor`, `func/SetReadyFunctor`) | `ready_to_read`, `ready_to_write` | ctor, dtor, `poll_read`, `poll_write` | flag, callback and waker are three steps | waiting data is read |
| Listener (`net/TcpListener`, `futures/ForEachFuture`) | `connection_ready` | ctor, `poll_next` | blocking `accept`; failure path | every client is accepted |
| Timeouts (`ioruntime/TimeoutEventHandler`, `TimeoutFuture`) | ordered timeouts, connection flags | `register_timeout`, `disconnect`, `reactor_step` | a timer fires while its owner goes away | fires once, never after disconnect returned |
| Child handler (`ioruntime/GlobalChildProcessHandler`) | signal count, callbacks by pid | signal handler, `register_handler`, `reactor_step` | signals interrupt the reactor | every child is reaped and reported |
| CGI (`cgi/Cgi`) | three pipes, a pid, what the child is known to have done | ctor, `poll*`, dtor | fork, inherited pipes, reused numbers, both pipes full | the whole answer or an error; nobody else's script is killed |
| Connection (`http/Server`) | state, parser, response, timer | `poll` | errors in each state, inactivity | one response per request |
| Copy future (`ioruntime/IoCopyFuture`) | buffer, offsets, end-of-file flag | `poll` | partial writes | bytes are neither lost nor repeated |
| Parsers (`http/*Parser`, `ioruntime/CharacterStream`) | state, buffer, limits, a character given back | `poll`, `poll_next`, `shift_back` | any portions of the text, limits, chunk framing | the verdict the message itself has |
| Readers and bodies (`http/*Reader`, `http/IncomingBody`) | the rest of a piece, a chunk | `poll_read` | small buffers, sections, chunks | a text that can be taken apart again |
| Proxy (`http/Proxy`) | a connection, a copier, a parser | `poll` | forwards a request, then parses | the upstream's response |
| Routing and configuration (`main.cpp`, `config`) | the configuration tree | matching of servers and locations, inheritance, checks | precedence, three loops that depend on each other | the right server and locations; nothing forbidden is served |
| Shared ownership (`boxed`, `option`, `mutex`) | one counter, under a mutex of its own (`RcPtr.hpp:160-178`) | copy, release | concurrent releases | destroyed once |

Interaction: `naive_run` (main thread) gives each handler a turn and then asks
the executor whether any task is left. A handler's turn runs callbacks. A
callback either sets a readiness flag (`SetReadyFunctor`) or is a `Waker`, which
calls `respawn` of the task's executor, which appends the task to a queue. A
worker, or the main thread inside `step`, pops a task, takes the future out of
its cell, polls it with a waker, and puts it back if the poll is pending. Polls
register wakers with the handlers and spawn tasks. Everything is shared under
one mutex per object.

## 2. Modules

### TaskCell
`Task::InnerTask` as a record, `consume` as the pair `Consume` (what it returns)
and `Consumed` (the cell after it), `deconsume` as `Deconsumed`. Both executors
extend it.

### TaskLifecycle
The abstract specification of an executor: a future is polled by one thread at a
time, a thread polls one future at a time, a future that completed or threw is
never polled again. It knows no queue, waker or worker loop.

### PooledExecutor
One action per critical section. `SpawnBoxed` .. `SpawnCount` are the runtime
lock and the three blocks of `spawn`; `PopOwn`, `StealTask`, `ConsumeTask`,
`DeconsumeTask`, `FinishTask` are the worker's loop; `FireWaker` is a handler's
turn, `RespawnHead` and `RespawnPush` the waker it runs; `ExecutorStep` is `step()`.
`StealTask` visits the other queues one lock at a time, so a queue can fill
behind a thief. `pc`, `cur`, `child`, `target` and `slot` are the threads' local
variables. A poll is any number of `RegisterWaker`, `PollWake` and `PollSpawn`, and then
one of `PollPending`, `PollReady`, `PollThrow`. `PollWake` is a waker run by the poll
it belongs to, on the worker: the readers of `http/` do so whenever they have handed out
bytes (`http/MessageReader.cpp:156`, `http/OutgoingResponse.cpp:273`). The contract of a
future is that it returns pending only after handing out its waker, as `poll_read`,
`poll_write` and `TimeoutFuture::poll` do. The line stream of the standard
input, which is built with the module loader, returns pending on the strength of
having run its waker (`ioruntime/FdLineStream.hpp:78`); it is left out. So does a message reader
between two sections (`http/MessageReader.cpp:173`), but the copier around it
then writes, which is what IoCopyFuture is about.
`done` and `failed` are history: the code keeps neither.

### ThreadlessExecutor
The same with one thread and one queue whose front stays in place during its
poll. Handlers and `step` alternate (`pc` is "reactor" or "step"). `PollWake` feeds
the `step()` it runs in, at most `MaxSelfWakes` times per `step()`.

### IoEventHandler
One direction of the reactor: `fds` (`read_fds`), `inUse` (`read_fd_in_use`),
`listeners` (`read_listeners`), and the locals of `reactor_step` and
`safe_fire_listeners`: `selected`, `visit` and `hand` (the callbacks moved out of
the table). Each operator is one critical section. It has no behaviour of its
own; two modules extend it with the owners of callbacks.

### FileDescriptor
Tasks that own a `FileDescriptor` each, on descriptor numbers that are reused
after `close`. `ReadNotReady`, `ReadData`, `ReadAgain` are the branches of
`poll_read`; `ReadyAgain`, `WakerAgain`, `WakerAfterData` its registrations,
separate steps because the reactor may fire between them; `locked` says that
they are made under the lock of the flag (the `EAGAIN` branch). That branch is there
only in a build with `EVIL_CHECK_ERRNO` (`CMakeLists.txt:14`, the Makefile's `bonus` target, `:23` and
`:136`); in the Makefile's other builds the same read is an error.
`ReadError` is any read that fails, in any build: both callbacks are registered (`AfterReady`, `WakerAfterError`),
the future throws (`CharacterStream.cpp:36`), and the object is destroyed. The executor is
reduced to a number of queue entries per task. `Pooled` chooses whether polls
run beside the reactor or only in its `executor->step()`.

### TcpListener
The listener's callback (no key) and waker (key 1), `poll_next` with its
success, failure and "misfired" paths, and `ForEachFuture::poll`, which turns a
client or a reported error into pending. `accept` is only enabled with a
client in the backlog: with none, the model's thread waits, as the code's does. A client that resets its connection
may `Leave` the backlog before it is accepted (accept(2)); `left` remembers that one did.

### TimeoutEventHandler
The multimap of timers and the phases of `reactor_step`: `ReadClock`, `CollectDue` (under
the lock), `CallbackRun` (without it), `SweepUsed` (under it again). An entry names the flag
its functor sets and the state of its connection. Time is relative: an entry holds what is
left until its tick. The clock moves at most once while the handler holds a reading it has
not used. No behaviour of its own.

### Connection
`ConnectionFuture` and the `TimeoutFuture` it owns, on top of TimeoutEventHandler. `state` is
`_state`; `pc` is the place inside `poll`. `Renew` and `Replace` are `_timeout = TimeoutFuture(..)`:
construct and register, then move in, which disconnects the old one. `TimerRegister`,
`TimerConnect` and `TimerRead` are `TimeoutFuture::poll`. The parser, the response future and the
copier are reduced to what their polls return. `nested` tells the two ways into PollResponse
apart: from the try block of Listen, or from the executor. The executor is reduced to
a number of queue entries per task.

### ChildProcessHandler
The signal handler as an interruption of the main thread at any of its steps, with the count
it shares with `reactor_step`: the copy that is read, decreased as children are reaped and
written back, in `size_t` (`SizeMax`). The mutex that the handler asks for may be held by the
thread it interrupted: then `mpc` is "hung", for ever. `ReapPid` is `waitpid`
with the lookup of the callback, `CallbackRuns` its call. Cgi extends it.

### Cgi
The class `Cgi`, the child process, and the readers that answer with its output. `task` is the
state of the response: "check" is CheckCgiState (`poll_success`), "write" and "read" are the two
states of `CgiReader`. The child's side begins with the code of the server it runs after `fork`
(`Execve`, `IndicateFailure`); the script itself reads, writes, exits and crashes as it
likes. `holders` are the children that inherited the writing end of a pipe that another
connection made, which is why a script may not see the end of its input. A process number may be given again once it was
reaped. A body's end closes the pipe at once, or, when the copier's buffer was full and for a body that is there but empty,
after a write of nothing (`EndWritten`). The client can always be written to: with a client that is slow the same steps happen less often.

### ByteTransfer, IoCopyFuture, MessageReader
ByteTransfer is the abstract specification of a copy: the receiver has a prefix of the text, and
all of it when the copy is complete. IoCopyFuture is `IoCopyFuture<void, void>::poll`, a buffer
that is filled by a reader until it is full, pending or at its end, and then written in parts;
MessageReader holds the readers it uses: a response's status line or a request's line (for the
proxy), headers, terminator, and a body with a length or in chunks. A symbol stands for a few
bytes and says what they are, so that a byte lost, repeated or in the wrong place is seen. A reader whose next piece is
empty returns 0 bytes, the end of its section to its caller; `EndWakes` says which ends have run the waker. What a
receiver makes of a body in chunks is an automaton, `Receive`, that takes a symbol at a time. The
other three instances of the class template, in `IoCopyFuture.ipp`, repeat the code with readers and
writers of their own.

### CharacterStream, MessageParser, RequestParser, ResponseParser, Parsing
A chain of extensions, as the parsers use each other. CharacterStream yields symbols from what the
descriptor has, and takes one back. MessageParser has one action per `inner_poll` and state
(header lines, body, the three states of a chunked body, the body that moves to a file);
RequestParser and ResponseParser add the start lines. Parsing puts a text in front of them: a message, or
a part of one, in any portions, from a peer that closes its connection after it or does not.
The properties compute what the parser must find from the message, without a
parser: `Verdicts` are the errors its parts have, in their order, and the first one counts. What makes the
constructor of `Uri` throw is a symbol (`NotUri`, `HeaderError`), sizes are numbers below `SizeModulus`, and the two sums of
a chunk's size wrap (`Wrapped`).

### RequestService
The service of an address in `main.cpp`: version, server, locations, settings, credentials, method, limit,
and then what answers. A path is a number of positions; a location's pattern is a function from where it
starts to where its match ends, or `NoMatch`. Everything asked of the file system may
have any answer.

### RequestHandling
The composition of Parsing and RequestService in the state Listen of a connection: when the parser has completed a request,
`CallService` calls the service with one that has the version, the kind of method and the size of the body that the parser found (`Built`; its
path, host and credentials, which the parser has no use for, may be any); when it threw, `AnswerError` answers with what
the list of catch clauses has for the exception (`StatusOf`). The timer, and what becomes of the answer, are in Connection.

### Proofs
`PooledExecutorProofs`, `ThreadlessExecutorProofs`, `FileDescriptorProofs`, `TcpListenerProofs`,
`ConnectionProofs`, `CgiProofs` and `IoCopyFutureProofs` hold the theorems about the module each is named for,
and `HttpProofs` those about RequestService, Parsing and RequestHandling, see [proofs](#5-proofs).

`MC*` modules only name the elements of the constants; the rest is in the
`.cfg` files.

## 3. Runs

| Run | Instance | Shows |
|---|---|---|
| pooled_two | 2 workers, a root task and a child, 1 event source, wakers run on empty queues, fair | `FutureOwnedOnce`, `TasksRunningExact`, `ExitLeavesOnlySpawner`, `QueuedIsPolled`, `CompletionEndsRun`; implements `TaskLifecycle` |
| pooled_strand | 2 workers | **violated**: `NoTaskStranded` |
| threadless | 3 tasks, 2 sources, 2 self-wakes per `step()`, fair | `ExitMeansAllDone`, `NoTaskStranded`, `StepEnds`, `WokenIsPolled`, `CompletionEndsRun`; implements `TaskLifecycle` |
| fd_pooled | 3 objects, one number, workers, `EVIL_CHECK_ERRNO`, fair | `ReadyOrArmed`, `WaitingIsWakeable`, `CallbacksOfOwner`, `WatchesOpenOnly`, `DataIsRead` |
| listen | one thread, one accept may fail, backlog up to 5, fair | `FlagBeforeWaker`, `BlocksOnlyForLeaver`, `AcceptedUnlessFailed`; callbacks do not pile up |
| conn | one connection, a worker, a timer of 1 unit, fair | `TimerWakes`, `NotBeforeTime`, `OneResponse`, `RespondEnds`; the table's order (`TypeOK`) |
| conn_silent | one connection, one thread, fair | **violated**: `SilentIsTimedOut` |
| cgi | two scripts, two numbers, pipes of one unit, fair | `KillHitsOwn`, `AnswerIsWhole`, `ResponseEnds` |
| cgi_failed | one script | **violated**: `FailureIsErrored` |
| copy | a buffer of 4 symbols, chunks of 3, 48 messages without empty pieces, fair | `ChunksDecode`, `CopyEnds`; implements `ByteTransfer` (`TransfersMessage`) |
| handling | 80 messages and every beginning of each, two settings of the limits; two servers of one address, nested locations, every level of settings; fair | `ParsedAsSent`, `ParseEnds`, `ServedHasHost`, `ServerOfHost`, `LongestLocation`, `ServedIsAllowed` |
| wrong_refused | the same | **violated**: `WrongIsRefused` |

Bounds. Two workers are enough for every race of the worker loop: the
interesting pair is the worker that polls a task and one that pops another entry
of it. One task may have a queued entry, an entry in a worker's hand and an entry in the
waker's hand at once, which `MaxQueued` = 3 allows; the bound sits in the guard
of `FireWaker` and `PollWake`, so the state space stays finite while wakers simply run
later. In pooled_two, which also checks liveness, it is 1: entries still meet, because two
threads can pass the guard together and a spawn is not bounded by it; its safety properties
are proved for every bound. Two tasks let a spawn be inside another task's poll. In FileDescriptor
two entries per task (`MaxEntries`) cover a wake-up that arrives while one is
queued, and `MaxAvail` = 2 a chunk that arrives behind another; a third object
makes a number change hands twice. In TcpListener the backlog is larger than
the number of clients one round of the reactor can accept. In Connection a timer of 1 unit
lets the reactor hold a due functor while its timer is renewed and the new one is not due. A
descriptor fires only below `MaxClocks` = 3 timers in the table, and with workers a poll registers a timer only below
it: otherwise a turn of the reactor, which erases what is over, comes first. Three hold a timer of the connection
and two that are over or under construction. `MaxBytes` is 1, as the first byte makes the difference. Further
wake-ups of a task that has `MaxEntries` queue entries are merged.

In Cgi two connections are what one script needs to inherit another's pipe or to be given its number; one
of them has a body (`HasBody`) and an output of one unit, which fills its pipe. `SizeMax` = 2 lets the count of
signals wrap. In IoCopyFuture a buffer of 4 is smaller than a header line and larger than a chunk's data, so that
pieces are cut, and meet, at every place; bodies of 0 to 5 units are read in up to five chunks. In Parsing
the buffer's limit is 3, and each part of a message has a size below, at and above its
limit; the limit of the body is the buffer's or larger, because the code does different things
then; a body of 3 moves to a file (`SwitchSize`). `SizeModulus` is 10: it is beyond the limits, as 2^64 is, and chunks end just
below it, at it and beyond it. In RequestService a path of three positions lets
locations match nothing, an empty part or one of two lengths, on two levels. The settings of the levels are varied one kind at
a time, as the code treats each key alone.

`CHECK_DEADLOCK FALSE` is used where the system really stops: the program ends (executors), all
connections are over (connections, scripts), a message is copied, parsed or
answered.

## 4. Fairness

Threads are scheduled: weak fairness of each worker's steps (`WorkerStep`) and
of the main thread's steps; and a poll returns (`PollReturn`), however often it
spawned or ran its waker before: strong fairness, because inside a spawn or a waker
the poll cannot return. Futures are non-blocking by design. In PooledExecutor `ExecutorStep` has its own fairness
because the main thread comes to it in every round of `naive_run`; in
ThreadlessExecutor the same follows from the order of the steps. No event source is
ever obliged to fire, no task to be spawned, no client to connect and no data to
arrive. `StepEnds` rests on `MaxSelfWakes`: a task that woke itself in every poll
would keep `step()` from ever returning. The readers that do so hand out bytes which
leave through `poll_write`, and that clears the flag `ready_to_write`, which only the reactor
sets again. In FileDescriptor and TcpListener a task that has a queue entry is
polled: that is `QueuedIsPolled` and `WokenIsPolled`. In Connection the main thread loops, time
passes and a poll goes on; no descriptor ever has to become ready. Its queue entries are not dropped,
as with one worker: with two or more, the lost wake-up of pooled_strand would refute
`RespondEnds`. In Cgi the main thread runs, signals are delivered, and each process starts, reads
what it is given, finishes a write it began when there is room, and exits at the end of its
input; it need not write, nor exit earlier. In IoCopyFuture the receiver takes what it
is sent sooner or later and the body's source goes on; a receiver that does not is the business of the timer, in
Connection. In Parsing the peer sends the text the instance has, and the file takes what
is written.

## 5. Proofs

**PooledExecutorProofs** proves, for any `WorkerCount`, `Task`, `Root` and
`Source` that satisfy `PoolAssumption` (at least one worker; the names of
threads, tasks and "none" differ), and with no use of `MaxQueued`:

- `TypeCorrect`: `Spec => []TypeOK`
- `PollsOwned`: `Spec => []PollsOwnedFuture`
- `OwnedOnce`: `Spec => []FutureOwnedOnce`
- `CountExact`: `Spec => []TasksRunningExact`
- `ExitSafe`: `Spec => []ExitLeavesOnlySpawner`
- `Refinement`: `Spec => ImplementsLifecycle`
- `SoleWorkerStrandsNone`: if `WorkerCount = 1`, `Spec => []NoTaskStranded`

All but the first need more than themselves. `FutureOwnedOnce` does not say why a worker in
`consume` cannot find a full cell whose task is over, or why the task it holds
was ever made. The invariant `OwnInv` adds:

- `LockOK`: a thread is inside a spawn exactly when it holds the runtime lock;
- `RefsOK`: queues, wakers and locals only name *known* tasks, those whose spawn
  has pushed them. A task in flight is known to nobody, so when a spawn is about
  to push, its child cannot have been polled;
- `SlotsOK`: a worker's `future_slot` is full exactly between a successful
  `consume` and the end of the loop body, and then with the popped task's future;
- `CellsOK`: a cell has one of two forms, full and unmarked or empty and marked
  (`stale` and `in_use`). It is empty exactly while one worker holds the future, or
  for ever once the task is over. `consume` therefore never yields null.

Each part has a lemma for `Init` and one for a step, with a case per operation.
`CountExact` adds that `born` is finite: the count changes by the cardinality
lemmas for adding and removing one element. `ExitSafe` rests on `StepReadsNone`: when
`step()` reads 0, `born \ done` has at most one element; if it has one, some worker is
inside a spawn, the element is that worker's own task, and the spawn is past its push
(otherwise the child would be a second element). `Refinement` maps a step that fills or
empties a `future_slot` to `Begin` or `End`, the runtime lock's taking to `Born`, and
every other step to a stutter.

`SoleWorkerStrandsNone` is the other half of what `pooled_strand` refutes: with `"workers": 1` no task is
ever left without a reference. Its invariant `SoleInv` says that a live task that no worker holds is
parked in a queue, in a handler's table or in the waker the main thread is running (`KeptOK`), that a poll that
registered its waker is on a parked task and only such a poll returns pending (`PollsParked`), and that
pushes go to a queue that exists (`TargetsOK`). A single worker is needed in two
steps only: popping an entry, when no other poll is under way that counts on it, and
a `consume` that is refused, which then is one of a task that is over.

**ThreadlessExecutorProofs**: `TypeCorrect`, `FrontPolled` (`PollsFront`), `NothingStranded`
(`NoTaskStranded`), `ExitSafe` (`ExitMeansAllDone`) and `Refinement` (`ImplementsLifecycle`), for any
tasks and sources. The invariant is the pooled one with a single queue: references name known
tasks (`RefsOK`), the slot holds the front's own future (`SlotOK`), a cell is empty only during
its poll or after its end (`CellsOK`), the count is that of the tasks that are not over
(`CountOK`). `NoTaskStranded` is inductive together with these: whoever is taken from a
handler's wakers is put into the queue in the same step, and the front leaves the queue only
after its future is back in its cell.

**FileDescriptorProofs**: `NeverForgotten` (`ReadyOrArmed`), `Wakeable` (`WaitingIsWakeable`),
`NothingInherited` (`CallbacksOfOwner`), `OnlyOpenWatched` (`WatchesOpenOnly`) and
`TypeCorrect`, for any number of tasks and descriptors, with workers or without, with `EVIL_CHECK_ERRNO` or without. The
invariant says who has a number (`OpenInv`), whose the callbacks of a number are, one per key and only
while its object listens (`TableInv`), and which numbers select is given (`WatchInv`). The argument sorts
the steps by what they do to the callbacks that are on their way: the reactor moves a table
to its hand (`Move`: nothing is lost) or runs one (`Run`: its purpose is fulfilled), a poll adds some
(`AddInv`), goes on (`GoesOn`), or erases the table of its own number (`EraseInv`).

**TcpListenerProofs**: `FlagFollows` (`FlagBeforeWaker`), `TypeCorrect`, and `BlockedByLeaver`: without workers
`accept` finds no client only when one left the backlog after the select that saw it, whatever failed before. The listener's wake-up is a token: it is a
queue entry, a callback in the table, one in the reactor's hand, or gone after a failed accept, and never two of these;
with a single token, no second poll can come between a select that saw a client and the poll that takes it.

**ConnectionProofs**: `SingleResponse` (`OneResponse`), for any connections, timers and workers. As long as a
response may still be replaced, its client has got nothing: from no earlier response either, because a
connection that answers never goes back. `NeverEarly` (`NotBeforeTime`), `WokenByTimer` (`TimerWakes`) and
`TypeCorrect`, for any period. The first two are not inductive: a timer
is an entry of the table, then a functor in the reactor's hand, then a flag that is set, and may be replaced at each place.
`TimerInv` follows it: an entry that sets the flag of a connection's timer has that timer's time left, and a functor in the hand, or
a flag that is set, is of a timer whose time is over (`FlagInv`); a connection that waits with a timer has its waker in an entry
that was not used yet, in the hand, or in the queue (`WakeInv`); and the hand is empty whenever the reactor is not firing (`FiringInv`).
The operators on the table are taken apart first (`NthOfSet` and what follows it): what a table has after it was swept or added
to, and in which order.

**IoCopyFutureProofs**: `TypeCorrect`, `ChunksDecoded` (`ChunksDecode`) and `CopyTransfers` (`TransfersMessage`: the copy
implements ByteTransfer), for any sizes of the buffer and the chunks and any messages without empty pieces (`NoEmptyPiece`); the
invariants for all messages. What a reader yields of a section, empty pieces or not, is `SectionText`, and `SectionWhole` says
that it is all of the section if no piece is empty. The invariant `CopyInv` is about
the *stream*: what was sent, what the buffer or the span has, what is left of the reader's piece, and what the rest of its section
yields, joined. No step but two changes it: reading moves text from its end to its middle, writing from its middle to its
front. The end of a section and a read from the body's source make it longer, and `StageInv` says what it is then: the parts of the head
so far, the head with as much of the body as was read, or, in chunks, the head and something a receiver makes exactly that
of. A read that finds the end of file finds everything read (`EofInv`). Both properties are about `output`, which begins the
stream: a receiver keeps what it has and stays malformed once it is (`ReceivedKeeps`), so it has a
beginning of the units, and was never malformed. The definitions
are recursive functions; that they have the values their recursion says is proved from the well-founded order of the
naturals (`SetInduction`, `Recursion`, `Determined`), a set in the place of the operator that the library's theorems on
induction take.

**CgiProofs**: `KillSafe` (`KillHitsOwn`), `Whole` (`AnswerIsWhole`) and `TypeCorrect`, for any number of scripts, numbers,
bodies and pipes. The invariant relates a response to its process (`TaskInv`), a flag to its pipe (`OutputInv`: it is set only while
there is something to read or the script has ended), numbers to processes (`PidInv`), callbacks to the connections that registered them
(`HandlerInv`), and the callback in the main thread's hand to the process it was taken for (`ReapedInv`). The steps are sorted
into those of a poll, its end, a process, the start of a script, the reaping, and the rest.

**HttpProofs**, on RequestService: `HostServed` (`ServerOfHost`), `LongestMatched` (`LongestLocation`), `OnlyAllowed` (`ServedIsAllowed`) and
`TypeCorrect`, for any configuration and request. The invariant is what a loop knows before each iteration: the default is the first
of those that were passed and none of them has the name (`ServerInv`), the best location is the best of those that were
seen (`LocationInv`), a setting is that of the innermost level that was seen to have it (`SettingsInv`), and the checks that were passed
hold (`CheckInv`).

**HttpProofs**, on Parsing: `MessageParsed` (`ParsedAsSent`), for any set of messages that satisfies `ParsingAssumption` (what the three
sorts of parts are made of, and that a word does not hold its own separator), any portions, any limits, and any sizes of the stream's buffer and of
the body that moves to a file. The theorems are about messages for which the code has a right answer (`Straight`): not those with a
chunk whose size wraps a sum, nor requests with a body of no given length. About these `ParsedAsSent` says less, and
only the run shows it: if they are taken, then with the headers and the body that were sent. `ParsedAsSent` speaks of the end only; what it takes to get there is `ParseInv` (`ParseInvariant`), which relates the symbol by
symbol work of the parsers to `Verdicts`, which is computed of the whole message:

- `StreamInv`: what has arrived is a beginning of the text, and the position the stream is at is where the rest begins (`Rest`);
- `StartInv` and `MessageInv`: the parser is in the k-th part of the text. All parts before it are right (`Passed`), what it has read of this one,
  joined with the rest, is the text from the k-th part on (`At`), and what it has kept is what the parts before say: the words of the start
  line, the headers with the length, the chunked body and the host they announce (`HeadersSaid`), the chunks' data;
- `BuiltInv`: a message that is whole was right in every part but perhaps its host, and its body is the one that was sent.

The argument for a step that reads is always the same: a part is a word, its separator, and more (`StartWords`, `HeaderWords`, `BodyWords`);
so what was read is no longer than the word while it lacks the separator (`WordBegins`), and is the word when the separator is read
(`WordEnds`). A length is therefore exceeded exactly when the word exceeds it, and a line is judged when it is the one that
was sent. A step that throws does so with the verdict on the part it is in, and since all parts before that one are right it is
the verdict on the message (`WrongPart`). `LineStep` does this for headers and the lines before chunks, `ChunkSplit` for the data of a chunk and
its line end, `HasReceived` for a body that only the stream's end ends. That the text is its parts, one after the other, is a recursive function again
(`JoinExists`, `JoinedIs`), by the same induction over a set as in IoCopyFutureProofs.

**HttpProofs**, on RequestHandling: `HandledAsSent` and `HandledByConfig` carry the above over to the composition. To the parser the
service does nothing (`HandlingParses`), and the service has either not been called or is where it would be alone (`ServiceCalled`).
`HostAsked` (`ServedHasHost`) needs both halves, for any messages: a host that was remembered is among the headers, a request of HTTP/1.1 is not
completed without one, and the service gets beyond its first check only with such a request (`HostInv`).

`TypeOK` of Cgi, RequestService and both executors is proved and therefore in no run.

Only model-checked: liveness, which needs ENABLED. Every safety invariant that a run checks is stated by a theorem.

## 6. What the checks found

**A wake-up can be lost with two or more workers** (`pooled_strand`). A task
registers its waker and is still inside its poll; the waker fires and
queues the task; an idle worker pops the entry; `consume` sees `in_use` and
returns false (`futures/Task.cpp:11`), and the worker drops the entry
(`ioruntime/PooledExecutor.cpp:132`). The poll returns pending and `deconsume` puts the
future back. The task is now in no queue and no handler holds its waker: it, and
its future, are destroyed with the last `RcPtr`, while `tasks_running` still counts it.
With one worker, or with the threadless executor, the entry waits in the queue until the
poll is over (`SoleWorkerStrandsNone` and `NothingStranded` prove that none is lost then).

**A silent client is never timed out** (`conn_silent`). In Listen, `poll` polls the timer, which
registers the waker, and then replaces it (`http/Server.cpp:149`). The old timer's entry is
disconnected and erased; the new timer only sets its flag, and nothing polls the connection to look
at it. In Respond the timer is replaced before it is polled, and `RespondEnds` holds.

**A script that could not be started is answered as if it had run** (`cgi_failed`). The child writes "F" to
the error pipe and exits; if it does both between the select and the reaping of one turn of the main loop, `poll_success`
finds the process ended and the pipe's flag not set (`cgi/Cgi.cpp:58-60`), and the "F" is never read.

**A request that cannot be served is not always answered with what is wrong with it** (`wrong_refused`). The run's example is a
malformed target, answered with a 500: the exceptions of `Uri`'s constructor (`http/RequestParser.cpp:116`,
`http/MessageParser.cpp:357`, `:399`) are none that `http/Server.cpp:155-193` knows. For Accept-Charset the parser itself makes
such an exception a `MalformedMessage` (`http/MessageParser.cpp:415-419`). The property fails of two other requests:

- One with a body of no given length. Where the comment promises "the appropriate status error", the parser sets `_can_eof` and
  reads until the client closes (`http/MessageParser.cpp:311-314`), or, when the end of file reaches the other parser, fails
  (`http/RequestParser.cpp:162-164`). `UndeterminedLength`, for which `http/Server.cpp:159` has a 411, is thrown nowhere.
- One with a chunk whose size wraps. `http/MessageParser.cpp:485` adds two unsigned numbers and compares the result with the
  limit. The parser then waits for a length that may have wrapped as well (`:500`), at worst for one character, after which it
  looks at the last element of an empty buffer (`:505`). No such message is completed (`ParsedAsSent`).

Seen on the way. Most are in the models, none has a run of its own, because nothing in the repository
says otherwise or because the consequence is the caller's:

- A poll that throws leaves its task counted for ever, so `naive_run` never returns
  (`ExitLeavesOnlySpawner` and `ExitMeansAllDone` say so).
- A listener whose accept fails registers no waker (`net/TcpListener.cpp:93-98`) and is never polled again, unless a wake-up is already queued:
  hence the exception in `AcceptedUnlessFailed`.
- The listening socket is in blocking mode (`net/TcpListener.cpp:36`, `:93`): when a client leaves the backlog between the select
  and the accept, the accept blocks the thread until the next client - without workers, the whole server.
- With worker threads `BlocksOnlyForLeaver` does not hold either: `select`
  reports the listening socket, the worker accepts the client and registers the callback
  again before the reactor has come to fire it, the callback sets the flag without
  a client, and the next poll blocks a worker in `accept` until one connects.
- Without `EVIL_CHECK_ERRNO` and with workers, a readiness the flag still shows after it was used makes the next read fail with
  `EAGAIN` (`ioruntime/FileDescriptor.cpp:69`), and that ends the connection (`ReadError`; the theorems of FileDescriptorProofs hold of such builds too).
- Headers behind an empty value are not sent. An empty value makes the reader of the headers return 0 bytes
  (`http/MessageReader.cpp:35-40`, `:59-63`), which is the end of file to its caller, though `http/MessageReader.hpp:27` says that it
  "reads all the headers + a clrf". A 405 of a server without allowed methods has an empty Allow (`main.cpp:826-850`), so that it is
  sent without Connection and Transfer-Encoding, and its body in chunks nobody expects. An empty reason ends the status line in
  the same way. `TransfersMessage` is therefore stated of messages in which no piece is empty (`NoEmptyPiece`).
- A response future that was pending and then fails is caught by nobody (`http/Server.cpp:209` is outside every try
  block, `ThrowUncaught`): the task ends without an answer. While it is pending no timer is polled (`:215`), so an upstream that
  never answers holds the connection for ever.
- The SIGCHLD handler locks a mutex its own thread may hold; `ResponseEnds` excepts that.
- `kill` may hit another script after a script was killed by a signal, because no callback is run for
  it (`GlobalChildProcessHandler.cpp:51-83`), or after a number was reused while the former callback waited in the table: the
  exceptions of `KillHitsOwn`. A fork that fails leaves pipe ends open (`cgi/Cgi.cpp:343`).
- `_is_http_1_1` is never set, so the check of the host at `MessageParser.cpp:286` never fails; RequestParser has its own.
- A body with a length may be one longer than the buffer's limit, a chunk must be one shorter (`BufferVerdict`, `ChunkVerdict`).
- The addresses in use are remembered per server (`main.cpp:1036`), so that two servers of one address are two listeners.
- The error pages of inner levels are not used; a pattern that ends in `$` may match anywhere
  in the path, and only where the match ends is looked at; the connection to an upstream is made by a blocking connect (`main.cpp:1083`);
  two uploads of one name write one file (`main.cpp:911`).

## 7. Plan

Done, in this order: the executors and their lifecycle, the reactor with descriptors and the
listener, timers with connections, child processes with scripts, copying, parsing, routing, and the two together; and proofs of
the safety of each.

What could follow:

1. Proxy as a module of its own, with the upstream's failures, composed with Connection: Copy and Parsing
   check its two halves, `RequestService` how it is chosen.
2. The order in which mutexes are taken (runtime lock, tables, flags) as a graph.
3. The write and special directions of the reactor beside the read direction, in one run.

## 8. Not modelled

- `poll_write` and the special direction: copies of what is modelled.
- Callbacks registered for more than one firing: the program registers none.
- `Task::abandon`, `derive_waker`, the select future: unused.
- A descriptor of `FD_SETSIZE` or more, and failures of `fcntl`: they throw before
  any state changes.
- Scripts that close their output before they end, or leave processes behind that keep it open. In Cgi a body in a file is
  there to be read at once.
- How a chunk is appended to a body that moves to a file: `AppendToBody` and the copy inside `IncomingBody::poll_write`
  (`http/IncomingBody.cpp:36-66`) are one step once the file is ready.
- The order in which the locks of tables and flags are taken: a table's operation is one step, so a deadlock of two locks cannot
  show. The reactor holds no lock of a table while it runs callbacks (`ioruntime/IoEventHandler.cpp:148-178`).
- In FileDescriptor the end of a stream is a chunk like any other; Cgi and CharacterStream model it.
- Shared ownership: every copy and release of an `RcPtr` is one critical section of a mutex of its own
  (`boxed/RcPtr.hpp:160-178`), and the models take an object to live while it is referenced. Mutexes are
  the atomicity of the actions.
- The line stream and the readers of listings, default pages and strings: they yield a text they hold, by the contract of
  MessageReader's body source.
- JSON, regular expressions, URIs, addresses, base64, dates, arguments: conversions without state. What they
  yield is data of the models (a pattern is where it matches).
- The optional script modules, and the vendored Lua and Duktape they embed: third-party interpreters, nine tenths of
  the lines of the repository, and no part of the server's own logic.
