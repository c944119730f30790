--------------------------- MODULE TcpListenerProofs ---------------------------
(***************************************************************************)
(* What TcpListener promises, for any descriptors, backlog, number of      *)
(* failures and of queue entries, with and without workers.                *)
(*                                                                         *)
(* The listener's waker is a token: it is in the table of callbacks, or    *)
(* among those that are about to run, or a queue entry of the listener's   *)
(* task, or held by its poll - or lost, once an accept has failed.  That   *)
(* is why the callbacks without a key do not pile up.                      *)
(***************************************************************************)
EXTENDS TcpListener, SequenceTheorems, TLAPS

Table == listeners[Socket]

HasWaker(s) == \E i \in DOMAIN s : s[i] = Wake

Registered(cb) == \E i \in DOMAIN Table : Table[i] = cb

(* Callbacks of the listener; a waker is the last of them.                 *)
Ordered(s) ==
    /\ s \in Seq({SetReady, Wake})
    /\ \A i \in DOMAIN s : s[i] = Wake => i = Len(s)

(* Nobody but the listener has callbacks, and only a reactor that runs     *)
(* them has some in its hand.                                              *)
TableInv ==
    /\ Ordered(Table)
    /\ Ordered(hand)
    /\ fds = {Socket}
    /\ selected \subseteq {Socket}
    /\ \A f \in Fd \ {Socket} : listeners[f] = <<>>
    /\ rpc # "run" => hand = <<>>

(* Where the token is, and how many callbacks the table has then.          *)
Busy == entries > 0 \/ pc # "waiting"

TokenInv ==
    /\ entries <= 1
    /\ pc # "waiting" => entries = 0
    /\ Busy => ~HasWaker(Table) /\ ~HasWaker(hand)
    /\ HasWaker(hand) => ~HasWaker(Table)
    /\ Len(Table) <= IF HasWaker(Table) THEN 3
                     ELSE IF pc = "wake" \/ (~Busy /\ ~HasWaker(hand)) THEN 2
                     ELSE 1

(* The flag is set, or what sets it is on its way, when the poll is past   *)
(* its registration.                                                       *)
FlagInv ==
    pc \in {"waiting", "wake"} => connectionReady \/ Registered(SetReady) \/ InHand(SetReady)

(* A waker that is about to run finds the flag, or what sets it first.     *)
OrderInv == HasWaker(hand) => connectionReady \/ InHand(SetReady)

(* accept follows the flag; without workers, the flag is only set behind a *)
(* select that saw a client, whom accept takes unless it has left.         *)
ClientInv ==
    /\ pc \in {"accept", "failed_ready"} => connectionReady
    /\ ~Pooled =>
        /\ rpc \in {"list", "fire", "run"} => backlog > 0 \/ left
        /\ connectionReady /\ pc # "failed_ready" => backlog > 0 \/ left

IInv == TypeOK /\ TableInv /\ TokenInv /\ FlagInv /\ OrderInv /\ ClientInv
-----------------------------------------------------------------------------
(* Sequences of callbacks.                                                 *)

LEMMA CallbacksDiffer == SetReady # Wake
  BY DEF SetReady, Wake, Callback

LEMMA CallbackType ==
    ASSUME NEW s \in Seq({SetReady, Wake})
    PROVE  s \in Seq([act : {"ready", "wake"}, owner : {Listener}, unique : Nat])
<1>1. {SetReady, Wake} \subseteq [act : {"ready", "wake"}, owner : {Listener}, unique : Nat]
  BY DEF SetReady, Wake, Callback, WakerKey
<1> QED
  BY <1>1, SeqMonotonic

(* Without a waker in the table, a registration is an Append.              *)
LEMMA InsertIsAppend ==
    ASSUME NEW s \in Seq({SetReady, Wake}), NEW cb \in {SetReady, Wake},
           cb = Wake => ~HasWaker(s)
    PROVE  InsertCallback(s, cb) = Append(s, cb)
<1>1. \A i \in DOMAIN s : ~(cb.unique # 0 /\ s[i].unique = cb.unique)
  <2> SUFFICES ASSUME NEW i \in DOMAIN s, cb.unique # 0, s[i].unique = cb.unique
               PROVE  FALSE
    OBVIOUS
  <2>1. s[i] \in {SetReady, Wake} /\ cb = Wake
    BY DEF SetReady, Callback
  <2>2. s[i] = Wake
    BY <2>1 DEF SetReady, Wake, Callback, WakerKey
  <2> QED
    BY <2>1, <2>2 DEF HasWaker
<1> QED
  BY <1>1 DEF InsertCallback

LEMMA AppendOrdered ==
    ASSUME NEW s, NEW cb \in {SetReady, Wake}, Ordered(s), ~HasWaker(s)
    PROVE  /\ Ordered(Append(s, cb))
           /\ HasWaker(Append(s, cb)) <=> cb = Wake
           /\ Len(Append(s, cb)) = Len(s) + 1
           /\ \E i \in DOMAIN Append(s, cb) : Append(s, cb)[i] = cb
           /\ \A i \in DOMAIN s : i \in DOMAIN Append(s, cb) /\ Append(s, cb)[i] = s[i]
<1>1. s \in Seq({SetReady, Wake})
  BY DEF Ordered
<1> DEFINE a == Append(s, cb)
<1>2. /\ a \in Seq({SetReady, Wake}) /\ Len(a) = Len(s) + 1 /\ Len(s) \in Nat
      /\ DOMAIN a = 1 .. Len(s) + 1 /\ DOMAIN s = 1 .. Len(s)
      /\ a[Len(s) + 1] = cb /\ \A i \in 1 .. Len(s) : a[i] = s[i]
  BY <1>1
<1> HIDE DEF a
<1>3. \A i \in DOMAIN a : i \in DOMAIN s \/ i = Len(s) + 1
  BY <1>2
<1>4. \A i \in DOMAIN a : a[i] = Wake => i = Len(a)
  BY <1>2, <1>3 DEF HasWaker
<1>5. HasWaker(a) <=> cb = Wake
  BY <1>2, <1>3 DEF HasWaker
<1>6. (\E i \in DOMAIN a : a[i] = cb) /\ \A i \in DOMAIN s : i \in DOMAIN a /\ a[i] = s[i]
  BY <1>2
<1> QED
  BY <1>2, <1>4, <1>5, <1>6 DEF a, Ordered

LEMMA TailOrdered ==
    ASSUME NEW s, Ordered(s), s # <<>>
    PROVE  /\ Ordered(Tail(s)) /\ Head(s) \in {SetReady, Wake}
           /\ HasWaker(Tail(s)) => HasWaker(s)
           /\ Head(s) = Wake => Tail(s) = <<>> /\ HasWaker(s)
           /\ \A i \in DOMAIN s : s[i] # Head(s) =>
                \E j \in DOMAIN Tail(s) : Tail(s)[j] = s[i]
<1> DEFINE t == Tail(s)
<1>1. /\ s \in Seq({SetReady, Wake}) /\ Len(s) \in Nat \ {0} /\ Head(s) = s[1] /\ 1 \in DOMAIN s
      /\ t \in Seq({SetReady, Wake}) /\ Len(t) = Len(s) - 1
      /\ DOMAIN s = 1 .. Len(s) /\ DOMAIN t = 1 .. Len(s) - 1
      /\ \A i \in 1 .. Len(s) - 1 : t[i] = s[i + 1]
  BY DEF Ordered
<1> HIDE DEF t
<1>2. \A i \in DOMAIN t : i + 1 \in DOMAIN s /\ t[i] = s[i + 1]
  BY <1>1
<1>3. Ordered(t)
  BY <1>1, <1>2 DEF Ordered
<1>4. HasWaker(t) => HasWaker(s)
  BY <1>2 DEF HasWaker
<1>5. Head(s) = Wake => t = <<>> /\ HasWaker(s)
  <2>1. Head(s) = Wake => Len(t) = 0
    BY <1>1 DEF Ordered
  <2> QED
    BY <1>1, <2>1, EmptySeq DEF HasWaker
<1>6. ASSUME NEW i \in DOMAIN s, s[i] # Head(s)
      PROVE  \E j \in DOMAIN t : t[j] = s[i]
  <2>1. i # 1
    BY <1>1, <1>6
  <2>2. i - 1 \in DOMAIN t /\ t[i - 1] = s[i]
    BY <1>1, <2>1
  <2> QED
    BY <2>2
<1> QED
  BY <1>1, <1>3, <1>4, <1>5, <1>6 DEF t, Ordered
-----------------------------------------------------------------------------
(* The steps.                                                              *)

LEMMA EmptyOrdered == Ordered(<<>>) /\ ~HasWaker(<<>>)
  BY DEF Ordered, HasWaker

(* What the reactor does between the callbacks.                            *)
Quiet ==
    /\ UNCHANGED <<fds, inUse, listeners, hand, taskVars, backlog, failures>>
    /\ left' \in BOOLEAN /\ (left /\ backlog = 0 => left')
    /\ rpc' \in ReactorPc
    /\ selected' \subseteq fds \cup selected
    /\ visit' \subseteq inUse \cup visit
    /\ rpc' # "run" /\ (rpc # "run" \/ hand = <<>>)
    /\ rpc' \in {"list", "fire", "run"} => rpc \in {"list", "fire", "run"} \/ backlog > 0

LEMMA QuietSteps ==
    ASSUME left \in BOOLEAN,
           \/ /\ Select(Readable, {Socket})
              /\ left' = (left /\ backlog = 0)
              /\ UNCHANGED <<taskVars, backlog, failures>>
           \/ /\ \/ CopyFds \/ ListFdsInUse \/ ListenersFired
                 \/ ReactorStepReturns \/ ExecutorStepReturns(Idle)
                 \/ (MoveListenersOut /\ NextVisit \notin selected)
              /\ UNCHANGED listenerVars
    PROVE  Quiet
<1>1. CASE Select(Readable, {Socket}) /\ left' = (left /\ backlog = 0)
             /\ UNCHANGED <<taskVars, backlog, failures>>
  <2>1. selected \cap Readable # {} => backlog > 0
    BY DEF Readable
  <2> QED
    BY <1>1, <2>1 DEF Select, Quiet, ReactorPc
<1> QED
  BY <1>1 DEF listenerVars, CopyFds, ListFdsInUse, ListenersFired, ReactorStepReturns, ExecutorStepReturns,
     MoveListenersOut, Quiet, ReactorPc

LEMMA QuietInv ==
    ASSUME IInv, Quiet
    PROVE  IInv'
<1> USE DEF IInv, Quiet, taskVars
<1>1. TypeOK'
  BY DEF TypeOK, HandlerTypeOK
<1>2. TableInv'
  BY DEF TableInv, Ordered, Table
<1>3. TokenInv'
  BY DEF TokenInv, HasWaker, Table, Busy
<1>4. FlagInv' /\ OrderInv'
  BY DEF FlagInv, OrderInv, Registered, InHand, HasWaker, Table
<1>5. ClientInv'
  BY DEF ClientInv, TypeOK
<1> QED
  BY <1>1, <1>2, <1>3, <1>4, <1>5

(* The callbacks are moved into the reactor's hand.                        *)
LEMMA MoveInv ==
    ASSUME IInv, MoveListenersOut, NextVisit \in selected, UNCHANGED listenerVars
    PROVE  IInv'
<1> USE DEF IInv, listenerVars, taskVars
<1>1. /\ Socket \in Fd /\ rpc = "fire" /\ hand = <<>>
      /\ hand' = Table /\ listeners' = [listeners EXCEPT ![Socket] = <<>>] /\ rpc' = "run"
      /\ UNCHANGED <<fds, inUse, selected, listenerVars>> /\ visit' \subseteq visit
  BY ListenerAssumption DEF MoveListenersOut, TableInv, Table
<1>2. Table' = <<>> /\ \A f \in Fd \ {Socket} : listeners'[f] = listeners[f]
  BY <1>1 DEF TypeOK, HandlerTypeOK, Table
<1>3. TableInv'
  BY <1>1, <1>2, EmptyOrdered DEF TableInv, Ordered
<1>4. TypeOK'
  <2>1. listeners' \in [Fd -> Seq([act : {"ready", "wake"}, owner : {Listener}, unique : Nat])]
    BY <1>1 DEF TypeOK, HandlerTypeOK
  <2>2. \A f \in Fd : Len(listeners'[f]) <= 3
    BY <1>1, <1>2 DEF TypeOK, Table
  <2>3. hand' \in Seq([act : {"ready", "wake"}, owner : {Listener}, unique : Nat]) /\ rpc' \in ReactorPc
    BY <1>1 DEF TypeOK, HandlerTypeOK, ReactorPc, Table
  <2> QED
    BY <1>1, <2>1, <2>2, <2>3 DEF TypeOK, HandlerTypeOK
<1>5. TokenInv'
  <2>1. ~HasWaker(Table)' /\ Len(Table') = 0 /\ (HasWaker(hand)' <=> HasWaker(Table))
    BY <1>1, <1>2, EmptyOrdered DEF HasWaker
  <2> QED
    BY <1>1, <2>1, EmptyOrdered DEF TokenInv, Busy
<1>6. FlagInv'
  BY <1>1 DEF FlagInv, Registered, InHand, Table
<1>7. OrderInv'
  <2>1. HasWaker(hand') => pc = "waiting" /\ (connectionReady \/ Registered(SetReady))
    BY <1>1 DEF TokenInv, Busy, FlagInv, HasWaker, InHand
  <2> QED
    BY <1>1, <2>1 DEF OrderInv, HasWaker, Registered, InHand, Table
<1>8. ClientInv'
  BY <1>1 DEF ClientInv
<1> QED
  BY <1>3, <1>4, <1>5, <1>6, <1>7, <1>8

(* A callback runs.                                                        *)
LEMMA RunInv ==
    ASSUME IInv, RunSetReady \/ RunWaker
    PROVE  IInv'
<1> USE DEF IInv
<1>1. /\ rpc = "run" /\ hand # <<>> /\ hand' = Tail(hand)
      /\ UNCHANGED <<fds, inUse, listeners, rpc, selected, visit, locked, pc, backlog, left, failures>>
  BY DEF RunSetReady, RunWaker, CallbackRun
<1>2. /\ Ordered(hand') /\ Head(hand) \in {SetReady, Wake}
      /\ HasWaker(hand') => HasWaker(hand)
      /\ Head(hand) = Wake => hand' = <<>> /\ HasWaker(hand)
      /\ \A i \in DOMAIN hand : hand[i] # Head(hand) =>
            \E j \in DOMAIN hand' : hand'[j] = hand[i]
  BY <1>1, TailOrdered DEF TableInv
<1>3. TableInv'
  BY <1>1, <1>2 DEF TableInv, Table, Ordered
<1>4. CASE RunSetReady
  <2>1. connectionReady' = TRUE /\ entries' = entries /\ Head(hand) = SetReady
    BY <1>2, <1>4 DEF RunSetReady, Wake, Callback
  <2>2. TypeOK'
    BY <1>1, <1>2, <2>1, CallbackType DEF TypeOK, HandlerTypeOK, Ordered
  <2>3. HasWaker(hand)' <=> HasWaker(hand)
    <3>1. ASSUME HasWaker(hand) PROVE HasWaker(hand')
      BY <1>2, <2>1, <3>1, CallbacksDiffer DEF HasWaker
    <3> QED
      BY <1>2, <3>1 DEF HasWaker
  <2>4. TokenInv'
    BY <1>1, <2>1, <2>3 DEF TokenInv, Table, Busy, HasWaker
  <2>5. FlagInv' /\ OrderInv' /\ ClientInv'
    BY <1>1, <2>1 DEF FlagInv, OrderInv, ClientInv
  <2> QED
    BY <1>3, <2>2, <2>4, <2>5
<1>5. CASE RunWaker
  <2>1. connectionReady' = connectionReady /\ entries' = entries + 1 /\ Head(hand) = Wake
    BY <1>2, <1>5 DEF RunWaker, SetReady, Callback
  <2>2. HasWaker(hand) /\ entries = 0 /\ pc = "waiting" /\ ~HasWaker(Table) /\ hand' = <<>>
    BY <1>2, <2>1 DEF TokenInv, Busy, TypeOK
  <2>3. TypeOK'
    BY <1>1, <1>2, <2>1, <2>2, ListenerAssumption, CallbackType DEF TypeOK, HandlerTypeOK, Ordered
  <2>4. TokenInv'
    <3>1. ~HasWaker(hand)' /\ ~HasWaker(Table)' /\ Len(Table') <= 1
      BY <1>1, <2>2, EmptyOrdered DEF TokenInv, Busy, HasWaker, Table
    <3> QED
      BY <1>1, <2>1, <2>2, <3>1 DEF TokenInv, Busy
  <2>5. FlagInv'
    <3>1. InHand(SetReady) => InHand(SetReady)'
      BY <1>2, <2>1, CallbacksDiffer DEF InHand, SetReady, Callback
    <3>2. Registered(SetReady) => Registered(SetReady)'
      BY <1>1 DEF Registered, Table, SetReady, Callback
    <3> QED
      BY <1>1, <2>1, <3>1, <3>2 DEF FlagInv
  <2>6. OrderInv' /\ ClientInv'
    BY <1>1, <2>1, <2>2, EmptyOrdered DEF OrderInv, HasWaker, ClientInv
  <2> QED
    BY <1>3, <2>3, <2>4, <2>5, <2>6
<1> QED
  BY <1>4, <1>5

(* A callback is registered.                                               *)
LEMMA AddsListener ==
    ASSUME IInv, NEW cb \in {SetReady, Wake}, AddListener(Socket, cb), ~HasWaker(Table),
           UNCHANGED <<fds, inUse, rpc, selected, visit, hand>>
    PROVE  /\ TableInv' /\ Table' = Append(Table, cb)
           /\ HasWaker(Table)' <=> cb = Wake
           /\ HasWaker(hand)' <=> HasWaker(hand)
           /\ Len(Table') = Len(Table) + 1
           /\ Len(Table) <= 2 => HandlerTypeOK({Listener})' /\ \A f \in Fd : Len(listeners[f])' <= 3
           /\ Registered(SetReady) => Registered(SetReady)'
           /\ Registered(cb)'
<1> USE DEF IInv
<1>1. Socket \in Fd /\ Table \in Seq({SetReady, Wake}) /\ Len(Table) \in Nat
  BY ListenerAssumption DEF TableInv, Ordered
<1>2. listeners' = [listeners EXCEPT ![Socket] = Append(Table, cb)]
  BY <1>1, InsertIsAppend DEF AddListener, Table
<1>3. Table' = Append(Table, cb) /\ \A f \in Fd \ {Socket} : listeners'[f] = listeners[f]
  BY <1>1, <1>2 DEF TypeOK, HandlerTypeOK, Table
<1>4. /\ Ordered(Table') /\ (HasWaker(Table') <=> cb = Wake)
      /\ Len(Table') = Len(Table) + 1
      /\ \E i \in DOMAIN Table' : Table'[i] = cb
      /\ \A i \in DOMAIN Table : i \in DOMAIN Table' /\ Table'[i] = Table[i]
  BY <1>3, AppendOrdered DEF TableInv
<1>5. TableInv'
  BY <1>3, <1>4 DEF TableInv, Ordered
<1>6. HasWaker(Table)' <=> cb = Wake
  BY <1>4 DEF HasWaker
<1>7. ASSUME Len(Table) <= 2
      PROVE  HandlerTypeOK({Listener})' /\ \A f \in Fd : Len(listeners[f])' <= 3
  <2>1. Append(Table, cb) \in Seq([act : {"ready", "wake"}, owner : {Listener}, unique : Nat])
    BY <1>3, <1>4, CallbackType DEF Ordered
  <2>2. listeners' \in [Fd -> Seq([act : {"ready", "wake"}, owner : {Listener}, unique : Nat])]
    BY <1>1, <1>2, <2>1 DEF TypeOK, HandlerTypeOK
  <2>3. \A f \in Fd : Len(listeners'[f]) <= 3
    BY <1>1, <1>3, <1>4, <1>7 DEF TypeOK, Table
  <2> QED
    BY <2>2, <2>3 DEF TypeOK, HandlerTypeOK
<1>8. Registered(cb)' /\ (Registered(SetReady) => Registered(SetReady)')
  BY <1>4 DEF Registered, Table, SetReady, Callback
<1> QED
  BY <1>3, <1>4, <1>5, <1>6, <1>7, <1>8 DEF HasWaker

(* The steps of a poll that register nothing, and a client that comes or   *)
(* leaves.                                                                 *)
LEMMA PollInv ==
    ASSUME IInv,
           StartPoll \/ Accept \/ Connect \/ Leave \/ \E aborted \in BOOLEAN : AcceptFails(aborted)
    PROVE  IInv'
<1> USE DEF IInv
<1>1. UNCHANGED handlerVars
  BY DEF StartPoll, Accept, Connect, Leave, taskVars, AcceptFails
<1>2. TypeOK'
  <2>1. HandlerTypeOK({Listener})' /\ \A f \in Fd : Len(listeners'[f]) <= 3
    BY <1>1 DEF TypeOK, HandlerTypeOK, handlerVars
  <2>2. pc' \in Pc /\ locked' \in BOOLEAN /\ connectionReady' \in BOOLEAN
    BY DEF StartPoll, Accept, Connect, Leave, taskVars, AcceptFails, TypeOK, Pc
  <2>3. entries' \in 0 .. MaxEntries
    BY ListenerAssumption DEF StartPoll, Accept, Connect, Leave, taskVars, AcceptFails, TypeOK
  <2>4. backlog' \in 0 .. MaxBacklog /\ failures' \in 0 .. MaxFailures
    <3>1. CASE \E aborted \in BOOLEAN : AcceptFails(aborted)
      BY <3>1, ListenerAssumption DEF AcceptFails, TypeOK
    <3>2. CASE StartPoll \/ Accept \/ Connect \/ Leave
      BY <3>2, ListenerAssumption DEF StartPoll, Accept, Connect, Leave, TypeOK
    <3> QED
      BY <3>1, <3>2
  <2>5. left' \in BOOLEAN
    BY DEF StartPoll, Accept, Connect, Leave, AcceptFails, TypeOK
  <2> QED
    BY <2>1, <2>2, <2>3, <2>4, <2>5 DEF TypeOK
<1>3. TableInv'
  BY <1>1 DEF TableInv, Ordered, Table, handlerVars
<1>4. TokenInv'
  <2>1. /\ (HasWaker(Table)' <=> HasWaker(Table)) /\ (HasWaker(hand)' <=> HasWaker(hand))
        /\ Table' = Table
    BY <1>1 DEF HasWaker, Table, handlerVars
  <2> QED
    BY <1>1, <2>1 DEF StartPoll, Accept, Connect, Leave, taskVars, AcceptFails, TokenInv, Busy, TypeOK
<1>5. FlagInv' /\ OrderInv'
  <2>1. /\ (Registered(SetReady)' <=> Registered(SetReady)) /\ (InHand(SetReady)' <=> InHand(SetReady))
        /\ (HasWaker(hand)' <=> HasWaker(hand))
    BY <1>1 DEF Registered, InHand, HasWaker, Table, handlerVars, SetReady, Callback
  <2>2. /\ pc' \in {"waiting", "wake"} => pc \in {"waiting", "wake"} /\ connectionReady' = connectionReady
        /\ connectionReady' = connectionReady \/ Accept
    BY DEF StartPoll, Accept, Connect, Leave, taskVars, AcceptFails
  <2>3. Accept => ~HasWaker(hand)
    BY DEF Accept, TokenInv, Busy
  <2> QED
    BY <2>1, <2>2, <2>3 DEF FlagInv, OrderInv
<1>6. ClientInv'
  <2>1. CASE StartPoll
    BY <1>1, <2>1 DEF StartPoll, ClientInv, handlerVars
  <2>2. CASE Accept
    BY <1>1, <2>2 DEF Accept, Runs, ClientInv, handlerVars
  <2>3. CASE Connect
    BY <1>1, <2>3 DEF Connect, ClientInv, handlerVars, taskVars, TypeOK
  <2>5. CASE Leave
    BY <1>1, <2>5 DEF Leave, ClientInv, handlerVars, taskVars
  <2>4. ASSUME NEW aborted \in BOOLEAN, AcceptFails(aborted)
        PROVE  ClientInv'
    BY <1>1, <2>4 DEF AcceptFails, Runs, ClientInv, handlerVars
  <2> QED
    BY <2>1, <2>2, <2>3, <2>4, <2>5
<1> QED
  BY <1>2, <1>3, <1>4, <1>5, <1>6

(* The registrations of a poll.                                            *)
LEMMA RegisterInv ==
    ASSUME IInv, FailedReady \/ RegisterReady \/ RegisterWaker
    PROVE  IInv'
<1> USE DEF IInv
<1>1. /\ pc # "waiting" /\ entries = 0 /\ ~HasWaker(Table) /\ ~HasWaker(hand)
      /\ Len(Table) <= (IF pc = "wake" THEN 2 ELSE 1) /\ Len(Table) \in Nat
      /\ UNCHANGED <<fds, inUse, rpc, selected, visit, hand, entries, backlog, left, failures>>
  BY ListenerAssumption
  DEF FailedReady, RegisterReady, RegisterWaker, TokenInv, Busy, TypeOK, HandlerTypeOK, Table
<1>2. CASE FailedReady
  <2>1. AddListener(Socket, SetReady) /\ pc' = "waiting" /\ connectionReady' = FALSE /\ locked' = FALSE
    BY <1>2 DEF FailedReady
  <2>2. TableInv' /\ ~HasWaker(Table)' /\ ~HasWaker(hand)' /\ Len(Table') <= 2
        /\ HandlerTypeOK({Listener})' /\ (\A f \in Fd : Len(listeners[f])' <= 3)
        /\ Registered(SetReady)'
    BY <1>1, <1>2, <2>1, AddsListener, CallbacksDiffer DEF FailedReady
  <2>3. TypeOK'
    BY <1>1, <2>1, <2>2 DEF TypeOK, Pc
  <2>4. TokenInv'
    BY <1>1, <2>1, <2>2 DEF TokenInv, Busy
  <2>5. FlagInv' /\ OrderInv' /\ ClientInv'
    BY <1>1, <2>1, <2>2 DEF FlagInv, OrderInv, ClientInv
  <2> QED
    BY <2>2, <2>3, <2>4, <2>5
<1>3. CASE RegisterReady
  <2>1. AddListener(Socket, SetReady) /\ pc = "ready_then_wake" /\ pc' = "wake"
        /\ UNCHANGED <<connectionReady, locked>>
    BY <1>3 DEF RegisterReady
  <2>2. TableInv' /\ ~HasWaker(Table)' /\ ~HasWaker(hand)' /\ Len(Table') <= 2
        /\ HandlerTypeOK({Listener})' /\ (\A f \in Fd : Len(listeners[f])' <= 3)
        /\ Registered(SetReady)'
    BY <1>1, <2>1, AddsListener, CallbacksDiffer
  <2>3. TypeOK' /\ TokenInv' /\ FlagInv' /\ OrderInv' /\ ClientInv'
    BY <1>1, <2>1, <2>2 DEF TypeOK, Pc, TokenInv, Busy, FlagInv, OrderInv, ClientInv
  <2> QED
    BY <2>2, <2>3
<1>4. CASE RegisterWaker
  <2>1. AddListener(Socket, Wake) /\ pc = "wake" /\ pc' = "waiting" /\ locked' = FALSE
        /\ UNCHANGED connectionReady
    BY <1>4 DEF RegisterWaker
  <2>2. TableInv' /\ HasWaker(Table)' /\ ~HasWaker(hand)' /\ Len(Table') <= 3
        /\ HandlerTypeOK({Listener})' /\ (\A f \in Fd : Len(listeners[f])' <= 3)
        /\ (Registered(SetReady) => Registered(SetReady)')
    BY <1>1, <2>1, AddsListener
  <2>3. InHand(SetReady) => InHand(SetReady)'
    BY <1>1 DEF InHand, SetReady, Callback
  <2>4. TypeOK'
    BY <1>1, <2>1, <2>2 DEF TypeOK, Pc
  <2>5. TokenInv'
    BY <1>1, <2>1, <2>2 DEF TokenInv, Busy
  <2>6. FlagInv' /\ OrderInv' /\ ClientInv'
    BY <1>1, <2>1, <2>2, <2>3 DEF FlagInv, OrderInv, ClientInv
  <2> QED
    BY <2>2, <2>4, <2>5, <2>6
<1> QED
  BY <1>2, <1>3, <1>4
-----------------------------------------------------------------------------
(* The theorems.                                                           *)

LEMMA InvInit == Init => IInv
<1> SUFFICES ASSUME Init PROVE IInv
  OBVIOUS
<1>1. Socket \in Fd /\ Table = <<SetReady>> /\ hand = <<>>
  BY ListenerAssumption DEF Init, Table
<1>2. <<SetReady>> = Append(<<>>, SetReady) /\ <<>> \in Seq({SetReady, Wake})
  OBVIOUS
<1>3. Ordered(Table) /\ ~HasWaker(Table) /\ Len(Table) = 1
  BY <1>1, <1>2, EmptyOrdered, AppendOrdered, CallbacksDiffer
<1>4. TableInv
  BY <1>1, <1>3, EmptyOrdered DEF Init, TableInv
<1>5. TypeOK
  <2>1. <<SetReady>> \in Seq([act : {"ready", "wake"}, owner : {Listener}, unique : Nat])
    BY <1>1, <1>3, CallbackType DEF Ordered
  <2>2. /\ <<>> \in Seq([act : {"ready", "wake"}, owner : {Listener}, unique : Nat])
        /\ Len(<<>>) = 0 /\ Len(<<SetReady>>) = 1
    OBVIOUS
  <2>3. listeners = [f \in Fd |-> IF f = Socket THEN <<SetReady>> ELSE <<>>]
    BY DEF Init
  <2>4. listeners \in [Fd -> Seq([act : {"ready", "wake"}, owner : {Listener}, unique : Nat])]
    BY <2>1, <2>2, <2>3
  <2>5. \A f \in Fd : Len(listeners[f]) <= 3
    <3>1. \A f \in Fd : Len(listeners[f]) = Len(<<SetReady>>) \/ Len(listeners[f]) = Len(<<>>)
      <4>1. \A f \in Fd : listeners[f] = <<SetReady>> \/ listeners[f] = <<>>
        BY <2>3
      <4> QED
        BY <4>1, Zenon
    <3>2. \A f \in Fd : Len(listeners[f]) = 1 \/ Len(listeners[f]) = 0
      BY <2>2, <3>1, Zenon
    <3>3. 1 <= 3 /\ 0 <= 3
      OBVIOUS
    <3> QED
      BY <3>2, <3>3, Zenon
  <2>6. HandlerTypeOK({Listener})
    BY <1>1, <2>2, <2>4 DEF Init, HandlerTypeOK, ReactorPc
  <2>7. entries \in 0 .. MaxEntries /\ backlog \in 0 .. MaxBacklog /\ failures \in 0 .. MaxFailures
    BY ListenerAssumption DEF Init
  <2> QED
    BY <2>5, <2>6, <2>7 DEF Init, TypeOK, Pc
<1>6. TokenInv
  BY <1>1, <1>3, EmptyOrdered DEF Init, TokenInv, Busy
<1>7. FlagInv /\ OrderInv /\ ClientInv
  BY <1>1, EmptyOrdered DEF Init, FlagInv, OrderInv, ClientInv, Registered, Table
<1> QED
  BY <1>4, <1>5, <1>6, <1>7 DEF IInv

(* The token of the listener's waker, at any number of clients.            *)
THEOREM Invariant == Spec => []IInv
<1>1. IInv /\ [Next]_vars => IInv'
  <2> SUFFICES ASSUME IInv, [Next]_vars PROVE IInv'
    OBVIOUS
  <2>1. CASE UNCHANGED vars
    BY <2>1 DEF vars, handlerVars, listenerVars, taskVars, IInv, TypeOK, HandlerTypeOK, TableInv, Ordered, Table,
       TokenInv, Busy, HasWaker, FlagInv, OrderInv, Registered, InHand, ClientInv
  <2>2. CASE Reactor
    <3>1. left \in BOOLEAN
      BY DEF IInv, TypeOK
    <3> QED
      BY <2>2, <3>1, QuietSteps, QuietInv, MoveInv, RunInv DEF Reactor
  <2>3. CASE PollNext \/ Connect \/ Leave \/ \E aborted \in BOOLEAN : AcceptFails(aborted)
    BY <2>3, PollInv, RegisterInv DEF PollNext
  <2> QED
    BY <2>1, <2>2, <2>3 DEF Next
<1> QED
  BY InvInit, <1>1, PTL DEF Spec

(* Every variable keeps its type, and a listener never has more than three *)
(* callbacks in the table, with and without workers (TcpListener.cpp:      *)
(* 66-120, IoEventHandler.cpp:205-233).                                    *)
THEOREM TypeCorrect == Spec => []TypeOK
<1>1. IInv => TypeOK
  BY DEF IInv
<1> QED
  BY <1>1, Invariant, PTL

(* A poll that the listener's waker causes finds the flag set, or the      *)
(* callback that sets it runs before the waker - in the table, in the      *)
(* reactor's hand, and with the two registered at different turns          *)
(* (poll_next, TcpListener.cpp:66-120).                                    *)
THEOREM FlagFollows == Spec => []FlagBeforeWaker
<1>1. ASSUME IInv PROVE FlagBeforeWaker
  <2> USE <1>1 DEF IInv
  <2>1. /\ Len(hand) \in Nat /\ DOMAIN hand = 1 .. Len(hand)
        /\ Len(Table) \in Nat /\ DOMAIN Table = 1 .. Len(Table)
    BY DEF TableInv, Ordered
  <2>2. ASSUME NEW i \in DOMAIN hand, hand[i] = Wake, ~connectionReady
        PROVE  \E j \in 1 .. i - 1 : hand[j] = SetReady
    <3>1. i = Len(hand) /\ InHand(SetReady)
      BY <2>2 DEF TableInv, Ordered, OrderInv, HasWaker
    <3> QED
      BY <2>1, <2>2, <3>1, CallbacksDiffer DEF InHand
  <2>3. ASSUME NEW i \in DOMAIN Table, Table[i] = Wake, ~connectionReady, ~InHand(SetReady)
        PROVE  \E j \in 1 .. i - 1 : Table[j] = SetReady
    <3>1. i = Len(Table) /\ Registered(SetReady)
      BY <2>3 DEF TableInv, Ordered, TokenInv, Busy, FlagInv, HasWaker
    <3> QED
      BY <2>1, <2>3, <3>1, CallbacksDiffer DEF Registered
  <2> QED
    BY <2>2, <2>3 DEF FlagBeforeWaker, Table
<1> QED
  BY <1>1, Invariant, PTL

(* Without workers, an accept that finds no client can only be due to one  *)
(* that left the backlog after the select that saw it, however often       *)
(* accept failed before (TcpListener.cpp:66-120).                          *)
THEOREM BlockedByLeaver == Spec => [](~Pooled => BlocksOnlyForLeaver)
<1>1. IInv => (~Pooled => BlocksOnlyForLeaver)
  BY DEF IInv, ClientInv, BlocksOnlyForLeaver
<1> QED
  BY <1>1, Invariant, PTL
=============================================================================
