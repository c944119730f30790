-------------------------- MODULE FileDescriptorProofs --------------------------
(***************************************************************************)
(* What FileDescriptor promises, for any number of tasks and descriptors,  *)
(* with and without workers: a number that is reused inherits nothing, and *)
(* neither readiness nor a wake-up is lost between the reactor, which      *)
(* works on copies, and the polls that change the tables under it.         *)
(***************************************************************************)
EXTENDS FileDescriptor, SequenceTheorems, TLAPS

Cb == {SetReady(t) : t \in Task} \cup {Wake(t) : t \in Task}

CbRecord == [act : {"ready", "wake"}, owner : Task, unique : Nat]

Has(s, cb) == \E i \in DOMAIN s : s[i] = cb

Distinct(s) == \A i, j \in DOMAIN s : s[i] = s[j] => i = j

(* Between the registration of the first callback and the destructor's     *)
(* second step an object has callbacks, until its first it is watched.     *)
Listening == {"waiting", "poll", "again_locked", "waker_locked", "again", "waker",
              "again_error", "waker_error", "failed", "erase"}
Watching == {"listen", "waiting", "poll", "again_locked", "waker_locked", "again", "waker",
             "again_error", "waker_error", "failed"}

(* Where the flag or its callback must be there.                           *)
Ready == {"waiting", "poll", "waker", "waker_locked", "waker_error", "failed"}

(* A number belongs to one object at a time.                               *)
OpenInv ==
    /\ \A t \in Task : fd[t] = NoFd <=> pc[t] \in {"none", "over"}
    /\ \A t, u \in Task : fd[t] = fd[u] /\ fd[t] # NoFd => t = u

(* The callbacks of a number are those of the object that has it, one for  *)
(* each key.                                                               *)
TableOf(f) ==
    /\ listeners[f] \in Seq(Cb)
    /\ Distinct(listeners[f])
    /\ \A i \in DOMAIN listeners[f] :
        fd[listeners[f][i].owner] = f /\ pc[listeners[f][i].owner] \in Listening

TableInv ==
    /\ \A f \in Fd : TableOf(f)
    /\ hand \in Seq(Cb)
    /\ rpc # "run" => hand = <<>>

WatchInv == \A f \in fds : \E t \in Task : fd[t] = f /\ pc[t] \in Watching

IInv == TypeOK /\ OpenInv /\ TableInv /\ WatchInv /\ ReadyOrArmed /\ WaitingIsWakeable
-----------------------------------------------------------------------------
(* Callbacks and their sequences.                                          *)

LEMMA CbFacts ==
    /\ \A t \in Task : /\ SetReady(t).act = "ready" /\ Wake(t).act = "wake"
                       /\ SetReady(t).owner = t /\ Wake(t).owner = t
                       /\ SetReady(t).unique = 15 /\ Wake(t).unique = 10
    /\ \A cb \in Cb : /\ cb.owner \in Task /\ cb \in CbRecord
                      /\ cb = SetReady(cb.owner) \/ cb = Wake(cb.owner)
  BY DEF Cb, CbRecord, SetReady, Wake, Callback, ReadyKey, WakerKey

LEMMA CbSeq == ASSUME NEW s \in Seq(Cb) PROVE s \in Seq(CbRecord)
<1>1. Cb \subseteq CbRecord
  BY CbFacts
<1> QED
  BY <1>1, SeqMonotonic

(* Only two callbacks have the same owner.                                 *)
LEMMA TwoKeys ==
    ASSUME NEW t \in Task, NEW s \in Seq(Cb), Distinct(s),
           \A i \in DOMAIN s : s[i].owner = t
    PROVE  Len(s) <= 2
<1> SUFFICES ASSUME Len(s) >= 3 PROVE FALSE
  BY LenProperties
<1>1. 1 \in DOMAIN s /\ 2 \in DOMAIN s /\ 3 \in DOMAIN s
  BY LenProperties
<1>2. \A i \in DOMAIN s : s[i] = SetReady(t) \/ s[i] = Wake(t)
  BY CbFacts, ElementOfSeq
<1>3. s[1] # s[2] /\ s[1] # s[3] /\ s[2] # s[3]
  BY <1>1 DEF Distinct
<1> QED
  BY <1>1, <1>2, <1>3

(* A registration adds a callback unless the table has it.                 *)
LEMMA InsertIs ==
    ASSUME NEW t \in Task, NEW s \in Seq(Cb), Distinct(s),
           \A i \in DOMAIN s : s[i].owner = t,
           NEW cb \in {SetReady(t), Wake(t)}
    PROVE  InsertCallback(s, cb) = IF Has(s, cb) THEN s ELSE Append(s, cb)
<1> DEFINE same == {i \in DOMAIN s : cb.unique # 0 /\ s[i].unique = cb.unique}
<1>1. cb \in Cb /\ cb.owner = t
  BY CbFacts DEF Cb
<1>2. \A i \in DOMAIN s : s[i] = SetReady(t) \/ s[i] = Wake(t)
  BY CbFacts, ElementOfSeq
<1>3. \A i \in DOMAIN s : (cb.unique # 0 /\ s[i].unique = cb.unique) <=> s[i] = cb
  BY <1>2, CbFacts
<1>4. CASE ~Has(s, cb)
  <2>1. same = {}
    BY <1>3, <1>4 DEF Has
  <2> QED
    BY <1>4, <2>1 DEF InsertCallback
<1>5. CASE Has(s, cb)
  <2>1. PICK k \in DOMAIN s : s[k] = cb
    BY <1>5 DEF Has
  <2>2. same = {k} /\ DOMAIN s \subseteq Int
    BY <1>3, <2>1, LenProperties DEF Distinct
  <2> HIDE DEF same
  <2>3. (CHOOSE i \in same : \A j \in same : i <= j) = k
    BY <2>2
  <2>4. [s EXCEPT ![k] = cb] = s
    BY <2>1, LenProperties
  <2> QED
    BY <1>5, <2>2, <2>3, <2>4 DEF InsertCallback, same
<1> QED
  BY <1>4, <1>5

LEMMA Inserted ==
    ASSUME NEW t \in Task, NEW s \in Seq(Cb), Distinct(s),
           \A i \in DOMAIN s : s[i].owner = t,
           NEW cb \in {SetReady(t), Wake(t)}
    PROVE  /\ InsertCallback(s, cb) \in Seq(Cb)
           /\ Distinct(InsertCallback(s, cb))
           /\ \A i \in DOMAIN InsertCallback(s, cb) : InsertCallback(s, cb)[i].owner = t
           /\ Has(InsertCallback(s, cb), cb)
           /\ \A x : Has(s, x) => Has(InsertCallback(s, cb), x)
<1>1. InsertCallback(s, cb) = IF Has(s, cb) THEN s ELSE Append(s, cb)
  BY InsertIs
<1>2. cb \in Cb /\ cb.owner = t
  BY CbFacts DEF Cb
<1>3. CASE Has(s, cb)
  BY <1>1, <1>3
<1>4. CASE ~Has(s, cb)
  <2> DEFINE a == Append(s, cb)
  <2>1. /\ a \in Seq(Cb) /\ Len(a) = Len(s) + 1 /\ Len(s) \in Nat
        /\ DOMAIN a = 1 .. Len(s) + 1 /\ DOMAIN s = 1 .. Len(s)
        /\ a[Len(s) + 1] = cb /\ \A i \in 1 .. Len(s) : a[i] = s[i]
    BY <1>2, LenProperties, AppendProperties
  <2>2. InsertCallback(s, cb) = a
    BY <1>1, <1>4
  <2> HIDE DEF a
  <2>3. \A i \in DOMAIN a : i \in DOMAIN s \/ i = Len(s) + 1
    BY <2>1
  <2>4. Distinct(a)
    BY <1>4, <2>1, <2>3 DEF Distinct, Has
  <2>5. \A i \in DOMAIN a : a[i].owner = t
    BY <1>2, <2>1, <2>3
  <2>6. Has(a, cb) /\ \A x : Has(s, x) => Has(a, x)
    BY <2>1 DEF Has
  <2> QED
    BY <2>1, <2>2, <2>4, <2>5, <2>6
<1> QED
  BY <1>3, <1>4

(* The first callback leaves, the others stay.                             *)
LEMMA TailKeeps ==
    ASSUME NEW s \in Seq(Cb), s # <<>>
    PROVE  /\ Tail(s) \in Seq(Cb) /\ Head(s) \in Cb
           /\ \A x : Has(s, x) /\ x # Head(s) => Has(Tail(s), x)
<1> DEFINE t == Tail(s)
<1>1. /\ Len(s) \in Nat \ {0} /\ Head(s) = s[1] /\ Head(s) \in Cb
      /\ t \in Seq(Cb) /\ Len(t) = Len(s) - 1
      /\ DOMAIN s = 1 .. Len(s) /\ DOMAIN t = 1 .. Len(s) - 1
      /\ \A i \in 1 .. Len(s) - 1 : t[i] = s[i + 1]
  BY LenProperties, EmptySeq, HeadTailProperties
<1> HIDE DEF t
<1>2. ASSUME NEW x, Has(s, x), x # Head(s) PROVE Has(t, x)
  <2>1. PICK i \in DOMAIN s : s[i] = x
    BY <1>2 DEF Has
  <2>2. i # 1
    BY <1>1, <1>2, <2>1
  <2>3. i - 1 \in DOMAIN t /\ t[i - 1] = x
    BY <1>1, <2>1, <2>2
  <2> QED
    BY <2>3 DEF Has
<1> QED
  BY <1>1, <1>2 DEF t
-----------------------------------------------------------------------------
(* The reactor.                                                            *)

(* The two invariants by what a task needs to find.                        *)
LEMMA Needs ==
    /\ ReadyOrArmed <=>
        \A t \in Task :
            pc[t] \in Ready =>
                ready[t] \/ Has(listeners[fd[t]], SetReady(t)) \/ Has(hand, SetReady(t))
    /\ WaitingIsWakeable <=>
        \A t \in Task :
            pc[t] = "waiting" =>
                entries[t] > 0 \/ Has(listeners[fd[t]], Wake(t)) \/ Has(hand, Wake(t))
  BY DEF ReadyOrArmed, Ready, WaitingIsWakeable, Registered, InHand, Has

LEMMA NeedsNext ==
    /\ ReadyOrArmed' <=>
        \A t \in Task :
            pc'[t] \in Ready =>
                ready'[t] \/ Has(listeners'[fd'[t]], SetReady(t)) \/ Has(hand', SetReady(t))
    /\ WaitingIsWakeable' <=>
        \A t \in Task :
            pc'[t] = "waiting" =>
                entries'[t] > 0 \/ Has(listeners'[fd'[t]], Wake(t)) \/ Has(hand', Wake(t))
  BY DEF ReadyOrArmed, Ready, WaitingIsWakeable, Registered, InHand, Has, SetReady, Wake, Callback

(* What the reactor does between the callbacks.                            *)
Quiet ==
    /\ UNCHANGED <<fds, inUse, listeners, hand, taskVars>>
    /\ rpc' \in ReactorPc
    /\ selected' \subseteq fds \cup selected
    /\ visit' \subseteq inUse \cup visit
    /\ rpc' # "run" /\ (rpc # "run" \/ hand = <<>>)

LEMMA QuietSteps ==
    ASSUME CopyFds \/ Select(Readable, Open) \/ ListFdsInUse \/ ListenersFired
             \/ ReactorStepReturns \/ ExecutorStepReturns(Idle)
             \/ (MoveListenersOut /\ NextVisit \notin selected),
           UNCHANGED taskVars
    PROVE  Quiet
<1>1. CASE Select(Readable, Open)
  BY <1>1 DEF Select, Quiet, ReactorPc
<1> QED
  BY <1>1 DEF CopyFds, ListFdsInUse, ListenersFired, ReactorStepReturns, ExecutorStepReturns,
     MoveListenersOut, Quiet, ReactorPc

LEMMA QuietInv ==
    ASSUME IInv, Quiet
    PROVE  IInv'
<1> USE DEF IInv, Quiet, taskVars
<1>1. TypeOK'
  BY DEF TypeOK, HandlerTypeOK
<1>2. OpenInv' /\ WatchInv'
  BY DEF OpenInv, WatchInv
<1>3. TableInv'
  BY DEF TableInv, TableOf, Distinct
<1>4. ReadyOrArmed' /\ WaitingIsWakeable'
  BY DEF ReadyOrArmed, Ready, WaitingIsWakeable, Registered, InHand
<1> QED
  BY <1>1, <1>2, <1>3, <1>4

(* The callbacks of a descriptor are moved into the reactor's hand.        *)
LEMMA MoveInv ==
    ASSUME IInv, MoveListenersOut, NextVisit \in selected, UNCHANGED taskVars
    PROVE  IInv'
<1> USE DEF IInv, taskVars
<1>1. PICK f \in Fd : /\ hand' = listeners[f] /\ listeners' = [listeners EXCEPT ![f] = <<>>]
                      /\ rpc' = "run" /\ hand = <<>> /\ visit' \subseteq visit
                      /\ UNCHANGED <<fds, inUse, selected, taskVars>>
  BY DEF MoveListenersOut, TypeOK, HandlerTypeOK, TableInv
<1>2. /\ listeners'[f] = <<>>
      /\ \A g \in Fd \ {f} : listeners'[g] = listeners[g]
  BY <1>1 DEF TypeOK, HandlerTypeOK
<1>3. <<>> \in Seq(CbRecord) /\ <<>> \in Seq(Cb) /\ Len(<<>>) = 0 /\ DOMAIN <<>> = {}
  BY EmptySeq, LenProperties
<1>4. TypeOK'
  <2>1. listeners' \in [Fd -> Seq(CbRecord)] /\ hand' \in Seq(CbRecord)
    BY <1>1, <1>3 DEF TypeOK, HandlerTypeOK, CbRecord
  <2>2. \A g \in Fd : Len(listeners'[g]) <= 2
    <3>1. Len(listeners'[f]) = 0
      BY <1>2, <1>3, Zenon
    <3>2. \A g \in Fd : Len(listeners'[g]) = 0 \/ Len(listeners'[g]) = Len(listeners[g])
      <4>1. \A g \in Fd : g = f \/ listeners'[g] = listeners[g]
        BY <1>2
      <4> QED
        BY <3>1, <4>1, Zenon
    <3>3. \A g \in Fd : Len(listeners[g]) <= 2
      BY DEF TypeOK
    <3> QED
      BY <3>2, <3>3
  <2> QED
    BY <1>1, <2>1, <2>2 DEF TypeOK, HandlerTypeOK, ReactorPc, CbRecord
<1>5. OpenInv' /\ WatchInv'
  BY <1>1 DEF OpenInv, WatchInv
<1>6. TableInv'
  <2>1. \A g \in Fd : TableOf(g)'
    BY <1>1, <1>2, <1>3 DEF TableInv, TableOf, Distinct
  <2> QED
    BY <1>1, <2>1 DEF TableInv, TableOf
<1>7. \A t \in Task : pc[t] \notin {"none", "over"} => fd[t] \in Fd
  BY DEF OpenInv, TypeOK
<1>8. ReadyOrArmed' /\ WaitingIsWakeable'
  <2>1. ASSUME NEW t \in Task, NEW x, fd[t] \in Fd, Has(listeners[fd[t]], x)
        PROVE  Has(listeners'[fd'[t]], x) \/ Has(hand', x)
    BY <1>1, <1>2, <2>1
  <2>2. \A x : ~Has(hand, x)
    BY <1>1, <1>3 DEF Has
  <2> QED
    BY <1>1, <1>7, <2>1, <2>2, Needs, NeedsNext
<1> QED
  BY <1>4, <1>5, <1>6, <1>8

(* A callback runs.                                                        *)
LEMMA RunInv ==
    ASSUME IInv, RunSetReady \/ RunWaker
    PROVE  IInv'
<1> USE DEF IInv
<1>1. /\ rpc = "run" /\ hand # <<>> /\ hand' = Tail(hand)
      /\ UNCHANGED <<fds, inUse, listeners, rpc, selected, visit, fd, locked, pc, avail>>
  BY DEF RunSetReady, RunWaker, CallbackRun
<1> DEFINE o == Head(hand).owner
<1>2. /\ hand' \in Seq(Cb) /\ hand' \in Seq(CbRecord) /\ Head(hand) \in Cb /\ o \in Task
      /\ Head(hand) = SetReady(o) \/ Head(hand) = Wake(o)
      /\ \A x : Has(hand, x) /\ x # Head(hand) => Has(hand', x)
  BY <1>1, TailKeeps, CbFacts, CbSeq DEF TableInv
<1> HIDE DEF o
<1>3. OpenInv' /\ WatchInv'
  BY <1>1 DEF OpenInv, WatchInv
<1>4. TableInv'
  BY <1>1, <1>2 DEF TableInv, TableOf, Distinct
<1>5. CASE RunSetReady
  <2>1. /\ Head(hand) = SetReady(o) /\ entries' = entries
        /\ ready' = [ready EXCEPT ![o] = fd[o] # NoFd]
    BY <1>2, <1>5, CbFacts DEF RunSetReady, o
  <2>2. TypeOK'
    BY <1>1, <1>2, <2>1 DEF TypeOK, HandlerTypeOK, CbRecord
  <2>3. ReadyOrArmed'
    <3>1. ASSUME NEW t \in Task, pc[t] \in Ready
          PROVE  ready'[t] \/ Has(listeners[fd[t]], SetReady(t)) \/ Has(hand', SetReady(t))
      <4>1. CASE t = o
        BY <2>1, <3>1, <4>1 DEF OpenInv, TypeOK, Ready
      <4>2. CASE t # o
        <5>1. SetReady(t) # Head(hand)
          BY <2>1, <4>2, <1>2, CbFacts
        <5> QED
          BY <1>2, <2>1, <3>1, <4>2, <5>1, Needs DEF TypeOK
      <4> QED
        BY <4>1, <4>2
    <3> QED
      BY <1>1, <3>1, NeedsNext
  <2>4. WaitingIsWakeable'
    <3>1. \A t \in Task : Wake(t) # Head(hand)
      BY <1>2, <2>1, CbFacts
    <3> QED
      BY <1>1, <1>2, <2>1, <3>1, Needs, NeedsNext
  <2> QED
    BY <1>3, <1>4, <2>2, <2>3, <2>4
<1>6. CASE RunWaker
  <2>1. /\ Head(hand) = Wake(o) /\ ready' = ready /\ entries[o] < MaxEntries
        /\ entries' = [entries EXCEPT ![o] = IF fd[o] = NoFd THEN @ ELSE @ + 1]
    BY <1>2, <1>6, CbFacts DEF RunWaker, o
  <2>2. entries' \in [Task -> 0 .. MaxEntries]
    BY <1>2, <2>1, DescriptorAssumption DEF TypeOK
  <2>3. TypeOK'
    BY <1>1, <1>2, <2>1, <2>2 DEF TypeOK, HandlerTypeOK, CbRecord
  <2>4. WaitingIsWakeable'
    <3>1. ASSUME NEW t \in Task, pc[t] = "waiting"
          PROVE  entries'[t] > 0 \/ Has(listeners[fd[t]], Wake(t)) \/ Has(hand', Wake(t))
      <4>1. CASE t = o
        BY <2>1, <3>1, <4>1 DEF OpenInv, TypeOK
      <4>2. CASE t # o
        <5>1. Wake(t) # Head(hand)
          BY <2>1, <4>2, <1>2, CbFacts
        <5> QED
          BY <1>2, <2>1, <3>1, <4>2, <5>1, Needs DEF TypeOK
      <4> QED
        BY <4>1, <4>2
    <3> QED
      BY <1>1, <3>1, NeedsNext
  <2>5. ReadyOrArmed'
    <3>1. \A t \in Task : SetReady(t) # Head(hand)
      BY <1>2, <2>1, CbFacts
    <3> QED
      BY <1>1, <1>2, <2>1, <3>1, Needs, NeedsNext
  <2> QED
    BY <1>3, <1>4, <2>3, <2>4, <2>5
<1> QED
  BY <1>5, <1>6
-----------------------------------------------------------------------------
(* Constructor, poll_read and destructor.                                  *)

(* Where a task has a descriptor.                                          *)
LEMMA HasFd == ASSUME IInv, NEW t \in Task, pc[t] \notin {"none", "over"} PROVE fd[t] \in Fd
  BY DEF IInv, OpenInv, TypeOK

(* A step of a task that registers a callback of its own and goes on.      *)
LEMMA AddInv ==
    ASSUME IInv, NEW t \in Task, NEW cb \in {SetReady(t), Wake(t)}, AddListener(fd[t], cb),
           pc[t] \in (Listening \ {"erase"}) \cup {"listen"},
           NEW label \in Listening \ {"erase"}, pc' = [pc EXCEPT ![t] = label],
           UNCHANGED <<fds, inUse, rpc, selected, visit, hand, fd, ready, avail>>,
           locked' \in [Task -> BOOLEAN], entries' \in [Task -> 0 .. MaxEntries],
           \A u \in Task \ {t} : entries'[u] = entries[u],
           label \in Ready =>
               \/ cb = SetReady(t)
               \/ pc[t] \in Ready,
           label = "waiting" => cb = Wake(t) \/ entries'[t] > 0
    PROVE  IInv'
<1> USE DEF IInv
<1>1. fd[t] \in Fd
  BY HasFd DEF Listening
<1> DEFINE s == listeners[fd[t]]
<1> DEFINE r == InsertCallback(s, cb)
<1>2. /\ s \in Seq(Cb) /\ Distinct(s) /\ \A i \in DOMAIN s : s[i].owner = t
  <2>1. TableOf(fd[t])
    BY <1>1 DEF TableInv
  <2>2. ASSUME NEW i \in DOMAIN s PROVE s[i].owner = t
    <3>1. s[i] \in Cb /\ fd[s[i].owner] = fd[t]
      <4>1. s \in Seq(Cb)
        BY <2>1 DEF TableOf
      <4>2. s[i] \in Cb
        BY <4>1, ElementOfSeq, LenProperties
      <4> QED
        BY <2>1, <4>2 DEF TableOf
    <3>2. s[i].owner \in Task /\ fd[t] # NoFd
      BY <1>1, <3>1, CbFacts, DescriptorAssumption
    <3> QED
      BY <3>1, <3>2 DEF OpenInv
  <2> QED
    BY <2>1, <2>2 DEF TableOf
<1>3. /\ r \in Seq(Cb) /\ Distinct(r) /\ (\A i \in DOMAIN r : r[i].owner = t)
      /\ Has(r, cb) /\ \A x : Has(s, x) => Has(r, x)
  <2> DEFINE S == s
  <2>1. S \in Seq(Cb) /\ Distinct(S) /\ \A i \in DOMAIN S : S[i].owner = t
    BY <1>2
  <2> HIDE DEF S
  <2>2. /\ InsertCallback(S, cb) \in Seq(Cb) /\ Distinct(InsertCallback(S, cb))
        /\ \A i \in DOMAIN InsertCallback(S, cb) : InsertCallback(S, cb)[i].owner = t
        /\ Has(InsertCallback(S, cb), cb) /\ \A x : Has(S, x) => Has(InsertCallback(S, cb), x)
    BY ONLY <2>1, cb \in {SetReady(t), Wake(t)}, t \in Task, Inserted, ZenonT(30)
  <2> QED BY ONLY <2>2 DEF S
<1>4. r \in Seq(CbRecord) /\ Len(r) <= 2
  BY <1>3, CbSeq, TwoKeys
<1>5. listeners' = [listeners EXCEPT ![fd[t]] = r]
  BY DEF AddListener
<1> HIDE DEF r
<1>6. listeners'[fd[t]] = r /\ \A g \in Fd \ {fd[t]} : listeners'[g] = listeners[g]
  BY <1>1, <1>5 DEF TypeOK, HandlerTypeOK
<1>7. TypeOK'
  <2>1. listeners' \in [Fd -> Seq(CbRecord)]
    BY <1>1, <1>4, <1>5 DEF TypeOK, HandlerTypeOK, CbRecord
  <2>2. \A g \in Fd : Len(listeners'[g]) <= 2
    <3>1. Len(listeners'[fd[t]]) <= 2
      BY <1>4, <1>6, Zenon
    <3>0. \A g \in Fd : Len(listeners[g]) <= 2
      BY DEF TypeOK
    <3>2. \A g \in Fd : g = fd[t] \/ listeners'[g] = listeners[g]
      BY <1>6
    <3> QED
      BY <3>0, <3>1, <3>2, Zenon
  <2>3. pc' \in [Task -> Pc]
    BY DEF TypeOK, Pc, Listening
  <2> QED
    BY <2>1, <2>2, <2>3 DEF TypeOK, HandlerTypeOK, CbRecord
<1>8. \A u \in Task : pc'[u] = IF u = t THEN label ELSE pc[u]
  BY DEF TypeOK
<1>9. OpenInv'
  BY <1>8 DEF OpenInv, Listening
<1>10. WatchInv'
  BY <1>8 DEF WatchInv, Watching, Listening
<1>11. TableInv'
  <2>1. ASSUME NEW g \in Fd PROVE TableOf(g)'
    <3>1. CASE g = fd[t]
      BY <1>3, <1>6, <1>8, <3>1 DEF TableOf, Distinct
    <3>2. CASE g # fd[t]
      <4>1. TableOf(g) /\ listeners'[g] = listeners[g]
        BY <1>6, <3>2 DEF TableInv
      <4>2. \A i \in DOMAIN listeners[g] : listeners[g][i].owner \in Task
        BY <4>1, CbFacts, ElementOfSeq DEF TableOf
      <4> QED
        BY <1>8, <3>2, <4>1, <4>2 DEF TableOf, Distinct
    <3> QED
      BY <3>1, <3>2
  <2> QED
    BY <2>1 DEF TableInv, TableOf
<1>12. ReadyOrArmed' /\ WaitingIsWakeable'
  <2>1. ASSUME NEW u \in Task, NEW x, fd[u] \in Fd, Has(listeners[fd[u]], x)
        PROVE  Has(listeners'[fd'[u]], x)
    BY <1>3, <1>6, <2>1
  <2>2. \A u \in Task : pc'[u] \in Listening => u = t \/ (pc'[u] = pc[u] /\ fd[u] \in Fd)
    BY <1>8, HasFd DEF Listening
  <2>3. ASSUME NEW u \in Task, pc'[u] \in Ready
        PROVE  ready'[u] \/ Has(listeners'[fd'[u]], SetReady(u)) \/ Has(hand', SetReady(u))
    <3>1. CASE u = t /\ cb = SetReady(t)
      BY <1>3, <1>6, <3>1
    <3>2. CASE pc[u] \in Ready /\ fd[u] \in Fd
      BY <2>1, <3>2, Needs
    <3> QED
      BY <1>1, <1>8, <2>2, <2>3, <3>1, <3>2 DEF Listening, Ready
  <2>4. ASSUME NEW u \in Task, pc'[u] = "waiting"
        PROVE  entries'[u] > 0 \/ Has(listeners'[fd'[u]], Wake(u)) \/ Has(hand', Wake(u))
    <3>1. CASE u = t
      BY <1>3, <1>6, <1>8, <2>4, <3>1
    <3>2. CASE u # t
      <4>1. pc[u] = "waiting" /\ fd[u] \in Fd
        BY <1>8, <2>2, <2>4, <3>2 DEF Listening
      <4>2. entries[u] > 0 \/ Has(listeners[fd[u]], Wake(u)) \/ Has(hand, Wake(u))
        BY <4>1, Needs
      <4>3. entries'[u] = entries[u]
        BY <3>2
      <4> QED
        BY <2>1, <4>1, <4>2, <4>3
    <3> QED
      BY <3>1, <3>2
  <2> QED
    BY <2>3, <2>4, NeedsNext
<1> QED
  BY <1>7, <1>9, <1>10, <1>11, <1>12

(* A step of a task that leaves the callbacks alone.                       *)
LEMMA GoesOn ==
    ASSUME IInv, NEW t \in Task, NEW label \in Pc, pc' = [pc EXCEPT ![t] = label],
           pc[t] \notin {"none", "over"}, label \notin {"none", "over", "waiting"},
           UNCHANGED <<listeners, rpc, selected, visit, hand, fd>>,
           fds' \subseteq fds \cup {fd[t]}, inUse' \subseteq inUse \cup {fd[t]},
           ready' \in [Task -> BOOLEAN], locked' \in [Task -> BOOLEAN],
           entries' \in [Task -> 0 .. MaxEntries], avail' \in [Fd -> 0 .. MaxAvail],
           \A u \in Task \ {t} : ready'[u] = ready[u] /\ entries'[u] = entries[u],
           pc[t] \in Listening => label \in Listening,
           label \in Watching \/ fd[t] \notin fds',
           label \in Ready \ {"waiting"} =>
               pc[t] = "waiting" /\ ready'[t] = ready[t]
    PROVE  IInv'
<1> USE DEF IInv
<1>1. fd[t] \in Fd
  BY HasFd
<1>2. \A u \in Task : pc'[u] = IF u = t THEN label ELSE pc[u]
  BY DEF TypeOK
<1>3. TypeOK'
  BY <1>1 DEF TypeOK, HandlerTypeOK
<1>4. OpenInv'
  BY <1>2 DEF OpenInv
<1>5. WatchInv'
  BY <1>2 DEF WatchInv
<1>6. TableInv'
  <2>1. ASSUME NEW g \in Fd PROVE TableOf(g)'
    <3>1. TableOf(g)
      BY DEF TableInv
    <3>2. \A i \in DOMAIN listeners[g] : listeners[g][i].owner \in Task
      BY <3>1, CbFacts, ElementOfSeq DEF TableOf
    <3> QED
      BY <1>2, <3>1, <3>2 DEF TableOf, Distinct
  <2> QED
    BY <2>1 DEF TableInv, TableOf
<1>7. ReadyOrArmed' /\ WaitingIsWakeable'
  BY <1>2, Needs, NeedsNext DEF Ready
<1> QED
  BY <1>3, <1>4, <1>5, <1>6, <1>7

LEMMA GoesOnSteps ==
    ASSUME IInv, NEW t \in Task,
           \/ RegisterUse(t) \/ RegisterWatch(t) \/ StartPoll(t) \/ ReadData(t) \/ ReadAgain(t)
           \/ ReadError(t)
           \/ UnregisterWatch(t) \/ UnregisterUse(t)
    PROVE  IInv'
<1>0. /\ ready \in [Task -> BOOLEAN] /\ locked \in [Task -> BOOLEAN]
      /\ entries \in [Task -> 0 .. MaxEntries] /\ avail \in [Fd -> 0 .. MaxAvail]
  BY DEF IInv, TypeOK
<1>00. pc[t] \notin {"none", "over"} => fd[t] \in Fd
  BY HasFd
<1>1. CASE RegisterUse(t)
  <2>1. fd[t] \notin fds
    BY <1>1 DEF IInv, WatchInv, OpenInv, RegisterUse, Watching
  <2> QED
    BY <1>0, <1>1, <2>1, GoesOn DEF RegisterUse, UseFd, Goto, Pc, Listening, Ready
<1>2. CASE RegisterWatch(t)
  BY <1>0, <1>2, GoesOn DEF RegisterWatch, WatchFd, Goto, Pc, Listening, Watching, Ready
<1>3. CASE StartPoll(t)
  <2>1. entries' \in [Task -> 0 .. MaxEntries]
    BY <1>0, <1>3, DescriptorAssumption DEF StartPoll
  <2> QED
    BY <1>0, <1>3, <2>1, GoesOn DEF StartPoll, handlerVars, Goto, Pc, Listening, Watching, Ready
<1>4. CASE ReadData(t)
  <2>1. avail' \in [Fd -> 0 .. MaxAvail]
    BY <1>0, <1>00, <1>4, DescriptorAssumption DEF ReadData
  <2> QED
    BY <1>0, <1>4, <2>1, GoesOn DEF ReadData, handlerVars, Goto, Pc, Listening, Watching, Ready
<1>5. CASE ReadAgain(t)
  BY <1>0, <1>5, GoesOn DEF ReadAgain, handlerVars, Goto, Pc, Listening, Watching, Ready
<1>6. CASE ReadError(t)
  BY <1>0, <1>6, GoesOn DEF ReadError, handlerVars, Goto, Pc, Listening, Watching, Ready
<1>7. CASE UnregisterWatch(t)
  BY <1>0, <1>7, GoesOn DEF UnregisterWatch, UnwatchFd, Goto, Pc, Listening, Watching, Ready
<1>8. CASE UnregisterUse(t)
  <2>1. fd[t] \notin fds
    BY <1>8 DEF IInv, WatchInv, OpenInv, UnregisterUse, Watching
  <2> QED
    BY <1>0, <1>8, <2>1, GoesOn DEF UnregisterUse, UnuseFd, Goto, Pc, Listening, Ready
<1> QED
  BY <1>1, <1>2, <1>3, <1>4, <1>5, <1>6, <1>7, <1>8

LEMMA AddSteps ==
    ASSUME IInv, NEW t \in Task,
           \/ RegisterReady(t) \/ ReadNotReady(t) \/ ReadyAgain(t) \/ WakerAgain(t)
           \/ WakerAfterError(t)
           \/ \E label \in {"poll", "waiting"} : WakerAfterData(t, label)
    PROVE  IInv'
<1>0. locked \in [Task -> BOOLEAN] /\ entries \in [Task -> 0 .. MaxEntries]
  BY DEF IInv, TypeOK
<1>1. CASE RegisterReady(t)
  <2>1. entries' \in [Task -> 0 .. MaxEntries] /\ entries'[t] > 0
    BY <1>0, <1>1, DescriptorAssumption DEF RegisterReady
  <2> QED
    BY <1>0, <1>1, <2>1, AddInv DEF RegisterReady, Goto, Listening, Ready
<1>2. CASE ReadNotReady(t)
  BY <1>0, <1>2, AddInv DEF ReadNotReady, Goto, Listening, Ready
<1>3. CASE ReadyAgain(t)
  <2>1. PICK label \in {"waker", "waker_locked", "waker_error"} : Goto(t, label)
    BY <1>3 DEF ReadyAgain, AfterReady
  <2> QED
    BY <1>0, <1>3, <2>1, AddInv DEF ReadyAgain, AfterReady, Goto, Listening, Ready
<1>4. CASE WakerAgain(t)
  BY <1>0, <1>4, AddInv DEF WakerAgain, Goto, Listening, Ready
<1>5. ASSUME NEW label \in {"poll", "waiting"}, WakerAfterData(t, label)
      PROVE  IInv'
  BY <1>0, <1>5, AddInv DEF WakerAfterData, Goto, Listening, Ready
<1>6. CASE WakerAfterError(t)
  BY <1>0, <1>6, AddInv DEF WakerAfterError, Goto, Listening, Ready
<1> QED
  BY <1>1, <1>2, <1>3, <1>4, <1>5, <1>6

(* The destructor's second step, a new object, its end, and the peer.      *)
LEMMA EraseInv ==
    ASSUME IInv, NEW t \in Task, UnregisterListeners(t)
    PROVE  IInv'
<1> USE DEF IInv
<1>1. /\ pc[t] = "erase" /\ fd[t] \in Fd /\ pc' = [pc EXCEPT ![t] = "unuse"]
      /\ listeners' = [listeners EXCEPT ![fd[t]] = <<>>]
      /\ UNCHANGED <<fds, inUse, rpc, selected, visit, hand, fd, ready, locked, entries, avail>>
  BY HasFd DEF UnregisterListeners, EraseListeners, Goto
<1>2. /\ listeners'[fd[t]] = <<>> /\ \A g \in Fd \ {fd[t]} : listeners'[g] = listeners[g]
      /\ \A u \in Task : pc'[u] = IF u = t THEN "unuse" ELSE pc[u]
  BY <1>1 DEF TypeOK, HandlerTypeOK
<1>3. <<>> \in Seq(CbRecord) /\ <<>> \in Seq(Cb) /\ Len(<<>>) = 0 /\ DOMAIN <<>> = {}
  BY EmptySeq, LenProperties
<1>4. TypeOK'
  <2>1. listeners' \in [Fd -> Seq(CbRecord)] /\ pc' \in [Task -> Pc]
    BY <1>1, <1>3 DEF TypeOK, HandlerTypeOK, CbRecord, Pc
  <2>2. \A g \in Fd : Len(listeners'[g]) <= 2
    <3>1. Len(listeners'[fd[t]]) = 0
      BY <1>2, <1>3, Zenon
    <3>2. \A g \in Fd : Len(listeners'[g]) = 0 \/ Len(listeners'[g]) = Len(listeners[g])
      <4>1. \A g \in Fd : g = fd[t] \/ listeners'[g] = listeners[g]
        BY <1>2
      <4> QED
        BY <3>1, <4>1, Zenon
    <3>3. \A g \in Fd : Len(listeners[g]) <= 2
      BY DEF TypeOK
    <3> QED
      BY <3>2, <3>3
  <2> QED
    BY <1>1, <2>1, <2>2 DEF TypeOK, HandlerTypeOK, CbRecord
<1>5. OpenInv' /\ WatchInv'
  BY <1>1, <1>2 DEF OpenInv, WatchInv, Watching
<1>6. TableInv'
  <2>1. ASSUME NEW g \in Fd PROVE TableOf(g)'
    <3>1. CASE g = fd[t]
      BY <1>2, <1>3, <3>1 DEF TableOf, Distinct
    <3>2. CASE g # fd[t]
      <4>1. TableOf(g) /\ listeners'[g] = listeners[g]
        BY <1>2, <3>2 DEF TableInv
      <4>2. \A i \in DOMAIN listeners[g] : listeners[g][i].owner \in Task
        BY <4>1, CbFacts, ElementOfSeq, LenProperties DEF TableOf
      <4> QED
        BY <1>1, <1>2, <3>2, <4>1, <4>2 DEF TableOf, Distinct
    <3> QED
      BY <3>1, <3>2
  <2> QED
    BY <1>1, <2>1 DEF TableInv, TableOf
<1>7. ReadyOrArmed' /\ WaitingIsWakeable'
  <2>1. ASSUME NEW u \in Task \ {t}, pc[u] \notin {"none", "over"}
        PROVE  listeners'[fd'[u]] = listeners[fd[u]]
    <3>1. fd[u] \in Fd /\ fd[u] # NoFd
      BY <2>1, HasFd, DescriptorAssumption
    <3>2. fd[u] # fd[t]
      BY <2>1, <3>1 DEF OpenInv
    <3> QED
      BY <1>1, <1>2, <3>1, <3>2
  <2> QED
    BY <1>1, <1>2, <2>1, Needs, NeedsNext DEF Ready
<1> QED
  BY <1>4, <1>5, <1>6, <1>7

LEMMA OtherSteps ==
    ASSUME IInv,
           \/ \E f \in Fd : Arrive(f)
           \/ \E t \in Task : CloseFd(t) \/ \E f \in Fd : OpenFd(t, f)
    PROVE  IInv'
<1> USE DEF IInv
<1>1. ASSUME NEW f \in Fd, Arrive(f)
      PROVE  IInv'
  <2>1. TypeOK'
    <3>1. avail' \in [Fd -> 0 .. MaxAvail]
      BY <1>1, DescriptorAssumption DEF Arrive, TypeOK
    <3>2. UNCHANGED <<fds, inUse, listeners, rpc, selected, visit, hand, fd, ready, locked, pc, entries>>
      BY <1>1 DEF Arrive, handlerVars
    <3> QED
      BY <3>1, <3>2 DEF TypeOK, HandlerTypeOK
  <2>2. OpenInv' /\ WatchInv' /\ TableInv'
    BY <1>1 DEF Arrive, handlerVars, OpenInv, WatchInv, TableInv, TableOf, Distinct
  <2>3. ReadyOrArmed' /\ WaitingIsWakeable'
    BY <1>1 DEF Arrive, handlerVars, ReadyOrArmed, Ready, WaitingIsWakeable, Registered, InHand
  <2> QED
    BY <2>1, <2>2, <2>3
<1>2. ASSUME NEW t \in Task, NEW f \in Fd \cup {NoFd}, NEW label \in {"use", "over"},
             pc[t] \in {"none", "close"}, label = "over" <=> f = NoFd,
             f = NoFd \/ f \notin Open,
             fd' = [fd EXCEPT ![t] = f], pc' = [pc EXCEPT ![t] = label],
             UNCHANGED <<handlerVars, locked>>,
             ready' \in [Task -> BOOLEAN], entries' \in [Task -> 0 .. MaxEntries],
             avail' \in [Fd -> 0 .. MaxAvail],
             \A u \in Task \ {t} : ready'[u] = ready[u] /\ entries'[u] = entries[u]
      PROVE  IInv'
  <2>1. \A u \in Task : /\ pc'[u] = IF u = t THEN label ELSE pc[u]
                        /\ fd'[u] = IF u = t THEN f ELSE fd[u]
    BY <1>2 DEF TypeOK
  <2>2. TypeOK'
    BY <1>2 DEF TypeOK, HandlerTypeOK, handlerVars, Pc
  <2>3. OpenInv'
    BY <1>2, <2>1 DEF OpenInv, Open
  <2>4. WatchInv'
    BY <1>2, <2>1 DEF WatchInv, Watching, handlerVars
  <2>5. TableInv'
    <3>1. ASSUME NEW g \in Fd PROVE TableOf(g)'
      <4>1. TableOf(g)
        BY DEF TableInv
      <4>2. \A i \in DOMAIN listeners[g] : listeners[g][i].owner \in Task
        BY <4>1, CbFacts, ElementOfSeq, LenProperties DEF TableOf
      <4> QED
        BY <1>2, <2>1, <4>1, <4>2 DEF TableOf, Distinct, handlerVars, Listening
    <3> QED
      BY <1>2, <3>1 DEF TableInv, TableOf, handlerVars
  <2>6. ReadyOrArmed' /\ WaitingIsWakeable'
    BY <1>2, <2>1, Needs, NeedsNext DEF handlerVars, Ready
  <2> QED
    BY <2>2, <2>3, <2>4, <2>5, <2>6
<1>3. ASSUME NEW t \in Task, NEW f \in Fd, OpenFd(t, f)
      PROVE  IInv'
  <2>1. f # NoFd /\ f \notin Open /\ pc[t] = "none"
    BY <1>3, DescriptorAssumption DEF OpenFd
  <2>2. ready' \in [Task -> BOOLEAN] /\ entries' \in [Task -> 0 .. MaxEntries]
        /\ avail' \in [Fd -> 0 .. MaxAvail]
    BY <1>3 DEF OpenFd, TypeOK
  <2> QED
    BY <1>2, <1>3, <2>1, <2>2 DEF OpenFd, Goto
<1>4. ASSUME NEW t \in Task, CloseFd(t)
      PROVE  IInv'
  <2>1. pc[t] = "close" /\ fd[t] \in Fd
    BY <1>4, HasFd DEF CloseFd
  <2>2. ready' \in [Task -> BOOLEAN] /\ entries' \in [Task -> 0 .. MaxEntries]
        /\ avail' \in [Fd -> 0 .. MaxAvail]
    BY <1>4, <2>1, DescriptorAssumption DEF CloseFd, TypeOK
  <2> QED
    BY <1>2, <1>4, <2>1, <2>2 DEF CloseFd, Goto
<1> QED
  BY <1>1, <1>3, <1>4
-----------------------------------------------------------------------------
(* The theorems.                                                           *)

LEMMA InvInit == Init => IInv
<1> SUFFICES ASSUME Init PROVE IInv
  OBVIOUS
<1>1. <<>> \in Seq(CbRecord) /\ <<>> \in Seq(Cb) /\ Len(<<>>) = 0 /\ DOMAIN <<>> = {}
  BY EmptySeq, LenProperties
<1>2. listeners = [f \in Fd |-> <<>>] /\ hand = <<>> /\ \A f \in Fd : listeners[f] = <<>>
  BY DEF Init, HandlerInit
<1>3. HandlerTypeOK(Task)
  <2>1. listeners \in [Fd -> Seq(CbRecord)] /\ hand \in Seq(CbRecord)
    BY <1>1, <1>2
  <2> QED
    BY <2>1 DEF Init, HandlerInit, HandlerTypeOK, ReactorPc, CbRecord
<1>4. \A f \in Fd : Len(listeners[f]) <= 2
  <2> SUFFICES ASSUME NEW f \in Fd PROVE Len(listeners[f]) <= 2
    OBVIOUS
  <2>1. Len(<<>>) = 0
    BY <1>1
  <2>2. listeners[f] = <<>>
    BY <1>2
  <2>3. Len(listeners[f]) = 0
    BY <2>1, <2>2, Zenon
  <2> QED
    BY <2>3
<1>5. TypeOK
  BY <1>3, <1>4, DescriptorAssumption DEF Init, TypeOK, Pc
<1>6. OpenInv /\ WatchInv
  BY DEF Init, HandlerInit, OpenInv, WatchInv
<1>7. TableInv
  BY <1>1, <1>2 DEF Init, HandlerInit, TableInv, TableOf, Distinct
<1>8. ReadyOrArmed /\ WaitingIsWakeable
  BY DEF Init, ReadyOrArmed, Ready, WaitingIsWakeable
<1> QED
  BY <1>5, <1>6, <1>7, <1>8 DEF IInv

(* Whom a number and its callbacks belong to, and what is still on its way *)
(* to a task that waits.                                                   *)
THEOREM Invariant == Spec => []IInv
<1>1. IInv /\ [Next]_vars => IInv'
  <2> SUFFICES ASSUME IInv, [Next]_vars PROVE IInv'
    OBVIOUS
  <2>1. CASE UNCHANGED vars
    <3>1. Quiet \/ (rpc' = rpc /\ rpc = "run")
      BY <2>1 DEF vars, handlerVars, taskVars, Quiet, IInv, TableInv, TypeOK, HandlerTypeOK
    <3> QED
      BY <2>1 DEF vars, handlerVars, taskVars, IInv, TypeOK, HandlerTypeOK, OpenInv, WatchInv, TableInv,
         TableOf, Distinct, ReadyOrArmed, WaitingIsWakeable, Registered, InHand
  <2>2. CASE Reactor
    BY <2>2, QuietSteps, QuietInv, MoveInv, RunInv DEF Reactor
  <2>3. ASSUME NEW t \in Task, Poll(t) \/ UnregisterWatch(t)
        PROVE  IInv'
    BY <2>3, GoesOnSteps, AddSteps, EraseInv, OtherSteps DEF Poll, Construct, Read, Destruct
  <2> QED
    BY <2>1, <2>2, <2>3, OtherSteps DEF Next
<1> QED
  BY InvInit, <1>1, PTL DEF Spec

(* Every variable keeps its type, and a descriptor has at most one         *)
(* callback for each key (register_callback, IoEventHandler.cpp:205-233).  *)
THEOREM TypeCorrect == Spec => []TypeOK
<1>1. IInv => TypeOK
  BY DEF IInv
<1> QED
  BY <1>1, Invariant, PTL

(* Readiness is never forgotten: the flag is set, or the callback that     *)
(* sets it is registered or about to run (poll_read, FileDescriptor.cpp).  *)
THEOREM NeverForgotten == Spec => []ReadyOrArmed
<1>1. IInv => ReadyOrArmed
  BY DEF IInv
<1> QED
  BY <1>1, Invariant, PTL

(* A task that waits for its descriptor has its waker in the table or on   *)
(* its way, whatever the reactor was doing when it was registered.         *)
THEOREM Wakeable == Spec => []WaitingIsWakeable
<1>1. IInv => WaitingIsWakeable
  BY DEF IInv
<1> QED
  BY <1>1, Invariant, PTL

(* A reused number inherits no callback of its former object (the order of *)
(* the destructor's steps, FileDescriptor.cpp:49-56).                      *)
THEOREM NothingInherited == Spec => []CallbacksOfOwner
<1>1. IInv => CallbacksOfOwner
  BY DEF IInv, TableInv, TableOf, CallbacksOfOwner
<1> QED
  BY <1>1, Invariant, PTL

(* The set select is given names open descriptors only.                    *)
THEOREM OnlyOpenWatched == Spec => []WatchesOpenOnly
<1>1. IInv => WatchesOpenOnly
  BY DEF IInv, WatchInv, OpenInv, WatchesOpenOnly, Open, Watching
<1> QED
  BY <1>1, Invariant, PTL
=============================================================================
