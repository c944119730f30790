---------------------------- MODULE ConnectionProofs ----------------------------
(***************************************************************************)
(* What Connection promises its client, for any number of connections,     *)
(* timers of any period, with and without workers: one response at most,   *)
(* and timers that are neither early nor forgotten.                        *)
(***************************************************************************)
EXTENDS Connection, SequenceTheorems, FiniteSetTheorems, TLAPS

(* The future of c still exists, and its client has got nothing from it.   *)
Untouched(c) == pc[c] \notin {"drop", "over"} /\ (state[c] # "Respond" \/ bytes[c] = 0)

(* The part of the type invariant that the argument needs.                 *)
AnswerTypeOK ==
    /\ state \in [Conn -> State]
    /\ pc \in [Conn -> Pc]
    /\ after \in [Conn -> {"waiting", "poll", "timer"}]
    /\ bytes \in [Conn -> 0 .. MaxBytes]
    /\ answered \in [Conn -> 0 .. 1]

(* A response that nobody has seen any of may still be replaced: an error  *)
(* page is the first the client gets.                                      *)
AnswerInv == \A c \in Conn : Untouched(c) => answered[c] = 0

IInv == AnswerTypeOK /\ AnswerInv

answerFrame == <<state, after, bytes, answered>>

(* c goes on, or another task or the reactor has its turn.                 *)
Moves(c) ==
    /\ pc[c] \notin {"drop", "over"}
    /\ \E label \in Pc : pc' = [pc EXCEPT ![c] = label]
    /\ UNCHANGED <<state, bytes, answered>>
    /\ after' \in [Conn -> {"waiting", "poll", "timer"}]

(* The response of c is written for the first time, or a new one is.       *)
Switches(c) ==
    /\ state' = [state EXCEPT ![c] = "Respond"]
    /\ bytes' = [bytes EXCEPT ![c] = 0]
    /\ after' = [after EXCEPT ![c] = "poll"]
    /\ pc' = [pc EXCEPT ![c] = "renew"]
    /\ UNCHANGED answered

(* The copier of c writes some bytes, or none.                             *)
Writes(c) ==
    /\ pc[c] = "poll" /\ state[c] = "Respond"
    /\ \E n \in 0 .. 1 : Write(c, n)
    /\ \E label \in Pc : pc' = [pc EXCEPT ![c] = label]
    /\ UNCHANGED state
    /\ after' \in [Conn -> {"waiting", "poll", "timer"}]
-----------------------------------------------------------------------------
LEMMA MovesInv == ASSUME IInv, NEW c \in Conn, Moves(c) PROVE IInv'
<1>1. PICK label \in Pc : pc' = [pc EXCEPT ![c] = label]
  BY DEF Moves
<1>2. AnswerTypeOK'
  BY <1>1 DEF IInv, AnswerTypeOK, Moves
<1>3. AnswerInv'
  BY <1>1 DEF IInv, AnswerTypeOK, AnswerInv, Moves, Untouched
<1> QED
  BY <1>2, <1>3 DEF IInv

LEMMA SwitchesInv ==
    ASSUME IInv, NEW c \in Conn, Switches(c), answered[c] = 0
    PROVE  IInv'
<1>1. AnswerTypeOK'
  BY ConnectionAssumption DEF IInv, AnswerTypeOK, Switches, State, Pc
<1>2. AnswerInv'
  BY DEF IInv, AnswerTypeOK, AnswerInv, Switches, Untouched
<1> QED
  BY <1>1, <1>2 DEF IInv

(* The first byte of a response is the first its client gets at all, which *)
(* is why answered never counts a second one.                              *)
LEMMA WritesInv == ASSUME IInv, NEW c \in Conn, Writes(c) PROVE IInv'
<1>1. PICK label \in Pc : pc' = [pc EXCEPT ![c] = label]
  BY DEF Writes
<1>2. PICK n \in 0 .. 1 : Write(c, n)
  BY DEF Writes
<1>3. bytes[c] \in 0 .. MaxBytes /\ answered[c] \in 0 .. 1 /\ (bytes[c] = 0 => answered[c] = 0)
  BY DEF IInv, AnswerTypeOK, AnswerInv, Untouched, Writes
<1>4. bytes' \in [Conn -> 0 .. MaxBytes] /\ answered' \in [Conn -> 0 .. 1]
  <2>1. bytes[c] + n \in 0 .. MaxBytes
    BY <1>2, <1>3, ConnectionAssumption DEF Write
  <2>2. (IF bytes[c] = 0 /\ n > 0 THEN answered[c] + 1 ELSE answered[c]) \in 0 .. 1
    BY <1>3
  <2> QED
    BY <1>2, <2>1, <2>2 DEF Write, IInv, AnswerTypeOK
<1>5. AnswerTypeOK'
  BY <1>1, <1>4 DEF IInv, AnswerTypeOK, Writes
<1>6. AnswerInv'
  <2> SUFFICES ASSUME NEW d \in Conn, Untouched(d)' PROVE answered'[d] = 0
    BY DEF AnswerInv
  <2>1. CASE d = c
    <3>1. bytes'[c] = 0 /\ bytes'[c] = bytes[c] + n
      BY <1>2, <2>1 DEF Write, Writes, Untouched, IInv, AnswerTypeOK
    <3>2. bytes[c] = 0 /\ n = 0
      BY <1>3, <3>1, ConnectionAssumption
    <3> QED
      BY <1>2, <1>3, <2>1, <3>2 DEF Write, IInv, AnswerTypeOK
  <2>2. CASE d # c
    <3>1. Untouched(d)
      BY <1>1, <1>2, <2>2 DEF Untouched, Write, Writes, IInv, AnswerTypeOK
    <3> QED
      BY <1>2, <2>2, <3>1 DEF Write, IInv, AnswerTypeOK, AnswerInv
  <2> QED
    BY <2>1, <2>2
<1> QED
  BY <1>5, <1>6 DEF IInv
-----------------------------------------------------------------------------
(* The steps of a task.                                                    *)

LEMMA TimerSteps == ASSUME IInv, NEW c \in Conn, Timer(c) PROVE IInv'
<1>1. after[c] \in Pc /\ {"replace", "connect", "expired", "catch", "renew", "waiting"} \subseteq Pc
  BY DEF IInv, AnswerTypeOK, Pc
<1>2. Moves(c)
  <2>1. CASE Renew(c)
    BY <1>1, <2>1 DEF Renew, Goto, Moves, answerVars, IInv, AnswerTypeOK
  <2>2. CASE Replace(c)
    BY <1>1, <2>2 DEF Replace, Goto, Moves, answerVars, IInv, AnswerTypeOK
  <2>3. CASE TimerRegister(c)
    BY <1>1, <2>3 DEF TimerRegister, Goto, Moves, answerVars, IInv, AnswerTypeOK
  <2>4. CASE TimerConnect(c)
    BY <1>1, <2>4 DEF TimerConnect, Goto, Moves, answerVars, IInv, AnswerTypeOK
  <2>5. CASE TimerRead(c)
    BY <1>1, <2>5 DEF TimerRead, Goto, Moves, answerVars, IInv, AnswerTypeOK
  <2> QED
    BY <2>1, <2>2, <2>3, <2>4, <2>5 DEF Timer
<1> QED
  BY <1>2, MovesInv

(* The catch clauses replace a response only while nothing of it is sent;  *)
(* a client that got the first byte is left with what it has.              *)
LEMMA SwitchSteps ==
    ASSUME IInv, NEW c \in Conn, ResponseReady(c) \/ CatchListen(c) \/ CatchRespond(c)
    PROVE  IInv'
<1>1. Switches(c)
  BY DEF ResponseReady, CatchListen, CatchRespond, SwitchToRespond, Goto, Switches
<1>2. Untouched(c)
  BY DEF ResponseReady, CatchListen, CatchRespond, Polls, Replaceable, Untouched
<1> QED
  BY <1>1, <1>2, SwitchesInv DEF IInv, AnswerInv

LEMMA CopierSteps ==
    ASSUME IInv, NEW c \in Conn, NEW n \in 0 .. 1,
           CopyPending(c, n) \/ CopyReady(c, n) \/ Throw(c, n)
    PROVE  IInv'
<1>1. {"renew", "timer", "drop", "catch"} \subseteq Pc
  BY DEF Pc
<1>2. CASE CopyPending(c, n)
  <2>1. Writes(c)
    BY <1>1, <1>2 DEF CopyPending, Polls, Goto, Writes, IInv, AnswerTypeOK
  <2> QED
    BY <2>1, WritesInv
<1>3. CASE CopyReady(c, n)
  <2>1. Writes(c)
    BY <1>1, <1>3 DEF CopyReady, Polls, Wait, Goto, Writes, IInv, AnswerTypeOK
  <2> QED
    BY <2>1, WritesInv
<1>4. CASE Throw(c, n) /\ state[c] = "Respond"
  <2>1. Writes(c)
    BY <1>1, <1>4 DEF Throw, Wait, Goto, Writes, IInv, AnswerTypeOK
  <2> QED
    BY <2>1, WritesInv
<1>5. CASE Throw(c, n) /\ state[c] # "Respond"
  <2>1. Moves(c)
    BY <1>1, <1>5 DEF Throw, Wait, Goto, Moves, answerVars, IInv, AnswerTypeOK
  <2> QED
    BY <2>1, MovesInv
<1> QED
  BY <1>2, <1>3, <1>4, <1>5

LEMMA DropInv == ASSUME IInv, NEW c \in Conn, Drop(c) PROVE IInv'
<1>1. AnswerTypeOK'
  BY ConnectionAssumption DEF Drop, Goto, IInv, AnswerTypeOK, Pc
<1>2. AnswerInv'
  BY DEF Drop, Goto, IInv, AnswerTypeOK, AnswerInv, Untouched
<1> QED
  BY <1>1, <1>2 DEF IInv

LEMMA FutureSteps == ASSUME IInv, NEW c \in Conn, Future(c) PROVE IInv'
<1>1. {"timer", "poll", "waiting", "drop"} \subseteq Pc
  BY DEF Pc
<1>2. CASE ParserPending(c)
  <2>1. Moves(c)
    BY <1>1, <1>2 DEF ParserPending, Polls, Wait, Goto, Moves, answerVars, IInv, AnswerTypeOK
  <2> QED
    BY <2>1, MovesInv
<1>3. CASE ParserReady(c)
  <2>1. AnswerTypeOK'
    BY <1>1, <1>3 DEF ParserReady, Wait, Goto, answerVars, IInv, AnswerTypeOK, State
  <2>2. AnswerInv'
    BY <1>3 DEF ParserReady, Polls, Wait, Goto, answerVars, IInv, AnswerTypeOK, AnswerInv, Untouched
  <2> QED
    BY <2>1, <2>2 DEF IInv
<1>4. CASE ResponsePending(c)
  <2>1. Moves(c)
    BY <1>1, <1>4 DEF ResponsePending, Polls, Wait, Goto, Moves, answerVars, IInv, AnswerTypeOK
  <2> QED
    BY <2>1, MovesInv
<1>5. CASE ThrowUncaught(c)
  <2>1. Moves(c)
    BY <1>1, <1>5 DEF ThrowUncaught, Polls, Goto, Moves, answerVars, IInv, AnswerTypeOK
  <2> QED
    BY <2>1, MovesInv
<1>6. CASE GiveUp(c)
  <2>1. Moves(c)
    BY <1>1, <1>6 DEF GiveUp, Wait, Goto, Moves, answerVars, IInv, AnswerTypeOK
  <2> QED
    BY <2>1, MovesInv
<1> QED
  BY <1>2, <1>3, <1>4, <1>5, <1>6, SwitchSteps, CopierSteps, DropInv DEF Future

LEMMA StartSteps == ASSUME IInv, NEW c \in Conn, Connect(c) \/ StartPoll(c) PROVE IInv'
<1>1. {"waiting", "poll"} \subseteq Pc
  BY DEF Pc
<1>2. Moves(c)
  BY <1>1 DEF Connect, StartPoll, Goto, Moves, answerVars, IInv, AnswerTypeOK
<1> QED
  BY <1>2, MovesInv

(* The reactor and the clock touch no response.                            *)
LEMMA MainSteps ==
    ASSUME IInv,
           Reactor \/ Tick \/ \E c \in Conn : \E i \in Io : FireDescriptor(c, i)
    PROVE  IInv'
<1>1. UNCHANGED <<pc, answerFrame>>
  BY DEF Reactor, RunSetReady, RunWaker, Tick, FireDescriptor, connVars, answerVars, answerFrame
<1> QED
  BY <1>1 DEF answerFrame, IInv, AnswerTypeOK, AnswerInv, Untouched
-----------------------------------------------------------------------------
(* The theorems.                                                           *)

(* Whether a client has got anything of a response is told by its copier's *)
(* count alone, however often the connection recovered.                    *)
THEOREM Invariant == Spec => []IInv
<1>1. Init => IInv
  BY ConnectionAssumption DEF Init, IInv, AnswerTypeOK, AnswerInv, State, Pc
<1>2. IInv /\ [Next]_vars => IInv'
  <2> SUFFICES ASSUME IInv, [Next]_vars PROVE IInv'
    OBVIOUS
  <2>1. CASE UNCHANGED vars
    BY <2>1 DEF vars, connVars, answerVars, IInv, AnswerTypeOK, AnswerInv, Untouched
  <2>2. ASSUME NEW c \in Conn, Poll(c)
        PROVE  IInv'
    BY <2>2, StartSteps, TimerSteps, FutureSteps DEF Poll
  <2> QED
    BY <2>1, <2>2, StartSteps, MainSteps DEF Next
<1> QED
  BY <1>1, <1>2, PTL DEF Spec

(* No client gets bytes of two responses: an error page never follows a    *)
(* response that was begun (the catch clauses of ConnectionFuture::poll,   *)
(* Server.cpp:151-206 and :236-277).                                       *)
THEOREM SingleResponse == Spec => []OneResponse
<1>1. IInv => OneResponse
  BY DEF IInv, AnswerTypeOK, OneResponse
<1> QED
  BY <1>1, Invariant, PTL
-----------------------------------------------------------------------------
(* What a table or a list of functors holds.                               *)
Entries(seq) == {seq[i] : i \in DOMAIN seq}

(* A flag belongs to a timer its task still has, and what points to it has *)
(* that timer's tick; so it is set, or about to be, only after the tick.   *)
FlagInv ==
    /\ \A e \in Entries(clocks) :
        /\ e.flag = "mine" => pc[e.owner] \notin {"none", "over"} /\ e.left = left[e.owner]
        /\ e.flag = "fresh" => pc[e.owner] = "replace" /\ e.left = freshLeft[e.owner]
    /\ \A f \in Entries(callbacks) :
        /\ f.flag = "mine" => pc[f.owner] \notin {"none", "over"} /\ left[f.owner] <= 0
        /\ f.flag = "fresh" => pc[f.owner] = "replace" /\ freshLeft[f.owner] <= 0
    /\ \A c \in Conn :
        /\ timedOut[c] => pc[c] \notin {"none", "over"} /\ left[c] <= 0
        /\ freshOut[c] => pc[c] = "replace" /\ freshLeft[c] <= 0

(* The waker of c is in the table, not used yet and with a connection in   *)
(* the given state, or moved out and not run, or it has run.               *)
Wakes(c, handle) ==
    \/ \E e \in Entries(clocks) :
        e.owner = c /\ e.wakes /\ e.handle = handle /\ ~e.used
    \/ \E f \in Entries(callbacks) : f.owner = c /\ f.wakes
    \/ entries[c] > 0

(* A poll leaves the waker behind before it is pending in Respond, where   *)
(* the timer is not replaced after it was polled.                          *)
WakeInv ==
    \A c \in Conn :
        /\ pc[c] = "none" => state[c] = "Listen"
        /\ (pc[c] \in {"renew", "replace"} /\ state[c] = "Respond") => after[c] # "waiting"
        /\ pc[c] = "connect" => Wakes(c, "fresh")
        /\ pc[c] = "expired" => Wakes(c, "held")
        /\ (pc[c] = "waiting" /\ state[c] = "Respond") => Wakes(c, "held")

(* The reactor has functors in its hand only while it runs them.           *)
FiringInv == rpc # "fire" => callbacks = <<>>

TimerInv == TypeOK /\ FlagInv /\ FiringInv /\ WakeInv
-----------------------------------------------------------------------------
(* The operators on tables, by what the tables hold.                       *)

(* Positions that are counted from the lowest are counted 1, 2, ... up to  *)
(* their number, each once.                                                *)
LEMMA NthOfSet ==
    ASSUME NEW S, NEW n \in Nat, S \in SUBSET (1 .. n)
    PROVE  /\ Cardinality(S) \in Nat
           /\ \A k \in 1 .. Cardinality(S) : Nth(S, k) \in S
           /\ \A i \in S : \E k \in 1 .. Cardinality(S) : Nth(S, k) = i
           /\ \A k, l \in 1 .. Cardinality(S) : k < l => Nth(S, k) < Nth(S, l)
<1> DEFINE upTo(i) == {j \in S : j <= i}
           rank == [i \in S |-> Cardinality(upTo(i))]
           N == Cardinality(S)
<1>1. IsFiniteSet(S) /\ N \in Nat
  <2>1. IsFiniteSet(1 .. n)
    BY FS_Interval
  <2>2. IsFiniteSet(S)
    BY <2>1, FS_Subset
  <2> QED
    BY <2>2, FS_CardinalityType
<1>2. \A i \in S : /\ IsFiniteSet(upTo(i))
                   /\ Cardinality(upTo(i)) \in 1 .. N
  <2> SUFFICES ASSUME NEW i \in S
               PROVE  IsFiniteSet(upTo(i)) /\ Cardinality(upTo(i)) \in 1 .. N
    OBVIOUS
  <2>1. upTo(i) \in SUBSET S /\ i \in upTo(i)
    OBVIOUS
  <2>2. IsFiniteSet(upTo(i)) /\ Cardinality(upTo(i)) <= N
    BY <1>1, <2>1, FS_Subset
  <2>3. Cardinality(upTo(i)) \in Nat /\ Cardinality(upTo(i)) # 0
    BY <2>1, <2>2, FS_CardinalityType, FS_EmptySet
  <2> QED
    BY <1>1, <2>2, <2>3
<1>3. \A i, j \in S : i < j => Cardinality(upTo(i)) < Cardinality(upTo(j))
  <2> SUFFICES ASSUME NEW i \in S, NEW j \in S, i < j
               PROVE  Cardinality(upTo(i)) < Cardinality(upTo(j))
    OBVIOUS
  <2>1. i \in Nat /\ j \in Nat /\ \A h \in S : h \in Nat
    OBVIOUS
  <2>2. upTo(i) \in SUBSET upTo(j) /\ upTo(i) # upTo(j)
    <3>1. \A h \in S : h <= i => h <= j
      BY <2>1
    <3>2. j \in upTo(j) /\ j \notin upTo(i)
      BY <2>1
    <3> QED
      BY <3>1, <3>2
  <2>3. IsFiniteSet(upTo(j))
    BY <1>2
  <2>4. Cardinality(upTo(i)) <= Cardinality(upTo(j)) /\ Cardinality(upTo(i)) # Cardinality(upTo(j))
    BY <2>2, <2>3, FS_Subset
  <2> QED
    BY <1>2, <2>4
<1> HIDE DEF upTo
<1>4. /\ \A i, j \in S : i < j => rank[i] < rank[j]
      /\ \A i, j \in S : rank[i] = rank[j] => i = j
  BY <1>2, <1>3
<1>5. rank \in Surjection(S, 1 .. N)
  <2>1. rank \in Injection(S, 1 .. N)
    BY <1>2, <1>4 DEF Injection, IsInjective
  <2>2. IsFiniteSet(1 .. N) /\ Cardinality(1 .. N) = N
    BY <1>1, FS_Interval
  <2> QED
    BY <2>1, <2>2, FS_Injection
<1>6. \A k \in 1 .. N : Nth(S, k) \in S /\ rank[Nth(S, k)] = k
  <2> SUFFICES ASSUME NEW k \in 1 .. N
               PROVE  Nth(S, k) \in S /\ rank[Nth(S, k)] = k
    OBVIOUS
  <2>1. \E i \in S : rank[i] = k
    BY <1>5 DEF Surjection
  <2>2. \A i \in S : rank[i] = Cardinality({j \in S : j <= i})
    BY DEF upTo
  <2> QED
    BY <2>1, <2>2 DEF Nth
<1>7. \A i \in S : rank[i] \in 1 .. N /\ Nth(S, rank[i]) = i
  BY <1>2, <1>4, <1>6
<1> HIDE DEF rank
<1>8. \A k, l \in 1 .. N : k < l => Nth(S, k) < Nth(S, l)
  <2> SUFFICES ASSUME NEW k \in 1 .. N, NEW l \in 1 .. N, k < l
               PROVE  Nth(S, k) < Nth(S, l)
    OBVIOUS
  <2>1. Nth(S, k) \in 1 .. n /\ Nth(S, l) \in 1 .. n
    BY <1>6
  <2>2. Nth(S, k) \in S /\ rank[Nth(S, k)] = k /\ Nth(S, l) \in S /\ rank[Nth(S, l)] = l
    BY <1>6
  <2>3. ~(l < k) /\ l # k
    BY <1>1
  <2>4. ~(Nth(S, l) < Nth(S, k)) /\ Nth(S, l) # Nth(S, k)
    BY <1>4, <2>2, <2>3
  <2> QED
    BY <2>1, <2>4
<1> QED
  BY <1>1, <1>6, <1>7, <1>8

(* The table is in the order of its ticks.                                 *)
Sorted(table) == \A i, j \in DOMAIN table : i < j => table[i].left <= table[j].left

LEMMA EntriesKept ==
    ASSUME NEW T, clocks \in Seq(T), NEW S \in SUBSET DOMAIN clocks
    PROVE  /\ EntriesAt(S) \in Seq(T)
           /\ Entries(EntriesAt(S)) = {clocks[i] : i \in S}
           /\ Sorted(clocks) => Sorted(EntriesAt(S))
<1>1. S \in SUBSET (1 .. Len(clocks)) /\ Len(clocks) \in Nat
  OBVIOUS
<1> DEFINE N == Cardinality(S)
<1>2. /\ N \in Nat
      /\ \A k \in 1 .. N : Nth(S, k) \in S
      /\ \A i \in S : \E k \in 1 .. N : Nth(S, k) = i
      /\ \A k, l \in 1 .. N : k < l => Nth(S, k) < Nth(S, l)
  BY <1>1, NthOfSet
<1> HIDE DEF N
<1>3. EntriesAt(S) = [k \in 1 .. N |-> clocks[Nth(S, k)]]
  BY DEF EntriesAt, N
<1>4. EntriesAt(S) \in Seq(T)
  BY <1>2, <1>3
<1>5. Entries(EntriesAt(S)) = {clocks[i] : i \in S}
  <2>1. Entries(EntriesAt(S)) = {clocks[Nth(S, k)] : k \in 1 .. N}
    BY <1>3 DEF Entries
  <2> QED
    BY <1>2, <2>1
<1>6. Sorted(clocks) => Sorted(EntriesAt(S))
  BY <1>2, <1>3 DEF Sorted
<1> QED
  BY <1>4, <1>5, <1>6

LEMMA Registered ==
    ASSUME NEW T, clocks \in Seq(T), NEW entry \in T, RegisterTimeout(entry),
           \A e \in T : e.left \in Int, Sorted(clocks)
    PROVE  /\ clocks' \in Seq(T)
           /\ Entries(clocks') = Entries(clocks) \cup {entry}
           /\ Sorted(clocks')
<1>1. PICK n \in 0 .. Len(clocks) :
        /\ \A i \in 1 .. n : clocks[i].left <= entry.left
        /\ \A i \in n + 1 .. Len(clocks) : clocks[i].left > entry.left
        /\ clocks' = SubSeq(clocks, 1, n) \o <<entry>> \o SubSeq(clocks, n + 1, Len(clocks))
  BY DEF RegisterTimeout
<1> DEFINE N == Len(clocks)
           front == SubSeq(clocks, 1, n)
           back == SubSeq(clocks, n + 1, N)
<1>2. /\ clocks' \in Seq(T)
      /\ DOMAIN clocks' = 1 .. N + 1
      /\ \A i \in 1 .. N + 1 :
            clocks'[i] = IF i <= n THEN clocks[i] ELSE IF i = n + 1 THEN entry ELSE clocks[i - 1]
  <2>1. N \in Nat /\ n \in 0 .. N /\ \A i \in 1 .. N : clocks[i] \in T
    OBVIOUS
  <2> HIDE DEF N
  <2>2. front \in Seq(T) /\ Len(front) = n /\ \A i \in 1 .. n : front[i] = clocks[i]
    BY <2>1, SubSeqProperties
  <2>3. /\ back \in Seq(T) /\ Len(back) = N - n
        /\ \A i \in 1 .. N - n : back[i] = clocks[n + i]
    BY <2>1, SubSeqProperties
  <2> HIDE DEF front, back
  <2> DEFINE most == front \o <<entry>>
  <2>4. /\ most \in Seq(T) /\ Len(most) = n + 1
        /\ \A i \in 1 .. n + 1 : most[i] = IF i <= n THEN clocks[i] ELSE entry
    BY <2>1, <2>2
  <2> HIDE DEF most
  <2>5. clocks' = most \o back
    BY <1>1 DEF most, front, back, N
  <2>6. /\ clocks' \in Seq(T) /\ Len(clocks') = N + 1
        /\ \A i \in 1 .. N + 1 : clocks'[i] = IF i <= n + 1 THEN most[i] ELSE back[i - (n + 1)]
    <3> DEFINE all == most \o back
    <3>1. /\ all \in Seq(T) /\ Len(all) = Len(most) + Len(back)
          /\ \A i \in 1 .. Len(most) + Len(back) :
                all[i] = IF i <= Len(most) THEN most[i] ELSE back[i - Len(most)]
      BY <2>3, <2>4, ConcatProperties
    <3> HIDE DEF all
    <3>2. Len(most) = n + 1 /\ Len(most) + Len(back) = N + 1
      BY <2>1, <2>3, <2>4
    <3>3. clocks' = all
      BY <2>5 DEF all
    <3> QED
      BY <3>1, <3>2, <3>3
  <2>7. \A i \in 1 .. N + 1 : i > n + 1 => i - (n + 1) \in 1 .. N - n /\ n + (i - (n + 1)) = i - 1
    BY <2>1
  <2>8. DOMAIN clocks' = 1 .. N + 1
    BY <2>6, LenProperties
  <2>9. ASSUME NEW i \in 1 .. N + 1
        PROVE  clocks'[i] = IF i <= n THEN clocks[i] ELSE IF i = n + 1 THEN entry ELSE clocks[i - 1]
    <3>1. CASE i <= n + 1
      BY <2>1, <2>4, <2>6, <3>1
    <3>2. CASE i > n + 1
      <4>1. clocks'[i] = back[i - (n + 1)]
        BY <2>1, <2>6, <3>2
      <4> QED
        BY <2>1, <2>3, <2>7, <3>2, <4>1
    <3> QED
      BY <2>1, <3>1, <3>2
  <2> QED
    BY <2>6, <2>8, <2>9
<1>3. Entries(clocks') = Entries(clocks) \cup {entry}
  <2>1. \A i \in 1 .. N : clocks[i] = clocks'[i] \/ clocks[i] = clocks'[i + 1]
    BY <1>2
  <2>2. entry = clocks'[n + 1]
    BY <1>2
  <2>3. DOMAIN clocks = 1 .. N /\ N \in Nat
    OBVIOUS
  <2> HIDE DEF N
  <2>4. \A i \in 1 .. N + 1 : clocks'[i] = entry \/ \E j \in 1 .. N : clocks'[i] = clocks[j]
    BY <1>2, <2>3
  <2> QED
    <3>1. DOMAIN clocks' = 1 .. N + 1 /\ n + 1 \in 1 .. N + 1
      BY <1>2, <2>3
    <3>2. Entries(clocks') \subseteq Entries(clocks) \cup {entry}
      BY <2>3, <2>4, <3>1 DEF Entries
    <3>3. Entries(clocks) \cup {entry} \subseteq Entries(clocks')
      BY <2>1, <2>2, <2>3, <3>1, SMTT(30) DEF Entries
    <3> QED
      BY <3>2, <3>3
<1>4. Sorted(clocks')
  <2> SUFFICES ASSUME NEW i \in 1 .. N + 1, NEW j \in 1 .. N + 1, i < j
               PROVE  clocks'[i].left <= clocks'[j].left
    BY <1>2 DEF Sorted
  <2>1. \A h \in 1 .. N : clocks[h].left \in Int
    OBVIOUS
  <2>2. \A h, k \in 1 .. N : h < k => clocks[h].left <= clocks[k].left
    BY DEF Sorted
  <2>3. entry.left \in Int
    OBVIOUS
  <2>4. N \in Nat /\ n \in 0 .. N /\ i \in Int /\ j \in Int
    OBVIOUS
  <2> DEFINE at(h) == IF h <= n THEN clocks[h] ELSE IF h = n + 1 THEN entry ELSE clocks[h - 1]
  <2>5. clocks'[i] = at(i) /\ clocks'[j] = at(j)
    BY <1>2
  <2>6. /\ \A h \in 1 .. n : clocks[h].left <= entry.left
        /\ \A h \in n + 1 .. N : clocks[h].left > entry.left
    BY <1>1
  <2> HIDE DEF N
  <2>7. at(i).left <= at(j).left
    <3>1. CASE j <= n
      BY <2>2, <2>4, <3>1
    <3>2. CASE j = n + 1
      BY <2>4, <2>6, <3>2
    <3>3. CASE j > n + 1 /\ i <= n
      BY <2>2, <2>4, <3>3
    <3>4. CASE j > n + 1 /\ i = n + 1
      <4>1. clocks[j - 1].left > entry.left /\ clocks[j - 1].left \in Int
        BY <2>1, <2>4, <2>6, <3>4
      <4> QED
        BY <2>3, <2>4, <3>4, <4>1
    <3>5. CASE j > n + 1 /\ i > n + 1
      BY <2>2, <2>4, <3>5
    <3> QED
      BY <2>4, <3>1, <3>2, <3>3, <3>4, <3>5
  <2> QED
    BY <2>5, <2>7
<1> QED
  BY <1>2, <1>3, <1>4

(* A table whose entries are changed where they are.                       *)
LEMMA Changed ==
    ASSUME NEW T, NEW U, NEW s \in Seq(T), NEW t,
           DOMAIN t = DOMAIN s, t = [i \in DOMAIN s |-> t[i]],
           \A i \in DOMAIN s : t[i] \in U
    PROVE  t \in Seq(U)
  OBVIOUS
-----------------------------------------------------------------------------
(* What the steps of the timers do to what the tables hold.                *)

Info == CallbackInfo(Conn)
Fn == FunctorOf(Conn)

TimersTypedAt(table, functors) ==
    table \in Seq(Info) /\ Sorted(table) /\ functors \in Seq(Fn)

Reconnected(e) ==
    [e EXCEPT !.handle = IF e.handle = "fresh" THEN "held" ELSE "dead"]

Disconnected(e) == [e EXCEPT !.handle = IF e.handle = "held" THEN "dead" ELSE e.handle]

Reflagged(x) == [x EXCEPT !.flag = Renewed(x.flag)]

LEMMA EntriesTyped ==
    ASSUME NEW T, NEW s \in Seq(T)
    PROVE  Entries(s) \subseteq T
  BY DEF Entries

LEMMA Aged ==
    ASSUME TimersTypedAt(clocks, callbacks), Pass
    PROVE  /\ TimersTypedAt(clocks', callbacks')
           /\ Entries(clocks') = {[e EXCEPT !.left = Later(e.left)] : e \in Entries(clocks)}
<1>1. clocks' = [i \in DOMAIN clocks |-> [clocks[i] EXCEPT !.left = Later(clocks[i].left)]]
  BY DEF Pass
<1>2. \A i \in DOMAIN clocks : clocks[i] \in Info
  BY DEF TimersTypedAt
<1>3. /\ \A l \in Left : Later(l) \in Left
      /\ \A l, m \in Left : l <= m => Later(l) <= Later(m)
  BY TimeoutAssumption DEF Left, Later
<1>4. \A e \in Info : e.left \in Left /\ [e EXCEPT !.left = Later(e.left)] \in Info
  BY <1>3 DEF Info, CallbackInfo
<1>5. clocks' \in Seq(Info)
  BY <1>1, <1>2, <1>4 DEF TimersTypedAt
<1>6. DOMAIN clocks' = DOMAIN clocks /\ \A i \in DOMAIN clocks : clocks'[i].left = Later(clocks[i].left)
  BY <1>1, <1>2 DEF Info, CallbackInfo
<1>7. Sorted(clocks')
  BY <1>2, <1>3, <1>4, <1>6 DEF Sorted, TimersTypedAt
<1>8. Entries(clocks') = {[e EXCEPT !.left = Later(e.left)] : e \in Entries(clocks)}
  BY <1>1 DEF Entries
<1> QED
  BY <1>5, <1>7, <1>8 DEF TimersTypedAt, Pass

LEMMA ReconnectedTable ==
    ASSUME TimersTypedAt(clocks, callbacks), NEW c \in Conn
    PROVE  /\ TimersTypedAt(Reconnect(c), callbacks)
           /\ Entries(Reconnect(c)) =
                {IF e.owner = c THEN Reconnected(e) ELSE e : e \in Entries(clocks)}
<1>1. \A i \in DOMAIN clocks : clocks[i] \in Info
  BY DEF TimersTypedAt
<1>2. \A e \in Info : Reconnected(e) \in Info /\ Reconnected(e).left = e.left
  BY DEF Info, CallbackInfo, Reconnected, Handle
<1>3. Reconnect(c) = [i \in DOMAIN clocks |->
                        IF clocks[i].owner = c THEN Reconnected(clocks[i]) ELSE clocks[i]]
  BY <1>1 DEF Reconnect, Reconnected, Info, CallbackInfo
<1>4. Reconnect(c) \in Seq(Info)
  BY <1>1, <1>2, <1>3 DEF TimersTypedAt
<1>5. Sorted(Reconnect(c))
  BY <1>1, <1>2, <1>3 DEF Sorted, TimersTypedAt
<1>6. Entries(Reconnect(c)) =
        {IF e.owner = c THEN Reconnected(e) ELSE e : e \in Entries(clocks)}
  BY <1>3 DEF Entries
<1> QED
  BY <1>4, <1>5, <1>6 DEF TimersTypedAt

LEMMA DisconnectedTable ==
    ASSUME TimersTypedAt(clocks, callbacks), NEW c \in Conn
    PROVE  /\ TimersTypedAt(Disconnect(c), callbacks)
           /\ Entries(Disconnect(c)) =
                {IF e.owner = c THEN Disconnected(e) ELSE e : e \in Entries(clocks)}
<1>1. \A i \in DOMAIN clocks : clocks[i] \in Info
  BY DEF TimersTypedAt
<1>2. \A e \in Info : Disconnected(e) \in Info /\ Disconnected(e).left = e.left
  BY DEF Info, CallbackInfo, Disconnected, Handle
<1>3. Disconnect(c) = [i \in DOMAIN clocks |->
                        IF clocks[i].owner = c THEN Disconnected(clocks[i]) ELSE clocks[i]]
  BY <1>1 DEF Disconnect, Disconnected, Info, CallbackInfo
<1>4. Disconnect(c) \in Seq(Info)
  BY <1>1, <1>2, <1>3 DEF TimersTypedAt
<1>5. Sorted(Disconnect(c))
  BY <1>1, <1>2, <1>3 DEF Sorted, TimersTypedAt
<1>6. Entries(Disconnect(c)) =
        {IF e.owner = c THEN Disconnected(e) ELSE e : e \in Entries(clocks)}
  BY <1>3 DEF Entries
<1> QED
  BY <1>4, <1>5, <1>6 DEF TimersTypedAt

LEMMA ReflaggedTables ==
    ASSUME NEW table, NEW functors, TimersTypedAt(table, functors), NEW c \in Conn
    PROVE  /\ TimersTypedAt(RenewFlags(table, c), RenewFlags(functors, c))
           /\ Entries(RenewFlags(table, c)) =
                {IF e.owner = c THEN Reflagged(e) ELSE e : e \in Entries(table)}
           /\ Entries(RenewFlags(functors, c)) =
                {IF f.owner = c THEN Reflagged(f) ELSE f : f \in Entries(functors)}
<1>1. /\ \A i \in DOMAIN table : table[i] \in Info
      /\ \A i \in DOMAIN functors : functors[i] \in Fn
  BY DEF TimersTypedAt
<1>2. /\ \A e \in Info : Reflagged(e) \in Info /\ Reflagged(e).left = e.left
      /\ \A f \in Fn : Reflagged(f) \in Fn
  BY DEF Info, CallbackInfo, Fn, FunctorOf, Reflagged, Renewed, Flag
<1>3. ASSUME NEW seq
      PROVE  RenewFlags(seq, c) = [i \in DOMAIN seq |->
                IF seq[i].owner = c THEN Reflagged(seq[i]) ELSE seq[i]]
  BY DEF RenewFlags, Reflagged
<1>4. RenewFlags(table, c) \in Seq(Info) /\ RenewFlags(functors, c) \in Seq(Fn)
  BY <1>1, <1>2, <1>3 DEF TimersTypedAt
<1>5. Sorted(RenewFlags(table, c))
  BY <1>1, <1>2, <1>3 DEF Sorted, TimersTypedAt
<1>6. ASSUME NEW seq
      PROVE  Entries(RenewFlags(seq, c)) =
                {IF x.owner = c THEN Reflagged(x) ELSE x : x \in Entries(seq)}
  BY <1>3 DEF Entries
<1> QED
  BY <1>4, <1>5, <1>6 DEF TimersTypedAt

(* What is due is both moved out and marked; nothing else is marked, and   *)
(* no connected entry is lost.                                             *)
LEMMA Collected ==
    ASSUME TimersTypedAt(clocks, callbacks), CollectDue
    PROVE  /\ TimersTypedAt(clocks', callbacks')
           /\ \A e \in Entries(clocks') : \E x \in Entries(clocks) : e = [x EXCEPT !.used = Due(x)]
           /\ \A x \in Entries(clocks) :
                x.handle # "dead" => [x EXCEPT !.used = Due(x)] \in Entries(clocks')
           /\ \A f \in Entries(callbacks') : \E x \in Entries(clocks) : Due(x) /\ f = Functor(x)
           /\ \A x \in Entries(clocks) : Due(x) => Functor(x) \in Entries(callbacks')
<1> DEFINE dueAt == {i \in DOMAIN clocks : Due(clocks[i])}
           keptAt == {i \in DOMAIN clocks : Due(clocks[i]) \/ clocks[i].handle # "dead"}
           due == EntriesAt(dueAt)
           kept == EntriesAt(keptAt)
           marked(x) == [x EXCEPT !.used = Due(x)]
<1>1. /\ callbacks' = [k \in DOMAIN due |-> Functor(due[k])]
      /\ clocks' = [k \in DOMAIN kept |-> marked(kept[k])]
  BY DEF CollectDue
<1>2. clocks \in Seq(Info) /\ dueAt \in SUBSET DOMAIN clocks /\ keptAt \in SUBSET DOMAIN clocks
  BY DEF TimersTypedAt
<1>3. /\ due \in Seq(Info) /\ Entries(due) = {clocks[i] : i \in dueAt}
      /\ kept \in Seq(Info) /\ Entries(kept) = {clocks[i] : i \in keptAt} /\ Sorted(kept)
  BY <1>2, EntriesKept DEF TimersTypedAt
<1>4. /\ Entries(due) = {x \in Entries(clocks) : Due(x)}
      /\ Entries(kept) = {x \in Entries(clocks) : Due(x) \/ x.handle # "dead"}
  <2>1. Entries(clocks) = {clocks[i] : i \in DOMAIN clocks}
    BY DEF Entries
  <2>2. Entries(due) = {x \in Entries(clocks) : Due(x)}
    <3>1. Entries(due) = {clocks[i] : i \in dueAt}
      BY <1>3
    <3> QED BY ONLY <2>1, <3>1
  <2>3. Entries(kept) = {x \in Entries(clocks) : Due(x) \/ x.handle # "dead"}
    <3>1. Entries(kept) = {clocks[i] : i \in keptAt}
      BY <1>3
    <3> QED BY ONLY <2>1, <3>1
  <2> QED BY <2>2, <2>3
<1> HIDE DEF dueAt, keptAt, due, kept
<1>5. \A x \in Info : Due(x) \in BOOLEAN
  BY DEF Due
<1>6. \A x \in Info : marked(x) \in Info /\ marked(x).left = x.left /\ Functor(x) \in Fn
  BY <1>5 DEF Info, CallbackInfo, Fn, FunctorOf, Functor
<1>7. callbacks' \in Seq(Fn) /\ Entries(callbacks') = {Functor(x) : x \in Entries(due)}
  <2>1. \A k \in DOMAIN due : due[k] \in Info
    BY <1>3
  <2>2. callbacks' \in Seq(Fn)
    <3>1. \A k \in DOMAIN due : Functor(due[k]) \in Fn
      BY <1>6, <2>1
    <3>2. DOMAIN due = 1 .. Len(due) /\ Len(due) \in Nat
      BY <1>3
    <3> DEFINE list == [k \in 1 .. Len(due) |-> Functor(due[k])]
    <3>3. list \in Seq(Fn)
      BY <3>1, <3>2
    <3> QED
      BY <1>1, <3>2, <3>3
  <2>3. Entries(callbacks') = {Functor(x) : x \in Entries(due)}
    BY <1>1 DEF Entries
  <2> QED
    BY <2>2, <2>3
<1>8. /\ clocks' \in Seq(Info) /\ Entries(clocks') = {marked(x) : x \in Entries(kept)}
      /\ Sorted(clocks')
  <2>1. \A k \in DOMAIN kept : kept[k] \in Info
    BY <1>3
  <2>2. clocks' \in Seq(Info) /\ DOMAIN clocks' = DOMAIN kept
    BY <1>1, <1>3, <1>6, <2>1
  <2>3. Entries(clocks') = {marked(x) : x \in Entries(kept)}
    BY <1>1 DEF Entries
  <2>4. \A k \in DOMAIN kept : clocks'[k].left = kept[k].left
    BY <1>1, <1>6, <2>1
  <2> QED
    BY <1>3, <2>2, <2>3, <2>4 DEF Sorted
<1> QED
  BY <1>4, <1>7, <1>8 DEF TimersTypedAt

LEMMA Swept ==
    ASSUME TimersTypedAt(clocks, callbacks), SweepUsed
    PROVE  /\ TimersTypedAt(clocks', callbacks')
           /\ Entries(clocks') = {e \in Entries(clocks) : ~e.used}
           /\ callbacks' = callbacks
<1> DEFINE S == {i \in DOMAIN clocks : ~clocks[i].used}
<1>1. clocks' = EntriesAt(S) /\ callbacks' = callbacks
  BY DEF SweepUsed
<1>2. clocks \in Seq(Info) /\ S \in SUBSET DOMAIN clocks
  BY DEF TimersTypedAt
<1>3. /\ EntriesAt(S) \in Seq(Info) /\ Sorted(EntriesAt(S))
      /\ Entries(EntriesAt(S)) = {clocks[i] : i \in S}
  BY <1>2, EntriesKept DEF TimersTypedAt
<1>4. {clocks[i] : i \in S} = {e \in Entries(clocks) : ~e.used}
  BY DEF Entries
<1> QED
  BY <1>1, <1>3, <1>4 DEF TimersTypedAt

(* A functor that has a waker to run stays until it has run it.            *)
LEMMA Ran ==
    ASSUME TimersTypedAt(clocks, callbacks), NEW act \in {"ready", "wake"}, CallbackRun(act)
    PROVE  /\ TimersTypedAt(clocks', callbacks')
           /\ Head(callbacks) \in Entries(callbacks) /\ Head(callbacks) \in Fn
           /\ clocks' = clocks
           /\ \A f \in Entries(callbacks') :
                \E g \in Entries(callbacks) : f.owner = g.owner /\ f.flag = g.flag
           /\ \A g \in Entries(callbacks) : g.wakes =>
                \/ \E f \in Entries(callbacks') : f.owner = g.owner /\ f.wakes
                \/ act = "wake" /\ g.owner = Head(callbacks).owner
<1> DEFINE h == Head(callbacks)
           woken == [h EXCEPT !.act = "wake"]
           rest == Tail(callbacks)
<1>1. callbacks \in Seq(Fn) /\ callbacks # <<>> /\ Len(callbacks) \in Nat \ {0}
  BY DEF TimersTypedAt, CallbackRun
<1>2. /\ h \in Fn /\ h = callbacks[1] /\ rest \in Seq(Fn) /\ Len(rest) = Len(callbacks) - 1
      /\ \A i \in 1 .. Len(rest) : rest[i] = callbacks[i + 1]
  BY <1>1
<1>3. Entries(callbacks) = {h} \cup Entries(rest)
  <2>1. DOMAIN callbacks = 1 .. Len(callbacks) /\ DOMAIN rest = 1 .. Len(rest)
    BY <1>1, <1>2
  <2>2. \A i \in 1 .. Len(callbacks) : i = 1 \/ (i - 1 \in 1 .. Len(rest) /\ callbacks[i] = rest[i - 1])
    BY <1>1, <1>2
  <2>3. Entries(callbacks) \subseteq {h} \cup Entries(rest)
    <3> SUFFICES ASSUME NEW i \in 1 .. Len(callbacks)
                 PROVE  callbacks[i] \in {h} \cup Entries(rest)
      BY <2>1 DEF Entries
    <3> HIDE DEF h, rest
    <3> QED
      BY <1>2, <2>1, <2>2 DEF Entries
  <2>4. \A i \in 1 .. Len(rest) : i + 1 \in 1 .. Len(callbacks)
    BY <1>1, <1>2
  <2>5. 1 \in 1 .. Len(callbacks)
    BY <1>1
  <2>6. {h} \cup Entries(rest) \subseteq Entries(callbacks)
    BY <1>2, <2>1, <2>4, <2>5 DEF Entries
  <2> QED
    BY <2>3, <2>6
<1>4. /\ woken \in Fn /\ woken.owner = h.owner /\ woken.flag = h.flag
      /\ woken.wakes = h.wakes
  BY <1>2 DEF Fn, FunctorOf
<1>5. UNCHANGED clocks /\ h.act = act
  BY DEF CallbackRun
<1> HIDE DEF h, woken, rest
<1>6. CASE act = "ready" /\ h.wakes
  <2>1. callbacks' = <<woken>> \o rest
    BY <1>6 DEF CallbackRun, woken, rest, h
  <2>2. <<woken>> \in Seq(Fn) /\ Entries(<<woken>>) = {woken}
    BY <1>4 DEF Entries
  <2>3. callbacks' \in Seq(Fn) /\ Entries(callbacks') = {woken} \cup Entries(rest)
    <3>1. /\ callbacks' \in Seq(Fn) /\ Len(callbacks') = Len(rest) + 1
          /\ \A i \in 1 .. Len(rest) + 1 :
                callbacks'[i] = IF i <= 1 THEN woken ELSE rest[i - 1]
      BY <1>2, <2>1, <2>2, ConcatProperties
    <3>2. DOMAIN callbacks' = 1 .. Len(rest) + 1 /\ DOMAIN rest = 1 .. Len(rest) /\ Len(rest) \in Nat
      BY <1>2, <3>1
    <3>3. Entries(callbacks') \subseteq {woken} \cup Entries(rest)
      <4>1. \A i \in 1 .. Len(rest) + 1 : ~(i <= 1) => i - 1 \in 1 .. Len(rest)
        BY <3>2
      <4> QED
        BY <3>1, <3>2, <4>1 DEF Entries
    <3>4. {woken} \cup Entries(rest) \subseteq Entries(callbacks')
      <4>1. \A i \in 1 .. Len(rest) :
                i + 1 \in 1 .. Len(rest) + 1 /\ callbacks'[i + 1] = rest[i]
        BY <3>1, <3>2
      <4>2. 1 \in 1 .. Len(rest) + 1 /\ callbacks'[1] = woken
        BY <3>1, <3>2
      <4> QED
        BY <3>2, <4>1, <4>2 DEF Entries
    <3> QED
      BY <3>1, <3>3, <3>4
  <2> QED
    BY <1>2, <1>3, <1>4, <1>5, <1>6, <2>3 DEF TimersTypedAt, h
<1>7. CASE ~(act = "ready" /\ h.wakes)
  <2>1. callbacks' = rest
    BY <1>7 DEF CallbackRun, rest, h
  <2> QED
    BY <1>2, <1>3, <1>5, <1>7, <2>1 DEF TimersTypedAt, h
<1> QED
  BY <1>6, <1>7
-----------------------------------------------------------------------------
(* The timers of the connections.                                          *)

ConnTypeOK ==
    /\ state \in [Conn -> State]
    /\ pc \in [Conn -> Pc]
    /\ after \in [Conn -> {"waiting", "poll", "timer"}]
    /\ nested \in [Conn -> BOOLEAN]
    /\ recovering \in [Conn -> BOOLEAN]
    /\ bytes \in [Conn -> 0 .. MaxBytes]
    /\ answered \in [Conn -> Nat]
    /\ left \in [Conn -> Left]
    /\ freshLeft \in [Conn -> Left]
    /\ timedOut \in [Conn -> BOOLEAN]
    /\ freshOut \in [Conn -> BOOLEAN]
    /\ io \in [Conn -> SUBSET Io]
    /\ entries \in [Conn -> 0 .. MaxEntries]

LoopTypeOK == rpc \in {"clock", "collect", "fire", "executor"} /\ lag \in 0 .. 1

LEMMA TypeParts ==
    /\ TypeOK <=> TimersTypedAt(clocks, callbacks) /\ LoopTypeOK /\ ConnTypeOK
    /\ TypeOK' <=> TimersTypedAt(clocks', callbacks') /\ LoopTypeOK' /\ ConnTypeOK'
  BY DEF TypeOK, TimersTypeOK, TimersTypedAt, LoopTypeOK, ConnTypeOK, Sorted, Info, Fn

(* The steps that do not touch a timer.                                    *)
Silent(c) ==
    \/ StartPoll(c) \/ TimerRead(c)
    \/ ParserPending(c) \/ ParserReady(c)
    \/ ResponsePending(c) \/ ResponseReady(c) \/ ThrowUncaught(c)
    \/ \E n \in 0 .. 1 : CopyPending(c, n) \/ CopyReady(c, n) \/ Throw(c, n)
    \/ CatchListen(c) \/ CatchRespond(c) \/ GiveUp(c)

(* What they have in common.                                               *)
Quiet(c) ==
    /\ UNCHANGED <<timerVars, flagVars>>
    /\ pc[c] \notin {"none", "over", "replace"}
    /\ \E label \in Pc \ {"none", "over", "replace", "connect", "expired"} :
        /\ pc' = [pc EXCEPT ![c] = label]
        /\ (label = "renew" /\ state'[c] = "Respond") => after'[c] # "waiting"
        /\ label = "waiting" /\ state'[c] = "Respond" => pc[c] = "expired"
        /\ label = "waiting" => state'[c] = state[c]
    /\ \A d \in Conn \ {c} : state'[d] = state[d] /\ after'[d] = after[d] /\ entries'[d] = entries[d]
    /\ pc[c] = "expired" => entries' = entries

LEMMA SilentTyped == ASSUME ConnTypeOK, NEW c \in Conn, Silent(c) PROVE ConnTypeOK'
<1> USE ConnectionAssumption DEF ConnTypeOK, Goto
<1>1. /\ {"poll", "catch", "renew", "waiting", "timer", "drop"} \subseteq Pc
      /\ {"Listen", "PollResponse", "Respond"} \subseteq State
      /\ {"read", "upstream", "write"} \subseteq Io
  BY DEF Pc, State, Io
<1>2. CASE StartPoll(c)
  <2>1. entries[c] - 1 \in 0 .. MaxEntries
    BY <1>2 DEF StartPoll
  <2> QED
    BY <1>1, <1>2, <2>1 DEF StartPoll, answerVars, flagVars
<1>3. CASE TimerRead(c)
  BY <1>1, <1>3 DEF TimerRead, answerVars, flagVars
<1>4. CASE ParserPending(c) \/ ParserReady(c) \/ ResponsePending(c) \/ GiveUp(c)
  <2>1. io' \in [Conn -> SUBSET Io] /\ pc' \in [Conn -> Pc]
    BY <1>1, <1>4 DEF ParserPending, ParserReady, ResponsePending, GiveUp, Wait
  <2>2. state' \in [Conn -> State] /\ nested' \in [Conn -> BOOLEAN]
    <3>1. CASE ParserPending(c) \/ GiveUp(c)
      BY <3>1 DEF ParserPending, GiveUp
    <3>2. CASE ParserReady(c)
      BY <1>1, <3>2 DEF ParserReady
    <3>3. CASE ResponsePending(c)
      BY <3>3 DEF ResponsePending
    <3> QED
      BY <1>4, <3>1, <3>2, <3>3
  <2>3. UNCHANGED <<after, recovering, answerVars, flagVars, entries>>
    BY <1>4 DEF ParserPending, ParserReady, ResponsePending, GiveUp, Wait
  <2> QED
    BY <2>1, <2>2, <2>3 DEF answerVars, flagVars
<1>5. CASE ResponseReady(c) \/ CatchListen(c) \/ CatchRespond(c)
  <2>1. SwitchToRespond(c) /\ recovering' \in [Conn -> BOOLEAN]
    BY <1>5 DEF ResponseReady, CatchListen, CatchRespond
  <2>2. /\ state' \in [Conn -> State] /\ bytes' \in [Conn -> 0 .. MaxBytes]
        /\ after' \in [Conn -> {"waiting", "poll", "timer"}]
        /\ nested' \in [Conn -> BOOLEAN] /\ pc' \in [Conn -> Pc]
    BY <1>1, <2>1 DEF SwitchToRespond
  <2> QED
    BY <2>1, <2>2 DEF SwitchToRespond, flagVars
<1>6. CASE ThrowUncaught(c)
  BY <1>1, <1>6 DEF ThrowUncaught, answerVars, flagVars
<1>7. ASSUME NEW n \in 0 .. 1, Write(c, n)
      PROVE  bytes' \in [Conn -> 0 .. MaxBytes] /\ answered' \in [Conn -> Nat]
  BY <1>7 DEF Write
<1>8. ASSUME NEW n \in 0 .. 1, CopyPending(c, n)
      PROVE  ConnTypeOK'
  <2>1. bytes' \in [Conn -> 0 .. MaxBytes] /\ answered' \in [Conn -> Nat]
    BY <1>7, <1>8 DEF CopyPending
  <2>2. after' \in [Conn -> {"waiting", "poll", "timer"}] /\ pc' \in [Conn -> Pc]
    BY <1>1, <1>8 DEF CopyPending
  <2>3. io' \in [Conn -> SUBSET Io]
    BY <1>1, <1>8 DEF CopyPending
  <2> QED
    BY <1>8, <2>1, <2>2, <2>3 DEF CopyPending, flagVars
<1>9. ASSUME NEW n \in 0 .. 1, CopyReady(c, n) \/ Throw(c, n)
      PROVE  ConnTypeOK'
  <2>1. bytes' \in [Conn -> 0 .. MaxBytes] /\ answered' \in [Conn -> Nat]
    BY <1>7, <1>9 DEF CopyReady, Throw, answerVars
  <2>2. pc' \in [Conn -> Pc] /\ io' \in [Conn -> SUBSET Io]
    BY <1>1, <1>9 DEF CopyReady, Throw, Wait
  <2> QED
    BY <1>9, <2>1, <2>2 DEF CopyReady, Throw, Wait, flagVars
<1> QED
  BY <1>2, <1>3, <1>4, <1>5, <1>6, <1>8, <1>9 DEF Silent

LEMMA SilentIsQuiet == ASSUME ConnTypeOK, NEW c \in Conn, Silent(c) PROVE Quiet(c)
<1> USE DEF ConnTypeOK, Goto, Quiet
<1>1. {"poll", "catch", "renew", "waiting", "timer", "drop"} \subseteq
        Pc \ {"none", "over", "replace", "connect", "expired"}
  BY DEF Pc
<1>2. CASE StartPoll(c)
  BY <1>1, <1>2 DEF StartPoll
<1>3. CASE TimerRead(c)
  BY <1>1, <1>3 DEF TimerRead
<1>4. CASE ParserPending(c) \/ ParserReady(c) \/ ResponsePending(c)
  BY <1>1, <1>4 DEF ParserPending, ParserReady, ResponsePending, Polls, Wait
<1>5. CASE GiveUp(c)
  BY <1>1, <1>5 DEF GiveUp, Wait
<1>6. CASE ResponseReady(c) \/ CatchListen(c) \/ CatchRespond(c)
  BY <1>1, <1>6 DEF ResponseReady, CatchListen, CatchRespond, SwitchToRespond, Polls
<1>7. CASE ThrowUncaught(c)
  BY <1>1, <1>7 DEF ThrowUncaught, Polls
<1>8. ASSUME NEW n \in 0 .. 1, CopyPending(c, n)
      PROVE  Quiet(c)
  BY <1>1, <1>8 DEF CopyPending, Polls
<1>9. ASSUME NEW n \in 0 .. 1, CopyReady(c, n) \/ Throw(c, n)
      PROVE  Quiet(c)
  BY <1>1, <1>9 DEF CopyReady, Throw, Polls, Wait
<1> QED
  BY <1>2, <1>3, <1>4, <1>5, <1>6, <1>7, <1>8, <1>9 DEF Silent

LEMMA QuietInv ==
    ASSUME TimerInv, NEW c \in Conn, Quiet(c), ConnTypeOK'
    PROVE  TimerInv'
<1>1. PICK label \in Pc \ {"none", "over", "replace", "connect", "expired"} :
        /\ pc' = [pc EXCEPT ![c] = label]
        /\ (label = "renew" /\ state'[c] = "Respond") => after'[c] # "waiting"
        /\ label = "waiting" /\ state'[c] = "Respond" => pc[c] = "expired"
        /\ label = "waiting" => state'[c] = state[c]
  BY DEF Quiet
<1>2. ConnTypeOK /\ pc[c] \notin {"none", "over", "replace"}
  BY TypeParts DEF TimerInv, Quiet
<1>3. TypeOK' /\ FiringInv'
  BY TypeParts DEF TimerInv, Quiet, timerVars, LoopTypeOK, FiringInv
<1>4. FlagInv'
  BY <1>1, <1>2 DEF TimerInv, FlagInv, Quiet, timerVars, flagVars, ConnTypeOK
<1>5. WakeInv'
  <2>1. \A d \in Conn \ {c}, h \in {"held", "fresh"} : Wakes(d, h) => Wakes(d, h)'
    BY DEF Quiet, timerVars, Wakes
  <2>2. pc[c] = "expired" => (Wakes(c, "held") => Wakes(c, "held")')
    BY DEF Quiet, timerVars, Wakes
  <2> QED
    BY <1>1, <1>2, <2>1, <2>2 DEF TimerInv, WakeInv, Quiet, ConnTypeOK
<1> QED
  BY <1>3, <1>4, <1>5 DEF TimerInv
-----------------------------------------------------------------------------
(* The steps of a timer.                                                   *)

(* What the invariant says of the tables before a step.                    *)
LEMMA Before ==
    ASSUME TimerInv
    PROVE  /\ TimersTypedAt(clocks, callbacks) /\ LoopTypeOK /\ ConnTypeOK
           /\ \A e \in Entries(clocks) : e \in Info /\ e.owner \in Conn /\ e.left \in Left
           /\ \A f \in Entries(callbacks) : f \in Fn /\ f.owner \in Conn
<1>1. TimersTypedAt(clocks, callbacks) /\ LoopTypeOK /\ ConnTypeOK
  BY TypeParts DEF TimerInv
<1>2. Entries(clocks) \subseteq Info /\ Entries(callbacks) \subseteq Fn
  BY <1>1, EntriesTyped DEF TimersTypedAt
<1>3. /\ \A e \in Info : e.owner \in Conn /\ e.left \in Left
      /\ \A f \in Fn : f.owner \in Conn
  BY DEF Info, CallbackInfo, Fn, FunctorOf
<1> QED
  BY <1>1, <1>2, <1>3

(* An entry is registered for c, and nothing else changes in the table.    *)
LEMMA Registers ==
    ASSUME TimerInv, NEW entry \in Info, RegisterTimeout(entry), callbacks' = callbacks
    PROVE  /\ TimersTypedAt(clocks', callbacks')
           /\ Entries(clocks') = Entries(clocks) \cup {entry}
<1>1. clocks \in Seq(Info) /\ Sorted(clocks) /\ callbacks \in Seq(Fn)
  BY Before DEF TimersTypedAt
<1>2. \A e \in Info : e.left \in Int
  BY TimeoutAssumption DEF Info, CallbackInfo, Left
<1> QED
  BY <1>1, <1>2, Registered DEF TimersTypedAt

LEMMA ConnectTimer == ASSUME TimerInv, NEW c \in Conn, Connect(c) PROVE TimerInv'
<1> DEFINE entry == [left |-> Period, owner |-> c, wakes |-> FALSE,
                     flag |-> "mine", handle |-> "held", used |-> FALSE]
<1>1. Period \in Left /\ "waiting" \in Pc /\ 1 \in 0 .. MaxEntries
  BY TimeoutAssumption, ConnectionAssumption DEF Left, Pc
<1>2. entry \in Info /\ RegisterTimeout(entry) /\ callbacks' = callbacks
  BY <1>1 DEF Info, CallbackInfo, Flag, Handle, Connect
<1>3. TimersTypedAt(clocks', callbacks') /\ Entries(clocks') = Entries(clocks) \cup {entry}
  BY <1>2, Registers
<1>4. TypeOK'
  <2>1. ConnTypeOK'
    BY <1>1, Before DEF Connect, ConnTypeOK, Goto, answerVars
  <2>2. LoopTypeOK'
    BY Before DEF Connect, LoopTypeOK
  <2> QED
    BY <1>3, <2>1, <2>2, TypeParts
<1>5. /\ pc[c] = "none" /\ pc' = [pc EXCEPT ![c] = "waiting"] /\ left' = [left EXCEPT ![c] = Period]
      /\ UNCHANGED <<callbacks, rpc, state, after, freshLeft, timedOut, freshOut>>
      /\ entries' = [entries EXCEPT ![c] = 1]
  BY DEF Connect, Goto
<1>6. FiringInv'
  BY <1>5 DEF TimerInv, FiringInv
<1>7. entry.flag = "mine" /\ entry.owner = c /\ entry.left = Period
  OBVIOUS
<1> HIDE DEF entry
<1>8. FlagInv'
  BY <1>3, <1>5, <1>7, Before DEF TimerInv, FlagInv, ConnTypeOK
<1>9. WakeInv'
  <2>1. \A d \in Conn \ {c}, h \in {"held", "fresh"} : Wakes(d, h) => Wakes(d, h)'
    BY <1>3, <1>5 DEF Wakes
  <2> QED
    BY <1>5, <2>1, Before DEF TimerInv, WakeInv, ConnTypeOK
<1> QED
  BY <1>4, <1>6, <1>8, <1>9 DEF TimerInv

LEMMA RenewTimer == ASSUME TimerInv, NEW c \in Conn, Renew(c) PROVE TimerInv'
<1> DEFINE entry == [left |-> Period, owner |-> c, wakes |-> FALSE,
                     flag |-> "fresh", handle |-> "fresh", used |-> FALSE]
<1>1. Period \in Left /\ "replace" \in Pc
  BY TimeoutAssumption DEF Left, Pc
<1>2. entry \in Info /\ RegisterTimeout(entry) /\ callbacks' = callbacks
  BY <1>1 DEF Info, CallbackInfo, Flag, Handle, Renew
<1>3. TimersTypedAt(clocks', callbacks') /\ Entries(clocks') = Entries(clocks) \cup {entry}
  BY <1>2, Registers
<1>4. TypeOK'
  <2>1. ConnTypeOK'
    BY <1>1, Before DEF Renew, ConnTypeOK, Goto, answerVars
  <2>2. LoopTypeOK'
    BY Before DEF Renew, LoopTypeOK
  <2> QED
    BY <1>3, <2>1, <2>2, TypeParts
<1>5. /\ pc[c] = "renew" /\ pc' = [pc EXCEPT ![c] = "replace"]
      /\ freshLeft' = [freshLeft EXCEPT ![c] = Period]
      /\ UNCHANGED <<callbacks, rpc, state, after, left, timedOut, freshOut, entries>>
  BY DEF Renew, Goto
<1>6. FiringInv'
  BY <1>5 DEF TimerInv, FiringInv
<1>7. entry.flag = "fresh" /\ entry.owner = c /\ entry.left = Period
  OBVIOUS
<1> HIDE DEF entry
<1>8. FlagInv'
  BY <1>3, <1>5, <1>7, Before DEF TimerInv, FlagInv, ConnTypeOK
<1>9. WakeInv'
  <2>1. \A d \in Conn, h \in {"held", "fresh"} : Wakes(d, h) => Wakes(d, h)'
    BY <1>3, <1>5 DEF Wakes
  <2> QED
    BY <1>5, <2>1, Before DEF TimerInv, WakeInv, ConnTypeOK
<1> QED
  BY <1>4, <1>6, <1>8, <1>9 DEF TimerInv

(* The entry that is left behind has the tick of the timer it is for.      *)
LEMMA RegisterTimer == ASSUME TimerInv, NEW c \in Conn, TimerRegister(c) PROVE TimerInv'
<1> DEFINE entry == [left |-> left[c], owner |-> c, wakes |-> TRUE,
                     flag |-> "mine", handle |-> "fresh", used |-> FALSE]
<1>1. left[c] \in Left /\ "connect" \in Pc
  BY Before DEF ConnTypeOK, Pc
<1>2. entry \in Info /\ RegisterTimeout(entry) /\ callbacks' = callbacks
  BY <1>1 DEF Info, CallbackInfo, Flag, Handle, TimerRegister
<1>3. TimersTypedAt(clocks', callbacks') /\ Entries(clocks') = Entries(clocks) \cup {entry}
  BY <1>2, Registers
<1>4. TypeOK'
  <2>1. ConnTypeOK'
    BY <1>1, Before DEF TimerRegister, ConnTypeOK, Goto, answerVars, flagVars
  <2>2. LoopTypeOK'
    BY Before DEF TimerRegister, LoopTypeOK
  <2> QED
    BY <1>3, <2>1, <2>2, TypeParts
<1>5. /\ pc[c] = "timer" /\ pc' = [pc EXCEPT ![c] = "connect"]
      /\ UNCHANGED <<callbacks, rpc, state, after, left, freshLeft, timedOut, freshOut, entries>>
  BY DEF TimerRegister, Goto, flagVars
<1>6. FiringInv'
  BY <1>5 DEF TimerInv, FiringInv
<1>7. /\ entry.flag = "mine" /\ entry.owner = c /\ entry.left = left[c]
      /\ entry.wakes /\ entry.handle = "fresh" /\ ~entry.used
  OBVIOUS
<1> HIDE DEF entry
<1>8. FlagInv'
  BY <1>3, <1>5, <1>7, Before DEF TimerInv, FlagInv, ConnTypeOK
<1>9. WakeInv'
  <2>1. \A d \in Conn, h \in {"held", "fresh"} : Wakes(d, h) => Wakes(d, h)'
    BY <1>3, <1>5 DEF Wakes
  <2>2. Wakes(c, "fresh")'
    BY <1>3, <1>7 DEF Wakes
  <2> QED
    BY <1>5, <2>1, <2>2, Before DEF TimerInv, WakeInv, ConnTypeOK
<1> QED
  BY <1>4, <1>6, <1>8, <1>9 DEF TimerInv

LEMMA ConnectHandle == ASSUME TimerInv, NEW c \in Conn, TimerConnect(c) PROVE TimerInv'
<1>1. /\ TimersTypedAt(clocks', callbacks')
      /\ Entries(clocks') = {IF e.owner = c THEN Reconnected(e) ELSE e : e \in Entries(clocks)}
  BY Before, ReconnectedTable DEF TimerConnect
<1>2. TypeOK'
  <2>1. ConnTypeOK'
    BY Before DEF TimerConnect, ConnTypeOK, Goto, Pc, answerVars, flagVars
  <2>2. LoopTypeOK'
    BY Before DEF TimerConnect, LoopTypeOK
  <2> QED
    BY <1>1, <2>1, <2>2, TypeParts
<1>3. /\ pc[c] = "connect" /\ pc' = [pc EXCEPT ![c] = "expired"]
      /\ UNCHANGED <<callbacks, rpc, state, after, left, freshLeft, timedOut, freshOut, entries>>
  BY DEF TimerConnect, Goto, flagVars
<1>4. FiringInv'
  BY <1>3 DEF TimerInv, FiringInv
<1>5. \A e \in Info :
        /\ Reconnected(e).owner = e.owner /\ Reconnected(e).flag = e.flag
        /\ Reconnected(e).left = e.left /\ Reconnected(e).wakes = e.wakes
        /\ Reconnected(e).used = e.used
        /\ Reconnected(e).handle = IF e.handle = "fresh" THEN "held" ELSE "dead"
  BY DEF Info, CallbackInfo, Reconnected
<1>6. FlagInv'
  <2>1. \A e \in Entries(clocks') : \E x \in Entries(clocks) :
            e.owner = x.owner /\ e.flag = x.flag /\ e.left = x.left
    BY <1>1, <1>5, Before
  <2> QED
    BY <1>3, <2>1, Before DEF TimerInv, FlagInv, ConnTypeOK
<1>7. WakeInv'
  <2>1. \A d \in Conn \ {c}, h \in {"held", "fresh"} : Wakes(d, h) => Wakes(d, h)'
    BY <1>1, <1>3 DEF Wakes
  <2>2. Wakes(c, "fresh") => Wakes(c, "held")'
    BY <1>1, <1>3, <1>5, Before DEF Wakes
  <2> QED
    BY <1>3, <2>1, <2>2, Before DEF TimerInv, WakeInv, ConnTypeOK
<1> QED
  BY <1>2, <1>4, <1>6, <1>7 DEF TimerInv

(* What pointed to the old timer's flag points to none, so that the new    *)
(* one is only set by its own tick.                                        *)
LEMMA ReplaceTimer == ASSUME TimerInv, NEW c \in Conn, Replace(c) PROVE TimerInv'
<1> DEFINE moved(e) == IF e.owner = c THEN Reconnected(e) ELSE e
           renewed(x) == IF x.owner = c THEN Reflagged(x) ELSE x
<1>1. /\ TimersTypedAt(Reconnect(c), callbacks)
      /\ Entries(Reconnect(c)) = {moved(e) : e \in Entries(clocks)}
  BY Before, ReconnectedTable
<1>2. /\ clocks' = RenewFlags(Reconnect(c), c) /\ callbacks' = RenewFlags(callbacks, c)
      /\ TimersTypedAt(clocks', callbacks')
      /\ Entries(clocks') = {renewed(x) : x \in Entries(Reconnect(c))}
      /\ Entries(callbacks') = {renewed(f) : f \in Entries(callbacks)}
  BY <1>1, ReflaggedTables DEF Replace
<1>3. after[c] \in {"waiting", "poll", "timer"} /\ {"waiting", "poll", "timer"} \subseteq Pc
      /\ Period \in Left /\ left[c] \in Left /\ freshLeft[c] \in Left /\ freshOut[c] \in BOOLEAN
  BY Before, TimeoutAssumption DEF ConnTypeOK, Pc, Left
<1>4. /\ pc[c] = "replace" /\ pc' = [pc EXCEPT ![c] = after[c]]
      /\ left' = [left EXCEPT ![c] = freshLeft[c]]
      /\ timedOut' = [timedOut EXCEPT ![c] = freshOut[c]]
      /\ freshLeft' = [freshLeft EXCEPT ![c] = Period]
      /\ freshOut' = [freshOut EXCEPT ![c] = FALSE]
      /\ after' = [after EXCEPT ![c] = "waiting"]
      /\ UNCHANGED <<rpc, lag, state, nested, recovering, answerVars, io, entries>>
  BY DEF Replace, Goto
<1>5. TypeOK'
  <2>1. ConnTypeOK'
    BY <1>3, <1>4, Before DEF ConnTypeOK, answerVars
  <2>2. LoopTypeOK'
    BY <1>4, Before DEF LoopTypeOK
  <2> QED
    BY <1>2, <2>1, <2>2, TypeParts
<1>6. FiringInv'
  BY <1>2, <1>4 DEF TimerInv, FiringInv, RenewFlags
<1>7. /\ \A e \in Info : /\ Reconnected(e) \in Info /\ Reconnected(e).owner = e.owner
                         /\ Reconnected(e).flag = e.flag /\ Reconnected(e).left = e.left
      /\ \A e \in Info : /\ Reflagged(e).owner = e.owner /\ Reflagged(e).left = e.left
                         /\ Reflagged(e).flag = Renewed(e.flag)
      /\ \A f \in Fn : Reflagged(f).owner = f.owner /\ Reflagged(f).flag = Renewed(f.flag)
  BY DEF Info, CallbackInfo, Fn, FunctorOf, Reconnected, Reflagged, Handle
<1>8. \A flag : Renewed(flag) = IF flag = "fresh" THEN "mine" ELSE "old"
  BY DEF Renewed
<1>9. FlagInv'
  <2>1. \A e \in Entries(clocks') : \E x \in Entries(clocks) :
            /\ e.owner = x.owner /\ e.left = x.left
            /\ e.flag = IF x.owner = c THEN Renewed(x.flag) ELSE x.flag
    <3> SUFFICES ASSUME NEW e \in Entries(clocks')
                 PROVE  \E x \in Entries(clocks) :
                            /\ e.owner = x.owner /\ e.left = x.left
                            /\ e.flag = IF x.owner = c THEN Renewed(x.flag) ELSE x.flag
      OBVIOUS
    <3>1. PICK x \in Entries(clocks) : e = renewed(moved(x))
      BY <1>1, <1>2
    <3> QED
      BY <1>7, <3>1, Before
  <2>2. \A f \in Entries(callbacks') : \E g \in Entries(callbacks) :
            f.owner = g.owner /\ f.flag = IF g.owner = c THEN Renewed(g.flag) ELSE g.flag
    BY <1>2, <1>7, Before
  <2>3. /\ \A e \in Entries(clocks') :
            /\ e.flag = "mine" => pc'[e.owner] \notin {"none", "over"} /\ e.left = left'[e.owner]
            /\ e.flag = "fresh" => pc'[e.owner] = "replace" /\ e.left = freshLeft'[e.owner]
    BY <1>3, <1>4, <1>8, <2>1, Before DEF TimerInv, FlagInv, ConnTypeOK
  <2>4. \A f \in Entries(callbacks') :
            /\ f.flag = "mine" => pc'[f.owner] \notin {"none", "over"} /\ left'[f.owner] <= 0
            /\ f.flag = "fresh" => pc'[f.owner] = "replace" /\ freshLeft'[f.owner] <= 0
    BY <1>3, <1>4, <1>8, <2>2, Before DEF TimerInv, FlagInv, ConnTypeOK
  <2>5. \A d \in Conn :
            /\ timedOut'[d] => pc'[d] \notin {"none", "over"} /\ left'[d] <= 0
            /\ freshOut'[d] => pc'[d] = "replace" /\ freshLeft'[d] <= 0
    BY <1>3, <1>4, Before DEF TimerInv, FlagInv, ConnTypeOK
  <2> QED
    BY <2>3, <2>4, <2>5 DEF FlagInv
<1>10. WakeInv'
  <2>1. \A d \in Conn \ {c}, h \in {"held", "fresh"} : Wakes(d, h) => Wakes(d, h)'
    BY <1>1, <1>2, <1>4 DEF Wakes
  <2> QED
    BY <1>3, <1>4, <2>1, Before DEF TimerInv, WakeInv, ConnTypeOK
<1> QED
  BY <1>5, <1>6, <1>9, <1>10 DEF TimerInv

LEMMA DropTimer == ASSUME TimerInv, NEW c \in Conn, Drop(c) PROVE TimerInv'
<1> DEFINE moved(e) == IF e.owner = c THEN Disconnected(e) ELSE e
           renewed(x) == IF x.owner = c THEN Reflagged(x) ELSE x
<1>1. /\ TimersTypedAt(Disconnect(c), callbacks)
      /\ Entries(Disconnect(c)) = {moved(e) : e \in Entries(clocks)}
  BY Before, DisconnectedTable
<1>2. /\ clocks' = RenewFlags(Disconnect(c), c) /\ callbacks' = RenewFlags(callbacks, c)
      /\ TimersTypedAt(clocks', callbacks')
      /\ Entries(clocks') = {renewed(x) : x \in Entries(Disconnect(c))}
      /\ Entries(callbacks') = {renewed(f) : f \in Entries(callbacks)}
  BY <1>1, ReflaggedTables DEF Drop
<1>3. Period \in Left /\ "over" \in Pc /\ 0 \in 0 .. MaxEntries /\ 0 \in 0 .. MaxBytes
  BY TimeoutAssumption, ConnectionAssumption DEF Pc, Left
<1>4. /\ pc[c] = "drop" /\ pc' = [pc EXCEPT ![c] = "over"]
      /\ left' = [left EXCEPT ![c] = Period]
      /\ timedOut' = [timedOut EXCEPT ![c] = FALSE]
      /\ entries' = [entries EXCEPT ![c] = 0]
      /\ UNCHANGED <<rpc, lag, state, after, freshLeft, freshOut>>
  BY DEF Drop, Goto
<1>5. TypeOK'
  <2>1. ConnTypeOK'
    BY <1>3, <1>4, Before DEF Drop, ConnTypeOK
  <2>2. LoopTypeOK'
    BY <1>4, Before DEF LoopTypeOK
  <2> QED
    BY <1>2, <2>1, <2>2, TypeParts
<1>6. FiringInv'
  BY <1>2, <1>4 DEF TimerInv, FiringInv, RenewFlags
<1>7. /\ \A e \in Info : /\ Disconnected(e) \in Info /\ Disconnected(e).owner = e.owner
                         /\ Disconnected(e).flag = e.flag /\ Disconnected(e).left = e.left
      /\ \A e \in Info : /\ Reflagged(e).owner = e.owner /\ Reflagged(e).left = e.left
                         /\ Reflagged(e).flag = Renewed(e.flag)
      /\ \A f \in Fn : Reflagged(f).owner = f.owner /\ Reflagged(f).flag = Renewed(f.flag)
  BY DEF Info, CallbackInfo, Fn, FunctorOf, Disconnected, Reflagged, Handle
<1>8. \A flag : Renewed(flag) = IF flag = "fresh" THEN "mine" ELSE "old"
  BY DEF Renewed
<1>9. FlagInv'
  <2>1. \A e \in Entries(clocks') : \E x \in Entries(clocks) :
            /\ e.owner = x.owner /\ e.left = x.left
            /\ e.flag = IF x.owner = c THEN Renewed(x.flag) ELSE x.flag
    <3> SUFFICES ASSUME NEW e \in Entries(clocks')
                 PROVE  \E x \in Entries(clocks) :
                            /\ e.owner = x.owner /\ e.left = x.left
                            /\ e.flag = IF x.owner = c THEN Renewed(x.flag) ELSE x.flag
      OBVIOUS
    <3>1. PICK x \in Entries(clocks) : e = renewed(moved(x))
      BY <1>1, <1>2
    <3> QED
      BY <1>7, <3>1, Before
  <2>2. \A f \in Entries(callbacks') : \E g \in Entries(callbacks) :
            f.owner = g.owner /\ f.flag = IF g.owner = c THEN Renewed(g.flag) ELSE g.flag
    BY <1>2, <1>7, Before
  <2>3. \A e \in Entries(clocks) : e.flag = "fresh" => e.owner # c
    BY <1>4 DEF TimerInv, FlagInv
  <2>4. \A f \in Entries(callbacks) : f.flag = "fresh" => f.owner # c
    BY <1>4 DEF TimerInv, FlagInv
  <2>5. /\ \A e \in Entries(clocks') :
            /\ e.flag = "mine" => pc'[e.owner] \notin {"none", "over"} /\ e.left = left'[e.owner]
            /\ e.flag = "fresh" => pc'[e.owner] = "replace" /\ e.left = freshLeft'[e.owner]
    BY <1>4, <1>8, <2>1, <2>3, Before DEF TimerInv, FlagInv, ConnTypeOK
  <2>6. \A f \in Entries(callbacks') :
            /\ f.flag = "mine" => pc'[f.owner] \notin {"none", "over"} /\ left'[f.owner] <= 0
            /\ f.flag = "fresh" => pc'[f.owner] = "replace" /\ freshLeft'[f.owner] <= 0
    BY <1>4, <1>8, <2>2, <2>4, Before DEF TimerInv, FlagInv, ConnTypeOK
  <2>7. \A d \in Conn :
            /\ timedOut'[d] => pc'[d] \notin {"none", "over"} /\ left'[d] <= 0
            /\ freshOut'[d] => pc'[d] = "replace" /\ freshLeft'[d] <= 0
    BY <1>4, Before DEF TimerInv, FlagInv, ConnTypeOK
  <2> QED
    BY <2>5, <2>6, <2>7 DEF FlagInv
<1>10. WakeInv'
  <2>1. \A d \in Conn \ {c}, h \in {"held", "fresh"} : Wakes(d, h) => Wakes(d, h)'
    BY <1>1, <1>2, <1>4 DEF Wakes
  <2> QED
    BY <1>4, <2>1, Before DEF TimerInv, WakeInv, ConnTypeOK
<1> QED
  BY <1>5, <1>6, <1>9, <1>10 DEF TimerInv
-----------------------------------------------------------------------------
(* The steps of the main thread.                                           *)

LEMMA TickTimer == ASSUME TimerInv, Tick PROVE TimerInv'
<1>1. /\ TimersTypedAt(clocks', callbacks')
      /\ Entries(clocks') = {[e EXCEPT !.left = Later(e.left)] : e \in Entries(clocks)}
  BY Before, Aged DEF Tick
<1>2. /\ callbacks' = callbacks /\ rpc' = rpc
      /\ lag' = (IF rpc = "collect" THEN lag + 1 ELSE lag) /\ (rpc = "collect" => lag = 0)
      /\ UNCHANGED <<state, pc, after, nested, recovering, bytes, answered, timedOut,
                     freshOut, io, entries>>
      /\ left' = [c \in Conn |-> IF pc[c] \in {"none", "over"} THEN left[c] ELSE Later(left[c])]
      /\ freshLeft' = [c \in Conn |-> IF pc[c] = "replace" THEN Later(freshLeft[c]) ELSE freshLeft[c]]
  BY DEF Tick, Pass, answerVars
<1>3. \A l \in Left : Later(l) \in Left /\ (l <= 0 => Later(l) <= 0)
  BY TimeoutAssumption DEF Left, Later
<1>4. TypeOK'
  <2>1. ConnTypeOK'
    BY <1>2, <1>3, Before DEF ConnTypeOK
  <2>2. LoopTypeOK'
    BY <1>2, Before DEF LoopTypeOK
  <2> QED
    BY <1>1, <2>1, <2>2, TypeParts
<1>5. FiringInv'
  BY <1>2 DEF TimerInv, FiringInv
<1>6. \A e \in Info : LET x == [e EXCEPT !.left = Later(e.left)]
                      IN  /\ x.owner = e.owner /\ x.flag = e.flag /\ x.wakes = e.wakes
                          /\ x.handle = e.handle /\ x.used = e.used /\ x.left = Later(e.left)
  BY DEF Info, CallbackInfo
<1>7. FlagInv'
  <2>1. \A e \in Entries(clocks') : \E x \in Entries(clocks) :
            e.owner = x.owner /\ e.flag = x.flag /\ e.left = Later(x.left)
    BY <1>1, <1>6, Before
  <2>2. \A c \in Conn : left[c] <= 0 => left'[c] <= 0
    BY <1>2, <1>3, Before DEF ConnTypeOK
  <2>3. \A c \in Conn : freshLeft[c] <= 0 => freshLeft'[c] <= 0
    BY <1>2, <1>3, Before DEF ConnTypeOK
  <2>4. /\ \A c \in Conn : pc[c] \notin {"none", "over"} => left'[c] = Later(left[c])
        /\ \A c \in Conn : pc[c] = "replace" => freshLeft'[c] = Later(freshLeft[c])
    BY <1>2
  <2> QED
    BY <1>2, <2>1, <2>2, <2>3, <2>4, Before DEF TimerInv, FlagInv
<1>8. WakeInv'
  <2>1. \A d \in Conn, h \in {"held", "fresh"} : Wakes(d, h) => Wakes(d, h)'
    <3> SUFFICES ASSUME NEW d \in Conn, NEW h \in {"held", "fresh"}, Wakes(d, h)
                 PROVE  Wakes(d, h)'
      OBVIOUS
    <3>1. \A x \in Entries(clocks) : \E e \in Entries(clocks') :
            e.owner = x.owner /\ e.wakes = x.wakes /\ e.handle = x.handle /\ e.used = x.used
      BY <1>1, <1>6, Before
    <3> QED
      BY <1>2, <3>1 DEF Wakes
  <2> QED
    BY <1>2, <2>1 DEF TimerInv, WakeInv
<1> QED
  BY <1>4, <1>5, <1>7, <1>8 DEF TimerInv

(* Nothing is due that has not come: the reading is never from later.      *)
LEMMA CollectTimers == ASSUME TimerInv, CollectDue, UNCHANGED connVars PROVE TimerInv'
<1>1. /\ TimersTypedAt(clocks', callbacks')
      /\ \A e \in Entries(clocks') : \E x \in Entries(clocks) : e = [x EXCEPT !.used = Due(x)]
      /\ \A x \in Entries(clocks) :
            x.handle # "dead" => [x EXCEPT !.used = Due(x)] \in Entries(clocks')
      /\ \A f \in Entries(callbacks') : \E x \in Entries(clocks) : Due(x) /\ f = Functor(x)
      /\ \A x \in Entries(clocks) : Due(x) => Functor(x) \in Entries(callbacks')
  BY Before, Collected
<1>2. /\ rpc = "collect" /\ rpc' = "fire" /\ lag' = 0
      /\ UNCHANGED <<state, pc, after, nested, recovering, bytes, answered, left, freshLeft,
                     timedOut, freshOut, io, entries>>
  BY DEF CollectDue, connVars, answerVars, flagVars
<1>3. TypeOK'
  <2>1. ConnTypeOK'
    BY <1>2, Before DEF ConnTypeOK
  <2>2. LoopTypeOK'
    BY <1>2 DEF LoopTypeOK
  <2> QED
    BY <1>1, <2>1, <2>2, TypeParts
<1>4. FiringInv'
  BY <1>2 DEF FiringInv
<1>5. \A x \in Info : LET e == [x EXCEPT !.used = Due(x)]
                      IN  /\ e.owner = x.owner /\ e.flag = x.flag /\ e.wakes = x.wakes
                          /\ e.handle = x.handle /\ e.used = Due(x) /\ e.left = x.left
  BY DEF Info, CallbackInfo
<1>6. \A x \in Info : /\ Functor(x).owner = x.owner /\ Functor(x).flag = x.flag
                      /\ Functor(x).wakes = x.wakes
  BY DEF Functor
<1>7. \A x \in Entries(clocks) : Due(x) => x.left <= 0
  BY Before, TimeoutAssumption DEF LoopTypeOK, Due, Left
<1>8. FlagInv'
  <2>1. \A e \in Entries(clocks') : \E x \in Entries(clocks) :
            e.owner = x.owner /\ e.flag = x.flag /\ e.left = x.left
    <3> SUFFICES ASSUME NEW e \in Entries(clocks')
                 PROVE  \E x \in Entries(clocks) :
                            e.owner = x.owner /\ e.flag = x.flag /\ e.left = x.left
      OBVIOUS
    <3>1. PICK x \in Entries(clocks) : e = [x EXCEPT !.used = Due(x)]
      BY <1>1
    <3> QED
      BY <1>5, <3>1, Before
  <2>2. \A f \in Entries(callbacks') : \E x \in Entries(clocks) :
            f.owner = x.owner /\ f.flag = x.flag /\ x.left <= 0
    BY <1>1, <1>6, <1>7, Before
  <2> QED
    BY <1>2, <2>1, <2>2 DEF TimerInv, FlagInv
<1>9. WakeInv'
  <2>1. \A d \in Conn, h \in {"held", "fresh"} : Wakes(d, h) => Wakes(d, h)'
    <3> SUFFICES ASSUME NEW d \in Conn, NEW h \in {"held", "fresh"}, Wakes(d, h)
                 PROVE  Wakes(d, h)'
      OBVIOUS
    <3>1. Entries(callbacks) = {}
      BY <1>2 DEF TimerInv, FiringInv, Entries
    <3>2. CASE entries[d] > 0
      BY <1>2, <3>2 DEF Wakes
    <3>3. ASSUME NEW x \in Entries(clocks), x.owner = d, x.wakes, x.handle = h, ~x.used
          PROVE  Wakes(d, h)'
      <4>1. CASE Due(x)
        BY <1>1, <1>6, <3>3, <4>1, Before DEF Wakes
      <4>2. CASE ~Due(x)
        BY <1>1, <1>5, <3>3, <4>2, Before DEF Wakes
      <4> QED
        BY <4>1, <4>2
    <3> QED
      BY <3>1, <3>2, <3>3 DEF Wakes
  <2> QED
    BY <1>2, <2>1 DEF TimerInv, WakeInv
<1> QED
  BY <1>3, <1>4, <1>8, <1>9 DEF TimerInv

LEMMA SweepTimers == ASSUME TimerInv, SweepUsed, UNCHANGED connVars PROVE TimerInv'
<1>1. /\ TimersTypedAt(clocks', callbacks')
      /\ Entries(clocks') = {e \in Entries(clocks) : ~e.used}
      /\ callbacks' = callbacks
  BY Before, Swept
<1>2. /\ callbacks = <<>> /\ rpc' = "executor" /\ lag' = lag
      /\ UNCHANGED <<state, pc, after, nested, recovering, bytes, answered, left, freshLeft,
                     timedOut, freshOut, io, entries>>
  BY DEF SweepUsed, connVars, answerVars, flagVars
<1>3. TypeOK'
  <2>1. ConnTypeOK'
    BY <1>2, Before DEF ConnTypeOK
  <2>2. LoopTypeOK'
    BY <1>2, Before DEF LoopTypeOK
  <2> QED
    BY <1>1, <2>1, <2>2, TypeParts
<1>4. FiringInv' /\ FlagInv'
  BY <1>1, <1>2 DEF TimerInv, FiringInv, FlagInv
<1>5. WakeInv'
  <2>1. \A d \in Conn, h \in {"held", "fresh"} : Wakes(d, h) => Wakes(d, h)'
    BY <1>1, <1>2 DEF Wakes
  <2> QED
    BY <1>2, <2>1 DEF TimerInv, WakeInv
<1> QED
  BY <1>3, <1>4, <1>5 DEF TimerInv

LEMMA SetReadyTimer == ASSUME TimerInv, RunSetReady PROVE TimerInv'
<1> DEFINE h == Head(callbacks)
<1>1. /\ TimersTypedAt(clocks', callbacks')
      /\ h \in Entries(callbacks) /\ h \in Fn /\ clocks' = clocks
      /\ \A f \in Entries(callbacks') :
            \E g \in Entries(callbacks) : f.owner = g.owner /\ f.flag = g.flag
      /\ \A g \in Entries(callbacks) : g.wakes =>
            \E f \in Entries(callbacks') : f.owner = g.owner /\ f.wakes
  <2>1. CallbackRun("ready")
    BY DEF RunSetReady
  <2> QED
    BY <2>1, Before, Ran
<1>2. /\ rpc = "fire" /\ rpc' = "fire" /\ lag' = lag
      /\ timedOut' = [timedOut EXCEPT ![h.owner] = @ \/ h.flag = "mine"]
      /\ freshOut' = [freshOut EXCEPT ![h.owner] = @ \/ h.flag = "fresh"]
      /\ UNCHANGED <<state, pc, after, nested, recovering, bytes, answered, left, freshLeft,
                     io, entries>>
  BY DEF RunSetReady, CallbackRun, answerVars
<1>3. h.owner \in Conn
  BY <1>1, Before
<1> HIDE DEF h
<1>4. TypeOK'
  <2>1. timedOut' \in [Conn -> BOOLEAN] /\ freshOut' \in [Conn -> BOOLEAN]
    BY <1>2, <1>3, Before DEF ConnTypeOK
  <2>2. ConnTypeOK'
    BY <1>2, <2>1, Before DEF ConnTypeOK
  <2>3. LoopTypeOK'
    BY <1>2, Before DEF LoopTypeOK
  <2> QED
    BY <1>1, <2>2, <2>3, TypeParts
<1>5. FiringInv'
  BY <1>2 DEF FiringInv
<1>6. FlagInv'
  <2>1. /\ \A e \in Entries(clocks') :
            /\ e.flag = "mine" => pc'[e.owner] \notin {"none", "over"} /\ e.left = left'[e.owner]
            /\ e.flag = "fresh" => pc'[e.owner] = "replace" /\ e.left = freshLeft'[e.owner]
        /\ \A f \in Entries(callbacks') :
            /\ f.flag = "mine" => pc'[f.owner] \notin {"none", "over"} /\ left'[f.owner] <= 0
            /\ f.flag = "fresh" => pc'[f.owner] = "replace" /\ freshLeft'[f.owner] <= 0
    BY <1>1, <1>2 DEF TimerInv, FlagInv
  <2>2. /\ h.flag = "mine" => pc[h.owner] \notin {"none", "over"} /\ left[h.owner] <= 0
        /\ h.flag = "fresh" => pc[h.owner] = "replace" /\ freshLeft[h.owner] <= 0
    BY <1>1 DEF TimerInv, FlagInv
  <2>3. \A c \in Conn :
            /\ timedOut'[c] => timedOut[c] \/ (c = h.owner /\ h.flag = "mine")
            /\ freshOut'[c] => freshOut[c] \/ (c = h.owner /\ h.flag = "fresh")
    BY <1>2, <1>3, Before DEF ConnTypeOK
  <2> QED
    BY <1>2, <2>1, <2>2, <2>3 DEF TimerInv, FlagInv
<1>7. WakeInv'
  <2>1. \A d \in Conn, k \in {"held", "fresh"} : Wakes(d, k) => Wakes(d, k)'
    BY <1>1, <1>2 DEF Wakes
  <2> QED
    BY <1>2, <2>1 DEF TimerInv, WakeInv
<1> QED
  BY <1>4, <1>5, <1>6, <1>7 DEF TimerInv

LEMMA WakenTimer == ASSUME TimerInv, RunWaker PROVE TimerInv'
<1> DEFINE h == Head(callbacks)
<1>1. /\ TimersTypedAt(clocks', callbacks')
      /\ h \in Entries(callbacks) /\ h \in Fn /\ clocks' = clocks
      /\ \A f \in Entries(callbacks') :
            \E g \in Entries(callbacks) : f.owner = g.owner /\ f.flag = g.flag
      /\ \A g \in Entries(callbacks) : g.wakes =>
            \/ \E f \in Entries(callbacks') : f.owner = g.owner /\ f.wakes
            \/ g.owner = h.owner
  <2>1. CallbackRun("wake")
    BY DEF RunWaker
  <2> QED
    BY <2>1, Before, Ran
<1>2. /\ rpc = "fire" /\ rpc' = "fire" /\ lag' = lag
      /\ entries' = [entries EXCEPT ![h.owner] = IF pc[h.owner] = "over" THEN 0 ELSE Woken(h.owner)]
      /\ UNCHANGED <<state, pc, after, nested, recovering, bytes, answered, left, freshLeft,
                     timedOut, freshOut, io>>
  BY DEF RunWaker, CallbackRun, answerVars, flagVars
<1>3. h.owner \in Conn
  BY <1>1, Before
<1>4. 0 \in 0 .. MaxEntries /\ \A c \in Conn : Woken(c) \in 1 .. MaxEntries
  BY Before, ConnectionAssumption DEF Woken, ConnTypeOK
<1> HIDE DEF h
<1>5. TypeOK'
  <2>1. entries' \in [Conn -> 0 .. MaxEntries]
    BY <1>2, <1>3, <1>4, Before, ConnectionAssumption DEF ConnTypeOK
  <2>2. ConnTypeOK'
    BY <1>2, <2>1, Before DEF ConnTypeOK
  <2>3. LoopTypeOK'
    BY <1>2, Before DEF LoopTypeOK
  <2> QED
    BY <1>1, <2>2, <2>3, TypeParts
<1>6. FiringInv' /\ FlagInv'
  BY <1>1, <1>2 DEF TimerInv, FiringInv, FlagInv
<1>7. WakeInv'
  <2>1. \A d \in Conn, k \in {"held", "fresh"} : pc[d] # "over" => (Wakes(d, k) => Wakes(d, k)')
    <3> SUFFICES ASSUME NEW d \in Conn, NEW k \in {"held", "fresh"}, pc[d] # "over", Wakes(d, k)
                 PROVE  Wakes(d, k)'
      OBVIOUS
    <3>1. CASE d = h.owner
      <4>1. entries'[d] > 0
        BY <1>2, <1>3, <1>4, <3>1, Before, ConnectionAssumption DEF ConnTypeOK
      <4> QED
        BY <4>1 DEF Wakes
    <3>2. CASE d # h.owner
      <4>1. entries'[d] = entries[d]
        BY <1>2, <1>3, <3>2, Before DEF ConnTypeOK
      <4> QED
        BY <1>1, <3>2, <4>1 DEF Wakes
    <3> QED
      BY <3>1, <3>2
  <2> QED
    BY <1>2, <2>1 DEF TimerInv, WakeInv
<1> QED
  BY <1>5, <1>6, <1>7 DEF TimerInv

LEMMA DescriptorTimer ==
    ASSUME TimerInv, NEW c \in Conn, NEW i \in Io, FireDescriptor(c, i)
    PROVE  TimerInv'
<1>1. /\ UNCHANGED <<clocks, callbacks, rpc, lag, state, pc, after, nested, recovering, bytes,
                     answered, left, freshLeft, timedOut, freshOut>>
      /\ entries' = [entries EXCEPT ![c] = Woken(c)]
      /\ io' = [io EXCEPT ![c] = @ \ {i}]
  BY DEF FireDescriptor, timerVars, answerVars, flagVars
<1>2. Woken(c) \in 1 .. MaxEntries
  BY Before, ConnectionAssumption DEF Woken, ConnTypeOK
<1>3. TypeOK'
  <2>1. io' \in [Conn -> SUBSET Io] /\ entries' \in [Conn -> 0 .. MaxEntries]
    BY <1>1, <1>2, Before, ConnectionAssumption DEF ConnTypeOK
  <2>2. ConnTypeOK' /\ LoopTypeOK' /\ TimersTypedAt(clocks', callbacks')
    BY <1>1, <2>1, Before DEF ConnTypeOK, LoopTypeOK
  <2> QED
    BY <2>2, TypeParts
<1>4. FiringInv' /\ FlagInv'
  BY <1>1 DEF TimerInv, FiringInv, FlagInv
<1>5. WakeInv'
  <2>1. \A d \in Conn : entries[d] > 0 => entries'[d] > 0
    BY <1>1, <1>2, Before, ConnectionAssumption DEF ConnTypeOK
  <2>2. \A d \in Conn, k \in {"held", "fresh"} : Wakes(d, k) => Wakes(d, k)'
    BY <1>1, <2>1 DEF Wakes
  <2> QED
    BY <1>1, <2>2 DEF TimerInv, WakeInv
<1> QED
  BY <1>3, <1>4, <1>5 DEF TimerInv

(* The main thread reads the clock, or goes on to its next turn.           *)
LEMMA LoopTimers ==
    ASSUME TimerInv, ReadClock \/ ExecutorStepReturns(Idle), UNCHANGED connVars
    PROVE  TimerInv'
<1>1. /\ UNCHANGED <<clocks, callbacks, state, pc, after, nested, recovering, bytes, answered,
                     left, freshLeft, timedOut, freshOut, io, entries>>
      /\ rpc # "fire" /\ rpc' \in {"collect", "clock"} /\ lag' \in {0, lag}
  BY DEF ReadClock, ExecutorStepReturns, connVars, answerVars, flagVars
<1>2. TypeOK'
  <2>1. ConnTypeOK' /\ LoopTypeOK' /\ TimersTypedAt(clocks', callbacks')
    BY <1>1, Before DEF ConnTypeOK, LoopTypeOK
  <2> QED
    BY <2>1, TypeParts
<1>3. FiringInv' /\ FlagInv'
  BY <1>1 DEF TimerInv, FiringInv, FlagInv
<1>4. WakeInv'
  BY <1>1 DEF TimerInv, WakeInv, Wakes
<1> QED
  BY <1>2, <1>3, <1>4 DEF TimerInv

LEMMA TimerInit == Init => TimerInv
<1> SUFFICES ASSUME Init PROVE TimerInv
  OBVIOUS
<1> USE ConnectionAssumption, TimeoutAssumption DEF Init, TimersInit
<1>1. TimersTypedAt(clocks, callbacks)
  BY DEF TimersTypedAt, Sorted
<1>2. LoopTypeOK
  BY DEF LoopTypeOK
<1>3. ConnTypeOK
  BY DEF ConnTypeOK, State, Pc, Left, Io
<1>4. TypeOK
  BY <1>1, <1>2, <1>3, TypeParts
<1>5. Entries(clocks) = {} /\ Entries(callbacks) = {}
  BY DEF Entries
<1>6. FlagInv /\ FiringInv /\ WakeInv
  BY <1>5 DEF FlagInv, FiringInv, WakeInv
<1> QED
  BY <1>4, <1>6 DEF TimerInv

LEMMA TimerStuttering == ASSUME TimerInv, UNCHANGED vars PROVE TimerInv'
<1>1. UNCHANGED <<clocks, callbacks, rpc, lag, state, pc, after, nested, recovering, bytes,
                  answered, left, freshLeft, timedOut, freshOut, io, entries>>
  BY DEF vars, timerVars, connVars, answerVars, flagVars
<1>2. TypeOK'
  <2>1. ConnTypeOK' /\ LoopTypeOK' /\ TimersTypedAt(clocks', callbacks')
    BY <1>1, Before DEF ConnTypeOK, LoopTypeOK
  <2> QED
    BY <2>1, TypeParts
<1>3. FiringInv' /\ FlagInv' /\ WakeInv'
  BY <1>1 DEF TimerInv, FiringInv, FlagInv, WakeInv, Wakes
<1> QED
  BY <1>2, <1>3 DEF TimerInv

LEMMA TaskTimers == ASSUME TimerInv, NEW c \in Conn, Poll(c) PROVE TimerInv'
<1>1. CASE Silent(c)
  BY <1>1, Before, SilentTyped, SilentIsQuiet, QuietInv
<1>2. CASE Renew(c) \/ Replace(c) \/ TimerRegister(c) \/ TimerConnect(c)
  BY <1>2, RenewTimer, ReplaceTimer, RegisterTimer, ConnectHandle
<1>3. CASE Drop(c)
  BY <1>3, DropTimer
<1> QED
  BY <1>1, <1>2, <1>3 DEF Poll, Timer, Future, Silent
-----------------------------------------------------------------------------
(* Flags and tables are consistent, and every poll that is pending in      *)
(* Respond left its waker behind, however the reactor and the polls meet.  *)
THEOREM TimerInvariant == Spec => []TimerInv
<1>1. TimerInv /\ [Next]_vars => TimerInv'
  <2> SUFFICES ASSUME TimerInv, [Next]_vars PROVE TimerInv'
    OBVIOUS
  <2>1. CASE UNCHANGED vars
    BY <2>1, TimerStuttering
  <2>2. CASE Reactor
    BY <2>2, CollectTimers, SweepTimers, SetReadyTimer, WakenTimer, LoopTimers DEF Reactor
  <2>3. CASE Tick
    BY <2>3, TickTimer
  <2>4. ASSUME NEW c \in Conn, Poll(c) \/ Connect(c)
        PROVE  TimerInv'
    BY <2>4, TaskTimers, ConnectTimer
  <2>5. ASSUME NEW c \in Conn, NEW i \in Io, FireDescriptor(c, i)
        PROVE  TimerInv'
    BY <2>5, DescriptorTimer
  <2> QED
    BY <2>1, <2>2, <2>3, <2>4, <2>5 DEF Next
<1> QED
  BY <1>1, TimerInit, PTL DEF Spec

(* Every variable of the connections and their timers has its type; the    *)
(* table of the timers (TimeoutEventHandler.cpp) is in the order of ticks. *)
THEOREM TypeCorrect == Spec => []TypeOK
<1>1. TimerInv => TypeOK
  BY DEF TimerInv
<1> QED
  BY <1>1, TimerInvariant, PTL

(* A timer's flag is not set before its tick, whatever the reactor holds   *)
(* of the timers it replaced (TimeoutFuture.cpp:43-61).                    *)
THEOREM NeverEarly == Spec => []NotBeforeTime
<1>1. TimerInv => NotBeforeTime
  BY DEF TimerInv, FlagInv, NotBeforeTime
<1> QED
  BY <1>1, TimerInvariant, PTL

(* A response that waits for its client is woken by its timer: the poll    *)
(* left a waker that is in the table, connected and unused, or about to    *)
(* run (TimeoutFuture.cpp:28-34, TimeoutEventHandler.cpp:18-66).           *)
THEOREM WokenByTimer == Spec => []TimerWakes
<1>1. TimerInv => TimerWakes
  <2> SUFFICES ASSUME TimerInv, NEW c \in Conn,
                      pc[c] = "waiting", state[c] = "Respond", entries[c] = 0
               PROVE  \/ \E i \in DOMAIN clocks :
                            /\ clocks[i].owner = c /\ clocks[i].wakes
                            /\ clocks[i].handle = "held" /\ ~clocks[i].used
                      \/ \E i \in DOMAIN callbacks :
                            callbacks[i].owner = c /\ callbacks[i].wakes
    BY DEF TimerWakes
  <2>1. Wakes(c, "held")
    BY DEF TimerInv, WakeInv
  <2> QED
    BY <2>1 DEF Wakes, Entries
<1> QED
  BY <1>1, TimerInvariant, PTL
=============================================================================
