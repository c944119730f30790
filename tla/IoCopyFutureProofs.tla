--------------------------- MODULE IoCopyFutureProofs ---------------------------
(***************************************************************************)
(* What IoCopyFuture promises, for any messages and any sizes of its buffer*)
(* and of the chunks: the receiver gets what is read of the message, which *)
(* is each section as far as its first empty piece and the body, in order  *)
(* and whole, and can take a body in chunks apart. So it gets all of every *)
(* message without empty pieces.                                           *)
(***************************************************************************)
EXTENDS IoCopyFuture, SequenceTheorems, FiniteSetTheorems, TLAPS

Symbols == Kinds \X Nat

(* Induction over the naturals, from the fact that their order is well     *)
(* founded: a set that has 0 and, with n, n + 1 has them all. The          *)
(* induction theorems of the library take an operator, which none of the   *)
(* provers can instantiate; a set they can.                                *)
Less == {p \in Nat \X Nat : p[1] < p[2]}
LEMMA LessWF == IsWellFoundedOn(Less, Nat)
  <1> USE NatLessThanWellFounded DEF OpToRel, Less
  <1> QED BY Zenon

LEMMA SetInduction ==
    ASSUME NEW S, 0 \in S, \A n \in Nat : n \in S => n + 1 \in S
    PROVE  Nat \subseteq S
<1> DEFINE T == Nat \ S
<1> SUFFICES ASSUME T # {} PROVE FALSE
  OBVIOUS
<1>0. T \subseteq Nat
  OBVIOUS
<1> HIDE DEF T
<1>1. PICK x \in T : \A y \in T : ~(<<y, x>> \in Less)
  BY LessWF, WFMin, <1>0
<1>2. \A y \in T : ~(y < x)
  BY <1>1, <1>0 DEF Less
<1> USE DEF T
<1>3. x # 0 /\ x \in Nat
  OBVIOUS
<1>4. x - 1 \in Nat /\ x - 1 \notin T
  BY <1>2, <1>3
<1> QED
  BY <1>3, <1>4

(* A function that is defined by recursion over 0 .. N: it exists, with    *)
(* values in the given set, and it is the only one.                        *)
Folds(f, v, step, N) == f[0] = v /\ \A n \in 1 .. N : f[n] = step[n][f[n - 1]]

LEMMA Recursion ==
    ASSUME NEW N \in Nat, NEW V, NEW v \in V, NEW step \in [1 .. N -> [V -> V]]
    PROVE  \E f \in [0 .. N -> V] : Folds(f, v, step, N)
<1> DEFINE Steps(f, k) == f[0] = v /\ \A n \in 1 .. k : f[n] = step[n][f[n - 1]]
           P(k) == \E f \in [0 .. k -> V] : Steps(f, k)
           S == {k \in Nat : k <= N => P(k)}
<1>1. P(0)
  <2>1. [n \in 0 .. 0 |-> v] \in [0 .. 0 -> V]
    OBVIOUS
  <2>2. Steps([n \in 0 .. 0 |-> v], 0)
    OBVIOUS
  <2> QED
    BY <2>1, <2>2
<1>2. ASSUME NEW k \in Nat, P(k), k + 1 <= N PROVE P(k + 1)
  <2>1. PICK f \in [0 .. k -> V] : Steps(f, k)
    BY <1>2
  <2> DEFINE g == [n \in 0 .. k + 1 |-> IF n <= k THEN f[n] ELSE step[k + 1][f[k]]]
  <2>2. step[k + 1][f[k]] \in V
    BY <1>2, <2>1
  <2>3. g \in [0 .. k + 1 -> V]
    BY <2>1, <2>2
  <2>4. Steps(g, k + 1)
    <3>1. g[0] = v
      BY <2>1
    <3>2. ASSUME NEW n \in 1 .. k + 1 PROVE g[n] = step[n][g[n - 1]]
      <4>1. CASE n <= k
        <5>1. n \in 1 .. k /\ n \in 0 .. k + 1 /\ n - 1 \in 0 .. k + 1 /\ n - 1 <= k
          BY <4>1
        <5>2. g[n] = f[n] /\ g[n - 1] = f[n - 1]
          BY <5>1, <4>1
        <5> QED BY <5>1, <5>2, <2>1
      <4>2. CASE n = k + 1
        BY <4>2
      <4> QED BY <4>1, <4>2
    <3> QED BY <3>1, <3>2
  <2> HIDE DEF g
  <2> QED
    BY <2>3, <2>4
<1>3. P(N)
  <2> HIDE DEF P
  <2>1. 0 \in S
    BY <1>1
  <2>2. ASSUME NEW k \in Nat, k \in S PROVE k + 1 \in S
    BY <1>2, <2>2
  <2>3. N \in S
    <3> HIDE DEF S
    <3> QED BY <2>1, <2>2, SetInduction
  <2> QED
    BY <2>3
<1> QED
  BY <1>3 DEF Folds

LEMMA Determined ==
    ASSUME NEW N \in Nat, NEW f, NEW g, f[0] = g[0],
           \A n \in 1 .. N : f[n - 1] = g[n - 1] => f[n] = g[n]
    PROVE  \A n \in 0 .. N : f[n] = g[n]
<1> DEFINE S == {k \in Nat : k <= N => f[k] = g[k]}
<1>1. 0 \in S
  OBVIOUS
<1>2. ASSUME NEW k \in Nat, k \in S PROVE k + 1 \in S
  <2> SUFFICES ASSUME k + 1 <= N PROVE f[k + 1] = g[k + 1]
    OBVIOUS
  <2>1. k + 1 \in 1 .. N /\ (k + 1) - 1 = k /\ f[k] = g[k]
    BY <1>2
  <2> QED BY <2>1
<1>3. Nat \subseteq S
  <2> HIDE DEF S
  <2> QED BY <1>1, <1>2, SetInduction
<1> QED
  BY <1>3

(* What a receiver makes of one symbol, case by case.                      *)
LEMMA ReceiverIs ==
    ASSUME NEW r \in Receiver
    PROVE  /\ r.expects \in {"size", "sizeEnd", "data", "last", "nothing", "malformed"}
           /\ r.left \in Nat /\ r.data \in Text
  BY DEF Receiver

LEMMA ReceiveSize ==
    ASSUME NEW r \in Receiver, NEW x \in Symbols, r.expects = "size", x[1] = "size"
    PROVE  Receive(x)[r] = [expects |-> "sizeEnd", left |-> x[2], data |-> r.data]
  BY DEF Receive

LEMMA ReceiveSizeEnd ==
    ASSUME NEW r \in Receiver, r.expects = "sizeEnd"
    PROVE  Receive(Crlf[1])[r] = [r EXCEPT !.expects = IF r.left = 0 THEN "last" ELSE "data"]
  BY DEF Receive

LEMMA ReceiveData ==
    ASSUME NEW r \in Receiver, NEW x \in Symbols, r.expects = "data", r.left > 0
    PROVE  Receive(x)[r] = [expects |-> "data", left |-> r.left - 1, data |-> Append(r.data, x)]
  BY DEF Receive

LEMMA ReceiveDataEnd ==
    ASSUME NEW r \in Receiver, r.expects = "data", r.left = 0
    PROVE  Receive(Crlf[1])[r] = [r EXCEPT !.expects = "size"]
  BY DEF Receive

LEMMA ReceiveLast ==
    ASSUME NEW r \in Receiver, r.expects = "last"
    PROVE  Receive(Crlf[1])[r] = [r EXCEPT !.expects = "nothing"]
  BY DEF Receive

LEMMA ReceiveOther ==
    ASSUME NEW r \in Receiver, NEW x,
           ~(r.expects = "size" /\ x[1] = "size"),
           ~(r.expects = "sizeEnd" /\ x = Crlf[1]),
           ~(r.expects = "data" /\ r.left > 0),
           ~(r.expects = "data" /\ r.left = 0 /\ x = Crlf[1]),
           ~(r.expects = "last" /\ x = Crlf[1])
    PROVE  Receive(x)[r] = [r EXCEPT !.expects = "malformed"]
  BY DEF Receive

(* Any symbol leaves a receiver a receiver.                                *)
LEMMA ReceiveType ==
    ASSUME NEW r \in Receiver, NEW x \in Symbols
    PROVE  Receive(x)[r] \in Receiver
<1>1. Append(r.data, x) \in Text
  BY AppendProperties, ReceiverIs DEF Text, Symbols
<1>2. x[2] \in Nat
  BY DEF Symbols
<1>3. [expects |-> "sizeEnd", left |-> x[2], data |-> r.data] \in Receiver
  BY <1>2 DEF Receiver
<1>4. \A e \in {"last", "data", "size", "nothing", "malformed"} : [r EXCEPT !.expects = e] \in Receiver
  BY DEF Receiver
<1>5. ASSUME r.left > 0
      PROVE  [expects |-> "data", left |-> r.left - 1, data |-> Append(r.data, x)] \in Receiver
  <2>1. r.left - 1 \in Nat
    BY ReceiverIs, <1>5
  <2> QED BY <1>1, <2>1 DEF Receiver
<1>6. CASE r.expects = "size" /\ x[1] = "size"
  BY <1>6, <1>3, ReceiveSize
<1>7. CASE r.expects = "sizeEnd" /\ x = Crlf[1]
  BY <1>7, <1>4, ReceiveSizeEnd
<1>8. CASE r.expects = "data" /\ r.left > 0
  BY <1>8, <1>5, ReceiveData
<1>9. CASE r.expects = "data" /\ r.left = 0 /\ x = Crlf[1]
  BY <1>9, <1>4, ReceiveDataEnd
<1>10. CASE r.expects = "last" /\ x = Crlf[1]
  BY <1>10, <1>4, ReceiveLast
<1> QED
  BY <1>4, <1>6, <1>7, <1>8, <1>9, <1>10, ReceiveOther

LEMMA NothingType == NothingReceived \in Receiver
  BY EmptySeq DEF NothingReceived, Receiver, Text

(* f has what a receiver made of the first n symbols of a text, for any n. *)
Runs(f, text, N) ==
    f[0] = NothingReceived /\ \A n \in 1 .. N : f[n] = Receive(text[n])[f[n - 1]]

LEMMA ReceiveRuns ==
    ASSUME NEW N \in Nat, NEW text \in [1 .. N -> Symbols]
    PROVE  \E f \in [0 .. N -> Receiver] : Runs(f, text, N)
<1> DEFINE step == [n \in 1 .. N |-> [r \in Receiver |-> Receive(text[n])[r]]]
<1>1. step \in [1 .. N -> [Receiver -> Receiver]]
  BY ReceiveType
<1>2. PICK f \in [0 .. N -> Receiver] : Folds(f, NothingReceived, step, N)
  <2> HIDE DEF step
  <2> QED BY <1>1, NothingType, Recursion
<1>3. \A n \in 1 .. N : f[n] = Receive(text[n])[f[n - 1]]
  <2> SUFFICES ASSUME NEW n \in 1 .. N PROVE f[n] = Receive(text[n])[f[n - 1]]
    OBVIOUS
  <2>1. f[n - 1] \in Receiver
    BY <1>2
  <2> QED BY <1>2, <2>1 DEF Folds
<1> QED
  BY <1>2, <1>3 DEF Folds, Runs

LEMMA ReceiveRunsUnique ==
    ASSUME NEW N \in Nat, NEW text, NEW f, NEW g, Runs(f, text, N), Runs(g, text, N)
    PROVE  \A n \in 0 .. N : f[n] = g[n]
<1>1. \A n \in 1 .. N : f[n - 1] = g[n - 1] => f[n] = g[n]
  BY DEF Runs
<1>2. f[0] = g[0]
  BY DEF Runs
<1> QED BY <1>1, <1>2, Determined

RunOf(text, N) ==
    CHOOSE h : h = [n \in 0 .. N |->
                        IF n = 0 THEN NothingReceived ELSE Receive(text[n])[h[n - 1]]]

(* The recursive function in Received is such an f.                        *)
LEMMA RunOfRuns ==
    ASSUME NEW N \in Nat, NEW text \in [1 .. N -> Symbols]
    PROVE  RunOf(text, N) \in [0 .. N -> Receiver] /\ Runs(RunOf(text, N), text, N)
<1> DEFINE Body(h) == [n \in 0 .. N |-> IF n = 0 THEN NothingReceived ELSE Receive(text[n])[h[n - 1]]]
           after == CHOOSE h : h = Body(h)
<1>2. PICK f \in [0 .. N -> Receiver] : Runs(f, text, N)
  BY ReceiveRuns
<1>5. f = Body(f)
  <2>1. f = [n \in 0 .. N |-> f[n]]
    BY <1>2
  <2>2. \A n \in 0 .. N : f[n] = IF n = 0 THEN NothingReceived ELSE Receive(text[n])[f[n - 1]]
    BY <1>2 DEF Runs
  <2> QED BY <2>1, <2>2
<1>6. after = Body(after)
  <2> HIDE DEF Body
  <2> QED BY <1>5
<1> HIDE DEF after
<1>8. \A n \in 0 .. N : after[n] = IF n = 0 THEN NothingReceived ELSE Receive(text[n])[after[n - 1]]
  BY <1>6
<1>9. Runs(after, text, N)
  BY <1>8 DEF Runs
<1>10. \A n \in 0 .. N : f[n] = after[n]
  BY <1>2, <1>9, ReceiveRunsUnique
<1>11. after = f
  <2>1. after = [n \in 0 .. N |-> after[n]] /\ f = [n \in 0 .. N |-> f[n]]
    BY <1>6, <1>2
  <2> QED BY <2>1, <1>10
<1>12. RunOf(text, N) = after
  BY DEF RunOf, after
<1> QED
  BY <1>2, <1>11, <1>12

LEMMA ReceivedSteps ==
    ASSUME NEW text \in Text
    PROVE  \E after \in [0 .. Len(text) -> Receiver] :
                Runs(after, text, Len(text)) /\ Received(text) = after[Len(text)]
<1>1. Len(text) \in Nat /\ text \in [1 .. Len(text) -> Symbols]
  BY LenProperties DEF Text, Symbols
<1>2. Received(text) = RunOf(text, Len(text))[Len(text)]
  BY DEF Received, RunOf
<1> QED
  BY <1>1, <1>2, RunOfRuns

(* So Received can be computed from the front of a text to its end.        *)
LEMMA ReceivedType ==
    ASSUME NEW text \in Text
    PROVE  Received(text) \in Receiver
<1>1. Len(text) \in Nat
  BY LenProperties DEF Text
<1> QED
  BY <1>1, ReceivedSteps

LEMMA ReceivedEmpty == <<>> \in Text /\ Received(<<>>) = NothingReceived
<1>1. <<>> \in Text /\ Len(<<>>) = 0
  BY EmptySeq DEF Text
<1> QED
  BY <1>1, ReceivedSteps DEF Runs

LEMMA ReceivedAppend ==
    ASSUME NEW text \in Text, NEW x \in Symbols
    PROVE  /\ Append(text, x) \in Text
           /\ Received(Append(text, x)) = Receive(x)[Received(text)]
<1> DEFINE t == Append(text, x)
           N == Len(text)
<1>1. N \in Nat /\ t \in Text /\ Len(t) = N + 1 /\ t[N + 1] = x /\ \A i \in 1 .. N : t[i] = text[i]
  BY LenProperties, AppendProperties DEF Text, Symbols
<1> HIDE DEF t, N
<1>2. PICK f \in [0 .. N -> Receiver] : Runs(f, text, N) /\ Received(text) = f[N]
  BY ReceivedSteps DEF N
<1>3. PICK g \in [0 .. N + 1 -> Receiver] : Runs(g, t, N + 1) /\ Received(t) = g[N + 1]
  BY <1>1, ReceivedSteps
<1>4. Runs(g, text, N)
  BY <1>1, <1>3 DEF Runs
<1>5. f[N] = g[N]
  BY <1>1, <1>2, <1>4, ReceiveRunsUnique
<1>6. g[N + 1] = Receive(x)[g[N]]
  <2>1. N + 1 \in 1 .. N + 1 /\ (N + 1) - 1 = N
    BY <1>1
  <2> QED BY <2>1, <1>3, <1>1 DEF Runs
<1> QED
  BY <1>1, <1>2, <1>3, <1>5, <1>6 DEF t

(* A text is taken apart at its end.                                       *)
LEMMA LastOf ==
    ASSUME NEW u \in Text, Len(u) # 0
    PROVE  \E v \in Text, x \in Symbols : u = Append(v, x) /\ Len(v) = Len(u) - 1
<1>1. u # <<>>
  BY EmptySeq
<1>2. PICK v \in Seq(Symbols), x \in Symbols : u = Append(v, x)
  BY <1>1, SequenceEmptyOrAppend DEF Text, Symbols
<1>3. Len(u) = Len(v) + 1 /\ Len(v) \in Nat
  BY <1>2, AppendProperties, LenProperties
<1>4. v \in Text /\ Len(v) = Len(u) - 1
  BY <1>3 DEF Text, Symbols
<1> QED
  BY <1>2, <1>4

(* Texts are joined.                                                       *)
LEMMA TextConcat ==
    ASSUME NEW t \in Text, NEW u \in Text
    PROVE  /\ t \o u \in Text
           /\ Len(t \o u) = Len(t) + Len(u)
           /\ Len(t) \in Nat /\ Len(u) \in Nat
           /\ \A i \in 1 .. Len(t) : (t \o u)[i] = t[i]
           /\ \A i \in 1 .. Len(u) : (t \o u)[Len(t) + i] = u[i]
<1>1. Len(t) \in Nat /\ Len(u) \in Nat /\ t \o u \in Text /\ Len(t \o u) = Len(t) + Len(u)
  BY ConcatProperties, LenProperties DEF Text
<1>2. \A i \in 1 .. Len(t) + Len(u) :
        (t \o u)[i] = IF i <= Len(t) THEN t[i] ELSE u[i - Len(t)]
  BY ConcatProperties DEF Text
<1> DEFINE m == Len(t)  n == Len(u)
<1> HIDE DEF m, n
<1>3. m \in Nat /\ n \in Nat /\ \A i \in 1 .. m + n : (t \o u)[i] = IF i <= m THEN t[i] ELSE u[i - m]
  BY <1>1, <1>2 DEF m, n
<1>4. \A i \in 1 .. m : (t \o u)[i] = t[i]
  <2> SUFFICES ASSUME NEW i \in 1 .. m PROVE (t \o u)[i] = t[i]
    OBVIOUS
  <2>1. i \in 1 .. m + n /\ i <= m
    BY <1>3
  <2> QED BY <2>1, <1>3
<1>5. \A i \in 1 .. n : (t \o u)[m + i] = u[i]
  <2> SUFFICES ASSUME NEW i \in 1 .. n PROVE (t \o u)[m + i] = u[i]
    OBVIOUS
  <2>1. m + i \in 1 .. m + n /\ ~(m + i <= m) /\ (m + i) - m = i
    BY <1>3
  <2> QED BY <2>1, <1>3
<1> QED
  BY <1>1, <1>4, <1>5 DEF m, n

LEMMA ConcatAppend ==
    ASSUME NEW t \in Text, NEW v \in Text, NEW x \in Symbols
    PROVE  t \o Append(v, x) = Append(t \o v, x)
<1>1. <<x>> \in Seq(Symbols)
  OBVIOUS
<1>2. Append(v, x) = v \o <<x>> /\ Append(t \o v, x) = (t \o v) \o <<x>>
  BY TextConcat, AppendIsConcat DEF Text, Symbols
<1>3. t \in Seq(Symbols) /\ v \in Seq(Symbols)
  BY DEF Text, Symbols
<1>4. t \o (v \o <<x>>) = (t \o v) \o <<x>>
  <2> HIDE DEF Symbols
  <2> QED BY ONLY <1>1, <1>3, ConcatAssociative
<1> QED
  BY ONLY <1>2, <1>4

(* What a receiver has, it keeps, however the text goes on; and what is    *)
(* malformed stays so.                                                     *)
Keeps(r, q) ==
    /\ \E d \in Text : q.data = r.data \o d
    /\ r.expects = "malformed" => q.expects = "malformed"

LEMMA ReceiveKeeps ==
    ASSUME NEW r \in Receiver, NEW q \in Receiver, NEW x \in Symbols, Keeps(r, q)
    PROVE  Keeps(r, Receive(x)[q])
<1>1. PICK d \in Text : q.data = r.data \o d
  BY DEF Keeps
<1>2. Append(q.data, x) = r.data \o Append(d, x) /\ Append(d, x) \in Text
  <2>1. r.data \in Text
    BY ReceiverIs
  <2>2. Append(d, x) \in Text
    BY <1>1, ReceivedAppend
  <2>3. r.data \o Append(d, x) = Append(r.data \o d, x)
    <3>1. r.data \in Text /\ d \in Text /\ x \in Symbols
      BY <1>1, <2>1
    <3> QED BY ONLY <3>1, ConcatAppend, ZenonT(30)
  <2> QED BY <1>1, <2>2, <2>3
<1>3. \/ Receive(x)[q].data = q.data
      \/ q.expects # "malformed" /\ Receive(x)[q].data = Append(q.data, x)
  <2>6. CASE q.expects = "size" /\ x[1] = "size"
    <3>2. Receive(x)[q] = [expects |-> "sizeEnd", left |-> x[2], data |-> q.data]
      BY <2>6, ReceiveSize
    <3>3. Receive(x)[q].data = q.data
      BY <3>2
    <3> QED BY <3>3
  <2>7. CASE q.expects = "sizeEnd" /\ x = Crlf[1]
    BY <2>7, ReceiveSizeEnd DEF Receiver
  <2>8. CASE q.expects = "data" /\ q.left > 0
    <3>2. Receive(x)[q] = [expects |-> "data", left |-> q.left - 1, data |-> Append(q.data, x)]
      BY <2>8, ReceiveData
    <3>3. Receive(x)[q].data = Append(q.data, x)
      BY <3>2
    <3> QED BY <3>3, <2>8
  <2>9. CASE q.expects = "data" /\ q.left = 0 /\ x = Crlf[1]
    BY <2>9, ReceiveDataEnd DEF Receiver
  <2>10. CASE q.expects = "last" /\ x = Crlf[1]
    BY <2>10, ReceiveLast DEF Receiver
  <2>11. CASE /\ ~(q.expects = "size" /\ x[1] = "size")
              /\ ~(q.expects = "sizeEnd" /\ x = Crlf[1])
              /\ ~(q.expects = "data" /\ q.left > 0)
              /\ ~(q.expects = "data" /\ q.left = 0 /\ x = Crlf[1])
              /\ ~(q.expects = "last" /\ x = Crlf[1])
    BY <2>11, ReceiveOther DEF Receiver
  <2>12. q.expects = "data" => q.expects # "malformed"
    OBVIOUS
  <2> QED
    BY <2>6, <2>7, <2>8, <2>9, <2>10, <2>11, <2>12
<1>4. q.expects = "malformed" => Receive(x)[q].expects = "malformed"
  BY ReceiveOther DEF Receiver
<1> QED
  BY <1>1, <1>2, <1>3, <1>4 DEF Keeps

LEMMA ReceivedKeeps ==
    ASSUME NEW t \in Text, NEW u \in Text
    PROVE  Keeps(Received(t), Received(t \o u))
<1> DEFINE P(n) == \A w \in Text : Len(w) = n => Keeps(Received(t), Received(t \o w))
           S == {n \in Nat : P(n)}
<1>1. P(0)
  <2> SUFFICES ASSUME NEW w \in Text, Len(w) = 0 PROVE Keeps(Received(t), Received(t \o w))
    OBVIOUS
  <2>1. w = <<>>
    BY EmptySeq DEF Text
  <2>2. t \o w = t
    BY <2>1, ConcatEmptySeq DEF Text
  <2>3. Received(t).data = Received(t).data \o <<>>
    BY ReceivedType, ReceiverIs, ConcatEmptySeq DEF Text
  <2> QED BY <2>2, <2>3, ReceivedEmpty DEF Keeps
<1>2. ASSUME NEW n \in Nat, P(n) PROVE P(n + 1)
  <2> SUFFICES ASSUME NEW w \in Text, Len(w) = n + 1 PROVE Keeps(Received(t), Received(t \o w))
    OBVIOUS
  <2>1. PICK v \in Text, x \in Symbols : w = Append(v, x) /\ Len(v) = Len(w) - 1
    BY LastOf
  <2>2. Keeps(Received(t), Received(t \o v))
    BY <1>2, <2>1
  <2>3. Received(t \o w) = Receive(x)[Received(t \o v)]
    <3>1. t \o v \in Text
      BY <2>1, TextConcat
    <3>2. t \o w = Append(t \o v, x)
      BY <2>1, ConcatAppend
    <3> QED BY <2>1, <3>1, <3>2, ReceivedAppend
  <2>4. Received(t) \in Receiver /\ Received(t \o v) \in Receiver
    BY <2>1, TextConcat, ReceivedType
  <2> QED BY <2>1, <2>2, <2>3, <2>4, ReceiveKeeps
<1>3. Nat \subseteq S
  <2> HIDE DEF P
  <2>1. 0 \in S
    BY <1>1
  <2>2. \A n \in Nat : n \in S => n + 1 \in S
    BY <1>2
  <2> HIDE DEF S
  <2> QED BY <2>1, <2>2, SetInduction
<1>4. Len(u) \in Nat
  BY LenProperties DEF Text
<1>5. P(Len(u))
  <2> HIDE DEF P
  <2> QED BY <1>3, <1>4
<1> QED
  BY <1>5

(* What the reader of a section yields: its pieces up to the first that is *)
(* empty.                                                                  *)
SectionText(section) ==
    LET from[i \in 1 .. Len(section) + 1] ==
            IF i > Len(section) THEN <<>>
            ELSE IF section[i] = <<>> THEN <<>>
            ELSE section[i] \o from[i + 1]
    IN  from[1]

(* What is read of a message before its body, and what is behind that.     *)
HeadRead(m) == SectionText(StartLine(m)) \o SectionText(Headers(m)) \o Crlf

BehindHead(text) == SubSeq(text, Len(HeadRead(message)) + 1, Len(text))

(* from has what the rest of a section yields, from any of its pieces on.  *)
Section(from, section, N) ==
    /\ DOMAIN from = 1 .. N + 1
    /\ from[N + 1] = <<>>
    /\ \A i \in 1 .. N :
            from[i] = IF section[i] = <<>> THEN <<>> ELSE section[i] \o from[i + 1]

SectionOf(section, N) ==
    CHOOSE h : h = [i \in 1 .. N + 1 |->
                        IF i > N THEN <<>>
                        ELSE IF section[i] = <<>> THEN <<>> ELSE section[i] \o h[i + 1]]

LEMMA SectionRuns ==
    ASSUME NEW N \in Nat, NEW section \in [1 .. N -> Text]
    PROVE  \E from \in [1 .. N + 1 -> Text] : Section(from, section, N)
<1> DEFINE piece(n) == section[N + 1 - n]
           step == [n \in 1 .. N |-> [v \in Text |-> IF piece(n) = <<>> THEN <<>> ELSE piece(n) \o v]]
<1>0. <<>> \in Text
  BY EmptySeq DEF Text
<1>1. step \in [1 .. N -> [Text -> Text]]
  <2> SUFFICES ASSUME NEW n \in 1 .. N, NEW v \in Text
               PROVE  (IF piece(n) = <<>> THEN <<>> ELSE piece(n) \o v) \in Text
    OBVIOUS
  <2>1. N + 1 - n \in 1 .. N
    OBVIOUS
  <2>2. piece(n) \in Text
    BY <2>1
  <2> HIDE DEF piece
  <2> QED BY <1>0, <2>2, TextConcat
<1>2. PICK f \in [0 .. N -> Text] : Folds(f, <<>>, step, N)
  <2> HIDE DEF step
  <2> QED BY <1>0, <1>1, Recursion
<1> DEFINE from == [i \in 1 .. N + 1 |-> f[N + 1 - i]]
<1>3. from \in [1 .. N + 1 -> Text]
  <2> SUFFICES ASSUME NEW i \in 1 .. N + 1 PROVE f[N + 1 - i] \in Text
    OBVIOUS
  <2>1. N + 1 - i \in 0 .. N
    OBVIOUS
  <2> QED BY <1>2, <2>1
<1>4. from[N + 1] = <<>>
  <2>1. N + 1 \in 1 .. N + 1 /\ N + 1 - (N + 1) = 0
    OBVIOUS
  <2>2. f[0] = <<>>
    BY <1>2 DEF Folds
  <2> QED BY <2>1, <2>2
<1>5. ASSUME NEW i \in 1 .. N
      PROVE  from[i] = IF section[i] = <<>> THEN <<>> ELSE section[i] \o from[i + 1]
  <2> DEFINE n == N + 1 - i
  <2>1. n \in 1 .. N /\ N + 1 - n = i /\ n - 1 = N + 1 - (i + 1) /\ i + 1 \in 1 .. N + 1 /\ i \in 1 .. N + 1
    OBVIOUS
  <2>2. f[n - 1] \in Text
    BY <1>2, <2>1
  <2>3. f[n] = step[n][f[n - 1]]
    BY <1>2, <2>1 DEF Folds
  <2>4. from[i] = f[n] /\ from[i + 1] = f[n - 1] /\ piece(n) = section[i]
    BY <2>1
  <2>5. f[n] = IF piece(n) = <<>> THEN <<>> ELSE piece(n) \o f[n - 1]
    <3> HIDE DEF piece, n
    <3> QED BY <2>1, <2>2, <2>3
  <2> HIDE DEF piece, n, from, step
  <2> QED BY <2>4, <2>5
<1> QED
  BY <1>3, <1>4, <1>5 DEF Section

(* The recursive function in SectionText is such a from.                   *)
LEMMA SectionOfRuns ==
    ASSUME NEW N \in Nat, NEW section \in [1 .. N -> Text]
    PROVE  /\ SectionOf(section, N) \in [1 .. N + 1 -> Text]
           /\ Section(SectionOf(section, N), section, N)
<1> DEFINE Body(h) == [i \in 1 .. N + 1 |->
                        IF i > N THEN <<>>
                        ELSE IF section[i] = <<>> THEN <<>> ELSE section[i] \o h[i + 1]]
           from == CHOOSE h : h = Body(h)
<1>1. PICK f \in [1 .. N + 1 -> Text] : Section(f, section, N)
  BY SectionRuns
<1>2. f = Body(f)
  <2>1. f = [i \in 1 .. N + 1 |-> f[i]]
    BY <1>1
  <2>2. \A i \in 1 .. N + 1 : f[i] = IF i > N THEN <<>>
                        ELSE IF section[i] = <<>> THEN <<>> ELSE section[i] \o f[i + 1]
    <3> SUFFICES ASSUME NEW i \in 1 .. N + 1
                 PROVE  f[i] = IF i > N THEN <<>>
                          ELSE IF section[i] = <<>> THEN <<>> ELSE section[i] \o f[i + 1]
      OBVIOUS
    <3>1. CASE i > N
      <4>1. i = N + 1
        BY <3>1
      <4> QED BY <4>1, <3>1, <1>1 DEF Section
    <3>2. CASE ~(i > N)
      <4>1. i \in 1 .. N
        BY <3>2
      <4> QED BY <4>1, <3>2, <1>1 DEF Section
    <3> QED BY <3>1, <3>2
  <2> QED BY <2>1, <2>2
<1>3. from = Body(from)
  <2> HIDE DEF Body
  <2> QED BY <1>2
<1> HIDE DEF from
<1>4. \A i \in 1 .. N + 1 : from[i] = IF i > N THEN <<>>
                        ELSE IF section[i] = <<>> THEN <<>> ELSE section[i] \o from[i + 1]
  BY <1>3
<1>5. DOMAIN from = 1 .. N + 1
  BY <1>3
<1>e. from[N + 1] = <<>> /\ <<>> \in Text
  <2>1. N + 1 \in 1 .. N + 1 /\ N + 1 > N
    OBVIOUS
  <2>2. from[N + 1] = <<>>
    BY <1>4, <2>1
  <2> QED BY <2>2, EmptySeq DEF Text
<1>6. Section(from, section, N)
  <2>1. ASSUME NEW i \in 1 .. N
        PROVE  from[i] = IF section[i] = <<>> THEN <<>> ELSE section[i] \o from[i + 1]
    <3>1. i \in 1 .. N + 1 /\ ~(i > N)
      OBVIOUS
    <3> QED BY <3>1, <1>4
  <2> QED BY <1>5, <1>e, <2>1 DEF Section
<1> DEFINE P(k) == from[N + 1 - k] \in Text
           S == {k \in Nat : k <= N => P(k)}
<1>7. P(0)
  <2>1. N + 1 - 0 = N + 1
    OBVIOUS
  <2> QED BY <1>e, <2>1
<1>8. ASSUME NEW k \in Nat, P(k), k + 1 <= N PROVE P(k + 1)
  <2> DEFINE i == N + 1 - (k + 1)
  <2>1. i \in 1 .. N /\ i + 1 = N + 1 - k /\ i \in 1 .. N + 1 /\ ~(i > N)
    BY <1>8
  <2>2. from[i + 1] \in Text
    BY <1>8, <2>1
  <2>3. from[i] = IF section[i] = <<>> THEN <<>> ELSE section[i] \o from[i + 1]
    BY <1>4, <2>1
  <2>4. section[i] \in Text
    BY <2>1
  <2>5. from[i] \in Text
    <3> HIDE DEF i
    <3> QED BY <2>2, <2>3, <2>4, TextConcat, EmptySeq DEF Text
  <2> QED BY <2>5
<1>9. Nat \subseteq S
  <2> HIDE DEF P
  <2>1. 0 \in S
    BY <1>7
  <2>2. \A k \in Nat : k \in S => k + 1 \in S
    BY <1>8
  <2> HIDE DEF S
  <2> QED BY <2>1, <2>2, SetInduction
<1>10. \A i \in 1 .. N + 1 : from[i] \in Text
  <2> SUFFICES ASSUME NEW i \in 1 .. N + 1 PROVE from[i] \in Text
    OBVIOUS
  <2>1. i = N + 1 \/ i \in 1 .. N
    OBVIOUS
  <2>2. from[N + 1] \in Text
    BY <1>e
  <2>3. ASSUME i \in 1 .. N PROVE from[i] \in Text
    <3>1. N + 1 - i \in Nat /\ N + 1 - i <= N /\ N + 1 - (N + 1 - i) = i
      BY <2>3
    <3>2. N + 1 - i \in S
      BY <1>9, <3>1, Zenon
    <3> QED BY <3>1, <3>2
  <2> QED BY <2>1, <2>2, <2>3
<1>11. from \in [1 .. N + 1 -> Text]
  <2>1. from = [i \in 1 .. N + 1 |-> from[i]]
    BY <1>3
  <2> QED BY <2>1, <1>10
<1>12. SectionOf(section, N) = from
  BY DEF SectionOf, from
<1> QED
  BY <1>6, <1>11, <1>12

LEMMA SectionTextIs ==
    ASSUME NEW section \in Seq(Text)
    PROVE  \E from \in [1 .. Len(section) + 1 -> Text] :
                Section(from, section, Len(section)) /\ SectionText(section) = from[1]
<1>1. Len(section) \in Nat /\ section \in [1 .. Len(section) -> Text]
  BY LenProperties
<1>2. SectionText(section) = SectionOf(section, Len(section))[1]
  BY DEF SectionText, SectionOf
<1> QED
  BY <1>1, <1>2, SectionOfRuns

LEMMA SectionTextType ==
    ASSUME NEW section \in Seq(Text)
    PROVE  SectionText(section) \in Text
<1>1. PICK N \in Nat : N = Len(section)
  BY LenProperties
<1>2. PICK from \in [1 .. N + 1 -> Text] : SectionText(section) = from[1]
  BY <1>1, SectionTextIs
<1>3. 1 \in 1 .. N + 1
  OBVIOUS
<1> QED
  BY <1>2, <1>3

(* Two sections that go on alike yield the same there.                     *)
LEMMA SectionUnique ==
    ASSUME NEW s \in Seq(Text), NEW N \in Nat, Len(s) = N + 1, NEW f, NEW g,
           Section(f, s, N + 1), Section(g, Tail(s), N)
    PROVE  f[2] = g[1]
<1>t. \A i \in 1 .. N : Tail(s)[i] = s[i + 1]
  BY HeadTailProperties, EmptySeq
<1> DEFINE a == [n \in 0 .. N |-> f[N + 2 - n]]
           b == [n \in 0 .. N |-> g[N + 1 - n]]
<1>1. a[0] = b[0]
  BY DEF Section
<1>2. ASSUME NEW n \in 1 .. N, a[n - 1] = b[n - 1] PROVE a[n] = b[n]
  <2> DEFINE i == N + 1 - n
  <2>1. i \in 1 .. N /\ i + 1 \in 1 .. N + 1 /\ n - 1 \in 0 .. N /\ n \in 0 .. N
    OBVIOUS
  <2>2. /\ N + 2 - n = i + 1 /\ N + 2 - (n - 1) = (i + 1) + 1
        /\ N + 1 - n = i /\ N + 1 - (n - 1) = i + 1
    OBVIOUS
  <2>3. f[(i + 1) + 1] = g[i + 1]
    BY <1>2, <2>1, <2>2
  <2>4. f[i + 1] = IF s[i + 1] = <<>> THEN <<>> ELSE s[i + 1] \o f[(i + 1) + 1]
    BY <2>1 DEF Section
  <2>5. g[i] = IF Tail(s)[i] = <<>> THEN <<>> ELSE Tail(s)[i] \o g[i + 1]
    BY <2>1 DEF Section
  <2>6. f[i + 1] = g[i]
    BY <1>t, <2>1, <2>3, <2>4, <2>5
  <2>7. a[n] = f[i + 1] /\ b[n] = g[i]
    BY <2>1, <2>2
  <2> QED BY <2>6, <2>7
<1>3. \A n \in 0 .. N : a[n] = b[n]
  <2> HIDE DEF a, b
  <2> QED BY <1>1, <1>2, Determined, ZenonT(60)
<1>4. N \in 0 .. N /\ N + 2 - N = 2 /\ N + 1 - N = 1
  OBVIOUS
<1>5. a[N] = f[2] /\ b[N] = g[1]
  BY <1>4
<1> QED
  BY <1>3, <1>4, <1>5

(* A section yields nothing when it is empty or its first piece is, and    *)
(* otherwise that piece and what the rest yields.                          *)
LEMMA SectionNone == SectionText(<<>>) = <<>>
<1>1. <<>> \in Seq(Text) /\ Len(<<>>) = 0
  BY EmptySeq
<1>2. PICK from : Section(from, <<>>, 0) /\ SectionText(<<>>) = from[1]
  BY <1>1, SectionTextIs
<1>3. from[0 + 1] = <<>> /\ 0 + 1 = 1
  BY <1>2 DEF Section
<1> QED
  BY <1>2, <1>3

LEMMA SectionCut ==
    ASSUME NEW section \in Seq(Text), section # <<>>, Head(section) = <<>>
    PROVE  SectionText(section) = <<>>
<1>1. Len(section) \in Nat \ {0} /\ Head(section) = section[1]
  BY EmptySeq
<1> QED
  BY <1>1, SectionTextIs DEF Section

LEMMA SectionNext ==
    ASSUME NEW section \in Seq(Text), section # <<>>, Head(section) # <<>>
    PROVE  SectionText(section) = Head(section) \o SectionText(Tail(section))
<1>1. Len(section) \in Nat \ {0} /\ Head(section) = section[1]
  BY EmptySeq
<1>2. /\ Tail(section) \in Seq(Text) /\ Len(Tail(section)) = Len(section) - 1
      /\ \A i \in 1 .. Len(Tail(section)) : Tail(section)[i] = section[i + 1]
  BY HeadTailProperties
<1>3. PICK N \in Nat : N = Len(section) - 1
  BY <1>1
<1>4. Len(section) = N + 1 /\ Len(Tail(section)) = N
  BY <1>1, <1>2, <1>3
<1>5. PICK f : Section(f, section, N + 1) /\ SectionText(section) = f[1]
  BY SectionTextIs, <1>4
<1>6. PICK g : Section(g, Tail(section), N) /\ SectionText(Tail(section)) = g[1]
  BY SectionTextIs, <1>4, <1>2
<1>7. f[2] = g[1]
  BY <1>4, <1>5, <1>6, SectionUnique
<1>8. f[1] = IF section[1] = <<>> THEN <<>> ELSE section[1] \o f[2]
  <2>1. 1 \in 1 .. N + 1 /\ 1 + 1 = 2
    OBVIOUS
  <2>2. f[1] = IF section[1] = <<>> THEN <<>> ELSE section[1] \o f[1 + 1]
    BY <2>1, <1>5 DEF Section
  <2> QED BY <2>1, <2>2
<1> QED
  BY <1>1, <1>5, <1>6, <1>7, <1>8
-----------------------------------------------------------------------------
(* The recursive function in FlattenSeq: it joins sequences of texts to    *)
(* one.                                                                    *)
Flattens(f, s, N) ==
    f = [i \in 1 .. N |-> IF i = 1 THEN s[i] ELSE f[i - 1] \o s[i]]

LEMMA FlattenRuns ==
    ASSUME NEW X, NEW N \in Nat, NEW s \in [1 .. N + 1 -> Seq(X)]
    PROVE  \E f : Flattens(f, s, N + 1)
<1> DEFINE step == [n \in 1 .. N |-> [v \in Seq(X) |-> v \o s[n + 1]]]
<1>3. step \in [1 .. N -> [Seq(X) -> Seq(X)]]
  <2> SUFFICES ASSUME NEW n \in 1 .. N, NEW v \in Seq(X) PROVE v \o s[n + 1] \in Seq(X)
    OBVIOUS
  <2>1. n + 1 \in 1 .. N + 1
    OBVIOUS
  <2>2. s[n + 1] \in Seq(X)
    BY <2>1
  <2> QED BY <2>2, ConcatProperties
<1>4. s[1] \in Seq(X)
  <2>1. 1 \in 1 .. N + 1
    OBVIOUS
  <2> QED BY <2>1
<1>5. PICK f \in [0 .. N -> Seq(X)] : Folds(f, s[1], step, N)
  <2> HIDE DEF step
  <2> QED BY <1>3, <1>4, Recursion
<1> DEFINE g == [i \in 1 .. N + 1 |-> f[i - 1]]
<1>6. ASSUME NEW i \in 1 .. N + 1
      PROVE  g[i] = IF i = 1 THEN s[i] ELSE g[i - 1] \o s[i]
  <2>1. CASE i = 1
    <3>1. i - 1 = 0
      BY <2>1
    <3>2. g[i] = f[0]
      BY <3>1
    <3> QED BY <3>2, <2>1, <1>5 DEF Folds
  <2>2. CASE i # 1
    <3>1. i - 1 \in 1 .. N /\ (i - 1) - 1 \in 0 .. N /\ (i - 1) + 1 = i /\ i - 1 \in 1 .. N + 1
      BY <2>2
    <3>2. f[(i - 1) - 1] \in Seq(X)
      BY <3>1, <1>5
    <3>3. f[i - 1] = step[i - 1][f[(i - 1) - 1]]
      BY <3>1, <1>5 DEF Folds
    <3>4. step[i - 1][f[(i - 1) - 1]] = f[(i - 1) - 1] \o s[i]
      BY <3>1, <3>2
    <3>5. g[i] = f[i - 1] /\ g[i - 1] = f[(i - 1) - 1]
      BY <3>1
    <3> HIDE DEF g, step
    <3> QED BY <3>3, <3>4, <3>5, <2>2
  <2> QED BY <2>1, <2>2
<1>7. g = [i \in 1 .. N + 1 |-> IF i = 1 THEN s[i] ELSE g[i - 1] \o s[i]]
  <2>1. g = [i \in 1 .. N + 1 |-> g[i]]
    OBVIOUS
  <2> HIDE DEF g
  <2> QED BY <2>1, <1>6
<1> QED
  BY <1>7 DEF Flattens

LEMMA FlattenTyped ==
    ASSUME NEW X, NEW N \in Nat, NEW s \in [1 .. N + 1 -> Seq(X)], NEW f,
           Flattens(f, s, N + 1)
    PROVE  f[N + 1] \in Seq(X)
<1> DEFINE S == {k \in Nat : k <= N => f[k + 1] \in Seq(X)}
<1>f. \A i \in 1 .. N + 1 : f[i] = IF i = 1 THEN s[i] ELSE f[i - 1] \o s[i]
  BY DEF Flattens
<1>1. 0 \in S
  <2>1. 0 + 1 \in 1 .. N + 1 /\ 0 + 1 = 1
    OBVIOUS
  <2>2. f[0 + 1] = s[1] /\ s[1] \in Seq(X)
    BY <2>1, <1>f
  <2> QED BY <2>2
<1>2. ASSUME NEW k \in Nat, k \in S PROVE k + 1 \in S
  <2> SUFFICES ASSUME k + 1 <= N PROVE f[(k + 1) + 1] \in Seq(X)
    OBVIOUS
  <2>1. (k + 1) + 1 \in 1 .. N + 1 /\ (k + 1) + 1 # 1 /\ ((k + 1) + 1) - 1 = k + 1
    OBVIOUS
  <2>2. f[k + 1] \in Seq(X)
    BY <1>2
  <2>3. f[(k + 1) + 1] = f[k + 1] \o s[(k + 1) + 1] /\ s[(k + 1) + 1] \in Seq(X)
    BY <2>1, <1>f
  <2> QED BY <2>2, <2>3, ConcatProperties
<1>3. Nat \subseteq S
  <2> HIDE DEF S
  <2> QED BY <1>1, <1>2, SetInduction
<1> QED
  BY <1>3

LEMMA FlattenType ==
    ASSUME NEW X, NEW s \in Seq(Seq(X))
    PROVE  FlattenSeq(s) \in Seq(X)
<1>1. CASE Len(s) = 0
  <2>1. s = <<>>
    BY <1>1, EmptySeq
  <2>2. FlattenSeq(s) = s
    BY <1>1 DEF FlattenSeq
  <2> QED BY <2>1, <2>2, EmptySeq
<1>2. CASE Len(s) # 0
  <2>1. Len(s) \in Nat /\ Len(s) - 1 \in Nat /\ Len(s) = (Len(s) - 1) + 1
    BY <1>2, LenProperties
  <2>2. PICK N \in Nat : Len(s) = N + 1
    BY <2>1
  <2>3. s \in [1 .. N + 1 -> Seq(X)]
    BY <2>2, LenProperties
  <2> DEFINE f == CHOOSE h : Flattens(h, s, N + 1)
  <2>4. Flattens(f, s, N + 1)
    BY <2>3, FlattenRuns
  <2>5. f[N + 1] \in Seq(X)
    <3> HIDE DEF f
    <3> QED BY <2>3, <2>4, FlattenTyped
  <2>6. FlattenSeq(s) = f[N + 1]
    BY <1>2, <2>2 DEF FlattenSeq, Flattens
  <2> QED BY <2>5, <2>6
<1> QED
  BY <1>1, <1>2
-----------------------------------------------------------------------------
(* The texts a message is made of.                                         *)
LEMMA TextOne ==
    ASSUME NEW x \in Symbols
    PROVE  <<x>> \in Text /\ <<x>> # <<>> /\ Len(<<x>>) = 1
  BY DEF Text, Symbols

LEMMA TextAssociative ==
    ASSUME NEW t \in Text, NEW u \in Text, NEW v \in Text
    PROVE  (t \o u) \o v = t \o (u \o v)
  BY ConcatAssociative DEF Text

LEMMA CrlfType == Crlf[1] \in Symbols /\ Crlf = <<Crlf[1]>> /\ Crlf \in Text /\ Crlf # <<>>
<1>1. Crlf[1] \in Symbols /\ Crlf = <<Crlf[1]>>
  BY DEF Crlf, Symbol, Symbols, Kinds
<1> QED
  BY <1>1, TextOne

LEMMA DataType ==
    ASSUME NEW i \in Nat, NEW j \in Nat, i <= j
    PROVE  /\ Data(i, j) \in Text /\ Len(Data(i, j)) = j - i
           /\ \A k \in 1 .. j - i : Data(i, j)[k] = Symbol("data", i + k)
           /\ \A k \in 1 .. j - i : Symbol("data", i + k) \in Symbols
<1>1. j - i \in Nat
  OBVIOUS
<1>2. \A k \in 1 .. j - i : Symbol("data", i + k) \in Symbols
  BY DEF Symbol, Symbols, Kinds
<1>3. Data(i, j) \in [1 .. j - i -> Symbols]
  BY <1>2 DEF Data
<1>4. Data(i, j) \in Seq(Symbols) /\ Len(Data(i, j)) = j - i
  BY <1>1, <1>3
<1>5. \A k \in 1 .. j - i : Data(i, j)[k] = Symbol("data", i + k)
  BY DEF Data
<1> QED
  BY <1>2, <1>4, <1>5 DEF Text, Symbols

LEMMA DataConcat ==
    ASSUME NEW i \in Nat, NEW j \in Nat, NEW k \in Nat, i <= j, j <= k
    PROVE  Data(i, j) \o Data(j, k) = Data(i, k)
<1> DEFINE s == Data(i, j) \o Data(j, k)
           t == Data(i, k)
<1>0. i <= k
  OBVIOUS
<1>1. /\ Data(i, j) \in Text /\ Data(j, k) \in Text /\ t \in Text
      /\ Len(Data(i, j)) = j - i /\ Len(Data(j, k)) = k - j /\ Len(t) = k - i
  BY <1>0, DataType
<1>2. s \in Text /\ Len(s) = k - i
  <2>1. s \in Text /\ Len(s) = Len(Data(i, j)) + Len(Data(j, k))
    BY <1>1, TextConcat
  <2>2. (j - i) + (k - j) = k - i
    OBVIOUS
  <2> QED BY <2>1, <2>2, <1>1
<1>3. ASSUME NEW n \in 1 .. k - i PROVE s[n] = t[n]
  <2>1. t[n] = Symbol("data", i + n)
    BY DataType
  <2>2. CASE n <= j - i
    <3>1. n \in 1 .. j - i
      BY <2>2
    <3>2. s[n] = Data(i, j)[n]
      BY <3>1, <1>1, TextConcat
    <3>3. Data(i, j)[n] = Symbol("data", i + n)
      BY <3>1, DataType
    <3> QED BY <2>1, <3>2, <3>3
  <2>3. CASE ~(n <= j - i)
    <3>1. n - (j - i) \in 1 .. k - j /\ (j - i) + (n - (j - i)) = n /\ j + (n - (j - i)) = i + n
      BY <2>3
    <3>2. s[(j - i) + (n - (j - i))] = Data(j, k)[n - (j - i)]
      <4>1. \A m \in 1 .. Len(Data(j, k)) : s[Len(Data(i, j)) + m] = Data(j, k)[m]
        BY <1>1, TextConcat
      <4>2. \A m \in 1 .. k - j : s[(j - i) + m] = Data(j, k)[m]
        BY <4>1, <1>1
      <4> HIDE DEF s
      <4> QED BY <4>2, <3>1
    <3>3. Data(j, k)[n - (j - i)] = Symbol("data", j + (n - (j - i)))
      BY <3>1, DataType
    <3> QED BY <2>1, <3>1, <3>2, <3>3
  <2> QED BY <2>2, <2>3
<1> QED
  <2> HIDE DEF s, t
  <2>1. s = t
    BY <1>1, <1>2, <1>3, SeqEqual DEF Text
  <2> QED BY <2>1 DEF s, t

LEMMA DataNone == \A i \in Nat : Data(i, i) = <<>>
<1> SUFFICES ASSUME NEW i \in Nat PROVE Data(i, i) = <<>>
  OBVIOUS
<1>1. Data(i, i) \in Text /\ Len(Data(i, i)) = 0
  BY DataType
<1> QED
  BY <1>1, EmptySeq DEF Text

LEMMA DataAppend ==
    ASSUME NEW i \in Nat, NEW j \in Nat, i <= j
    PROVE  Data(i, j + 1) = Append(Data(i, j), Symbol("data", j + 1))
           /\ Symbol("data", j + 1) \in Symbols
<1>1. Data(j, j + 1) = <<Symbol("data", j + 1)>> /\ Symbol("data", j + 1) \in Symbols
  BY DEF Data, Symbol, Symbols, Kinds
<1>2. Data(i, j) \o Data(j, j + 1) = Data(i, j + 1)
  <2>1. j + 1 \in Nat /\ j <= j + 1
    OBVIOUS
  <2> QED BY <2>1, DataConcat
<1>3. Append(Data(i, j), Symbol("data", j + 1)) = Data(i, j) \o <<Symbol("data", j + 1)>>
  BY <1>1, DataType, AppendIsConcat DEF Text, Symbols
<1> QED
  BY <1>1, <1>2, <1>3

LEMMA StartLineType ==
    ASSUME NEW m \in Messages
    PROVE  StartLine(m) \in Seq(Text)
<1>1. m.line \in Text
  BY MessageReaderAssumption
<1>2. /\ <<Symbol("version", 0)>> \in Text /\ Sp \in Text /\ <<Symbol("code", 0)>> \in Text
  BY TextOne DEF Sp, Symbol, Symbols, Kinds
<1>3. m.line \o Crlf \in Text
  BY <1>1, CrlfType, TextConcat
<1> QED
  BY <1>1, <1>2, <1>3, CrlfType DEF StartLine, RequestLine, StatusLine

LEMMA HeadersType ==
    ASSUME NEW m \in Messages
    PROVE  Headers(m) \in Seq(Text)
<1>1. m.headers \in Seq(Text)
  BY MessageReaderAssumption
<1>2. ASSUME NEW i \in DOMAIN m.headers PROVE HeaderLine(i, m.headers[i]) \in Seq(Text)
  <2>1. i \in 1 .. Len(m.headers) /\ i \in Nat
    BY <1>1, LenProperties
  <2>2. m.headers[i] \in Text
    BY <2>1, <1>1, ElementOfSeq
  <2>3. <<Symbol("name", i)>> \in Text /\ <<Symbol("splitter", i)>> \in Text
    BY <2>1, TextOne DEF Symbol, Symbols, Kinds
  <2> QED BY <2>2, <2>3, CrlfType DEF HeaderLine
<1> DEFINE lines == [i \in DOMAIN m.headers |-> HeaderLine(i, m.headers[i])]
<1>3. lines \in Seq(Seq(Text))
  <2>1. DOMAIN m.headers = 1 .. Len(m.headers) /\ Len(m.headers) \in Nat
    BY <1>1, LenProperties
  <2>2. lines \in [1 .. Len(m.headers) -> Seq(Text)]
    BY <1>2, <2>1
  <2> QED BY <2>1, <2>2
<1>4. FlattenSeq(lines) \in Seq(Text)
  <2> HIDE DEF lines
  <2> QED BY <1>3, FlattenType
<1> QED
  BY <1>4 DEF Headers

(* A section without empty pieces is read to its end.                      *)
LEMMA SectionWhole ==
    ASSUME NEW section \in Seq(Text), \A i \in 1 .. Len(section) : section[i] # <<>>
    PROVE  FlattenSeq(section) = SectionText(section)
<1>1. CASE Len(section) = 0
  <2>1. section = <<>>
    BY <1>1, EmptySeq
  <2>2. FlattenSeq(section) = section
    BY <1>1 DEF FlattenSeq
  <2> QED BY <2>1, <2>2, SectionNone
<1>2. CASE Len(section) # 0
  <2>1. Len(section) \in Nat /\ Len(section) - 1 \in Nat /\ Len(section) = (Len(section) - 1) + 1
    BY <1>2, LenProperties
  <2>2. PICK N \in Nat : Len(section) = N + 1
    BY <2>1
  <2>3. section \in [1 .. N + 1 -> Text]
    BY <2>2, LenProperties
  <2> DEFINE f == CHOOSE h : Flattens(h, section, N + 1)
  <2>4. Flattens(f, section, N + 1)
    BY <2>3, FlattenRuns DEF Text
  <2>5. FlattenSeq(section) = f[N + 1]
    BY <1>2, <2>2 DEF FlattenSeq, Flattens
  <2>6. PICK from \in [1 .. (N + 1) + 1 -> Text] :
            Section(from, section, N + 1) /\ SectionText(section) = from[1]
    BY <2>2, SectionTextIs
  <2> HIDE DEF f
  <2>7. \A i \in 1 .. N + 1 : f[i] = IF i = 1 THEN section[i] ELSE f[i - 1] \o section[i]
    BY <2>4 DEF Flattens
  <2>8. \A i \in 1 .. N + 1 : from[i] = section[i] \o from[i + 1]
    BY <2>2, <2>6 DEF Section
  <2> DEFINE P(k) == f[k + 1] \in Text /\ f[k + 1] \o from[k + 2] = from[1]
             S == {k \in Nat : k <= N => P(k)}
  <2>9. P(0)
    <3>1. 1 \in 1 .. N + 1 /\ 0 + 1 = 1 /\ 0 + 2 = 2 /\ 1 + 1 = 2
      OBVIOUS
    <3>2. f[1] = section[1] /\ section[1] \in Text
      BY <3>1, <2>7, <2>3
    <3>3. from[1] = section[1] \o from[2]
      BY <3>1, <2>8
    <3> QED BY <3>1, <3>2, <3>3
  <2>10. ASSUME NEW k \in Nat, P(k), k + 1 <= N PROVE P(k + 1)
    <3> DEFINE i == k + 2
    <3>1. i \in 1 .. N + 1 /\ i # 1 /\ i - 1 = k + 1 /\ (k + 1) + 1 = i /\ (k + 1) + 2 = i + 1
          /\ i + 1 \in 1 .. (N + 1) + 1
      BY <2>10
    <3>2. f[k + 1] \in Text /\ f[k + 1] \o from[i] = from[1]
      BY <2>10
    <3> HIDE DEF i
    <3>3. f[i] = f[k + 1] \o section[i] /\ section[i] \in Text /\ from[i + 1] \in Text
      BY <3>1, <2>7, <2>3, <2>6
    <3>4. from[i] = section[i] \o from[i + 1]
      BY <3>1, <2>8
    <3>5. (f[k + 1] \o section[i]) \o from[i + 1] = f[k + 1] \o (section[i] \o from[i + 1])
      BY ONLY <3>2, <3>3, TextAssociative, ZenonT(30)
    <3>6. f[i] \in Text /\ f[i] \o from[i + 1] = from[1]
      BY <3>2, <3>3, <3>4, <3>5, TextConcat
    <3> QED BY <3>1, <3>6
  <2>11. N \in S
    <3> HIDE DEF P
    <3>1. 0 \in S
      BY <2>9
    <3>2. ASSUME NEW k \in Nat, k \in S PROVE k + 1 \in S
      <4> SUFFICES ASSUME k + 1 <= N PROVE P(k + 1)
        OBVIOUS
      <4>1. P(k)
        BY <3>2
      <4> QED BY <2>10, <4>1, Zenon
    <3> HIDE DEF S
    <3>3. Nat \subseteq S
      BY <3>1, <3>2, SetInduction
    <3> QED BY <3>3
  <2>12. f[N + 1] \in Text /\ f[N + 1] \o from[N + 2] = from[1]
    <3>1. P(N)
      <4> HIDE DEF P
      <4> QED BY <2>11
    <3> QED BY <3>1
  <2>13. from[N + 2] = <<>>
    <3>1. (N + 1) + 1 = N + 2
      OBVIOUS
    <3> QED BY <3>1, <2>6 DEF Section
  <2>14. f[N + 1] \o <<>> = f[N + 1]
    BY <2>12, ConcatEmptySeq DEF Text
  <2> QED BY <2>5, <2>6, <2>12, <2>13, <2>14
<1> QED
  BY <1>1, <1>2

(* So all of the head is read where no piece is empty.                     *)
LEMMA HeadWhole ==
    ASSUME NoEmptyPiece, NEW m \in Messages
    PROVE  HeadOf(m) = HeadRead(m)
<1>1. ASSUME NEW section \in Seq(Text), <<>> \notin Range(section)
      PROVE  FlattenSeq(section) = SectionText(section)
  <2>1. \A i \in 1 .. Len(section) : section[i] # <<>>
    BY <1>1, LenProperties DEF Range
  <2> QED BY <2>1, SectionWhole
<1>2. /\ <<>> \notin Range(StartLine(m)) /\ <<>> \notin Range(Headers(m))
      /\ StartLine(m) \in Seq(Text) /\ Headers(m) \in Seq(Text)
  BY StartLineType, HeadersType DEF NoEmptyPiece
<1>3. HeadOf(m) = FlattenSeq(StartLine(m)) \o FlattenSeq(Headers(m)) \o Crlf
  BY DEF HeadOf, Heads
<1> QED
  BY <1>1, <1>2, <1>3 DEF HeadRead

(* A chunk, as its reader yields it: the size and a CRLF, the data and a   *)
(* CRLF.                                                                   *)
SizeText(n) == <<Symbol("size", n)>> \o Crlf

LEMMA SizeType ==
    ASSUME NEW n \in Nat
    PROVE  /\ Symbol("size", n) \in Symbols /\ Symbol("size", n)[1] = "size" /\ Symbol("size", n)[2] = n
           /\ <<Symbol("size", n)>> \in Text /\ SizeText(n) \in Text
<1>1. Symbol("size", n) \in Symbols /\ Symbol("size", n)[1] = "size" /\ Symbol("size", n)[2] = n
  BY DEF Symbol, Symbols, Kinds
<1> QED
  BY <1>1, TextOne, CrlfType, TextConcat DEF SizeText

LEMMA SectionOne ==
    ASSUME NEW p \in Text
    PROVE  <<p>> \in Seq(Text) /\ SectionText(<<p>>) = p
<1>1. <<p>> \in Seq(Text) /\ <<p>> # <<>> /\ Head(<<p>>) = p /\ Tail(<<p>>) = <<>>
  OBVIOUS
<1>2. p \o <<>> = p
  BY ConcatEmptySeq DEF Text
<1> QED
  BY <1>1, <1>2, SectionCut, SectionNext, SectionNone

LEMMA ChunkText ==
    ASSUME NEW i \in Nat, NEW j \in Nat, i < j
    PROVE  /\ Chunk(i, j) \in Seq(Text)
           /\ SectionText(Chunk(i, j)) = SizeText(j - i) \o (Data(i, j) \o Crlf)
<1> DEFINE s == <<Symbol("size", j - i)>>
           d == Data(i, j)
<1>1. s \in Text /\ s # <<>>
  BY SizeType, TextOne
<1>2. d \in Text /\ d # <<>>
  BY DataType, EmptySeq
<1>3. Chunk(i, j) = <<s, Crlf, d, Crlf>>
  BY DEF Chunk
<1> HIDE DEF s, d
<1>4. /\ <<s, Crlf, d, Crlf>> \in Seq(Text) /\ Head(<<s, Crlf, d, Crlf>>) = s
      /\ Tail(<<s, Crlf, d, Crlf>>) = <<Crlf, d, Crlf>> /\ <<s, Crlf, d, Crlf>> # <<>>
  BY <1>1, <1>2, CrlfType
<1>5. /\ <<Crlf, d, Crlf>> \in Seq(Text) /\ Head(<<Crlf, d, Crlf>>) = Crlf
      /\ Tail(<<Crlf, d, Crlf>>) = <<d, Crlf>> /\ <<Crlf, d, Crlf>> # <<>>
  BY <1>1, <1>2, CrlfType
<1>6. /\ <<d, Crlf>> \in Seq(Text) /\ Head(<<d, Crlf>>) = d
      /\ Tail(<<d, Crlf>>) = <<Crlf>> /\ <<d, Crlf>> # <<>>
  BY <1>1, <1>2, CrlfType
<1>7. SectionText(<<d, Crlf>>) = d \o Crlf
  BY <1>2, <1>6, SectionNext, SectionOne, CrlfType
<1>8. SectionText(<<Crlf, d, Crlf>>) = Crlf \o (d \o Crlf)
  BY <1>5, <1>7, SectionNext, CrlfType
<1>9. SectionText(<<s, Crlf, d, Crlf>>) = s \o (Crlf \o (d \o Crlf))
  BY <1>1, <1>4, <1>8, SectionNext
<1>10. s \o (Crlf \o (d \o Crlf)) = (s \o Crlf) \o (d \o Crlf)
  <2>1. d \o Crlf \in Text
    BY <1>2, CrlfType, TextConcat
  <2> QED BY <2>1, <1>1, CrlfType, TextAssociative, ZenonT(30)
<1> QED
  BY <1>3, <1>4, <1>9, <1>10 DEF SizeText, s, d

LEMMA LastChunkText ==
    LastChunk \in Seq(Text) /\ SectionText(LastChunk) = SizeText(0) \o Crlf
<1>1. (<<Symbol("size", 0)>> \o Crlf) \o Crlf \in Text
  BY SizeType, CrlfType, TextConcat DEF SizeText
<1> QED
  BY <1>1, SectionOne DEF LastChunk, SizeText

(* What a receiver makes of a chunk.                                       *)
State(e, l, d) == [expects |-> e, left |-> l, data |-> d]

LEMMA StateType ==
    ASSUME NEW e \in {"size", "sizeEnd", "data", "last", "nothing", "malformed"},
           NEW l \in Nat, NEW d \in Text
    PROVE  /\ State(e, l, d) \in Receiver
           /\ State(e, l, d).expects = e /\ State(e, l, d).left = l /\ State(e, l, d).data = d
<1>1. State(e, l, d) \in Receiver
  BY DEF State, Receiver
<1>2. State(e, l, d).expects = e /\ State(e, l, d).left = l /\ State(e, l, d).data = d
  BY DEF State
<1> QED
  BY <1>1, <1>2

(* The steps of a receiver, by what it expects.                            *)
LEMMA ReceiveFrom ==
    ASSUME NEW l \in Nat, NEW d \in Text
    PROVE  /\ \A n \in Nat : Receive(Symbol("size", n))[State("size", l, d)] = State("sizeEnd", n, d)
           /\ Receive(Crlf[1])[State("sizeEnd", l, d)] = State(IF l = 0 THEN "last" ELSE "data", l, d)
           /\ l > 0 => \A x \in Symbols :
                    Receive(x)[State("data", l, d)] = State("data", l - 1, Append(d, x))
           /\ l = 0 => Receive(Crlf[1])[State("data", l, d)] = State("size", l, d)
           /\ Receive(Crlf[1])[State("last", l, d)] = State("nothing", l, d)
<1>1. \A n \in Nat : Receive(Symbol("size", n))[State("size", l, d)] = State("sizeEnd", n, d)
  <2> SUFFICES ASSUME NEW n \in Nat
               PROVE  Receive(Symbol("size", n))[State("size", l, d)] = State("sizeEnd", n, d)
    OBVIOUS
  <2>1. State("size", l, d) \in Receiver /\ State("size", l, d).expects = "size"
    BY StateType
  <2>2. Receive(Symbol("size", n))[State("size", l, d)]
            = State("sizeEnd", Symbol("size", n)[2], State("size", l, d).data)
    BY <2>1, SizeType, ReceiveSize DEF State
  <2>3. State("size", l, d).data = d
    BY StateType
  <2> QED BY <2>2, <2>3, SizeType
<1>2. Receive(Crlf[1])[State("sizeEnd", l, d)] = State(IF l = 0 THEN "last" ELSE "data", l, d)
  <2>1. /\ State("sizeEnd", l, d) \in Receiver
        /\ State("sizeEnd", l, d).expects = "sizeEnd" /\ State("sizeEnd", l, d).left = l
    BY StateType
  <2>2. Receive(Crlf[1])[State("sizeEnd", l, d)]
            = [State("sizeEnd", l, d) EXCEPT !.expects = IF l = 0 THEN "last" ELSE "data"]
    BY <2>1, ReceiveSizeEnd
  <2>3. \A f : [State("sizeEnd", l, d) EXCEPT !.expects = f] = State(f, l, d)
    BY DEF State
  <2> QED BY <2>2, <2>3
<1>3. ASSUME l > 0, NEW x \in Symbols
      PROVE  Receive(x)[State("data", l, d)] = State("data", l - 1, Append(d, x))
  <2>1. /\ State("data", l, d) \in Receiver /\ State("data", l, d).expects = "data"
        /\ State("data", l, d).left = l /\ State("data", l, d).data = d
    BY StateType
  <2>2. Receive(x)[State("data", l, d)]
            = State("data", State("data", l, d).left - 1, Append(State("data", l, d).data, x))
    BY <2>1, <1>3, ReceiveData DEF State
  <2> QED BY <2>1, <2>2
<1>4. ASSUME l = 0 PROVE Receive(Crlf[1])[State("data", l, d)] = State("size", l, d)
  <2>1. /\ State("data", l, d) \in Receiver /\ State("data", l, d).expects = "data"
        /\ State("data", l, d).left = 0
    BY StateType, <1>4
  <2>2. Receive(Crlf[1])[State("data", l, d)] = [State("data", l, d) EXCEPT !.expects = "size"]
    BY <2>1, ReceiveDataEnd
  <2>3. [State("data", l, d) EXCEPT !.expects = "size"] = State("size", l, d)
    BY DEF State
  <2> QED BY <2>2, <2>3
<1>5. Receive(Crlf[1])[State("last", l, d)] = State("nothing", l, d)
  <2>1. State("last", l, d) \in Receiver /\ State("last", l, d).expects = "last"
    BY StateType
  <2>2. Receive(Crlf[1])[State("last", l, d)] = [State("last", l, d) EXCEPT !.expects = "nothing"]
    BY <2>1, ReceiveLast
  <2>3. [State("last", l, d) EXCEPT !.expects = "nothing"] = State("nothing", l, d)
    BY DEF State
  <2> QED BY <2>2, <2>3
<1> QED
  BY <1>1, <1>2, <1>3, <1>4, <1>5

LEMMA ReceivedOne ==
    ASSUME NEW t \in Text, NEW x \in Symbols
    PROVE  t \o <<x>> \in Text /\ Received(t \o <<x>>) = Receive(x)[Received(t)]
<1>1. Append(t, x) = t \o <<x>>
  BY AppendIsConcat DEF Text, Symbols
<1> QED
  BY <1>1, ReceivedAppend

LEMMA ReceivedCrlf ==
    ASSUME NEW t \in Text
    PROVE  t \o Crlf \in Text /\ Received(t \o Crlf) = Receive(Crlf[1])[Received(t)]
  BY CrlfType, ReceivedOne

(* The size says how much data follows; that much makes the receiver       *)
(* expect the next size, and 0 the end.                                    *)
LEMMA ReceivedSize ==
    ASSUME NEW t \in Text, NEW l \in Nat, NEW d \in Text, Received(t) = State("size", l, d),
           NEW n \in Nat
    PROVE  /\ t \o SizeText(n) \in Text
           /\ Received(t \o SizeText(n)) = State(IF n = 0 THEN "last" ELSE "data", n, d)
<1> DEFINE s == Symbol("size", n)
<1>1. s \in Symbols /\ <<s>> \in Text
  BY SizeType
<1>2. t \o <<s>> \in Text /\ Received(t \o <<s>>) = State("sizeEnd", n, d)
  BY <1>1, ReceivedOne, ReceiveFrom
<1>3. /\ (t \o <<s>>) \o Crlf \in Text
      /\ Received((t \o <<s>>) \o Crlf) = State(IF n = 0 THEN "last" ELSE "data", n, d)
  BY <1>2, CrlfType, ReceivedOne, ReceiveFrom
<1>4. (t \o <<s>>) \o Crlf = t \o SizeText(n)
  BY <1>1, CrlfType, TextAssociative, ZenonT(30) DEF SizeText
<1> QED
  BY <1>3, <1>4

LEMMA ReceivedData ==
    ASSUME NEW t \in Text, NEW i \in Nat, NEW j \in Nat, i <= j,
           Received(t) = State("data", j - i, Data(0, i))
    PROVE  t \o Data(i, j) \in Text /\ Received(t \o Data(i, j)) = State("data", 0, Data(0, j))
<1> DEFINE P(k) == /\ t \o Data(i, i + k) \in Text
                   /\ Received(t \o Data(i, i + k)) = State("data", j - (i + k), Data(0, i + k))
           S == {k \in Nat : i + k <= j => P(k)}
<1>1. P(0)
  <2>1. i + 0 = i /\ Data(i, i) = <<>>
    BY DataNone
  <2>2. t \o <<>> = t
    BY ConcatEmptySeq DEF Text
  <2> QED BY <2>1, <2>2
<1>2. ASSUME NEW k \in Nat, P(k), i + (k + 1) <= j PROVE P(k + 1)
  <2> DEFINE m == i + k
             x == Symbol("data", m + 1)
  <2>1. m \in Nat /\ i <= m /\ i + (k + 1) = m + 1 /\ j - m \in Nat /\ j - m > 0 /\ (j - m) - 1 = j - (m + 1)
    BY <1>2
  <2>2. t \o Data(i, m) \in Text /\ Received(t \o Data(i, m)) = State("data", j - m, Data(0, m))
    BY <1>2
  <2> HIDE DEF m
  <2>3. Data(i, m + 1) = Append(Data(i, m), x) /\ x \in Symbols /\ Data(i, m) \in Text
    BY <2>1, DataAppend, DataType
  <2>4. Data(0, m + 1) = Append(Data(0, m), x) /\ Data(0, m) \in Text
    <3>1. 0 \in Nat /\ 0 <= m
      BY <2>1
    <3> QED BY <2>1, <3>1, DataAppend, DataType
  <2> HIDE DEF x
  <2>5. t \o Data(i, m + 1) = Append(t \o Data(i, m), x)
    BY <2>3, ConcatAppend
  <2>6. /\ t \o Data(i, m + 1) \in Text
        /\ Received(t \o Data(i, m + 1)) = Receive(x)[State("data", j - m, Data(0, m))]
    BY <2>2, <2>3, <2>5, ReceivedAppend
  <2>7. Receive(x)[State("data", j - m, Data(0, m))] = State("data", (j - m) - 1, Append(Data(0, m), x))
    BY <2>1, <2>3, <2>4, ReceiveFrom
  <2> QED BY <2>1, <2>4, <2>6, <2>7
<1>3. Nat \subseteq S
  <2> HIDE DEF P
  <2>1. 0 \in S
    BY <1>1
  <2>2. ASSUME NEW k \in Nat, k \in S PROVE k + 1 \in S
    <3> SUFFICES ASSUME i + (k + 1) <= j PROVE P(k + 1)
      OBVIOUS
    <3>1. i + k <= j
      OBVIOUS
    <3> QED BY <1>2, <2>2, <3>1
  <2> HIDE DEF S
  <2> QED BY <2>1, <2>2, SetInduction
<1>4. j - i \in Nat /\ i + (j - i) = j /\ j - j = 0
  OBVIOUS
<1>5. P(j - i)
  <2> HIDE DEF P
  <2> QED BY <1>3, <1>4
<1> QED
  BY <1>4, <1>5

LEMMA ReceivedChunk ==
    ASSUME NEW t \in Text, NEW i \in Nat, NEW j \in Nat, i < j,
           Received(t) = State("size", 0, Data(0, i))
    PROVE  /\ t \o SectionText(Chunk(i, j)) \in Text
           /\ Received(t \o SectionText(Chunk(i, j))) = State("size", 0, Data(0, j))
<1> DEFINE n == j - i
           u == t \o SizeText(n)
           v == u \o Data(i, j)
<1>1. n \in Nat /\ n # 0 /\ 0 \in Nat /\ Data(0, i) \in Text /\ Data(0, j) \in Text /\ Data(i, j) \in Text
  <2>1. n \in Nat /\ n # 0 /\ 0 \in Nat /\ 0 <= i /\ 0 <= j /\ i <= j
    OBVIOUS
  <2> QED BY <2>1, DataType
<1>2. u \in Text /\ Received(u) = State("data", n, Data(0, i)) /\ SizeText(n) \in Text
  <2> HIDE DEF n
  <2>1. Received(u) = State(IF n = 0 THEN "last" ELSE "data", n, Data(0, i)) /\ u \in Text
    BY <1>1, ReceivedSize
  <2> QED BY <1>1, <2>1, SizeType
<1>3. v \in Text /\ Received(v) = State("data", 0, Data(0, j))
  <2> HIDE DEF u
  <2>1. i <= j
    OBVIOUS
  <2> QED BY <1>2, <2>1, ReceivedData
<1>4. v \o Crlf \in Text /\ Received(v \o Crlf) = State("size", 0, Data(0, j))
  <2> HIDE DEF v
  <2> QED BY <1>1, <1>3, ReceivedCrlf, ReceiveFrom
<1>5. v \o Crlf = t \o (SizeText(n) \o (Data(i, j) \o Crlf))
  <2>1. Data(i, j) \o Crlf \in Text
    BY <1>1, CrlfType, TextConcat
  <2>2. v \o Crlf = u \o (Data(i, j) \o Crlf)
    <3>1. v = u \o Data(i, j)
      BY <1>2
    <3>2. u \in Text /\ Data(i, j) \in Text /\ Crlf \in Text
      BY <1>1, <1>2, CrlfType, TextConcat
    <3> HIDE DEF u, v
    <3>3. (u \o Data(i, j)) \o Crlf = u \o (Data(i, j) \o Crlf)
      BY ONLY <3>2, TextAssociative, ZenonT(30)
    <3> QED BY ONLY <3>1, <3>3
  <2> QED BY <2>1, <2>2, <1>2, TextAssociative, ZenonT(30)
<1> QED
  BY <1>4, <1>5, ChunkText

LEMMA ReceivedLastChunk ==
    ASSUME NEW t \in Text, NEW d \in Text, Received(t) = State("size", 0, d)
    PROVE  /\ t \o SectionText(LastChunk) \in Text
           /\ Received(t \o SectionText(LastChunk)) = State("nothing", 0, d)
<1> DEFINE u == t \o SizeText(0)
<1>1. u \in Text /\ Received(u) = State("last", 0, d) /\ SizeText(0) \in Text
  <2>1. 0 \in Nat
    OBVIOUS
  <2>2. u \in Text /\ Received(u) = State(IF 0 = 0 THEN "last" ELSE "data", 0, d)
    BY <2>1, ReceivedSize
  <2> QED BY <2>1, <2>2, SizeType
<1>2. u \o Crlf \in Text /\ Received(u \o Crlf) = State("nothing", 0, d)
  <2> HIDE DEF u
  <2> QED BY <1>1, ReceivedCrlf, ReceiveFrom
<1>3. u \o Crlf = t \o (SizeText(0) \o Crlf)
  BY <1>1, CrlfType, TextAssociative, ZenonT(30)
<1> QED
  BY <1>2, <1>3, LastChunkText
-----------------------------------------------------------------------------
(* What was taken from the reader, what it still holds of its section, and *)
(* both: all that was read of the message.                                 *)
Pending == IF copy = "Writing" THEN span ELSE buffer
Taken == output \o Pending
Held == current \o SectionText(pieces)
Stream == Taken \o Held

StartText == SectionText(StartLine(message))
HeadersText == SectionText(Headers(message))

(* How a body in chunks looks to its receiver at the end of the stream.    *)
BodyStands(r) ==
    /\ Stream = HeadRead(message) \o BehindHead(Stream)
    /\ Received(BehindHead(Stream)) = r

(* The stream, by the reader that is asked next.                           *)
StageInv ==
    \/ stage = "start" /\ bodyRead = 0 /\ Stream = StartText
    \/ stage = "headers" /\ bodyRead = 0 /\ Stream = StartText \o HeadersText
    \/ stage = "terminator" /\ bodyRead = 0 /\ Stream = HeadRead(message)
    \/ /\ stage = "body" /\ message.body = "length"
       /\ current = <<>> /\ pieces = <<>>
       /\ Stream = HeadRead(message) \o Data(0, bodyRead)
    \/ /\ stage = "chunked" /\ message.body = "chunked"
       /\ BodyStands([expects |-> "size", left |-> 0, data |-> Data(0, bodyRead)])
    \/ /\ stage = "lastChunk" /\ message.body = "chunked" /\ bodyRead = message.size
       /\ BodyStands([expects |-> "nothing", left |-> 0, data |-> Data(0, bodyRead)])

(* The end of file is seen where nothing is left to be read.               *)
EofInv ==
    /\ readFinished =>
        /\ copy = "Writing" /\ Held = <<>> /\ bodyRead = message.size
        /\ \/ stage = "terminator" /\ message.body = "none"
           \/ stage = "body"
           \/ stage = "lastChunk"
    /\ pc = "done" => readFinished /\ span = <<>>

(* The reader is always given some room.                                   *)
BufferInv == copy = "Reading" => Len(buffer) < BufferSize

(* The inductive invariant.                                                *)
CopyInv == TypeOK /\ BufferInv /\ StageInv /\ EofInv
-----------------------------------------------------------------------------
(* A text and a beginning of it.                                           *)
LEMMA SplitText ==
    ASSUME NEW t \in Text, NEW n \in 0 .. Len(t)
    PROVE  /\ SubSeq(t, 1, n) \in Text /\ Len(SubSeq(t, 1, n)) = n
           /\ SubSeq(t, n + 1, Len(t)) \in Text /\ Len(SubSeq(t, n + 1, Len(t))) = Len(t) - n
           /\ SubSeq(t, 1, n) \o SubSeq(t, n + 1, Len(t)) = t
<1>1. t \in Seq(Symbols) /\ Len(t) \in Nat
  BY LenProperties DEF Text, Symbols
<1>2. \A i \in 1 .. Len(t) : t[i] \in Symbols
  BY <1>1, ElementOfSeq
<1>3. SubSeq(t, 1, n) \in Text /\ Len(SubSeq(t, 1, n)) = n
  <2>1. \A i \in 1 .. n : t[i] \in Symbols
    BY <1>1, <1>2
  <2>2. SubSeq(t, 1, n) \in Seq(Symbols) /\ Len(SubSeq(t, 1, n)) = IF 1 <= n THEN n - 1 + 1 ELSE 0
    BY <1>1, <2>1, SubSeqProperties
  <2> QED BY <1>1, <2>2 DEF Text, Symbols
<1>4. /\ SubSeq(t, n + 1, Len(t)) \in Text
      /\ Len(SubSeq(t, n + 1, Len(t))) = Len(t) - n
  <2>1. \A i \in n + 1 .. Len(t) : t[i] \in Symbols
    BY <1>1, <1>2
  <2>2. /\ SubSeq(t, n + 1, Len(t)) \in Seq(Symbols)
        /\ Len(SubSeq(t, n + 1, Len(t))) = IF n + 1 <= Len(t) THEN Len(t) - (n + 1) + 1 ELSE 0
    BY <1>1, <2>1, SubSeqProperties
  <2> QED BY <1>1, <2>2 DEF Text, Symbols
<1>5. SubSeq(t, 1, n) \o SubSeq(t, n + 1, Len(t)) = SubSeq(t, 1, Len(t))
  <2>1. 1 \in 1 .. Len(t) + 1 /\ n \in 1 - 1 .. Len(t) /\ Len(t) \in n .. Len(t)
    BY <1>1
  <2> QED BY <1>1, <2>1, ConcatAdjacentSubSeq
<1>6. SubSeq(t, 1, Len(t)) = t
  BY <1>1, SubSeqFull
<1> QED
  BY <1>3, <1>4, <1>5, <1>6

LEMMA TextEmpty ==
    ASSUME NEW t \in Text
    PROVE  /\ t \o <<>> = t /\ <<>> \o t = t /\ <<>> \in Text
           /\ Len(t) = 0 <=> t = <<>>
  BY ConcatEmptySeq, EmptySeq DEF Text

(* s is the beginning of t; and t = s w, where s y = t z.                  *)
Begins(s, t) == \E z \in Text : t = s \o z

Between(s, t, y, z) == \E w \in Text : t = s \o w /\ y = w \o z

(* Two ways to split a text: the shorter beginning begins the longer one.  *)
LEMMA SplitTwice ==
    ASSUME NEW s \in Text, NEW y \in Text, NEW t \in Text, NEW z \in Text,
           s \o y = t \o z, Len(s) <= Len(t)
    PROVE  Between(s, t, y, z)
<1> DEFINE n == Len(s)
           w == SubSeq(t, n + 1, Len(t))
           u == SubSeq(t, 1, n)
<1>0. n \in 0 .. Len(t) /\ Len(t) \in Nat /\ Len(y) \in Nat /\ Len(z) \in Nat
  BY LenProperties DEF Text
<1>1. u \in Text /\ Len(u) = n /\ w \in Text /\ u \o w = t
  BY <1>0, SplitText
<1> HIDE DEF w, u
<1>2. s \o y = u \o (w \o z) /\ w \o z \in Text
  <2>1. u \in Text /\ w \in Text /\ u \o w = t
    BY <1>1
  <2>2. w \o z \in Text
    BY <2>1, TextConcat
  <2>3. (u \o w) \o z = u \o (w \o z)
    <3>1. u \in Text /\ w \in Text /\ z \in Text
      BY <2>1
    <3> QED BY ONLY <3>1, TextAssociative, ZenonT(60)
  <2> QED BY <2>1, <2>2, <2>3
<1>3. s = u
  <2>1. \A i \in 1 .. n : s[i] = u[i]
    <3> SUFFICES ASSUME NEW i \in 1 .. n PROVE s[i] = u[i]
      OBVIOUS
    <3>1. (s \o y)[i] = s[i]
      BY TextConcat
    <3>2. (u \o (w \o z))[i] = u[i]
      BY <1>1, <1>2, TextConcat
    <3> QED BY <3>1, <3>2, <1>2
  <2> QED BY <1>1, <2>1, SeqEqual DEF Text
<1>4. y = w \o z
  <2>1. Len(y) = Len(w \o z)
    <3>1. Len(s \o y) = Len(s) + Len(y) /\ Len(s) \in Nat
      BY TextConcat
    <3>2. Len(u \o (w \o z)) = Len(u) + Len(w \o z) /\ Len(w \o z) \in Nat
      BY <1>1, <1>2, TextConcat
    <3>3. Len(s) + Len(y) = Len(s) + Len(w \o z)
      BY <3>1, <3>2, <1>1, <1>2
    <3> QED BY <1>0, <3>1, <3>2, <3>3
  <2>2. \A i \in 1 .. Len(y) : y[i] = (w \o z)[i]
    <3> SUFFICES ASSUME NEW i \in 1 .. Len(y) PROVE y[i] = (w \o z)[i]
      OBVIOUS
    <3>1. (s \o y)[Len(s) + i] = y[i]
      <4>1. \A k \in 1 .. Len(y) : (s \o y)[Len(s) + k] = y[k]
        BY TextConcat
      <4> QED BY ONLY <4>1, i \in 1 .. Len(y)
    <3>2. \A k \in 1 .. Len(w \o z) : (u \o (w \o z))[Len(u) + k] = (w \o z)[k]
      BY <1>1, <1>2, TextConcat
    <3>3. (u \o (w \o z))[Len(u) + i] = (w \o z)[i]
      BY <3>2, <2>1
    <3> QED BY <3>1, <3>3, <1>1, <1>2
  <2> QED BY <1>2, <2>1, <2>2, SeqEqual DEF Text
<1> QED
  BY <1>1, <1>3, <1>4 DEF Between

(* What is behind the head of a text.                                      *)
LEMMA Behind ==
    ASSUME NEW h \in Text, NEW b \in Text
    PROVE  SubSeq(h \o b, Len(h) + 1, Len(h \o b)) = b
<1> DEFINE t == h \o b
           n == Len(h)
           u == SubSeq(t, 1, n)
           v == SubSeq(t, n + 1, Len(t))
<1>1. t \in Text /\ n \in 0 .. Len(t)
  BY TextConcat
<1>2. u \in Text /\ Len(u) = n /\ v \in Text /\ u \o v = t
  <2> HIDE DEF t, n
  <2> QED BY <1>1, SplitText
<1> HIDE DEF u, v
<1>3. PICK w \in Text : u = h \o w /\ b = w \o v
  <2>1. h \o b = u \o v
    BY <1>2
  <2>2. Len(h) <= Len(u)
    BY <1>1, <1>2
  <2>3. Between(h, u, b, v)
    BY <2>1, <2>2, <1>2, SplitTwice
  <2> QED BY <2>3 DEF Between
<1>4. Len(w) = 0
  <2>1. Len(u) = Len(h) + Len(w) /\ Len(w) \in Nat /\ Len(h) \in Nat
    BY <1>3, TextConcat
  <2> QED BY <2>1, <1>1, <1>2
<1>5. b = v
  BY <1>2, <1>3, <1>4, TextEmpty
<1> QED
  BY <1>5 DEF v
-----------------------------------------------------------------------------
(* The stream and its parts are texts.                                     *)
LEMMA StreamType ==
    ASSUME TypeOK
    PROVE  /\ Pending \in Text /\ Taken \in Text /\ Held \in Text /\ Stream \in Text
           /\ SectionText(pieces) \in Text
           /\ Stream = output \o (Pending \o Held) /\ Pending \o Held \in Text
<1>1. /\ buffer \in Text /\ span \in Text /\ output \in Text /\ current \in Text
      /\ pieces \in Seq(Text)
  BY DEF TypeOK
<1>2. Pending \in Text
  BY <1>1 DEF Pending
<1>3. Taken \in Text
  BY <1>1, <1>2, TextConcat DEF Taken
<1>4. SectionText(pieces) \in Text
  BY <1>1, SectionTextType
<1>5. Held \in Text
  BY <1>1, <1>4, TextConcat DEF Held
<1>6. Stream \in Text /\ Pending \o Held \in Text
  BY <1>2, <1>3, <1>5, TextConcat DEF Stream
<1>7. Stream = output \o (Pending \o Held)
  <2>1. (output \o Pending) \o Held = output \o (Pending \o Held)
    <3>1. output \in Text /\ Pending \in Text /\ Held \in Text
      BY <1>1, <1>2, <1>5
    <3> QED BY ONLY <3>1, TextAssociative, ZenonT(30)
  <2> QED BY <2>1 DEF Stream, Taken
<1> QED
  BY <1>2, <1>3, <1>4, <1>5, <1>6, <1>7

LEMMA HeadType ==
    ASSUME NEW m \in Messages
    PROVE  /\ StartLine(m) \in Seq(Text) /\ Headers(m) \in Seq(Text)
           /\ SectionText(StartLine(m)) \in Text /\ SectionText(Headers(m)) \in Text
           /\ SectionText(StartLine(m)) \o SectionText(Headers(m)) \in Text
           /\ HeadRead(m) \in Text
<1>1. StartLine(m) \in Seq(Text) /\ Headers(m) \in Seq(Text)
  BY StartLineType, HeadersType
<1>2. SectionText(StartLine(m)) \in Text /\ SectionText(Headers(m)) \in Text
  BY <1>1, SectionTextType
<1>3. SectionText(StartLine(m)) \o SectionText(Headers(m)) \in Text
  BY <1>2, TextConcat
<1>4. HeadRead(m) \in Text
  BY <1>3, CrlfType, TextConcat DEF HeadRead
<1> QED
  BY <1>1, <1>2, <1>3, <1>4

(* What is read into the buffer is taken.                                  *)
BufferType ==
    /\ copy \in {"Reading", "Writing"}
    /\ buffer \in Text /\ Len(buffer) <= BufferSize
    /\ span \in Text

LEMMA TextTaken ==
    ASSUME TypeOK, copy = "Reading", NEW text \in Text,
           Len(buffer) + Len(text) <= BufferSize, ReadText(text)
    PROVE  Taken' = Taken \o text /\ BufferType' /\ BufferInv'
<1>1. buffer \in Text /\ span \in Text /\ output \in Text /\ output' = output
  BY DEF TypeOK, ReadText
<1>2. /\ buffer \o text \in Text /\ Len(buffer \o text) = Len(buffer) + Len(text)
      /\ Len(buffer \o text) \in Nat /\ BufferSize \in Nat
  <2>1. Len(buffer) \in Nat /\ Len(text) \in Nat
    BY <1>1, TextConcat
  <2>2. buffer \o text \in Text /\ Len(buffer \o text) = Len(buffer) + Len(text)
    BY <1>1, TextConcat
  <2> QED BY <2>1, <2>2, IoCopyFutureAssumption
<1>3. buffer' = buffer \o text /\ Pending' = buffer \o text
  BY DEF ReadText, SwitchToWriting, Pending
<1>4. Taken' = Taken \o text
  <2>1. output \o (buffer \o text) = (output \o buffer) \o text
    BY <1>1, TextAssociative, ZenonT(30)
  <2> QED BY <2>1, <1>1, <1>3 DEF Taken, Pending
<1>5. BufferType'
  BY <1>1, <1>2, <1>3 DEF BufferType, ReadText, SwitchToWriting
<1>6. BufferInv'
  <2>1. CASE Len(buffer) + Len(text) = BufferSize
    BY <2>1 DEF ReadText, SwitchToWriting, BufferInv
  <2>2. CASE Len(buffer) + Len(text) # BufferSize
    BY <2>2, <1>2, <1>3 DEF BufferInv
  <2> QED BY <2>1, <2>2
<1> QED
  BY <1>4, <1>5, <1>6

(* A reader that has nothing leaves what was taken as it is.               *)
LEMMA NothingTaken ==
    ASSUME TypeOK, copy = "Reading", SwitchToWriting(buffer), output' = output
    PROVE  Taken' = Taken /\ BufferType' /\ BufferInv' /\ copy' = "Writing"
<1>1. copy' = "Writing" /\ buffer' = buffer /\ span' = buffer
  BY DEF SwitchToWriting
<1>2. Taken' = Taken
  BY <1>1 DEF Taken, Pending
<1>3. BufferType' /\ BufferInv'
  BY <1>1 DEF BufferType, BufferInv, TypeOK
<1> QED
  BY <1>1, <1>2, <1>3

(* What is read of a piece is no longer held.                              *)
LEMMA PieceTaken ==
    ASSUME TypeOK, NEW room \in Nat, ReadPiece(room)
    PROVE  /\ PieceText(room) \in Text /\ Len(PieceText(room)) <= room
           /\ current' \in Text /\ pieces' \in Seq(Text)
           /\ Held' \in Text /\ Held = PieceText(room) \o Held'
<1>1. current \in Text /\ pieces \in Seq(Text)
  BY DEF TypeOK
<1>2. Piece \in Text
  BY <1>1, HeadTailProperties DEF Piece
<1> DEFINE n == Smaller(room, Len(Piece))
<1>3. n \in 0 .. Len(Piece) /\ n <= room
  BY <1>2, TextConcat DEF Smaller
<1>4. PieceText(room) = SubSeq(Piece, 1, n) /\ current' = SubSeq(Piece, n + 1, Len(Piece))
  BY DEF ReadPiece, PieceText
<1>5. /\ PieceText(room) \in Text /\ Len(PieceText(room)) = n /\ current' \in Text
      /\ PieceText(room) \o current' = Piece
  <2> HIDE DEF n
  <2> QED BY <1>2, <1>3, <1>4, SplitText
<1>6. pieces' \in Seq(Text) /\ Piece \o SectionText(pieces') = Held
  <2>1. CASE current = <<>>
    <3>1. pieces # <<>> /\ Piece = Head(pieces) /\ Piece # <<>> /\ pieces' = Tail(pieces)
      BY <2>1 DEF ReadPiece, Piece
    <3>2. SectionText(pieces) = Head(pieces) \o SectionText(Tail(pieces))
      BY <1>1, <3>1, SectionNext
    <3>3. pieces' \in Seq(Text)
      BY <1>1, <3>1, HeadTailProperties
    <3>4. <<>> \o SectionText(pieces) = SectionText(pieces)
      BY StreamType, TextEmpty
    <3> QED BY <2>1, <3>1, <3>2, <3>3, <3>4 DEF Held
  <2>2. CASE current # <<>>
    BY <2>2, <1>1 DEF ReadPiece, Piece, Held
  <2> QED BY <2>1, <2>2
<1>7. SectionText(pieces') \in Text
  BY <1>6, SectionTextType
<1>8. Held' \in Text /\ Held' = current' \o SectionText(pieces')
  BY <1>5, <1>7, TextConcat DEF Held
<1>9. (PieceText(room) \o current') \o SectionText(pieces')
        = PieceText(room) \o (current' \o SectionText(pieces'))
  BY <1>5, <1>7, TextAssociative, ZenonT(30)
<1> QED
  BY <1>3, <1>5, <1>6, <1>8, <1>9

(* A reader whose piece is empty holds nothing: what follows an empty      *)
(* piece in its section is never read.                                     *)
LEMMA NothingHeld ==
    ASSUME TypeOK, Piece = <<>>
    PROVE  current = <<>> /\ Held = <<>> /\ Stream = Taken
<1>1. current = <<>> /\ (pieces # <<>> => Head(pieces) = <<>>)
  BY DEF Piece
<1>2. SectionText(pieces) = <<>>
  BY <1>1, SectionNone, SectionCut DEF TypeOK
<1>3. Held = <<>>
  BY <1>1, <1>2, EmptySeq DEF Held
<1> QED
  BY <1>1, <1>3, StreamType, TextEmpty DEF Stream
-----------------------------------------------------------------------------
(* Where the stream is, its stage stays true.                              *)
LEMMA SameStage ==
    ASSUME StageInv, Stream' = Stream, UNCHANGED <<message, stage, bodyRead>>,
           stage = "body" => UNCHANGED <<current, pieces>>
    PROVE  StageInv'
<1>1. StartText' = StartText /\ HeadersText' = HeadersText
  BY DEF StartText, HeadersText
<1>2. \A r : BodyStands(r) => BodyStands(r)'
  BY DEF BodyStands, BehindHead
<1> QED
  BY <1>1, <1>2 DEF StageInv

(* A section is read to its end and the next one is begun.                 *)
LEMMA SectionRead ==
    ASSUME TypeOK, Piece = <<>>, current' = <<>>, pieces' \in Seq(Text), Taken' = Taken
    PROVE  /\ Stream' = Stream \o SectionText(pieces')
           /\ Held' = SectionText(pieces') /\ Stream = Taken
<1>1. SectionText(pieces') \in Text
  BY SectionTextType
<1>2. Held' = SectionText(pieces')
  BY <1>1, TextEmpty DEF Held
<1> QED
  BY <1>2, NothingHeld DEF Stream

(* What the assumptions say of the message.                                *)
LEMMA ReaderTypes ==
    ASSUME TypeOK
    PROVE  /\ message \in Messages /\ message.size \in Nat /\ bodyRead \in Nat
           /\ bodyRead <= message.size
           /\ HeadRead(message) \in Text /\ StartText \in Text /\ HeadersText \in Text
           /\ StartText \o HeadersText \in Text
           /\ HeadRead(message) = (StartText \o HeadersText) \o Crlf
           /\ Headers(message) \in Seq(Text) /\ StartLine(message) \in Seq(Text)
           /\ message.type \in {"response", "request"}
           /\ message.body \in {"none", "length", "chunked"}
           /\ message.body = "none" => message.size = 0
           /\ Room \in Nat /\ Len(buffer) + Room = BufferSize
<1>1. message \in Messages /\ bodyRead \in 0 .. message.size
  BY DEF TypeOK
<1>2. message.size \in Nat /\ message.type \in {"response", "request"}
      /\ message.body \in {"none", "length", "chunked"}
      /\ (message.body = "none" => message.size = 0)
  BY <1>1, MessageReaderAssumption
<1>3. Room \in Nat /\ Len(buffer) + Room = BufferSize
  <2>1. Len(buffer) \in Nat /\ Len(buffer) <= BufferSize
    BY TextConcat DEF TypeOK
  <2> QED BY <2>1, IoCopyFutureAssumption DEF Room
<1> QED
  BY <1>1, <1>2, <1>3, HeadType DEF StartText, HeadersText, HeadRead

(* The section that follows continues the stream.                          *)
LEMMA NextSectionStage ==
    ASSUME TypeOK, StageInv, NextSection \/ RequestLineEnds, Taken' = Taken
    PROVE  /\ StageInv' /\ current' \in Text /\ pieces' \in Seq(Text)
           /\ UNCHANGED <<message, bodyRead, bodyReady, bodyArmed>>
           /\ stage' \in Stage
<1> USE ReaderTypes
<1>0. <<>> \in Text /\ <<>> \in Seq(Text)
  BY EmptySeq DEF Text
<1>1. ASSUME SectionEnds("start", "headers", Headers(message))
      PROVE  StageInv' /\ pieces' \in Seq(Text)
  <2>1. stage = "start" /\ stage' = "headers" /\ Piece = <<>> /\ pieces' = Headers(message)
        /\ current' = <<>> /\ UNCHANGED <<message, bodyRead>>
    BY <1>1 DEF SectionEnds
  <2>2. Stream' = Stream \o HeadersText
    BY <2>1, SectionRead DEF HeadersText
  <2>3. bodyRead = 0 /\ Stream = StartText
    BY <2>1 DEF StageInv
  <2>4. StartText' = StartText /\ HeadersText' = HeadersText
    BY <2>1 DEF StartText, HeadersText
  <2> QED BY <2>1, <2>2, <2>3, <2>4 DEF StageInv
<1>2. ASSUME SectionEnds("headers", "terminator", <<Crlf>>)
      PROVE  StageInv' /\ pieces' \in Seq(Text)
  <2>1. stage = "headers" /\ stage' = "terminator" /\ Piece = <<>> /\ pieces' = <<Crlf>>
        /\ current' = <<>> /\ UNCHANGED <<message, bodyRead>>
    BY <1>2 DEF SectionEnds
  <2>2. <<Crlf>> \in Seq(Text) /\ SectionText(<<Crlf>>) = Crlf
    BY CrlfType, SectionOne
  <2>3. Stream' = Stream \o Crlf
    BY <2>1, <2>2, SectionRead
  <2>4. bodyRead = 0 /\ Stream = StartText \o HeadersText
    BY <2>1 DEF StageInv
  <2>5. HeadRead(message') = HeadRead(message)
    BY <2>1
  <2>6. Stream' = HeadRead(message')
    BY <2>3, <2>4, <2>5
  <2> QED BY <2>1, <2>2, <2>4, <2>6 DEF StageInv
<1>3. ASSUME message.body = "length", SectionEnds("terminator", "body", <<>>)
      PROVE  StageInv' /\ pieces' \in Seq(Text)
  <2>1. stage = "terminator" /\ stage' = "body" /\ Piece = <<>> /\ pieces' = <<>>
        /\ current' = <<>> /\ UNCHANGED <<message, bodyRead>>
    BY <1>3 DEF SectionEnds
  <2>2. bodyRead = 0 /\ Stream = HeadRead(message)
    BY <2>1 DEF StageInv
  <2>3. Stream' = HeadRead(message) \o <<>>
    BY <1>0, <2>1, <2>2, SectionRead, SectionNone
  <2>4. Data(0, bodyRead') = <<>>
    BY <2>1, <2>2, DataNone
  <2>5. HeadRead(message') = HeadRead(message)
    BY <2>1
  <2> QED BY <1>0, <1>3, <2>1, <2>3, <2>4, <2>5 DEF StageInv
<1>4. ASSUME message.body = "chunked", SectionEnds("terminator", "chunked", <<>>)
      PROVE  StageInv' /\ pieces' \in Seq(Text)
  <2>1. stage = "terminator" /\ stage' = "chunked" /\ Piece = <<>> /\ pieces' = <<>>
        /\ current' = <<>> /\ UNCHANGED <<message, bodyRead>>
    BY <1>4 DEF SectionEnds
  <2>2. bodyRead = 0 /\ Stream = HeadRead(message)
    BY <2>1 DEF StageInv
  <2>3. Stream' = HeadRead(message) \o <<>>
    BY <1>0, <2>1, <2>2, SectionRead, SectionNone
  <2>4. Data(0, bodyRead') = <<>>
    BY <2>1, <2>2, DataNone
  <2>5. message' = message /\ HeadRead(message') = HeadRead(message)
    BY <2>1
  <2>6. BehindHead(Stream)' = <<>>
    BY <1>0, <2>3, <2>5, Behind DEF BehindHead
  <2>7. BodyStands([expects |-> "size", left |-> 0, data |-> Data(0, bodyRead)])'
    BY <2>3, <2>4, <2>5, <2>6, ReceivedEmpty DEF BodyStands, NothingReceived
  <2> QED BY <1>0, <1>4, <2>1, <2>7 DEF StageInv
<1>5. /\ current' = <<>> /\ stage' \in Stage
      /\ UNCHANGED <<message, bodyRead, bodyReady, bodyArmed>>
  BY DEF NextSection, RequestLineEnds, SectionEnds, Stage
<1>6. StageInv' /\ pieces' \in Seq(Text)
  BY <1>1, <1>2, <1>3, <1>4 DEF NextSection, RequestLineEnds
<1> QED
  BY <1>0, <1>5, <1>6
-----------------------------------------------------------------------------
(* The invariant holds at first, and no step breaks it: one lemma for      *)
(* each.                                                                   *)
LEMMA CopyInit == Init => CopyInv
<1> SUFFICES ASSUME Init PROVE CopyInv
  OBVIOUS
<1>0. /\ message \in Messages /\ message.size \in Nat /\ bodyRead = 0
      /\ 0 \in 0 .. message.size
      /\ BufferSize \in Nat \ {0} /\ <<>> \in Text /\ Len(<<>>) = 0
  <2>1. message \in Messages /\ message.size \in Nat
    BY MessageReaderAssumption DEF Init, ReaderInit
  <2> QED BY <2>1, IoCopyFutureAssumption, EmptySeq DEF Init, ReaderInit, Text
<1>1. TypeOK
  <2>1. pieces \in Seq(Text)
    BY <1>0, StartLineType DEF Init, ReaderInit
  <2>2. /\ bodyReady \in BOOLEAN /\ bodyArmed \in BOOLEAN /\ writable \in BOOLEAN
        /\ current = <<>> /\ stage = "start"
    BY DEF Init, ReaderInit
  <2>3. /\ pc = "waiting" /\ woken = TRUE /\ copy = "Reading" /\ buffer = <<>> /\ span = <<>>
        /\ readFinished = FALSE /\ bytesWritten = 0 /\ output = <<>> /\ armed = FALSE
    BY DEF Init
  <2>4. Len(buffer) <= BufferSize
    BY <1>0, <2>3
  <2> QED BY <1>0, <2>1, <2>2, <2>3, <2>4 DEF TypeOK, Stage
<1>2. BufferInv
  BY <1>0 DEF Init, BufferInv
<1>3. StageInv
  <2>1. Stream = (<<>> \o <<>>) \o (<<>> \o StartText)
    BY DEF Stream, Taken, Held, Pending, StartText, Init, ReaderInit
  <2>2. Stream = StartText
    BY <2>1, <1>1, ReaderTypes, TextEmpty, <1>0
  <2> QED BY <2>2 DEF StageInv, Init, ReaderInit
<1>4. EofInv
  BY DEF EofInv, Init
<1> QED
  BY <1>1, <1>2, <1>3, <1>4 DEF CopyInv

LEMMA PieceStep == CopyInv /\ CopyPiece => CopyInv'
<1> SUFFICES ASSUME CopyInv, CopyPiece PROVE CopyInv'
  OBVIOUS
<1>1. TypeOK /\ BufferInv /\ StageInv /\ EofInv /\ ReadPiece(Room) /\ ReadText(PieceText(Room))
      /\ copy = "Reading" /\ pc = "running" /\ woken' = TRUE
  BY DEF CopyInv, CopyPiece, Reads
<1>2. /\ PieceText(Room) \in Text /\ Len(PieceText(Room)) <= Room
      /\ current' \in Text /\ pieces' \in Seq(Text)
      /\ Held' \in Text /\ Held = PieceText(Room) \o Held'
  BY <1>1, ReaderTypes, PieceTaken
<1>3. Taken' = Taken \o PieceText(Room) /\ BufferType' /\ BufferInv'
  <2>1. Len(buffer) + Len(PieceText(Room)) <= BufferSize
    <3>1. Len(buffer) \in Nat /\ Len(PieceText(Room)) \in Nat
      BY <1>1, <1>2, TextConcat DEF TypeOK
    <3> QED BY <1>1, <1>2, <3>1, ReaderTypes, IoCopyFutureAssumption
  <2> QED BY <1>1, <1>2, <2>1, TextTaken
<1>4. Stream' = Stream
  <2>1. (Taken \o PieceText(Room)) \o Held' = Taken \o (PieceText(Room) \o Held')
    <3>1. Taken \in Text
      BY <1>1, StreamType
    <3> QED BY <1>2, <3>1, TextAssociative, ZenonT(30)
  <2> QED BY <1>2, <1>3, <2>1 DEF Stream
<1>5. UNCHANGED <<message, stage, bodyRead, bodyReady, bodyArmed>> /\ stage # "body"
  BY <1>1 DEF ReadPiece, InPieces
<1>6. UNCHANGED <<pc, readFinished, bytesWritten, output, writable, armed>>
  BY <1>1 DEF ReadText
<1>7. StageInv'
  BY <1>1, <1>4, <1>5, SameStage
<1>8. TypeOK'
  BY <1>1, <1>2, <1>3, <1>5, <1>6 DEF TypeOK, BufferType
<1>9. EofInv'
  BY <1>1, <1>6 DEF EofInv
<1> QED
  BY <1>3, <1>7, <1>8, <1>9 DEF CopyInv

LEMMA BodyStep == CopyInv /\ CopyBody => CopyInv'
<1> SUFFICES ASSUME CopyInv, CopyBody PROVE CopyInv'
  OBVIOUS
<1>1. /\ TypeOK /\ BufferInv /\ StageInv /\ EofInv
      /\ copy = "Reading" /\ pc = "running" /\ woken' \in BOOLEAN
  BY DEF CopyInv, CopyBody, Reads, TypeOK
<1>2. PICK n \in 1 .. BufferSize : ReadBody(Room, n) /\ ReadText(Data(bodyRead, bodyRead + n))
  BY DEF CopyBody
<1>3. /\ stage = "body" /\ n \in 1 .. Room /\ bodyRead' = bodyRead + n
      /\ bodyRead + n <= message.size
      /\ bodyReady' \in BOOLEAN
      /\ UNCHANGED <<message, bodyArmed, stage, pieces, current>>
  BY <1>2 DEF ReadBody, BodyAnswers
<1>4. bodyRead \in Nat /\ n \in Nat /\ bodyRead <= bodyRead + n /\ message.size \in Nat
      /\ Room \in Nat /\ Len(buffer) + Room = BufferSize /\ HeadRead(message) \in Text
  BY <1>1, ReaderTypes
<1> DEFINE t == Data(bodyRead, bodyRead + n)
<1>5. t \in Text /\ Len(t) = n
  <2>1. bodyRead + n \in Nat /\ (bodyRead + n) - bodyRead = n
    BY <1>4
  <2> QED BY <2>1, <1>4, DataType
<1>6. Taken' = Taken \o t /\ BufferType' /\ BufferInv'
  <2>1. Len(buffer) + Len(t) <= BufferSize
    <3>1. Len(buffer) \in Nat
      BY <1>1, TextConcat DEF TypeOK
    <3> HIDE DEF t
    <3> QED BY <1>3, <1>4, <1>5, <3>1, IoCopyFutureAssumption
  <2>2. ReadText(t)
    BY <1>2
  <2> HIDE DEF t
  <2> QED BY <1>1, <1>5, <2>1, <2>2, TextTaken
<1>7. current = <<>> /\ pieces = <<>> /\ message.body = "length"
      /\ Stream = HeadRead(message) \o Data(0, bodyRead)
  BY <1>1, <1>3 DEF StageInv
<1>8. Held = <<>> /\ Held' = <<>>
  BY <1>3, <1>7, SectionNone, EmptySeq DEF Held
<1>9. Stream = Taken /\ Stream' = Taken'
  <2>1. Taken \in Text /\ Taken \o t \in Text
    BY <1>1, <1>5, StreamType, TextConcat
  <2> HIDE DEF t
  <2> QED BY <1>6, <1>8, <2>1, TextEmpty DEF Stream
<1>10. Stream' = HeadRead(message) \o Data(0, bodyRead + n)
  <2>1. 0 \in Nat /\ 0 <= bodyRead /\ bodyRead + n \in Nat
    BY <1>4
  <2>2. Data(0, bodyRead) \o t = Data(0, bodyRead + n) /\ Data(0, bodyRead) \in Text
    BY <2>1, <1>4, DataConcat, DataType
  <2>3. (HeadRead(message) \o Data(0, bodyRead)) \o t = HeadRead(message) \o (Data(0, bodyRead) \o t)
    <3> HIDE DEF t
    <3> QED BY <1>4, <1>5, <2>2, TextAssociative, ZenonT(30)
  <2> HIDE DEF t
  <2> QED BY <2>2, <2>3, <1>6, <1>7, <1>9
<1>11. StageInv'
  <2>1. HeadRead(message') = HeadRead(message)
    BY <1>3
  <2> QED BY <1>3, <1>7, <1>10, <2>1 DEF StageInv
<1>12. UNCHANGED <<pc, readFinished, bytesWritten, output, writable, armed>>
  BY <1>2 DEF ReadText
<1>13. TypeOK'
  <2>1. bodyRead' \in 0 .. message'.size
    BY <1>3, <1>4
  <2> QED BY <1>1, <1>3, <1>6, <1>12, <2>1 DEF TypeOK, BufferType
<1>14. EofInv'
  BY <1>1, <1>12 DEF EofInv
<1> QED
  BY <1>6, <1>11, <1>13, <1>14 DEF CopyInv
(* What is behind the head of a message.                                   *)
LEMMA BodyType ==
    ASSUME TypeOK, NEW t \in Text
    PROVE  BehindHead(t) \in Text
<1> DEFINE h == HeadRead(message)
<1>1. h \in Text
  BY ReaderTypes
<1>2. Len(h) \in Nat /\ Len(t) \in Nat
  BY <1>1, TextConcat
<1>3. CASE Len(h) \in 0 .. Len(t)
  BY <1>3, SplitText DEF BehindHead
<1>4. CASE Len(t) < Len(h)
  <2>1. Len(h) + 1 \in Int /\ Len(t) \in Int /\ Len(t) < Len(h) + 1
    BY <1>2, <1>4
  <2>2. SubSeq(t, Len(h) + 1, Len(t)) = <<>>
    BY <2>1, SubSeqEmpty
  <2> QED BY <2>2, ReceivedEmpty DEF BehindHead
<1> QED
  BY <1>2, <1>3, <1>4

(* A chunk continues what its receiver has: its data are the units read.   *)
LEMMA ChunkStands ==
    ASSUME TypeOK, StageInv, BetweenChunks, NEW text \in Text,
           Stream' = Stream \o text, message' = message
    PROVE  /\ BehindHead(Stream) \in Text
           /\ Received(BehindHead(Stream)) = [expects |-> "size", left |-> 0, data |-> Data(0, bodyRead)]
           /\ BehindHead(Stream)' = BehindHead(Stream) \o text
           /\ Stream' = HeadRead(message') \o BehindHead(Stream)'
<1> DEFINE h == HeadRead(message)
           b == BehindHead(Stream)
<1>1. /\ Stream = h \o b
      /\ Received(b) = [expects |-> "size", left |-> 0, data |-> Data(0, bodyRead)]
  BY DEF StageInv, BetweenChunks, BodyStands
<1>2. h \in Text /\ Stream \in Text
  BY ReaderTypes, StreamType
<1>3. b \in Text
  BY <1>2, BodyType
<1> HIDE DEF b
<1>4. Stream' = h \o (b \o text) /\ b \o text \in Text
  <2> HIDE DEF h
  <2>1. b \o text \in Text
    BY <1>3, TextConcat
  <2>2. (h \o b) \o text = h \o (b \o text)
    BY <1>2, <1>3, TextAssociative, ZenonT(30)
  <2> QED BY <2>1, <2>2, <1>1
<1>5. HeadRead(message') = h
  OBVIOUS
<1>6. BehindHead(Stream)' = b \o text
  <2>1. SubSeq(h \o (b \o text), Len(h) + 1, Len(h \o (b \o text))) = b \o text
    <3> HIDE DEF h
    <3> QED BY <1>2, <1>4, Behind
  <2> QED BY <2>1, <1>4, <1>5 DEF BehindHead
<1> QED
  BY <1>1, <1>3, <1>4, <1>5, <1>6 DEF b

(* A chunk, and the last one, keep the stage true.                         *)
LEMMA ChunkStage ==
    ASSUME TypeOK, StageInv, NEW n \in 1 .. ChunkSize, ReadChunk(n), Taken' = Taken
    PROVE  /\ StageInv' /\ current' \in Text /\ pieces' \in Seq(Text)
           /\ UNCHANGED <<message, stage, bodyArmed>> /\ bodyReady' \in BOOLEAN
           /\ bodyRead' \in 0 .. message.size
<1>1. /\ BetweenChunks /\ Piece = <<>> /\ stage = "chunked" /\ bodyRead' = bodyRead + n
      /\ bodyRead + n <= message.size /\ bodyReady' \in BOOLEAN
      /\ pieces' = Chunk(bodyRead, bodyRead + n)
      /\ UNCHANGED <<message, stage, current, bodyArmed>>
  BY DEF ReadChunk, BetweenChunks, BodyAnswers
<1>2. bodyRead \in Nat /\ bodyRead + n \in Nat /\ bodyRead < bodyRead + n /\ message.size \in Nat
  BY ReaderTypes, MessageReaderAssumption
<1>3. pieces' \in Seq(Text)
  BY <1>1, <1>2, ChunkText
<1>4. current = <<>> /\ current' = <<>>
  BY <1>1, NothingHeld
<1> DEFINE text == SectionText(Chunk(bodyRead, bodyRead + n))
<1>5. text \in Text /\ Stream' = Stream \o text
  BY <1>1, <1>3, <1>4, SectionTextType, SectionRead
<1>6. /\ BehindHead(Stream) \in Text
      /\ Received(BehindHead(Stream)) = State("size", 0, Data(0, bodyRead))
      /\ BehindHead(Stream)' = BehindHead(Stream) \o text
      /\ Stream' = HeadRead(message') \o BehindHead(Stream)'
  <2> HIDE DEF text
  <2> QED BY <1>1, <1>5, ChunkStands DEF State
<1>7. Received(BehindHead(Stream) \o text) = State("size", 0, Data(0, bodyRead + n))
  BY <1>2, <1>6, ReceivedChunk
<1>8. BodyStands([expects |-> "size", left |-> 0, data |-> Data(0, bodyRead)])'
  <2> HIDE DEF text
  <2> QED BY <1>1, <1>6, <1>7 DEF BodyStands, State
<1>9. message.body = "chunked"
  BY <1>1 DEF StageInv
<1>10. StageInv'
  BY <1>1, <1>8, <1>9 DEF StageInv
<1> QED
  BY <1>1, <1>2, <1>3, <1>4, <1>10, TextEmpty DEF TypeOK

LEMMA LastChunkStage ==
    ASSUME TypeOK, StageInv, ReadLastChunk, Taken' = Taken
    PROVE  /\ StageInv' /\ current' \in Text /\ pieces' \in Seq(Text)
           /\ UNCHANGED <<message, bodyArmed>> /\ bodyReady' \in BOOLEAN
           /\ bodyRead' \in 0 .. message.size /\ stage' \in Stage
<1>1. bodyRead \in Nat /\ message.size \in Nat
  BY ReaderTypes
<1>2. /\ BetweenChunks /\ Piece = <<>> /\ stage = "chunked" /\ bodyRead' = bodyRead
      /\ bodyRead = message.size /\ bodyReady' \in BOOLEAN
      /\ pieces' = LastChunk /\ stage' = "lastChunk"
      /\ UNCHANGED <<message, current, bodyArmed>>
  BY <1>1 DEF ReadLastChunk, BetweenChunks, BodyAnswers
<1>3. pieces' \in Seq(Text)
  BY <1>2, LastChunkText
<1>4. current = <<>> /\ current' = <<>>
  BY <1>2, NothingHeld
<1> DEFINE text == SectionText(LastChunk)
<1>5. text \in Text /\ Stream' = Stream \o text
  BY <1>2, <1>3, <1>4, SectionTextType, SectionRead
<1>6. /\ BehindHead(Stream) \in Text
      /\ Received(BehindHead(Stream)) = State("size", 0, Data(0, bodyRead))
      /\ BehindHead(Stream)' = BehindHead(Stream) \o text
      /\ Stream' = HeadRead(message') \o BehindHead(Stream)'
  <2> HIDE DEF text
  <2> QED BY <1>2, <1>5, ChunkStands DEF State
<1>7. Received(BehindHead(Stream) \o text) = State("nothing", 0, Data(0, bodyRead))
  <2>1. Data(0, bodyRead) \in Text
    <3>1. 0 \in Nat /\ 0 <= bodyRead
      BY <1>1
    <3> QED BY <1>1, <3>1, DataType
  <2> QED BY <2>1, <1>6, ReceivedLastChunk
<1>8. BodyStands([expects |-> "nothing", left |-> 0, data |-> Data(0, bodyRead)])'
  <2> HIDE DEF text
  <2> QED BY <1>2, <1>6, <1>7 DEF BodyStands, State
<1>9. message.body = "chunked"
  BY <1>2 DEF StageInv
<1>10. StageInv'
  BY <1>2, <1>8, <1>9 DEF StageInv
<1> QED
  BY <1>1, <1>2, <1>3, <1>4, <1>10, TextEmpty DEF TypeOK, Stage
-----------------------------------------------------------------------------
LEMMA ChunksStep == CopyInv /\ CopyChunk => CopyInv'
<1> SUFFICES ASSUME CopyInv, CopyChunk PROVE CopyInv'
  OBVIOUS
<1>1. /\ TypeOK /\ BufferInv /\ StageInv /\ EofInv /\ UNCHANGED copyVars
      /\ copy = "Reading" /\ pc = "running"
  BY DEF CopyInv, CopyChunk, Reads
<1>2. /\ pc' = pc /\ woken' = woken /\ copy' = copy /\ buffer' = buffer /\ span' = span
      /\ readFinished' = readFinished /\ bytesWritten' = bytesWritten /\ output' = output
      /\ writable' = writable /\ armed' = armed
  BY <1>1 DEF copyVars
<1>3. Taken' = Taken
  BY <1>2 DEF Taken, Pending
<1>4. /\ StageInv' /\ current' \in Text /\ pieces' \in Seq(Text)
      /\ UNCHANGED <<message, bodyArmed>> /\ bodyReady' \in BOOLEAN
      /\ bodyRead' \in 0 .. message.size /\ stage' \in Stage
  <2>1. CASE \E n \in 1 .. ChunkSize : ReadChunk(n)
    BY <2>1, <1>1, <1>3, ChunkStage DEF TypeOK
  <2>2. CASE ReadLastChunk
    BY <2>2, <1>1, <1>3, LastChunkStage
  <2> QED BY <2>1, <2>2 DEF CopyChunk
<1>5. TypeOK'
  BY <1>1, <1>2, <1>4 DEF TypeOK
<1>6. BufferInv'
  BY <1>1, <1>2 DEF BufferInv
<1>7. EofInv'
  BY <1>1, <1>2 DEF EofInv
<1> QED
  BY <1>4, <1>5, <1>6, <1>7 DEF CopyInv

LEMMA PendingStep == CopyInv /\ CopyPending => CopyInv'
<1> SUFFICES ASSUME CopyInv, CopyPending PROVE CopyInv'
  OBVIOUS
<1>1. /\ TypeOK /\ BufferInv /\ StageInv /\ EofInv /\ SwitchToWriting(buffer)
      /\ copy = "Reading" /\ pc = "running" /\ woken' \in BOOLEAN
      /\ UNCHANGED <<pc, readFinished, bytesWritten, output, writable, armed>>
      /\ NextSection \/ BodyPending
  BY DEF CopyInv, CopyPending, Reads, TypeOK, EndWakes
<1>2. Taken' = Taken /\ BufferType' /\ BufferInv'
  BY <1>1, NothingTaken
<1>3. /\ StageInv' /\ current' \in Text /\ pieces' \in Seq(Text)
      /\ UNCHANGED <<message, bodyRead>> /\ bodyReady' \in BOOLEAN /\ bodyArmed' \in BOOLEAN
      /\ stage' \in Stage
  <2>1. CASE NextSection
    BY <2>1, <1>1, <1>2, NextSectionStage DEF TypeOK
  <2>2. CASE BodyPending
    <3>1. /\ UNCHANGED <<message, stage, pieces, current, bodyRead, bodyReady>>
          /\ bodyArmed' \in BOOLEAN
      BY <2>2 DEF BodyPending
    <3>2. Stream' = Stream
      BY <3>1, <1>2 DEF Stream, Held
    <3> QED BY <1>1, <3>1, <3>2, SameStage DEF TypeOK
  <2> QED BY <1>1, <2>1, <2>2
<1>4. TypeOK'
  BY <1>1, <1>2, <1>3 DEF TypeOK, BufferType
<1>5. EofInv'
  BY <1>1 DEF EofInv
<1> QED
  BY <1>2, <1>3, <1>4, <1>5 DEF CopyInv

LEMMA EofStep == CopyInv /\ CopyEof => CopyInv'
<1> SUFFICES ASSUME CopyInv, CopyEof PROVE CopyInv'
  OBVIOUS
<1>1. /\ TypeOK /\ BufferInv /\ StageInv /\ EofInv /\ SwitchToWriting(buffer)
      /\ copy = "Reading" /\ pc = "running" /\ woken' \in BOOLEAN /\ Eof /\ readFinished' = TRUE
      /\ UNCHANGED <<pc, bytesWritten, output, writable, armed>>
      /\ UNCHANGED <<message, stage, pieces, current, bodyRead, bodyReady, bodyArmed>>
  BY DEF CopyInv, CopyEof, Reads, TypeOK, EndWakes, readerVars
<1>2. Taken' = Taken /\ BufferType' /\ BufferInv' /\ copy' = "Writing"
  BY <1>1, NothingTaken
<1>3. Stream' = Stream /\ Held' = Held
  BY <1>1, <1>2 DEF Stream, Held
<1>4. StageInv'
  BY <1>1, <1>3, SameStage
<1>5. TypeOK'
  BY <1>1, <1>2 DEF TypeOK, BufferType
<1>6. EofInv'
  <2>1. bodyRead = message.size
    BY <1>1, ReaderTypes DEF Eof, StageInv
  <2>2. Held = <<>>
    <3>1. CASE stage = "body"
      <4>1. current = <<>> /\ pieces = <<>>
        BY <1>1, <3>1 DEF StageInv
      <4> QED BY <4>1, SectionNone, EmptySeq DEF Held
    <3>2. CASE stage # "body"
      BY <1>1, <3>2, NothingHeld DEF Eof
    <3> QED BY <3>1, <3>2
  <2> QED BY <1>1, <1>2, <1>3, <2>1, <2>2 DEF EofInv, Eof
<1> QED
  BY <1>2, <1>4, <1>5, <1>6 DEF CopyInv

LEMMA RequestLineStep == CopyInv /\ CopyRequestLine => CopyInv'
<1> SUFFICES ASSUME CopyInv, CopyRequestLine PROVE CopyInv'
  OBVIOUS
<1>1. /\ TypeOK /\ BufferInv /\ StageInv /\ EofInv /\ RequestLineEnds
      /\ copy = "Reading" /\ pc = "running" /\ woken' = TRUE
      /\ UNCHANGED <<pc, copy, buffer, span, readFinished, bytesWritten, output,
                     writable, armed>>
  BY DEF CopyInv, CopyRequestLine, Reads
<1>2. Taken' = Taken
  BY <1>1 DEF Taken, Pending
<1>3. /\ StageInv' /\ current' \in Text /\ pieces' \in Seq(Text)
      /\ UNCHANGED <<message, bodyRead, bodyReady, bodyArmed>> /\ stage' \in Stage
  BY <1>1, <1>2, NextSectionStage
<1>4. TypeOK'
  BY <1>1, <1>3 DEF TypeOK
<1>5. BufferInv' /\ EofInv'
  BY <1>1 DEF BufferInv, EofInv
<1> QED
  BY <1>3, <1>4, <1>5 DEF CopyInv

(* What a part of the span leaves is pending.                              *)
LEMMA WriteStep == ASSUME NEW n \in 0 .. BufferSize PROVE CopyInv /\ WriteText(n) => CopyInv'
<1> SUFFICES ASSUME CopyInv, WriteText(n) PROVE CopyInv'
  OBVIOUS
<1>1. /\ TypeOK /\ BufferInv /\ StageInv /\ EofInv /\ pc = "running" /\ copy = "Writing"
      /\ n \in Smaller(1, Len(span)) .. Len(span)
      /\ output' = output \o SubSeq(span, 1, n) /\ bytesWritten' = bytesWritten + n
      /\ span' = Rest(n) /\ writable' = FALSE /\ armed' = TRUE
      /\ UNCHANGED <<message, stage, pieces, current, bodyRead, bodyReady, bodyArmed>>
      /\ UNCHANGED <<woken, readFinished>>
  BY DEF CopyInv, WriteText, Writes, readerVars
<1>2. \/ Rest(n) # <<>> /\ pc' = "waiting" /\ UNCHANGED <<copy, buffer>>
      \/ Rest(n) = <<>> /\ readFinished /\ pc' = "done" /\ UNCHANGED <<copy, buffer>>
      \/ /\ Rest(n) = <<>> /\ ~readFinished /\ copy' = "Reading" /\ buffer' = <<>>
         /\ UNCHANGED pc
  BY DEF WriteText
<1>3. /\ SubSeq(span, 1, n) \in Text /\ Len(SubSeq(span, 1, n)) = n
      /\ Rest(n) \in Text /\ SubSeq(span, 1, n) \o Rest(n) = span
  <2>1. span \in Text /\ n \in 0 .. Len(span)
    BY <1>1, TextConcat DEF TypeOK
  <2> QED BY <2>1, SplitText DEF Rest
<1>4. /\ output \in Text /\ output' \in Text /\ bytesWritten' = Len(output')
      /\ <<>> \in Text /\ Len(<<>>) = 0 /\ BufferSize \in Nat \ {0}
  <2>1. output \in Text /\ bytesWritten = Len(output)
    BY <1>1 DEF TypeOK
  <2>2. output' \in Text /\ Len(output') = Len(output) + Len(SubSeq(span, 1, n))
    BY <1>1, <1>3, <2>1, TextConcat
  <2> QED BY <1>1, <1>3, <2>1, <2>2, TextEmpty, IoCopyFutureAssumption
<1>5. Pending' = Rest(n)
  BY <1>1, <1>2 DEF Pending
<1>6. Taken' = Taken
  <2>1. (output \o SubSeq(span, 1, n)) \o Rest(n) = output \o (SubSeq(span, 1, n) \o Rest(n))
    <3>1. output \in Text /\ SubSeq(span, 1, n) \in Text /\ Rest(n) \in Text
      BY <1>3, <1>4
    <3> QED BY ONLY <3>1, TextAssociative, ZenonT(30)
  <2> QED BY <1>1, <1>3, <1>5, <2>1 DEF Taken, Pending
<1>7. Stream' = Stream /\ Held' = Held
  BY <1>1, <1>6 DEF Stream, Held
<1>8. StageInv'
  BY <1>1, <1>7, SameStage
<1>9. BufferInv'
  BY <1>1, <1>2, <1>4 DEF BufferInv
<1>10. /\ pc' \in {"running", "waiting", "done", "failed"}
       /\ copy' \in {"Reading", "Writing"} /\ buffer' \in Text /\ Len(buffer') <= BufferSize
  BY <1>1, <1>2, <1>4 DEF TypeOK
<1>11. TypeOK'
  BY <1>1, <1>3, <1>4, <1>10 DEF TypeOK
<1>12. EofInv'
  BY <1>1, <1>2, <1>7 DEF EofInv
<1> QED
  BY <1>8, <1>9, <1>11, <1>12 DEF CopyInv

(* The other steps change neither what was read nor what is to be sent.    *)
LEMMA OtherStep ==
    CopyInv /\ (\/ StartPoll \/ ReadFails \/ WritePending \/ WriteFails
                \/ SocketFires \/ SourceFires \/ UNCHANGED vars) => CopyInv'
<1> SUFFICES ASSUME CopyInv,
                    \/ StartPoll \/ ReadFails \/ WritePending \/ WriteFails
                    \/ SocketFires \/ SourceFires \/ UNCHANGED vars
             PROVE  CopyInv'
  OBVIOUS
<1>1. TypeOK /\ BufferInv /\ StageInv /\ EofInv
  BY DEF CopyInv
<1>2. /\ UNCHANGED <<message, stage, pieces, current, bodyRead>>
      /\ UNCHANGED <<copy, buffer, span, readFinished, bytesWritten, output>>
      /\ pc' \in {"running", "waiting", "failed"} \/ pc' = pc
      /\ pc' \in {"running", "waiting", "done", "failed"}
      /\ bodyReady' \in BOOLEAN /\ bodyArmed' \in BOOLEAN /\ woken' \in BOOLEAN
      /\ writable' \in BOOLEAN /\ armed' \in BOOLEAN
  BY <1>1 DEF TypeOK, StartPoll, ReadFails, WritePending, WriteFails, SocketFires,
              SourceFires, BodyFires, vars, readerVars, copyVars
<1>3. Stream' = Stream /\ Held' = Held
  BY <1>2 DEF Stream, Held, Taken, Pending
<1>4. StageInv'
  BY <1>1, <1>2, <1>3, SameStage
<1>5. TypeOK'
  BY <1>1, <1>2 DEF TypeOK
<1>6. BufferInv' /\ EofInv'
  BY <1>1, <1>2, <1>3 DEF BufferInv, EofInv
<1> QED
  BY <1>4, <1>5, <1>6 DEF CopyInv

LEMMA CopyNext == CopyInv /\ [Next]_vars => CopyInv'
  BY PieceStep, BodyStep, ChunksStep, PendingStep, EofStep, RequestLineStep, WriteStep,
     OtherStep DEF Next, Poll

(* Whatever parts the body's source yields, the buffer takes and the       *)
(* socket accepts, what IoCopyFuture::poll took from the reader and what   *)
(* the reader holds are the message's text as far as it was read; and the  *)
(* end of file is seen where all was read.                                 *)
THEOREM CopyInvariant == Spec => []CopyInv
  BY CopyInit, CopyNext, PTL DEF Spec

(* The type invariant: _buffer is never overrun, whatever the readers      *)
(* return, and _bytes_written counts what the receiver got.                *)
THEOREM TypeCorrect == Spec => []TypeOK
<1>1. CopyInv => TypeOK
  BY DEF CopyInv
<1> QED
  BY <1>1, CopyInvariant, PTL
-----------------------------------------------------------------------------
(* All that was read of the message is its head and what its body looks    *)
(* like in the end, or a beginning of them.                                *)
Body(b) ==
    IF message.body = "chunked"
    THEN /\ Received(b).expects # "malformed"
         /\ Received(b).data = Data(0, bodyRead)
    ELSE b = Data(0, bodyRead)

Stands == \E b \in Text, z \in Text : Stream \o z = HeadRead(message) \o b /\ Body(b)

LEMMA StreamStands == ASSUME TypeOK, StageInv PROVE Stands
<1>0. (StartText \o HeadersText) \o Crlf = StartText \o (HeadersText \o Crlf)
  <2>1. StartText \in Text /\ HeadersText \in Text
    BY ReaderTypes
  <2> QED BY <2>1, CrlfType, TextAssociative, ZenonT(30)
<1> USE ReaderTypes, StreamType
<1>1. Stream \in Text /\ Stream \o <<>> = Stream /\ <<>> \in Text
  BY TextEmpty
<1>2. ASSUME bodyRead = 0 PROVE Body(<<>>)
  <2>1. Received(<<>>) = NothingReceived /\ Data(0, bodyRead) = <<>>
    BY <1>2, ReceivedEmpty, DataNone
  <2> QED BY <2>1 DEF Body, NothingReceived
<1>3. ASSUME bodyRead = 0, NEW z \in Text, Stream \o z = HeadRead(message) PROVE Stands
  <2>1. HeadRead(message) \o <<>> = HeadRead(message)
    BY TextEmpty
  <2> QED BY <1>1, <1>2, <1>3, <2>1 DEF Stands
<1>h. HeadRead(message) = (StartText \o HeadersText) \o Crlf
  OBVIOUS
<1>4. CASE stage = "start"
  <2>1. bodyRead = 0 /\ Stream = StartText
    BY <1>4 DEF StageInv
  <2>2. HeadersText \o Crlf \in Text
    BY CrlfType, TextConcat
  <2> QED BY <1>0, <2>1, <2>2, <1>3
<1>5. CASE stage = "headers"
  <2>1. bodyRead = 0 /\ Stream = StartText \o HeadersText
    BY <1>5 DEF StageInv
  <2> QED BY <2>1, CrlfType, <1>3
<1>6. CASE stage = "terminator"
  <2>1. bodyRead = 0 /\ Stream = HeadRead(message)
    BY <1>6 DEF StageInv
  <2> QED BY <2>1, <1>1, <1>3
<1>7. CASE stage = "body"
  <2>1. message.body # "chunked" /\ Stream = HeadRead(message) \o Data(0, bodyRead)
    BY <1>7 DEF StageInv
  <2>2. Data(0, bodyRead) \in Text
    <3>1. 0 \in Nat /\ 0 <= bodyRead
      OBVIOUS
    <3> QED BY <3>1, DataType
  <2> QED BY <2>1, <2>2, <1>1 DEF Stands, Body
<1>8. CASE stage \in {"chunked", "lastChunk"}
  <2>1. /\ message.body = "chunked" /\ Stream = HeadRead(message) \o BehindHead(Stream)
        /\ Received(BehindHead(Stream)).expects # "malformed"
        /\ Received(BehindHead(Stream)).data = Data(0, bodyRead)
    BY <1>8 DEF StageInv, BodyStands
  <2>2. BehindHead(Stream) \in Text
    BY BodyType
  <2> QED BY <2>1, <2>2, <1>1 DEF Stands, Body
<1>9. stage \in {"start", "headers", "terminator", "body", "chunked", "lastChunk"}
  BY DEF StageInv
<1> QED
  BY <1>4, <1>5, <1>6, <1>7, <1>8, <1>9

(* What is sent of it: a beginning of the head, or the head and a part of  *)
(* the body.                                                               *)
SentHead == Begins(output, HeadRead(message))

SentBody(b) ==
    /\ BehindHead(output) \in Text
    /\ output = HeadRead(message) \o BehindHead(output)
    /\ Begins(BehindHead(output), b)

LEMMA Sent ==
    ASSUME TypeOK, NEW b \in Text, NEW z \in Text, Stream \o z = HeadRead(message) \o b
    PROVE  IF Len(output) < Len(HeadRead(message)) THEN SentHead /\ BehindHead(output) = <<>>
           ELSE SentBody(b)
<1> DEFINE h == HeadRead(message)
           y == (Pending \o Held) \o z
<1>1. h \in Text /\ output \in Text /\ Pending \o Held \in Text
  BY ReaderTypes, StreamType DEF TypeOK
<1>2. y \in Text /\ output \o y = h \o b
  <2>1. y \in Text
    BY <1>1, TextConcat
  <2>2. (output \o (Pending \o Held)) \o z = output \o ((Pending \o Held) \o z)
    <3> DEFINE w == Pending \o Held
    <3>1. w \in Text
      BY <1>1
    <3> HIDE DEF w
    <3>2. (output \o w) \o z = output \o (w \o z)
      <4>1. output \in Text /\ w \in Text /\ z \in Text
        BY <1>1, <3>1
      <4> QED BY ONLY <4>1, TextAssociative, ZenonT(30)
    <3> QED BY <3>2 DEF w
  <2>3. Stream = output \o (Pending \o Held)
    BY StreamType
  <2> QED BY <2>1, <2>2, <2>3
<1>3. Len(output) \in Nat /\ Len(h) \in Nat
  BY <1>1, TextConcat
<1> HIDE DEF y
<1>4. CASE Len(output) < Len(h)
  <2>1. Between(output, h, y, b)
    <3>1. Len(output) <= Len(h)
      BY <1>3, <1>4
    <3> HIDE DEF h
    <3> QED BY <1>1, <1>2, <3>1, SplitTwice
  <2>2. SentHead
    BY <2>1 DEF Between, SentHead, Begins
  <2>3. BehindHead(output) = <<>>
    <3>1. Len(h) + 1 \in Int /\ Len(output) \in Int /\ Len(output) < Len(h) + 1
      BY <1>3, <1>4
    <3> QED BY <3>1, SubSeqEmpty DEF BehindHead
  <2> QED BY <2>2, <2>3, <1>4
<1>5. CASE ~(Len(output) < Len(h))
  <2>1. Between(h, output, b, y)
    <3>1. Len(h) <= Len(output) /\ h \o b = output \o y
      BY <1>2, <1>3, <1>5
    <3> HIDE DEF h
    <3> QED BY <1>1, <1>2, <3>1, SplitTwice
  <2>2. PICK w \in Text : output = h \o w /\ b = w \o y
    BY <2>1 DEF Between
  <2>3. BehindHead(output) = w
    <3>1. SubSeq(h \o w, Len(h) + 1, Len(h \o w)) = w
      <4> HIDE DEF h
      <4> QED BY <1>1, <2>2, Behind
    <3> QED BY <2>2, <3>1 DEF BehindHead
  <2> QED BY <1>2, <1>5, <2>2, <2>3 DEF SentBody, Begins
<1> QED
  BY <1>4, <1>5

(* A receiver that can go on to the end was never confused before it.      *)
ChunksRead ==
    message.body = "chunked" =>
        /\ Received(BehindHead(output)).expects # "malformed"
        /\ pc = "done" => Received(BehindHead(output)) =
                [expects |-> "nothing", left |-> 0, data |-> Data(0, message.size)]

LEMMA ChunksWellFormed == CopyInv => ChunksRead
<1> SUFFICES ASSUME CopyInv, message.body = "chunked"
             PROVE  /\ Received(BehindHead(output)).expects # "malformed"
                    /\ pc = "done" => Received(BehindHead(output)) =
                            [expects |-> "nothing", left |-> 0, data |-> Data(0, message.size)]
  BY DEF ChunksRead
<1>1. TypeOK /\ StageInv /\ EofInv
  BY DEF CopyInv
<1>2. PICK b \in Text, z \in Text : Stream \o z = HeadRead(message) \o b /\ Body(b)
  BY <1>1, StreamStands DEF Stands
<1>3. Received(b).expects # "malformed"
  BY <1>2 DEF Body
<1>4. Received(BehindHead(output)).expects # "malformed"
  <2>1. CASE Len(output) < Len(HeadRead(message))
    <3>1. BehindHead(output) = <<>>
      BY <1>1, <1>2, <2>1, Sent
    <3> QED BY <3>1, ReceivedEmpty DEF NothingReceived
  <2>2. CASE ~(Len(output) < Len(HeadRead(message)))
    <3>1. SentBody(b)
      BY <1>1, <1>2, <2>2, Sent
    <3>2. PICK u \in Text : b = BehindHead(output) \o u
      BY <3>1 DEF SentBody, Begins
    <3>3. Keeps(Received(BehindHead(output)), Received(b))
      BY <3>1, <3>2, ReceivedKeeps DEF SentBody
    <3> QED BY <1>3, <3>3 DEF Keeps
  <2> QED BY <2>1, <2>2
<1>5. ASSUME pc = "done"
      PROVE  Received(BehindHead(output)) =
                [expects |-> "nothing", left |-> 0, data |-> Data(0, message.size)]
  <2>1. /\ copy = "Writing" /\ span = <<>> /\ Held = <<>> /\ bodyRead = message.size
        /\ stage = "lastChunk"
    BY <1>1, <1>5 DEF EofInv, StageInv
  <2>2. Stream = output
    <3>1. output \in Text /\ Stream = output \o (<<>> \o <<>>) /\ <<>> \o <<>> = <<>>
      BY <1>1, <2>1, StreamType, TextEmpty DEF Pending, TypeOK
    <3> QED BY <3>1, TextEmpty
  <2> QED BY <1>1, <2>1, <2>2 DEF StageInv, BodyStands
<1> QED
  BY <1>4, <1>5

(* What MessageReader sends of a body in chunks, behind the head of any    *)
(* message without empty pieces, is at any time well formed: each size is  *)
(* that of the data behind it, however large the parts are that the source *)
(* yields; and when the copy is done the receiver has found the end.       *)
THEOREM ChunksDecoded == NoEmptyPiece => (Spec => []ChunksDecode)
<1>1. NoEmptyPiece /\ CopyInv => ChunksDecode
  <2> SUFFICES ASSUME NoEmptyPiece, CopyInv PROVE ChunksDecode
    OBVIOUS
  <2>1. HeadOf(message) = HeadRead(message)
    BY HeadWhole DEF CopyInv, TypeOK
  <2> QED BY <2>1, ChunksWellFormed DEF ChunksDecode, ChunksRead, BodyOf, BehindHead
<1>2. NoEmptyPiece => NoEmptyPiece'
  BY DEF NoEmptyPiece
<1> QED
  BY <1>1, <1>2, CopyInvariant, PTL
-----------------------------------------------------------------------------
(* The text and what was sent of it, as the promise of a transfer sees     *)
(* them.                                                                   *)
MessageText == HeadRead(message) \o Data(0, message.size)

SentText ==
    IF Len(output) < Len(HeadRead(message)) THEN output
    ELSE HeadRead(message) \o Payload(BehindHead(output))

SentInv ==
    /\ HeadRead(message) \in Text /\ HeadRead(message) # <<>> /\ output \in Text
    /\ MessageText \in Text /\ SentText \in Text
    /\ BehindHead(output) \in Text /\ Payload(BehindHead(output)) \in Text
    /\ IF Len(output) < Len(HeadRead(message)) THEN SentHead
       ELSE output = HeadRead(message) \o BehindHead(output)
    /\ Begins(SentText, MessageText)
    /\ pc = "done" => SentText = MessageText

(* Beginnings: of longer texts, and by their length.                       *)
LEMMA BeginsConcat ==
    ASSUME NEW h \in Text, NEW s \in Text, NEW t \in Text, Begins(s, t)
    PROVE  Begins(h \o s, h \o t) /\ \A u \in Text : Begins(s, t \o u)
<1>1. PICK z \in Text : t = s \o z
  BY DEF Begins
<1>2. h \o (s \o z) = (h \o s) \o z
  <2>1. h \in Text /\ s \in Text /\ z \in Text
    BY <1>1
  <2> QED BY ONLY <2>1, TextAssociative, ZenonT(30)
<1>3. ASSUME NEW u \in Text PROVE Begins(s, t \o u)
  <2>1. (s \o z) \o u = s \o (z \o u)
    <3>1. s \in Text /\ z \in Text /\ u \in Text
      BY <1>1, <1>3
    <3> QED BY ONLY <3>1, TextAssociative, ZenonT(30)
  <2>2. z \o u \in Text
    BY <1>1, TextConcat
  <2> QED BY <1>1, <2>1, <2>2 DEF Begins
<1> QED
  BY <1>1, <1>2, <1>3 DEF Begins

LEMMA BeginsSubSeq ==
    ASSUME NEW s \in Text, NEW t \in Text, Begins(s, t)
    PROVE  /\ Len(s) \in Nat /\ Len(t) \in Nat /\ Len(s) <= Len(t)
           /\ s = SubSeq(t, 1, Len(s))
<1>1. PICK z \in Text : t = s \o z
  BY DEF Begins
<1>2. Len(s) \in Nat /\ Len(t) \in Nat /\ Len(s) <= Len(t) /\ Len(s) \in 0 .. Len(t)
  <2>1. Len(s) \in Nat /\ Len(z) \in Nat /\ Len(t) = Len(s) + Len(z)
    BY <1>1, TextConcat
  <2> QED BY <2>1
<1> DEFINE u == SubSeq(t, 1, Len(s))
           v == SubSeq(t, Len(s) + 1, Len(t))
<1>3. u \in Text /\ Len(u) = Len(s) /\ v \in Text /\ u \o v = t
  BY <1>2, SplitText
<1> HIDE DEF u, v
<1>4. Between(s, u, z, v)
  <2>1. s \o z = u \o v /\ Len(s) <= Len(u)
    BY <1>1, <1>2, <1>3
  <2> QED BY <1>1, <1>3, <2>1, SplitTwice
<1>5. PICK w \in Text : u = s \o w
  BY <1>4 DEF Between
<1>6. Len(w) = 0
  <2>1. Len(u) = Len(s) + Len(w) /\ Len(w) \in Nat
    BY <1>5, TextConcat
  <2> QED BY <2>1, <1>2, <1>3
<1>7. u = s
  BY <1>5, <1>6, TextEmpty
<1> QED
  BY <1>2, <1>7 DEF u
(* A copy that is done has sent the whole message.                         *)
LEMMA SentDone ==
    ASSUME CopyInv, pc = "done"
    PROVE  /\ output = HeadRead(message) \o BehindHead(output)
           /\ Payload(BehindHead(output)) = Data(0, message.size)
           /\ ~(Len(output) < Len(HeadRead(message)))
<1> DEFINE h == HeadRead(message)
<1>1. TypeOK /\ StageInv /\ EofInv /\ output \in Text
  BY DEF CopyInv, TypeOK
<1>2. h \in Text /\ message.size \in Nat /\ (message.body = "none" => message.size = 0)
      /\ message \in Messages
  BY <1>1, ReaderTypes
<1>3. Data(0, message.size) \in Text
  <2>1. 0 \in Nat /\ 0 <= message.size
    BY <1>2
  <2> QED BY <1>2, <2>1, DataType
<1>4. /\ copy = "Writing" /\ span = <<>> /\ Held = <<>> /\ bodyRead = message.size
      /\ \/ stage = "terminator" /\ message.body = "none"
         \/ stage = "body"
         \/ stage = "lastChunk"
  BY <1>1 DEF EofInv
<1>5. Stream = output
  <2>1. Stream = output \o (<<>> \o <<>>) /\ <<>> \o <<>> = <<>>
    BY <1>1, <1>4, StreamType, TextEmpty DEF Pending
  <2> QED BY <1>1, <2>1, TextEmpty
<1>6. ASSUME NEW b \in Text, output = h \o b
      PROVE  BehindHead(output) = b /\ ~(Len(output) < Len(h))
  <2>1. SubSeq(h \o b, Len(h) + 1, Len(h \o b)) = b
    <3> HIDE DEF h
    <3> QED BY <1>2, Behind
  <2>2. Len(h \o b) = Len(h) + Len(b) /\ Len(h) \in Nat /\ Len(b) \in Nat
    <3> HIDE DEF h
    <3> QED BY <1>2, TextConcat
  <2>3. ~(Len(h) + Len(b) < Len(h))
    BY <2>2
  <2> QED BY <1>6, <2>1, <2>2, <2>3 DEF BehindHead
<1>7. CASE stage = "terminator"
  <2>1. message.body = "none" /\ output = h /\ Data(0, message.size) = <<>>
    BY <1>1, <1>2, <1>4, <1>5, <1>7, DataNone DEF StageInv
  <2>2. output = h \o <<>> /\ <<>> \in Text
    BY <1>2, <2>1, TextEmpty
  <2>3. BehindHead(output) = <<>> /\ ~(Len(output) < Len(h))
    BY <1>6, <2>2
  <2> QED BY <2>1, <2>2, <2>3 DEF Payload
<1>8. CASE stage = "body"
  <2>1. message.body = "length" /\ output = h \o Data(0, message.size)
    BY <1>1, <1>4, <1>5, <1>8 DEF StageInv
  <2>2. BehindHead(output) = Data(0, message.size) /\ ~(Len(output) < Len(h))
    BY <1>3, <1>6, <2>1
  <2> QED BY <2>1, <2>2 DEF Payload
<1>9. CASE stage = "lastChunk"
  <2>1. /\ message.body = "chunked" /\ output = h \o BehindHead(output)
        /\ Received(BehindHead(output)).data = Data(0, message.size)
    BY <1>1, <1>4, <1>5, <1>9 DEF StageInv, BodyStands
  <2>2. ~(Len(output) < Len(h))
    BY <1>1, <1>6, <2>1, BodyType
  <2> QED BY <2>1, <2>2 DEF Payload
<1> QED
  BY <1>4, <1>7, <1>8, <1>9

(* At any time a beginning of the text was sent, and all of it when the    *)
(* copy is done.                                                           *)
LEMMA SentStands == CopyInv => SentInv
<1> SUFFICES ASSUME CopyInv PROVE SentInv
  OBVIOUS
<1> DEFINE h == HeadRead(message)
           p == Payload(BehindHead(output))
           d == Data(0, message.size)
<1>1. TypeOK /\ StageInv /\ EofInv /\ output \in Text
  BY DEF CopyInv, TypeOK
<1>2. bodyRead \in Nat /\ message.size \in Nat /\ bodyRead <= message.size /\ h \in Text
      /\ message \in Messages
  BY <1>1, ReaderTypes
<1>3. h # <<>> /\ Len(h) \in Nat
  <2>1. /\ (StartText \o HeadersText) \in Text /\ Crlf \in Text /\ Len(Crlf) # 0
        /\ h = (StartText \o HeadersText) \o Crlf
    BY <1>1, ReaderTypes, CrlfType, TextEmpty
  <2>2. Len(h) = Len(StartText \o HeadersText) + Len(Crlf)
        /\ Len(StartText \o HeadersText) \in Nat /\ Len(Crlf) \in Nat
    <3> HIDE DEF h
    <3> QED BY <2>1, TextConcat
  <2>3. Len(h) # 0 /\ Len(h) \in Nat
    BY <2>1, <2>2
  <2> QED BY <1>2, <2>3, TextEmpty
<1>4. /\ Data(0, bodyRead) \in Text /\ Data(bodyRead, message.size) \in Text /\ d \in Text
      /\ d = Data(0, bodyRead) \o Data(bodyRead, message.size)
  <2>1. 0 \in Nat /\ 0 <= bodyRead /\ 0 <= message.size
    BY <1>2
  <2> QED BY <1>2, <2>1, DataType, DataConcat
<1>5. MessageText = h \o d /\ MessageText \in Text
  BY <1>2, <1>4, TextConcat DEF MessageText
<1>6. BehindHead(output) \in Text
  BY <1>1, BodyType
<1>7. p \in Text
  BY <1>6, ReceivedType, ReceiverIs DEF Payload
<1> HIDE DEF h, p, d
<1>8. h \o p \in Text /\ SentText \in Text
  <2>1. h \o p \in Text
    BY <1>2, <1>7, TextConcat
  <2> QED BY <1>1, <2>1 DEF SentText, h, p
<1>9. PICK b \in Text, z \in Text : Stream \o z = HeadRead(message) \o b /\ Body(b)
  BY <1>1, StreamStands DEF Stands
<1>10. CASE Len(output) < Len(h)
  <2>1. SentHead /\ SentText = output
    BY <1>1, <1>9, <1>10, Sent DEF h, SentText
  <2>2. Begins(output, h \o d)
    BY <1>1, <1>2, <1>4, <2>1, BeginsConcat DEF SentHead, h
  <2>3. pc # "done"
    BY <1>10, <1>1, <1>2, SentDone DEF h
  <2> QED BY <1>1, <1>2, <1>3, <1>5, <1>6, <1>7, <1>8, <1>10, <2>1, <2>2, <2>3
          DEF SentInv, h, p
<1>11. CASE ~(Len(output) < Len(h))
  <2>1. SentBody(b) /\ SentText = h \o p
    BY <1>1, <1>9, <1>11, Sent DEF h, p, SentText
  <2>2. PICK u \in Text : b = BehindHead(output) \o u
    BY <2>1 DEF SentBody, Begins
  <2>3. Begins(p, Data(0, bodyRead))
    <3>1. CASE message.body = "chunked"
      <4>1. Received(b).data = Data(0, bodyRead) /\ p = Received(BehindHead(output)).data
        BY <1>9, <3>1 DEF Body, Payload, p
      <4>2. Keeps(Received(BehindHead(output)), Received(b))
        BY <1>6, <2>2, ReceivedKeeps
      <4> QED BY <4>1, <4>2 DEF Keeps, Begins
    <3>2. CASE message.body # "chunked"
      <4>1. b = Data(0, bodyRead) /\ p = BehindHead(output)
        BY <1>9, <3>2 DEF Body, Payload, p
      <4> QED BY <4>1, <2>2 DEF Begins
    <3> QED BY <3>1, <3>2
  <2>4. Begins(p, d)
    BY <1>4, <1>7, <2>3, BeginsConcat
  <2>5. Begins(h \o p, h \o d)
    BY <1>2, <1>4, <1>7, <2>4, BeginsConcat
  <2>6. pc = "done" => SentText = MessageText
    BY <1>1, <1>2, <1>5, <2>1, SentDone DEF h, p, d
  <2>7. output = h \o BehindHead(output)
    BY <2>1 DEF SentBody, h
  <2> QED BY <1>1, <1>2, <1>3, <1>5, <1>6, <1>7, <1>8, <1>11, <2>1, <2>5, <2>6, <2>7
          DEF SentInv, h, p
<1> QED
  BY <1>10, <1>11

(* What is sent later goes on where the text ended.                        *)
LEMMA SentGrows ==
    ASSUME SentInv, SentInv', NEW w \in Text, output' = output \o w, message' = message
    PROVE  Begins(SentText, SentText')
<1> DEFINE h == HeadRead(message)
           q == BehindHead(output)
           p == Payload(q)
           r == Payload(BehindHead(output))'
<1>1. h \in Text /\ q \in Text /\ p \in Text /\ r \in Text /\ output \in Text /\ HeadRead(message') = h
  BY DEF SentInv
<1>2. Len(output') = Len(output) + Len(w) /\ Len(output) \in Nat /\ Len(w) \in Nat /\ Len(h) \in Nat
  BY <1>1, TextConcat
<1>3. /\ SentText = IF Len(output) < Len(h) THEN output ELSE h \o p
      /\ SentText' = IF Len(output') < Len(h) THEN output' ELSE h \o r
  BY DEF SentText
<1> HIDE DEF r
<1>4. CASE Len(output') < Len(h)
  <2>1. Len(output) < Len(h)
    BY <1>2, <1>4
  <2> QED BY <1>3, <1>4, <2>1 DEF Begins
<1>5. CASE ~(Len(output') < Len(h)) /\ Len(output) < Len(h)
  <2>1. Begins(output, h)
    BY <1>5 DEF SentInv, SentHead
  <2>2. Begins(output, h \o r)
    <3> HIDE DEF h
    <3> QED BY <1>1, <2>1, BeginsConcat
  <2> QED BY <1>3, <1>5, <2>2
<1>6. CASE ~(Len(output) < Len(h))
  <2>1. ~(Len(output') < Len(h))
    BY <1>2, <1>6
  <2>2. output = h \o q
    BY <1>6 DEF SentInv
  <2>3. BehindHead(output)' = q \o w
    <3> HIDE DEF h, q
    <3>1. q \o w \in Text
      BY <1>1, TextConcat
    <3>2. (h \o q) \o w = h \o (q \o w)
      <4>1. h \in Text /\ q \in Text /\ w \in Text
        BY <1>1
      <4> QED BY ONLY <4>1, TextAssociative, ZenonT(30)
    <3>3. SubSeq(h \o (q \o w), Len(h) + 1, Len(h \o (q \o w))) = q \o w
      BY <1>1, <3>1, Behind
    <3>4. output' = h \o (q \o w)
      BY <2>2, <3>2
    <3> QED BY <3>3, <3>4, <1>1 DEF BehindHead
  <2>4. Begins(p, r)
    <3>1. CASE message.body = "chunked"
      <4>1. p = Received(q).data /\ r = Received(q \o w).data
        BY <2>3, <3>1 DEF Payload, r
      <4>2. Keeps(Received(q), Received(q \o w))
        BY <1>1, ReceivedKeeps
      <4> QED BY <4>1, <4>2 DEF Keeps, Begins
    <3>2. CASE message.body # "chunked"
      <4>1. p = q /\ r = q \o w
        BY <2>3, <3>2 DEF Payload, r
      <4> QED BY <4>1 DEF Begins
    <3> QED BY <3>1, <3>2
  <2>5. Begins(h \o p, h \o r)
    <3> HIDE DEF h, p
    <3> QED BY <1>1, <2>4, BeginsConcat
  <2> QED BY <1>3, <1>6, <2>1, <2>5
<1> QED
  BY <1>4, <1>5, <1>6
-----------------------------------------------------------------------------
Status == CASE pc = "done" -> "complete" [] pc = "failed" -> "failed" [] OTHER -> "open"

(* What was sent of the head that is read is what was sent of the message, *)
(* if none of its pieces is empty.                                         *)
LEMMA TextWhole ==
    ASSUME NoEmptyPiece, CopyInv
    PROVE  /\ MessageText = HeadOf(message) \o Data(0, message.size)
           /\ SentText = IF Len(output) < Len(HeadOf(message)) THEN output
                         ELSE HeadOf(message) \o Payload(BodyOf(output))
<1>1. HeadOf(message) = HeadRead(message)
  BY HeadWhole DEF CopyInv, TypeOK
<1> QED
  BY <1>1 DEF MessageText, SentText, BodyOf, BehindHead

LEMMA TextWholeLater ==
    ASSUME NoEmptyPiece, CopyInv, message' = message
    PROVE  /\ MessageText' = HeadOf(message') \o Data(0, message.size)'
           /\ SentText' = IF Len(output') < Len(HeadOf(message')) THEN output'
                          ELSE HeadOf(message') \o Payload(BodyOf(output))'
<1>1. HeadOf(message') = HeadRead(message')
  BY HeadWhole DEF CopyInv, TypeOK
<1> QED
  BY <1>1 DEF MessageText, SentText, BodyOf, BehindHead

(* The copy implements the transfer, from its first state and step by      *)
(* step.                                                                   *)
LEMMA TransferInit == NoEmptyPiece /\ Init => Transfer!Init
<1> SUFFICES ASSUME NoEmptyPiece, Init PROVE Transfer!Init
  OBVIOUS
<1>1. SentInv /\ CopyInv
  BY CopyInit, SentStands
<1>3. HeadOf(message) = HeadRead(message)
  BY <1>1, HeadWhole DEF CopyInv, TypeOK
<1>2. Len(output) < Len(HeadRead(message)) /\ output = <<>>
  <2>1. output = <<>> /\ Len(<<>>) = 0
    BY EmptySeq DEF Init
  <2>2. Len(HeadRead(message)) \in Nat /\ Len(HeadRead(message)) # 0
    <3>1. HeadRead(message) \in Text /\ HeadRead(message) # <<>>
      BY <1>1 DEF SentInv
    <3> QED BY <3>1, TextConcat, TextEmpty
  <2> QED BY <2>1, <2>2
<1> QED
  BY <1>2, <1>3 DEF Init, Transfer!Init

(* A step of the copy sends a part of what is left, or fails, or changes   *)
(* nothing that the receiver sees.                                         *)
LEMMA TransferSend ==
    ASSUME NoEmptyPiece, SentInv, SentInv', NEW n \in 0 .. BufferSize, CopyInv, WriteText(n)
    PROVE  Transfer!Send
<1>1. /\ pc = "running" /\ pc' \in {"running", "waiting", "done"} /\ message' = message
      /\ output' = output \o SubSeq(span, 1, n) /\ SubSeq(span, 1, n) \in Text
  <2>1. span \in Text /\ n \in 0 .. Len(span)
    BY TextConcat DEF CopyInv, TypeOK, WriteText, Smaller
  <2>2. SubSeq(span, 1, n) \in Text
    BY <2>1, SplitText
  <2> QED BY <2>2 DEF WriteText, Writes, readerVars
<1>2. Begins(SentText, SentText')
  BY <1>1, SentGrows
<1>3. MessageText' = MessageText
  BY <1>1 DEF MessageText
<1>4. Begins(SentText', MessageText) /\ SentText \in Text /\ SentText' \in Text /\ MessageText \in Text
  BY <1>3 DEF SentInv
<1> DEFINE k == Len(SentText')
<1>5. k \in Len(SentText) .. Len(MessageText) /\ SentText' = SubSeq(MessageText, 1, k)
  <2>1. Len(SentText) \in Nat /\ k \in Nat /\ Len(SentText) <= k
    BY <1>2, <1>4, BeginsSubSeq
  <2>2. Len(MessageText) \in Nat /\ k <= Len(MessageText) /\ SentText' = SubSeq(MessageText, 1, k)
    BY <1>4, BeginsSubSeq
  <2> QED BY <2>1, <2>2
<1>6. pc' = "done" => k = Len(MessageText)
  BY <1>3 DEF SentInv
<1>7. Status = "open" /\ Status' = IF pc' = "done" THEN "complete" ELSE "open"
  BY <1>1 DEF Status
<1>8. /\ Status = "open"
      /\ \E i \in Len(SentText) .. Len(MessageText) : SentText' = SubSeq(MessageText, 1, i)
      /\ Status' \in {"open"} \cup IF Len(SentText') = Len(MessageText) THEN {"complete"} ELSE {}
      /\ MessageText' = MessageText
  BY <1>3, <1>5, <1>6, <1>7
<1>9. message' = message
  BY <1>1
<1> QED
  BY <1>8, <1>9, TextWhole, TextWholeLater DEF Transfer!Send, Status

LEMMA SentStandsLater == CopyInv' => SentInv'
  BY SentStands, PTL

LEMMA MessageKept == [Next]_vars => message' = message
  BY DEF Next, Poll, StartPoll, CopyPiece, ReadPiece, CopyRequestLine, RequestLineEnds,
         SectionEnds, CopyBody, ReadBody, BodyAnswers, CopyChunk, ReadChunk, ReadLastChunk,
         CopyPending, NextSection, BodyPending, CopyEof, ReadFails, WritePending, WriteText,
         WriteFails, SocketFires, SourceFires, BodyFires, vars, readerVars, copyVars

(* A step of the copy is a step of the transfer, or changes nothing the    *)
(* receiver sees.                                                          *)
LEMMA TransferStep ==
    NoEmptyPiece /\ CopyInv /\ CopyInv' /\ [Next]_vars
        => [Transfer!Next]_<<MessageText, SentText, Status>>
<1> SUFFICES ASSUME NoEmptyPiece, CopyInv, CopyInv', [Next]_vars
             PROVE  [Transfer!Next]_<<MessageText, SentText, Status>>
  OBVIOUS
<1>1. SentInv
  BY SentStands
<1>2. SentInv'
  BY SentStandsLater
<1>3. CASE \E n \in 0 .. BufferSize : WriteText(n)
  BY <1>1, <1>2, <1>3, TransferSend DEF Transfer!Next
<1>4. ASSUME message' = message, output' = output
      PROVE  MessageText' = MessageText /\ SentText' = SentText
  BY <1>4 DEF MessageText, SentText, Payload, BehindHead, HeadRead
<1>5. CASE ReadFails \/ WriteFails
  <2>1. message' = message /\ output' = output /\ pc = "running" /\ pc' = "failed"
    BY <1>5 DEF ReadFails, WriteFails, Reads, Writes, readerVars
  <2>2. Status = "open" /\ Status' = "failed"
    BY <2>1 DEF Status
  <2>3. MessageText' = MessageText /\ SentText' = SentText
    BY <1>4, <2>1
  <2> QED BY <2>1, <2>2, <2>3, TextWhole, TextWholeLater DEF Transfer!Next, Transfer!Fail, Status
<1>6. CASE \/ StartPoll \/ CopyPiece \/ CopyRequestLine \/ CopyBody \/ CopyChunk \/ CopyPending
           \/ CopyEof \/ WritePending \/ SocketFires \/ SourceFires \/ UNCHANGED vars
  <2>1. message' = message /\ output' = output
    BY <1>6 DEF StartPoll, CopyPiece, ReadPiece, ReadText, CopyRequestLine, RequestLineEnds,
                SectionEnds, CopyBody, ReadBody, BodyAnswers, CopyChunk, ReadChunk,
                ReadLastChunk, CopyPending, NextSection, BodyPending, CopyEof, WritePending,
                SocketFires, SourceFires, BodyFires, vars, readerVars, copyVars
  <2>2. \/ pc' = pc
        \/ pc \in {"waiting", "running"} /\ pc' \in {"waiting", "running"}
    BY <1>6 DEF StartPoll, CopyPiece, ReadText, CopyRequestLine, CopyBody, CopyChunk,
                CopyPending, CopyEof, WritePending, Writes, SocketFires, SourceFires,
                vars, copyVars
  <2>3. Status' = Status
    BY <2>2 DEF Status
  <2> QED BY <1>4, <2>1, <2>3
<1> QED
  BY <1>3, <1>5, <1>6 DEF Next, Poll

(* IoCopyFuture::poll implements ByteTransfer, for messages none of which  *)
(* has an empty reason or header value: the receiver gets all of the head  *)
(* and the units of the body in order, none lost and none twice, for       *)
(* messages of any length, buffers and chunks of any size; and a copy that *)
(* is done has sent them all.                                              *)
THEOREM CopyTransfers == NoEmptyPiece => (Spec => TransfersMessage)
<1>1. NoEmptyPiece /\ Init => Transfer!Init
  BY TransferInit
<1>2. NoEmptyPiece /\ CopyInv /\ CopyInv' /\ [Next]_vars
        => [Transfer!Next]_<<HeadOf(message) \o Data(0, message.size),
                IF Len(output) < Len(HeadOf(message)) THEN output
                ELSE HeadOf(message) \o Payload(BodyOf(output)),
                CASE pc = "done" -> "complete" [] pc = "failed" -> "failed" [] OTHER -> "open">>
  <2> SUFFICES ASSUME NoEmptyPiece, CopyInv, CopyInv', [Next]_vars
               PROVE  [Transfer!Next]_<<HeadOf(message) \o Data(0, message.size),
                IF Len(output) < Len(HeadOf(message)) THEN output
                ELSE HeadOf(message) \o Payload(BodyOf(output)),
                CASE pc = "done" -> "complete" [] pc = "failed" -> "failed" [] OTHER -> "open">>
    OBVIOUS
  <2>1. message' = message
    BY MessageKept
  <2> QED BY <2>1, TransferStep, TextWhole, TextWholeLater DEF Status
<1>3. NoEmptyPiece => NoEmptyPiece'
  BY DEF NoEmptyPiece
<1> QED
  BY <1>1, <1>2, <1>3, CopyInvariant, PTL DEF Spec, TransfersMessage, Transfer!Spec
=============================================================================
