---------------------------- MODULE ValueLemmas -----------------------------
(***************************************************************************)
(* Lemmas that the proofs of several components cite: about sequences and  *)
(* sets of numbers, about loops as functions of the number of turns, and   *)
(* about ByteStreams, Reassemblers, sequence numbers and TCPSenders as     *)
(* values.                                                                 *)
(***************************************************************************)
EXTENDS TCPSenderOps, ReassemblerOps, Integers, SequenceTheorems, WellFoundedInduction, TLAPS

(* Sequences *)

\* A function on 1..n is a sequence of length n.
LEMMA FunctionIsSeq ==
  ASSUME NEW S, NEW n \in Nat, NEW f \in [1 .. n -> S]
  PROVE  f \in Seq(S) /\ Len(f) = n
<1>1. f \in Seq(S)
  BY SeqDef
<1>2. DOMAIN f = 1 .. Len(f) /\ Len(f) \in Nat
  BY <1>1, LenProperties
<1> QED
  BY <1>1, <1>2

\* Three sequences are the same whichever two are joined first.
LEMMA Associates ==
  ASSUME NEW S
  PROVE  \A x, y, z \in Seq(S) : (x \o y) \o z = x \o (y \o z)
<1> TAKE x, y, z \in Seq(S)
<1> QED
  BY ConcatAssociative

\* A sequence is one of its own elements.
LEMMA SeqOfElements ==
  ASSUME NEW S, NEW s \in Seq(S)
  PROVE  s \in Seq(ToSet(s)) /\ \A x \in ToSet(s) : x \in S
<1>1. Len(s) \in Nat /\ DOMAIN s = 1 .. Len(s) /\ \A i \in 1 .. Len(s) : s[i] \in S
  BY LenProperties, ElementOfSeq
<1>2. \A i \in 1 .. Len(s) : s[i] \in ToSet(s)
  BY <1>1 DEF ToSet
<1>3. s = [i \in 1 .. Len(s) |-> s[i]]
  BY <1>1, SeqDef
<1>4. s \in [1 .. Len(s) -> ToSet(s)]
  BY <1>2, <1>3
<1>5. s \in Seq(ToSet(s))
  BY <1>1, <1>4, FunctionIsSeq
<1> QED
  BY <1>1, <1>5 DEF ToSet

\* The elements of a concatenation are those of its parts.
LEMMA ElementsOfConcat ==
  ASSUME NEW S, NEW s \in Seq(S), NEW t \in Seq(S)
  PROVE  ToSet(s \o t) = ToSet(s) \cup ToSet(t)
<1>1. /\ Len(s) \in Nat /\ Len(t) \in Nat
      /\ DOMAIN s = 1 .. Len(s) /\ DOMAIN t = 1 .. Len(t)
      /\ s \o t \in Seq(S) /\ Len(s \o t) = Len(s) + Len(t)
      /\ \A i \in 1 .. Len(s) + Len(t) :
           (s \o t)[i] = IF i <= Len(s) THEN s[i] ELSE t[i - Len(s)]
  BY LenProperties, ConcatProperties
<1>2. DOMAIN (s \o t) = 1 .. Len(s) + Len(t)
  BY <1>1, LenProperties
<1> DEFINE c == s \o t
<1> HIDE DEF c
<1>3. \A i \in DOMAIN c : c[i] \in ToSet(s) \cup ToSet(t)
  <2> SUFFICES ASSUME NEW i \in 1 .. Len(s) + Len(t)
               PROVE  c[i] \in ToSet(s) \cup ToSet(t)
    BY <1>2 DEF c
  <2>1. CASE i <= Len(s)
    BY <1>1, <2>1 DEF c, ToSet
  <2>2. CASE ~(i <= Len(s))
    <3>1. i - Len(s) \in DOMAIN t /\ c[i] = t[i - Len(s)]
      BY <1>1, <2>2 DEF c
    <3> QED
      BY <3>1 DEF ToSet
  <2> QED
    BY <2>1, <2>2
<1>4. \A i \in DOMAIN s : s[i] \in ToSet(c)
  <2> SUFFICES ASSUME NEW i \in 1 .. Len(s) PROVE s[i] \in ToSet(c)
    BY <1>1
  <2>1. i \in DOMAIN c /\ c[i] = s[i]
    BY <1>1, <1>2 DEF c
  <2> QED
    BY <2>1 DEF ToSet
<1>5. \A i \in DOMAIN t : t[i] \in ToSet(c)
  <2> SUFFICES ASSUME NEW i \in 1 .. Len(t) PROVE t[i] \in ToSet(c)
    BY <1>1
  <2>1. Len(s) + i \in DOMAIN c /\ c[Len(s) + i] = t[i]
    BY <1>1, <1>2 DEF c
  <2> QED
    BY <2>1 DEF ToSet
<1>6. ToSet(c) = ToSet(s) \cup ToSet(t)
  BY <1>3, <1>4, <1>5 DEF ToSet
<1> QED
  BY <1>6 DEF c

\* A sequence is a prefix of what it is extended to.
LEMMA PrefixOfConcat ==
  ASSUME NEW S, NEW s \in Seq(S), NEW t \in Seq(S)
  PROVE  IsPrefix(s, s \o t)
<1>1. /\ s \o t \in Seq(S)
      /\ Len(s) \in Nat /\ Len(t) \in Nat
      /\ Len(s \o t) = Len(s) + Len(t)
      /\ \A i \in 1 .. Len(s) : (s \o t)[i] = s[i]
  BY ConcatProperties, LenProperties
<1>2. SubSeq(s, 1, Len(s)) = s
  BY SubSeqFull
<1>3. /\ SubSeq(s \o t, 1, Len(s)) \in Seq(S)
      /\ Len(SubSeq(s \o t, 1, Len(s))) = Len(s)
      /\ \A i \in 1 .. Len(s) : SubSeq(s \o t, 1, Len(s))[i] = s[i]
  <2>1. \A i \in 1 .. Len(s) : (s \o t)[i] \in S
    BY <1>1, ElementOfSeq
  <2> DEFINE p == SubSeq(s \o t, 1, Len(s))
  <2>2. /\ p \in Seq(S)
        /\ Len(p) = IF 1 <= Len(s) THEN Len(s) - 1 + 1 ELSE 0
        /\ \A i \in 1 .. Len(s) - 1 + 1 : p[i] = (s \o t)[1 + i - 1]
    BY <1>1, <2>1, SubSeqProperties
  <2> HIDE DEF p
  <2>3. Len(p) = Len(s) /\ Len(s) - 1 + 1 = Len(s)
    BY <1>1, <2>2
  <2>4. \A i \in 1 .. Len(s) : p[i] = s[i]
    <3> TAKE i \in 1 .. Len(s)
    <3>1. 1 + i - 1 = i
      BY <1>1
    <3> QED
      BY <1>1, <2>2, <2>3, <3>1
  <2> QED
    BY <2>2, <2>3, <2>4 DEF p
<1>4. SubSeq(s \o t, 1, Len(s)) = s
  BY <1>3, SeqEqual
<1> QED
  BY <1>1, <1>2, <1>4 DEF IsPrefix

\* The second part of a sequence has elements of the sequence only.
LEMMA TailIsSeq ==
  ASSUME NEW S, NEW T, NEW U, NEW s \in Seq(S), NEW t \in Seq(T), s \o t \in Seq(U)
  PROVE  t \in Seq(U)
<1> DEFINE m == Len(s)
           n == Len(t)
<1>1. /\ m \in Nat /\ n \in Nat /\ t = [i \in 1 .. n |-> t[i]]
      /\ s \in Seq(S \cup T) /\ t \in Seq(S \cup T)
  <2>1. /\ m \in Nat /\ n \in Nat /\ s = [i \in 1 .. m |-> s[i]] /\ t = [i \in 1 .. n |-> t[i]]
        /\ \A i \in 1 .. m : s[i] \in S \cup T
        /\ \A i \in 1 .. n : t[i] \in S \cup T
    BY LenProperties, ElementOfSeq, SeqDef
  <2>2. s \in [1 .. m -> S \cup T] /\ t \in [1 .. n -> S \cup T]
    BY <2>1
  <2> QED
    BY <2>1, <2>2, SeqDef
<1>2. /\ Len(s \o t) = m + n
      /\ \A i \in 1 .. m + n : (s \o t)[i] = IF i <= m THEN s[i] ELSE t[i - m]
  BY <1>1, ConcatProperties
<1>3. \A i \in 1 .. m + n : (s \o t)[i] \in U
  BY <1>2, ElementOfSeq
<1>4. \A i \in 1 .. n : t[i] \in U
  <2> TAKE i \in 1 .. n
  <2>1. m + i \in 1 .. m + n /\ ~(m + i <= m) /\ (m + i) - m = i
    BY <1>1
  <2> HIDE DEF m, n
  <2> QED
    BY <1>2, <1>3, <2>1
<1> HIDE DEF m, n
<1>5. t \in [1 .. n -> U]
  BY <1>1, <1>4
<1> QED
  BY <1>1, <1>5, SeqDef

\* Cutting a sequence in two at n loses nothing.
LEMMA Cut ==
  ASSUME NEW S, NEW s \in Seq(S), NEW n \in 0 .. Len(s)
  PROVE  /\ Take(s, n) \in Seq(S) /\ Len(Take(s, n)) = n
         /\ Drop(s, n) \in Seq(S) /\ Len(Drop(s, n)) = Len(s) - n
         /\ Take(s, n) \o Drop(s, n) = s
<1>1. Len(s) \in Nat /\ n \in Nat /\ n <= Len(s)
  BY LenProperties
<1>2. \A i \in 1 .. Len(s) : s[i] \in S
  BY ElementOfSeq
<1>3. /\ SubSeq(s, 1, n) \in Seq(S)
      /\ Len(SubSeq(s, 1, n)) = IF 1 <= n THEN n - 1 + 1 ELSE 0
  BY <1>1, <1>2, SubSeqProperties
<1>4. /\ SubSeq(s, n + 1, Len(s)) \in Seq(S)
      /\ Len(SubSeq(s, n + 1, Len(s))) = IF n + 1 <= Len(s) THEN Len(s) - (n + 1) + 1 ELSE 0
  <2>1. n + 1 \in Int /\ Len(s) \in Int
    BY <1>1
  <2>2. \A i \in n + 1 .. Len(s) : s[i] \in S
    BY <1>1, <1>2
  <2> QED
    BY <2>1, <2>2, SubSeqProperties, ZenonT(40)
<1>5. SubSeq(s, 1, n) \o SubSeq(s, n + 1, Len(s)) = SubSeq(s, 1, Len(s))
  <2>1. 1 \in 1 .. Len(s) + 1 /\ n \in 1 - 1 .. Len(s) /\ Len(s) \in n .. Len(s)
    BY <1>1
  <2> QED
    BY <2>1, ConcatAdjacentSubSeq, Zenon
<1>6. SubSeq(s, 1, Len(s)) = s
  BY SubSeqFull
<1>7. /\ (IF 1 <= n THEN n - 1 + 1 ELSE 0) = n
      /\ (IF n + 1 <= Len(s) THEN Len(s) - (n + 1) + 1 ELSE 0) = Len(s) - n
  BY <1>1
<1>8. Len(SubSeq(s, 1, n)) = n /\ Len(SubSeq(s, n + 1, Len(s))) = Len(s) - n
  BY <1>3, <1>4, <1>7
<1> QED
  BY <1>3, <1>4, <1>5, <1>6, <1>8, Zenon DEF Take, Drop

\* The two parts of a cut sequence, element by element.
LEMMA Parts ==
  ASSUME NEW S, NEW b \in Seq(S), NEW k \in 0 .. Len(b)
  PROVE  /\ Take(b, k) \in Seq(S) /\ Len(Take(b, k)) = k
         /\ Drop(b, k) \in Seq(S) /\ Len(Drop(b, k)) = Len(b) - k
         /\ \A i \in 1 .. k : Take(b, k)[i] = b[i]
         /\ \A i \in 1 .. Len(b) - k : Drop(b, k)[i] = b[k + i]
<1> DEFINE t == Take(b, k)
           d == Drop(b, k)
           n == Len(b)
<1>1. t \in Seq(S) /\ Len(t) = k /\ d \in Seq(S) /\ Len(d) = n - k /\ t \o d = b
  BY Cut, Zenon
<1>2. n \in Nat /\ k \in 0 .. n
  BY LenProperties
<1> HIDE DEF t, d, n
<1>3. /\ Len(t \o d) = k + (n - k)
      /\ \A i \in 1 .. k + (n - k) : (t \o d)[i] = IF i <= k THEN t[i] ELSE d[i - k]
  <2>1. /\ Len(t \o d) = Len(t) + Len(d)
        /\ \A i \in 1 .. Len(t) + Len(d) :
             (t \o d)[i] = IF i <= Len(t) THEN t[i] ELSE d[i - Len(t)]
    BY <1>1, ConcatProperties, Zenon
  <2> QED
    BY <1>1, <2>1
<1>4. \A i \in 1 .. k : t[i] = b[i]
  <2> TAKE i \in 1 .. k
  <2>1. i \in 1 .. k + (n - k) /\ i <= k
    BY <1>2
  <2> QED
    BY <1>1, <1>3, <2>1
<1>5. \A i \in 1 .. n - k : d[i] = b[k + i]
  <2> TAKE i \in 1 .. n - k
  <2>1. k + i \in 1 .. k + (n - k) /\ ~(k + i <= k) /\ (k + i) - k = i
    BY <1>2
  <2> QED
    BY <1>1, <1>3, <2>1
<1> QED
  BY <1>1, <1>4, <1>5 DEF t, d, n

-----------------------------------------------------------------------------
(* ByteStreams as values *)

\* Ending a stream, or breaking it, moves no byte.
LEMMA CloseIsStream ==
  ASSUME NEW B, NEW bs \in ByteStreams(B)
  PROVE  /\ Close(bs) \in ByteStreams(B) /\ Close(bs).is_closed
         /\ Close(bs).capacity = bs.capacity /\ Close(bs).error = bs.error
         /\ Close(bs).buffer = bs.buffer /\ Close(bs).bytes_pushed = bs.bytes_pushed
         /\ Close(bs).bytes_popped = bs.bytes_popped
         /\ bs.is_closed => Close(bs) = bs
BY DEF Close, ByteStreams

LEMMA SetErrorIsStream ==
  ASSUME NEW B, NEW bs \in ByteStreams(B)
  PROVE  /\ SetError(bs) \in ByteStreams(B) /\ SetError(bs).error
         /\ SetError(bs).capacity = bs.capacity /\ SetError(bs).is_closed = bs.is_closed
         /\ SetError(bs).buffer = bs.buffer /\ SetError(bs).bytes_pushed = bs.bytes_pushed
         /\ SetError(bs).bytes_popped = bs.bytes_popped
BY DEF SetError, ByteStreams

\* A push of what there is space for, and one that is refused.
PushedWith(q, bs, data) ==
  LET more == IF bs.is_closed \/ bs.error THEN << >> ELSE data IN
  /\ q.buffer = bs.buffer \o more
  /\ q.bytes_pushed = bs.bytes_pushed + Len(more)
  /\ q.bytes_popped = bs.bytes_popped /\ q.capacity = bs.capacity
  /\ q.error = bs.error /\ q.is_closed = bs.is_closed

LEMMA PushIsStream ==
  ASSUME NEW B, NEW bs \in ByteStreams(B), NEW data \in Seq(B),
         bs.is_closed \/ bs.error \/ Len(data) <= AvailableCapacity(bs)
  PROVE  Push(bs, data) \in ByteStreams(B) /\ PushedWith(Push(bs, data), bs, data)
<1> DEFINE more == IF bs.is_closed \/ bs.error THEN << >> ELSE data
           q == Push(bs, data)
<1>1. /\ bs.buffer \in Seq(B) /\ bs.bytes_pushed \in Nat /\ Len(data) \in Nat
      /\ bs.bytes_popped \in Nat /\ bs.capacity \in Nat
  BY LenProperties DEF ByteStreams
<1>2. Accepted(bs, data) = more
  <2>1. CASE bs.is_closed \/ bs.error
    BY <2>1 DEF Accepted
  <2>2. CASE ~(bs.is_closed \/ bs.error)
    <3>1. MinOf(Len(data), AvailableCapacity(bs)) = Len(data)
      BY <2>2 DEF MinOf
    <3>2. Take(data, Len(data)) = data
      BY SubSeqFull DEF Take
    <3> QED
      BY <2>2, <3>1, <3>2 DEF Accepted
  <2> QED
    BY <2>1, <2>2
<1>3. more \in Seq(B) /\ Len(more) \in Nat
  BY <1>1, EmptySeq
<1> HIDE DEF more
<1> DEFINE buffer == bs.buffer \o more
           pushed == bs.bytes_pushed + Len(more)
<1>4. buffer \in Seq(B) /\ pushed \in Nat
  BY <1>1, <1>3, ConcatProperties
<1>5. q = [bs EXCEPT !.buffer = buffer, !.bytes_pushed = pushed]
  BY <1>2 DEF Push
<1> HIDE DEF q, buffer, pushed
<1>6. /\ q \in ByteStreams(B) /\ q.buffer = buffer /\ q.bytes_pushed = pushed
      /\ q.bytes_popped = bs.bytes_popped /\ q.capacity = bs.capacity
      /\ q.error = bs.error /\ q.is_closed = bs.is_closed
  BY <1>4, <1>5 DEF ByteStreams
<1> QED
  BY <1>6, Zenon DEF PushedWith, more, q, buffer, pushed

\* A pop of what is buffered, and one that an error refuses.
PoppedOf(q, bs, k) ==
  LET less == IF bs.error THEN 0 ELSE k IN
  /\ q.buffer = Drop(bs.buffer, less)
  /\ q.bytes_popped = bs.bytes_popped + less
  /\ q.bytes_pushed = bs.bytes_pushed /\ q.capacity = bs.capacity
  /\ q.error = bs.error /\ q.is_closed = bs.is_closed

LEMMA PopIsStream ==
  ASSUME NEW B, NEW bs \in ByteStreams(B), NEW k \in 0 .. Len(bs.buffer)
  PROVE  Pop(bs, k) \in ByteStreams(B) /\ PoppedOf(Pop(bs, k), bs, k)
<1> DEFINE less == IF bs.error THEN 0 ELSE k
           rest == Drop(bs.buffer, less)
           popped == bs.bytes_popped + less
           q == Pop(bs, k)
<1>1. /\ bs.buffer \in Seq(B) /\ Len(bs.buffer) \in Nat /\ bs.bytes_popped \in Nat
      /\ k \in Nat /\ k <= Len(bs.buffer)
  BY LenProperties DEF ByteStreams
<1>2. Removed(bs, k) = less
  <2>1. IsFinished(bs) => Len(bs.buffer) = 0
    BY DEF IsFinished
  <2>2. MinOf(k, Len(bs.buffer)) = k
    BY <1>1 DEF MinOf
  <2> QED
    BY <1>1, <2>1, <2>2 DEF Removed
<1>3. less \in 0 .. Len(bs.buffer)
  BY <1>1
<1> HIDE DEF less
<1>4. rest \in Seq(B) /\ popped \in Nat
  <2>1. rest \in Seq(B)
    BY <1>1, <1>3, Cut, Zenon
  <2>2. popped \in Nat
    BY <1>1, <1>3
  <2> QED
    BY <2>1, <2>2
<1>5. q = [bs EXCEPT !.buffer = rest, !.bytes_popped = popped]
  BY <1>2, Zenon DEF Pop
<1> HIDE DEF q, rest, popped
<1>6. /\ q \in ByteStreams(B) /\ q.buffer = rest /\ q.bytes_popped = popped
      /\ q.capacity = bs.capacity /\ q.error = bs.error
      /\ q.bytes_pushed = bs.bytes_pushed /\ q.is_closed = bs.is_closed
  BY <1>1, <1>4, <1>5 DEF ByteStreams
<1> QED
  BY <1>6, Zenon DEF PoppedOf, q, rest, popped, less

\* Of a sequence, what is taken later begins with what was taken earlier.
LEMMA TakeMore ==
  ASSUME NEW S, NEW s \in Seq(S), NEW n \in 0 .. Len(s), NEW k \in 0 .. Len(s) - n
  PROVE  /\ SubSeq(s, n + 1, n + k) \in Seq(S) /\ Len(SubSeq(s, n + 1, n + k)) = k
         /\ Take(s, n + k) = Take(s, n) \o SubSeq(s, n + 1, n + k)
<1> DEFINE m == n + k
           t == SubSeq(s, n + 1, m)
<1>1. /\ Len(s) \in Nat /\ n \in Nat /\ k \in Nat /\ m \in 0 .. Len(s)
      /\ n + 1 \in Int /\ m \in Int
  BY LenProperties
<1>2. \A i \in n + 1 .. m : s[i] \in S
  BY <1>1, ElementOfSeq
<1>3. t \in Seq(S) /\ Len(t) = IF n + 1 <= m THEN m - (n + 1) + 1 ELSE 0
  <2> HIDE DEF m
  <2> QED
    BY <1>1, <1>2, SubSeqProperties, ZenonT(40)
<1>4. (IF n + 1 <= m THEN m - (n + 1) + 1 ELSE 0) = k
  BY <1>1
<1>5. SubSeq(s, 1, n) \o SubSeq(s, n + 1, m) = SubSeq(s, 1, m)
  <2>1. 1 \in 1 .. Len(s) + 1 /\ n \in 1 - 1 .. Len(s) /\ m \in n .. Len(s)
    BY <1>1
  <2> HIDE DEF m
  <2> QED
    BY <2>1, ConcatAdjacentSubSeq, Zenon
<1>6. Len(t) = k
  BY <1>3, <1>4
<1>7. Take(s, m) = Take(s, n) \o t
  BY <1>5, Zenon DEF Take
<1> QED
  BY <1>3, <1>6, <1>7

-----------------------------------------------------------------------------
(* Sets of numbers *)

\* Every set of natural numbers has a least one.
LEMMA LeastExists ==
  ASSUME NEW T \in SUBSET Nat, T # {}
  PROVE  \E x \in T : \A y \in T : x <= y
<1> DEFINE R == OpToRel(<, Nat)
<1>1. IsWellFoundedOn(R, Nat)
  BY NatLessThanWellFounded
<1>2. \A x, y \in Nat : x < y => << x, y >> \in R
  BY DEF OpToRel
<1> HIDE DEF R
<1>3. PICK x \in T : \A y \in T : ~ (<< y, x >> \in R)
  BY <1>1, WFMin
<1>4. \A y \in T : ~ (y < x)
  BY <1>2, <1>3
<1>5. \A y \in T : x <= y
  BY <1>4
<1> QED
  BY <1>5

LEMMA MinIsLeast ==
  ASSUME NEW T \in SUBSET Nat, T # {}
  PROVE  Min(T) \in T /\ \A y \in T : Min(T) <= y
BY LeastExists, Zenon DEF Min

\* Every bounded set of them has a greatest one.
LEMMA MaxIsGreatest ==
  ASSUME NEW n \in Nat, NEW T \in SUBSET (0 .. n), T # {}
  PROVE  Max(T) \in T /\ \A y \in T : Max(T) >= y
<1> DEFINE U == { n - x : x \in T }
<1>1. U \in SUBSET Nat
  OBVIOUS
<1>2. U # {}
  <2>1. PICK x \in T : TRUE
    OBVIOUS
  <2>2. n - x \in U
    BY <2>1
  <2> QED
    BY <2>2
<1>3. PICK u \in U : \A v \in U : u <= v
  BY <1>1, <1>2, LeastExists
<1>4. PICK x \in T : u = n - x
  OBVIOUS
<1>5. \A y \in T : x >= y
  <2> TAKE y \in T
  <2>1. n - y \in U /\ u <= n - y
    BY <1>3
  <2>2. x \in 0 .. n /\ y \in 0 .. n
    OBVIOUS
  <2> QED
    BY <1>4, <2>1, <2>2
<1> QED
  BY <1>5, Zenon DEF Max

-----------------------------------------------------------------------------
(* Loops, as functions of the number of turns *)

\* Induction along an interval.
LEMMA IntervalInduction ==
  ASSUME NEW n \in Nat, NEW T, 0 \in T, \A i \in 1 .. n : i - 1 \in T => i \in T
  PROVE  0 .. n \subseteq T
<1> DEFINE U == { i \in 0 .. n : i \notin T }
<1> SUFFICES ASSUME U # {} PROVE FALSE
  OBVIOUS
<1>1. PICK i \in U : \A j \in U : i <= j
  <2>1. U \in SUBSET Nat
    OBVIOUS
  <2> QED
    BY <2>1, LeastExists
<1>2. i \in 1 .. n /\ i - 1 \in 0 .. n /\ ~(i <= i - 1)
  BY <1>1
<1>3. i - 1 \in T
  BY <1>1, <1>2
<1> QED
  BY <1>1, <1>2, <1>3

\* The turns of a loop, and what it holds after each of them.
Turnings(S, n) == [1 .. n -> [S -> S]]
Runs(f, start, turn, n) == f[0] = start /\ \A i \in 1 .. n : f[i] = turn[i][f[i - 1]]

\* A loop whose turns stay in S can be run n times.
LEMMA LoopExists ==
  ASSUME NEW S, NEW start \in S, NEW n \in Nat, NEW turn \in Turnings(S, n)
  PROVE  \E f \in [0 .. n -> S] : Runs(f, start, turn, n)
<1> USE DEF Turnings, Runs
<1> DEFINE Run(m, f) == Runs(f, start, turn, m)
           T == { m \in 0 .. n : \E f \in [0 .. m -> S] : Run(m, f) }
<1>1. 0 \in T
  <2> DEFINE f == [i \in 0 .. 0 |-> start]
  <2>1. f \in [0 .. 0 -> S] /\ Run(0, f)
    OBVIOUS
  <2> HIDE DEF f, Run
  <2> QED
    BY <2>1
<1>2. \A m \in 1 .. n : m - 1 \in T => m \in T
  <2> SUFFICES ASSUME NEW m \in 1 .. n, m - 1 \in T PROVE m \in T
    OBVIOUS
  <2>0. PICK f \in [0 .. m - 1 -> S] : Run(m - 1, f)
    OBVIOUS
  <2> DEFINE last == turn[m][f[m - 1]]
             g == [i \in 0 .. m |-> IF i = m THEN last ELSE f[i]]
  <2>1. last \in S
    BY DEF last
  <2>2. g \in [0 .. m -> S]
    BY <2>1
  <2>3. g[0] = start
    BY <2>0
  <2>4. \A i \in 1 .. m : g[i] = turn[i][g[i - 1]]
    <3> TAKE i \in 1 .. m
    <3>1. g[i - 1] = f[i - 1]
      <4>1. i - 1 \in 0 .. m /\ i - 1 # m
        OBVIOUS
      <4> QED
        BY <4>1
    <3>2. CASE i = m
      BY <3>1, <3>2
    <3>3. CASE i # m
      <4>1. i \in 1 .. m - 1 /\ g[i] = f[i]
        BY <3>3
      <4> QED
        BY <2>0, <3>1, <4>1
    <3> QED
      BY <3>2, <3>3
  <2>5. \E h \in [0 .. m -> S] : Run(m, h)
    <3> HIDE DEF g
    <3> QED
      BY <2>2, <2>3, <2>4
  <2>6. m \in 0 .. n
    OBVIOUS
  <2> HIDE DEF Run, Runs
  <2> QED
    BY <2>5, <2>6
<1> HIDE DEF T
<1>3. n \in T
  <2>1. 0 .. n \subseteq T
    BY <1>1, <1>2, IntervalInduction
  <2> QED
    BY <2>1
<1>4. PICK f \in [0 .. n -> S] : Run(n, f)
  BY <1>3 DEF T
<1> QED
  BY <1>4

-----------------------------------------------------------------------------
(***************************************************************************)
(* What holds of a Reassembler whatever stream st it reassembles: what it  *)
(* writes is st from its beginning, and what it stores is true.  The two   *)
(* need each other, and the counters of the output: try_assemble() writes  *)
(* what is stored, push_output() moves next_index_ by what the counters    *)
(* say there is space for.  Sound is what holds between the steps that     *)
(* insert() is made of; in between, a stored segment may begin before      *)
(* next_index_, which try_assemble() mends.  The proofs of the Reassembler *)
(* and of the TCPReceiver, whose streams differ by the SYN, both cite the  *)
(* lemmas.                                                                 *)
(***************************************************************************)

IsStream(st) == st \in Seq(ToSet(st))

\* s is what the stream holds from index k on; nothing is held everywhere.
IsSlice(st, s, k) ==
  /\ s \in Seq(ToSet(st))
  /\ Len(s) > 0 => k + Len(s) <= Len(st)
  /\ \A i \in 1 .. Len(s) : s[i] = st[k + i]

\* The output of a stream that is not broken, its counters in step.
OutputOK(st, bs) ==
  /\ bs \in ByteStreams(ToSet(st)) /\ ~bs.error
  /\ bs.bytes_pushed = bs.bytes_popped + Len(bs.buffer)
  /\ Len(bs.buffer) <= bs.capacity

\* The stored segments are true and share no index.
SegmentsOK(st, segs) ==
  /\ DOMAIN segs \subseteq Nat
  /\ \A k \in DOMAIN segs : IsSlice(st, segs[k], k)
  /\ \A j, k \in DOMAIN segs : j < k => End(segs, j) <= k

\* The fields of a reassembler, with what stands in the two that no proof needs.
IsReassembler(st, r) ==
  r \in [ output : ByteStreams(ToSet(st)), segments : {r.segments}, next_index : Nat,
          bytes_pending : {r.bytes_pending}, eof_flag : BOOLEAN, eof_index : Nat ]

\* The bytes read and buffered are the stream up to next_index_.  The end it
\* was told is the stream's, or has been passed and closes nothing any more.
Sound(st, r, read) ==
  /\ IsReassembler(st, r)
  /\ OutputOK(st, r.output)
  /\ SegmentsOK(st, r.segments)
  /\ IsSlice(st, read \o r.output.buffer, 0)
  /\ Len(read) + Len(r.output.buffer) = r.next_index
  /\ r.eof_flag => r.eof_index = Len(st) \/ r.eof_index < r.next_index
  /\ r.output.is_closed => r.eof_flag /\ r.next_index = Len(st)

\* Every stored segment waits for an earlier byte.
AllWait(r) == \A k \in DOMAIN r.segments : k > r.next_index

\* What no step that inserts takes back, and what it leaves alone.
Onward(r, q) ==
  /\ q.next_index >= r.next_index
  /\ r.output.is_closed => q.output.is_closed
  /\ q.output.bytes_popped = r.output.bytes_popped
  /\ q.output.capacity = r.output.capacity
  /\ q.eof_flag = r.eof_flag /\ q.eof_index = r.eof_index

\* A step that the rest of insert() may build on, or end with.
Step(st, read, r, q) == Sound(st, q, read) /\ AllWait(q) /\ Onward(r, q)

-----------------------------------------------------------------------------
(* Slices of the stream *)

\* What is cut out of the stream is a slice.
LEMMA SliceIsSlice ==
  ASSUME NEW st, NEW k \in Nat, NEW n \in Nat,
         IsStream(st), k + n <= Len(st)
  PROVE  LET s == SubSeq(st, k + 1, k + n) IN IsSlice(st, s, k) /\ Len(s) = n
<1>1. Len(st) \in Nat /\ \A i \in 1 .. Len(st) : st[i] \in ToSet(st)
  BY LenProperties, ElementOfSeq DEF IsStream
<1> DEFINE s == SubSeq(st, k + 1, k + n)
<1>2. k + 1 \in Int /\ k + n \in Int /\ \A i \in k + 1 .. k + n : st[i] \in ToSet(st)
  BY <1>1
<1>3. /\ s \in Seq(ToSet(st))
      /\ Len(s) = IF k + 1 <= k + n THEN k + n - (k + 1) + 1 ELSE 0
      /\ \A i \in 1 .. k + n - (k + 1) + 1 : s[i] = st[k + 1 + i - 1]
  BY <1>2, SubSeqProperties
<1> HIDE DEF s
<1>4. Len(s) = n
  BY <1>3
<1>5. \A i \in 1 .. n : s[i] = st[k + i]
  <2> TAKE i \in 1 .. n
  <2>1. i \in 1 .. k + n - (k + 1) + 1 /\ k + 1 + i - 1 = k + i
    OBVIOUS
  <2> QED
    BY <1>3, <2>1
<1>6. IsSlice(st, s, k)
  BY <1>3, <1>4, <1>5 DEF IsSlice
<1> QED
  BY <1>4, <1>6 DEF s

\* There is one slice of each length at an index.
LEMMA SlicesAgree ==
  ASSUME NEW st, NEW k \in Nat, NEW s, NEW t,
         IsSlice(st, s, k), IsSlice(st, t, k), Len(s) = Len(t)
  PROVE  s = t
<1>1. /\ s \in Seq(ToSet(st)) /\ t \in Seq(ToSet(st))
      /\ \A i \in 1 .. Len(s) : s[i] = t[i]
  BY DEF IsSlice
<1> QED
  BY <1>1, SeqEqual

\* Cutting a slice gives slices.
LEMMA CutSlice ==
  ASSUME NEW st, NEW k \in Nat, NEW s, NEW n \in 0 .. Len(s),
         IsStream(st), IsSlice(st, s, k)
  PROVE  /\ IsSlice(st, Take(s, n), k) /\ Len(Take(s, n)) = n
         /\ IsSlice(st, Drop(s, n), k + n) /\ Len(Drop(s, n)) = Len(s) - n
<1> DEFINE head == Take(s, n)
           tail == Drop(s, n)
<1>1. /\ s \in Seq(ToSet(st)) /\ Len(s) \in Nat /\ n \in Nat /\ n <= Len(s)
      /\ Len(st) \in Nat /\ (Len(s) > 0 => k + Len(s) <= Len(st))
      /\ \A i \in 1 .. Len(s) : s[i] = st[k + i]
  BY LenProperties DEF IsSlice, IsStream
<1>2. /\ head \in Seq(ToSet(st)) /\ Len(head) = n
      /\ tail \in Seq(ToSet(st)) /\ Len(tail) = Len(s) - n
      /\ head \o tail = s
  BY <1>1, Cut
<1> HIDE DEF head, tail
<1>3. \A i \in 1 .. Len(head) + Len(tail) :
        s[i] = IF i <= Len(head) THEN head[i] ELSE tail[i - Len(head)]
  BY <1>2, ConcatProperties
<1>4. \A i \in 1 .. n : head[i] = st[k + i]
  <2> TAKE i \in 1 .. n
  <2>1. i \in 1 .. Len(s) /\ i \in 1 .. Len(head) + Len(tail) /\ i <= Len(head)
    BY <1>1, <1>2
  <2>2. s[i] = head[i]
    BY <1>3, <2>1
  <2> QED
    BY <1>1, <2>1, <2>2
<1>5. \A i \in 1 .. Len(s) - n : tail[i] = st[k + n + i]
  <2> TAKE i \in 1 .. Len(s) - n
  <2>1. n + i \in 1 .. Len(s) /\ ~(n + i <= n) /\ n + i - n = i /\ k + (n + i) = k + n + i
    BY <1>1
  <2>2. s[n + i] = tail[i]
    <3>1. n + i \in 1 .. Len(head) + Len(tail) /\ ~(n + i <= Len(head)) /\ n + i - Len(head) = i
      BY <1>1, <1>2, <2>1
    <3> DEFINE j == n + i
    <3> HIDE DEF j
    <3>2. s[j] = tail[j - Len(head)]
      <4>1. j \in 1 .. Len(head) + Len(tail) /\ ~(j <= Len(head))
        BY <3>1 DEF j
      <4> QED
        BY <1>3, <4>1
    <3>3. j = n + i /\ j - Len(head) = i
      BY <3>1 DEF j
    <3> QED
      BY <3>2, <3>3
  <2> QED
    BY <1>1, <2>1, <2>2
<1>6. /\ n > 0 => k + n <= Len(st)
      /\ Len(s) - n > 0 => (k + n) + (Len(s) - n) <= Len(st)
  BY <1>1
<1> QED
  BY <1>1, <1>2, <1>4, <1>5, <1>6 DEF IsSlice, head, tail

\* A slice and the one that follows it are one.
LEMMA JoinSlices ==
  ASSUME NEW st, NEW k \in Nat, NEW s, NEW t,
         IsSlice(st, s, k), IsSlice(st, t, k + Len(s))
  PROVE  IsSlice(st, s \o t, k) /\ Len(s \o t) = Len(s) + Len(t)
<1>1. /\ s \in Seq(ToSet(st)) /\ t \in Seq(ToSet(st)) /\ Len(s) \in Nat /\ Len(t) \in Nat
      /\ Len(s) > 0 => k + Len(s) <= Len(st)
      /\ Len(t) > 0 => k + Len(s) + Len(t) <= Len(st)
      /\ \A i \in 1 .. Len(s) : s[i] = st[k + i]
      /\ \A i \in 1 .. Len(t) : t[i] = st[k + Len(s) + i]
  BY LenProperties DEF IsSlice
<1> DEFINE c == s \o t
<1>2. /\ c \in Seq(ToSet(st)) /\ Len(c) = Len(s) + Len(t)
      /\ \A i \in 1 .. Len(s) + Len(t) : c[i] = IF i <= Len(s) THEN s[i] ELSE t[i - Len(s)]
  BY <1>1, ConcatProperties
<1> HIDE DEF c
<1>3. \A i \in 1 .. Len(c) : c[i] = st[k + i]
  <2> SUFFICES ASSUME NEW i \in 1 .. Len(s) + Len(t) PROVE c[i] = st[k + i]
    BY <1>2
  <2>1. CASE i <= Len(s)
    <3>1. i \in 1 .. Len(s)
      BY <1>1, <2>1
    <3> QED
      BY <1>1, <1>2, <2>1, <3>1
  <2>2. CASE ~(i <= Len(s))
    <3>1. i - Len(s) \in 1 .. Len(t) /\ k + Len(s) + (i - Len(s)) = k + i
      BY <1>1, <2>2
    <3> QED
      BY <1>1, <1>2, <2>2, <3>1
  <2> QED
    BY <2>1, <2>2
<1>4. Len(c) > 0 => k + Len(c) <= Len(st)
  BY <1>1, <1>2
<1> QED
  BY <1>2, <1>3, <1>4 DEF IsSlice, c

\* A function that gives the stream's bytes is a slice.
LEMMA BytesAreSlice ==
  ASSUME NEW st, NEW k \in Nat, NEW n \in Nat, NEW f,
         IsStream(st), n > 0 => k + n <= Len(st), f = [i \in 1 .. n |-> f[i]],
         \A i \in 1 .. n : f[i] = st[k + i]
  PROVE  IsSlice(st, f, k) /\ Len(f) = n
<1>1. Len(st) \in Nat /\ \A i \in 1 .. Len(st) : st[i] \in ToSet(st)
  BY LenProperties, ElementOfSeq, SMTT(20) DEF IsStream
<1>2. \A i \in 1 .. n : f[i] \in ToSet(st)
  <2> TAKE i \in 1 .. n
  <2>1. k + i \in 1 .. Len(st)
    BY <1>1
  <2> QED
    BY <1>1, <2>1
<1>3. f \in [1 .. n -> ToSet(st)]
  BY <1>2
<1>4. f \in Seq(ToSet(st)) /\ Len(f) = n
  BY <1>3, FunctionIsSeq
<1> QED
  BY <1>4 DEF IsSlice

-----------------------------------------------------------------------------
(* What is written *)

\* An open stream takes all of what fits; a closed one is given nothing.
LEMMA OutputTakes ==
  ASSUME NEW st, NEW bs, NEW data \in Seq(ToSet(st)),
         OutputOK(st, bs), Len(data) <= AvailableCapacity(bs),
         bs.is_closed => data = << >>
  PROVE  /\ OutputOK(st, Push(bs, data))
         /\ Push(bs, data).buffer = bs.buffer \o data
         /\ Push(bs, data).is_closed = bs.is_closed
         /\ Push(bs, data).bytes_popped = bs.bytes_popped
         /\ Push(bs, data).capacity = bs.capacity
<1>1. /\ bs \in ByteStreams(ToSet(st)) /\ bs.buffer \in Seq(ToSet(st)) /\ Len(bs.buffer) \in Nat
      /\ Len(data) \in Nat /\ bs.bytes_pushed \in Nat /\ bs.bytes_popped \in Nat
      /\ bs.capacity \in Nat
  BY LenProperties DEF OutputOK, ByteStreams
<1>2. AvailableCapacity(bs) = bs.capacity - Len(bs.buffer)
  BY <1>1 DEF OutputOK, AvailableCapacity
<1>3. Accepted(bs, data) = data
  <2>1. CASE bs.is_closed
    BY <2>1 DEF Accepted
  <2>2. CASE ~bs.is_closed
    <3>1. MinOf(Len(data), AvailableCapacity(bs)) = Len(data)
      BY <1>1, <1>2 DEF MinOf
    <3>2. Take(data, Len(data)) = data
      BY SubSeqFull DEF Take
    <3> QED
      BY <2>2, <3>1, <3>2 DEF Accepted, OutputOK
  <2> QED
    BY <2>1, <2>2
<1>4. /\ bs.buffer \o data \in Seq(ToSet(st))
      /\ Len(bs.buffer \o data) = Len(bs.buffer) + Len(data)
  BY <1>1, ConcatProperties
<1> DEFINE buffer == bs.buffer \o data
<1> HIDE DEF buffer
<1>5. Push(bs, data) = [bs EXCEPT !.buffer = buffer, !.bytes_pushed = @ + Len(data)]
  BY <1>3 DEF Push, buffer
<1>6. buffer \in Seq(ToSet(st)) /\ Len(buffer) = Len(bs.buffer) + Len(data)
  BY <1>4 DEF buffer
<1>7. Push(bs, data) \in ByteStreams(ToSet(st))
  <2>1. bs.bytes_pushed + Len(data) \in Nat
    BY <1>1
  <2> QED
    BY <1>1, <1>5, <1>6, <2>1, Zenon DEF ByteStreams
<1>8. /\ Push(bs, data).buffer = buffer
      /\ Push(bs, data).bytes_pushed = bs.bytes_pushed + Len(data)
      /\ Push(bs, data).bytes_popped = bs.bytes_popped
      /\ Push(bs, data).capacity = bs.capacity
      /\ Push(bs, data).error = bs.error
      /\ Push(bs, data).is_closed = bs.is_closed
  BY <1>1, <1>5 DEF ByteStreams
<1> DEFINE new == Push(bs, data)
<1> HIDE DEF new
<1>9. OutputOK(st, new)
  <2>1. /\ bs.bytes_pushed = bs.bytes_popped + Len(bs.buffer)
        /\ ~bs.error
    BY DEF OutputOK
  <2>2. bs.bytes_pushed + Len(data) = bs.bytes_popped + Len(buffer) /\ Len(buffer) <= bs.capacity
    BY <1>1, <1>2, <1>6, <2>1
  <2>3. /\ new \in ByteStreams(ToSet(st))
        /\ new.buffer = buffer
        /\ new.bytes_pushed = new.bytes_popped + Len(buffer)
        /\ new.capacity = bs.capacity /\ ~new.error
    BY <1>7, <1>8, <2>1, <2>2 DEF new
  <2> QED
    BY <2>2, <2>3 DEF OutputOK
<1> QED
  BY <1>8, <1>9 DEF buffer, new

\* A reassembler that has written the slice that comes next is sound.
LEMMA WrittenIsSound ==
  ASSUME NEW st, NEW r, NEW read \in Seq(ToSet(st)), NEW data, NEW q,
         IsStream(st), Sound(st, r, read), IsSlice(st, data, r.next_index),
         Len(data) <= AvailableCapacity(r.output), IsReassembler(st, q),
         SegmentsOK(st, q.segments), q.output = Push(r.output, data),
         q.next_index = r.next_index + Len(data), q.eof_flag = r.eof_flag,
         q.eof_index = r.eof_index
  PROVE  Sound(st, q, read) /\ Onward(r, q)
<1>1. /\ r.next_index \in Nat /\ data \in Seq(ToSet(st)) /\ Len(data) \in Nat
      /\ Len(data) > 0 => r.next_index + Len(data) <= Len(st)
      /\ r.output.buffer \in Seq(ToSet(st))
      /\ OutputOK(st, r.output) /\ IsSlice(st, read \o r.output.buffer, 0)
      /\ Len(read) + Len(r.output.buffer) = r.next_index
      /\ r.eof_flag => r.eof_index = Len(st) \/ r.eof_index < r.next_index
      /\ r.eof_index \in Nat
      /\ r.output.is_closed => r.eof_flag /\ r.next_index = Len(st)
  BY LenProperties DEF Sound, IsReassembler, OutputOK, ByteStreams, IsSlice
<1>2. Len(st) \in Nat /\ Len(read) \in Nat /\ Len(r.output.buffer) \in Nat
  BY <1>1, LenProperties DEF IsStream
<1>3. r.output.is_closed => data = << >> /\ Len(data) = 0
  BY <1>1, <1>2, EmptySeq
<1>4. /\ OutputOK(st, q.output)
      /\ q.output.buffer = r.output.buffer \o data
      /\ q.output.is_closed = r.output.is_closed
      /\ q.output.bytes_popped = r.output.bytes_popped
      /\ q.output.capacity = r.output.capacity
  <2> DEFINE bs == r.output
             new == Push(bs, data)
  <2>1. /\ OutputOK(st, bs) /\ data \in Seq(ToSet(st))
        /\ Len(data) <= AvailableCapacity(bs) /\ (bs.is_closed => data = << >>)
    BY <1>1, <1>3
  <2> HIDE DEF bs
  <2>2. /\ OutputOK(st, new) /\ new.buffer = bs.buffer \o data
        /\ new.is_closed = bs.is_closed /\ new.bytes_popped = bs.bytes_popped
        /\ new.capacity = bs.capacity
    BY <2>1, OutputTakes, ZenonT(40)
  <2> QED
    BY <2>2 DEF bs
<1>5. Len(read \o r.output.buffer) = r.next_index
  BY <1>1, ConcatProperties
<1>6. IsSlice(st, (read \o r.output.buffer) \o data, 0)
  <2>1. 0 + Len(read \o r.output.buffer) = r.next_index
    BY <1>1, <1>5
  <2> QED
    BY <1>1, <2>1, JoinSlices
<1>7. (read \o r.output.buffer) \o data = read \o q.output.buffer
  <2> DEFINE buffer == r.output.buffer
  <2>1. buffer \in Seq(ToSet(st))
    BY <1>1
  <2> HIDE DEF buffer
  <2>2. (read \o buffer) \o data = read \o (buffer \o data)
    <3>1. \A s, t, u \in Seq(ToSet(st)) : (s \o t) \o u = s \o (t \o u)
      BY Associates, SMTT(60)
    <3> QED
      BY <1>1, <2>1, <3>1, Zenon
  <2> QED
    BY <1>4, <2>2 DEF buffer
<1>8. Len(q.output.buffer) = Len(r.output.buffer) + Len(data)
  BY <1>1, <1>4, ConcatProperties
<1>9. Len(read) + Len(q.output.buffer) = q.next_index
  BY <1>1, <1>2, <1>8
<1>10. q.output.is_closed => q.eof_flag /\ q.next_index = Len(st)
  BY <1>1, <1>2, <1>3, <1>4
<1>11. q.eof_flag => q.eof_index = Len(st) \/ q.eof_index < q.next_index
  BY <1>1
<1>12. Sound(st, q, read)
  BY <1>1, <1>4, <1>6, <1>7, <1>9, <1>10, <1>11 DEF Sound
<1>13. Onward(r, q)
  BY <1>1, <1>4 DEF Onward
<1> QED
  BY <1>12, <1>13

\* What the steps need to know of a sound reassembler.
LEMMA SoundFacts ==
  ASSUME NEW st, NEW r, NEW read \in Seq(ToSet(st)),
         IsStream(st), Sound(st, r, read)
  PROVE  /\ IsReassembler(st, r) /\ OutputOK(st, r.output) /\ SegmentsOK(st, r.segments)
         /\ r.next_index \in Nat /\ r.eof_index \in Nat /\ r.eof_flag \in BOOLEAN
         /\ r.next_index <= Len(st) /\ Len(st) \in Nat
         /\ AvailableCapacity(r.output) \in Nat /\ ~r.output.error
         /\ WindowEnd(r) = r.next_index + AvailableCapacity(r.output)
         /\ r.eof_flag => r.eof_index = Len(st) \/ r.eof_index < r.next_index
         /\ r.output.is_closed => r.eof_flag /\ r.next_index = Len(st)
<1>1. /\ r.next_index \in Nat /\ r.eof_index \in Nat /\ r.eof_flag \in BOOLEAN
      /\ r.output \in ByteStreams(ToSet(st))
  BY DEF Sound, IsReassembler
<1>2. /\ r.output.bytes_pushed \in Nat /\ r.output.bytes_popped \in Nat
      /\ r.output.buffer \in Seq(ToSet(st)) /\ Len(r.output.buffer) \in Nat
      /\ Len(read) \in Nat /\ Len(st) \in Nat /\ r.output.capacity \in Nat
  BY <1>1, LenProperties DEF ByteStreams, IsStream
<1>3. AvailableCapacity(r.output) = r.output.capacity - Len(r.output.buffer)
  BY <1>2 DEF Sound, OutputOK, AvailableCapacity
<1>4. AvailableCapacity(r.output) \in Nat
  BY <1>2, <1>3 DEF Sound, OutputOK
<1>5. Len(read \o r.output.buffer) = r.next_index
  BY <1>2, ConcatProperties DEF Sound
<1>6. r.next_index <= Len(st)
  BY <1>1, <1>2, <1>5 DEF Sound, IsSlice
<1>7. ~r.output.error
  BY DEF Sound, OutputOK
<1> QED
  BY <1>1, <1>2, <1>4, <1>6, <1>7 DEF Sound, WindowEnd

\* Steps follow one another; standing still is one.
LEMMA StepOnStep ==
  ASSUME NEW st, NEW read, NEW r, NEW p, NEW q,
         Sound(st, r, read), Sound(st, p, read), Onward(r, p),
         Step(st, read, p, q)
  PROVE  Step(st, read, r, q)
<1>1. r.next_index \in Nat /\ p.next_index \in Nat /\ q.next_index \in Nat
  BY DEF Sound, IsReassembler, Step
<1>2. Onward(p, q)
  BY DEF Step
<1>3. Onward(r, q)
  BY <1>1, <1>2 DEF Onward
<1> QED
  BY <1>3 DEF Step

LEMMA NoStep ==
  ASSUME NEW st, NEW read, NEW r,
         Sound(st, r, read), AllWait(r)
  PROVE  Step(st, read, r, r)
BY DEF Step, Onward, Sound, IsReassembler

LEMMA NewIsSound ==
  ASSUME NEW st, NEW capacity \in Nat, IsStream(st)
  PROVE  Sound(st, NewReassembler(capacity), << >>) /\ AllWait(NewReassembler(capacity))
<1> DEFINE bs == NewByteStream(capacity)
           r == NewReassembler(capacity)
<1>1. r = [ output |-> bs, segments |-> << >>, next_index |-> 0,
            bytes_pending |-> 0, eof_flag |-> FALSE, eof_index |-> 0 ]
  BY DEF NewReassembler
<1>2. /\ bs \in ByteStreams(ToSet(st))
      /\ bs.capacity = capacity /\ ~bs.error /\ ~bs.is_closed
      /\ bs.bytes_pushed = 0 /\ bs.bytes_popped = 0 /\ bs.buffer = << >>
  BY EmptySeq DEF NewByteStream, ByteStreams
<1> HIDE DEF bs, r
<1>3. << >> \in Seq(ToSet(st)) /\ Len(<< >>) = 0 /\ Len(st) \in Nat
  BY EmptySeq, LenProperties DEF IsStream
<1>4. OutputOK(st, bs)
  <2>1. Len(bs.buffer) = 0
    BY <1>2, <1>3
  <2> QED
    BY <1>2, <2>1 DEF OutputOK
<1>5. /\ IsReassembler(st, r) /\ r.output = bs /\ r.segments = << >>
      /\ r.next_index = 0 /\ ~r.eof_flag
  BY <1>1, <1>2 DEF IsReassembler
<1>6. SegmentsOK(st, r.segments) /\ AllWait(r)
  <2>1. DOMAIN r.segments = {}
    BY <1>5
  <2> QED
    BY <2>1 DEF SegmentsOK, AllWait
<1>7. << >> \o r.output.buffer = << >> /\ Len(<< >>) + Len(r.output.buffer) = r.next_index
  <2>1. << >> \o << >> = << >>
    BY <1>3, ConcatEmptySeq
  <2> QED
    BY <1>2, <1>3, <1>5, <2>1
<1>8. IsSlice(st, << >>, 0)
  BY <1>3 DEF IsSlice
<1>9. Sound(st, r, << >>)
  BY <1>2, <1>4, <1>5, <1>6, <1>7, <1>8 DEF Sound
<1> QED
  BY <1>6, <1>9 DEF r

\* push_output() with the slice that comes next, cut to the space that is left.
LEMMA PushOutputIsSound ==
  ASSUME NEW st, NEW r, NEW read \in Seq(ToSet(st)), NEW data,
         IsStream(st), Sound(st, r, read), IsSlice(st, data, r.next_index)
  PROVE  Sound(st, PushOutput(r, data), read) /\ Onward(r, PushOutput(r, data))
<1> DEFINE m == MinOf(Len(data), AvailableCapacity(r.output))
           pushed == Take(data, m)
           q == PushOutput(r, data)
<1>1. Len(data) \in Nat /\ data \in Seq(ToSet(st))
  BY LenProperties DEF IsSlice
<1>2. AvailableCapacity(r.output) \in Nat /\ r.next_index \in Nat /\ SegmentsOK(st, r.segments)
  BY SoundFacts
<1>3. m \in 0 .. Len(data) /\ m <= AvailableCapacity(r.output)
  BY <1>1, <1>2 DEF MinOf
<1> HIDE DEF m
<1>4. IsSlice(st, pushed, r.next_index) /\ Len(pushed) = m
  BY <1>2, <1>3, CutSlice
<1>5. q = [r EXCEPT !.output = Push(@, pushed), !.next_index = @ + Len(pushed)]
  BY DEF PushOutput, m
<1> HIDE DEF pushed, q
<1>6. /\ r.output \in ByteStreams(ToSet(st))
      /\ pushed \in Seq(ToSet(st)) /\ OutputOK(st, r.output)
      /\ r.output.is_closed => pushed = << >>
  <2>1. /\ pushed \in Seq(ToSet(st)) /\ Len(pushed) \in Nat
        /\ Len(pushed) > 0 => r.next_index + Len(pushed) <= Len(st)
    BY <1>4, LenProperties DEF IsSlice
  <2>2. r.output.is_closed => r.next_index = Len(st)
    BY SoundFacts
  <2>3. r.output.is_closed => Len(pushed) = 0
    BY <1>2, <2>1, <2>2
  <2> QED
    BY <2>1, <2>3, EmptySeq DEF Sound, OutputOK
<1>7. OutputOK(st, Push(r.output, pushed))
  BY <1>3, <1>4, <1>6, OutputTakes
<1>8. /\ IsReassembler(st, q) /\ q.segments = r.segments
      /\ q.output = Push(r.output, pushed) /\ q.next_index = r.next_index + Len(pushed)
      /\ q.eof_flag = r.eof_flag /\ q.eof_index = r.eof_index
  <2> DEFINE bs == Push(r.output, pushed)
             n == r.next_index + Len(pushed)
  <2>1. bs \in ByteStreams(ToSet(st)) /\ n \in Nat
    BY <1>2, <1>3, <1>4, <1>7 DEF OutputOK
  <2>2. q = [r EXCEPT !.output = bs, !.next_index = n]
    BY <1>5
  <2> HIDE DEF bs, n
  <2>3. q \in [ output : ByteStreams(ToSet(st)), segments : {r.segments}, next_index : Nat,
                bytes_pending : {r.bytes_pending}, eof_flag : BOOLEAN, eof_index : Nat ]
    BY <2>1, <2>2, Zenon DEF Sound, IsReassembler
  <2>4. /\ q.output = bs /\ q.next_index = n /\ q.segments = r.segments
        /\ q.bytes_pending = r.bytes_pending
        /\ q.eof_flag = r.eof_flag /\ q.eof_index = r.eof_index
    BY <2>2 DEF Sound, IsReassembler
  <2> QED
    BY <2>3, <2>4 DEF IsReassembler, bs, n
<1>9. Sound(st, q, read) /\ Onward(r, q)
  BY <1>2, <1>3, <1>4, <1>8, WrittenIsSound
<1> QED
  BY <1>9 DEF q

-----------------------------------------------------------------------------
(* try_assemble() *)

\* Stored segments that give way to others leave the rest as they are.
LEMMA FewerSegments ==
  ASSUME NEW st, NEW segs, NEW K,
         SegmentsOK(st, segs)
  PROVE  SegmentsOK(st, Without(segs, K))
BY DEF SegmentsOK, Without, End

\* Where the stored segments end.
LEMMA SegmentFacts ==
  ASSUME NEW st, NEW segs, NEW k \in DOMAIN segs,
         SegmentsOK(st, segs)
  PROVE  /\ k \in Nat /\ End(segs, k) \in Nat /\ Len(segs[k]) \in Nat
         /\ End(segs, k) = k + Len(segs[k]) /\ k <= End(segs, k)
         /\ k < End(segs, k) => End(segs, k) <= Len(st)
         /\ \A i \in 1 .. Len(segs[k]) : segs[k][i] = st[k + i]
<1>1. k \in Nat /\ IsSlice(st, segs[k], k)
  BY DEF SegmentsOK
<1>2. Len(segs[k]) \in Nat
  BY <1>1, LenProperties DEF IsSlice
<1> QED
  BY <1>1, <1>2 DEF IsSlice, End

\* A stored byte is the stream's byte at its index.
LEMMA ByteOfSegment ==
  ASSUME NEW st, NEW segs, NEW k \in DOMAIN segs, NEW p \in Nat,
         SegmentsOK(st, segs), k <= p, p < End(segs, k)
  PROVE  segs[k][p - k + 1] = st[p + 1]
<1>1. /\ k \in Nat /\ Len(segs[k]) \in Nat /\ End(segs, k) = k + Len(segs[k])
      /\ \A i \in 1 .. Len(segs[k]) : segs[k][i] = st[k + i]
  BY SegmentFacts
<1>2. p - k + 1 \in 1 .. Len(segs[k]) /\ k + (p - k + 1) = p + 1
  BY <1>1
<1> QED
  BY <1>1, <1>2

LEMMA LimitIsNat ==
  ASSUME NEW st, NEW r, NEW read \in Seq(ToSet(st)), NEW k \in Nat,
         IsStream(st), Sound(st, r, read)
  PROVE  /\ Limit(r, k) \in Nat
         /\ ~r.output.is_closed => Limit(r, k) = WindowEnd(r)
<1>1. /\ AvailableCapacity(r.output) \in Nat /\ r.next_index \in Nat /\ ~r.output.error
      /\ WindowEnd(r) = r.next_index + AvailableCapacity(r.output)
  BY SoundFacts
<1>2. CASE r.output.is_closed
  BY <1>1, <1>2 DEF Limit, MaxOf
<1>3. CASE ~r.output.is_closed
  BY <1>1, <1>3 DEF Limit
<1> QED
  BY <1>2, <1>3

\* How far the output could be written, of which the frontier is the furthest.
Reached(r) ==
  LET ends == { MinOf(End(r.segments, k), Limit(r, k)) : k \in DOMAIN r.segments }
  IN  { n \in {r.next_index} \cup ends :
          /\ n >= r.next_index
          /\ \A p \in r.next_index .. n - 1 : \E k \in DOMAIN r.segments : Covers(r, k, p) }

\* All of it lies within the window and the stream.
LEMMA ReachedIsWithin ==
  ASSUME NEW st, NEW r, NEW read \in Seq(ToSet(st)),
         IsStream(st), Sound(st, r, read)
  PROVE  /\ Reached(r) \in SUBSET (0 .. Len(st)) /\ r.next_index \in Reached(r)
         /\ \A n \in Reached(r) : ~r.output.is_closed => n <= WindowEnd(r)
         /\ Frontier(r) = Max(Reached(r)) /\ Frontier(r) \in Reached(r)
<1> DEFINE next == r.next_index
<1>1. /\ next \in Nat /\ Len(st) \in Nat /\ next <= Len(st) /\ SegmentsOK(st, r.segments)
      /\ WindowEnd(r) = next + AvailableCapacity(r.output)
      /\ AvailableCapacity(r.output) \in Nat
  BY SoundFacts
<1>2. \A k \in DOMAIN r.segments :
        /\ k \in Nat /\ End(r.segments, k) \in Nat /\ Limit(r, k) \in Nat
        /\ k < End(r.segments, k) => End(r.segments, k) <= Len(st)
        /\ ~r.output.is_closed => Limit(r, k) = WindowEnd(r)
  BY <1>1, SegmentFacts, LimitIsNat
<1>3. ASSUME NEW n \in Reached(r)
      PROVE  n \in 0 .. Len(st) /\ (~r.output.is_closed => n <= WindowEnd(r))
  <2>1. /\ n = next \/ \E k \in DOMAIN r.segments : n = MinOf(End(r.segments, k), Limit(r, k))
        /\ n >= next
        /\ \A p \in next .. n - 1 : \E k \in DOMAIN r.segments : Covers(r, k, p)
    BY DEF Reached
  <2>2. n \in Nat
    BY <1>1, <1>2, <2>1 DEF MinOf
  <2>3. CASE n = next
    BY <1>1, <2>3
  <2>4. CASE n # next
    <3>1. n - 1 \in next .. n - 1
      BY <1>1, <2>1, <2>2, <2>4
    <3>2. PICK k \in DOMAIN r.segments : Covers(r, k, n - 1)
      BY <2>1, <3>1
    <3>3. k <= n - 1 /\ n - 1 < End(r.segments, k) /\ n - 1 < Limit(r, k)
      BY <1>2, <2>2, <3>2 DEF Covers, MinOf
    <3>4. k < End(r.segments, k)
      BY <1>2, <2>2, <3>3
    <3> QED
      BY <1>1, <1>2, <2>2, <3>3, <3>4
  <2> QED
    BY <2>3, <2>4
<1>4. next \in Reached(r)
  BY <1>1 DEF Reached
<1>5. Frontier(r) = Max(Reached(r))
  BY DEF Frontier, Reached
<1>6. Reached(r) \in SUBSET (0 .. Len(st))
  BY <1>3
<1>7. Max(Reached(r)) \in Reached(r)
  BY <1>1, <1>4, <1>6, MaxIsGreatest
<1> QED
  BY <1>3, <1>4, <1>5, <1>6, <1>7

\* The frontier lies within the window and the stream, and all that is before
\* it is stored.
LEMMA FrontierIsReached ==
  ASSUME NEW st, NEW r, NEW read \in Seq(ToSet(st)),
         IsStream(st), Sound(st, r, read)
  PROVE  /\ Frontier(r) \in r.next_index .. Len(st)
         /\ Frontier(r) <= WindowEnd(r)
         /\ \A p \in r.next_index .. Frontier(r) - 1 :
              \E k \in DOMAIN r.segments : Covers(r, k, p)
         /\ r.output.is_closed => Frontier(r) = r.next_index
<1>1. /\ r.next_index \in Nat /\ Len(st) \in Nat
      /\ WindowEnd(r) = r.next_index + AvailableCapacity(r.output)
      /\ AvailableCapacity(r.output) \in Nat
      /\ r.output.is_closed => r.next_index = Len(st)
  BY SoundFacts
<1>2. /\ Frontier(r) \in Reached(r) /\ Frontier(r) \in 0 .. Len(st)
      /\ ~r.output.is_closed => Frontier(r) <= WindowEnd(r)
  BY ReachedIsWithin
<1>3. /\ Frontier(r) >= r.next_index
      /\ \A p \in r.next_index .. Frontier(r) - 1 :
           \E k \in DOMAIN r.segments : Covers(r, k, p)
  BY <1>2 DEF Reached
<1> QED
  BY <1>1, <1>2, <1>3

\* A stored segment that begins before the frontier leaves no byte behind it
\* that the window has room for.
LEMMA FrontierIsLast ==
  ASSUME NEW st, NEW r, NEW read \in Seq(ToSet(st)), NEW k \in DOMAIN r.segments,
         IsStream(st), Sound(st, r, read), k <= Frontier(r)
  PROVE  End(r.segments, k) <= Frontier(r) \/ WindowEnd(r) <= Frontier(r)
<1> DEFINE next == r.next_index
           end == MinOf(End(r.segments, k), Limit(r, k))
           reach == Frontier(r)
<1>1. /\ next \in Nat /\ Len(st) \in Nat /\ SegmentsOK(st, r.segments)
      /\ r.output.is_closed => next = Len(st)
      /\ WindowEnd(r) \in Nat
  BY SoundFacts
<1>2. /\ reach \in next .. Len(st)
      /\ \A p \in next .. reach - 1 : \E j \in DOMAIN r.segments : Covers(r, j, p)
  BY FrontierIsReached
<1>3. \A j \in DOMAIN r.segments :
        /\ j \in Nat /\ End(r.segments, j) \in Nat /\ j <= End(r.segments, j)
        /\ j < End(r.segments, j) => End(r.segments, j) <= Len(st)
        /\ Limit(r, j) \in Nat
        /\ ~r.output.is_closed => Limit(r, j) = WindowEnd(r)
  BY <1>1, SegmentFacts, LimitIsNat
<1>4. CASE r.output.is_closed
  BY <1>1, <1>2, <1>3, <1>4
<1>5. CASE ~r.output.is_closed
  <2> SUFFICES ASSUME end > reach PROVE FALSE
    BY <1>1, <1>2, <1>3, <1>5 DEF MinOf
  <2>1. end \in Reached(r)
    <3>1. end \in Nat /\ end >= next
      BY <1>1, <1>2, <1>3 DEF MinOf
    <3>2. ASSUME NEW p \in next .. end - 1, ~(p < reach) PROVE Covers(r, k, p)
      <4>1. k <= p /\ p < end
        BY <1>1, <1>2, <1>3, <3>1, <3>2
      <4> QED
        BY <4>1 DEF Covers
    <3>3. \A p \in next .. end - 1 : \E j \in DOMAIN r.segments : Covers(r, j, p)
      BY <1>1, <1>2, <3>1, <3>2
    <3> QED
      BY <3>1, <3>3 DEF Reached
  <2>2. /\ Reached(r) \in SUBSET (0 .. Len(st)) /\ next \in Reached(r)
        /\ reach = Max(Reached(r)) /\ reach \in 0 .. Len(st)
    BY ReachedIsWithin
  <2> HIDE DEF end, reach
  <2>3. Max(Reached(r)) >= end
    BY <1>1, <2>1, <2>2, MaxIsGreatest
  <2> QED
    BY <2>1, <2>2, <2>3
<1> QED
  BY <1>4, <1>5

\* try_assemble() writes the slice up to the frontier, and what it leaves waits.
LEMMA TryAssembleIsSound ==
  ASSUME NEW st, NEW r, NEW read \in Seq(ToSet(st)),
         IsStream(st), Sound(st, r, read)
  PROVE  Step(st, read, r, TryAssemble(r))
<1> DEFINE next == r.next_index
           reach == Frontier(r)
           used == { k \in DOMAIN r.segments : k <= reach }
           data == [i \in 1 .. reach - next |-> StoredByte(r, next + i - 1)]
           pending == r.bytes_pending - SizeOf(r.segments, used)
           bs == Push(r.output, data)
           segs == Without(r.segments, used)
           q == TryAssemble(r)
<1>1. /\ next \in Nat /\ Len(st) \in Nat /\ next <= Len(st) /\ SegmentsOK(st, r.segments)
      /\ WindowEnd(r) = next + AvailableCapacity(r.output)
      /\ AvailableCapacity(r.output) \in Nat
  BY SoundFacts
<1>2. /\ reach \in next .. Len(st) /\ reach <= WindowEnd(r)
      /\ \A p \in next .. reach - 1 : \E k \in DOMAIN r.segments : Covers(r, k, p)
      /\ r.output.is_closed => reach = next
  BY FrontierIsReached
<1>q. q = [r EXCEPT !.output = bs, !.segments = segs, !.next_index = reach,
                    !.bytes_pending = pending]
  BY DEF TryAssemble
<1> HIDE DEF q, pending, reach
<1>3. reach - next \in Nat /\ reach \in Nat /\ next + (reach - next) = reach
  BY <1>1, <1>2
<1>4. \A i \in 1 .. reach - next : data[i] = st[next + i]
  <2> TAKE i \in 1 .. reach - next
  <2> DEFINE p == next + i - 1
             k == CHOOSE k \in DOMAIN r.segments : Covers(r, k, p)
  <2>1. p \in next .. reach - 1 /\ p \in Nat /\ p + 1 = next + i
    BY <1>1, <1>3, SMTT(30)
  <2>2. data[i] = r.segments[k][p - k + 1]
    BY DEF StoredByte
  <2> HIDE DEF p
  <2>3. k \in DOMAIN r.segments /\ Covers(r, k, p)
    BY <1>2, <2>1
  <2> HIDE DEF k, data
  <2>4. k \in Nat /\ Limit(r, k) \in Nat /\ End(r.segments, k) \in Nat
    BY <1>1, <2>3, SegmentFacts, LimitIsNat
  <2>5. k <= p /\ p < End(r.segments, k)
    BY <2>1, <2>3, <2>4 DEF Covers, MinOf
  <2>6. r.segments[k][p - k + 1] = st[p + 1]
    BY <1>1, <2>1, <2>3, <2>5, ByteOfSegment
  <2> QED
    BY <2>1, <2>2, <2>6
<1>5. IsSlice(st, data, next) /\ Len(data) = reach - next
  <2>1. data = [i \in 1 .. reach - next |-> data[i]]
    OBVIOUS
  <2> DEFINE n == reach - next
  <2>2. n \in Nat /\ (n > 0 => next + n <= Len(st))
    BY <1>1, <1>2, <1>3
  <2> HIDE DEF data, n
  <2>3. data = [i \in 1 .. n |-> data[i]] /\ \A i \in 1 .. n : data[i] = st[next + i]
    BY <1>4, <2>1 DEF n
  <2>4. IsSlice(st, data, next) /\ Len(data) = n
    BY <1>1, <2>2, <2>3, BytesAreSlice
  <2> QED
    BY <2>4 DEF n
<1> HIDE DEF data
<1>6. Len(data) <= AvailableCapacity(r.output) /\ (r.output.is_closed => Len(data) = 0)
  BY <1>1, <1>2, <1>3, <1>5
<1>7. OutputOK(st, bs)
  <2>1. data \in Seq(ToSet(st)) /\ OutputOK(st, r.output)
    BY <1>5, SoundFacts DEF IsSlice
  <2>2. r.output.is_closed => data = << >>
    BY <1>6, <2>1, EmptySeq
  <2> QED
    BY <1>6, <2>1, <2>2, OutputTakes
<1>8. SegmentsOK(st, segs) /\ DOMAIN segs = DOMAIN r.segments \ used
  <2>1. SegmentsOK(st, segs)
    BY <1>1, FewerSegments
  <2>2. DOMAIN segs = DOMAIN r.segments \ used
    BY DEF Without
  <2> QED
    BY <2>1, <2>2
<1>9. bs \in ByteStreams(ToSet(st))
  BY <1>7 DEF OutputOK
<1> HIDE DEF segs
<1>10. /\ IsReassembler(st, q) /\ q.output = bs /\ q.next_index = reach /\ q.segments = segs
       /\ q.eof_flag = r.eof_flag /\ q.eof_index = r.eof_index
  <2> HIDE DEF bs
  <2>1. q \in [ output : ByteStreams(ToSet(st)), segments : {segs}, next_index : Nat,
                bytes_pending : {pending}, eof_flag : BOOLEAN, eof_index : Nat ]
    BY <1>3, <1>9, <1>q, Zenon DEF Sound, IsReassembler
  <2>2. /\ q.output = bs /\ q.next_index = reach /\ q.segments = segs
        /\ q.bytes_pending = pending
        /\ q.eof_flag = r.eof_flag /\ q.eof_index = r.eof_index
    BY <1>q DEF Sound, IsReassembler
  <2> QED
    BY <2>1, <2>2 DEF IsReassembler
<1>11. q.next_index = next + Len(data)
  BY <1>3, <1>5, <1>10
<1>12. Sound(st, q, read) /\ Onward(r, q)
  BY <1>5, <1>6, <1>8, <1>10, <1>11, WrittenIsSound
<1>13. AllWait(q)
  <2>1. \A k \in DOMAIN segs : k \in Nat /\ ~(k <= reach)
    BY <1>1, <1>8, SegmentFacts
  <2> QED
    BY <1>3, <1>10, <2>1 DEF AllWait
<1> QED
  BY <1>12, <1>13 DEF q, Step

\* Closing at the end of the stream, with nothing left to write.
LEMMA CloseAtEofIsSound ==
  ASSUME NEW st, NEW r, NEW read \in Seq(ToSet(st)),
         IsStream(st), Sound(st, r, read), AllWait(r)
  PROVE  Step(st, read, r, CloseAtEof(r))
<1> DEFINE bs == Close(r.output)
           q == [r EXCEPT !.output = bs]
<1>1. CASE r.eof_flag /\ r.next_index = r.eof_index
  <2>1. OutputOK(st, r.output) /\ r.eof_index = Len(st) /\ r.next_index \in Nat
    BY <1>1, SoundFacts
  <2>2. /\ bs \in ByteStreams(ToSet(st)) /\ bs.buffer = r.output.buffer
        /\ bs.bytes_pushed = r.output.bytes_pushed /\ bs.bytes_popped = r.output.bytes_popped
        /\ bs.capacity = r.output.capacity /\ bs.error = r.output.error /\ bs.is_closed
    BY <2>1 DEF OutputOK, ByteStreams, Close
  <2>3. OutputOK(st, bs)
    BY <2>1, <2>2 DEF OutputOK
  <2> HIDE DEF bs
  <2>4. q \in [ output : ByteStreams(ToSet(st)), segments : {r.segments}, next_index : Nat,
                bytes_pending : {r.bytes_pending}, eof_flag : BOOLEAN, eof_index : Nat ]
    BY <2>2, Zenon DEF Sound, IsReassembler
  <2>5. /\ q.output = bs /\ q.next_index = r.next_index /\ q.segments = r.segments
        /\ q.bytes_pending = r.bytes_pending
        /\ q.eof_flag = r.eof_flag /\ q.eof_index = r.eof_index
    BY DEF Sound, IsReassembler
  <2>6. CloseAtEof(r) = q
    BY <1>1 DEF CloseAtEof, bs
  <2> HIDE DEF q
  <2>7. IsReassembler(st, q)
    BY <2>4, <2>5 DEF IsReassembler
  <2>8. Sound(st, q, read)
    BY <1>1, <2>1, <2>2, <2>3, <2>5, <2>7 DEF Sound
  <2>9. AllWait(q)
    BY <2>5 DEF AllWait
  <2>10. Onward(r, q)
    BY <2>1, <2>2, <2>5 DEF Onward
  <2> QED
    BY <2>6, <2>8, <2>9, <2>10 DEF Step
<1>2. CASE ~(r.eof_flag /\ r.next_index = r.eof_index)
  BY <1>2, NoStep DEF CloseAtEof
<1> QED
  BY <1>1, <1>2

\* What noting the end leaves alone.
Noted(r, q, last, end) ==
  /\ q.next_index = r.next_index /\ q.segments = r.segments /\ q.output = r.output
  /\ q.eof_flag = (r.eof_flag \/ last)
  /\ q.eof_index = IF last THEN end ELSE r.eof_index

\* The last substring says where the stream ends; an end that was passed does
\* no harm.
LEMMA NoteEofIsSound ==
  ASSUME NEW st, NEW r, NEW read \in Seq(ToSet(st)), NEW first \in Nat, NEW data,
         NEW last \in BOOLEAN,
         IsStream(st), Sound(st, r, read), AllWait(r), Len(data) \in Nat,
         last => first + Len(data) = Len(st) \/ first + Len(data) < r.next_index
  PROVE  /\ Sound(st, NoteEof(r, first, data, last), read)
         /\ AllWait(NoteEof(r, first, data, last))
         /\ Noted(r, NoteEof(r, first, data, last), last, first + Len(data))
<1> DEFINE end == first + Len(data)
           q == [r EXCEPT !.eof_flag = TRUE, !.eof_index = end]
<1>1. CASE last
  <2>1. NoteEof(r, first, data, last) = q
    BY <1>1 DEF NoteEof
  <2>2. end \in Nat /\ (end = Len(st) \/ end < r.next_index)
    BY <1>1
  <2> HIDE DEF end
  <2>3. q \in [ output : ByteStreams(ToSet(st)), segments : {r.segments}, next_index : Nat,
                bytes_pending : {r.bytes_pending}, eof_flag : BOOLEAN, eof_index : Nat ]
    BY <2>2, Zenon DEF Sound, IsReassembler
  <2>4. /\ q.output = r.output /\ q.next_index = r.next_index /\ q.segments = r.segments
        /\ q.bytes_pending = r.bytes_pending
        /\ q.eof_flag = TRUE /\ q.eof_index = end
    BY DEF Sound, IsReassembler
  <2> HIDE DEF q
  <2>5. IsReassembler(st, q)
    BY <2>3, <2>4 DEF IsReassembler
  <2>6. Sound(st, q, read)
    BY <2>2, <2>4, <2>5 DEF Sound
  <2>7. AllWait(q)
    BY <2>4 DEF AllWait
  <2> QED
    BY <1>1, <2>1, <2>4, <2>6, <2>7 DEF end, Noted
<1>2. CASE ~last
  <2>1. NoteEof(r, first, data, last) = r /\ r.eof_flag \in BOOLEAN
    BY <1>2, SoundFacts DEF NoteEof
  <2> QED
    BY <1>2, <2>1 DEF Noted
<1> QED
  BY <1>1, <1>2

-----------------------------------------------------------------------------
(* store_segment() *)

Restored(r, segs, pending) == [r EXCEPT !.segments = segs, !.bytes_pending = pending]

\* Nothing but the stored segments changes, and they are as good as before.
LEMMA RestoredIsSound ==
  ASSUME NEW st, NEW r, NEW read \in Seq(ToSet(st)), NEW segs, NEW pending, NEW q,
         IsStream(st), Sound(st, r, read), SegmentsOK(st, segs),
         \A k \in DOMAIN segs : k > r.next_index, q = Restored(r, segs, pending)
  PROVE  /\ Step(st, read, r, q)
         /\ q.segments = segs /\ q.next_index = r.next_index
<1>1. q \in [ output : ByteStreams(ToSet(st)), segments : {segs}, next_index : Nat,
              bytes_pending : {pending}, eof_flag : BOOLEAN, eof_index : Nat ]
  BY Zenon DEF Restored, Sound, IsReassembler
<1>2. /\ q.output = r.output /\ q.next_index = r.next_index /\ q.segments = segs
      /\ q.bytes_pending = pending
      /\ q.eof_flag = r.eof_flag /\ q.eof_index = r.eof_index
  BY DEF Restored, Sound, IsReassembler
<1>3. IsReassembler(st, q)
  BY <1>1, <1>2 DEF IsReassembler
<1>4. Sound(st, q, read)
  BY <1>2, <1>3 DEF Sound
<1>5. AllWait(q)
  BY <1>2 DEF AllWait
<1>6. Onward(r, q)
  BY <1>2, SoundFacts DEF Onward
<1> QED
  BY <1>2, <1>4, <1>5, <1>6 DEF Step

\* A slice that shares no index with the stored segments can join them; one
\* at the same index is replaced.
LEMMA OneMoreSegment ==
  ASSUME NEW st, NEW segs, NEW at \in Nat, NEW data,
         SegmentsOK(st, segs), IsSlice(st, data, at),
         \A k \in DOMAIN segs \ {at} : k >= at + Len(data) \/ End(segs, k) <= at
  PROVE  SegmentsOK(st, With(segs, at, data))
<1> DEFINE new == With(segs, at, data)
<1>1. DOMAIN new = DOMAIN segs \cup {at} /\ new[at] = data
  BY DEF With
<1>2. \A k \in DOMAIN segs \ {at} : new[k] = segs[k]
  BY DEF With
<1> HIDE DEF new
<1>3. Len(data) \in Nat
  BY LenProperties DEF IsSlice
<1>4. /\ End(new, at) = at + Len(data)
      /\ \A k \in DOMAIN segs \ {at} : End(new, k) = End(segs, k)
  BY <1>1, <1>2 DEF End
<1>5. DOMAIN new \subseteq Nat /\ \A k \in DOMAIN new : IsSlice(st, new[k], k)
  BY <1>1, <1>2 DEF SegmentsOK
<1>6. ASSUME NEW j \in DOMAIN new, NEW k \in DOMAIN new, j < k PROVE End(new, j) <= k
  <2>1. CASE j = at
    <3>1. k \in DOMAIN segs \ {at}
      BY <1>1, <1>5, <1>6, <2>1
    <3>2. k \in Nat /\ End(segs, k) \in Nat /\ k <= End(segs, k)
      BY <3>1, SegmentFacts
    <3>3. k >= at + Len(data)
      BY <1>3, <1>6, <2>1, <3>1, <3>2
    <3> QED
      BY <1>3, <1>4, <2>1, <3>2, <3>3
  <2>2. CASE j # at /\ k = at
    <3>1. j \in DOMAIN segs \ {at} /\ j \in Nat /\ End(segs, j) \in Nat
      BY <1>1, <2>2, SegmentFacts
    <3>2. End(segs, j) <= at
      BY <1>3, <1>6, <2>2, <3>1
    <3> QED
      BY <1>4, <2>2, <3>1, <3>2
  <2>3. CASE j # at /\ k # at
    <3>1. j \in DOMAIN segs \ {at} /\ k \in DOMAIN segs \ {at}
      BY <1>1, <2>3
    <3> QED
      BY <1>4, <1>6, <3>1 DEF SegmentsOK
  <2> QED
    BY <2>1, <2>2, <2>3
<1> QED
  BY <1>1, <1>5, <1>6 DEF SegmentsOK, new

\* unassembled_segments_[at] = data.
LEMMA StoreAtIsSound ==
  ASSUME NEW st, NEW r, NEW read \in Seq(ToSet(st)), NEW at \in Nat, NEW data,
         IsStream(st), Sound(st, r, read), AllWait(r), at > r.next_index,
         IsSlice(st, data, at),
         \A k \in DOMAIN r.segments \ {at} : k >= at + Len(data) \/ End(r.segments, k) <= at
  PROVE  Step(st, read, r, StoreAt(r, at, data))
<1> DEFINE segs == With(r.segments, at, data)
           pending == r.bytes_pending + Len(data)
           q == StoreAt(r, at, data)
<1>1. SegmentsOK(st, r.segments)
  BY SoundFacts
<1>2. SegmentsOK(st, segs) /\ DOMAIN segs = DOMAIN r.segments \cup {at}
  <2>1. SegmentsOK(st, segs)
    BY <1>1, OneMoreSegment
  <2>2. DOMAIN segs = DOMAIN r.segments \cup {at}
    BY DEF With
  <2> QED
    BY <2>1, <2>2
<1>3. \A k \in DOMAIN segs : k > r.next_index
  BY <1>2 DEF AllWait
<1>4. q = Restored(r, segs, pending)
  BY DEF StoreAt, Restored
<1> HIDE DEF segs, pending, q
<1>5. Step(st, read, r, q)
  BY <1>2, <1>3, <1>4, RestoredIsSound
<1> QED
  BY <1>5 DEF q

\* The union of a slice and the stored segments it overlaps is the slice from
\* the first to the last of their indices; the other segments stay clear of it.
LEMMA MergedIsSlice ==
  ASSUME NEW st, NEW segs, NEW first \in Nat, NEW data, NEW K,
         IsStream(st), SegmentsOK(st, segs), IsSlice(st, data, first),
         K = Overlapping(segs, first, data)
  PROVE  LET from == MergedFirst(segs, first, K)
             union == Merged(segs, first, data, K)
         IN  /\ from \in {first} \cup K /\ from \in Nat
             /\ IsSlice(st, union, from)
             /\ \A k \in DOMAIN segs \ K :
                  k >= from + Len(union) \/ End(segs, k) <= from
             /\ \A k \in {first} \cup K : from <= k
             /\ first + Len(data) <= from + Len(union)
             /\ \A k \in K : End(segs, k) <= from + Len(union)
<1> DEFINE from == MergedFirst(segs, first, K)
           end == MergedEnd(segs, first, data, K)
           ends == { End(segs, k) : k \in K }
           union == Merged(segs, first, data, K)
<1>1. /\ Len(data) \in Nat /\ Len(st) \in Nat
      /\ Len(data) > 0 => first + Len(data) <= Len(st)
      /\ \A i \in 1 .. Len(data) : data[i] = st[first + i]
  BY LenProperties DEF IsSlice, IsStream
<1>2. K \subseteq DOMAIN segs /\ \A k \in K : k < first + Len(data) /\ first < End(segs, k)
  BY DEF Overlapping
<1>3. \A k \in DOMAIN segs :
        /\ k \in Nat /\ End(segs, k) \in Nat /\ k <= End(segs, k)
        /\ k < End(segs, k) => End(segs, k) <= Len(st)
  BY SegmentFacts
<1>e. \A k \in K : End(segs, k) <= Len(st)
  BY <1>1, <1>2, <1>3
<1>4. from \in {first} \cup K /\ \A k \in {first} \cup K : from <= k
  <2>1. {first} \cup K \in SUBSET Nat
    BY <1>2, <1>3
  <2> QED
    BY <2>1, MinIsLeast DEF MergedFirst
<1>5. /\ end \in {first + Len(data)} \cup ends
      /\ \A e \in {first + Len(data)} \cup ends : end >= e
  <2>1. {first + Len(data)} \cup ends \in SUBSET (0 .. first + Len(st))
    BY <1>1, <1>2, <1>3, <1>e
  <2>2. first + Len(st) \in Nat
    BY <1>1
  <2> QED
    BY <2>1, <2>2, MaxIsGreatest DEF MergedEnd
<1> HIDE DEF from, end
<1>6. /\ from \in Nat /\ end \in Nat /\ from <= first /\ first + Len(data) <= end
      /\ end > from => end <= Len(st)
  <2>1. from \in Nat /\ end \in Nat /\ from <= first /\ first + Len(data) <= end
    BY <1>1, <1>2, <1>3, <1>4, <1>5
  <2>2. CASE end \in ends
    BY <1>e, <2>1, <2>2
  <2>3. CASE end = first + Len(data) /\ Len(data) > 0
    BY <1>1, <2>1, <2>3
  <2>4. CASE end = first + Len(data) /\ Len(data) = 0 /\ from \in K
    BY <1>2, <1>3, <1>5, <2>1, <2>4
  <2>5. CASE end = first + Len(data) /\ Len(data) = 0 /\ from = first
    BY <2>1, <2>5
  <2> QED
    BY <1>1, <1>4, <1>5, <2>1, <2>2, <2>3, <2>4, <2>5
<1>7. \A p \in from .. end - 1 : MergedByte(segs, first, data, K, p) = st[p + 1]
  <2> TAKE p \in from .. end - 1
  <2> DEFINE old == { k \in K : k <= p /\ p < End(segs, k) }
             left == { k \in old : k <= first }
             kl == CHOOSE k \in left : TRUE
             ko == CHOOSE k \in old : TRUE
  <2>0. p \in Nat /\ from <= p /\ p < end
    BY <1>6
  <2>1. \A k \in old : segs[k][p - k + 1] = st[p + 1]
    BY <1>2, <2>0, ByteOfSegment
  <2>2. CASE left # {}
    <3>1. kl \in old
      BY <2>2
    <3>2. MergedByte(segs, first, data, K, p) = segs[kl][p - kl + 1]
      BY <2>2 DEF MergedByte
    <3> QED
      BY <2>1, <3>1, <3>2
  <2>3. CASE left = {} /\ first <= p /\ p < first + Len(data)
    <3>1. p - first + 1 \in 1 .. Len(data) /\ first + (p - first + 1) = p + 1
      BY <1>1, <2>0, <2>3
    <3>2. MergedByte(segs, first, data, K, p) = data[p - first + 1]
      BY <2>3 DEF MergedByte
    <3> QED
      BY <1>1, <3>1, <3>2
  <2>4. CASE left = {} /\ ~(first <= p /\ p < first + Len(data))
    <3>1. ~(p < first)
      <4> SUFFICES ASSUME p < first PROVE FALSE
        OBVIOUS
      <4>1. from \in K
        BY <1>4, <1>6, <2>0
      <4>2. from <= p /\ p < End(segs, from) /\ from <= first
        BY <1>2, <1>3, <1>6, <2>0, <4>1
      <4> QED
        BY <2>4, <4>1, <4>2
    <3>2. p >= first + Len(data)
      BY <1>1, <2>0, <2>4, <3>1
    <3>3. end \in ends
      BY <1>1, <1>5, <1>6, <2>0, <3>2
    <3>4. PICK k \in K : end = End(segs, k)
      BY <3>3
    <3>5. k <= p /\ p < End(segs, k)
      BY <1>1, <1>2, <1>3, <2>0, <3>2, <3>4
    <3>6. ko \in old
      BY <3>5
    <3>7. MergedByte(segs, first, data, K, p) = segs[ko][p - ko + 1]
      BY <2>4 DEF MergedByte
    <3> QED
      BY <2>1, <3>6, <3>7
  <2> QED
    BY <2>2, <2>3, <2>4
<1>8. IsSlice(st, union, from) /\ Len(union) = end - from
  <2> DEFINE n == end - from
  <2>1. union = [i \in 1 .. n |-> MergedByte(segs, first, data, K, from + i - 1)]
    BY DEF Merged, from, end
  <2>2. n \in Nat /\ (n > 0 => from + n <= Len(st))
    BY <1>6
  <2>3. \A i \in 1 .. n : union[i] = st[from + i]
    <3> TAKE i \in 1 .. n
    <3>1. from + i - 1 \in from .. end - 1 /\ from + i - 1 + 1 = from + i
      BY <1>6
    <3>2. MergedByte(segs, first, data, K, from + i - 1) = st[from + i - 1 + 1]
      BY <1>7, <3>1
    <3> QED
      BY <2>1, <3>1, <3>2
  <2>4. union = [i \in 1 .. n |-> union[i]]
    BY <2>1
  <2> HIDE DEF union, n
  <2>5. IsSlice(st, union, from) /\ Len(union) = n
    BY <1>6, <2>2, <2>3, <2>4, BytesAreSlice
  <2> QED
    BY <2>5 DEF n
<1>9. \A k \in DOMAIN segs \ K : k >= end \/ End(segs, k) <= from
  <2> TAKE k \in DOMAIN segs \ K
  <2>1. k >= first + Len(data) \/ End(segs, k) <= first
    BY <1>1, <1>3 DEF Overlapping
  <2>2. CASE k >= first + Len(data)
    <3>1. CASE end = first + Len(data)
      BY <2>2, <3>1
    <3>2. CASE end # first + Len(data)
      <4>1. PICK j \in K : end = End(segs, j)
        BY <1>5, <3>2
      <4>2. j < k
        BY <1>1, <1>2, <1>3, <2>2
      <4> QED
        BY <1>2, <1>3, <4>1, <4>2 DEF SegmentsOK
    <3> QED
      BY <3>1, <3>2
  <2>3. CASE End(segs, k) <= first
    <3>1. CASE from = first
      BY <2>3, <3>1
    <3>2. CASE from # first
      <4>1. from \in K
        BY <1>4, <3>2
      <4>2. from \in DOMAIN segs /\ first < End(segs, from) /\ k # from
        BY <1>2, <4>1
      <4>3. CASE k < from
        BY <1>3, <4>2, <4>3 DEF SegmentsOK
      <4>4. CASE from < k
        <5>1. End(segs, from) <= k
          BY <4>2, <4>4 DEF SegmentsOK
        <5> QED
          BY <1>3, <2>3, <4>2, <5>1
      <4> QED
        BY <1>3, <1>6, <4>2, <4>3, <4>4
    <3> QED
      BY <3>1, <3>2
  <2> QED
    BY <2>1, <2>2, <2>3
<1>10. from + Len(union) = end
  BY <1>6, <1>8
<1>11. \A k \in K : End(segs, k) <= end
  BY <1>5
<1> HIDE DEF union
<1> QED
  BY <1>4, <1>6, <1>8, <1>9, <1>10, <1>11 DEF from, union

\* What is cut to the window is as clear of the others as the whole.
LEMMA CutIsApart ==
  ASSUME NEW st, NEW segs, NEW at \in Nat, NEW data, NEW m \in Nat, NEW K,
         IsStream(st), IsSlice(st, data, at),
         \A k \in DOMAIN segs \ K : k \in Nat,
         \A k \in DOMAIN segs \ K : k >= at + Len(data) \/ End(segs, k) <= at
  PROVE  LET cut == Take(data, MinOf(Len(data), m))
         IN  /\ IsSlice(st, cut, at)
             /\ \A k \in DOMAIN segs \ K : k >= at + Len(cut) \/ End(segs, k) <= at
<1>1. Len(data) \in Nat
  BY LenProperties DEF IsSlice
<1> DEFINE n == MinOf(Len(data), m)
           cut == Take(data, n)
<1>2. n \in 0 .. Len(data)
  BY <1>1 DEF MinOf
<1> HIDE DEF n
<1>3. IsSlice(st, cut, at) /\ Len(cut) = n
  BY <1>2, CutSlice
<1> HIDE DEF cut
<1>4. \A k \in DOMAIN segs \ K : k >= at + Len(cut) \/ End(segs, k) <= at
  BY <1>1, <1>2, <1>3
<1> QED
  BY <1>3, <1>4 DEF n, cut

LEMMA StoreSegmentIsSound ==
  ASSUME NEW st, NEW r, NEW read \in Seq(ToSet(st)), NEW first \in Nat, NEW data,
         IsStream(st), Sound(st, r, read), AllWait(r), first > r.next_index,
         IsSlice(st, data, first)
  PROVE  Step(st, read, r, StoreSegment(r, first, data))
<1> DEFINE K == Overlapping(r.segments, first, data)
           from == MergedFirst(r.segments, first, K)
           union == Merged(r.segments, first, data, K)
           left == Without(r.segments, K)
           pending == r.bytes_pending - SizeOf(r.segments, K)
           rest == [r EXCEPT !.segments = left, !.bytes_pending = pending]
<1>1. /\ SegmentsOK(st, r.segments) /\ r.next_index \in Nat /\ Len(data) \in Nat
      /\ WindowEnd(r) = r.next_index + AvailableCapacity(r.output)
      /\ AvailableCapacity(r.output) \in Nat
  BY SoundFacts, LenProperties DEF IsSlice
<1>2. \A k \in DOMAIN r.segments : k \in Nat /\ End(r.segments, k) \in Nat
  BY <1>1, SegmentFacts
<1>3. \A at \in Nat : Room(r, at) \in Nat
  BY <1>1 DEF Room
<1>n. Step(st, read, r, r)
  BY NoStep
<1>4. K \subseteq DOMAIN r.segments
  BY DEF Overlapping
<1>5. ASSUME K = {}
      PROVE  Step(st, read, r, StoreAlone(r, first, data))
  <2> DEFINE cut == Take(data, MinOf(Len(data), Room(r, first)))
  <2>1. \A k \in DOMAIN r.segments \ {} : k >= first + Len(data) \/ End(r.segments, k) <= first
    BY <1>1, <1>2, <1>5 DEF Overlapping
  <2>2. /\ IsSlice(st, cut, first)
        /\ \A k \in DOMAIN r.segments \ {} : k >= first + Len(cut) \/ End(r.segments, k) <= first
    BY <1>2, <1>3, <2>1, CutIsApart
  <2> HIDE DEF cut
  <2>3. Step(st, read, r, StoreAt(r, first, cut))
    BY <2>2, StoreAtIsSound
  <2> QED
    BY <1>n, <2>3 DEF StoreAlone, cut
<1>6. Step(st, read, r, StoreMerged(r, first, data, K))
  <2> DEFINE cut == Take(union, MinOf(Len(union), Room(r, from)))
  <2>1. /\ from \in {first} \cup K /\ from \in Nat
        /\ IsSlice(st, union, from)
        /\ \A k \in DOMAIN r.segments \ K :
             k >= from + Len(union) \/ End(r.segments, k) <= from
    <3>1. LET f == MergedFirst(r.segments, first, K)
              u == Merged(r.segments, first, data, K)
          IN  /\ f \in {first} \cup K /\ f \in Nat
              /\ IsSlice(st, u, f)
              /\ \A k \in DOMAIN r.segments \ K :
                   k >= f + Len(u) \/ End(r.segments, k) <= f
              /\ \A k \in {first} \cup K : f <= k
              /\ first + Len(data) <= f + Len(u)
              /\ \A k \in K : End(r.segments, k) <= f + Len(u)
      BY <1>1, MergedIsSlice, SMTT(30)
    <3> HIDE DEF K
    <3> QED
      BY <3>1, Zenon
  <2>2. from > r.next_index
    BY <1>4, <2>1 DEF AllWait
  <2> HIDE DEF from, union, K
  <2>3. SegmentsOK(st, left) /\ DOMAIN left = DOMAIN r.segments \ K
    <3>1. SegmentsOK(st, left)
      BY <1>1, FewerSegments
    <3>2. DOMAIN left = DOMAIN r.segments \ K
      BY DEF Without
    <3> QED
      BY <3>1, <3>2
  <2>4. \A k \in DOMAIN left : k > r.next_index /\ End(left, k) = End(r.segments, k)
    BY <2>3 DEF AllWait, Without, End
  <2>s. StoreMerged(r, first, data, K) =
          IF Len(union) + rest.bytes_pending <= AvailableCapacity(r.output)
          THEN StoreAt(rest, from, union)
          ELSE IF Room(r, from) = 0
          THEN rest
          ELSE StoreAt(rest, from, cut)
    BY DEF StoreMerged, from, union
  <2>r. rest = Restored(r, left, pending)
    BY DEF Restored
  <2> HIDE DEF left, pending, rest
  <2>5. /\ Step(st, read, r, rest)
        /\ rest.segments = left /\ rest.next_index = r.next_index
    <3>1. SegmentsOK(st, left) /\ \A k \in DOMAIN left : k > r.next_index
      BY <2>3, <2>4
    <3> QED
      BY <2>r, <3>1, RestoredIsSound
  <2>t. Sound(st, rest, read) /\ AllWait(rest) /\ Onward(r, rest)
    BY <2>5 DEF Step
  <2>6. /\ IsSlice(st, cut, from)
        /\ \A k \in DOMAIN r.segments \ K :
             k >= from + Len(cut) \/ End(r.segments, k) <= from
    BY <1>2, <1>3, <2>1, CutIsApart
  <2> HIDE DEF cut
  <2>7. Step(st, read, r, StoreAt(rest, from, union))
    <3>1. Step(st, read, rest, StoreAt(rest, from, union))
      BY <2>1, <2>2, <2>3, <2>4, <2>5, <2>t, StoreAtIsSound
    <3> QED
      BY <2>t, <3>1, StepOnStep
  <2>8. Step(st, read, r, StoreAt(rest, from, cut))
    <3>1. Step(st, read, rest, StoreAt(rest, from, cut))
      BY <2>1, <2>2, <2>3, <2>4, <2>5, <2>6, <2>t, StoreAtIsSound
    <3> QED
      BY <2>t, <3>1, StepOnStep
  <2> QED
    BY <2>s, <2>5, <2>7, <2>8
<1> QED
  BY <1>n, <1>5, <1>6 DEF StoreSegment

-----------------------------------------------------------------------------
(* insert(), the reader and the whole *)

\* insert() of any slice, old, next or early, flagged as the last if it is.
LEMMA InsertIsSound ==
  ASSUME NEW st, NEW r, NEW read \in Seq(ToSet(st)), NEW first \in Nat, NEW data,
         NEW last \in BOOLEAN,
         IsStream(st), Sound(st, r, read), AllWait(r), IsSlice(st, data, first),
         last => first + Len(data) = Len(st)
  PROVE  Step(st, read, NoteEof(r, first, data, last), Insert(r, first, data, last))
<1> DEFINE noted == NoteEof(r, first, data, last)
           next == r.next_index
           kept == IF last /\ first > next
                   THEN Take(data, MinOf(Len(data), Room(r, first)))
                   ELSE data
           rest == Drop(data, next - first)
<1>2. /\ next \in Nat /\ Len(data) \in Nat
      /\ WindowEnd(r) = next + AvailableCapacity(r.output)
      /\ AvailableCapacity(r.output) \in Nat
  BY SoundFacts, LenProperties DEF IsSlice
<1>1. /\ Sound(st, noted, read) /\ AllWait(noted)
      /\ noted.next_index = next
  BY <1>2, NoteEofIsSound DEF Noted
<1>i. Insert(r, first, data, last) =
        IF first < next /\ first + Len(data) <= next THEN noted
        ELSE IF first <= next
        THEN CloseAtEof(TryAssemble(PushOutput(noted, rest)))
        ELSE CloseAtEof(StoreSegment(noted, first, kept))
  BY DEF Insert
<1> HIDE DEF noted, next, kept, rest
<1>3. CASE first < next /\ first + Len(data) <= next
  BY <1>1, <1>3, <1>i, NoStep DEF noted
<1>4. CASE first <= next /\ ~(first < next /\ first + Len(data) <= next)
  <2>1. next - first \in 0 .. Len(data) /\ first + (next - first) = next
    BY <1>2, <1>4
  <2>2. IsSlice(st, rest, next)
    <3>1. IsSlice(st, rest, first + (next - first))
      BY <2>1, CutSlice DEF rest
    <3> QED
      BY <2>1, <3>1
  <2> DEFINE pushed == PushOutput(noted, rest)
             assembled == TryAssemble(pushed)
             closed == CloseAtEof(assembled)
  <2>3. Sound(st, pushed, read) /\ Onward(noted, pushed)
    BY <1>1, <2>2, PushOutputIsSound
  <2> HIDE DEF pushed
  <2>4. Step(st, read, pushed, assembled)
    BY <2>3, TryAssembleIsSound
  <2> HIDE DEF assembled
  <2>5. Step(st, read, assembled, closed)
    BY <2>4, CloseAtEofIsSound DEF Step
  <2> HIDE DEF closed
  <2>6. Step(st, read, pushed, closed)
    BY <2>3, <2>4, <2>5, StepOnStep DEF Step
  <2>7. Step(st, read, noted, closed)
    BY <1>1, <2>3, <2>6, StepOnStep
  <2> QED
    BY <1>4, <1>i, <2>7 DEF noted, pushed, assembled, closed
<1>5. CASE ~(first <= next)
  <2>1. IsSlice(st, kept, first)
    <3>1. MinOf(Len(data), Room(r, first)) \in 0 .. Len(data)
      BY <1>2 DEF MinOf, Room
    <3>2. IsSlice(st, Take(data, MinOf(Len(data), Room(r, first))), first)
      BY <3>1, CutSlice
    <3> QED
      BY <3>2 DEF kept
  <2>2. first > noted.next_index
    BY <1>1, <1>2, <1>5
  <2> DEFINE stored == StoreSegment(noted, first, kept)
             closed == CloseAtEof(stored)
  <2>3. Step(st, read, noted, stored)
    BY <1>1, <2>1, <2>2, StoreSegmentIsSound
  <2> HIDE DEF stored
  <2>4. Step(st, read, stored, closed)
    BY <2>3, CloseAtEofIsSound DEF Step
  <2> HIDE DEF closed
  <2>5. Step(st, read, noted, closed)
    BY <1>1, <2>3, <2>4, StepOnStep DEF Step
  <2>6. ~(first < next /\ first + Len(data) <= next)
    BY <1>2, <1>5
  <2> QED
    BY <1>5, <1>i, <2>5, <2>6 DEF noted, stored, closed
<1> QED
  BY <1>3, <1>4, <1>5

AfterPop(r, len) == [r EXCEPT !.output = Pop(@, len)]
ReadAfterPop(r, read, len) == read \o Take(r.output.buffer, Removed(r.output, len))

\* What popping leaves alone, and what it takes back not even then.
PopStep(r, q) ==
  /\ q.next_index = r.next_index /\ q.output.is_closed = r.output.is_closed
  /\ q.eof_flag = r.eof_flag /\ q.eof_index = r.eof_index
  /\ q.output.bytes_pushed = r.output.bytes_pushed
  /\ q.output.bytes_popped >= r.output.bytes_popped
  /\ q.output.capacity = r.output.capacity

\* What the reader pops is read, in the order it was written.
LEMMA PopIsSound ==
  ASSUME NEW st, NEW r, NEW read \in Seq(ToSet(st)), NEW len \in Nat,
         IsStream(st), Sound(st, r, read), AllWait(r)
  PROVE  /\ ReadAfterPop(r, read, len) \in Seq(ToSet(st))
         /\ Sound(st, AfterPop(r, len), ReadAfterPop(r, read, len))
         /\ AllWait(AfterPop(r, len)) /\ PopStep(r, AfterPop(r, len))
<1> DEFINE q == AfterPop(r, len)
           now == ReadAfterPop(r, read, len)
<1> DEFINE buffer == r.output.buffer
           n == Removed(r.output, len)
           out == Take(buffer, n)
           rest == Drop(buffer, n)
           bs == Pop(r.output, len)
<1>1. /\ OutputOK(st, r.output) /\ r.output \in ByteStreams(ToSet(st)) /\ buffer \in Seq(ToSet(st))
      /\ Len(buffer) \in Nat /\ Len(read) \in Nat
      /\ r.output.bytes_pushed \in Nat /\ r.output.bytes_popped \in Nat
  BY LenProperties DEF Sound, OutputOK, ByteStreams
<1>2. n \in 0 .. Len(buffer)
  BY <1>1 DEF Removed, MinOf
<1>b. bs = [r.output EXCEPT !.buffer = rest, !.bytes_popped = @ + n]
  BY DEF Pop
<1>w. now = read \o out
  BY DEF ReadAfterPop
<1>q. q = [r EXCEPT !.output = bs]
  BY DEF AfterPop
<1> HIDE DEF q, now, n, buffer
<1>3. /\ out \in Seq(ToSet(st)) /\ Len(out) = n
      /\ rest \in Seq(ToSet(st)) /\ Len(rest) = Len(buffer) - n
      /\ out \o rest = buffer
  BY <1>1, <1>2, Cut
<1> HIDE DEF out, rest
<1>4. /\ bs \in ByteStreams(ToSet(st))
      /\ bs.buffer = rest /\ bs.bytes_popped = r.output.bytes_popped + n
      /\ bs.bytes_pushed = r.output.bytes_pushed /\ bs.capacity = r.output.capacity
      /\ bs.error = r.output.error /\ bs.is_closed = r.output.is_closed
  <2>1. r.output.bytes_popped + n \in Nat
    BY <1>1, <1>2
  <2>2. bs \in ByteStreams(ToSet(st))
    BY <1>1, <1>3, <1>b, <2>1, Zenon DEF ByteStreams
  <2> QED
    BY <1>1, <1>b, <2>2 DEF ByteStreams
<1> HIDE DEF bs
<1>5. OutputOK(st, bs)
  <2>1. /\ r.output.bytes_pushed = r.output.bytes_popped + Len(buffer)
        /\ Len(buffer) <= r.output.capacity /\ r.output.capacity \in Nat
    BY <1>1 DEF OutputOK, ByteStreams, buffer
  <2>2. bs.bytes_pushed = bs.bytes_popped + Len(rest) /\ Len(rest) <= bs.capacity
    BY <1>1, <1>2, <1>3, <1>4, <2>1, SMTT(40)
  <2> QED
    BY <1>1, <1>4, <2>2 DEF OutputOK
<1>6. /\ now \in Seq(ToSet(st)) /\ Len(now) = Len(read) + n
      /\ now \o rest = read \o buffer
  <2>1. read \o out \in Seq(ToSet(st)) /\ Len(read \o out) = Len(read) + Len(out)
    BY <1>3, ConcatProperties
  <2>2. (read \o out) \o rest = read \o (out \o rest)
    <3>1. \A s, t, u \in Seq(ToSet(st)) : (s \o t) \o u = s \o (t \o u)
      BY Associates, SMTT(60)
    <3> QED
      BY <1>3, <3>1, Zenon
  <2> QED
    BY <1>3, <1>w, <2>1, <2>2
<1>7. /\ IsReassembler(st, q) /\ q.output = bs /\ q.next_index = r.next_index
      /\ q.segments = r.segments /\ q.eof_flag = r.eof_flag /\ q.eof_index = r.eof_index
  <2>1. q = [r EXCEPT !.output = bs]
    BY <1>q
  <2>2. q \in [ output : ByteStreams(ToSet(st)), segments : {r.segments}, next_index : Nat,
                bytes_pending : {r.bytes_pending}, eof_flag : BOOLEAN, eof_index : Nat ]
    BY <1>4, <2>1, Zenon DEF Sound, IsReassembler
  <2>3. /\ q.output = bs /\ q.next_index = r.next_index /\ q.segments = r.segments
        /\ q.bytes_pending = r.bytes_pending
        /\ q.eof_flag = r.eof_flag /\ q.eof_index = r.eof_index
    BY <2>1 DEF Sound, IsReassembler
  <2> QED
    BY <2>2, <2>3 DEF IsReassembler
<1>8. Len(now) + Len(rest) = r.next_index
  <2>1. Len(read) + Len(buffer) = r.next_index
    BY DEF Sound, buffer
  <2> QED
    BY <1>1, <1>2, <1>3, <1>6, <2>1
<1>9. IsSlice(st, now \o rest, 0)
  BY <1>6 DEF Sound, buffer
<1>10. Sound(st, q, now)
  BY <1>4, <1>5, <1>7, <1>8, <1>9 DEF Sound
<1>11. AllWait(q)
  BY <1>7 DEF AllWait
<1> QED
  <2>1. bs.bytes_popped >= r.output.bytes_popped
    BY <1>1, <1>2, <1>4
  <2>2. PopStep(r, q)
    BY <1>4, <1>7, <2>1 DEF PopStep
  <2> QED
    BY <1>6, <1>10, <1>11, <2>2 DEF q, now

-----------------------------------------------------------------------------
(* Sequence numbers: what wrap and unwrap do for each other *)

\* Division with remainder: what \div and % give.
LEMMA Division ==
  ASSUME NEW m \in Nat \ {0}, NEW n \in Nat
  PROVE  /\ n \div m \in Nat
         /\ n % m \in 0 .. m - 1
         /\ n = m * (n \div m) + (n % m)
OBVIOUS

\* Quotients a whole number apart put their multiples at least m apart.
LEMMA Multiples ==
  ASSUME NEW m \in Nat \ {0}, NEW p \in Nat, NEW q \in Nat, p < q
  PROVE  m * p + m <= m * q
<1>1. p + 1 <= q
  OBVIOUS
<1>2. m * (p + 1) <= m * q
  BY <1>1
<1>3. m * (p + 1) = m * p + m
  OBVIOUS
<1> QED
  BY <1>2, <1>3

\* Quotient and remainder are unique.
LEMMA DivisionUnique ==
  ASSUME NEW m \in Nat \ {0}, NEW n \in Nat,
         NEW q \in Nat, NEW r \in 0 .. m - 1, n = m * q + r
  PROVE  n % m = r /\ n \div m = q
<1>1. /\ n = m * (n \div m) + (n % m)
      /\ n % m \in 0 .. m - 1 /\ n \div m \in Nat
  BY Division
<1>2. CASE q = n \div m
  BY <1>1, <1>2
<1>3. CASE n \div m < q
  <2>1. m * (n \div m) + m <= m * q
    BY <1>1, <1>3, Multiples
  <2> QED
    BY <1>1, <2>1
<1>4. CASE q < n \div m
  <2>1. m * q + m <= m * (n \div m)
    BY <1>1, <1>4, Multiples
  <2> QED
    BY <1>1, <2>1
<1> QED
  BY <1>1, <1>2, <1>3, <1>4

\* The two differences from zero_point that unwrap begins with: the offset of
\* a wrapped number within its period, and back.
LEMMA Offset ==
  ASSUME NEW n \in Nat, NEW zero_point \in Wraps
  PROVE  ((Wrap(n, zero_point) + Modulus) - zero_point) % Modulus = n % Modulus
<1> DEFINE M == Modulus
           w == (n + zero_point) % M
           q == (n + zero_point) \div M
           t == (w + M) - zero_point
<1>1. M \in Nat \ {0} /\ zero_point \in 0 .. M - 1
  BY ModulusAssumption DEF Wraps
<1>2. /\ n + zero_point = M * q + w
      /\ w \in 0 .. M - 1 /\ q \in Nat
  <2>1. n + zero_point \in Nat
    BY <1>1
  <2> QED
    BY <1>1, <2>1, Division
<1>3. t \in Nat
  BY <1>1, <1>2
<1>4. /\ t = M * (t \div M) + (t % M)
      /\ t % M \in 0 .. M - 1 /\ t \div M \in Nat
  BY <1>1, <1>3, Division
<1> DEFINE k == q + (t \div M) - 1
<1>5. n = M * k + (t % M)
  <2>1. M * k = M * q + M * (t \div M) - M
    BY <1>1, <1>2, <1>4
  <2> QED
    BY <1>1, <1>2, <1>4, <2>1
<1>6. k \in Nat
  <2>1. CASE q = 0 /\ t \div M = 0
    BY <1>1, <1>2, <1>4, <2>1
  <2> QED
    BY <1>2, <1>4, <2>1
<1>7. n % M = t % M
  <2> HIDE DEF k, t
  <2> QED
    BY <1>1, <1>4, <1>5, <1>6, DivisionUnique
<1> QED
  BY <1>7 DEF Wrap

\* A number of any period at the offset of raw wraps to raw.
LEMMA WrapOfOffset ==
  ASSUME NEW raw \in Wraps, NEW zero_point \in Wraps, NEW k \in Nat
  PROVE  Wrap(Modulus * k + (((raw + Modulus) - zero_point) % Modulus), zero_point) = raw
<1> DEFINE M == Modulus
           t == (raw + M) - zero_point
<1>1. M \in Nat \ {0} /\ zero_point \in 0 .. M - 1 /\ raw \in 0 .. M - 1
  BY ModulusAssumption DEF Wraps
<1>2. t \in Nat
  BY <1>1
<1>3. /\ t = M * (t \div M) + (t % M)
      /\ t % M \in 0 .. M - 1 /\ t \div M \in Nat
  BY <1>1, <1>2, Division
<1>4. t \div M \in {0, 1}
  <2>1. SUFFICES ASSUME 1 < t \div M PROVE FALSE
    BY <1>3
  <2>2. M * 1 + M <= M * (t \div M)
    BY <1>1, <1>3, <2>1, Multiples
  <2> QED
    BY <1>1, <1>3, <2>2
<1> DEFINE j == k + 1 - (t \div M)
           s == M * k + (t % M) + zero_point
<1>5. j \in Nat
  BY <1>4
<1>6. s = M * j + raw
  <2>1. M * j = M * k + M - M * (t \div M)
    BY <1>1, <1>4
  <2> QED
    BY <1>1, <1>3, <2>1
<1>7. s \in Nat
  <2>1. M * k \in Nat
    BY <1>1
  <2> QED
    BY <1>1, <1>3, <2>1
<1>8. s % M = raw
  <2> HIDE DEF s, j
  <2> QED
    BY <1>1, <1>5, <1>6, <1>7, DivisionUnique
<1> QED
  BY <1>8 DEF Wrap

\* The wrapped number that a checkpoint is read against, as unwrap finds it:
\* the number in the checkpoint's period, and what is known of it.
LEMMA SamePeriod ==
  ASSUME NEW raw \in Wraps, NEW zero_point \in Wraps, NEW checkpoint \in Nat
  PROVE  LET offset == ((raw + Modulus) - zero_point) % Modulus
             p == checkpoint \div Modulus
         IN  /\ offset \in 0 .. Modulus - 1 /\ p \in Nat
             /\ checkpoint - (checkpoint % Modulus) = Modulus * p
             /\ Modulus * p \in Nat
             /\ Modulus * p <= checkpoint /\ checkpoint < Modulus * p + Modulus
<1> DEFINE M == Modulus
<1>1. M \in Nat \ {0} /\ zero_point \in 0 .. M - 1 /\ raw \in 0 .. M - 1
  BY ModulusAssumption DEF Wraps
<1>2. (raw + M) - zero_point \in Nat
  BY <1>1
<1>3. ((raw + M) - zero_point) % M \in 0 .. M - 1
  BY <1>1, <1>2, Division
<1>4. /\ checkpoint = M * (checkpoint \div M) + (checkpoint % M)
      /\ checkpoint % M \in 0 .. M - 1 /\ checkpoint \div M \in Nat
  BY <1>1, Division
<1>5. M * (checkpoint \div M) \in Nat
  BY <1>1, <1>4
<1> QED
  BY <1>1, <1>3, <1>4, <1>5

\* What unwrap gives is a number that wraps to what it was given
\* (wrapping_integers.hh:22-27).
THEOREM UnwrapWraps ==
  ASSUME NEW raw \in Wraps, NEW zero_point \in Wraps, NEW checkpoint \in Nat
  PROVE  /\ Unwrap(raw, zero_point, checkpoint) \in Nat
         /\ Wrap(Unwrap(raw, zero_point, checkpoint), zero_point) = raw
<1> DEFINE M == Modulus
           offset == ((raw + M) - zero_point) % M
           p == checkpoint \div M
           same == M * p + offset
           result == Unwrap(raw, zero_point, checkpoint)
<1>1. M \in Nat \ {0}
  BY ModulusAssumption
<1>2. /\ offset \in 0 .. M - 1 /\ p \in Nat
      /\ checkpoint - (checkpoint % M) = M * p
      /\ M * p \in Nat
  BY SamePeriod
<1>3. \/ result = same
      \/ result = same + M
      \/ same >= M /\ result = same - M
  BY <1>2 DEF Unwrap
<1>4. \E k \in Nat : result = M * k + offset
  <2>1. CASE result = same
    BY <1>2, <2>1
  <2>2. CASE result = same + M
    <3>1. M * (p + 1) = M * p + M
      BY <1>1, <1>2
    <3>2. result = M * (p + 1) + offset /\ p + 1 \in Nat
      <4> HIDE DEF offset, p, result
      <4> QED
        BY <1>1, <1>2, <2>2, <3>1
    <3> QED
      BY <3>2
  <2>3. CASE same >= M /\ result = same - M
    <3>1. p # 0
      <4>1. M * 0 = 0
        BY <1>1
      <4> QED
        BY <1>1, <1>2, <2>3, <4>1
    <3>2. p - 1 \in Nat /\ M * (p - 1) = M * p - M
      BY <1>1, <1>2, <3>1
    <3>3. result = M * (p - 1) + offset
      <4> HIDE DEF offset, p, result
      <4> QED
        BY <1>1, <1>2, <2>3, <3>2
    <3> QED
      BY <3>2, <3>3
  <2> QED
    BY <1>3, <2>1, <2>2, <2>3
<1>5. PICK k \in Nat : result = M * k + offset
  BY <1>4
<1>6. result \in Nat
  <2>1. M * k \in Nat
    BY <1>1
  <2> QED
    BY <1>2, <1>5, <2>1
<1>7. Wrap(M * k + offset, zero_point) = raw
  BY WrapOfOffset
<1> QED
  BY <1>5, <1>6, <1>7

\* Of all absolute numbers that wrap to what it was given, unwrap finds one
\* that is closest to the checkpoint (wrapping_integers.hh:22-27).
THEOREM UnwrapIsClosest ==
  ASSUME NEW n \in Nat, NEW zero_point \in Wraps, NEW checkpoint \in Nat
  PROVE  Distance(Unwrap(Wrap(n, zero_point), zero_point, checkpoint), checkpoint)
           <= Distance(n, checkpoint)
<1> DEFINE M == Modulus
           raw == Wrap(n, zero_point)
           offset == ((raw + M) - zero_point) % M
           p == checkpoint \div M
           q == n \div M
           same == M * p + offset
           result == Unwrap(raw, zero_point, checkpoint)
<1>1. M \in Nat \ {0}
  BY ModulusAssumption
<1>2. raw \in Wraps
  <2>1. n + zero_point \in Nat
    BY ModulusAssumption DEF Wraps
  <2> QED
    BY <1>1, <2>1, Division DEF Wrap, Wraps
<1>3. /\ offset \in 0 .. M - 1 /\ p \in Nat
      /\ checkpoint - (checkpoint % M) = M * p
      /\ M * p \in Nat
      /\ M * p <= checkpoint /\ checkpoint < M * p + M
  BY <1>2, SamePeriod
<1>4. n = M * q + offset /\ q \in Nat /\ M * q \in Nat
  <2>1. n = M * q + (n % M) /\ q \in Nat
    BY <1>1, Division
  <2>2. n % M = offset
    BY Offset
  <2> QED
    BY <1>1, <2>1, <2>2
<1>5. result = LET up == IF Distance(same + M, checkpoint) < Distance(same, checkpoint)
                         THEN same + M ELSE same
               IN  IF same >= M /\ Distance(same - M, checkpoint) < Distance(up, checkpoint)
                   THEN same - M ELSE up
  BY <1>3 DEF Unwrap
<1>6. /\ Distance(result, checkpoint) <= Distance(same, checkpoint)
      /\ Distance(result, checkpoint) <= Distance(same + M, checkpoint)
      /\ same >= M => Distance(result, checkpoint) <= Distance(same - M, checkpoint)
  <2> HIDE DEF offset, p, result
  <2> QED
    BY <1>1, <1>3, <1>5 DEF Distance
<1>7. CASE q = p
  BY <1>4, <1>6, <1>7
<1>8. CASE p < q
  <2>1. M * p + M <= M * q
    BY <1>1, <1>3, <1>4, <1>8, Multiples
  <2>2. Distance(same + M, checkpoint) <= Distance(n, checkpoint)
    <3> HIDE DEF offset, p, q
    <3> QED
      BY <1>1, <1>3, <1>4, <2>1 DEF Distance
  <2>3. Distance(result, checkpoint) \in Int /\ Distance(n, checkpoint) \in Int
        /\ Distance(same + M, checkpoint) \in Int
    BY <1>1, <1>2, <1>3, UnwrapWraps DEF Distance
  <2> QED
    BY <1>6, <2>2, <2>3
<1>9. CASE q < p
  <2>1. M * q + M <= M * p
    BY <1>1, <1>3, <1>4, <1>9, Multiples
  <2>2. same >= M /\ Distance(same - M, checkpoint) <= Distance(n, checkpoint)
    <3> HIDE DEF offset, p, q
    <3> QED
      BY <1>1, <1>3, <1>4, <2>1 DEF Distance
  <2>3. Distance(result, checkpoint) \in Int /\ Distance(n, checkpoint) \in Int
        /\ Distance(same - M, checkpoint) \in Int
    BY <1>1, <1>2, <1>3, UnwrapWraps DEF Distance
  <2> QED
    BY <1>6, <2>2, <2>3
<1> QED
  BY <1>3, <1>4, <1>7, <1>8, <1>9

\* A number that is read less than half a period from where it was stamped is
\* read right, across every wrap and whatever the initial sequence number.
THEOREM RoundTrip ==
  ASSUME NEW n \in Nat, NEW zero_point \in Wraps, NEW checkpoint \in Nat,
         2 * Distance(n, checkpoint) < Modulus
  PROVE  Unwrap(Wrap(n, zero_point), zero_point, checkpoint) = n
<1> DEFINE M == Modulus
           raw == Wrap(n, zero_point)
           result == Unwrap(raw, zero_point, checkpoint)
<1>1. M \in Nat \ {0}
  BY ModulusAssumption
<1>2. raw \in Wraps
  <2>1. n + zero_point \in Nat
    BY ModulusAssumption DEF Wraps
  <2> QED
    BY <1>1, <2>1, Division DEF Wrap, Wraps
<1>3. result \in Nat /\ Wrap(result, zero_point) = raw
  BY <1>2, UnwrapWraps
<1>4. result % M = n % M
  BY <1>3, Offset
<1>5. Distance(result, checkpoint) <= Distance(n, checkpoint)
  BY UnwrapIsClosest
<1>6. result < n + M /\ n < result + M
  <2> HIDE DEF result
  <2> QED
    BY <1>1, <1>3, <1>5 DEF Distance
<1>7. /\ result = M * (result \div M) + (result % M) /\ result \div M \in Nat
      /\ n = M * (n \div M) + (n % M) /\ n \div M \in Nat
      /\ n % M \in 0 .. M - 1
  BY <1>1, <1>3, Division
<1> DEFINE i == result \div M
           j == n \div M
           r == n % M
<1>8. /\ result = M * i + r /\ i \in Nat
      /\ n = M * j + r /\ j \in Nat
      /\ r \in 0 .. M - 1
  BY <1>4, <1>7
<1> HIDE DEF result, i, j, r
<1>9. M * i < M * j + M /\ M * j < M * i + M
  BY <1>1, <1>6, <1>8
<1>10. ~ (i < j)
  BY <1>1, <1>8, <1>9, Multiples
<1>11. ~ (j < i)
  BY <1>1, <1>8, <1>9, Multiples
<1>12. i = j
  BY <1>8, <1>10, <1>11
<1>13. result = n
  BY <1>8, <1>12
<1> QED
  BY <1>13 DEF result

-----------------------------------------------------------------------------
(* One way of a connection *)

\* One way of a connection as its sender and its receiver see it: the bytes to
\* carry, the sender's initial sequence number, the capacity at this end.
Bytes(conv) == ToSet(conv.stream)
IsConversation(conv) ==
  /\ conv.stream \in Seq(Bytes(conv)) /\ conv.isn \in Wraps /\ conv.capacity \in Nat

-----------------------------------------------------------------------------
(* Senders *)

OutMessages(conv) == [ seqno : Wraps, SYN : BOOLEAN, payload : Seq(Bytes(conv)), FIN : BOOLEAN, RST : {FALSE} ]
OutSegments(conv) == [ msg : OutMessages(conv), seqno : Nat, length : Nat \ {0}, transmit_time : Nat ]
Senders(conv) ==
  [ input : ByteStreams(Bytes(conv)), isn : {conv.isn}, initial_RTO : Nat, current_RTO : Nat,
    window_size : Nat, bytes_in_flight : Nat, next_seqno : Nat, time_running : BOOLEAN,
    consecutive_retransmissions : Nat, syn_sent : BOOLEAN, fin_sent : BOOLEAN,
    outstanding : Seq(OutSegments(conv)) ]

\* Of the w bytes written, the input still holds those that were not sent.
HoldsTheRest(conv, s, w) ==
  /\ s.input.capacity = conv.capacity /\ Len(s.input.buffer) <= conv.capacity
  /\ s.input.bytes_pushed = s.input.bytes_popped + Len(s.input.buffer)
  /\ s.input.bytes_popped + Len(s.input.buffer) = w
  /\ \A i \in 1 .. Len(s.input.buffer) : s.input.buffer[i] = conv.stream[s.input.bytes_popped + i]

\* next_seqno counts the flags and bytes sent; the FIN is the last of them.
CountsSent(s) ==
  /\ s.next_seqno = Count(s.syn_sent) + s.input.bytes_popped + Count(s.fin_sent)
  /\ s.fin_sent => s.input.is_closed /\ s.input.buffer = << >>
  /\ s.input.bytes_popped > 0 \/ s.fin_sent => s.syn_sent

EndOf(g) == g.seqno + g.length

\* The outstanding segments are one run that ends at next_seqno.
InARow(s) ==
  LET out == s.outstanding
      n == Len(s.outstanding)
  IN  /\ \A i \in 1 .. n - 1 : EndOf(out[i]) = out[i + 1].seqno
      /\ n > 0 => EndOf(out[n]) = s.next_seqno /\ s.bytes_in_flight = s.next_seqno - out[1].seqno
      /\ n = 0 => s.bytes_in_flight = 0

\* IsTrue of the message of one segment, of any sender.
TrueSegment(conv, s, g) ==
  LET first == IF g.msg.SYN THEN 1 ELSE g.seqno IN
  /\ g.length = SequenceLength(g.msg)
  /\ g.msg.seqno = Wrap(g.seqno, conv.isn)
  /\ g.msg.SYN <=> g.seqno = 0
  /\ g.msg.payload = SubSeq(conv.stream, first, first + Len(g.msg.payload) - 1)
  /\ g.msg.FIN <=> s.fin_sent /\ EndOf(g) = s.next_seqno
AllTrue(conv, s) == \A i \in 1 .. Len(s.outstanding) : TrueSegment(conv, s, s.outstanding[i])

Timed(s) == s.outstanding # << >> => s.time_running

SoundSender(conv, s, w) ==
  /\ IsConversation(conv) /\ s \in Senders(conv) /\ w \in 0 .. Len(conv.stream)
  /\ HoldsTheRest(conv, s, w) /\ CountsSent(s) /\ InARow(s) /\ AllTrue(conv, s) /\ Timed(s)

\* Every message of sent belongs to an outstanding segment of s, or is the reset
\* of a broken one.
Carried(sent, s) ==
  \A i \in 1 .. Len(sent) :
    \/ sent[i].RST /\ s.input.error
    \/ \E j \in 1 .. Len(s.outstanding) : sent[i] = s.outstanding[j].msg

\* What push does to a sender, turn by turn: it adds to what is outstanding, and
\* what it adds once the SYN is out fits into the window.
Pushed(s, q) ==
  /\ q.window_size = s.window_size
  /\ q.input.error = s.input.error /\ q.input.is_closed = s.input.is_closed
  /\ s.syn_sent => q.syn_sent
  /\ s.next_seqno <= q.next_seqno
  /\ q.bytes_in_flight = s.bytes_in_flight + (q.next_seqno - s.next_seqno)
  /\ Len(s.outstanding) <= Len(q.outstanding)
  /\ \A i \in 1 .. Len(s.outstanding) : q.outstanding[i] = s.outstanding[i]
  /\ s.syn_sent /\ q.next_seqno > s.next_seqno => q.bytes_in_flight <= EffectiveWindow(s)

\* A message push may send: the SYN first, at most the bytes there are, the FIN
\* with the last of them, and never nothing at all.
MaySend(s, SYN, k, FIN) ==
  /\ ~s.fin_sent /\ ~s.input.error
  /\ k \in 0 .. Len(s.input.buffer) /\ SYN \in BOOLEAN /\ FIN \in BOOLEAN
  /\ SYN = ~s.syn_sent
  /\ FIN => s.input.is_closed /\ k = Len(s.input.buffer)
  /\ SYN \/ FIN \/ k > 0
  /\ s.syn_sent => k + Count(FIN) <= Space(s)

-----------------------------------------------------------------------------
(* The input *)

LEMMA InputIsTyped ==
  ASSUME NEW conv, NEW w, NEW s, SoundSender(conv, s, w)
  PROVE  /\ s.input \in ByteStreams(Bytes(conv)) /\ s.input.buffer \in Seq(Bytes(conv))
         /\ Len(s.input.buffer) \in Nat /\ s.input.bytes_popped \in Nat
         /\ s.input.bytes_pushed \in Nat /\ s.input.error \in BOOLEAN
         /\ s.input.is_closed \in BOOLEAN /\ s.input.capacity \in Nat
         /\ Len(conv.stream) \in Nat /\ w \in Nat /\ w <= Len(conv.stream)
<1>1. s.input \in ByteStreams(Bytes(conv))
  BY DEF SoundSender, Senders
<1>2. Len(conv.stream) \in Nat
  BY LenProperties DEF SoundSender, IsConversation
<1> QED
  BY <1>1, <1>2, LenProperties DEF SoundSender, ByteStreams

\* A stretch of the stream is known by its bytes.
LEMMA StretchOfStream ==
  ASSUME NEW conv, IsConversation(conv), NEW p \in Seq(Bytes(conv)), NEW first \in Nat \ {0}, first + Len(p) - 1 <= Len(conv.stream),
         \A i \in 1 .. Len(p) : p[i] = conv.stream[first + i - 1]
  PROVE  p = SubSeq(conv.stream, first, first + Len(p) - 1)
<1> DEFINE n == Len(p)
           last == first + n - 1
           q == SubSeq(conv.stream, first, last)
<1>1. n \in Nat /\ Len(conv.stream) \in Nat /\ last \in Int /\ first \in Int
  BY LenProperties DEF IsConversation
<1>2. \A i \in first .. last : conv.stream[i] \in Bytes(conv)
  <2>1. \A i \in 1 .. Len(conv.stream) : conv.stream[i] \in Bytes(conv)
    BY ElementOfSeq DEF IsConversation
  <2> QED
    BY <1>1, <2>1
<1>3. /\ q \in Seq(Bytes(conv))
      /\ Len(q) = IF first <= last THEN last - first + 1 ELSE 0
      /\ \A i \in 1 .. last - first + 1 : q[i] = conv.stream[first + i - 1]
  <2> HIDE DEF last
  <2> QED
    BY <1>1, <1>2, SubSeqProperties
<1>4. Len(q) = n /\ last - first + 1 = n
  BY <1>1, <1>3
<1> HIDE DEF q, n
<1>5. \A i \in 1 .. n : q[i] = p[i]
  BY <1>3, <1>4 DEF n
<1>6. p = q
  BY <1>3, <1>4, <1>5, SeqEqual DEF n
<1> QED
  BY <1>6 DEF q, n

-----------------------------------------------------------------------------
(* One message *)

SenderFields(s) ==
  s = [ input |-> s.input, isn |-> s.isn, initial_RTO |-> s.initial_RTO,
        current_RTO |-> s.current_RTO, window_size |-> s.window_size,
        bytes_in_flight |-> s.bytes_in_flight, next_seqno |-> s.next_seqno,
        time_running |-> s.time_running,
        consecutive_retransmissions |-> s.consecutive_retransmissions,
        syn_sent |-> s.syn_sent, fin_sent |-> s.fin_sent,
        outstanding |-> s.outstanding ]

LEMMA SenderIsTyped ==
  ASSUME NEW conv, NEW w, NEW s, SoundSender(conv, s, w)
  PROVE  /\ SenderFields(s)
         /\ s.isn = conv.isn /\ s.initial_RTO \in Nat /\ s.current_RTO \in Nat
         /\ s.window_size \in Nat /\ s.bytes_in_flight \in Nat /\ s.next_seqno \in Nat
         /\ s.time_running \in BOOLEAN /\ s.consecutive_retransmissions \in Nat
         /\ s.syn_sent \in BOOLEAN /\ s.fin_sent \in BOOLEAN
         /\ s.outstanding \in Seq(OutSegments(conv)) /\ Len(s.outstanding) \in Nat
         /\ \A i \in 1 .. Len(s.outstanding) :
              s.outstanding[i] \in OutSegments(conv) /\ EndOf(s.outstanding[i]) \in Nat
<1>1. s \in Senders(conv)
  BY DEF SoundSender
<1>2. s.outstanding \in Seq(OutSegments(conv))
  BY <1>1 DEF Senders
<1>3. /\ Len(s.outstanding) \in Nat
      /\ \A i \in 1 .. Len(s.outstanding) : s.outstanding[i] \in OutSegments(conv)
  BY <1>2, LenProperties, ElementOfSeq
<1>4. \A g \in OutSegments(conv) : EndOf(g) \in Nat
  BY DEF OutSegments, EndOf
<1> QED
  BY <1>1, <1>2, <1>3, <1>4 DEF Senders, SenderFields

LEMMA CountOfFlag ==
  ASSUME NEW flag \in BOOLEAN
  PROVE  /\ Count(flag) \in 0 .. 1
         /\ flag => Count(flag) = 1
         /\ ~flag => Count(flag) = 0
BY DEF Count

LEMMA WrapIsWrapped ==
  ASSUME NEW n \in Nat, NEW zero \in Wraps
  PROVE  Wrap(n, zero) \in Wraps
BY ModulusAssumption DEF Wrap, Wraps

\* A message and the segment that keeps it.
SegmentAddsUp(conv, at, seqno, p, SYN, FIN) ==
  LET m == SenderMessage(at, SYN, p, FIN, FALSE)
      g == [ msg |-> m, seqno |-> seqno, length |-> SequenceLength(m), transmit_time |-> 0 ]
  IN  /\ g \in OutSegments(conv)
      /\ SequenceLength(m) = Count(SYN) + Len(p) + Count(FIN)
LEMMA MessageIsSegment ==
  ASSUME NEW conv, NEW at \in Wraps, NEW seqno \in Nat,
         NEW p \in Seq(Bytes(conv)), NEW SYN \in BOOLEAN, NEW FIN \in BOOLEAN,
         SYN \/ FIN \/ Len(p) > 0
  PROVE  SegmentAddsUp(conv, at, seqno, p, SYN, FIN)
<1> DEFINE m == SenderMessage(at, SYN, p, FIN, FALSE)
           len == SequenceLength(m)
           g == [ msg |-> m, seqno |-> seqno, length |-> len, transmit_time |-> 0 ]
<1>2. m = [ seqno |-> at, SYN |-> SYN, payload |-> p, FIN |-> FIN, RST |-> FALSE ]
  BY DEF SenderMessage
<1> HIDE DEF m
<1>3. m \in OutMessages(conv)
  BY <1>2 DEF OutMessages
<1>4. len = Count(SYN) + Len(p) + Count(FIN) /\ len \in Nat \ {0}
  <2>1. Len(p) \in Nat
    BY LenProperties
  <2>2. SequenceLength(m) = Count(SYN) + Len(p) + Count(FIN)
    BY <1>2 DEF SequenceLength
  <2>3. Count(SYN) \in Nat /\ Count(FIN) \in Nat /\ Count(SYN) + Len(p) + Count(FIN) # 0
    <3>1. /\ Count(SYN) \in 0 .. 1 /\ Count(FIN) \in 0 .. 1
          /\ Count(SYN) = 1 \/ Count(FIN) = 1 \/ Len(p) > 0
      BY CountOfFlag, Zenon
    <3> QED
      BY <2>1, <3>1
  <2> QED
    BY <2>1, <2>2, <2>3
<1> HIDE DEF len
<1>5. g \in OutSegments(conv)
  BY <1>3, <1>4 DEF OutSegments
<1> QED
  BY <1>4, <1>5 DEF len, m, SegmentAddsUp

\* The segments of a row start where the row starts or later, and end where it
\* ends or earlier.
LEMMA RowIsOrdered ==
  ASSUME NEW conv, NEW w, NEW s, SoundSender(conv, s, w)
  PROVE  LET out == s.outstanding
             n == Len(s.outstanding)
         IN  \A j \in 1 .. n : \A i \in 1 .. j :
               /\ out[i].seqno <= out[j].seqno
               /\ EndOf(out[i]) <= EndOf(out[j])
               /\ EndOf(out[j]) <= s.next_seqno
<1> DEFINE out == s.outstanding
           n == Len(s.outstanding)
<1>1. /\ n \in Nat
      /\ \A i \in 1 .. n : /\ out[i].seqno \in Nat /\ EndOf(out[i]) \in Nat
                           /\ out[i].seqno < EndOf(out[i])
      /\ \A i \in 1 .. n - 1 : EndOf(out[i]) = out[i + 1].seqno
      /\ n > 0 => EndOf(out[n]) = s.next_seqno
  <2>1. \A g \in OutSegments(conv) : g.seqno \in Nat /\ EndOf(g) \in Nat /\ g.seqno < EndOf(g)
    BY DEF OutSegments, EndOf
  <2>2. n \in Nat /\ \A i \in 1 .. n : out[i] \in OutSegments(conv)
    BY SenderIsTyped, Zenon
  <2>3. InARow(s)
    BY DEF SoundSender
  <2> QED
    BY <2>1, <2>2, <2>3 DEF InARow
<1>2. s.next_seqno \in Nat
  BY SenderIsTyped
<1> HIDE DEF n, out
<1> DEFINE T(i) == { d \in Nat : i + d \in 1 .. n =>
                       out[i].seqno <= out[i + d].seqno /\ EndOf(out[i]) <= EndOf(out[i + d]) }
<1>3. ASSUME NEW i \in 1 .. n PROVE 0 .. n \subseteq T(i)
  <2>1. 0 \in T(i)
    BY <1>1
  <2>2. \A d \in 1 .. n : d - 1 \in T(i) => d \in T(i)
    <3> SUFFICES ASSUME NEW d \in 1 .. n, d - 1 \in T(i), i + d \in 1 .. n
                 PROVE  out[i].seqno <= out[i + d].seqno /\ EndOf(out[i]) <= EndOf(out[i + d])
      BY <1>1
    <3> DEFINE j == i + (d - 1)
    <3>1. j \in 1 .. n - 1 /\ j \in 1 .. n /\ j + 1 = i + d
      BY <1>1
    <3>2. out[i].seqno <= out[j].seqno /\ EndOf(out[i]) <= EndOf(out[j])
      BY <3>1
    <3> HIDE DEF j
    <3>3. EndOf(out[j]) = out[i + d].seqno
      BY <1>1, <3>1
    <3> QED
      BY <1>1, <3>1, <3>2, <3>3
  <2> HIDE DEF T
  <2> QED
    BY <1>1, <2>1, <2>2, IntervalInduction
<1>4. \A j \in 1 .. n : \A i \in 1 .. j :
        out[i].seqno <= out[j].seqno /\ EndOf(out[i]) <= EndOf(out[j])
  <2> TAKE j \in 1 .. n
  <2> TAKE i \in 1 .. j
  <2>1. i \in 1 .. n /\ j - i \in 0 .. n /\ i + (j - i) = j
    BY <1>1
  <2>2. j - i \in T(i)
    BY <1>3, <2>1
  <2> QED
    BY <2>1, <2>2
<1>5. \A j \in 1 .. n : EndOf(out[j]) <= s.next_seqno
  <2> TAKE j \in 1 .. n
  <2>1. n \in 1 .. n /\ j \in 1 .. n
    BY <1>1
  <2> QED
    BY <1>1, <1>2, <1>4, <2>1
<1> QED
  BY <1>4, <1>5 DEF n, out

\* What a message takes out of the input.
LEMMA PopPart ==
  ASSUME NEW conv, NEW w, NEW s, SoundSender(conv, s, w), ~s.input.error, NEW k \in 0 .. Len(s.input.buffer)
  PROVE  LET b == Pop(s.input, k) IN
         /\ b \in ByteStreams(Bytes(conv))
         /\ b.buffer = Drop(s.input.buffer, k) /\ b.bytes_popped = s.input.bytes_popped + k
         /\ b.capacity = s.input.capacity /\ b.error = s.input.error
         /\ b.bytes_pushed = s.input.bytes_pushed /\ b.is_closed = s.input.is_closed
<1> DEFINE bs == s.input
           rest == Drop(bs.buffer, k)
           popped == bs.bytes_popped + k
           b == Pop(bs, k)
<1>1. /\ bs \in ByteStreams(Bytes(conv)) /\ bs.buffer \in Seq(Bytes(conv)) /\ Len(bs.buffer) \in Nat
      /\ bs.bytes_popped \in Nat /\ k \in Nat /\ k <= Len(bs.buffer)
  BY InputIsTyped
<1>2. Removed(bs, k) = k
  <2>1. IsFinished(bs) => Len(bs.buffer) = 0
    BY DEF IsFinished
  <2>2. MinOf(k, Len(bs.buffer)) = k
    BY <1>1 DEF MinOf
  <2> QED
    BY <1>1, <2>1, <2>2 DEF Removed
<1>3. rest \in Seq(Bytes(conv)) /\ popped \in Nat
  BY <1>1, Parts
<1>4. b = [bs EXCEPT !.buffer = rest, !.bytes_popped = popped]
  BY <1>2, Zenon DEF Pop
<1> HIDE DEF b, rest, popped
<1>5. /\ b \in ByteStreams(Bytes(conv)) /\ b.buffer = rest /\ b.bytes_popped = popped
      /\ b.capacity = bs.capacity /\ b.error = bs.error
      /\ b.bytes_pushed = bs.bytes_pushed /\ b.is_closed = bs.is_closed
  BY <1>1, <1>3, <1>4 DEF ByteStreams
<1> QED
  BY <1>5 DEF b, rest, popped

\* The sender that Send leaves, field by field.
Sends(conv, s, q, SYN, k, FIN, g) ==
  /\ q = [ input |-> Pop(s.input, k), isn |-> s.isn, initial_RTO |-> s.initial_RTO,
           current_RTO |-> s.current_RTO, window_size |-> s.window_size,
           bytes_in_flight |-> s.bytes_in_flight + g.length,
           next_seqno |-> s.next_seqno + g.length, time_running |-> TRUE,
           consecutive_retransmissions |->
             IF s.time_running THEN s.consecutive_retransmissions ELSE 0,
           syn_sent |-> s.syn_sent \/ SYN, fin_sent |-> s.fin_sent \/ FIN,
           outstanding |-> Append(s.outstanding, g) ]
  /\ g = [ msg |-> SenderMessage(Wrap(s.next_seqno, s.isn), SYN,
                          Take(s.input.buffer, k), FIN, FALSE),
           seqno |-> s.next_seqno, length |-> g.length, transmit_time |-> 0 ]
  /\ g \in OutSegments(conv) /\ g.length = SequenceLength(g.msg)
  /\ g.length = Count(SYN) + k + Count(FIN)

LEMMA SendSends ==
  ASSUME NEW conv, NEW w, NEW s, SoundSender(conv, s, w),
         NEW SYN, NEW k, NEW FIN, MaySend(s, SYN, k, FIN)
  PROVE  \E g : Sends(conv, s, Send(s, SYN, Take(s.input.buffer, k), FIN), SYN, k, FIN, g)
<1> DEFINE p == Take(s.input.buffer, k)
           m == SenderMessage(Wrap(s.next_seqno, s.isn), SYN, p, FIN, FALSE)
           len == SequenceLength(m)
           g == [ msg |-> m, seqno |-> s.next_seqno, length |-> len, transmit_time |-> 0 ]
           q == Send(s, SYN, p, FIN)
<1>1. p \in Seq(Bytes(conv)) /\ Len(p) = k /\ k \in Nat
  <2>1. k \in 0 .. Len(s.input.buffer)
    BY DEF MaySend
  <2> QED
    BY <2>1, InputIsTyped, Parts
<1>2. /\ SYN \in BOOLEAN /\ FIN \in BOOLEAN /\ (SYN \/ FIN \/ Len(p) > 0)
      /\ s.isn = conv.isn /\ s.next_seqno \in Nat
  <2>1. s.isn = conv.isn /\ s.next_seqno \in Nat
    BY SenderIsTyped
  <2> QED
    BY <1>1, <2>1 DEF MaySend
<1> HIDE DEF p
<1>3. g \in OutSegments(conv) /\ len = Count(SYN) + Len(p) + Count(FIN)
  <2> DEFINE at == Wrap(s.next_seqno, s.isn)
             seqno == s.next_seqno
  <2>1. at \in Wraps /\ seqno \in Nat
    BY <1>2, WrapIsWrapped DEF SoundSender, IsConversation
  <2> HIDE DEF at, seqno
  <2>2. SegmentAddsUp(conv, at, seqno, p, SYN, FIN)
    BY <1>1, <1>2, <2>1, MessageIsSegment
  <2> QED
    BY <2>2, Zenon DEF SegmentAddsUp, at, seqno
<1>4. q = [s EXCEPT !.input = Pop(s.input, k), !.outstanding = Append(s.outstanding, g),
                    !.bytes_in_flight = s.bytes_in_flight + len,
                    !.next_seqno = s.next_seqno + len,
                    !.syn_sent = s.syn_sent \/ SYN, !.fin_sent = s.fin_sent \/ FIN,
                    !.time_running = TRUE,
                    !.consecutive_retransmissions =
                      IF s.time_running THEN s.consecutive_retransmissions ELSE 0]
  BY <1>1 DEF Send
<1> DEFINE input == Pop(s.input, k)
           out == Append(s.outstanding, g)
           syn == s.syn_sent \/ SYN
           fin == s.fin_sent \/ FIN
           tries == IF s.time_running THEN s.consecutive_retransmissions ELSE 0
           flight == s.bytes_in_flight + len
           next == s.next_seqno + len
<1>5. q = [s EXCEPT !.input = input, !.outstanding = out, !.bytes_in_flight = flight,
                    !.next_seqno = next, !.syn_sent = syn, !.fin_sent = fin,
                    !.time_running = TRUE, !.consecutive_retransmissions = tries]
  BY <1>4
<1> HIDE DEF q, input, out, syn, fin, tries, flight, next
<1>6. q = [ input |-> input, isn |-> s.isn, initial_RTO |-> s.initial_RTO,
            current_RTO |-> s.current_RTO, window_size |-> s.window_size,
            bytes_in_flight |-> flight, next_seqno |-> next, time_running |-> TRUE,
            consecutive_retransmissions |-> tries,
            syn_sent |-> syn, fin_sent |-> fin, outstanding |-> out ]
  <2>1. SenderFields(s)
    BY SenderIsTyped, Zenon
  <2> QED
    BY <1>5, <2>1 DEF SenderFields
<1> HIDE DEF len, m
<1>7. g.length = len /\ g.msg = m
  OBVIOUS
<1> HIDE DEF g
<1>8. g = [ msg |-> m, seqno |-> s.next_seqno, length |-> g.length, transmit_time |-> 0 ]
  BY <1>7 DEF g
<1>9. /\ Len(p) = k /\ m = SenderMessage(Wrap(s.next_seqno, s.isn), SYN, p, FIN, FALSE)
      /\ len = SequenceLength(m)
  BY <1>1 DEF m, len
<1>10. Sends(conv, s, q, SYN, k, FIN, g)
  BY <1>3, <1>6, <1>7, <1>8, <1>9, Zenon
  DEF Sends, input, out, syn, fin, tries, flight, next, p
<1> QED
  BY <1>10, Zenon DEF q, p

\* A message that may be sent leaves a sound sender.
LEMMA SendIsSound ==
  ASSUME NEW conv, NEW w, NEW s, SoundSender(conv, s, w),
         NEW SYN, NEW k, NEW FIN, MaySend(s, SYN, k, FIN),
         NEW q, NEW g, Sends(conv, s, q, SYN, k, FIN, g)
  PROVE  /\ SoundSender(conv, q, w) /\ Pushed(s, q) /\ q.syn_sent /\ q.fin_sent = FIN
         /\ q.input.buffer = Drop(s.input.buffer, k)
<1> DEFINE n == Len(s.outstanding)
           b == Len(s.input.buffer)
           popped == s.input.bytes_popped
           len == g.length
<1>1. /\ k \in 0 .. b /\ SYN \in BOOLEAN /\ FIN \in BOOLEAN
      /\ ~s.fin_sent /\ ~s.input.error /\ SYN = ~s.syn_sent
      /\ FIN => s.input.is_closed /\ k = b
      /\ s.syn_sent => k + Count(FIN) <= Space(s)
  BY DEF MaySend
<1>2. /\ SenderFields(s) /\ s.isn = conv.isn
      /\ s.initial_RTO \in Nat /\ s.current_RTO \in Nat /\ s.window_size \in Nat
      /\ s.bytes_in_flight \in Nat /\ s.next_seqno \in Nat
      /\ s.time_running \in BOOLEAN /\ s.consecutive_retransmissions \in Nat
      /\ s.syn_sent \in BOOLEAN /\ s.fin_sent \in BOOLEAN
      /\ s.outstanding \in Seq(OutSegments(conv)) /\ n \in Nat
      /\ \A i \in 1 .. n : s.outstanding[i] \in OutSegments(conv) /\ EndOf(s.outstanding[i]) \in Nat
  BY SenderIsTyped, Zenon
<1>3. /\ s.input \in ByteStreams(Bytes(conv)) /\ s.input.buffer \in Seq(Bytes(conv))
      /\ b \in Nat /\ popped \in Nat /\ s.input.bytes_pushed \in Nat
      /\ Len(conv.stream) \in Nat /\ w \in Nat /\ w <= Len(conv.stream)
  BY InputIsTyped, Zenon
<1>4. /\ g \in OutSegments(conv) /\ len \in Nat \ {0} /\ len = SequenceLength(g.msg)
      /\ len = Count(SYN) + k + Count(FIN)
      /\ g.seqno = s.next_seqno /\ g.transmit_time = 0
      /\ g.msg = SenderMessage(Wrap(s.next_seqno, s.isn), SYN, Take(s.input.buffer, k), FIN, FALSE)
  <2>1. /\ g \in OutSegments(conv) /\ len = SequenceLength(g.msg)
        /\ len = Count(SYN) + k + Count(FIN)
        /\ g = [ msg |-> SenderMessage(Wrap(s.next_seqno, s.isn), SYN,
                                Take(s.input.buffer, k), FIN, FALSE),
                 seqno |-> s.next_seqno, length |-> len, transmit_time |-> 0 ]
    BY Zenon DEF Sends
  <2>2. len \in Nat \ {0}
    BY <2>1 DEF OutSegments
  <2> DEFINE m == SenderMessage(Wrap(s.next_seqno, s.isn), SYN, Take(s.input.buffer, k), FIN, FALSE)
  <2> HIDE DEF m, len
  <2>3. g = [ msg |-> m, seqno |-> s.next_seqno, length |-> len, transmit_time |-> 0 ]
    BY <2>1 DEF m
  <2>4. g.seqno = s.next_seqno /\ g.transmit_time = 0 /\ g.msg = m
    BY <2>3
  <2> QED
    BY <2>1, <2>2, <2>4 DEF m
<1> DEFINE input == Pop(s.input, k)
           out == Append(s.outstanding, g)
           tries == IF s.time_running THEN s.consecutive_retransmissions ELSE 0
<1>5. /\ input \in ByteStreams(Bytes(conv)) /\ input.buffer = Drop(s.input.buffer, k)
      /\ input.bytes_popped = popped + k
      /\ input.capacity = s.input.capacity /\ input.error = s.input.error
      /\ input.bytes_pushed = s.input.bytes_pushed /\ input.is_closed = s.input.is_closed
  BY <1>1, PopPart, Zenon
<1>6. /\ out \in Seq(OutSegments(conv)) /\ Len(out) = n + 1 /\ out[n + 1] = g
      /\ \A i \in 1 .. n : out[i] = s.outstanding[i]
  BY <1>2, <1>4, AppendProperties
<1>7. tries \in Nat
  BY <1>2
<1> DEFINE syn == s.syn_sent \/ SYN
           fin == s.fin_sent \/ FIN
<1>8. syn = TRUE /\ fin = FIN /\ fin \in BOOLEAN
  BY <1>1, <1>2
<1>9. q = [ input |-> input, isn |-> s.isn, initial_RTO |-> s.initial_RTO,
            current_RTO |-> s.current_RTO, window_size |-> s.window_size,
            bytes_in_flight |-> s.bytes_in_flight + len, next_seqno |-> s.next_seqno + len,
            time_running |-> TRUE, consecutive_retransmissions |-> tries,
            syn_sent |-> syn, fin_sent |-> fin, outstanding |-> out ]
  BY Zenon DEF Sends
<1> HIDE DEF input, out, tries, syn, fin
<1>10. /\ q.input = input /\ q.isn = conv.isn /\ q.window_size = s.window_size
       /\ q.bytes_in_flight = s.bytes_in_flight + len /\ q.next_seqno = s.next_seqno + len
       /\ q.time_running = TRUE /\ q.syn_sent = TRUE /\ q.fin_sent = FIN
       /\ q.outstanding = out
  BY <1>2, <1>8, <1>9
<1> HIDE DEF len, n, b, popped
<1>11. q \in Senders(conv)
  <2>1. s.bytes_in_flight + len \in Nat /\ s.next_seqno + len \in Nat
    BY <1>2, <1>4
  <2> QED
    BY <1>2, <1>5, <1>6, <1>7, <1>8, <1>9, <2>1 DEF Senders
<1>a. /\ HoldsTheRest(conv, s, w) /\ CountsSent(s) /\ InARow(s) /\ AllTrue(conv, s)
  BY DEF SoundSender
<1>b. /\ Take(s.input.buffer, k) \in Seq(Bytes(conv)) /\ Len(Take(s.input.buffer, k)) = k
      /\ Drop(s.input.buffer, k) \in Seq(Bytes(conv)) /\ Len(Drop(s.input.buffer, k)) = b - k
      /\ \A i \in 1 .. k : Take(s.input.buffer, k)[i] = s.input.buffer[i]
      /\ \A i \in 1 .. b - k : Drop(s.input.buffer, k)[i] = s.input.buffer[k + i]
  BY <1>1, <1>3, Parts DEF b
<1>c. /\ s.input.capacity = conv.capacity /\ b <= conv.capacity /\ conv.capacity \in Nat
      /\ s.input.bytes_pushed = popped + b /\ popped + b = w
      /\ \A i \in 1 .. b : s.input.buffer[i] = conv.stream[popped + i]
  BY <1>a DEF HoldsTheRest, b, popped, SoundSender, IsConversation
<1>12. HoldsTheRest(conv, q, w)
  <2> DEFINE rest == Drop(s.input.buffer, k)
  <2>1. /\ q.input.buffer = rest /\ q.input.bytes_popped = popped + k
        /\ q.input.capacity = conv.capacity /\ q.input.bytes_pushed = popped + b
        /\ Len(rest) = b - k
    BY <1>5, <1>10, <1>b, <1>c
  <2>2. \A i \in 1 .. b - k : rest[i] = conv.stream[(popped + k) + i]
    <3> TAKE i \in 1 .. b - k
    <3>1. k + i \in 1 .. b /\ popped + (k + i) = (popped + k) + i
      BY <1>1, <1>3
    <3> QED
      BY <1>b, <1>c, <3>1
  <2> HIDE DEF rest
  <2>3. /\ b - k <= conv.capacity /\ popped + b = (popped + k) + (b - k)
        /\ (popped + k) + (b - k) = w
    BY <1>1, <1>3, <1>c
  <2> QED
    BY <2>1, <2>2, <2>3 DEF HoldsTheRest
<1>d. /\ s.next_seqno = Count(s.syn_sent) + popped
      /\ ~s.syn_sent => popped = 0 /\ s.next_seqno = 0
      /\ s.syn_sent => s.next_seqno = 1 + popped
  <2>1. /\ s.next_seqno = Count(s.syn_sent) + popped + Count(s.fin_sent)
        /\ popped > 0 => s.syn_sent
    BY <1>a DEF CountsSent, popped
  <2>2. Count(s.fin_sent) = 0 /\ Count(s.syn_sent) = IF s.syn_sent THEN 1 ELSE 0
    BY <1>1 DEF Count
  <2> QED
    BY <1>2, <1>3, <2>1, <2>2
<1>13. CountsSent(q)
  <2>1. q.next_seqno = Count(q.syn_sent) + q.input.bytes_popped + Count(q.fin_sent)
    <3>1. /\ q.next_seqno = s.next_seqno + len /\ q.input.bytes_popped = popped + k
          /\ Count(q.fin_sent) = Count(FIN) /\ Count(q.syn_sent) = 1
      BY <1>5, <1>10 DEF Count
    <3>2. Count(FIN) \in 0 .. 1 /\ k \in Nat /\ popped \in Nat /\ s.next_seqno \in Nat
      BY <1>1, <1>2, <1>3 DEF Count
    <3>3. CASE s.syn_sent
      <4>1. Count(SYN) = 0 /\ s.next_seqno = 1 + popped
        BY <1>1, <1>d, <3>3 DEF Count
      <4>2. len = k + Count(FIN)
        BY <1>4, <3>2, <4>1
      <4>3. q.next_seqno = 1 + (popped + k) + Count(FIN)
        BY <3>1, <3>2, <4>1, <4>2
      <4> QED
        BY <3>1, <4>3
    <3>4. CASE ~s.syn_sent
      <4>1. Count(SYN) = 1 /\ s.next_seqno = popped
        BY <1>1, <1>d, <3>4 DEF Count
      <4> QED
        BY <1>4, <3>1, <3>2, <4>1
    <3> QED
      BY <3>3, <3>4
  <2>2. ASSUME q.fin_sent PROVE q.input.is_closed /\ q.input.buffer = << >>
    <3>1. FIN /\ k = b /\ q.input.is_closed
      BY <1>1, <1>5, <1>10, <2>2
    <3>2. Len(Drop(s.input.buffer, k)) = 0
      BY <1>3, <1>b, <3>1
    <3>3. Drop(s.input.buffer, k) = << >>
      BY <1>b, <3>2, EmptySeq
    <3> QED
      BY <1>5, <1>10, <3>1, <3>3
  <2> QED
    BY <1>10, <2>1, <2>2 DEF CountsSent
<1>14. InARow(q)
  <2>1. /\ \A i \in 1 .. n - 1 : EndOf(s.outstanding[i]) = s.outstanding[i + 1].seqno
        /\ n > 0 => /\ EndOf(s.outstanding[n]) = s.next_seqno
                    /\ s.bytes_in_flight = s.next_seqno - s.outstanding[1].seqno
        /\ n = 0 => s.bytes_in_flight = 0
    BY <1>a DEF InARow, n
  <2>2. EndOf(g) = s.next_seqno + len
    BY <1>4 DEF EndOf, len
  <2>3. \A i \in 1 .. n : EndOf(out[i]) = out[i + 1].seqno
    <3> TAKE i \in 1 .. n
    <3>1. CASE i = n
      BY <1>2, <1>4, <1>6, <2>1, <3>1
    <3>2. CASE i # n
      <4>1. i \in 1 .. n - 1 /\ i + 1 \in 1 .. n
        BY <1>2, <3>2
      <4> QED
        BY <1>6, <2>1, <4>1
    <3> QED
      BY <3>1, <3>2
  <2>4. q.bytes_in_flight = q.next_seqno - out[1].seqno
    <3>1. CASE n = 0
      <4>1. out[1] = g
        BY <1>6, <3>1
      <4> QED
        BY <1>2, <1>4, <1>10, <2>1, <3>1, <4>1
    <3>2. CASE n # 0
      <4>1. out[1] = s.outstanding[1] /\ s.outstanding[1].seqno \in Nat
        <5>1. 1 \in 1 .. n
          BY <1>2, <3>2
        <5>2. s.outstanding[1] \in OutSegments(conv)
          BY <1>2, <5>1
        <5> QED
          BY <1>6, <5>1, <5>2 DEF OutSegments
      <4> QED
        BY <1>2, <1>4, <1>10, <2>1, <3>2, <4>1, SMTT(30)
    <3> QED
      BY <3>1, <3>2
  <2>5. Len(q.outstanding) = n + 1 /\ (n + 1) - 1 = n /\ n + 1 > 0 /\ n + 1 # 0
    BY <1>2, <1>6, <1>10
  <2>6. EndOf(q.outstanding[n + 1]) = q.next_seqno
    BY <1>6, <1>10, <2>2
  <2> QED
    BY <1>10, <2>3, <2>4, <2>5, <2>6 DEF InARow
<1>15. AllTrue(conv, q)
  <2>1. \A i \in 1 .. n : TrueSegment(conv, q, out[i])
    <3> TAKE i \in 1 .. n
    <3>1. TrueSegment(conv, s, s.outstanding[i]) /\ ~s.outstanding[i].msg.FIN
      BY <1>1, <1>a DEF AllTrue, TrueSegment, n
    <3>2. EndOf(s.outstanding[i]) # q.next_seqno
      <4>1. EndOf(s.outstanding[i]) <= s.next_seqno
        <5>1. i \in 1 .. Len(s.outstanding) /\ i \in 1 .. i
          BY <1>2 DEF n
        <5> QED
          BY <5>1, RowIsOrdered, Zenon
      <4> QED
        BY <1>2, <1>4, <1>10, <4>1
    <3> QED
      BY <1>6, <3>1, <3>2 DEF TrueSegment
  <2>2. TrueSegment(conv, q, g)
    <3> DEFINE p == Take(s.input.buffer, k)
               first == IF SYN THEN 1 ELSE s.next_seqno
    <3>1. /\ g.msg.seqno = Wrap(g.seqno, conv.isn) /\ g.msg.SYN = SYN
          /\ g.msg.payload = p /\ g.msg.FIN = FIN
      BY <1>2, <1>4 DEF SenderMessage
    <3>2. (SYN <=> s.next_seqno = 0) /\ first = 1 + popped
      <4>1. CASE s.syn_sent
        <5>1. ~SYN /\ s.next_seqno = 1 + popped
          BY <1>1, <1>d, <4>1
        <5> QED
          BY <1>3, <5>1
      <4>2. CASE ~s.syn_sent
        <5>1. SYN /\ popped = 0 /\ s.next_seqno = 0
          BY <1>1, <1>d, <4>2
        <5> QED
          BY <5>1
      <4> QED
        BY <4>1, <4>2
    <3>3. first = 1 + popped
      BY <3>2
    <3>4. p = SubSeq(conv.stream, first, first + Len(p) - 1)
      <4>1. \A i \in 1 .. k : p[i] = conv.stream[first + i - 1]
        <5> TAKE i \in 1 .. k
        <5>1. i \in 1 .. b /\ first + i - 1 = popped + i
          BY <1>1, <1>3, <3>3
        <5> QED
          BY <1>b, <1>c, <5>1
      <4>2. first \in Nat \ {0} /\ first + k - 1 <= Len(conv.stream)
        BY <1>1, <1>3, <1>c, <3>3
      <4> HIDE DEF p, first
      <4>3. p \in Seq(Bytes(conv)) /\ Len(p) = k
        BY <1>b DEF p
      <4> QED
        BY <4>1, <4>2, <4>3, StretchOfStream
    <3>5. FIN <=> q.fin_sent /\ EndOf(g) = q.next_seqno
      BY <1>4, <1>10 DEF EndOf, len
    <3> HIDE DEF p
    <3> QED
      BY <1>4, <3>1, <3>2, <3>4, <3>5 DEF TrueSegment, len
  <2>3. Len(q.outstanding) = n + 1 /\ \A i \in 1 .. n + 1 : i \in 1 .. n \/ i = n + 1
    BY <1>2, <1>6, <1>10
  <2> QED
    BY <1>6, <1>10, <2>1, <2>2, <2>3 DEF AllTrue
<1>16. Timed(q)
  BY <1>10 DEF Timed
<1>17. Pushed(s, q)
  <2>1. s.syn_sent => q.bytes_in_flight <= EffectiveWindow(s)
    <3> SUFFICES ASSUME s.syn_sent PROVE q.bytes_in_flight <= EffectiveWindow(s)
      OBVIOUS
    <3>1. Count(SYN) = 0 /\ Count(FIN) \in 0 .. 1 /\ k \in Nat
      <4>1. ~SYN
        BY <1>1
      <4> QED
        BY <1>1, <1>3, <4>1 DEF Count
    <3>2. k + Count(FIN) <= EffectiveWindow(s) - s.bytes_in_flight
      BY <1>1 DEF Space
    <3>3. EffectiveWindow(s) \in Nat
      BY <1>2 DEF EffectiveWindow
    <3> QED
      BY <1>2, <1>4, <1>10, <3>1, <3>2, <3>3
  <2>2. /\ q.input.error = s.input.error /\ q.input.is_closed = s.input.is_closed
        /\ Len(q.outstanding) = n + 1 /\ n <= n + 1
        /\ s.next_seqno <= q.next_seqno
        /\ q.bytes_in_flight = s.bytes_in_flight + (q.next_seqno - s.next_seqno)
    BY <1>2, <1>4, <1>5, <1>6, <1>10
  <2> QED
    BY <1>6, <1>10, <2>1, <2>2 DEF Pushed, n
<1>18. w \in 0 .. Len(conv.stream)
  BY <1>3
<1>19. SoundSender(conv, q, w)
  BY <1>11, <1>12, <1>13, <1>14, <1>15, <1>16, <1>18 DEF SoundSender
<1> QED
  BY <1>5, <1>10, <1>17, <1>19

-----------------------------------------------------------------------------
(* One call of push *)

LEMMA PushedNothing ==
  ASSUME NEW conv, NEW w, NEW s, SoundSender(conv, s, w)
  PROVE  Pushed(s, s)
<1>1. s.next_seqno \in Nat /\ s.bytes_in_flight \in Nat /\ Len(s.outstanding) \in Nat
  BY SenderIsTyped, Zenon
<1> QED
  BY <1>1 DEF Pushed

LEMMA PushedTwice ==
  ASSUME NEW conv, NEW w, NEW s, NEW p, NEW q,
         SoundSender(conv, s, w), SoundSender(conv, p, w), SoundSender(conv, q, w), Pushed(s, p), Pushed(p, q)
  PROVE  Pushed(s, q)
<1>1. /\ s.next_seqno \in Nat /\ s.bytes_in_flight \in Nat /\ Len(s.outstanding) \in Nat
      /\ p.next_seqno \in Nat /\ p.bytes_in_flight \in Nat /\ Len(p.outstanding) \in Nat
      /\ q.next_seqno \in Nat /\ q.bytes_in_flight \in Nat /\ Len(q.outstanding) \in Nat
  BY SenderIsTyped, Zenon
<1>2. EffectiveWindow(p) = EffectiveWindow(s)
  BY DEF Pushed, EffectiveWindow
<1>3. s.syn_sent /\ q.next_seqno > s.next_seqno => q.bytes_in_flight <= EffectiveWindow(s)
  <2> SUFFICES ASSUME s.syn_sent, q.next_seqno > s.next_seqno
               PROVE  q.bytes_in_flight <= EffectiveWindow(s)
    OBVIOUS
  <2>1. p.syn_sent
    BY DEF Pushed
  <2>2. CASE q.next_seqno > p.next_seqno
    BY <1>2, <2>1, <2>2 DEF Pushed
  <2>3. CASE ~(q.next_seqno > p.next_seqno)
    <3>1. /\ p.next_seqno <= q.next_seqno
          /\ q.bytes_in_flight = p.bytes_in_flight + (q.next_seqno - p.next_seqno)
      BY DEF Pushed
    <3>2. q.next_seqno = p.next_seqno /\ q.bytes_in_flight = p.bytes_in_flight
      BY <1>1, <2>3, <3>1
    <3>3. p.next_seqno > s.next_seqno
      BY <3>2
    <3> QED
      BY <3>2, <3>3 DEF Pushed
  <2> QED
    BY <2>2, <2>3
<1>4. /\ Len(s.outstanding) <= Len(q.outstanding)
      /\ \A i \in 1 .. Len(s.outstanding) : q.outstanding[i] = s.outstanding[i]
  <2>1. /\ Len(s.outstanding) <= Len(p.outstanding) /\ Len(p.outstanding) <= Len(q.outstanding)
        /\ \A i \in 1 .. Len(s.outstanding) : p.outstanding[i] = s.outstanding[i]
        /\ \A i \in 1 .. Len(p.outstanding) : q.outstanding[i] = p.outstanding[i]
    BY DEF Pushed
  <2> QED
    BY <1>1, <2>1
<1>5. /\ s.next_seqno <= q.next_seqno
      /\ q.bytes_in_flight = s.bytes_in_flight + (q.next_seqno - s.next_seqno)
  <2>1. /\ s.next_seqno <= p.next_seqno /\ p.next_seqno <= q.next_seqno
        /\ p.bytes_in_flight = s.bytes_in_flight + (p.next_seqno - s.next_seqno)
        /\ q.bytes_in_flight = p.bytes_in_flight + (q.next_seqno - p.next_seqno)
    BY DEF Pushed
  <2> QED
    BY <1>1, <2>1
<1> QED
  BY <1>3, <1>4, <1>5 DEF Pushed

\* The window, and what is left of it.
LEMMA WindowIsOpen ==
  ASSUME NEW conv, NEW w, NEW s, SoundSender(conv, s, w)
  PROVE  /\ EffectiveWindow(s) \in Nat /\ EffectiveWindow(s) >= 1
         /\ Space(s) \in Int /\ Space(s) = EffectiveWindow(s) - s.bytes_in_flight
         /\ ~s.syn_sent => Space(s) > 0 /\ ~s.fin_sent
<1>1. /\ s.window_size \in Nat /\ s.bytes_in_flight \in Nat /\ s.next_seqno \in Nat
      /\ Len(s.outstanding) \in Nat
      /\ \A i \in 1 .. Len(s.outstanding) : s.outstanding[i] \in OutSegments(conv)
  BY SenderIsTyped, Zenon
<1>2. EffectiveWindow(s) \in Nat /\ EffectiveWindow(s) >= 1
  BY <1>1 DEF EffectiveWindow
<1>3. Space(s) \in Int /\ Space(s) = EffectiveWindow(s) - s.bytes_in_flight
  BY <1>1, <1>2 DEF Space
<1>4. ~s.syn_sent => s.bytes_in_flight = 0 /\ ~s.fin_sent
  <2> SUFFICES ASSUME ~s.syn_sent PROVE s.bytes_in_flight = 0 /\ ~s.fin_sent
    OBVIOUS
  <2>1. ~s.fin_sent /\ s.input.bytes_popped = 0
    BY InputIsTyped DEF SoundSender, CountsSent
  <2>2. s.next_seqno = 0
    BY <2>1 DEF SoundSender, CountsSent, Count
  <2>3. Len(s.outstanding) = 0
    <3> SUFFICES ASSUME Len(s.outstanding) > 0 PROVE FALSE
      BY <1>1
    <3> DEFINE g == s.outstanding[Len(s.outstanding)]
    <3>1. g \in OutSegments(conv) /\ EndOf(g) = 0
      BY <1>1, <2>2 DEF SoundSender, InARow
    <3> QED
      BY <3>1 DEF OutSegments, EndOf
  <2> QED
    BY <2>1, <2>3 DEF SoundSender, InARow
<1> QED
  BY <1>1, <1>2, <1>3, <1>4

\* A payload is the beginning of the buffer; only the last of it ends the input.
LEMMA PayloadIsPart ==
  ASSUME NEW conv, NEW w, NEW s, SoundSender(conv, s, w), ~s.input.error, NEW n \in Nat
  PROVE  \E k \in 0 .. Len(s.input.buffer) :
           /\ Payload(s, n) = Take(s.input.buffer, k) /\ Len(Payload(s, n)) = k
           /\ k <= n
           /\ n > 0 /\ s.input.buffer # << >> => k > 0
           /\ Ends(s, Payload(s, n)) \in BOOLEAN
           /\ Ends(s, Payload(s, n)) => s.input.is_closed /\ k = Len(s.input.buffer)
<1> DEFINE b == Len(s.input.buffer)
           k == MinOf(MinOf(n, MaxPayload), b)
<1>1. /\ s.input.buffer \in Seq(Bytes(conv)) /\ b \in Nat
      /\ s.input.is_closed \in BOOLEAN
  BY InputIsTyped, Zenon
<1>2. k \in 0 .. b /\ k <= n /\ (n > 0 /\ b > 0 => k > 0)
  <2> HIDE DEF b
  <2> QED
    BY <1>1, MaxPayloadAssumption DEF MinOf
<1>3. s.input.buffer # << >> => b > 0
  BY <1>1, EmptySeq
<1>4. Payload(s, n) = Take(s.input.buffer, k)
  BY DEF Payload
<1> HIDE DEF k
<1>5. /\ Len(Take(s.input.buffer, k)) = k
      /\ Len(Drop(s.input.buffer, k)) = b - k
  BY <1>1, <1>2, Parts, ZenonT(40)
<1>6. /\ Pop(s.input, k).buffer = Drop(s.input.buffer, k)
      /\ Pop(s.input, k).is_closed = s.input.is_closed
  BY <1>2, PopPart
<1> HIDE DEF b
<1>7. Ends(s, Payload(s, n)) <=> s.input.is_closed /\ Drop(s.input.buffer, k) = << >>
  BY <1>4, <1>5, <1>6, Zenon DEF Ends, IsFinished
<1>8. Drop(s.input.buffer, k) = << >> => k = b
  BY <1>1, <1>2, <1>5, EmptySeq
<1>9. Ends(s, Payload(s, n)) \in BOOLEAN
  BY Zenon DEF Ends, IsFinished
<1> QED
  BY <1>2, <1>3, <1>4, <1>5, <1>7, <1>8, <1>9 DEF b

\* push from s to q, with the SYN out.
GoesOn(conv, s, q, w) == SoundSender(conv, q, w) /\ Pushed(s, q) /\ q.syn_sent

SendPart(s, SYN, k, FIN) == Send(s, SYN, Take(s.input.buffer, k), FIN)

LEMMA SendGoesOn ==
  ASSUME NEW conv, NEW w, NEW s, SoundSender(conv, s, w),
         NEW SYN, NEW k, NEW FIN, MaySend(s, SYN, k, FIN)
  PROVE  /\ GoesOn(conv, s, SendPart(s, SYN, k, FIN), w)
         /\ SendPart(s, SYN, k, FIN).fin_sent = FIN
         /\ SendPart(s, SYN, k, FIN).input.buffer = Drop(s.input.buffer, k)
<1> DEFINE q == SendPart(s, SYN, k, FIN)
<1>1. PICK g : Sends(conv, s, q, SYN, k, FIN, g)
  BY SendSends, Zenon DEF SendPart
<1> HIDE DEF q
<1>2. /\ SoundSender(conv, q, w) /\ Pushed(s, q) /\ q.syn_sent /\ q.fin_sent = FIN
      /\ q.input.buffer = Drop(s.input.buffer, k)
  BY <1>1, SendIsSound
<1> QED
  BY <1>2, Zenon DEF GoesOn, q

\* A new sender always has the window for its SYN.
LEMMA SendSynGoesOn ==
  ASSUME NEW conv, NEW w, NEW s, SoundSender(conv, s, w), ~s.input.error, ~s.fin_sent
  PROVE  GoesOn(conv, s, SendSyn(s), w)
<1>1. CASE s.syn_sent
  BY <1>1, PushedNothing, Zenon DEF SendSyn, GoesOn
<1>2. CASE ~s.syn_sent
  <2> DEFINE n == Space(s) - 1
             payload == Payload(s, n)
             FIN == Ends(s, payload)
  <2>1. n \in Nat /\ Space(s) > 0
    BY <1>2, WindowIsOpen
  <2>2. SendSyn(s) = Send(s, TRUE, payload, FIN)
    BY <1>2, <2>1, Zenon DEF SendSyn
  <2> HIDE DEF n
  <2>3. PICK k \in 0 .. Len(s.input.buffer) :
          /\ payload = Take(s.input.buffer, k)
          /\ FIN \in BOOLEAN /\ (FIN => s.input.is_closed /\ k = Len(s.input.buffer))
    BY <2>1, PayloadIsPart, Zenon
  <2> HIDE DEF FIN, payload
  <2>4. TRUE = ~s.syn_sent
    BY <1>2
  <2>5. MaySend(s, TRUE, k, FIN)
    BY <1>2, <2>3, <2>4, Zenon DEF MaySend
  <2> DEFINE SYN == TRUE
  <2>6. MaySend(s, SYN, k, FIN) /\ SendSyn(s) = SendPart(s, SYN, k, FIN)
    BY <2>2, <2>3, <2>5, Zenon DEF SendPart
  <2> HIDE DEF SYN
  <2> QED
    BY <2>6, SendGoesOn
<1> QED
  BY <1>1, <1>2

\* The loop is over for want of window or of bytes.
Over(s) == Space(s) <= 0 \/ s.input.buffer = << >>

\* A turn of the loop takes a byte or more, until the loop is over.
LEMMA SendChunkGoesOn ==
  ASSUME NEW conv, NEW w, NEW s, SoundSender(conv, s, w), ~s.input.error, s.syn_sent
  PROVE  /\ GoesOn(conv, s, SendChunk(s), w)
         /\ \/ SendChunk(s) = s /\ Over(s)
            \/ ~Over(s) /\ Len(SendChunk(s).input.buffer) < Len(s.input.buffer)
<1>1. s.input.buffer \in Seq(Bytes(conv)) /\ Len(s.input.buffer) \in Nat /\ Space(s) \in Int
  BY InputIsTyped, WindowIsOpen, Zenon
<1>2. CASE ~(Space(s) > 0 /\ s.input.buffer # << >>)
  <2>1. SendChunk(s) = s
    BY <1>2, Zenon DEF SendChunk
  <2>2. Over(s)
    BY <1>1, <1>2 DEF Over
  <2> QED
    BY <2>1, <2>2, PushedNothing, Zenon DEF GoesOn
<1>3. CASE Space(s) > 0 /\ s.input.buffer # << >>
  <2> DEFINE n == Space(s)
             payload == Payload(s, n)
             FIN == Ends(s, payload) /\ Len(payload) < n
  <2>1. n \in Nat /\ n > 0
    BY <1>1, <1>3
  <2>2. SendChunk(s) = Send(s, FALSE, payload, FIN)
    BY <1>3, Zenon DEF SendChunk
  <2> HIDE DEF n
  <2>3. PICK k \in 0 .. Len(s.input.buffer) :
          /\ payload = Take(s.input.buffer, k) /\ Len(payload) = k /\ k <= n /\ k > 0
          /\ (Ends(s, payload) => s.input.is_closed /\ k = Len(s.input.buffer))
    BY <1>3, <2>1, PayloadIsPart, Zenon
  <2>4. /\ FIN \in BOOLEAN /\ (FIN => s.input.is_closed /\ k = Len(s.input.buffer))
        /\ (FIN => k < n)
    BY <2>3, Zenon
  <2> HIDE DEF FIN, payload
  <2>5. ~s.fin_sent
    BY <1>3 DEF SoundSender, CountsSent
  <2>6. k + Count(FIN) <= n
    <3>1. FIN => Count(FIN) = 1
      BY <2>4, CountOfFlag, Zenon
    <3>2. ~FIN => Count(FIN) = 0
      BY <2>4, CountOfFlag, Zenon
    <3>3. (Count(FIN) = 1 /\ k < n) \/ Count(FIN) = 0
      BY <2>4, <3>1, <3>2, Zenon
    <3> QED
      BY <2>1, <2>3, <3>3
  <2>7. FALSE = ~s.syn_sent /\ FALSE \in BOOLEAN
    OBVIOUS
  <2>8. MaySend(s, FALSE, k, FIN)
    BY <2>3, <2>4, <2>5, <2>6, <2>7, Zenon DEF MaySend, n
  <2> DEFINE q == SendChunk(s)
  <2>9. GoesOn(conv, s, q, w) /\ q.input.buffer = Drop(s.input.buffer, k)
    <3> DEFINE SYN == FALSE
    <3>1. MaySend(s, SYN, k, FIN) /\ q = SendPart(s, SYN, k, FIN)
      BY <2>2, <2>3, <2>8, Zenon DEF SendPart
    <3> HIDE DEF SYN
    <3> QED
      BY <3>1, SendGoesOn
  <2>10. Len(Drop(s.input.buffer, k)) = Len(s.input.buffer) - k
    BY <1>1, Parts, Zenon
  <2> HIDE DEF q
  <2>11. ~Over(s) /\ Len(q.input.buffer) < Len(s.input.buffer)
    BY <1>1, <1>3, <2>3, <2>9, <2>10 DEF Over
  <2> QED
    BY <2>9, <2>11 DEF q
<1> QED
  BY <1>2, <1>3

\* The FIN is sent alone as soon as the window has room for it.
LEMMA SendFinGoesOn ==
  ASSUME NEW conv, NEW w, NEW s, SoundSender(conv, s, w), ~s.input.error, s.syn_sent
  PROVE  /\ GoesOn(conv, s, SendFin(s), w)
         /\ \/ SendFin(s) = s /\ (s.fin_sent \/ Space(s) <= 0 \/ ~IsFinished(s.input))
            \/ SendFin(s).fin_sent
<1>1. s.input.buffer \in Seq(Bytes(conv)) /\ Space(s) \in Int
  BY InputIsTyped, WindowIsOpen, Zenon
<1>2. CASE ~(IsFinished(s.input) /\ ~s.fin_sent /\ Space(s) > 0)
  <2>1. SendFin(s) = s
    BY <1>2, Zenon DEF SendFin
  <2>2. s.fin_sent \/ Space(s) <= 0 \/ ~IsFinished(s.input)
    BY <1>1, <1>2
  <2> QED
    BY <2>1, <2>2, PushedNothing, Zenon DEF GoesOn
<1>3. CASE IsFinished(s.input) /\ ~s.fin_sent /\ Space(s) > 0
  <2>1. SendFin(s) = Send(s, FALSE, << >>, TRUE)
    BY <1>3, Zenon DEF SendFin
  <2>2. s.input.is_closed /\ s.input.buffer = << >> /\ Len(s.input.buffer) = 0
    BY <1>3 DEF IsFinished
  <2> DEFINE k == Len(s.input.buffer)
             p == Take(s.input.buffer, k)
  <2>3. p = << >>
    <3>1. p \in Seq(Bytes(conv)) /\ Len(p) = k
      <4>1. k \in 0 .. Len(s.input.buffer)
        BY <2>2
      <4> QED
        BY <1>1, <4>1, Parts, Zenon
    <3> HIDE DEF p
    <3> QED
      BY <2>2, <3>1, EmptySeq
  <2>4. Count(TRUE) = 1 /\ k + Count(TRUE) <= Space(s) /\ k \in 0 .. Len(s.input.buffer)
    BY <1>1, <1>3, <2>2 DEF Count
  <2>5. FALSE = ~s.syn_sent /\ FALSE \in BOOLEAN
    OBVIOUS
  <2>6. MaySend(s, FALSE, k, TRUE)
    BY <1>3, <2>2, <2>4, <2>5, Zenon DEF MaySend
  <2> DEFINE SYN == FALSE
             FIN == TRUE
             q == SendFin(s)
  <2>7. MaySend(s, SYN, k, FIN) /\ q = SendPart(s, SYN, k, FIN)
    BY <2>1, <2>3, <2>6, Zenon DEF SendPart
  <2> HIDE DEF SYN, FIN, q
  <2>8. GoesOn(conv, s, q, w) /\ q.fin_sent = FIN
    BY <2>7, SendGoesOn
  <2> QED
    BY <2>8 DEF FIN, q
<1> QED
  BY <1>2, <1>3

\* The loop takes the whole buffer unless the window is used up.
LEMMA SendChunksGoesOn ==
  ASSUME NEW conv, NEW w, NEW s, SoundSender(conv, s, w), ~s.input.error, s.syn_sent
  PROVE  LET q == SendChunks(s)
         IN  /\ GoesOn(conv, s, q, w)
             /\ Over(q)
<1> DEFINE n == Len(s.input.buffer)
           S == { q \in Senders(conv) : GoesOn(conv, s, q, w) }
           turn == [i \in 1 .. n |-> [q \in S |-> SendChunk(q)]]
<1>1. n \in Nat
  BY InputIsTyped, Zenon
<1>2. s \in S
  BY PushedNothing, Zenon DEF GoesOn, SoundSender
<1>3. ASSUME NEW q \in S
      PROVE  /\ SendChunk(q) \in S
             /\ \/ SendChunk(q) = q /\ Over(q)
                \/ ~Over(q) /\ Len(SendChunk(q).input.buffer) < Len(q.input.buffer)
  <2>1. SoundSender(conv, q, w) /\ Pushed(s, q) /\ q.syn_sent
    BY DEF GoesOn
  <2>2. ~q.input.error
    BY <2>1 DEF Pushed
  <2>3. /\ GoesOn(conv, q, SendChunk(q), w)
        /\ \/ SendChunk(q) = q /\ Over(q)
           \/ ~Over(q) /\ Len(SendChunk(q).input.buffer) < Len(q.input.buffer)
    BY <2>1, <2>2, SendChunkGoesOn, Zenon
  <2>4. GoesOn(conv, s, SendChunk(q), w)
    BY <2>1, <2>3, PushedTwice, Zenon DEF GoesOn
  <2>5. SendChunk(q) \in Senders(conv)
    BY <2>4, Zenon DEF GoesOn, SoundSender
  <2> QED
    BY <2>3, <2>4, <2>5, Zenon
<1> HIDE DEF n, S
<1>4. turn \in [1 .. n -> [S -> S]]
  BY <1>3
<1>5. PICK f \in [0 .. n -> S] : f[0] = s /\ \A i \in 1 .. n : f[i] = turn[i][f[i - 1]]
  <2> HIDE DEF turn
  <2>1. turn \in Turnings(S, n)
    BY <1>4 DEF Turnings
  <2>2. PICK f \in [0 .. n -> S] : Runs(f, s, turn, n)
    BY <1>1, <1>2, <2>1, LoopExists
  <2> QED
    BY <2>2 DEF Runs
<1>6. \A i \in 1 .. n : f[i - 1] \in S /\ turn[i][f[i - 1]] = SendChunk(f[i - 1])
  <2> TAKE i \in 1 .. n
  <2>1. i - 1 \in 0 .. n
    BY <1>1
  <2>2. f[i - 1] \in S
    BY <2>1
  <2> QED
    BY <2>2
<1> HIDE DEF turn
<1>7. f = [i \in 0 .. n |-> IF i = 0 THEN s ELSE SendChunk(f[i - 1])]
  <2>1. \A i \in 0 .. n : i # 0 => i \in 1 .. n
    BY <1>1
  <2>2. \A i \in 0 .. n : f[i] = IF i = 0 THEN s ELSE SendChunk(f[i - 1])
    BY <1>5, <1>6, <2>1
  <2> QED
    BY <2>2
<1> DEFINE Loops(h) == h = [i \in 0 .. n |-> IF i = 0 THEN s ELSE SendChunk(h[i - 1])]
           F == Turns(s)
<1>8. Loops(F)
  <2>1. F = CHOOSE h : Loops(h)
    BY Zenon DEF Turns, n
  <2>2. Loops(f)
    BY <1>7
  <2> HIDE DEF Loops
  <2> QED
    BY <2>1, <2>2, Zenon
<1> HIDE DEF F
<1>9. F[0] = s /\ \A i \in 1 .. n : F[i] = SendChunk(F[i - 1])
  <2>1. \A i \in 0 .. n : F[i] = IF i = 0 THEN s ELSE SendChunk(F[i - 1])
    BY <1>8
  <2> QED
    BY <1>1, <2>1
<1> HIDE DEF Loops
<1> DEFINE T == { i \in 0 .. n : /\ F[i] \in S
                                 /\ Over(F[i]) \/ Len(F[i].input.buffer) <= n - i }
<1>10. 0 \in T
  BY <1>1, <1>2, <1>9 DEF n
<1>11. \A i \in 1 .. n : i - 1 \in T => i \in T
  <2> SUFFICES ASSUME NEW i \in 1 .. n, i - 1 \in T PROVE i \in T
    OBVIOUS
  <2> DEFINE p == F[i - 1]
             q == F[i]
  <2>1. /\ p \in S /\ q = SendChunk(p)
        /\ Over(p) \/ Len(p.input.buffer) <= n - (i - 1)
    BY <1>9
  <2> HIDE DEF p, q
  <2>2. /\ q \in S
        /\ \/ q = p /\ Over(p)
           \/ ~Over(p) /\ Len(q.input.buffer) < Len(p.input.buffer)
    BY <1>3, <2>1
  <2>3. Len(p.input.buffer) \in Nat /\ Len(q.input.buffer) \in Nat
    <3>1. SoundSender(conv, p, w) /\ SoundSender(conv, q, w)
      BY <2>1, <2>2 DEF S, GoesOn
    <3> QED
      BY <3>1, InputIsTyped, Zenon
  <2>4. Over(q) \/ Len(q.input.buffer) <= n - i
    <3>1. CASE Over(p)
      BY <2>2, <3>1
    <3>2. CASE ~Over(p)
      BY <1>1, <2>1, <2>2, <2>3, <3>2
    <3> QED
      BY <3>1, <3>2
  <2>5. i \in 0 .. n
    BY <1>1
  <2> QED
    BY <2>2, <2>4, <2>5 DEF q
<1> HIDE DEF T
<1>12. n \in T
  <2>1. 0 .. n \subseteq T
    BY <1>1, <1>10, <1>11, IntervalInduction
  <2> QED
    BY <1>1, <2>1
<1>13. F[n] \in S /\ (Over(F[n]) \/ Len(F[n].input.buffer) <= n - n)
  BY <1>12 DEF T
<1>14. SendChunks(s) = F[n]
  BY DEF SendChunks, F, n
<1> DEFINE q == F[n]
<1> HIDE DEF q
<1>15. GoesOn(conv, s, q, w) /\ (Over(q) \/ Len(q.input.buffer) <= n - n)
  BY <1>13 DEF S, q
<1>16. q.input.buffer \in Seq(Bytes(conv)) /\ Len(q.input.buffer) \in Nat
  <2>1. SoundSender(conv, q, w)
    BY <1>15 DEF GoesOn
  <2> QED
    BY <2>1, InputIsTyped, Zenon
<1>17. Over(q)
  <2>1. CASE Len(q.input.buffer) <= n - n
    <3>1. Len(q.input.buffer) = 0
      BY <1>1, <1>16, <2>1
    <3> QED
      BY <1>16, <3>1, EmptySeq DEF Over
  <2> QED
    BY <1>15, <2>1
<1> QED
  BY <1>14, <1>15, <1>17, Zenon DEF q

\* A whole push: it stops when the FIN is out, or the window is used up, or
\* everything written is sent and more may come.
LEMMA PushIsSound ==
  ASSUME NEW conv, NEW w, NEW s, SoundSender(conv, s, w)
  PROVE  LET q == SenderPush(s)
         IN  /\ SoundSender(conv, q, w) /\ Pushed(s, q)
             /\ \/ s.input.error \/ q.fin_sent \/ Space(q) <= 0
                \/ q.input.buffer = << >> /\ ~q.input.is_closed
<1>1. CASE s.fin_sent \/ s.input.error
  <2>1. SenderPush(s) = s
    BY <1>1, Zenon DEF SenderPush
  <2> QED
    BY <1>1, <2>1, PushedNothing, Zenon
<1>2. CASE ~s.fin_sent /\ ~s.input.error
  <2> DEFINE a == SendSyn(s)
             b == SendChunks(a)
             c == SendFin(b)
  <2>1. SenderPush(s) = c
    BY <1>2, Zenon DEF SenderPush
  <2>2. SoundSender(conv, a, w) /\ Pushed(s, a) /\ a.syn_sent
    BY <1>2, SendSynGoesOn, Zenon DEF GoesOn
  <2> HIDE DEF a
  <2>3. ~a.input.error
    BY <1>2, <2>2 DEF Pushed
  <2>4. SoundSender(conv, b, w) /\ Pushed(a, b) /\ b.syn_sent /\ Over(b)
    BY <2>2, <2>3, SendChunksGoesOn, Zenon DEF GoesOn
  <2> HIDE DEF b
  <2>5. ~b.input.error
    BY <2>3, <2>4 DEF Pushed
  <2>6. /\ SoundSender(conv, c, w) /\ Pushed(b, c)
        /\ \/ c = b /\ (b.fin_sent \/ Space(b) <= 0 \/ ~IsFinished(b.input))
           \/ c.fin_sent
    BY <2>4, <2>5, SendFinGoesOn, Zenon DEF GoesOn
  <2> HIDE DEF c
  <2>7. Pushed(s, c)
    BY <2>2, <2>4, <2>6, PushedTwice, Zenon
  <2>8. \/ c.fin_sent \/ Space(c) <= 0
        \/ c.input.buffer = << >> /\ ~c.input.is_closed
    <3>1. CASE c.fin_sent
      BY <3>1
    <3>2. CASE c = b /\ (b.fin_sent \/ Space(b) <= 0 \/ ~IsFinished(b.input))
      BY <2>4, <3>2, Zenon DEF Over, IsFinished
    <3> QED
      BY <2>6, <3>1, <3>2
  <2> QED
    BY <2>1, <2>6, <2>7, <2>8, Zenon
<1> QED
  BY <1>1, <1>2

-----------------------------------------------------------------------------
(* Acknowledgments *)

\* Where the outstanding segments start, once the first k of them are gone.
Start(s, k) ==
  IF k < Len(s.outstanding) THEN s.outstanding[k + 1].seqno ELSE s.next_seqno

LEMMA StartsInARow ==
  ASSUME NEW conv, NEW w, NEW s, SoundSender(conv, s, w)
  PROVE  LET n == Len(s.outstanding)
         IN  /\ \A k \in 0 .. n : Start(s, k) \in Nat /\ Start(s, k) <= s.next_seqno
             /\ s.bytes_in_flight = s.next_seqno - Start(s, 0)
             /\ Start(s, n) = s.next_seqno
             /\ \A i \in 1 .. n : /\ Start(s, i - 1) = s.outstanding[i].seqno
                                  /\ Start(s, i) = EndOf(s.outstanding[i])
                                  /\ Start(s, i) = Start(s, i - 1) + s.outstanding[i].length
<1> DEFINE out == s.outstanding
           n == Len(s.outstanding)
<1>1. /\ n \in Nat /\ s.next_seqno \in Nat /\ s.bytes_in_flight \in Nat
      /\ \A i \in 1 .. n : out[i] \in OutSegments(conv)
  BY SenderIsTyped, Zenon
<1>2. \A g \in OutSegments(conv) : g.seqno \in Nat /\ g.length \in Nat /\ EndOf(g) = g.seqno + g.length
  BY DEF OutSegments, EndOf
<1>3. /\ \A i \in 1 .. n - 1 : EndOf(out[i]) = out[i + 1].seqno
      /\ n > 0 => EndOf(out[n]) = s.next_seqno /\ s.bytes_in_flight = s.next_seqno - out[1].seqno
      /\ n = 0 => s.bytes_in_flight = 0
  BY DEF SoundSender, InARow
<1>4. \A i \in 1 .. n : EndOf(out[i]) <= s.next_seqno
  <2> TAKE i \in 1 .. n
  <2>1. i \in 1 .. i
    BY <1>1
  <2> QED
    BY <2>1, RowIsOrdered
<1>5. \A k \in Nat : Start(s, k) = IF k < n THEN out[k + 1].seqno ELSE s.next_seqno
  BY DEF Start
<1> HIDE DEF out, n
<1>6. \A i \in 1 .. n : Start(s, i - 1) = out[i].seqno
  <2> TAKE i \in 1 .. n
  <2>1. i - 1 \in Nat /\ i - 1 < n /\ (i - 1) + 1 = i
    BY <1>1
  <2> QED
    BY <1>5, <2>1
<1>7. \A i \in 1 .. n : Start(s, i) = EndOf(out[i])
  <2> TAKE i \in 1 .. n
  <2>1. CASE i = n
    BY <1>1, <1>3, <1>5, <2>1
  <2>2. CASE i # n
    <3>1. i \in 1 .. n - 1 /\ i \in Nat /\ i < n
      BY <1>1, <2>2
    <3> QED
      BY <1>3, <1>5, <3>1
  <2> QED
    BY <2>1, <2>2
<1>8. Start(s, n) = s.next_seqno
  BY <1>1, <1>5
<1>9. s.bytes_in_flight = s.next_seqno - Start(s, 0)
  <2>1. CASE n = 0
    BY <1>1, <1>3, <1>8, <2>1
  <2>2. CASE n # 0
    <3>1. n > 0 /\ Start(s, 0) = out[0 + 1].seqno
      BY <1>1, <1>5, <2>2
    <3> QED
      BY <1>3, <3>1
  <2> QED
    BY <2>1, <2>2
<1>10. \A k \in 0 .. n : Start(s, k) \in Nat /\ Start(s, k) <= s.next_seqno
  <2> TAKE k \in 0 .. n
  <2>1. CASE k = n
    BY <1>1, <1>8, <2>1
  <2>2. CASE k # n
    <3>1. k \in Nat /\ k < n /\ k + 1 \in 1 .. n
      BY <1>1, <2>2
    <3>2. /\ out[k + 1] \in OutSegments(conv) /\ EndOf(out[k + 1]) <= s.next_seqno
          /\ Start(s, k) = out[k + 1].seqno
      BY <1>1, <1>4, <1>5, <3>1
    <3>3. /\ out[k + 1].seqno \in Nat /\ out[k + 1].length \in Nat
          /\ EndOf(out[k + 1]) = out[k + 1].seqno + out[k + 1].length
      BY <1>2, <3>2
    <3> QED
      BY <1>1, <3>2, <3>3
  <2> QED
    BY <2>1, <2>2
<1>11. \A i \in 1 .. n : Start(s, i) = Start(s, i - 1) + out[i].length
  BY <1>1, <1>2, <1>6, <1>7
<1> QED
  BY <1>6, <1>7, <1>8, <1>9, <1>10, <1>11 DEF out, n

Passes(conv) == [ kept : Seq(OutSegments(conv)), in_flight : Int ]

\* The pass over the outstanding segments, turn by turn.
LEMMA VisitsInTurn ==
  ASSUME NEW conv, NEW w, NEW s, SoundSender(conv, s, w), NEW ackno \in Nat
  PROVE  LET F == Visits(s, ackno)
         IN  /\ F[0] = [ kept |-> << >>, in_flight |-> s.bytes_in_flight ]
             /\ \A i \in 0 .. Len(s.outstanding) : F[i] \in Passes(conv)
             /\ \A i \in 1 .. Len(s.outstanding) :
                  F[i] = Visit(F[i - 1], s.outstanding[i], ackno)
<1> DEFINE out == s.outstanding
           n == Len(out)
           start == [ kept |-> << >>, in_flight |-> s.bytes_in_flight ]
           turn == [i \in 1 .. n |-> [p \in Passes(conv) |-> Visit(p, out[i], ackno)]]
           F == Visits(s, ackno)
<1>1. /\ n \in Nat /\ s.bytes_in_flight \in Nat
      /\ \A i \in 1 .. n : out[i] \in OutSegments(conv)
  BY SenderIsTyped, Zenon
<1>2. start \in Passes(conv)
  BY <1>1 DEF Passes
<1>3. ASSUME NEW p \in Passes(conv), NEW g \in OutSegments(conv) PROVE Visit(p, g, ackno) \in Passes(conv)
  <2> DEFINE less == p.in_flight - g.length
             more == Append(p.kept, g)
  <2>1. less \in Int /\ more \in Seq(OutSegments(conv))
    BY AppendProperties DEF Passes, OutSegments
  <2>2. Visit(p, g, ackno) \in {[p EXCEPT !.in_flight = less], [p EXCEPT !.kept = more]}
    BY Zenon DEF Visit
  <2> HIDE DEF less, more
  <2>3. [p EXCEPT !.in_flight = less] \in Passes(conv) /\ [p EXCEPT !.kept = more] \in Passes(conv)
    BY <2>1 DEF Passes
  <2> QED
    BY <2>2, <2>3
<1> HIDE DEF n, out, start
<1>4. turn \in [1 .. n -> [Passes(conv) -> Passes(conv)]]
  BY <1>1, <1>3
<1>5. PICK f \in [0 .. n -> Passes(conv)] :
        f[0] = start /\ \A i \in 1 .. n : f[i] = turn[i][f[i - 1]]
  <2> HIDE DEF turn
  <2>1. turn \in Turnings(Passes(conv), n)
    BY <1>4 DEF Turnings
  <2>2. PICK f \in [0 .. n -> Passes(conv)] : Runs(f, start, turn, n)
    BY <1>1, <1>2, <2>1, LoopExists
  <2> QED
    BY <2>2 DEF Runs
<1>6. \A i \in 1 .. n : f[i - 1] \in Passes(conv) /\ turn[i][f[i - 1]] = Visit(f[i - 1], out[i], ackno)
  <2> TAKE i \in 1 .. n
  <2>1. i - 1 \in 0 .. n
    BY <1>1
  <2>2. f[i - 1] \in Passes(conv)
    BY <2>1
  <2> QED
    BY <2>2
<1> HIDE DEF turn
<1>7. f = [i \in 0 .. n |-> IF i = 0 THEN start ELSE Visit(f[i - 1], out[i], ackno)]
  <2>1. \A i \in 0 .. n : i # 0 => i \in 1 .. n
    BY <1>1
  <2>2. \A i \in 0 .. n : f[i] = IF i = 0 THEN start ELSE Visit(f[i - 1], out[i], ackno)
    BY <1>5, <1>6, <2>1
  <2> QED
    BY <2>2
<1> DEFINE Loops(h) == h = [i \in 0 .. n |-> IF i = 0 THEN start ELSE Visit(h[i - 1], out[i], ackno)]
<1>8. Loops(F)
  <2>1. F = CHOOSE h : Loops(h)
    BY Zenon DEF Visits, n, out, start
  <2>2. Loops(f)
    BY <1>7
  <2> HIDE DEF Loops, F
  <2> QED
    BY <2>1, <2>2, Zenon
<1> HIDE DEF F
<1>9. F[0] = start /\ \A i \in 1 .. n : F[i] = Visit(F[i - 1], out[i], ackno)
  <2>1. \A i \in 0 .. n : F[i] = IF i = 0 THEN start ELSE Visit(F[i - 1], out[i], ackno)
    BY <1>8
  <2> QED
    BY <1>1, <2>1
<1> HIDE DEF Loops
<1> DEFINE T == { i \in 0 .. n : F[i] \in Passes(conv) }
<1>10. 0 .. n \subseteq T
  <2>1. 0 \in T
    BY <1>1, <1>2, <1>9
  <2>2. \A i \in 1 .. n : i - 1 \in T => i \in T
    <3> SUFFICES ASSUME NEW i \in 1 .. n, i - 1 \in T PROVE i \in T
      OBVIOUS
    <3>1. i \in 0 .. n /\ F[i - 1] \in Passes(conv) /\ out[i] \in OutSegments(conv)
      BY <1>1
    <3>2. F[i] \in Passes(conv)
      BY <1>3, <1>9, <3>1
    <3> QED
      BY <3>1, <3>2
  <2> HIDE DEF T
  <2> QED
    BY <1>1, <2>1, <2>2, IntervalInduction
<1>11. \A i \in 0 .. n : F[i] \in Passes(conv)
  BY <1>10
<1> QED
  BY <1>9, <1>11, Zenon DEF F, n, out, start

\* The segments that an acknowledgment covers are the first ones: the rest
\* stays outstanding, and what stays in flight is its length.
LEMMA VisitedIsRest ==
  ASSUME NEW conv, NEW w, NEW s, SoundSender(conv, s, w), NEW ackno \in Nat
  PROVE  \E k \in 0 .. Len(s.outstanding) :
           /\ Visited(s, ackno).kept = Drop(s.outstanding, k)
           /\ Visited(s, ackno).in_flight = s.next_seqno - Start(s, k)
           /\ k = 0 \/ Start(s, k) <= ackno
<1> DEFINE out == s.outstanding
           n == Len(out)
           F == Visits(s, ackno)
<1>1. /\ out \in Seq(OutSegments(conv)) /\ n \in Nat /\ s.next_seqno \in Nat
      /\ \A i \in 1 .. n : out[i] \in OutSegments(conv) /\ EndOf(out[i]) \in Nat
  BY SenderIsTyped, Zenon
<1>2. /\ \A k \in 0 .. n : Start(s, k) \in Nat
      /\ s.bytes_in_flight = s.next_seqno - Start(s, 0)
      /\ \A i \in 1 .. n : Start(s, i) = Start(s, i - 1) + out[i].length
  BY StartsInARow
<1>3. /\ F[0] = [ kept |-> << >>, in_flight |-> s.bytes_in_flight ]
      /\ \A i \in 0 .. n : F[i] \in Passes(conv)
      /\ \A i \in 1 .. n : F[i] = Visit(F[i - 1], out[i], ackno)
  BY VisitsInTurn
<1>4. \A j \in 1 .. n : \A i \in 1 .. j : EndOf(out[i]) <= EndOf(out[j])
  BY RowIsOrdered, Zenon
<1>5. Visited(s, ackno) = F[n]
  BY Zenon DEF Visited
<1>6. \A p \in Passes(conv) : p.kept \in Seq(OutSegments(conv)) /\ Len(p.kept) \in Nat /\ p.in_flight \in Int
  BY LenProperties DEF Passes
<1>7. \A g \in OutSegments(conv) : g.length \in Nat
  BY DEF OutSegments
<1> HIDE DEF F, out, n
<1> DEFINE Rest(p, i, k) ==
             /\ Len(p.kept) = i - k /\ \A j \in 1 .. i - k : p.kept[j] = out[k + j]
             /\ p.in_flight = s.next_seqno - Start(s, k)
             /\ k < i => ~Covered(out[k + 1], ackno)
             /\ k = 0 \/ Covered(out[k], ackno)
           T == { i \in 0 .. n : \E k \in 0 .. i : Rest(F[i], i, k) }
<1>8. 0 \in T
  <2>1. Rest(F[0], 0, 0)
    BY <1>2, <1>3
  <2>2. 0 \in 0 .. 0 /\ 0 \in 0 .. n
    BY <1>1
  <2> HIDE DEF Rest
  <2> QED
    BY <2>1, <2>2
<1>9. ASSUME NEW i \in 1 .. n, NEW k \in 0 .. i - 1, Rest(F[i - 1], i - 1, k)
      PROVE  \E l \in 0 .. i : Rest(F[i], i, l)
  <2> DEFINE p == F[i - 1]
             g == out[i]
  <2>1. /\ p \in Passes(conv) /\ g \in OutSegments(conv) /\ F[i] = Visit(p, g, ackno)
        /\ i - 1 \in 0 .. n /\ i \in 0 .. n /\ i \in Nat /\ k \in Nat
    <3>1. i - 1 \in 0 .. n
      BY <1>1
    <3> QED
      BY <1>1, <1>3, <3>1
  <2>2. /\ Len(p.kept) = (i - 1) - k /\ \A j \in 1 .. (i - 1) - k : p.kept[j] = out[k + j]
        /\ p.in_flight = s.next_seqno - Start(s, k)
        /\ k < i - 1 => ~Covered(out[k + 1], ackno)
        /\ k = 0 \/ Covered(out[k], ackno)
    BY <1>9, Zenon
  <2>3. /\ p.kept \in Seq(OutSegments(conv)) /\ p.in_flight \in Int /\ g.length \in Nat
        /\ p = [ kept |-> p.kept, in_flight |-> p.in_flight ]
    BY <1>6, <1>7, <2>1 DEF Passes
  <2> HIDE DEF p, g
  <2>4. CASE Covered(g, ackno)
    <3>1. k = i - 1
      <4> SUFFICES ASSUME k < i - 1 PROVE FALSE
        BY <2>1
      <4>1. ~Covered(out[k + 1], ackno) /\ k + 1 \in 1 .. i /\ i \in 1 .. n /\ k + 1 \in 1 .. n
        <5>1. ~Covered(out[k + 1], ackno)
          BY <2>2
        <5>2. k + 1 \in 1 .. i /\ i \in 1 .. n /\ k + 1 \in 1 .. n
          BY <1>1, <2>1
        <5> QED
          BY <5>1, <5>2
      <4>2. EndOf(out[k + 1]) <= EndOf(g)
        BY <1>4, <4>1 DEF g
      <4>3. EndOf(out[k + 1]) \in Nat /\ EndOf(g) \in Nat
        BY <1>1, <4>1 DEF g
      <4>4. ackno >= EndOf(g) /\ ~(ackno >= EndOf(out[k + 1]))
        BY <2>4, <4>1 DEF Covered, EndOf
      <4> QED
        BY <4>2, <4>3, <4>4
    <3> DEFINE less == p.in_flight - g.length
               q == Visit(p, g, ackno)
    <3>2. q = [ kept |-> p.kept, in_flight |-> less ]
      <4>1. q = [p EXCEPT !.in_flight = less]
        BY <2>4, Zenon DEF Visit
      <4> HIDE DEF q, less
      <4> QED
        BY <2>3, <4>1
    <3>3. less = s.next_seqno - Start(s, i)
      <4>1. Start(s, i) = Start(s, k) + g.length
        BY <1>2, <3>1 DEF g
      <4>2. p.in_flight = s.next_seqno - Start(s, k)
        BY <2>2
      <4>3. /\ Start(s, k) \in Nat /\ s.next_seqno \in Nat
            /\ p.in_flight \in Int /\ g.length \in Nat
        BY <1>1, <1>2, <2>1, <2>3, <3>1
      <4> DEFINE flight == p.in_flight
                 before == Start(s, k)
                 after == Start(s, i)
                 length == g.length
                 next == s.next_seqno
      <4> HIDE DEF flight, before, after, length, next
      <4>4. /\ flight = next - before /\ after = before + length
            /\ before \in Nat /\ next \in Nat /\ flight \in Int /\ length \in Nat
        BY <4>1, <4>2, <4>3, Zenon DEF flight, before, after, length, next
      <4>5. flight - length = next - after
        BY <4>4
      <4> QED
        BY <4>5, Zenon DEF flight, after, length, next
    <3> HIDE DEF q, less
    <3>4. /\ Len(q.kept) = i - i
          /\ \A j \in 1 .. i - i : q.kept[j] = out[i + j]
      BY <2>1, <2>2, <3>1, <3>2
    <3>a. Covered(out[i], ackno)
      BY <2>4 DEF g
    <3>5. Rest(q, i, i)
      BY <2>1, <3>2, <3>3, <3>4, <3>a
    <3>6. Rest(F[i], i, i) /\ i \in 0 .. i
      BY <2>1, <3>5 DEF q
    <3> HIDE DEF Rest
    <3> QED
      BY <3>6
  <2>5. CASE ~Covered(g, ackno)
    <3> DEFINE more == Append(p.kept, g)
               q == Visit(p, g, ackno)
    <3>1. q = [ kept |-> more, in_flight |-> p.in_flight ]
      <4>1. q = [p EXCEPT !.kept = more]
        BY <2>5, Zenon DEF Visit
      <4> HIDE DEF q, more
      <4> QED
        BY <2>3, <4>1
    <3>2. /\ Len(more) = Len(p.kept) + 1 /\ more[Len(p.kept) + 1] = g
          /\ \A j \in 1 .. Len(p.kept) : more[j] = p.kept[j]
      BY <2>1, <2>3, AppendProperties
    <3> HIDE DEF q, more
    <3>3. /\ Len(more) = i - k
          /\ \A j \in 1 .. i - k : more[j] = out[k + j]
      <4>1. Len(more) = i - k
        BY <2>1, <2>2, <3>2
      <4>2. ASSUME NEW j \in 1 .. i - k PROVE more[j] = out[k + j]
        <5>1. CASE j = i - k
          <6>1. j = Len(p.kept) + 1 /\ k + j = i
            BY <2>1, <2>2, <5>1
          <6> QED
            BY <3>2, <6>1 DEF g
        <5>2. CASE j # i - k
          <6>1. j \in 1 .. (i - 1) - k /\ j \in 1 .. Len(p.kept)
            BY <2>1, <2>2, <5>2
          <6> QED
            BY <2>2, <3>2, <6>1
        <5> QED
          BY <5>1, <5>2
      <4> QED
        BY <4>1, <4>2
    <3>4. ~Covered(out[k + 1], ackno)
      <4>1. CASE k = i - 1
        <5>1. k + 1 = i
          BY <2>1, <4>1
        <5> QED
          BY <2>5, <5>1 DEF g
      <4>2. CASE k # i - 1
        BY <2>1, <2>2, <4>2
      <4> QED
        BY <4>1, <4>2
    <3>5. Rest(q, i, k)
      BY <2>2, <3>1, <3>3, <3>4
    <3>6. Rest(F[i], i, k) /\ k \in 0 .. i
      BY <2>1, <3>5 DEF q
    <3> HIDE DEF Rest
    <3> QED
      BY <3>6
  <2> QED
    BY <2>4, <2>5
<1>10. 0 .. n \subseteq T
  <2>1. \A i \in 1 .. n : i - 1 \in T => i \in T
    <3> SUFFICES ASSUME NEW i \in 1 .. n, i - 1 \in T PROVE i \in T
      OBVIOUS
    <3>1. PICK k \in 0 .. i - 1 : Rest(F[i - 1], i - 1, k)
      OBVIOUS
    <3>2. \E l \in 0 .. i : Rest(F[i], i, l)
      BY <1>9, <3>1
    <3>3. i \in 0 .. n
      BY <1>1
    <3> HIDE DEF Rest
    <3> QED
      BY <3>2, <3>3
  <2> HIDE DEF T
  <2> QED
    BY <1>1, <1>8, <2>1, IntervalInduction
<1>11. PICK k \in 0 .. n : Rest(F[n], n, k)
  <2>1. n \in T
    <3> HIDE DEF T
    <3> QED
      BY <1>1, <1>10
  <2> HIDE DEF Rest
  <2> QED
    BY <2>1
<1>12. F[n].kept = Drop(out, k)
  <2> DEFINE a == F[n].kept
             b == Drop(out, k)
  <2>1. /\ b \in Seq(OutSegments(conv)) /\ Len(b) = n - k
        /\ \A i \in 1 .. n - k : b[i] = out[k + i]
    BY <1>1, Parts DEF n
  <2>2. /\ a \in Seq(OutSegments(conv)) /\ Len(a) = n - k
        /\ \A i \in 1 .. n - k : a[i] = out[k + i]
    <3>1. n \in 0 .. n
      BY <1>1
    <3> QED
      BY <1>3, <1>6, <1>11, <3>1
  <2> HIDE DEF a, b
  <2>3. a = b
    BY <2>1, <2>2, SeqEqual
  <2> QED
    BY <2>3 DEF a, b
<1>13. F[n].in_flight = s.next_seqno - Start(s, k)
  BY <1>11
<1>14. k = 0 \/ Start(s, k) <= ackno
  <2> SUFFICES ASSUME k # 0 PROVE Start(s, k) <= ackno
    OBVIOUS
  <2>1. k \in 1 .. n /\ Covered(out[k], ackno)
    BY <1>1, <1>11
  <2>2. Start(s, k) = EndOf(out[k]) /\ EndOf(out[k]) \in Nat
    BY <1>1, <2>1, StartsInARow DEF out, n
  <2> QED
    BY <2>1, <2>2 DEF Covered, EndOf
<1> QED
  BY <1>5, <1>12, <1>13, <1>14, Zenon DEF out, n

\* The sender is the same but for its first k segments, its window and its
\* timeout; without segments the timer may stop.
Loses(conv, s, q, k) ==
  /\ q \in Senders(conv)
  /\ q.input = s.input /\ q.next_seqno = s.next_seqno
  /\ q.syn_sent = s.syn_sent /\ q.fin_sent = s.fin_sent
  /\ q.outstanding = Drop(s.outstanding, k)
  /\ q.bytes_in_flight = s.next_seqno - Start(s, k)
  /\ q.time_running = s.time_running \/ k = Len(s.outstanding)

LEMMA LosesIsSound ==
  ASSUME NEW conv, NEW w, NEW s, SoundSender(conv, s, w), NEW k \in 0 .. Len(s.outstanding),
         NEW q, Loses(conv, s, q, k)
  PROVE  SoundSender(conv, q, w)
<1> DEFINE out == s.outstanding
           rest == q.outstanding
           n == Len(out)
<1>1. /\ out \in Seq(OutSegments(conv)) /\ n \in Nat /\ s.next_seqno \in Nat /\ k \in 0 .. n
      /\ \A i \in 1 .. n : out[i] \in OutSegments(conv)
  BY SenderIsTyped, Zenon
<1>2. /\ HoldsTheRest(conv, s, w) /\ CountsSent(s) /\ InARow(s) /\ AllTrue(conv, s) /\ Timed(s)
      /\ w \in 0 .. Len(conv.stream)
  BY DEF SoundSender
<1>3. /\ rest \in Seq(OutSegments(conv)) /\ Len(rest) = n - k
      /\ \A i \in 1 .. n - k : rest[i] = out[k + i]
  <2>1. rest = Drop(out, k)
    BY DEF Loses
  <2>2. /\ Drop(out, k) \in Seq(OutSegments(conv)) /\ Len(Drop(out, k)) = n - k
        /\ \A i \in 1 .. n - k : Drop(out, k)[i] = out[k + i]
    BY <1>1, Parts, ZenonT(40)
  <2> QED
    BY <2>1, <2>2, Zenon
<1> HIDE DEF out, rest, n
<1>4. HoldsTheRest(conv, q, w) /\ CountsSent(q)
  BY <1>2 DEF Loses, HoldsTheRest, CountsSent
<1>5. InARow(q)
  <2>1. /\ \A i \in 1 .. n - 1 : EndOf(out[i]) = out[i + 1].seqno
        /\ n > 0 => EndOf(out[n]) = s.next_seqno
    BY <1>2 DEF InARow, out, n
  <2>2. \A i \in 1 .. (n - k) - 1 : EndOf(rest[i]) = rest[i + 1].seqno
    <3> TAKE i \in 1 .. (n - k) - 1
    <3>1. /\ i \in 1 .. n - k /\ i + 1 \in 1 .. n - k
          /\ k + i \in 1 .. n - 1 /\ (k + i) + 1 = k + (i + 1)
      BY <1>1
    <3> QED
      BY <1>3, <2>1, <3>1
  <2>3. n - k > 0 => EndOf(rest[n - k]) = s.next_seqno
    <3> SUFFICES ASSUME n - k > 0 PROVE EndOf(rest[n - k]) = s.next_seqno
      OBVIOUS
    <3>1. n - k \in 1 .. n - k /\ k + (n - k) = n /\ n > 0
      BY <1>1
    <3> QED
      BY <1>3, <2>1, <3>1
  <2>4. n - k > 0 => Start(s, k) = rest[1].seqno
    <3> SUFFICES ASSUME n - k > 0 PROVE Start(s, k) = rest[1].seqno
      OBVIOUS
    <3>1. 1 \in 1 .. n - k /\ k < n
      BY <1>1
    <3> QED
      BY <1>3, <3>1 DEF Start, out, n
  <2>5. n - k = 0 => Start(s, k) = s.next_seqno
    <3>1. n - k = 0 => ~(k < n)
      BY <1>1
    <3> QED
      BY <3>1 DEF Start, out, n
  <2>6. q.next_seqno = s.next_seqno /\ q.bytes_in_flight = s.next_seqno - Start(s, k)
    BY DEF Loses
  <2>7. n - k = 0 => q.bytes_in_flight = 0
    BY <1>1, <2>5, <2>6
  <2> QED
    BY <1>3, <2>2, <2>3, <2>4, <2>6, <2>7 DEF InARow, rest
<1>6. AllTrue(conv, q)
  <2> SUFFICES ASSUME NEW i \in 1 .. n - k PROVE TrueSegment(conv, q, rest[i])
    BY <1>3 DEF AllTrue, rest
  <2>1. k + i \in 1 .. n
    BY <1>1
  <2>2. TrueSegment(conv, s, out[k + i])
    BY <1>2, <2>1 DEF AllTrue, out, n
  <2> QED
    BY <1>3, <2>2 DEF TrueSegment, Loses
<1>7. Timed(q)
  <2>1. CASE q.time_running = s.time_running
    <3>1. rest # << >> => out # << >>
      <4> SUFFICES ASSUME rest # << >> PROVE n > 0
        BY <1>1, EmptySeq DEF n
      <4>1. n - k # 0
        BY <1>3, EmptySeq
      <4> QED
        BY <1>1, <4>1
    <3> QED
      BY <1>2, <2>1, <3>1 DEF Timed, rest, out
  <2>2. CASE k = n
    <3>1. Len(rest) = 0
      BY <1>1, <1>3, <2>2
    <3> QED
      BY <1>3, <3>1, EmptySeq DEF Timed, rest
  <2> QED
    BY <2>1, <2>2 DEF Loses, n, out
<1>8. q \in Senders(conv)
  BY DEF Loses
<1> QED
  BY <1>2, <1>4, <1>5, <1>6, <1>7, <1>8 DEF SoundSender

LEMMA DropNoneOrAll ==
  ASSUME NEW conv, NEW w, NEW s, SoundSender(conv, s, w)
  PROVE  /\ Drop(s.outstanding, 0) = s.outstanding
         /\ Drop(s.outstanding, Len(s.outstanding)) = << >>
         /\ s.next_seqno - Start(s, 0) = s.bytes_in_flight
         /\ s.next_seqno - Start(s, Len(s.outstanding)) = 0
<1> DEFINE out == s.outstanding
           n == Len(out)
<1>1. out \in Seq(OutSegments(conv)) /\ n \in Nat /\ s.next_seqno \in Nat
  BY SenderIsTyped, Zenon
<1>2. 0 \in 0 .. n /\ n \in 0 .. n /\ n - n = 0 /\ 0 + 1 = 1
  BY <1>1
<1>3. Drop(out, 0) = out
  BY <1>1, <1>2, SubSeqFull DEF Drop
<1>4. Drop(out, n) \in Seq(OutSegments(conv)) /\ Len(Drop(out, n)) = 0
  <2> DEFINE all == n
  <2>1. all \in 0 .. Len(out) /\ Len(out) - all = 0 /\ out \in Seq(OutSegments(conv))
    BY <1>1, <1>2
  <2> HIDE DEF all, out, n
  <2>2. Drop(out, all) \in Seq(OutSegments(conv)) /\ Len(Drop(out, all)) = Len(out) - all
    BY <2>1, Parts
  <2> QED
    BY <2>1, <2>2 DEF all
<1>5. s.bytes_in_flight = s.next_seqno - Start(s, 0) /\ Start(s, n) = s.next_seqno
  BY StartsInARow, Zenon
<1> QED
  BY <1>1, <1>3, <1>4, <1>5, EmptySeq

\* Only segments that ackno covers are taken out.
Forgets(conv, s, q, ackno) ==
  \E k \in 0 .. Len(s.outstanding) :
    Loses(conv, s, q, k) /\ (k = 0 \/ Start(s, k) <= ackno)

LEMMA ForgetsNothing ==
  ASSUME NEW conv, NEW w, NEW s, SoundSender(conv, s, w), NEW ackno
  PROVE  Forgets(conv, s, s, ackno)
<1> DEFINE none == 0
<1>1. none \in 0 .. Len(s.outstanding)
  BY SenderIsTyped
<1>2. Loses(conv, s, s, none)
  <2>1. s \in Senders(conv) /\ s.time_running \in BOOLEAN
    BY SenderIsTyped, Zenon DEF SoundSender
  <2>2. Drop(s.outstanding, 0) = s.outstanding /\ s.next_seqno - Start(s, 0) = s.bytes_in_flight
    BY DropNoneOrAll, Zenon
  <2> QED
    BY <2>1, <2>2 DEF Loses
<1>3. none = 0
  OBVIOUS
<1> HIDE DEF none
<1> QED
  BY <1>1, <1>2, <1>3 DEF Forgets

LEMMA AcknowledgeIsSound ==
  ASSUME NEW conv, NEW w, NEW s, SoundSender(conv, s, w), NEW ackno \in Nat
  PROVE  /\ SoundSender(conv, Acknowledge(s, ackno), w)
         /\ Acknowledge(s, ackno).next_seqno = s.next_seqno
         /\ Forgets(conv, s, Acknowledge(s, ackno), ackno)
<1> DEFINE pass == Visited(s, ackno)
<1>1. PICK k \in 0 .. Len(s.outstanding) :
        /\ pass.kept = Drop(s.outstanding, k)
        /\ pass.in_flight = s.next_seqno - Start(s, k)
        /\ k = 0 \/ Start(s, k) <= ackno
  BY VisitedIsRest
<1> DEFINE kept == pass.kept
           flight == pass.in_flight
           q == [s EXCEPT !.outstanding = kept, !.bytes_in_flight = flight,
                          !.consecutive_retransmissions = 0, !.current_RTO = s.initial_RTO]
<1>2. Acknowledge(s, ackno) = IF kept = s.outstanding THEN s ELSE q
  BY Zenon DEF Acknowledge
<1> HIDE DEF pass
<1>3. kept = Drop(s.outstanding, k) /\ flight = s.next_seqno - Start(s, k)
  BY <1>1
<1> HIDE DEF kept, flight
<1>4. kept \in Seq(OutSegments(conv)) /\ flight \in Nat
  <2>1. s.outstanding \in Seq(OutSegments(conv)) /\ s.next_seqno \in Nat
    BY SenderIsTyped, Zenon
  <2>2. Start(s, k) \in Nat /\ Start(s, k) <= s.next_seqno
    BY StartsInARow, Zenon
  <2> QED
    BY <1>3, <2>1, <2>2, Parts
<1>5. Loses(conv, s, q, k) /\ q.next_seqno = s.next_seqno
  <2>1. s \in Senders(conv)
    BY DEF SoundSender
  <2>2. q = [s EXCEPT !.outstanding = kept, !.bytes_in_flight = flight,
                      !.consecutive_retransmissions = 0, !.current_RTO = s.initial_RTO]
    OBVIOUS
  <2> HIDE DEF q
  <2>3. /\ q \in Senders(conv)
        /\ q.input = s.input /\ q.next_seqno = s.next_seqno
        /\ q.syn_sent = s.syn_sent /\ q.fin_sent = s.fin_sent
        /\ q.outstanding = kept /\ q.bytes_in_flight = flight
        /\ q.time_running = s.time_running
    BY <1>4, <2>1, <2>2 DEF Senders
  <2> QED
    BY <1>3, <2>3 DEF Loses
<1> HIDE DEF q
<1>6. SoundSender(conv, q, w)
  BY <1>5, LosesIsSound, Zenon
<1>7. Forgets(conv, s, q, ackno)
  BY <1>1, <1>5 DEF Forgets
<1>8. Forgets(conv, s, s, ackno)
  BY ForgetsNothing
<1> QED
  BY <1>2, <1>5, <1>6, <1>7, <1>8

\* Whatever a receiver's message says, and whenever it comes.
LEMMA ReceiveIsSound ==
  ASSUME NEW conv, NEW w, NEW s, SoundSender(conv, s, w), NEW m, m.window_size \in Nat,
         m.ackno = None \/ \E raw \in Wraps : m.ackno = Some(raw)
  PROVE  /\ SoundSender(conv, SenderReceive(s, m), w)
         /\ SenderReceive(s, m).next_seqno = s.next_seqno
<1> DEFINE size == m.window_size
           noted == [s EXCEPT !.window_size = size]
           ackno == Unwrap(Value(m.ackno), s.isn, s.next_seqno)
<1>1. s \in Senders(conv) /\ size \in Nat /\ Len(s.outstanding) \in Nat
  BY SenderIsTyped, Zenon DEF SoundSender
<1>2. 0 \in 0 .. Len(s.outstanding) /\ Len(s.outstanding) \in 0 .. Len(s.outstanding)
  BY <1>1
<1> HIDE DEF size
<1>3. /\ noted \in Senders(conv)
      /\ noted.input = s.input /\ noted.next_seqno = s.next_seqno
      /\ noted.syn_sent = s.syn_sent /\ noted.fin_sent = s.fin_sent
      /\ noted.outstanding = s.outstanding /\ noted.bytes_in_flight = s.bytes_in_flight
      /\ noted.time_running = s.time_running /\ noted.isn = s.isn
  <2>1. noted = [s EXCEPT !.window_size = size]
    OBVIOUS
  <2> HIDE DEF noted
  <2> QED
    BY <1>1, <2>1 DEF Senders
<1> HIDE DEF noted
<1>4. SoundSender(conv, noted, w)
  <2> DEFINE none == 0
  <2>1. none \in 0 .. Len(s.outstanding) /\ Loses(conv, s, noted, none)
    BY <1>2, <1>3, DropNoneOrAll, Zenon DEF Loses
  <2> HIDE DEF none
  <2> QED
    BY <2>1, LosesIsSound, Zenon
<1>5. CASE ~HasValue(m.ackno) /\ m.window_size # 0
  <2>1. SenderReceive(s, m) = noted
    BY <1>5, Zenon DEF SenderReceive, noted, size
  <2> QED
    BY <1>3, <1>4, <2>1
<1>6. CASE ~HasValue(m.ackno) /\ m.window_size = 0
  <2> DEFINE input == SetError(noted.input)
             q == [noted EXCEPT !.input = input]
  <2>1. SenderReceive(s, m) = q
    BY <1>6, Zenon DEF SenderReceive, noted, size
  <2>2. noted.input \in ByteStreams(Bytes(conv))
    BY <1>3 DEF Senders
  <2>3. /\ input \in ByteStreams(Bytes(conv)) /\ input.capacity = noted.input.capacity
        /\ input.buffer = noted.input.buffer /\ input.bytes_pushed = noted.input.bytes_pushed
        /\ input.bytes_popped = noted.input.bytes_popped
        /\ input.is_closed = noted.input.is_closed
    BY <2>2 DEF SetError, ByteStreams
  <2> HIDE DEF input
  <2>4. /\ q \in Senders(conv) /\ q.input = input /\ q.next_seqno = noted.next_seqno
        /\ q.syn_sent = noted.syn_sent /\ q.fin_sent = noted.fin_sent
        /\ q.outstanding = noted.outstanding /\ q.bytes_in_flight = noted.bytes_in_flight
        /\ q.time_running = noted.time_running
    BY <1>3, <2>3 DEF Senders
  <2> HIDE DEF q
  <2>5. SoundSender(conv, q, w)
    <3>1. HoldsTheRest(conv, q, w)
      BY <1>4, <2>3, <2>4 DEF SoundSender, HoldsTheRest
    <3>2. CountsSent(q)
      BY <1>4, <2>3, <2>4 DEF SoundSender, CountsSent
    <3>3. InARow(q) /\ Timed(q)
      BY <1>4, <2>4, Zenon DEF SoundSender, InARow, Timed
    <3>4. AllTrue(conv, q)
      <4>1. /\ q.outstanding = noted.outstanding /\ q.fin_sent = noted.fin_sent
            /\ q.next_seqno = noted.next_seqno
        BY <2>4
      <4>2. \A i \in 1 .. Len(noted.outstanding) : TrueSegment(conv, noted, noted.outstanding[i])
        BY <1>4 DEF SoundSender, AllTrue
      <4>3. ASSUME NEW g, TrueSegment(conv, noted, g) PROVE TrueSegment(conv, q, g)
        BY <4>1, <4>3, Zenon DEF TrueSegment
      <4> HIDE DEF noted
      <4> QED
        BY <4>1, <4>2, <4>3, Zenon DEF AllTrue
    <3> QED
      BY <1>4, <2>4, <3>1, <3>2, <3>3, <3>4 DEF SoundSender
  <2> QED
    BY <1>3, <2>1, <2>4, <2>5
<1>7. CASE HasValue(m.ackno) /\ m.RST
  <2> DEFINE q == [noted EXCEPT !.outstanding = << >>, !.bytes_in_flight = 0,
                                !.time_running = FALSE]
  <2>1. SenderReceive(s, m) = q
    BY <1>7, Zenon DEF SenderReceive, noted, size
  <2>2. /\ q \in Senders(conv)
        /\ q.input = noted.input /\ q.next_seqno = noted.next_seqno
        /\ q.syn_sent = noted.syn_sent /\ q.fin_sent = noted.fin_sent
        /\ q.outstanding = << >> /\ q.bytes_in_flight = 0
    <3>1. q = [noted EXCEPT !.outstanding = << >>, !.bytes_in_flight = 0,
                            !.time_running = FALSE]
      OBVIOUS
    <3>2. << >> \in Seq(OutSegments(conv))
      BY EmptySeq
    <3> HIDE DEF q
    <3> QED
      BY <1>3, <3>1, <3>2 DEF Senders
  <2> HIDE DEF q
  <2> DEFINE all == Len(noted.outstanding)
  <2>3. all \in 0 .. Len(noted.outstanding) /\ Loses(conv, noted, q, all)
    BY <1>2, <1>3, <1>4, <2>2, DropNoneOrAll, Zenon DEF Loses
  <2> HIDE DEF all
  <2>4. SoundSender(conv, q, w)
    BY <1>4, <2>3, LosesIsSound, Zenon
  <2> QED
    BY <1>3, <2>1, <2>2, <2>4
<1>8. CASE HasValue(m.ackno) /\ ~m.RST
  <2>1. ackno \in Nat
    <3>1. Value(m.ackno) \in Wraps
      BY <1>8 DEF HasValue, Value, Some
    <3>2. s.isn \in Wraps /\ s.next_seqno \in Nat
      BY SenderIsTyped DEF SoundSender, IsConversation
    <3> QED
      BY <3>1, <3>2, UnwrapWraps
  <2>2. SenderReceive(s, m) = IF ackno > s.next_seqno THEN noted ELSE Acknowledge(noted, ackno)
    BY <1>8, Zenon DEF SenderReceive, noted, size
  <2> HIDE DEF ackno
  <2>3. /\ SoundSender(conv, Acknowledge(noted, ackno), w)
        /\ Acknowledge(noted, ackno).next_seqno = noted.next_seqno
    BY <1>4, <2>1, AcknowledgeIsSound, Zenon
  <2> QED
    BY <1>3, <1>4, <2>2, <2>3
<1> QED
  BY <1>5, <1>6, <1>7, <1>8

-----------------------------------------------------------------------------
(* The clock and the application *)

\* Senders that differ in their clocks alone.
Alike(s, q) ==
  /\ q.input = s.input /\ q.next_seqno = s.next_seqno
  /\ q.syn_sent = s.syn_sent /\ q.fin_sent = s.fin_sent
  /\ q.window_size = s.window_size /\ q.bytes_in_flight = s.bytes_in_flight
  /\ Len(q.outstanding) = Len(s.outstanding)
  /\ \A i \in 1 .. Len(s.outstanding) : q.outstanding[i].msg = s.outstanding[i].msg

\* The clock changes how long the first segment has waited, and the timeout.
LEMMA TickIsSound ==
  ASSUME NEW conv, NEW w, NEW s, SoundSender(conv, s, w), NEW ms \in Nat
  PROVE  LET q == SenderTick(s, ms)
         IN  SoundSender(conv, q, w) /\ Alike(s, q)
<1> DEFINE out == s.outstanding
           n == Len(out)
<1>1. CASE ~s.time_running \/ s.outstanding = << >>
  <2>1. SenderTick(s, ms) = s
    BY <1>1, Zenon DEF SenderTick
  <2> QED
    BY <2>1, Zenon DEF Alike
<1>2. CASE s.time_running /\ s.outstanding # << >>
  <2>1. /\ out \in Seq(OutSegments(conv)) /\ n \in Nat /\ s \in Senders(conv)
        /\ s.consecutive_retransmissions \in Nat /\ s.current_RTO \in Nat
        /\ out = [i \in 1 .. n |-> out[i]]
        /\ \A i \in 1 .. n : out[i] \in OutSegments(conv)
    <3>1. /\ out \in Seq(OutSegments(conv)) /\ n \in Nat
          /\ s.consecutive_retransmissions \in Nat /\ s.current_RTO \in Nat
          /\ \A i \in 1 .. n : out[i] \in OutSegments(conv)
      BY SenderIsTyped, Zenon
    <3>2. out = [i \in 1 .. n |-> out[i]]
      BY <3>1, SeqDef
    <3> QED
      BY <3>1, <3>2 DEF SoundSender
  <2>2. 1 \in 1 .. n /\ out[1] \in OutSegments(conv) /\ Head(out) = out[1]
    <3>1. n # 0
      BY <1>2, <2>1, EmptySeq
    <3>2. 1 \in 1 .. n
      BY <2>1, <3>1
    <3> QED
      BY <1>2, <2>1, <3>2, HeadTailProperties
  <2> DEFINE waited == Elapsed(s, ms)
             expires == Expires(s, ms)
             tries == s.consecutive_retransmissions + 1
             timeout == IF s.window_size > 0 THEN 2 * s.current_RTO ELSE s.current_RTO
             time == IF expires THEN 0 ELSE out[1].transmit_time + ms
             segments == [out EXCEPT ![1].transmit_time = time]
             q == SenderTick(s, ms)
  <2>3. time \in Nat /\ tries \in Nat /\ timeout \in Nat
    <3>1. out[1].transmit_time + ms \in Nat
      BY <2>2 DEF OutSegments
    <3>2. time \in {0, out[1].transmit_time + ms}
      BY Zenon
    <3>3. timeout \in {2 * s.current_RTO, s.current_RTO}
      OBVIOUS
    <3> HIDE DEF time, timeout
    <3> QED
      BY <2>1, <3>1, <3>2, <3>3
  <2>4. q \in { [s EXCEPT !.outstanding = segments, !.consecutive_retransmissions = tries,
                          !.current_RTO = timeout],
                [s EXCEPT !.outstanding = segments] }
    <3>1. CASE expires
      <4>1. time = 0
        BY <3>1
      <4>2. q = [s EXCEPT !.outstanding[1].transmit_time = 0,
                          !.consecutive_retransmissions = tries, !.current_RTO = timeout]
        BY <1>2, <3>1, Zenon DEF SenderTick
      <4> HIDE DEF q, tries, timeout
      <4>3. q = [s EXCEPT !.outstanding = segments, !.consecutive_retransmissions = tries,
                          !.current_RTO = timeout]
        BY <4>1, <4>2, Zenon
      <4> QED
        BY <4>3
    <3>2. CASE ~expires
      <4>1. time = out[1].transmit_time + ms
        BY <3>2
      <4>2. q = [s EXCEPT !.outstanding[1].transmit_time = out[1].transmit_time + ms]
        BY <1>2, <3>2 DEF SenderTick
      <4> HIDE DEF q
      <4>3. q = [s EXCEPT !.outstanding = segments]
        BY <4>1, <4>2, Zenon
      <4> QED
        BY <4>3
    <3> QED
      BY <3>1, <3>2
  <2> HIDE DEF time, tries, timeout, q
  <2>5. /\ segments \in Seq(OutSegments(conv)) /\ Len(segments) = n
        /\ \A i \in 1 .. n : /\ segments[i].msg = out[i].msg /\ segments[i].seqno = out[i].seqno
                             /\ segments[i].length = out[i].length
    <3>1. segments =
            [i \in 1 .. n |-> IF i = 1 THEN [out[1] EXCEPT !.transmit_time = time] ELSE out[i]]
      BY <2>1, <2>2
    <3>2. /\ [out[1] EXCEPT !.transmit_time = time] \in OutSegments(conv)
          /\ [out[1] EXCEPT !.transmit_time = time].msg = out[1].msg
          /\ [out[1] EXCEPT !.transmit_time = time].seqno = out[1].seqno
          /\ [out[1] EXCEPT !.transmit_time = time].length = out[1].length
      BY <2>2, <2>3 DEF OutSegments
    <3> HIDE DEF segments, out, n
    <3>3. segments \in [1 .. n -> OutSegments(conv)]
      BY <2>1, <3>1, <3>2
    <3>4. segments \in Seq(OutSegments(conv)) /\ Len(segments) = n
      BY <2>1, <3>3, FunctionIsSeq
    <3>5. \A i \in 1 .. n : /\ segments[i].msg = out[i].msg /\ segments[i].seqno = out[i].seqno
                            /\ segments[i].length = out[i].length
      BY <3>1, <3>2
    <3> QED
      BY <3>4, <3>5
  <2> HIDE DEF segments
  <2>6. /\ q \in Senders(conv) /\ q.input = s.input /\ q.next_seqno = s.next_seqno
        /\ q.syn_sent = s.syn_sent /\ q.fin_sent = s.fin_sent
        /\ q.bytes_in_flight = s.bytes_in_flight /\ q.time_running = s.time_running
        /\ q.outstanding = segments /\ q.window_size = s.window_size
    BY <2>1, <2>3, <2>4, <2>5 DEF Senders
  <2> HIDE DEF out, n
  <2>7. \A i \in 1 .. n : EndOf(segments[i]) = EndOf(out[i])
    BY <2>5 DEF EndOf
  <2>8. InARow(q)
    <3>1. /\ \A i \in 1 .. n - 1 : EndOf(out[i]) = out[i + 1].seqno
          /\ n > 0 => /\ EndOf(out[n]) = s.next_seqno
                      /\ s.bytes_in_flight = s.next_seqno - out[1].seqno
          /\ n = 0 => s.bytes_in_flight = 0
      BY DEF SoundSender, InARow, out, n
    <3>2. \A i \in 1 .. n - 1 : EndOf(segments[i]) = segments[i + 1].seqno
      <4> TAKE i \in 1 .. n - 1
      <4>1. i \in 1 .. n /\ i + 1 \in 1 .. n
        BY <2>1
      <4> QED
        BY <2>5, <2>7, <3>1, <4>1
    <3>3. n > 0 => /\ EndOf(segments[n]) = s.next_seqno
                   /\ s.bytes_in_flight = s.next_seqno - segments[1].seqno
      <4>1. n > 0 => n \in 1 .. n
        BY <2>1
      <4> QED
        BY <2>2, <2>5, <2>7, <3>1, <4>1
    <3> QED
      BY <2>5, <2>6, <3>1, <3>2, <3>3 DEF InARow
  <2>9. AllTrue(conv, q)
    <3> SUFFICES ASSUME NEW i \in 1 .. n PROVE TrueSegment(conv, q, segments[i])
      BY <2>5, <2>6 DEF AllTrue
    <3>1. TrueSegment(conv, s, out[i])
      BY DEF SoundSender, AllTrue, out, n
    <3> QED
      BY <2>5, <2>6, <2>7, <3>1 DEF TrueSegment
  <2>10. HoldsTheRest(conv, q, w) /\ CountsSent(q) /\ Timed(q) /\ w \in 0 .. Len(conv.stream)
    BY <1>2, <2>6 DEF SoundSender, HoldsTheRest, CountsSent, Timed
  <2>11. SoundSender(conv, q, w)
    BY <2>6, <2>8, <2>9, <2>10 DEF SoundSender
  <2>12. Alike(s, q)
    BY <2>5, <2>6 DEF Alike, out, n
  <2> QED
    BY <2>11, <2>12 DEF q
<1> QED
  BY <1>1, <1>2

\* Only the input of the sender is another one.
LEMMA InputChanges ==
  ASSUME NEW conv, NEW w, NEW s, SoundSender(conv, s, w),
         NEW x \in 0 .. Len(conv.stream), NEW input \in ByteStreams(Bytes(conv)),
         LET q == [s EXCEPT !.input = input] IN HoldsTheRest(conv, q, x),
         input.bytes_popped = s.input.bytes_popped,
         s.fin_sent => input.is_closed /\ input.buffer = << >>
  PROVE  /\ SoundSender(conv, [s EXCEPT !.input = input], x)
         /\ [s EXCEPT !.input = input].next_seqno = s.next_seqno
<1> DEFINE q == [s EXCEPT !.input = input]
<1>1. /\ q \in Senders(conv) /\ q.input = input /\ q.next_seqno = s.next_seqno
      /\ q.syn_sent = s.syn_sent /\ q.fin_sent = s.fin_sent
      /\ q.bytes_in_flight = s.bytes_in_flight /\ q.time_running = s.time_running
      /\ q.outstanding = s.outstanding
  BY DEF SoundSender, Senders
<1>2. HoldsTheRest(conv, q, x)
  OBVIOUS
<1> HIDE DEF q
<1>3. CountsSent(q) /\ InARow(q) /\ AllTrue(conv, q) /\ Timed(q)
  <2>1. CountsSent(s) /\ InARow(s) /\ AllTrue(conv, s) /\ Timed(s)
    BY DEF SoundSender
  <2>2. CountsSent(q)
    BY <1>1, <2>1 DEF CountsSent
  <2>3. InARow(q)
    <3> DEFINE out == s.outstanding
    <3>1. /\ \A i \in 1 .. Len(out) - 1 : EndOf(out[i]) = out[i + 1].seqno
          /\ Len(out) > 0 => /\ EndOf(out[Len(out)]) = s.next_seqno
                             /\ s.bytes_in_flight = s.next_seqno - out[1].seqno
          /\ Len(out) = 0 => s.bytes_in_flight = 0
      BY <2>1, Zenon DEF InARow
    <3>2. q.outstanding = out
      BY <1>1
    <3> HIDE DEF out
    <3> QED
      BY <1>1, <3>1, <3>2, Zenon DEF InARow
  <2>4. AllTrue(conv, q)
    <3>1. \A g : TrueSegment(conv, s, g) => TrueSegment(conv, q, g)
      BY <1>1, Zenon DEF TrueSegment
    <3> QED
      BY <1>1, <2>1, <3>1, Zenon DEF AllTrue
  <2>5. Timed(q)
    BY <1>1, <2>1, Zenon DEF Timed
  <2> QED
    BY <2>2, <2>3, <2>4, <2>5
<1>4. SoundSender(conv, q, x)
  BY <1>1, <1>2, <1>3 DEF SoundSender
<1> QED
  BY <1>1, <1>4 DEF q

\* What a write adds to the input: the next bytes of the stream, as many as fit.
LEMMA WriteIsSound ==
  ASSUME NEW conv, NEW w, NEW s, SoundSender(conv, s, w), NEW n \in Nat, w + n <= Len(conv.stream)
  PROVE  LET data == SubSeq(conv.stream, w + 1, w + n)
             q == [s EXCEPT !.input = Push(s.input, data)]
         IN  /\ SoundSender(conv, q, w + Len(Accepted(s.input, data)))
             /\ q.next_seqno = s.next_seqno
<1> DEFINE data == SubSeq(conv.stream, w + 1, w + n)
           bs == s.input
           added == Accepted(bs, data)
           len == Len(added)
           b == Len(bs.buffer)
           input == Push(bs, data)
<1>1. /\ bs \in ByteStreams(Bytes(conv)) /\ bs.buffer \in Seq(Bytes(conv)) /\ b \in Nat
      /\ bs.bytes_popped \in Nat /\ bs.bytes_pushed \in Nat /\ bs.capacity \in Nat
      /\ Len(conv.stream) \in Nat /\ w \in Nat /\ w <= Len(conv.stream)
      /\ bs.capacity = conv.capacity /\ b <= conv.capacity
      /\ bs.bytes_pushed = bs.bytes_popped + b /\ bs.bytes_popped + b = w
      /\ \A i \in 1 .. b : bs.buffer[i] = conv.stream[bs.bytes_popped + i]
  BY InputIsTyped DEF SoundSender, HoldsTheRest
<1> HIDE DEF bs, b
<1>2. /\ data \in Seq(Bytes(conv)) /\ Len(data) = n
      /\ \A i \in 1 .. n : data[i] = conv.stream[w + i]
  <2> DEFINE first == w + 1
             last == w + n
             d == SubSeq(conv.stream, first, last)
  <2>1. /\ first \in Int /\ last \in Int /\ last - first + 1 = n
        /\ \A i \in 1 .. n : first + i - 1 = w + i
        /\ (IF first <= last THEN last - first + 1 ELSE 0) = n
    BY <1>1
  <2>2. \A i \in first .. last : conv.stream[i] \in Bytes(conv)
    <3>1. \A i \in 1 .. Len(conv.stream) : conv.stream[i] \in Bytes(conv)
      BY ElementOfSeq DEF SoundSender, IsConversation
    <3> QED
      BY <1>1, <3>1
  <2> HIDE DEF first, last
  <2>3. /\ d \in Seq(Bytes(conv))
        /\ Len(d) = IF first <= last THEN last - first + 1 ELSE 0
        /\ \A i \in 1 .. last - first + 1 : d[i] = conv.stream[first + i - 1]
    BY <2>1, <2>2, SubSeqProperties
  <2> HIDE DEF d
  <2>4. d \in Seq(Bytes(conv)) /\ Len(d) = n /\ \A i \in 1 .. n : d[i] = conv.stream[w + i]
    BY <2>1, <2>3
  <2> QED
    BY <2>4 DEF d, first, last
<1> HIDE DEF data
<1>3. /\ added \in Seq(Bytes(conv)) /\ len \in Nat /\ len <= n /\ b + len <= conv.capacity
      /\ \A i \in 1 .. len : added[i] = conv.stream[w + i]
      /\ bs.is_closed => added = << >>
  <2>1. CASE bs.is_closed \/ bs.error
    <3>1. added = << >>
      BY <2>1, Zenon DEF Accepted
    <3> QED
      BY <1>1, <3>1, EmptySeq
  <2>2. CASE ~(bs.is_closed \/ bs.error)
    <3> DEFINE k == MinOf(Len(data), AvailableCapacity(bs))
    <3>1. added = Take(data, k)
      BY <2>2, Zenon DEF Accepted
    <3>2. AvailableCapacity(bs) = conv.capacity - b
      BY <1>1 DEF AvailableCapacity
    <3>3. k \in 0 .. Len(data) /\ k <= n /\ b + k <= conv.capacity
      BY <1>1, <1>2, <3>2 DEF MinOf
    <3> HIDE DEF k
    <3>4. /\ Take(data, k) \in Seq(Bytes(conv)) /\ Len(Take(data, k)) = k
          /\ \A i \in 1 .. k : Take(data, k)[i] = data[i]
      BY <1>2, <3>3, Parts, Zenon
    <3> QED
      BY <1>2, <2>2, <3>1, <3>3, <3>4
  <2> QED
    BY <2>1, <2>2
<1> DEFINE buffer == bs.buffer \o added
           pushed == bs.bytes_pushed + len
<1>4. input = [bs EXCEPT !.buffer = buffer, !.bytes_pushed = pushed]
  BY DEF Push
<1> HIDE DEF added, len
<1>5. /\ buffer \in Seq(Bytes(conv)) /\ Len(buffer) = b + len
      /\ \A i \in 1 .. b + len : buffer[i] = IF i <= b THEN bs.buffer[i] ELSE added[i - b]
  <2>1. /\ buffer \in Seq(Bytes(conv)) /\ Len(buffer) = Len(bs.buffer) + Len(added)
        /\ \A i \in 1 .. Len(bs.buffer) + Len(added) :
             buffer[i] = IF i <= Len(bs.buffer) THEN bs.buffer[i] ELSE added[i - Len(bs.buffer)]
    BY <1>1, <1>3, ConcatProperties
  <2> QED
    BY <2>1, Zenon DEF b, len
<1>6. pushed \in Nat
  BY <1>1, <1>3
<1>7. bs.buffer = << >> /\ added = << >> => buffer = << >>
  BY <1>1, ConcatEmptySeq
<1> HIDE DEF input, buffer, pushed
<1>8. /\ input \in ByteStreams(Bytes(conv)) /\ input.buffer = buffer /\ input.bytes_pushed = pushed
      /\ input.bytes_popped = bs.bytes_popped /\ input.capacity = bs.capacity
      /\ input.is_closed = bs.is_closed
  BY <1>1, <1>4, <1>5, <1>6 DEF ByteStreams
<1> DEFINE q == [s EXCEPT !.input = input]
           x == w + len
<1>9. HoldsTheRest(conv, q, x)
  <2>a. /\ b \in Nat /\ len \in Nat /\ bs.bytes_popped \in Nat
        /\ bs.bytes_popped + b = w /\ pushed = (bs.bytes_popped + b) + len
    BY <1>1, <1>3 DEF pushed
  <2>1. q.input = input
    BY DEF SoundSender, Senders
  <2>2. \A i \in 1 .. b + len : buffer[i] = conv.stream[bs.bytes_popped + i]
    <3> TAKE i \in 1 .. b + len
    <3>1. CASE i <= b
      <4>1. i \in 1 .. b
        BY <1>1, <3>1
      <4> QED
        BY <1>1, <1>5, <3>1, <4>1
    <3>2. CASE ~(i <= b)
      <4>1. i - b \in 1 .. len /\ w + (i - b) = bs.bytes_popped + i
        BY <2>a, <3>2
      <4> QED
        BY <1>3, <1>5, <3>2, <4>1
    <3> QED
      BY <3>1, <3>2
  <2>3. pushed = bs.bytes_popped + (b + len) /\ bs.bytes_popped + (b + len) = x
    BY <2>a DEF x
  <2> HIDE DEF q, x
  <2> QED
    BY <1>1, <1>3, <1>5, <1>8, <2>1, <2>2, <2>3 DEF HoldsTheRest
<1>10. x \in 0 .. Len(conv.stream)
  BY <1>1, <1>3
<1>11. s.fin_sent => input.is_closed /\ input.buffer = << >>
  <2>1. s.fin_sent => bs.is_closed /\ bs.buffer = << >>
    BY DEF SoundSender, CountsSent, bs
  <2> QED
    BY <1>3, <1>7, <1>8, <2>1
<1> HIDE DEF x
<1>12. SoundSender(conv, q, x) /\ q.next_seqno = s.next_seqno
  <2>1. input.bytes_popped = s.input.bytes_popped
    BY <1>8 DEF bs
  <2> QED
    BY <1>8, <1>9, <1>10, <1>11, <2>1, InputChanges
<1> QED
  BY <1>12, Zenon DEF x, len, added, data, bs, input

LEMMA CloseIsSound ==
  ASSUME NEW conv, NEW w, NEW s, SoundSender(conv, s, w)
  PROVE  LET q == [s EXCEPT !.input = Close(s.input)]
         IN  SoundSender(conv, q, w) /\ q.next_seqno = s.next_seqno
<1> DEFINE input == Close(s.input)
           q == [s EXCEPT !.input = input]
<1>1. /\ input \in ByteStreams(Bytes(conv)) /\ input.is_closed
      /\ input.capacity = s.input.capacity /\ input.buffer = s.input.buffer
      /\ input.bytes_pushed = s.input.bytes_pushed /\ input.bytes_popped = s.input.bytes_popped
  <2>1. s.input \in ByteStreams(Bytes(conv))
    BY InputIsTyped, Zenon
  <2> QED
    BY <2>1 DEF Close, ByteStreams
<1> HIDE DEF input
<1>2. HoldsTheRest(conv, q, w)
  <2>1. q.input = input
    BY DEF SoundSender, Senders
  <2> HIDE DEF q
  <2> QED
    BY <1>1, <2>1 DEF SoundSender, HoldsTheRest
<1>3. w \in 0 .. Len(conv.stream) /\ (s.fin_sent => input.is_closed /\ input.buffer = << >>)
  BY <1>1 DEF SoundSender, CountsSent
<1>4. SoundSender(conv, q, w) /\ q.next_seqno = s.next_seqno
  BY <1>1, <1>2, <1>3, InputChanges
<1> QED
  BY <1>4, Zenon DEF input

-----------------------------------------------------------------------------
(* The inductive invariant *)

LEMMA NothingOnTheWire ==
  ASSUME NEW s, NEW sent, sent = << >>
  PROVE  Carried(sent, s)
BY EmptySeq DEF Carried

\* The constructor (tcp_sender.hh:14-18).
LEMMA PushOnTheWire ==
  ASSUME NEW conv, NEW w, NEW s, SoundSender(conv, s, w)
  PROVE  Carried(PushSends(s), SenderPush(s))
<1> DEFINE sent == PushSends(s)
           q == SenderPush(s)
<1>1. CASE s.fin_sent
  <2>1. sent = << >>
    BY <1>1, Zenon DEF PushSends
  <2> HIDE DEF sent, q
  <2> QED
    BY <2>1, NothingOnTheWire DEF sent, q
<1>2. CASE ~s.fin_sent /\ s.input.error
  <2> DEFINE m == EmptyMessage(s)
  <2>1. sent = << m >>
    BY <1>2, Zenon DEF PushSends
  <2>2. m.RST
    BY <1>2 DEF EmptyMessage, SenderMessage
  <2> HIDE DEF m, sent
  <2>3. \A i \in 1 .. Len(sent) : sent[i] = m
    BY <2>1
  <2>4. q.input.error
    BY <1>2, Zenon DEF SenderPush
  <2> HIDE DEF q
  <2> QED
    BY <2>2, <2>3, <2>4 DEF sent, q, Carried
<1>3. CASE ~s.fin_sent /\ ~s.input.error
  <2> DEFINE n == Len(s.outstanding)
             all == q.outstanding
             added == Drop(all, n)
  <2>1. /\ SoundSender(conv, q, w) /\ Pushed(s, q)
    BY PushIsSound, Zenon
  <2>2. sent = [i \in 1 .. Len(added) |-> added[i].msg]
    BY <1>3, Zenon DEF PushSends
  <2>3. /\ all \in Seq(OutSegments(conv)) /\ Len(all) \in Nat /\ n \in Nat /\ n <= Len(all)
    <3>1. all \in Seq(OutSegments(conv)) /\ Len(all) \in Nat /\ n \in Nat
      BY <2>1, SenderIsTyped, Zenon
    <3> QED
      BY <2>1, <3>1 DEF Pushed
  <2> HIDE DEF q, n, all
  <2>4. n \in 0 .. Len(all)
    BY <2>3
  <2>5. /\ added \in Seq(OutSegments(conv)) /\ Len(added) = Len(all) - n
        /\ \A i \in 1 .. Len(all) - n : added[i] = all[n + i]
    BY <2>3, <2>4, Parts, Zenon
  <2> HIDE DEF sent, added
  <2>6. Len(sent) = Len(all) - n /\ \A i \in 1 .. Len(sent) : sent[i] = all[n + i].msg
    <3>1. Len(all) - n \in Nat
      BY <2>4, <2>3
    <3>2. sent \in [1 .. Len(all) - n -> { added[i].msg : i \in 1 .. Len(all) - n }]
      BY <2>2, <2>5
    <3>3. Len(sent) = Len(all) - n
      BY <3>1, <3>2, FunctionIsSeq
    <3> QED
      BY <2>2, <2>5, <3>3
  <2>7. \A i \in 1 .. Len(sent) : n + i \in 1 .. Len(all)
    BY <2>3, <2>6
  <2>8. \A i \in 1 .. Len(sent) : \E j \in 1 .. Len(all) : sent[i] = all[j].msg
    BY <2>6, <2>7
  <2> QED
    BY <2>8, Zenon DEF sent, all, q, Carried
<1> QED
  BY <1>1, <1>2, <1>3

\* What tick sends again is still outstanding.
LEMMA TickOnTheWire ==
  ASSUME NEW conv, NEW w, NEW s, SoundSender(conv, s, w), NEW ms \in Nat
  PROVE  Carried(TickSends(s, ms), SenderTick(s, ms))
<1> DEFINE sent == TickSends(s, ms)
           q == SenderTick(s, ms)
<1>1. CASE ~Expires(s, ms)
  <2>1. sent = << >>
    BY <1>1, Zenon DEF TickSends
  <2> HIDE DEF sent, q
  <2> QED
    BY <2>1, NothingOnTheWire DEF sent, q
<1>2. CASE Expires(s, ms)
  <2> DEFINE out == s.outstanding
             m == Head(out).msg
  <2>1. sent = << m >>
    BY <1>2, Zenon DEF TickSends
  <2>2. out \in Seq(OutSegments(conv)) /\ Len(out) \in Nat /\ out # << >>
    <3>1. out \in Seq(OutSegments(conv)) /\ Len(out) \in Nat
      BY SenderIsTyped, Zenon
    <3> QED
      BY <1>2, <3>1 DEF Expires
  <2>3. 1 \in 1 .. Len(out) /\ Head(out) = out[1]
    <3>1. Len(out) # 0
      BY <2>2, EmptySeq
    <3> QED
      BY <2>2, <3>1, HeadTailProperties
  <2>4. /\ Len(q.outstanding) = Len(out)
        /\ \A i \in 1 .. Len(out) : q.outstanding[i].msg = out[i].msg
    BY TickIsSound DEF Alike
  <2> HIDE DEF q, out
  <2>5. 1 \in 1 .. Len(q.outstanding) /\ m = q.outstanding[1].msg
    BY <2>3, <2>4
  <2> HIDE DEF m, sent
  <2>6. \A i \in 1 .. Len(sent) : sent[i] = m
    BY <2>1
  <2> QED
    BY <2>5, <2>6 DEF sent, q, Carried
<1> QED
  BY <1>1, <1>2

\* Every step keeps the sender sound, and numbers are used up by push alone.

\* The constructor (tcp_sender.hh:14-18).
LEMMA NewSenderIsSound ==
  ASSUME NEW conv, IsConversation(conv), NEW rto \in Nat
  PROVE  LET s == NewSender(conv.capacity, conv.isn, rto)
         IN  /\ SoundSender(conv, s, 0) /\ s.input = NewByteStream(conv.capacity)
             /\ s.bytes_in_flight = 0 /\ s.next_seqno = 0 /\ s.outstanding = << >>
             /\ ~s.syn_sent /\ ~s.fin_sent /\ s.window_size = 1
<1> DEFINE s == NewSender(conv.capacity, conv.isn, rto)
           bs == NewByteStream(conv.capacity)
<1>1. /\ Len(conv.stream) \in Nat /\ conv.capacity \in Nat
      /\ << >> \in Seq(Bytes(conv)) /\ << >> \in Seq(OutSegments(conv)) /\ Len(<< >>) = 0
  BY LenProperties, EmptySeq DEF IsConversation
<1>2. s = [ input |-> bs, isn |-> conv.isn, initial_RTO |-> rto,
            current_RTO |-> rto, window_size |-> 1, bytes_in_flight |-> 0,
            next_seqno |-> 0, time_running |-> FALSE, consecutive_retransmissions |-> 0,
            syn_sent |-> FALSE, fin_sent |-> FALSE, outstanding |-> << >> ]
  BY DEF NewSender
<1>3. /\ bs \in ByteStreams(Bytes(conv)) /\ bs.capacity = conv.capacity /\ bs.buffer = << >>
      /\ bs.bytes_pushed = 0 /\ bs.bytes_popped = 0
  BY <1>1 DEF NewByteStream, ByteStreams
<1> HIDE DEF bs, s
<1>4. s \in Senders(conv)
  BY <1>1, <1>2, <1>3 DEF Senders
<1>5. /\ s.input = bs /\ s.bytes_in_flight = 0 /\ s.next_seqno = 0 /\ s.outstanding = << >>
      /\ ~s.syn_sent /\ ~s.fin_sent /\ s.window_size = 1
  BY <1>2
<1>6. HoldsTheRest(conv, s, 0)
  BY <1>1, <1>3, <1>5 DEF HoldsTheRest
<1>7. CountsSent(s)
  BY <1>3, <1>5 DEF CountsSent, Count
<1>8. InARow(s) /\ AllTrue(conv, s) /\ Timed(s)
  BY <1>1, <1>5 DEF InARow, AllTrue, Timed
<1>9. SoundSender(conv, s, 0)
  BY <1>1, <1>4, <1>6, <1>7, <1>8 DEF SoundSender
<1> QED
  BY <1>5, <1>9 DEF s, bs
=============================================================================
