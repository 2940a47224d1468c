-------------------------- MODULE TCPReceiverProofs --------------------------
(***************************************************************************)
(* For every stream, initial sequence number and capacity and all segments *)
(* in any order, repeated, overlapping or empty, with a reset at any time: *)
(* the output is the stream from its beginning, of which the reader is     *)
(* given each byte once until a reset and only the rest of the buffer      *)
(* after it; acknowledgments say what was received, and nothing said to    *)
(* the sender is taken back.                                               *)
(*                                                                         *)
(* To the Reassembler the SYN is byte 0, which it is never given: the      *)
(* proofs see it as fed with Marked, the stream behind a mark, of which    *)
(* the mark was read as soon as the SYN came.                              *)
(***************************************************************************)
EXTENDS TCPReceiver, ValueLemmas

\* What the theorems need of the segments.  A repeated SYN segment is inserted
\* one index early, where its payload must be old and its FIN cannot end the
\* stream: it carries at most one byte, and not the whole stream.
HarmlessSyns == \A n \in SynPayloads : n = 0 \/ (n = 1 /\ Length > 1)

\* Every index is within half a period of every other, so that unwrapping
\* finds the one that was meant, however late a segment comes.
WithinHalfPeriod == 2 * (Length + 1) < Modulus

Mark == << Isn >>
Marked == Mark \o Stream

HasFields(r) ==
  r = [ output |-> r.output, segments |-> r.segments, next_index |-> r.next_index,
        bytes_pending |-> r.bytes_pending, eof_flag |-> r.eof_flag,
        eof_index |-> r.eof_index ]

\* A reassembler whose output is broken.
IsBroken(r) ==
  /\ HasFields(r)
  /\ r.output \in ByteStreams(ToSet(Marked)) /\ r.output.error

\* Nothing is written to a broken output, which may still be closed.
StaysBroken(r, q) == IsBroken(q) /\ q.output \in {r.output, Close(r.output)}

\* The fields of the receiver: isn_ is there once the SYN was received.
Fields(tr) ==
  /\ tr \in [ reassembler : {tr.reassembler}, syn_received : BOOLEAN, isn : {None, Some(Isn)} ]
  /\ tr.syn_received = (tr.isn # None)

\* Index 0 is passed, what the reader got is the stream up to the next index.
GoodAfterSyn(q, read) ==
  /\ Sound(Marked, q, Mark \o read) /\ AllWait(q) /\ q.output.bytes_popped = Len(read)

Listening == /\ receiver.isn = None
             /\ receiver.reassembler = NewReassembler(Capacity)
             /\ consumed = << >>
Receiving == /\ receiver.isn = Some(Isn)
             /\ GoodAfterSyn(receiver.reassembler, consumed)
\* The bytes popped, which were read first, and the buffer are the beginning of
\* the stream; what else was read is in the buffer still.
ReadIsTrue(read, bs) ==
  /\ bs.bytes_popped <= Len(read)
  /\ IsSlice(Stream, Take(read, bs.bytes_popped) \o bs.buffer, 0)
  /\ \A x \in ToSet(Drop(read, bs.bytes_popped)) : x \in ToSet(bs.buffer)
\* A reset came: what was written stays, and the buffer may be read repeatedly.
Broken == /\ IsBroken(receiver.reassembler)
          /\ ReadIsTrue(consumed, Inbound(receiver))

IInv == /\ consumed \in Seq(ToSet(Stream))
        /\ Fields(receiver)
        /\ Listening \/ Receiving \/ Broken

-----------------------------------------------------------------------------
(* What was read *)

\* A sequence cut behind its end is the sequence.
LEMMA CutAtEnd ==
  ASSUME NEW S, NEW s \in Seq(S)
  PROVE  Take(s, Len(s)) = s /\ Drop(s, Len(s)) = << >> /\ Len(s) \in Nat
<1>1. Len(s) \in Nat /\ Len(s) \in 0 .. Len(s) /\ Len(s) - Len(s) = 0
  BY LenProperties
<1>2. /\ Take(s, Len(s)) \in Seq(S) /\ Drop(s, Len(s)) \in Seq(S)
      /\ Len(Drop(s, Len(s))) = 0 /\ Take(s, Len(s)) \o Drop(s, Len(s)) = s
  BY <1>1, Cut
<1>3. Drop(s, Len(s)) = << >>
  BY <1>2, EmptySeq
<1> QED
  BY <1>1, <1>2, <1>3, ConcatEmptySeq

\* Where a sequence is cut does not depend on what is appended to it.
LEMMA CutOfLonger ==
  ASSUME NEW S, NEW s \in Seq(S), NEW t \in Seq(S), NEW n \in 0 .. Len(s)
  PROVE  /\ Take(s \o t, n) = Take(s, n)
         /\ \A x \in ToSet(Drop(s \o t, n)) : x \in ToSet(Drop(s, n)) \/ x \in ToSet(t)
<1> DEFINE c == s \o t
           k == Len(s)
           m == Len(t)
<1>1. /\ c \in Seq(S) /\ Len(c) = k + m /\ k \in Nat /\ m \in Nat /\ n \in Nat /\ n <= k
      /\ \A i \in 1 .. k + m : c[i] = IF i <= k THEN s[i] ELSE t[i - k]
  BY ConcatProperties, LenProperties
<1> HIDE DEF c
<1>2. /\ Take(c, n) \in Seq(S) /\ Len(Take(c, n)) = n
      /\ Drop(c, n) \in Seq(S) /\ Len(Drop(c, n)) = (k + m) - n
      /\ \A i \in 1 .. n : Take(c, n)[i] = c[i]
      /\ \A i \in 1 .. (k + m) - n : Drop(c, n)[i] = c[n + i]
  <2>1. n \in 0 .. Len(c)
    BY <1>1
  <2>2. /\ Take(c, n) \in Seq(S) /\ Len(Take(c, n)) = n
        /\ Drop(c, n) \in Seq(S) /\ Len(Drop(c, n)) = Len(c) - n
        /\ \A i \in 1 .. n : Take(c, n)[i] = c[i]
        /\ \A i \in 1 .. Len(c) - n : Drop(c, n)[i] = c[n + i]
    BY <1>1, <2>1, Parts, Zenon
  <2>3. Len(c) - n = (k + m) - n
    BY <1>1
  <2> HIDE DEF k, m
  <2> QED
    BY <2>2, <2>3
<1>3. /\ Take(s, n) \in Seq(S) /\ Len(Take(s, n)) = n
      /\ Drop(s, n) \in Seq(S) /\ Len(Drop(s, n)) = k - n
      /\ \A i \in 1 .. n : Take(s, n)[i] = s[i]
      /\ \A i \in 1 .. k - n : Drop(s, n)[i] = s[n + i]
  BY Parts
<1> HIDE DEF k, m
<1>4. Take(c, n) = Take(s, n)
  <2>1. ASSUME NEW i \in 1 .. n PROVE Take(c, n)[i] = Take(s, n)[i]
    <3>1. i \in 1 .. k + m /\ i <= k
      BY <1>1
    <3>2. c[i] = s[i]
      BY <1>1, <3>1
    <3> QED
      BY <1>2, <1>3, <3>2
  <2> QED
    BY <1>2, <1>3, <2>1, SeqEqual
<1>5. /\ \A i \in 1 .. k - n : Drop(s, n)[i] \in ToSet(Drop(s, n))
      /\ \A i \in 1 .. m : t[i] \in ToSet(t)
  BY <1>3, LenProperties DEF ToSet, m
<1>6. ASSUME NEW x \in ToSet(Drop(c, n))
      PROVE  x \in ToSet(Drop(s, n)) \/ x \in ToSet(t)
  <2>1. PICK i \in 1 .. (k + m) - n : x = Drop(c, n)[i]
    <3>1. DOMAIN Drop(c, n) = 1 .. (k + m) - n
      BY <1>2, LenProperties
    <3> QED
      BY <3>1 DEF ToSet
  <2>2. x = IF n + i <= k THEN s[n + i] ELSE t[n + i - k]
    BY <1>1, <1>2, <2>1
  <2>3. CASE n + i <= k
    <3>1. i \in 1 .. k - n
      BY <1>1, <2>1, <2>3
    <3> QED
      BY <1>3, <1>5, <2>2, <2>3, <3>1
  <2>4. CASE ~(n + i <= k)
    <3>1. n + i - k \in 1 .. m
      BY <1>1, <2>1, <2>4
    <3> QED
      BY <1>5, <2>2, <2>4, <3>1
  <2> QED
    BY <2>3, <2>4
<1> QED
  BY <1>4, <1>6 DEF c

\* Before an error read() hands out what it pops.
LEMMA ReadIsPop ==
  ASSUME NEW S, NEW bs \in ByteStreams(S), ~bs.error, NEW len \in Nat
  PROVE  ReadBytes(bs, len) = Take(bs.buffer, Removed(bs, len))
<1>1. bs.buffer \in Seq(S) /\ Len(bs.buffer) \in Nat
  BY LenProperties DEF ByteStreams
<1>2. ReadBytes(bs, len) = Take(bs.buffer, MinOf(len, Len(bs.buffer)))
  BY DEF ReadBytes
<1>3. IsFinished(bs) => MinOf(len, Len(bs.buffer)) = 0
  BY <1>1, EmptySeq DEF IsFinished, MinOf
<1> QED
  BY <1>2, <1>3 DEF Removed

\* After an error it hands out nothing but what is in the buffer.
LEMMA ReadAfterError ==
  ASSUME NEW S, NEW bs \in ByteStreams(S), bs.error, NEW len \in Nat
  PROVE  /\ ReadBytes(bs, len) \in Seq(S)
         /\ \A x \in ToSet(ReadBytes(bs, len)) : x \in ToSet(bs.buffer)
<1> DEFINE b == bs.buffer
           read == ReadBytes(bs, len)
<1>1. /\ b \in Seq(S) /\ Len(b) \in Nat /\ \A i \in 1 .. Len(b) : b[i] \in S /\ b[i] \in ToSet(b)
      /\ b # << >> => Len(b) > 0
  <2>1. b \in Seq(S)
    BY DEF ByteStreams
  <2> HIDE DEF b
  <2>2. /\ Len(b) \in Nat /\ DOMAIN b = 1 .. Len(b) /\ \A i \in 1 .. Len(b) : b[i] \in S
    BY <2>1, LenProperties, ElementOfSeq
  <2>3. Len(b) = 0 => b = << >>
    BY <2>1, EmptySeq
  <2> QED
    BY <2>1, <2>2, <2>3 DEF ToSet
<1>2. CASE b # << >>
  <2>1. read = [i \in 1 .. len |-> b[((i - 1) % Len(b)) + 1]]
    BY <1>2 DEF ReadBytes
  <2> HIDE DEF b, read
  <2>2. \A i \in 1 .. len : ((i - 1) % Len(b)) + 1 \in 1 .. Len(b)
    <3> TAKE i \in 1 .. len
    <3>1. i - 1 \in Nat /\ Len(b) \in Nat \ {0}
      BY <1>1, <1>2
    <3>2. (i - 1) % Len(b) \in 0 .. Len(b) - 1
      BY <3>1, Division
    <3> QED
      BY <1>1, <3>2
  <2>3. read \in [1 .. len -> S] /\ \A i \in 1 .. len : read[i] \in ToSet(b)
    BY <1>1, <2>1, <2>2
  <2>4. read \in Seq(S) /\ DOMAIN read = 1 .. len
    BY <2>3, SeqDef
  <2> QED
    BY <2>3, <2>4 DEF ToSet, read, b
<1>3. CASE b = << >>
  <2>1. read = Take(b, 0) /\ Len(b) = 0
    BY <1>3, EmptySeq DEF ReadBytes, MinOf
  <2>2. 0 \in 0 .. Len(b)
    BY <1>1
  <2> HIDE DEF b, read
  <2>3. read \in Seq(S) /\ Len(read) = 0
    BY <1>1, <2>1, <2>2, Cut
  <2>4. read = << >>
    BY <2>3, EmptySeq
  <2> QED
    BY <1>1, <1>3, <2>3, <2>4 DEF read, b
<1> QED
  BY <1>2, <1>3

-----------------------------------------------------------------------------
(* The stream behind the mark *)

LEMMA StreamIsStream == IsStream(Stream) /\ Length \in Nat
BY StreamAssumption, SeqOfElements, LenProperties DEF IsStream, Length

LEMMA MarkedIsStream ==
  /\ IsStream(Marked) /\ Len(Marked) = Length + 1
  /\ Mark \in Seq(ToSet(Marked)) /\ Len(Mark) = 1
  /\ Marked[1] = Isn /\ Mark[1] = Isn
  /\ \A i \in 1 .. Length : Marked[i + 1] = Stream[i]
  /\ ToSet(Stream) \subseteq ToSet(Marked)
<1> DEFINE S == {Isn} \cup ToSet(Stream)
<1>1. Stream \in Seq(S) /\ Length \in Nat /\ Len(Stream) = Length
  <2>1. /\ Length \in Nat /\ Len(Stream) = Length /\ Stream = [i \in 1 .. Length |-> Stream[i]]
        /\ \A i \in 1 .. Length : Stream[i] \in ToSet(Stream)
    BY StreamIsStream, LenProperties, ElementOfSeq, SeqDef DEF IsStream, Length
  <2>2. Stream \in [1 .. Length -> S]
    BY <2>1
  <2> QED
    BY <2>1, <2>2, SeqDef, SMTT(30)
<1>2. Mark \in Seq(S) /\ Len(Mark) = 1 /\ Mark[1] = Isn
  BY DEF Mark
<1> HIDE DEF S
<1>3. /\ Marked \in Seq(S) /\ Len(Marked) = 1 + Length
      /\ \A i \in 1 .. 1 + Length : Marked[i] = IF i <= 1 THEN Mark[i] ELSE Stream[i - 1]
  <2>1. /\ Mark \o Stream \in Seq(S) /\ Len(Mark \o Stream) = Len(Mark) + Len(Stream)
        /\ \A i \in 1 .. Len(Mark) + Len(Stream) :
             (Mark \o Stream)[i] = IF i <= Len(Mark) THEN Mark[i] ELSE Stream[i - Len(Mark)]
    BY <1>1, <1>2, ConcatProperties
  <2> QED
    BY <1>1, <1>2, <2>1 DEF Marked
<1>4. /\ Marked \in Seq(ToSet(Marked)) /\ ToSet(Marked) = ToSet(Mark) \cup ToSet(Stream)
  BY <1>1, <1>2, <1>3, SeqOfElements, ElementsOfConcat DEF Marked
<1>5. \A i \in 1 .. Length : Marked[i + 1] = Stream[i]
  <2> TAKE i \in 1 .. Length
  <2>1. i + 1 \in 1 .. 1 + Length /\ ~(i + 1 <= 1) /\ (i + 1) - 1 = i
    BY <1>1
  <2> QED
    BY <1>3, <2>1
<1>6. Marked[1] = Isn
  BY <1>1, <1>2, <1>3
<1>7. Mark \in Seq(ToSet(Marked))
  <2>1. 1 \in 1 .. Len(Marked)
    BY <1>1, <1>3
  <2>2. Isn \in ToSet(Marked)
    BY <1>4, <1>6, <2>1, ElementOfSeq
  <2> QED
    BY <2>2 DEF Mark
<1> QED
  BY <1>1, <1>2, <1>3, <1>4, <1>5, <1>6, <1>7 DEF IsStream

\* A payload's first byte is one index further on behind the mark.
LEMMA PayloadIsSlice ==
  ASSUME NEW first \in Nat, NEW n \in Nat, first + n <= Length
  PROVE  LET s == SubSeq(Stream, first + 1, first + n)
         IN  IsSlice(Marked, s, first + 1) /\ Len(s) = n
<1> DEFINE s == SubSeq(Stream, first + 1, first + n)
<1>1. IsSlice(Stream, s, first) /\ Len(s) = n
  BY StreamIsStream, SliceIsSlice DEF Length
<1> HIDE DEF s
<1>2. /\ s \in Seq(ToSet(Stream)) /\ \A i \in 1 .. n : s[i] = Stream[first + i]
  BY <1>1 DEF IsSlice
<1>3. \A i \in 1 .. n : s[i] = Marked[first + 1 + i]
  <2> TAKE i \in 1 .. n
  <2>1. first + i \in 1 .. Length /\ (first + i) + 1 = first + 1 + i
    BY StreamIsStream
  <2> QED
    BY <1>2, <2>1, MarkedIsStream
<1>4. s \in [1 .. n -> ToSet(Marked)]
  <2>1. s = [i \in 1 .. n |-> s[i]] /\ \A i \in 1 .. n : s[i] \in ToSet(Stream)
    BY <1>1, <1>2, ElementOfSeq, SeqDef, LenProperties
  <2> QED
    BY <2>1, MarkedIsStream
<1>5. s \in Seq(ToSet(Marked))
  BY <1>4, SeqDef
<1>6. first + 1 + Len(s) <= Len(Marked)
  BY <1>1, MarkedIsStream, StreamIsStream
<1> QED
  BY <1>1, <1>3, <1>5, <1>6 DEF IsSlice, s

\* Whatever was received before, a sequence number means one index.
LEMMA UnwrapIsExact ==
  ASSUME WithinHalfPeriod, NEW absolute \in 0 .. Length + 1, NEW pushed \in 0 .. Length
  PROVE  Unwrap(Wrap(absolute, Isn), Isn, pushed) = absolute
<1>1. /\ Length \in Nat /\ Modulus \in Nat /\ Isn \in Wraps
      /\ absolute \in Nat /\ pushed \in Nat
  BY StreamIsStream, ModulusAssumption, IsnAssumption
<1>2. 2 * Distance(absolute, pushed) < Modulus
  BY <1>1 DEF WithinHalfPeriod, Distance
<1> QED
  BY <1>1, <1>2, RoundTrip

\* What is the marked stream behind the mark is the stream.
LEMMA BehindTheMark ==
  ASSUME NEW s \in Seq(ToSet(Stream)), NEW t \in Seq(ToSet(Marked)),
         IsSlice(Marked, (Mark \o s) \o t, 0)
  PROVE  IsSlice(Stream, s \o t, 0) /\ Mark \o s \in Seq(ToSet(Marked))
         /\ Len(Mark \o s) = 1 + Len(s) /\ Len(s \o t) = Len(s) + Len(t)
<1> DEFINE S == ToSet(Marked)
           c == s \o t
<1>1. Mark \in Seq(S) /\ Len(Mark) = 1 /\ Length \in Nat /\ Len(Marked) = Length + 1
  BY MarkedIsStream, StreamIsStream
<1>2. s \in Seq(S) /\ Len(s) \in Nat /\ Len(t) \in Nat
  <2>1. /\ Len(s) \in Nat /\ Len(t) \in Nat /\ s = [i \in 1 .. Len(s) |-> s[i]]
        /\ \A i \in 1 .. Len(s) : s[i] \in ToSet(Stream)
    BY LenProperties, ElementOfSeq, SeqDef
  <2>2. s \in [1 .. Len(s) -> S]
    BY <2>1, MarkedIsStream
  <2> QED
    BY <2>1, <2>2, SeqDef
<1> HIDE DEF S
<1>3. c \in Seq(S) /\ Len(c) = Len(s) + Len(t) /\ Mark \o s \in Seq(S) /\ Len(Mark \o s) = 1 + Len(s)
  <2>1. Mark \in Seq(S)
    BY <1>1 DEF S
  <2>2. s \o t \in Seq(S) /\ Len(s \o t) = Len(s) + Len(t)
    BY <1>2, ConcatProperties DEF S
  <2>3. Mark \o s \in Seq(S) /\ Len(Mark \o s) = Len(Mark) + Len(s)
    BY <1>2, <2>1, ConcatProperties
  <2> QED
    BY <1>1, <2>2, <2>3
<1>4. (Mark \o s) \o t = Mark \o c
  <2>1. \A x, y, z \in Seq(S) : (x \o y) \o z = x \o (y \o z)
    BY Associates, SMTT(60)
  <2> QED
    BY <1>1, <1>2, <2>1, Zenon DEF S
<1> HIDE DEF c
<1>5. /\ Len(Mark \o c) = 1 + Len(c)
      /\ \A i \in 1 .. 1 + Len(c) : (Mark \o c)[i] = IF i <= 1 THEN Mark[i] ELSE c[i - 1]
  BY <1>1, <1>3, ConcatProperties
<1>6. /\ 1 + Len(c) <= Length + 1
      /\ \A i \in 1 .. 1 + Len(c) : (Mark \o c)[i] = Marked[0 + i]
  <2>1. /\ 0 + Len((Mark \o s) \o t) <= Len(Marked)
        /\ \A i \in 1 .. Len((Mark \o s) \o t) : ((Mark \o s) \o t)[i] = Marked[0 + i]
    BY DEF IsSlice
  <2>2. /\ 0 + Len(Mark \o c) <= Len(Marked)
        /\ \A i \in 1 .. Len(Mark \o c) : (Mark \o c)[i] = Marked[0 + i]
    BY <1>4, <2>1, Zenon
  <2> QED
    BY <1>1, <1>2, <1>3, <1>5, <2>2
<1>7. \A i \in 1 .. Len(c) : c[i] = Stream[i]
  <2> TAKE i \in 1 .. Len(c)
  <2>1. Len(c) \in Nat /\ i \in 1 .. Length /\ i + 1 \in 1 .. 1 + Len(c) /\ ~(i + 1 <= 1)
        /\ (i + 1) - 1 = i /\ 0 + (i + 1) = i + 1
    BY <1>1, <1>2, <1>3, <1>6
  <2> QED
    BY <1>5, <1>6, <2>1, MarkedIsStream
<1>8. c \in Seq(ToSet(Stream))
  <2>1. Len(c) \in Nat /\ c = [i \in 1 .. Len(c) |-> c[i]]
    BY <1>3, LenProperties, SeqDef
  <2>2. \A i \in 1 .. Len(c) : i \in 1 .. Length
    BY <1>1, <1>6, <2>1
  <2>3. \A i \in 1 .. Length : Stream[i] \in ToSet(Stream)
    BY StreamIsStream, ElementOfSeq DEF IsStream, Length
  <2>4. c \in [1 .. Len(c) -> ToSet(Stream)]
    BY <1>7, <2>1, <2>2, <2>3
  <2> QED
    BY <2>1, <2>4, SeqDef
<1>9. 0 + Len(c) <= Len(Stream) /\ \A i \in 1 .. Len(c) : c[i] = Stream[0 + i]
  BY <1>1, <1>2, <1>3, <1>6, <1>7 DEF Length
<1> QED
  BY <1>3, <1>8, <1>9 DEF IsSlice, c, S

-----------------------------------------------------------------------------
(* After a reset *)

LEMMA BrokenPush ==
  ASSUME NEW bs \in ByteStreams(ToSet(Marked)), bs.error, NEW data
  PROVE  Push(bs, data) = bs
<1>1. Accepted(bs, data) = << >>
  BY DEF Accepted
<1>2. bs.buffer \in Seq(ToSet(Marked)) /\ bs.bytes_pushed \in Nat
  BY DEF ByteStreams
<1>3. bs.buffer \o << >> = bs.buffer /\ bs.bytes_pushed + Len(<< >>) = bs.bytes_pushed
  BY <1>2, ConcatEmptySeq, EmptySeq
<1>4. Push(bs, data) = [bs EXCEPT !.buffer = bs.buffer, !.bytes_pushed = bs.bytes_pushed]
  BY <1>1, <1>3 DEF Push
<1> QED
  BY <1>4 DEF ByteStreams

LEMMA BrokenClose ==
  ASSUME NEW bs \in ByteStreams(ToSet(Marked)), bs.error
  PROVE  /\ Close(bs) \in ByteStreams(ToSet(Marked)) /\ Close(bs).error
         /\ Close(Close(bs)) = Close(bs)
         /\ Close(bs).buffer = bs.buffer /\ Close(bs).is_closed
         /\ Close(bs).bytes_pushed = bs.bytes_pushed /\ Close(bs).bytes_popped = bs.bytes_popped
         /\ Close(bs).capacity = bs.capacity
<1>1. Close(bs) \in ByteStreams(ToSet(Marked))
  BY Zenon DEF Close, ByteStreams
<1> QED
  BY <1>1 DEF Close, ByteStreams

LEMMA StaysBrokenTwice ==
  ASSUME NEW r, NEW p, NEW q, IsBroken(r), StaysBroken(r, p), StaysBroken(p, q)
  PROVE  StaysBroken(r, q)
BY BrokenClose DEF StaysBroken, IsBroken

LEMMA BrokenNoteEof ==
  ASSUME NEW r, IsBroken(r), NEW first, NEW data, NEW last \in BOOLEAN
  PROVE  StaysBroken(r, NoteEof(r, first, data, last))
<1> DEFINE end == first + Len(data)
           q == [r EXCEPT !.eof_flag = TRUE, !.eof_index = end]
<1> HIDE DEF end
<1>1. StaysBroken(r, q)
  <2>1. q = [r EXCEPT !.eof_flag = TRUE, !.eof_index = end]
    OBVIOUS
  <2> HIDE DEF q
  <2> QED
    BY <2>1 DEF HasFields, IsBroken, StaysBroken
<1>2. NoteEof(r, first, data, last) = IF last THEN q ELSE r
  BY DEF NoteEof, end
<1> QED
  BY <1>1, <1>2 DEF StaysBroken

LEMMA BrokenPushOutput ==
  ASSUME NEW r, IsBroken(r), NEW data
  PROVE  StaysBroken(r, PushOutput(r, data))
<1> DEFINE pushed == Take(data, MinOf(Len(data), AvailableCapacity(r.output)))
           bs == Push(r.output, pushed)
           next == r.next_index + Len(pushed)
           q == PushOutput(r, data)
<1>1. q = [r EXCEPT !.output = bs, !.next_index = next]
  BY DEF PushOutput
<1> HIDE DEF q, next, pushed
<1>2. bs = r.output
  BY BrokenPush DEF IsBroken
<1> HIDE DEF bs
<1>3. StaysBroken(r, q)
  BY <1>1, <1>2 DEF HasFields, IsBroken, StaysBroken
<1> QED
  BY <1>3 DEF q

LEMMA BrokenTryAssemble ==
  ASSUME NEW r, IsBroken(r)
  PROVE  StaysBroken(r, TryAssemble(r))
<1> DEFINE next == Frontier(r)
           used == { k \in DOMAIN r.segments : k <= next }
           data == [i \in 1 .. next - r.next_index |-> StoredByte(r, r.next_index + i - 1)]
           bs == Push(r.output, data)
           segs == Without(r.segments, used)
           pending == r.bytes_pending - SizeOf(r.segments, used)
           q == TryAssemble(r)
<1>1. q = [r EXCEPT !.output = bs, !.segments = segs, !.next_index = next,
                    !.bytes_pending = pending]
  BY DEF TryAssemble
<1> HIDE DEF q, next, data, segs, pending
<1>2. bs = r.output
  BY BrokenPush DEF IsBroken
<1> HIDE DEF bs
<1>3. StaysBroken(r, q)
  BY <1>1, <1>2 DEF HasFields, IsBroken, StaysBroken
<1> QED
  BY <1>3 DEF q

LEMMA BrokenStoreAt ==
  ASSUME NEW r, IsBroken(r), NEW at, NEW data
  PROVE  StaysBroken(r, StoreAt(r, at, data))
<1> DEFINE segs == With(r.segments, at, data)
           pending == r.bytes_pending + Len(data)
           q == StoreAt(r, at, data)
<1>1. q = [r EXCEPT !.segments = segs, !.bytes_pending = pending]
  BY DEF StoreAt
<1> HIDE DEF q, segs, pending
<1>2. StaysBroken(r, q)
  BY <1>1 DEF HasFields, IsBroken, StaysBroken
<1> QED
  BY <1>2 DEF q

LEMMA BrokenStoreSegment ==
  ASSUME NEW r, IsBroken(r), NEW first, NEW data
  PROVE  StaysBroken(r, StoreSegment(r, first, data))
<1> DEFINE K == Overlapping(r.segments, first, data)
           left == Without(r.segments, K)
           pending == r.bytes_pending - SizeOf(r.segments, K)
           rest == [r EXCEPT !.segments = left, !.bytes_pending = pending]
<1>1. StaysBroken(r, r)
  BY DEF StaysBroken
<1>2. StaysBroken(r, rest) /\ IsBroken(rest)
  <2>1. rest = [r EXCEPT !.segments = left, !.bytes_pending = pending]
    OBVIOUS
  <2> HIDE DEF rest, left, pending
  <2> QED
    BY <2>1 DEF HasFields, IsBroken, StaysBroken
<1>3. StoreSegment(r, first, data) \in {r, rest}
        \/ \E p \in {r, rest} : \E at, d : StoreSegment(r, first, data) = StoreAt(p, at, d)
  BY DEF StoreSegment, StoreAlone, StoreMerged
<1> HIDE DEF rest
<1>4. \A p \in {r, rest} : StaysBroken(r, p) /\ IsBroken(p)
  BY <1>1, <1>2
<1>5. \A p \in {r, rest} : \A at, d : StaysBroken(r, StoreAt(p, at, d))
  BY <1>4, BrokenStoreAt, StaysBrokenTwice
<1> QED
  BY <1>3, <1>4, <1>5

LEMMA BrokenCloseAtEof ==
  ASSUME NEW r, IsBroken(r)
  PROVE  StaysBroken(r, CloseAtEof(r))
<1> DEFINE bs == Close(r.output)
           q == [r EXCEPT !.output = bs]
<1>1. bs \in ByteStreams(ToSet(Marked)) /\ bs.error
  BY BrokenClose DEF IsBroken
<1>2. StaysBroken(r, q)
  <2>1. bs = Close(r.output)
    OBVIOUS
  <2> HIDE DEF bs
  <2> QED
    BY <1>1, <2>1 DEF HasFields, IsBroken, StaysBroken
<1>3. CloseAtEof(r) = IF r.eof_flag /\ r.next_index = r.eof_index THEN q ELSE r
  BY DEF CloseAtEof
<1> HIDE DEF q
<1> QED
  BY <1>2, <1>3 DEF StaysBroken

\* insert() into a broken output writes nothing, whatever it is given.
LEMMA BrokenInsert ==
  ASSUME NEW r, IsBroken(r), NEW first, NEW data, NEW last \in BOOLEAN
  PROVE  StaysBroken(r, Insert(r, first, data, last))
<1> DEFINE noted == NoteEof(r, first, data, last)
           next == r.next_index
           kept == IF last /\ first > next
                   THEN Take(data, MinOf(Len(data), Room(r, first)))
                   ELSE data
           rest == Drop(data, next - first)
<1>1. StaysBroken(r, noted)
  BY BrokenNoteEof
<1>2. \/ Insert(r, first, data, last) = noted
      \/ Insert(r, first, data, last) = CloseAtEof(TryAssemble(PushOutput(noted, rest)))
      \/ Insert(r, first, data, last) = CloseAtEof(StoreSegment(noted, first, kept))
  BY DEF Insert
<1> HIDE DEF noted, kept, rest
<1> DEFINE pushed == PushOutput(noted, rest)
           assembled == TryAssemble(pushed)
           stored == StoreSegment(noted, first, kept)
<1>3. StaysBroken(r, assembled)
  <2>1. StaysBroken(noted, pushed)
    BY <1>1, BrokenPushOutput DEF StaysBroken
  <2> HIDE DEF pushed
  <2>2. StaysBroken(pushed, assembled)
    BY <2>1, BrokenTryAssemble DEF StaysBroken
  <2> QED
    BY <1>1, <2>1, <2>2, StaysBrokenTwice DEF StaysBroken
<1>4. StaysBroken(r, stored)
  <2>1. StaysBroken(noted, stored)
    BY <1>1, BrokenStoreSegment DEF StaysBroken
  <2> QED
    BY <1>1, <2>1, StaysBrokenTwice
<1> HIDE DEF assembled, stored
<1>5. StaysBroken(r, CloseAtEof(assembled)) /\ StaysBroken(r, CloseAtEof(stored))
  <2>1. \A p : StaysBroken(r, p) => StaysBroken(r, CloseAtEof(p))
    BY BrokenCloseAtEof, StaysBrokenTwice DEF StaysBroken
  <2> QED
    BY <1>3, <1>4, <2>1
<1> QED
  BY <1>1, <1>2, <1>5 DEF assembled, stored, pushed

\* SYN's passing of index 0 writes nothing either.
LEMMA BrokenIncrement ==
  ASSUME NEW r, IsBroken(r)
  PROVE  StaysBroken(r, IncrementNextIndex(r))
<1> DEFINE next == r.next_index + 1
           q == IncrementNextIndex(r)
<1>1. q = [r EXCEPT !.next_index = next]
  BY DEF IncrementNextIndex
<1> HIDE DEF q, next
<1>2. StaysBroken(r, q)
  BY <1>1 DEF HasFields, IsBroken, StaysBroken
<1> QED
  BY <1>2 DEF q

-----------------------------------------------------------------------------
(* The first SYN *)

\* The empty insert() at index 0 writes nothing, and index 0 is passed over.
Begun == IncrementNextIndex(Insert(NewReassembler(Capacity), 0, << >>, FALSE))

LEMMA BegunIsSound ==
  /\ Sound(Marked, Begun, Mark) /\ AllWait(Begun)
  /\ Begun.next_index = 1 /\ Begun.output.buffer = << >>
  /\ Begun.output.bytes_popped = 0 /\ Begun.output.bytes_pushed = 0
  /\ Begun.output.capacity = Capacity /\ ~Begun.eof_flag
<1> DEFINE S == ToSet(Marked)
           new == NewReassembler(Capacity)
           pushed == PushOutput(new, << >>)
           assembled == TryAssemble(pushed)
           done == CloseAtEof(assembled)
<1>1. /\ IsStream(Marked) /\ << >> \in Seq(S) /\ Len(<< >>) = 0
      /\ Len(Marked) = Length + 1 /\ Length \in Nat
  BY MarkedIsStream, StreamIsStream, EmptySeq
<1>2. Sound(Marked, new, << >>) /\ AllWait(new)
  BY <1>1, CapacityAssumption, NewIsSound
<1>3. /\ new.output.bytes_popped = 0 /\ new.output.capacity = Capacity /\ new.segments = << >>
      /\ new.next_index = 0 /\ new.eof_flag = FALSE
  BY DEF NewReassembler, NewByteStream
<1>4. Insert(new, 0, << >>, FALSE) = done
  <2>1. Drop(<< >>, 0 - 0) = << >>
    BY <1>1, SubSeqProperties DEF Drop
  <2>2. NoteEof(new, 0, << >>, FALSE) = new
    BY DEF NoteEof
  <2> HIDE DEF new
  <2>3. /\ ~(0 < new.next_index) /\ 0 <= new.next_index
        /\ Drop(<< >>, new.next_index - 0) = << >>
    BY <1>3, <2>1
  <2>4. Insert(new, 0, << >>, FALSE) =
          CloseAtEof(TryAssemble(PushOutput(NoteEof(new, 0, << >>, FALSE),
                                            Drop(<< >>, new.next_index - 0))))
    BY <2>3, Zenon DEF Insert
  <2> QED
    BY <2>2, <2>3, <2>4
<1>5. /\ Sound(Marked, pushed, << >>) /\ Onward(new, pushed)
      /\ pushed.segments = << >> /\ pushed.next_index = 0
  <2>1. IsSlice(Marked, << >>, new.next_index)
    BY <1>1, <1>3 DEF IsSlice
  <2>2. Sound(Marked, pushed, << >>) /\ Onward(new, pushed)
    <3> HIDE DEF new
    <3> QED
      BY <1>1, <1>2, <2>1, PushOutputIsSound
  <2>3. Len(Take(<< >>, MinOf(Len(<< >>), AvailableCapacity(new.output)))) = 0
    <3>1. AvailableCapacity(new.output) \in Nat
      BY <1>1, <1>2, SoundFacts
    <3>2. MinOf(Len(<< >>), AvailableCapacity(new.output)) = 0
      BY <1>1, <3>1 DEF MinOf
    <3>3. 0 \in 0 .. Len(<< >>)
      BY <1>1
    <3>4. Len(Take(<< >>, 0)) = 0
      BY <1>1, <3>3, Cut
    <3> QED
      BY <3>2, <3>4
  <2>4. pushed.segments = new.segments /\ pushed.next_index = 0
    <3>1. 0 + Len(Take(<< >>, MinOf(Len(<< >>), AvailableCapacity(new.output)))) = 0
      BY <2>3
    <3> QED
      BY <1>3, <2>3, <3>1 DEF PushOutput, NewReassembler
  <2> QED
    BY <1>3, <2>2, <2>4
<1> HIDE DEF new, pushed
<1>6. /\ Step(Marked, << >>, pushed, assembled)
      /\ DOMAIN assembled.segments = {} /\ assembled.next_index = 0
  <2>1. Step(Marked, << >>, pushed, assembled)
    BY <1>1, <1>5, TryAssembleIsSound
  <2>2. DOMAIN pushed.segments = {}
    BY <1>5
  <2>3. Frontier(pushed) = 0
    <3>1. /\ Frontier(pushed) \in 0 .. Length + 1
          /\ \A p \in 0 .. Frontier(pushed) - 1 :
               \E k \in DOMAIN pushed.segments : Covers(pushed, k, p)
      BY <1>1, <1>5, FrontierIsReached
    <3>2. 0 \notin 0 .. Frontier(pushed) - 1
      BY <2>2, <3>1
    <3> QED
      BY <1>1, <3>1, <3>2
  <2>4. /\ assembled.next_index = Frontier(pushed)
        /\ DOMAIN assembled.segments \subseteq DOMAIN pushed.segments
    BY <1>5 DEF TryAssemble, Without, Sound, IsReassembler
  <2> QED
    BY <2>1, <2>2, <2>3, <2>4
<1> HIDE DEF assembled
<1>7. done = assembled
  BY <1>3, <1>5, <1>6 DEF CloseAtEof, Onward, Step
<1> DEFINE next == 1
           q == [done EXCEPT !.next_index = next]
<1>8. Begun = q
  <2>1. done.next_index + 1 = next
    BY <1>6, <1>7
  <2> HIDE DEF done, next
  <2> QED
    BY <1>4, <2>1 DEF Begun, IncrementNextIndex, new
<1>9. /\ Sound(Marked, done, << >>) /\ DOMAIN done.segments = {} /\ done.next_index = 0
      /\ done.output.bytes_popped = 0 /\ done.output.capacity = Capacity /\ ~done.eof_flag
  BY <1>3, <1>5, <1>6, <1>7 DEF Step, Onward
<1> HIDE DEF done
<1>10. /\ IsReassembler(Marked, q) /\ q.output = done.output /\ q.segments = done.segments
       /\ q.next_index = 1 /\ ~q.eof_flag
  <2>1. q \in [ output : ByteStreams(S), segments : {done.segments}, next_index : Nat,
                bytes_pending : {done.bytes_pending}, eof_flag : BOOLEAN, eof_index : Nat ]
    <3>1. next \in Nat
      OBVIOUS
    <3> HIDE DEF next
    <3> QED
      BY <1>9, <3>1, Zenon DEF Sound, IsReassembler
  <2>2. /\ q.output = done.output /\ q.next_index = 1 /\ q.segments = done.segments
        /\ q.bytes_pending = done.bytes_pending /\ q.eof_flag = done.eof_flag
    BY <1>9 DEF Sound, IsReassembler
  <2> HIDE DEF q
  <2> QED
    BY <1>9, <2>1, <2>2 DEF IsReassembler
<1> HIDE DEF q
<1>11. /\ done.output.buffer = << >> /\ done.output.bytes_pushed = 0
       /\ OutputOK(Marked, done.output) /\ ~done.output.is_closed
  <2>1. /\ OutputOK(Marked, done.output) /\ 0 + Len(done.output.buffer) = 0
        /\ ~done.output.is_closed /\ done.output.buffer \in Seq(S)
    BY <1>1, <1>9 DEF Sound, OutputOK, ByteStreams
  <2>2. Len(done.output.buffer) = 0
    BY <2>1, LenProperties
  <2>3. done.output.buffer = << >>
    BY <2>1, <2>2, EmptySeq
  <2> QED
    BY <1>9, <2>1, <2>2, <2>3 DEF OutputOK
<1>12. /\ IsSlice(Marked, Mark \o q.output.buffer, 0)
       /\ Len(Mark) + Len(q.output.buffer) = q.next_index
  <2>1. Mark \o << >> = Mark /\ Mark \in Seq(S) /\ Len(Mark) = 1
    BY MarkedIsStream, ConcatEmptySeq
  <2>2. 0 + Len(Mark) <= Len(Marked) /\ \A i \in 1 .. Len(Mark) : Mark[i] = Marked[0 + i]
    BY <1>1, <2>1, MarkedIsStream
  <2>3. IsSlice(Marked, Mark, 0)
    BY <2>1, <2>2 DEF IsSlice
  <2> QED
    BY <1>1, <1>10, <1>11, <2>1, <2>3
<1>13. SegmentsOK(Marked, q.segments) /\ AllWait(q)
  BY <1>9, <1>10 DEF SegmentsOK, AllWait
<1>14. Sound(Marked, q, Mark)
  BY <1>10, <1>11, <1>12, <1>13 DEF Sound
<1> QED
  BY <1>8, <1>9, <1>10, <1>11, <1>13, <1>14

-----------------------------------------------------------------------------
(* The steps of the receiver *)

WithReassembler(tr, q) == [tr EXCEPT !.reassembler = q]

\* What no step takes back of a stream.
Advance(bs, after) ==
  /\ after.bytes_pushed >= bs.bytes_pushed /\ after.bytes_popped >= bs.bytes_popped
  /\ after.capacity = bs.capacity
  /\ bs.is_closed => after.is_closed

Kept == /\ receiver.isn # None => receiver'.isn = receiver.isn
        /\ Advance(Inbound(receiver), Inbound(receiver'))

LEMMA NewFields ==
  ASSUME NEW tr, Fields(tr), NEW q
  PROVE  /\ Fields(WithReassembler(tr, q))
         /\ WithReassembler(tr, q).reassembler = q
         /\ WithReassembler(tr, q).isn = tr.isn
<1> DEFINE new == WithReassembler(tr, q)
<1>1. new \in [ reassembler : {q}, syn_received : BOOLEAN, isn : {None, Some(Isn)} ]
  BY Zenon DEF Fields, WithReassembler
<1>2. new.reassembler = q /\ new.isn = tr.isn /\ new.syn_received = tr.syn_received
  BY DEF Fields, WithReassembler
<1> HIDE DEF new
<1>3. Fields(new)
  BY <1>1, <1>2 DEF Fields
<1> QED
  BY <1>2, <1>3 DEF new

LEMMA BrokenAdvance ==
  ASSUME NEW r, NEW q, IsBroken(r), StaysBroken(r, q)
  PROVE  /\ IsBroken(q) /\ Advance(r.output, q.output)
         /\ q.output.buffer = r.output.buffer /\ q.output.bytes_popped = r.output.bytes_popped
<1>1. r.output \in ByteStreams(ToSet(Marked)) /\ r.output.error
  BY DEF IsBroken
<1>2. /\ r.output.bytes_pushed \in Nat /\ r.output.bytes_popped \in Nat
      /\ Close(r.output).buffer = r.output.buffer /\ Close(r.output).is_closed
      /\ Close(r.output).bytes_pushed = r.output.bytes_pushed
      /\ Close(r.output).bytes_popped = r.output.bytes_popped
      /\ Close(r.output).capacity = r.output.capacity
  BY <1>1, BrokenClose DEF ByteStreams
<1> QED
  BY <1>2 DEF StaysBroken, Advance

\* The indices written to the output are those behind the mark.
LEMMA PushedIsNext ==
  ASSUME NEW q, NEW read \in Seq(ToSet(Stream)), GoodAfterSyn(q, read)
  PROVE  /\ q.output.bytes_pushed + 1 = q.next_index
         /\ q.output.bytes_pushed \in 0 .. Length
         /\ q.output \in ByteStreams(ToSet(Marked))
         /\ Mark \o read \in Seq(ToSet(Marked))
         /\ Len(read) + Len(q.output.buffer) = q.output.bytes_pushed
         /\ IsSlice(Stream, read \o q.output.buffer, 0)
         /\ Len(read \o q.output.buffer) = q.output.bytes_pushed
<1>1. /\ Sound(Marked, q, Mark \o read) /\ q.output.bytes_popped = Len(read)
      /\ OutputOK(Marked, q.output) /\ Length \in Nat /\ Len(Marked) = Length + 1
      /\ q.output \in ByteStreams(ToSet(Marked))
      /\ q.output.buffer \in Seq(ToSet(Marked)) /\ q.output.bytes_pushed \in Nat
      /\ Len(read) \in Nat /\ Len(q.output.buffer) \in Nat
  BY StreamIsStream, MarkedIsStream, LenProperties
     DEF GoodAfterSyn, Sound, OutputOK, ByteStreams
<1>2. /\ IsSlice(Marked, (Mark \o read) \o q.output.buffer, 0)
      /\ Len(Mark \o read) + Len(q.output.buffer) = q.next_index
  BY <1>1 DEF Sound
<1>3. /\ Mark \o read \in Seq(ToSet(Marked)) /\ Len(Mark \o read) = 1 + Len(read)
      /\ IsSlice(Stream, read \o q.output.buffer, 0)
      /\ Len(read \o q.output.buffer) = Len(read) + Len(q.output.buffer)
  BY <1>1, <1>2, BehindTheMark
<1>4. q.next_index <= Length + 1
  BY <1>1, <1>3, MarkedIsStream, SoundFacts
<1>5. q.output.bytes_pushed = Len(read) + Len(q.output.buffer)
  BY <1>1 DEF OutputOK
<1>6. /\ Len(read) + Len(q.output.buffer) = q.output.bytes_pushed
      /\ q.next_index = (1 + Len(read)) + Len(q.output.buffer)
  BY <1>2, <1>3, <1>5
<1>7. q.output.bytes_pushed + 1 = q.next_index /\ q.output.bytes_pushed \in 0 .. Length
  <2> DEFINE p == q.output.bytes_pushed
             next == q.next_index
             a == Len(read)
             b == Len(q.output.buffer)
  <2>1. a \in Nat /\ b \in Nat /\ p \in Nat /\ Length \in Nat
    BY <1>1
  <2>2. a + b = p /\ next = (1 + a) + b /\ next <= Length + 1
    BY <1>4, <1>6
  <2> HIDE DEF p, next, a, b
  <2>3. p + 1 = next /\ p \in 0 .. Length
    BY <2>1, <2>2
  <2> QED
    BY <2>3 DEF p, next
<1> QED
  BY <1>1, <1>3, <1>6, <1>7

\* A step that the Reassembler's lemmas allow keeps what the receiver needs.
LEMMA StepAdvances ==
  ASSUME NEW r, NEW noted, NEW q, NEW read \in Seq(ToSet(Stream)),
         GoodAfterSyn(r, read), noted.next_index = r.next_index, noted.output = r.output,
         Step(Marked, Mark \o read, noted, q)
  PROVE  GoodAfterSyn(q, read) /\ Advance(r.output, q.output)
<1>1. GoodAfterSyn(q, read)
  BY DEF Step, Onward, GoodAfterSyn
<1>2. /\ q.next_index >= r.next_index
      /\ r.output.is_closed => q.output.is_closed
      /\ q.output.bytes_popped = r.output.bytes_popped
      /\ q.output.capacity = r.output.capacity
  BY DEF Step, Onward
<1>3. /\ r.output.bytes_pushed + 1 = r.next_index /\ r.output.bytes_pushed \in Nat
      /\ q.output.bytes_pushed + 1 = q.next_index /\ q.output.bytes_pushed \in Nat
      /\ r.output.bytes_popped \in Nat
  BY <1>1, PushedIsNext, StreamIsStream DEF ByteStreams
<1> QED
  BY <1>1, <1>2, <1>3 DEF Advance

\* A substring of the stream inserted at its index.
LEMMA DataReceived ==
  ASSUME NEW r, NEW read \in Seq(ToSet(Stream)), GoodAfterSyn(r, read),
         NEW first \in 0 .. Length, NEW n \in 0 .. Length - first, NEW FIN \in BOOLEAN,
         FIN => first + n = Length
  PROVE  LET q == Insert(r, first + 1, SubSeq(Stream, first + 1, first + n), FIN)
         IN  GoodAfterSyn(q, read) /\ Advance(r.output, q.output)
<1> DEFINE at == first + 1
           data == SubSeq(Stream, first + 1, first + n)
           q == Insert(r, at, data, FIN)
           noted == NoteEof(r, at, data, FIN)
<1>1. /\ first \in Nat /\ n \in Nat /\ first + n <= Length /\ at \in Nat /\ at = first + 1
      /\ Len(Marked) = Length + 1 /\ IsStream(Marked)
  BY StreamIsStream, MarkedIsStream
<1>2. IsSlice(Marked, data, at) /\ Len(data) = n
  BY <1>1, PayloadIsSlice
<1> HIDE DEF data, at
<1>3. /\ Mark \o read \in Seq(ToSet(Marked)) /\ Sound(Marked, r, Mark \o read) /\ AllWait(r)
      /\ FIN => at + Len(data) = Len(Marked)
  BY <1>1, <1>2, StreamIsStream, PushedIsNext DEF GoodAfterSyn
<1>4. Step(Marked, Mark \o read, noted, q)
  BY <1>1, <1>2, <1>3, InsertIsSound
<1>5. noted.next_index = r.next_index /\ noted.output = r.output
  <2>1. /\ Len(data) \in Nat
        /\ FIN => \/ at + Len(data) = Len(Marked)
                  \/ at + Len(data) < r.next_index
    BY <1>1, <1>2, <1>3
  <2>2. Noted(r, noted, FIN, at + Len(data))
    BY <1>1, <1>3, <2>1, NoteEofIsSound, Zenon
  <2> QED
    BY <2>2 DEF Noted
<1> HIDE DEF q, noted
<1>6. GoodAfterSyn(q, read) /\ Advance(r.output, q.output)
  BY <1>4, <1>5, StepAdvances
<1> QED
  BY <1>6 DEF q, data, at

\* A repeated SYN is inserted at index 0, where it changes nothing but the end
\* that was noted.
LEMMA SynReceivedAgain ==
  ASSUME HarmlessSyns,
         NEW r, NEW read \in Seq(ToSet(Stream)), GoodAfterSyn(r, read),
         NEW n \in SynPayloads, n <= Length, NEW FIN \in BOOLEAN, FIN => n = Length
  PROVE  LET q == Insert(r, 0, SubSeq(Stream, 1, n), FIN)
         IN  GoodAfterSyn(q, read) /\ Advance(r.output, q.output)
<1> DEFINE at == 0
           data == SubSeq(Stream, 1, n)
           q == Insert(r, at, data, FIN)
           noted == NoteEof(r, at, data, FIN)
<1>1. n \in Nat /\ (n = 0 \/ (n = 1 /\ Length > 1)) /\ Length \in Nat
  BY SynPayloadsAssumption, StreamIsStream DEF HarmlessSyns
<1>2. Len(data) = n
  <2>1. 0 \in Nat /\ 0 + n <= Length /\ 0 + 1 = 1 /\ 0 + n = n
    BY <1>1
  <2> QED
    BY <1>1, <2>1, PayloadIsSlice
<1> HIDE DEF data
<1>3. /\ Mark \o read \in Seq(ToSet(Marked)) /\ Sound(Marked, r, Mark \o read) /\ AllWait(r)
      /\ r.output.bytes_pushed + 1 = r.next_index /\ r.output.bytes_pushed \in Nat
      /\ IsStream(Marked)
  BY StreamIsStream, MarkedIsStream, PushedIsNext DEF GoodAfterSyn
<1>4. at < r.next_index /\ at + Len(data) <= r.next_index
  BY <1>1, <1>2, <1>3
<1>5. q = noted
  BY <1>4 DEF Insert
<1>6. FIN => at + Len(data) = Len(Marked) \/ at + Len(data) < r.next_index
  BY <1>1, <1>2, <1>3
<1>a. at \in Nat
  OBVIOUS
<1> HIDE DEF at
<1>7. /\ Sound(Marked, noted, Mark \o read) /\ AllWait(noted)
      /\ noted.next_index = r.next_index /\ noted.output = r.output
  <2>1. Len(data) \in Nat /\ at \in Nat
    BY <1>1, <1>2, <1>a
  <2>2. /\ Sound(Marked, noted, Mark \o read) /\ AllWait(noted)
        /\ Noted(r, noted, FIN, at + Len(data))
    BY <1>3, <1>6, <2>1, NoteEofIsSound, Zenon
  <2> QED
    BY <2>2 DEF Noted
<1> HIDE DEF noted, q
<1>8. GoodAfterSyn(q, read)
  BY <1>5, <1>7 DEF GoodAfterSyn
<1>9. Advance(r.output, q.output)
  BY <1>3, <1>5, <1>7, PushedIsNext DEF Advance, ByteStreams
<1> QED
  BY <1>8, <1>9 DEF q, data, at

LEMMA InboundIsStream ==
  ASSUME IInv
  PROVE  Inbound(receiver) \in ByteStreams(ToSet(Marked))
<1>1. CASE Listening
  <2>1. << >> \in Seq(ToSet(Marked))
    BY EmptySeq
  <2> QED
    BY <1>1, <2>1, CapacityAssumption
       DEF Listening, Inbound, NewReassembler, NewByteStream, ByteStreams
<1>2. CASE Receiving
  BY <1>2, PushedIsNext DEF IInv, Receiving, Inbound
<1>3. CASE Broken
  BY <1>3 DEF Broken, IsBroken, Inbound
<1> QED
  BY <1>1, <1>2, <1>3 DEF IInv

LEMMA AdvanceIsReflexive ==
  ASSUME NEW bs \in ByteStreams(ToSet(Marked))
  PROVE  Advance(bs, bs)
BY DEF Advance, ByteStreams

\* What a segment's sequence number is taken for.
LEMMA IndexIsRight ==
  ASSUME WithinHalfPeriod, NEW first \in 0 .. Length, NEW SYN \in BOOLEAN, SYN => first = 0,
         NEW n, NEW FIN, NEW tr, tr.isn = Some(Isn), Inbound(tr).bytes_pushed \in 0 .. Length
  PROVE  StreamIndex(tr, Segment(first, n, SYN, FIN)) = IF SYN THEN 0 ELSE first + 1
<1> DEFINE absolute == IF SYN THEN first ELSE first + 1
           m == Segment(first, n, SYN, FIN)
<1>1. absolute \in 0 .. Length + 1 /\ absolute = IF SYN THEN 0 ELSE first + 1
  BY StreamIsStream
<1>2. m.seqno = Wrap(absolute, Isn) /\ m.SYN = SYN /\ Value(tr.isn) = Isn
  BY DEF Segment, SenderMessage, Some, Value
<1> HIDE DEF absolute, m
<1>3. Unwrap(m.seqno, Value(tr.isn), Inbound(tr).bytes_pushed) = absolute
  BY <1>1, <1>2, UnwrapIsExact
<1> QED
  BY <1>1, <1>2, <1>3 DEF StreamIndex, m

LEMMA FirstSynReceived ==
  ASSUME NEW n \in 0 .. Length, NEW FIN \in BOOLEAN, FIN => n = Length
  PROVE  LET data == SubSeq(Stream, 1, n)
             q == IF data # << >> \/ FIN THEN Insert(Begun, 1, data, FIN) ELSE Begun
         IN  GoodAfterSyn(q, << >>) /\ Advance(NewReassembler(Capacity).output, q.output)
<1> DEFINE data == SubSeq(Stream, 1, n)
           inserted == Insert(Begun, 1, data, FIN)
<1>1. /\ << >> \in Seq(ToSet(Stream)) /\ Len(<< >>) = 0 /\ 0 \in 0 .. Length
      /\ n \in 0 .. Length - 0 /\ 0 + 1 = 1 /\ 0 + n = n
  BY StreamIsStream, EmptySeq
<1>2. GoodAfterSyn(Begun, << >>)
  <2>1. Mark \o << >> = Mark
    BY MarkedIsStream, ConcatEmptySeq
  <2> QED
    BY <1>1, <2>1, BegunIsSound DEF GoodAfterSyn
<1>3. GoodAfterSyn(inserted, << >>) /\ Advance(Begun.output, inserted.output)
  BY <1>1, <1>2, DataReceived
<1> DEFINE new == NewReassembler(Capacity)
<1>4. /\ new.output.bytes_pushed = 0 /\ new.output.bytes_popped = 0
      /\ new.output.capacity = Capacity /\ ~new.output.is_closed
  BY DEF NewReassembler, NewByteStream
<1> HIDE DEF inserted, new
<1>5. Advance(new.output, Begun.output) /\ Advance(new.output, inserted.output)
  BY <1>3, <1>4, BegunIsSound DEF Advance
<1> QED
  BY <1>2, <1>3, <1>5 DEF inserted, new

LEMMA SegmentReceived ==
  ASSUME HarmlessSyns, WithinHalfPeriod, IInv,
         NEW first \in 0 .. Length, NEW n \in 0 .. Length - first,
         NEW SYN \in BOOLEAN, NEW FIN \in BOOLEAN,
         SYN => first = 0 /\ n \in SynPayloads, FIN => first + n = Length,
         Receive(Segment(first, n, SYN, FIN))
  PROVE  IInv' /\ Kept
<1> DEFINE m == Segment(first, n, SYN, FIN)
           data == SubSeq(Stream, first + 1, first + n)
           r == receiver.reassembler
           started == IncrementNextIndex(Insert(r, 0, << >>, FALSE))
           filled == IF data # << >> \/ FIN THEN Insert(started, 1, data, FIN) ELSE started
           index == StreamIndex(receiver, m)
           inserted == Insert(r, index, data, FIN)
<1>1. /\ m.SYN = SYN /\ m.FIN = FIN /\ m.payload = data /\ ~m.RST
      /\ m.seqno = Wrap(IF SYN THEN first ELSE first + 1, Isn)
  BY DEF Segment, SenderMessage
<1>2. /\ consumed' = consumed /\ consumed \in Seq(ToSet(Stream)) /\ Fields(receiver)
      /\ Listening \/ Receiving \/ Broken
      /\ receiver' = ReceiverReceive(receiver, m)
      /\ Length \in Nat /\ first \in Nat /\ n \in Nat
  BY StreamIsStream DEF IInv, Receive
<1> HIDE DEF m, data
<1>3. receiver' = IF SYN /\ ~receiver.syn_received
                  THEN [ reassembler |-> filled, syn_received |-> TRUE, isn |-> Some(m.seqno) ]
                  ELSE IF receiver.isn # None
                  THEN [receiver EXCEPT !.reassembler = inserted]
                  ELSE receiver
  <2>1. ReceiveSyn(receiver, m) =
          [ reassembler |-> filled, syn_received |-> TRUE, isn |-> Some(m.seqno) ]
    BY <1>1 DEF ReceiveSyn
  <2>2. ReceiveData(receiver, m) = [receiver EXCEPT !.reassembler = inserted]
    BY <1>1 DEF ReceiveData
  <2> HIDE DEF filled, inserted
  <2> QED
    BY <1>1, <1>2, <2>1, <2>2 DEF ReceiverReceive, HasValue
<1> HIDE DEF filled, inserted, started, index
<1>4. /\ receiver.syn_received = (receiver.isn # None)
      /\ receiver.isn \in {None, Some(Isn)} /\ Some(Isn) # None
  BY <1>2 DEF Fields, Some, None
<1>5. CASE SYN /\ ~receiver.syn_received
  <2>1. receiver.isn = None
    BY <1>4, <1>5
  <2>2. /\ m.seqno = Isn /\ n \in 0 .. Length /\ first = 0 /\ data = SubSeq(Stream, 1, n)
        /\ FIN => n = Length
    <3>1. first = 0 /\ n \in 0 .. Length /\ (FIN => n = Length)
      BY <1>2, <1>5
    <3>2. Wrap(0, Isn) = Isn
      BY IsnAssumption, ModulusAssumption DEF Wrap, Wraps
    <3> QED
      BY <1>1, <1>5, <3>1, <3>2 DEF data
  <2>3. /\ receiver'.reassembler = filled /\ receiver'.isn = Some(Isn) /\ Fields(receiver')
    <3>1. receiver' = [ reassembler |-> filled, syn_received |-> TRUE, isn |-> Some(Isn) ]
      BY <1>3, <1>5, <2>2
    <3>2. /\ receiver'.reassembler = filled /\ receiver'.isn = Some(Isn)
          /\ receiver'.syn_received = TRUE
      BY <3>1
    <3>3. receiver' \in [ reassembler : {filled}, syn_received : BOOLEAN,
                          isn : {None, Some(Isn)} ]
      BY <3>1, Zenon
    <3> QED
      BY <1>4, <3>2, <3>3 DEF Fields
  <2>4. CASE Listening
    <3>1. started = Begun
      BY <2>4 DEF started, Begun, Listening
    <3>2. GoodAfterSyn(filled, << >>) /\ Advance(r.output, filled.output)
      <4>1. filled = IF SubSeq(Stream, 1, n) # << >> \/ FIN
                     THEN Insert(Begun, 1, SubSeq(Stream, 1, n), FIN) ELSE Begun
        BY <2>2, <3>1 DEF filled
      <4>2. r = NewReassembler(Capacity)
        BY <2>4 DEF Listening
      <4> QED
        BY <2>2, <4>1, <4>2, FirstSynReceived
    <3> QED
      BY <1>2, <2>1, <2>3, <2>4, <3>2 DEF IInv, Receiving, Kept, Inbound, Listening
  <2>5. CASE Broken
    <3>1. StaysBroken(r, filled)
      <4> DEFINE old == Insert(r, 0, << >>, FALSE)
      <4>1. StaysBroken(r, old)
        BY <2>5, BrokenInsert DEF Broken
      <4> HIDE DEF old
      <4>2. StaysBroken(r, started)
        <5>1. started = IncrementNextIndex(old)
          BY DEF started, old
        <5> QED
          BY <2>5, <4>1, <5>1, BrokenIncrement, StaysBrokenTwice DEF StaysBroken, Broken
      <4>3. StaysBroken(started, Insert(started, 1, data, FIN))
        BY <4>2, BrokenInsert DEF StaysBroken
      <4> QED
        BY <2>5, <4>2, <4>3, StaysBrokenTwice DEF filled, Broken
    <3>2. /\ IsBroken(filled) /\ Advance(r.output, filled.output)
          /\ filled.output.buffer = r.output.buffer
          /\ filled.output.bytes_popped = r.output.bytes_popped
      BY <2>5, <3>1, BrokenAdvance DEF Broken
    <3> QED
      BY <1>2, <2>1, <2>3, <2>5, <3>2 DEF IInv, Broken, ReadIsTrue, Kept, Inbound
  <2>6. ~Receiving
    BY <1>4, <2>1 DEF Receiving
  <2> QED
    BY <1>2, <2>4, <2>5, <2>6
<1>6. CASE ~(SYN /\ ~receiver.syn_received) /\ receiver.isn # None
  <2>1. receiver.isn = Some(Isn)
    BY <1>4, <1>6
  <2>2. /\ receiver'.reassembler = inserted /\ receiver'.isn = receiver.isn /\ Fields(receiver')
    <3>1. receiver' = WithReassembler(receiver, inserted)
      BY <1>3, <1>6 DEF WithReassembler
    <3> QED
      BY <1>2, <3>1, NewFields
  <2>3. CASE Receiving
    <3>1. GoodAfterSyn(r, consumed) /\ Inbound(receiver).bytes_pushed \in 0 .. Length
      BY <1>2, <2>3, PushedIsNext DEF Receiving, Inbound
    <3>2. index = IF SYN THEN 0 ELSE first + 1
      BY <2>1, <3>1, IndexIsRight DEF index, m
    <3>3. GoodAfterSyn(inserted, consumed) /\ Advance(r.output, inserted.output)
      <4>1. CASE SYN
        <5>1. first = 0 /\ n \in SynPayloads /\ n <= Length /\ (FIN => n = Length)
              /\ data = SubSeq(Stream, 1, n)
          BY <1>2, <4>1 DEF data
        <5> QED
          BY <1>2, <3>1, <3>2, <4>1, <5>1, SynReceivedAgain DEF inserted
      <4>2. CASE ~SYN
        BY <1>2, <3>1, <3>2, <4>2, DataReceived DEF inserted, data
      <4> QED
        BY <4>1, <4>2
    <3> QED
      BY <1>2, <2>1, <2>2, <3>3 DEF IInv, Receiving, Kept, Inbound
  <2>4. CASE Broken
    <3>1. /\ IsBroken(inserted) /\ Advance(r.output, inserted.output)
          /\ inserted.output.buffer = r.output.buffer
          /\ inserted.output.bytes_popped = r.output.bytes_popped
      BY <2>4, BrokenInsert, BrokenAdvance DEF Broken, inserted
    <3> QED
      BY <1>2, <2>2, <2>4, <3>1 DEF IInv, Broken, ReadIsTrue, Kept, Inbound
  <2>5. ~Listening
    BY <1>6 DEF Listening
  <2> QED
    BY <1>2, <2>3, <2>4, <2>5
<1>7. CASE ~(SYN /\ ~receiver.syn_received) /\ receiver.isn = None
  <2>1. receiver' = receiver
    BY <1>3, <1>7
  <2>2. Advance(Inbound(receiver), Inbound(receiver))
    BY InboundIsStream, AdvanceIsReflexive
  <2> QED
    BY <1>2, <2>1, <2>2 DEF IInv, Kept, Listening, Receiving, Broken, ReadIsTrue, Inbound
<1> QED
  BY <1>5, <1>6, <1>7

\* A reassembler has its fields, and what was popped and is buffered is a slice
\* of the stream, whatever came.
LEMMA ReassemblerFacts ==
  ASSUME IInv
  PROVE  LET r == receiver.reassembler
         IN  /\ HasFields(r) /\ r.output \in ByteStreams(ToSet(Marked))
             /\ ReadIsTrue(consumed, r.output)
             /\ ~r.output.error => Drop(consumed, r.output.bytes_popped) = << >>
<1> DEFINE r == receiver.reassembler
           bs == r.output
<1>1. bs \in ByteStreams(ToSet(Marked)) /\ consumed \in Seq(ToSet(Stream))
  BY InboundIsStream DEF Inbound, IInv
<1>2. ASSUME bs.bytes_popped = Len(consumed), IsSlice(Stream, consumed \o bs.buffer, 0)
      PROVE  ReadIsTrue(consumed, bs) /\ Drop(consumed, bs.bytes_popped) = << >>
  <2>1. /\ Take(consumed, Len(consumed)) = consumed /\ Drop(consumed, Len(consumed)) = << >>
        /\ Len(consumed) \in Nat
    BY <1>1, CutAtEnd
  <2>2. ToSet(<< >>) = {}
    BY DEF ToSet
  <2> HIDE DEF bs
  <2> QED
    BY <1>2, <2>1, <2>2 DEF ReadIsTrue
<1>3. CASE Listening
  <2>1. HasFields(r)
    BY <1>3 DEF Listening, HasFields, NewReassembler
  <2>2. consumed = << >> /\ bs.buffer = << >> /\ bs.bytes_popped = 0
    BY <1>3 DEF Listening, NewReassembler, NewByteStream
  <2>3. << >> \in Seq(ToSet(Stream)) /\ Len(<< >>) = 0 /\ << >> \o << >> = << >>
        /\ Len(Stream) \in Nat
    BY EmptySeq, ConcatEmptySeq, StreamIsStream DEF Length
  <2>4. IsSlice(Stream, << >>, 0)
    BY <2>3 DEF IsSlice
  <2>5. ReadIsTrue(consumed, bs) /\ Drop(consumed, bs.bytes_popped) = << >>
    BY <1>2, <2>2, <2>3, <2>4
  <2> QED
    BY <1>1, <2>1, <2>5
<1>4. CASE Receiving
  <2>1. GoodAfterSyn(r, consumed) /\ consumed \in Seq(ToSet(Stream))
    BY <1>4 DEF Receiving, IInv
  <2>2. HasFields(r) /\ bs.bytes_popped = Len(consumed)
    BY <2>1 DEF GoodAfterSyn, Sound, IsReassembler, HasFields
  <2>3. IsSlice(Stream, consumed \o bs.buffer, 0)
    BY <2>1, PushedIsNext
  <2> QED
    BY <1>1, <1>2, <2>2, <2>3
<1>5. CASE Broken
  BY <1>1, <1>5 DEF Broken, IsBroken, Inbound
<1> QED
  BY <1>3, <1>4, <1>5 DEF IInv

LEMMA ResetReceived ==
  ASSUME IInv, Receive(Reset)
  PROVE  IInv' /\ Kept
<1> DEFINE r == receiver.reassembler
           bs == SetError(r.output)
           q == [r EXCEPT !.output = bs]
<1>1. receiver' = WithReassembler(receiver, q) /\ consumed' = consumed
  BY DEF Receive, Reset, SenderMessage, ReceiverReceive, ReceiveReset, WithReassembler
<1>2. /\ HasFields(r) /\ r.output \in ByteStreams(ToSet(Marked))
      /\ ReadIsTrue(consumed, r.output)
  BY ReassemblerFacts
<1>3. /\ bs \in ByteStreams(ToSet(Marked)) /\ bs.error /\ bs.buffer = r.output.buffer
      /\ bs.bytes_popped = r.output.bytes_popped /\ Advance(r.output, bs)
  <2>1. bs \in ByteStreams(ToSet(Marked))
    BY <1>2, Zenon DEF SetError, ByteStreams
  <2>2. /\ bs.error /\ bs.buffer = r.output.buffer /\ bs.is_closed = r.output.is_closed
        /\ bs.bytes_pushed = r.output.bytes_pushed /\ bs.bytes_popped = r.output.bytes_popped
        /\ bs.capacity = r.output.capacity
    BY <1>2 DEF SetError, ByteStreams
  <2>3. r.output.bytes_pushed \in Nat /\ r.output.bytes_popped \in Nat
    BY <1>2 DEF ByteStreams
  <2> QED
    BY <2>1, <2>2, <2>3 DEF Advance
<1> HIDE DEF bs
<1>4. IsBroken(q) /\ q.output = bs
  <2>1. q = [r EXCEPT !.output = bs]
    OBVIOUS
  <2> HIDE DEF q
  <2> QED
    BY <1>2, <1>3, <2>1 DEF HasFields, IsBroken
<1> HIDE DEF q
<1>5. Fields(receiver') /\ receiver'.reassembler = q /\ receiver'.isn = receiver.isn
  BY <1>1, NewFields DEF IInv
<1> QED
  BY <1>1, <1>2, <1>3, <1>4, <1>5 DEF IInv, Broken, ReadIsTrue, Kept, Inbound

LEMMA PopNothing ==
  ASSUME NEW bs \in ByteStreams(ToSet(Marked)), NEW len, Removed(bs, len) = 0
  PROVE  Pop(bs, len) = bs /\ Take(bs.buffer, Removed(bs, len)) = << >>
<1>1. bs.buffer \in Seq(ToSet(Marked)) /\ bs.bytes_popped \in Nat /\ Len(bs.buffer) \in Nat
  BY LenProperties DEF ByteStreams
<1>2. 0 \in 0 .. Len(bs.buffer)
  BY <1>1
<1>3. /\ Take(bs.buffer, 0) \in Seq(ToSet(Marked)) /\ Len(Take(bs.buffer, 0)) = 0
      /\ Drop(bs.buffer, 0) \in Seq(ToSet(Marked))
      /\ Take(bs.buffer, 0) \o Drop(bs.buffer, 0) = bs.buffer
  BY <1>1, <1>2, Cut
<1>4. Take(bs.buffer, 0) = << >>
  BY <1>3, EmptySeq
<1>5. Drop(bs.buffer, 0) = bs.buffer
  BY <1>3, <1>4, ConcatEmptySeq
<1>6. Pop(bs, len) = [bs EXCEPT !.buffer = bs.buffer, !.bytes_popped = bs.bytes_popped]
  <2>1. bs.bytes_popped + 0 = bs.bytes_popped
    BY <1>1
  <2> QED
    BY <1>5, <2>1 DEF Pop
<1> QED
  BY <1>4, <1>6 DEF ByteStreams

\* After a reset nothing is popped, and what is read is the buffer again.
LEMMA BrokenRead ==
  ASSUME NEW bs \in ByteStreams(ToSet(Marked)), bs.error, NEW read \in Seq(ToSet(Stream)),
         ReadIsTrue(read, bs), NEW len \in Nat
  PROVE  LET now == read \o ReadBytes(bs, len)
         IN  now \in Seq(ToSet(Stream)) /\ ReadIsTrue(now, bs)
<1> DEFINE p == bs.bytes_popped
           more == ReadBytes(bs, len)
           now == read \o more
<1>1. /\ p \in 0 .. Len(read) /\ bs.buffer \in Seq(ToSet(Marked)) /\ Len(read) \in Nat
      /\ more \in Seq(ToSet(Marked)) /\ \A x \in ToSet(more) : x \in ToSet(bs.buffer)
  <2>1. p \in Nat /\ Len(read) \in Nat /\ p <= Len(read) /\ bs.buffer \in Seq(ToSet(Marked))
    BY LenProperties DEF ByteStreams, ReadIsTrue
  <2>2. more \in Seq(ToSet(Marked)) /\ \A x \in ToSet(more) : x \in ToSet(bs.buffer)
    BY ReadAfterError
  <2> HIDE DEF more
  <2> QED
    BY <2>1, <2>2
<1>2. bs.buffer \in Seq(ToSet(Stream))
  <2>1. Take(read, p) \in Seq(ToSet(Stream))
    BY <1>1, Cut
  <2>2. Take(read, p) \o bs.buffer \in Seq(ToSet(Stream))
    BY DEF ReadIsTrue, IsSlice
  <2> QED
    BY <1>1, <2>1, <2>2, TailIsSeq
<1> HIDE DEF more
<1>3. more \in Seq(ToSet(Stream)) /\ Len(more) \in Nat
  <2>1. /\ Len(more) \in Nat /\ more = [i \in 1 .. Len(more) |-> more[i]]
        /\ \A i \in 1 .. Len(more) : more[i] \in ToSet(more)
    BY <1>1, LenProperties, SeqDef DEF ToSet
  <2>2. \A x \in ToSet(bs.buffer) : x \in ToSet(Stream)
    BY <1>2, SeqOfElements
  <2>3. more \in [1 .. Len(more) -> ToSet(Stream)]
    BY <1>1, <2>1, <2>2
  <2> QED
    BY <2>1, <2>3, FunctionIsSeq
<1>4. now \in Seq(ToSet(Stream)) /\ Len(now) = Len(read) + Len(more)
  BY <1>3, ConcatProperties
<1>5. /\ Take(now, p) = Take(read, p)
      /\ \A x \in ToSet(Drop(now, p)) : x \in ToSet(Drop(read, p)) \/ x \in ToSet(more)
  BY <1>1, <1>3, CutOfLonger
<1> HIDE DEF now
<1>6. p <= Len(now)
  BY <1>1, <1>3, <1>4
<1>7. ReadIsTrue(now, bs)
  BY <1>1, <1>5, <1>6 DEF ReadIsTrue
<1> QED
  BY <1>4, <1>7 DEF now, more

LEMMA BytesRead ==
  ASSUME IInv, NEW len \in Nat, ReaderReads(len)
  PROVE  IInv' /\ Kept
<1> DEFINE r == receiver.reassembler
           bs == r.output
           q == AfterPop(r, len)
           taken == Take(bs.buffer, Removed(bs, len))
<1>1. receiver' = WithReassembler(receiver, q) /\ consumed' = consumed \o ReadBytes(bs, len)
  BY DEF ReaderReads, WithReassembler, AfterPop, Inbound
<1>2. /\ HasFields(r) /\ bs \in ByteStreams(ToSet(Marked)) /\ consumed \in Seq(ToSet(Stream))
      /\ ReadIsTrue(consumed, bs) /\ Fields(receiver)
      /\ Listening \/ Receiving \/ Broken
  BY ReassemblerFacts DEF IInv
<1> HIDE DEF q
<1>3. Fields(receiver') /\ receiver'.reassembler = q /\ receiver'.isn = receiver.isn
  BY <1>1, <1>2, NewFields
<1>4. ASSUME Removed(bs, len) = 0
      PROVE  q = r /\ taken = << >> /\ Advance(bs, bs)
  <2>1. Pop(bs, len) = bs /\ taken = << >>
    BY <1>2, <1>4, PopNothing
  <2>2. q = r
    BY <1>2, <2>1 DEF q, AfterPop, HasFields
  <2> QED
    BY <1>2, <2>1, <2>2, AdvanceIsReflexive
<1>5. ~bs.error => consumed' = consumed \o taken
  BY <1>1, <1>2, ReadIsPop
<1>6. CASE Listening
  <2>1. Removed(bs, len) = 0 /\ ~bs.error
    BY <1>6, EmptySeq
       DEF Listening, NewReassembler, NewByteStream, Removed, IsFinished, MinOf
  <2>2. q = r /\ consumed' = consumed /\ Advance(bs, bs)
    BY <1>2, <1>4, <1>5, <2>1, ConcatEmptySeq
  <2> QED
    BY <1>2, <1>3, <1>6, <2>2 DEF IInv, Listening, Kept, Inbound
<1>7. CASE Broken
  <2>1. bs.error /\ IsBroken(r)
    BY <1>7 DEF Broken, IsBroken
  <2>2. q = r /\ Advance(bs, bs)
    BY <1>4, <2>1 DEF Removed
  <2>3. consumed' \in Seq(ToSet(Stream)) /\ ReadIsTrue(consumed', bs)
    BY <1>1, <1>2, <2>1, BrokenRead
  <2> QED
    BY <1>3, <2>1, <2>2, <2>3 DEF IInv, Broken, Kept, Inbound
<1>8. CASE Receiving
  <2> DEFINE now == consumed \o taken
             read == Mark \o consumed
  <2>1. /\ GoodAfterSyn(r, consumed) /\ read \in Seq(ToSet(Marked)) /\ IsStream(Marked)
        /\ Len(consumed) + Len(bs.buffer) = bs.bytes_pushed /\ bs.bytes_pushed \in Nat
        /\ bs.bytes_pushed + 1 = r.next_index
    <3>1. GoodAfterSyn(r, consumed)
      BY <1>8 DEF Receiving
    <3>2. /\ bs.bytes_pushed + 1 = r.next_index /\ bs.bytes_pushed \in 0 .. Length
          /\ Mark \o consumed \in Seq(ToSet(Marked))
          /\ Len(consumed) + Len(bs.buffer) = bs.bytes_pushed
      BY <1>2, <3>1, PushedIsNext
    <3> QED
      BY <3>1, <3>2, MarkedIsStream, StreamIsStream
  <2>2. /\ ReadAfterPop(r, read, len) \in Seq(ToSet(Marked))
        /\ Sound(Marked, q, ReadAfterPop(r, read, len)) /\ AllWait(q) /\ PopStep(r, q)
    <3>1. Sound(Marked, r, read) /\ AllWait(r)
      BY <2>1 DEF GoodAfterSyn
    <3> HIDE DEF read
    <3> QED
      BY <2>1, <3>1, PopIsSound DEF q
  <2>3. taken \in Seq(ToSet(Stream)) /\ taken \in Seq(ToSet(Marked))
    <3>1. bs.buffer \in Seq(ToSet(Marked)) /\ consumed \o bs.buffer \in Seq(ToSet(Stream))
      BY <1>2, <2>1, PushedIsNext DEF ByteStreams, IsSlice
    <3>2. bs.buffer \in Seq(ToSet(Stream))
      BY <1>2, <3>1, TailIsSeq
    <3>3. Removed(bs, len) \in 0 .. Len(bs.buffer)
      BY <3>2, LenProperties DEF Removed, MinOf
    <3> QED
      BY <3>1, <3>2, <3>3, Cut
  <2>4. now \in Seq(ToSet(Stream)) /\ Len(now) \in Nat
    BY <1>2, <2>3, ConcatProperties, LenProperties
  <2>5. ReadAfterPop(r, read, len) = Mark \o now
    <3>1. \A x, y, z \in Seq(ToSet(Marked)) : (x \o y) \o z = x \o (y \o z)
      BY Associates, SMTT(60)
    <3>2. Mark \in Seq(ToSet(Marked)) /\ consumed \in Seq(ToSet(Marked))
      BY <1>2, <2>1, MarkedIsStream, TailIsSeq
    <3> HIDE DEF taken
    <3>3. read \o taken = Mark \o now
      BY <2>3, <3>1, <3>2, Zenon
    <3> QED
      BY <3>3 DEF ReadAfterPop, taken
  <2>9. consumed' = now
    BY <1>5, <2>1 DEF GoodAfterSyn, Sound, OutputOK
  <2> HIDE DEF now, read, taken
  <2>6. q.output.bytes_popped = Len(now)
    <3>1. /\ OutputOK(Marked, q.output) /\ q.output \in ByteStreams(ToSet(Marked))
          /\ IsSlice(Marked, (Mark \o now) \o q.output.buffer, 0)
          /\ Len(Mark \o now) + Len(q.output.buffer) = q.next_index
      BY <2>2, <2>5 DEF Sound, OutputOK
    <3>2. q.output.buffer \in Seq(ToSet(Marked))
      BY <3>1 DEF ByteStreams
    <3>3. Len(Mark \o now) = 1 + Len(now) /\ Len(q.output.buffer) \in Nat
      BY <2>4, <3>1, <3>2, BehindTheMark, LenProperties
    <3> DEFINE popped == q.output.bytes_popped
               pushed == q.output.bytes_pushed
               next == q.next_index
               left == Len(q.output.buffer)
    <3>4. pushed = popped + left /\ popped \in Nat /\ left \in Nat /\ pushed + 1 = next
      BY <2>1, <2>2, <3>1, <3>3 DEF PopStep, OutputOK, ByteStreams
    <3>5. (1 + Len(now)) + left = next
      BY <3>1, <3>3
    <3> HIDE DEF popped, pushed, next, left
    <3>6. popped = Len(now)
      BY <2>4, <3>4, <3>5
    <3> QED
      BY <3>6 DEF popped
  <2>7. GoodAfterSyn(q, now)
    BY <2>2, <2>5, <2>6 DEF GoodAfterSyn
  <2>8. Advance(bs, q.output)
    BY <1>2, <2>2 DEF PopStep, Advance, ByteStreams
  <2> QED
    BY <1>3, <1>8, <2>4, <2>7, <2>8, <2>9 DEF IInv, Receiving, Kept, Inbound, now
<1> QED
  BY <1>2, <1>6, <1>7, <1>8

-----------------------------------------------------------------------------
(* The theorems *)

LEMMA NextKeeps ==
  ASSUME HarmlessSyns, WithinHalfPeriod, IInv, Next
  PROVE  IInv' /\ Kept
<1>1. CASE ReceiveSegment
  BY <1>1, SegmentReceived DEF ReceiveSegment
<1>2. CASE Receive(Reset)
  BY <1>2, ResetReceived
<1>3. CASE \E max_len \in Nat : ReaderReads(max_len)
  BY <1>3, BytesRead
<1> QED
  BY <1>1, <1>2, <1>3 DEF Next

\* At any time the receiver listens, or has the stream up to the next index, or
\* was reset.
THEOREM ReceiverIsSound ==
  ASSUME HarmlessSyns, WithinHalfPeriod
  PROVE  Spec => []IInv
<1>1. Init => IInv
  <2> SUFFICES ASSUME Init PROVE IInv
    OBVIOUS
  <2>1. receiver.isn = None /\ receiver.reassembler = NewReassembler(Capacity) /\ consumed = << >>
    BY DEF Init, NewReceiver
  <2>2. Fields(receiver)
    BY Zenon DEF Init, NewReceiver, Fields
  <2> QED
    BY <2>1, <2>2, EmptySeq DEF IInv, Listening
<1>2. IInv /\ [Next]_vars => IInv'
  <2>1. CASE Next
    BY <2>1, NextKeeps
  <2>2. CASE UNCHANGED vars
    BY <2>2 DEF vars, IInv, Listening, Receiving, Broken, ReadIsTrue, Inbound
  <2> QED
    BY <2>1, <2>2
<1> QED
  BY <1>1, <1>2, PTL DEF Spec

LEMMA DeliveredIsSlice ==
  ASSUME IInv
  PROVE  IsSlice(Stream, Delivered, 0) /\ Len(Delivered) \in Nat
<1>1. IsSlice(Stream, Delivered, 0)
  BY ReassemblerFacts DEF Delivered, Inbound, ReadIsTrue
<1> QED
  BY <1>1, LenProperties DEF IsSlice

\* With segments in any order, cut in any way and repeated, the output is the
\* beginning of the stream without a gap, and the reader is given each of its
\* bytes once and in order; after a reset it is given none but those that are
\* in the buffer.
THEOREM ReaderGetsStream ==
  ASSUME HarmlessSyns, WithinHalfPeriod
  PROVE  Spec => []DeliversStream
<1>1. IInv => DeliversStream
  <2> SUFFICES ASSUME IInv PROVE DeliversStream
    OBVIOUS
  <2> DEFINE n == Len(Delivered)
             cut == SubSeq(Stream, 0 + 1, 0 + n)
  <2>1. IsSlice(Stream, Delivered, 0) /\ n \in Nat
    BY DeliveredIsSlice
  <2>2. 0 + n <= Len(Stream) /\ 0 \in Nat
    BY <2>1 DEF IsSlice
  <2>3. IsSlice(Stream, cut, 0) /\ Len(cut) = n
    <3> HIDE DEF n
    <3> QED
      BY <2>1, <2>2, StreamIsStream, SliceIsSlice
  <2>4. cut = Take(Stream, n)
    <3>1. 0 + 1 = 1 /\ 0 + n = n
      BY <2>1
    <3> QED
      BY <3>1 DEF Take
  <2>5. Delivered = cut
    <3> HIDE DEF cut
    <3> QED
      BY <2>1, <2>2, <2>3, SlicesAgree
  <2>6. /\ Inbound(receiver).bytes_popped <= Len(consumed)
        /\ ~Inbound(receiver).error => Unpopped = << >>
        /\ ToSet(Unpopped) \subseteq ToSet(Inbound(receiver).buffer)
    BY ReassemblerFacts DEF Unpopped, Inbound, ReadIsTrue
  <2> QED
    BY <2>1, <2>2, <2>4, <2>5, <2>6 DEF DeliversStream, Length
<1> QED
  BY <1>1, ReceiverIsSound, PTL

\* An acknowledgment says what was received: the SYN, all bytes that were
\* written to the output, and the FIN only when the whole stream is in.
THEOREM AcksAreTrue ==
  ASSUME HarmlessSyns, WithinHalfPeriod
  PROVE  Spec => []AckIsTruthful
<1>1. IInv => AckIsTruthful
  <2> SUFFICES ASSUME IInv, HasValue(ReceiverSend(receiver).ackno)
               PROVE  /\ ReceiverSend(receiver).ackno
                           = Some(Wrap(Len(Delivered) + 1 + Count(Inbound(receiver).is_closed), Isn))
                      /\ Inbound(receiver).is_closed => Len(Delivered) = Length
    BY DEF AckIsTruthful
  <2>1. /\ ~Inbound(receiver).error /\ receiver.isn # None
        /\ ReceiverSend(receiver).ackno = Some(Wrap(AbsoluteAckno(receiver), Value(receiver.isn)))
    BY DEF ReceiverSend, ReceiverMessage, HasValue
  <2>2. Receiving /\ consumed \in Seq(ToSet(Stream))
    BY <2>1 DEF IInv, Listening, Broken, IsBroken, Inbound
  <2>3. /\ receiver.isn = Some(Isn) /\ GoodAfterSyn(receiver.reassembler, consumed)
        /\ Sound(Marked, receiver.reassembler, Mark \o consumed)
    BY <2>2 DEF Receiving, GoodAfterSyn
  <2>4. /\ Len(Delivered) = Inbound(receiver).bytes_pushed
        /\ Inbound(receiver).bytes_pushed + 1 = receiver.reassembler.next_index
        /\ Inbound(receiver).bytes_pushed \in 0 .. Length
    <3>1. Delivered = consumed \o Inbound(receiver).buffer
      <4>1. Inbound(receiver).bytes_popped = Len(consumed)
        BY <2>3 DEF GoodAfterSyn, Inbound
      <4> QED
        BY <2>2, <4>1, CutAtEnd DEF Delivered
    <3> QED
      BY <2>2, <2>3, <3>1, PushedIsNext DEF Inbound
  <2>5. Inbound(receiver).is_closed => Len(Delivered) = Length
    <3>1. Inbound(receiver).is_closed => receiver.reassembler.next_index = Length + 1
      BY <2>3, MarkedIsStream DEF Sound, Inbound
    <3> QED
      BY <2>4, <3>1, StreamIsStream
  <2>6. AbsoluteAckno(receiver) = Len(Delivered) + 1 + Count(Inbound(receiver).is_closed)
    BY <2>4 DEF AbsoluteAckno
  <2> QED
    BY <2>1, <2>3, <2>5, <2>6 DEF Some, Value
<1> QED
  BY <1>1, ReceiverIsSound, PTL

\* The window of a stream begins where what was popped ends, and is as long as
\* its capacity: only popping moves its right edge.
LEMMA EdgeAdvances ==
  ASSUME NEW bs \in ByteStreams(ToSet(Marked)), NEW after \in ByteStreams(ToSet(Marked)),
         Advance(bs, after)
  PROVE  /\ after.bytes_pushed + 1 + Count(after.is_closed)
              >= bs.bytes_pushed + 1 + Count(bs.is_closed)
         /\ after.bytes_pushed + MinOf(AvailableCapacity(after), MaxWindow)
              >= bs.bytes_pushed + MinOf(AvailableCapacity(bs), MaxWindow)
<1> DEFINE p == bs.bytes_pushed
           q == after.bytes_pushed
           x == bs.bytes_popped
           y == after.bytes_popped
           c == bs.capacity
<1>1. /\ p \in Nat /\ q \in Nat /\ x \in Nat /\ y \in Nat /\ c \in Nat /\ MaxWindow \in Nat
      /\ bs.is_closed \in BOOLEAN /\ after.is_closed \in BOOLEAN
  BY WindowAssumption DEF ByteStreams
<1>2. /\ q >= p /\ y >= x /\ after.capacity = c
      /\ bs.is_closed => after.is_closed
  BY DEF Advance
<1>3. AvailableCapacity(bs) = c - (p - x) /\ AvailableCapacity(after) = c - (q - y)
  BY <1>2 DEF AvailableCapacity
<1> HIDE DEF p, q, x, y, c
<1>4. q + MinOf(c - (q - y), MaxWindow) >= p + MinOf(c - (p - x), MaxWindow)
  BY <1>1, <1>2 DEF MinOf
<1>5. Count(after.is_closed) >= Count(bs.is_closed) /\ Count(after.is_closed) \in Nat
      /\ Count(bs.is_closed) \in Nat
  BY <1>1, <1>2 DEF Count
<1>6. q + 1 + Count(after.is_closed) >= p + 1 + Count(bs.is_closed)
  BY <1>1, <1>2, <1>5
<1> QED
  BY <1>3, <1>4, <1>6 DEF p, q

\* No segment, reset or pop makes the receiver take back an acknowledgment or
\* a part of the window it announced.
THEOREM NothingIsTakenBack ==
  ASSUME HarmlessSyns, WithinHalfPeriod
  PROVE  Spec => NothingRetreats
<1> DEFINE Keeps == /\ HasValue(receiver.isn) =>
                         /\ receiver'.isn = receiver.isn
                         /\ AbsoluteAckno(receiver') >= AbsoluteAckno(receiver)
                    /\ RightEdge(receiver') >= RightEdge(receiver)
           Typed == Inbound(receiver) \in ByteStreams(ToSet(Marked))
<1>1. IInv => Typed
  BY InboundIsStream
<1>2. IInv /\ Typed /\ Typed' /\ [Next]_vars => [Keeps]_vars
  <2> SUFFICES ASSUME IInv, Typed, Typed', Next PROVE Keeps
    OBVIOUS
  <2> DEFINE bs == Inbound(receiver)
             after == Inbound(receiver')
  <2>1. Kept
    BY NextKeeps
  <2>2. /\ receiver.isn # None => receiver'.isn = receiver.isn
        /\ Advance(bs, after)
        /\ bs \in ByteStreams(ToSet(Marked)) /\ after \in ByteStreams(ToSet(Marked))
    BY <2>1 DEF Kept
  <2>3. \A x \in ByteStreams(ToSet(Marked)) :
          /\ (x.bytes_pushed + 1 + Count(x.is_closed)) - Count(x.is_closed)
                + MinOf(AvailableCapacity(x), MaxWindow)
              = (x.bytes_pushed + MinOf(AvailableCapacity(x), MaxWindow)) + 1
          /\ x.bytes_pushed + MinOf(AvailableCapacity(x), MaxWindow) \in Int
    <3> TAKE x \in ByteStreams(ToSet(Marked))
    <3>1. /\ x.bytes_pushed \in Nat /\ x.bytes_popped \in Nat /\ x.capacity \in Nat
          /\ Count(x.is_closed) \in Nat /\ MaxWindow \in Nat
      BY WindowAssumption DEF ByteStreams, Count
    <3>2. MinOf(AvailableCapacity(x), MaxWindow) \in Int
      BY <3>1 DEF MinOf, AvailableCapacity
    <3> QED
      BY <3>1, <3>2
  <2>4. /\ RightEdge(receiver) = (bs.bytes_pushed + MinOf(AvailableCapacity(bs), MaxWindow)) + 1
        /\ RightEdge(receiver')
             = (after.bytes_pushed + MinOf(AvailableCapacity(after), MaxWindow)) + 1
    BY <2>2, <2>3 DEF RightEdge, AbsoluteAckno
  <2>5. /\ AbsoluteAckno(receiver) = bs.bytes_pushed + 1 + Count(bs.is_closed)
        /\ AbsoluteAckno(receiver') = after.bytes_pushed + 1 + Count(after.is_closed)
    BY DEF AbsoluteAckno
  <2> HIDE DEF bs, after
  <2>6. AbsoluteAckno(receiver') >= AbsoluteAckno(receiver)
    BY <2>2, <2>5, EdgeAdvances
  <2>7. RightEdge(receiver') >= RightEdge(receiver)
    <3> DEFINE a == bs.bytes_pushed + MinOf(AvailableCapacity(bs), MaxWindow)
               b == after.bytes_pushed + MinOf(AvailableCapacity(after), MaxWindow)
    <3>1. a \in Int /\ b \in Int /\ b >= a
      BY <2>2, <2>3, EdgeAdvances
    <3> HIDE DEF a, b
    <3>2. b + 1 >= a + 1
      BY <3>1
    <3> QED
      BY <2>4, <3>2 DEF a, b
  <2> QED
    BY <2>2, <2>6, <2>7 DEF HasValue
<1> QED
  BY <1>1, <1>2, ReceiverIsSound, PTL DEF Spec, NothingRetreats
==============================================================================
