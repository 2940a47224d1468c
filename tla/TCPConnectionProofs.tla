------------------------ MODULE TCPConnectionProofs -------------------------
(***************************************************************************)
(* For all streams, initial sequence numbers and capacities, whatever the  *)
(* network loses, repeats and reorders: each direction of a connection is a *)
(* pipe, a sender forgets only what the other side has, neither peer takes *)
(* the other for broken, and a peer that is done is done.                  *)
(***************************************************************************)
EXTENDS TCPConnection, ValueLemmas

-----------------------------------------------------------------------------
(* A sender between two calls of its peer *)

LEMMA NotedLosesNothing ==
  ASSUME NEW conv, NEW w, NEW s, SoundSender(conv, s, w), NEW size \in Nat
  PROVE  LET q == [s EXCEPT !.window_size = size]
         IN  /\ SoundSender(conv, q, w) /\ Loses(conv, s, q, 0)
             /\ q.outstanding = s.outstanding /\ q.time_running = s.time_running
<1> DEFINE q == [s EXCEPT !.window_size = size]
           none == 0
<1>1. s \in Senders(conv)
  BY DEF SoundSender
<1>2. /\ q \in Senders(conv)
      /\ q.input = s.input /\ q.next_seqno = s.next_seqno
      /\ q.syn_sent = s.syn_sent /\ q.fin_sent = s.fin_sent
      /\ q.outstanding = s.outstanding /\ q.bytes_in_flight = s.bytes_in_flight
      /\ q.time_running = s.time_running /\ q.isn = conv.isn
  BY <1>1 DEF Senders
<1> HIDE DEF q
<1>3. none \in 0 .. Len(s.outstanding)
  BY SenderIsTyped
<1>4. Loses(conv, s, q, none)
  BY <1>2, DropNoneOrAll, Zenon DEF Loses, none
<1> HIDE DEF none
<1>5. SoundSender(conv, q, w)
  BY <1>3, <1>4, LosesIsSound, Zenon
<1> QED
  BY <1>2, <1>4, <1>5 DEF q, none

\* What a reply tells a sender: nothing is taken out that it does not cover.
LEMMA ReplyIsSound ==
  ASSUME NEW conv, NEW w, NEW s, SoundSender(conv, s, w), NEW m, m.window_size \in Nat, ~m.RST,
         NEW a \in Nat, 2 * Distance(a, s.next_seqno) < Modulus,
         \/ m.ackno = None /\ m.window_size # 0
         \/ m.ackno = Some(Wrap(a, conv.isn))
  PROVE  /\ SoundSender(conv, SenderReceive(s, m), w)
         /\ Forgets(conv, s, SenderReceive(s, m), a)
<1> DEFINE size == m.window_size
           noted == [s EXCEPT !.window_size = size]
           ackno == Unwrap(Value(m.ackno), s.isn, s.next_seqno)
<1>1. size \in Nat
  OBVIOUS
<1> HIDE DEF size
<1>2. /\ SoundSender(conv, noted, w) /\ Loses(conv, s, noted, 0)
      /\ noted.outstanding = s.outstanding /\ noted.time_running = s.time_running
  BY <1>1, NotedLosesNothing
<1> HIDE DEF noted
<1>3. Forgets(conv, s, noted, a)
  <2>1. 0 \in 0 .. Len(s.outstanding)
    BY SenderIsTyped
  <2> QED
    BY <1>2, <2>1, Zenon DEF Forgets
<1>4. CASE m.ackno = None /\ m.window_size # 0
  <2>1. SenderReceive(s, m) = noted
    BY <1>4, Zenon DEF SenderReceive, noted, size, HasValue
  <2> QED
    BY <1>2, <1>3, <2>1
<1>5. CASE m.ackno = Some(Wrap(a, conv.isn))
  <2>1. ackno = a
    <3>1. s.isn = conv.isn /\ s.next_seqno \in Nat /\ conv.isn \in Wraps
      BY SenderIsTyped DEF SoundSender, IsConversation
    <3>2. Value(m.ackno) = Wrap(a, conv.isn)
      BY <1>5 DEF Value, Some
    <3> QED
      BY <3>1, <3>2, RoundTrip
  <2>2. HasValue(m.ackno)
    BY <1>5 DEF HasValue, Some, None
  <2>3. SenderReceive(s, m) = IF ackno > s.next_seqno THEN noted ELSE Acknowledge(noted, ackno)
    BY <2>2, Zenon DEF SenderReceive, noted, size
  <2> HIDE DEF ackno
  <2> DEFINE q == Acknowledge(noted, a)
  <2>4. SoundSender(conv, q, w) /\ Forgets(conv, noted, q, a)
    BY <1>2, AcknowledgeIsSound, Zenon
  <2> HIDE DEF q
  <2>5. PICK k \in 0 .. Len(noted.outstanding) :
          Loses(conv, noted, q, k) /\ (k = 0 \/ Start(noted, k) <= a)
    BY <2>4, Zenon DEF Forgets
  <2>6. Start(noted, k) = Start(s, k) /\ k \in 0 .. Len(s.outstanding)
    BY <1>2, Zenon DEF Start, Loses
  <2>7. Loses(conv, s, q, k)
    BY <1>2, <2>5, <2>6, Zenon DEF Loses
  <2>8. Forgets(conv, s, q, a)
    BY <2>5, <2>6, <2>7, Zenon DEF Forgets
  <2> QED
    BY <1>2, <1>3, <2>1, <2>3, <2>4, <2>8 DEF q
<1> QED
  BY <1>4, <1>5

\* What is left of the outstanding segments.
LEMMA LosesTheFirst ==
  ASSUME NEW conv, NEW w, NEW s, SoundSender(conv, s, w), NEW k \in 0 .. Len(s.outstanding),
         NEW q, Loses(conv, s, q, k)
  PROVE  /\ Start(q, 0) = Start(s, k)
         /\ Len(q.outstanding) = Len(s.outstanding) - k
         /\ \A i \in 1 .. Len(q.outstanding) :
              k + i \in 1 .. Len(s.outstanding) /\ q.outstanding[i] = s.outstanding[k + i]
<1> DEFINE out == s.outstanding
           rest == q.outstanding
           n == Len(out)
<1>1. out \in Seq(OutSegments(conv)) /\ n \in Nat /\ k \in 0 .. n
  BY SenderIsTyped, Zenon
<1>2. /\ Len(rest) = n - k
      /\ \A i \in 1 .. n - k : rest[i] = out[k + i]
  <2>1. rest = Drop(out, k)
    BY DEF Loses
  <2>2. /\ Drop(out, k) \in Seq(OutSegments(conv)) /\ Len(Drop(out, k)) = n - k
        /\ \A i \in 1 .. n - k : Drop(out, k)[i] = out[k + i]
    BY <1>1, Parts, ZenonT(40)
  <2> QED
    BY <2>1, <2>2, Zenon
<1>3. q.next_seqno = s.next_seqno
  BY DEF Loses
<1> HIDE DEF out, rest, n
<1>4. Start(q, 0) = Start(s, k)
  <2>1. Start(q, 0) = IF 0 < n - k THEN rest[0 + 1].seqno ELSE s.next_seqno
    BY <1>2, <1>3, Zenon DEF Start, rest
  <2>2. Start(s, k) = IF k < n THEN out[k + 1].seqno ELSE s.next_seqno
    BY Zenon DEF Start, out, n
  <2>3. CASE k < n
    <3>1. 0 < n - k /\ 1 \in 1 .. n - k /\ 0 + 1 = 1
      BY <1>1, <2>3
    <3>2. rest[1] = out[k + 1]
      BY <1>2, <3>1
    <3> QED
      BY <2>1, <2>2, <2>3, <3>1, <3>2
  <2>4. CASE ~(k < n)
    <3>1. ~(0 < n - k)
      BY <1>1, <2>4
    <3> QED
      BY <2>1, <2>2, <2>4, <3>1
  <2> QED
    BY <2>3, <2>4
<1>5. \A i \in 1 .. n - k : k + i \in 1 .. n
  BY <1>1
<1> QED
  BY <1>2, <1>4, <1>5 DEF out, rest, n

-----------------------------------------------------------------------------
(* A sender of a connection *)

\* The SYN of a connection takes no payload along.
SynAlone(s) ==
  \A i \in 1 .. Len(s.outstanding) : s.outstanding[i].msg.SYN => s.outstanding[i].length = 1

\* A sender of a connection between two calls of push: nothing is written
\* before the SYN is out, and the whole stream is written before it is ended.
Ready(conv, s, w) ==
  /\ SoundSender(conv, s, w) /\ ~s.input.error
  /\ s.input.is_closed => w = Len(conv.stream)
  /\ ~s.syn_sent => s.input.buffer = << >> /\ ~s.input.is_closed
  /\ SynAlone(s)

\* Nothing that may be sent waits.
NoStall(s) == \/ ~s.syn_sent \/ s.fin_sent \/ Space(s) <= 0
              \/ s.input.buffer = << >> /\ ~s.input.is_closed

\* Before the SYN nothing was written or sent.
LEMMA UnsentIsEmpty ==
  ASSUME NEW conv, NEW w, NEW s, Ready(conv, s, w), ~s.syn_sent
  PROVE  w = 0 /\ s.next_seqno = 0 /\ Start(s, 0) = 0
<1>1. SoundSender(conv, s, w) /\ s.input.buffer = << >>
  BY DEF Ready
<1>2. /\ s.input.bytes_popped \in Nat /\ s.next_seqno \in Nat /\ s.bytes_in_flight \in Nat
      /\ s.fin_sent \in BOOLEAN
  BY <1>1, InputIsTyped, SenderIsTyped
<1>3. /\ s.input.bytes_popped + Len(s.input.buffer) = w
      /\ s.next_seqno = Count(s.syn_sent) + s.input.bytes_popped + Count(s.fin_sent)
      /\ s.input.bytes_popped > 0 \/ s.fin_sent => s.syn_sent
  BY <1>1 DEF SoundSender, HoldsTheRest, CountsSent
<1>4. s.input.bytes_popped = 0 /\ ~s.fin_sent /\ Len(s.input.buffer) = 0
  BY <1>1, <1>2, <1>3, EmptySeq
<1>5. w = 0 /\ s.next_seqno = 0
  BY <1>3, <1>4 DEF Count
<1>6. Start(s, 0) \in Nat /\ Start(s, 0) <= s.next_seqno
  <2>1. 0 \in 0 .. Len(s.outstanding)
    BY <1>1, SenderIsTyped
  <2> QED
    BY <1>1, <2>1, StartsInARow
<1> QED
  BY <1>5, <1>6

\* What push adds starts where the last segment ended.
LEMMA PushAddsBehind ==
  ASSUME NEW conv, NEW w, NEW s, SoundSender(conv, s, w), NEW q, SoundSender(conv, q, w),
         Pushed(s, q)
  PROVE  /\ Start(q, 0) = Start(s, 0)
         /\ \A i \in Len(s.outstanding) + 1 .. Len(q.outstanding) :
              q.outstanding[i].seqno >= s.next_seqno
<1> DEFINE n == Len(s.outstanding)
           m == Len(q.outstanding)
<1>1. /\ n \in Nat /\ m \in Nat /\ n <= m
      /\ s.next_seqno \in Nat /\ q.next_seqno \in Nat
      /\ s.bytes_in_flight \in Nat /\ q.bytes_in_flight \in Nat
      /\ q.bytes_in_flight = s.bytes_in_flight + (q.next_seqno - s.next_seqno)
      /\ \A i \in 1 .. n : q.outstanding[i] = s.outstanding[i]
  <2>1. /\ n \in Nat /\ m \in Nat /\ s.next_seqno \in Nat /\ q.next_seqno \in Nat
        /\ s.bytes_in_flight \in Nat /\ q.bytes_in_flight \in Nat
    BY SenderIsTyped, Zenon
  <2> QED
    BY <2>1 DEF Pushed
<1>2. /\ \A k \in 0 .. n : Start(s, k) \in Nat
      /\ s.bytes_in_flight = s.next_seqno - Start(s, 0) /\ Start(s, n) = s.next_seqno
      /\ \A i \in 1 .. n : Start(s, i) = EndOf(s.outstanding[i])
  BY StartsInARow
<1>3. /\ \A k \in 0 .. m : Start(q, k) \in Nat
      /\ q.bytes_in_flight = q.next_seqno - Start(q, 0)
      /\ \A i \in 1 .. m : Start(q, i) = EndOf(q.outstanding[i])
      /\ \A i \in 1 .. m : Start(q, i - 1) = q.outstanding[i].seqno
  BY StartsInARow
<1>4. \A j \in 1 .. m : \A i \in 1 .. j : q.outstanding[i].seqno <= q.outstanding[j].seqno
  BY RowIsOrdered, Zenon
<1> HIDE DEF n, m
<1>5. Start(q, 0) = Start(s, 0)
  <2>1. 0 \in 0 .. n /\ 0 \in 0 .. m
    BY <1>1
  <2> QED
    BY <1>1, <1>2, <1>3, <2>1
<1>6. Start(q, n) = s.next_seqno
  <2>1. CASE n = 0
    BY <1>2, <1>5, <2>1
  <2>2. CASE n # 0
    <3>1. n \in 1 .. n /\ n \in 1 .. m
      BY <1>1, <2>2
    <3> QED
      BY <1>1, <1>2, <1>3, <3>1
  <2> QED
    BY <2>1, <2>2
<1>7. ASSUME NEW i \in n + 1 .. m PROVE q.outstanding[i].seqno >= s.next_seqno
  <2>1. i \in 1 .. m /\ n + 1 \in 1 .. i /\ n + 1 \in 1 .. m /\ (n + 1) - 1 = n
    BY <1>1
  <2>2. q.outstanding[n + 1].seqno = s.next_seqno
    BY <1>3, <1>6, <2>1
  <2>3. q.outstanding[n + 1].seqno <= q.outstanding[i].seqno
    BY <1>4, <2>1
  <2>4. i - 1 \in 0 .. m /\ q.outstanding[i].seqno = Start(q, i - 1)
    BY <1>1, <1>3, <2>1
  <2>5. q.outstanding[i].seqno \in Nat
    BY <1>3, <2>4
  <2> QED
    BY <1>1, <2>2, <2>3, <2>5
<1> QED
  BY <1>5, <1>7 DEF n, m

\* After push nothing that may be sent waits.
LEMMA PushIsReady ==
  ASSUME NEW conv, NEW w, NEW s, Ready(conv, s, w)
  PROVE  /\ Ready(conv, SenderPush(s), w) /\ NoStall(SenderPush(s))
         /\ Start(SenderPush(s), 0) = Start(s, 0)
         /\ SenderPush(s).next_seqno >= s.next_seqno
         /\ Carried(PushSends(s), SenderPush(s))
<1> DEFINE q == SenderPush(s)
<1>1. /\ SoundSender(conv, s, w) /\ ~s.input.error
      /\ s.input.is_closed => w = Len(conv.stream)
      /\ ~s.syn_sent => s.input.buffer = << >> /\ ~s.input.is_closed
      /\ SynAlone(s)
  BY DEF Ready
<1>2. /\ SoundSender(conv, q, w) /\ Pushed(s, q)
      /\ \/ s.input.error \/ q.fin_sent \/ Space(q) <= 0
         \/ q.input.buffer = << >> /\ ~q.input.is_closed
  BY <1>1, PushIsSound
<1>3. Carried(PushSends(s), q)
  BY <1>1, PushOnTheWire
<1> HIDE DEF q
<1>4. /\ q.input.error = s.input.error /\ q.input.is_closed = s.input.is_closed
      /\ s.syn_sent => q.syn_sent
      /\ Len(s.outstanding) <= Len(q.outstanding)
      /\ \A i \in 1 .. Len(s.outstanding) : q.outstanding[i] = s.outstanding[i]
      /\ s.next_seqno <= q.next_seqno
  BY <1>2 DEF Pushed
<1>5. /\ Start(q, 0) = Start(s, 0)
      /\ \A i \in Len(s.outstanding) + 1 .. Len(q.outstanding) :
           q.outstanding[i].seqno >= s.next_seqno
  BY <1>1, <1>2, PushAddsBehind
<1>6. /\ Len(s.outstanding) \in Nat /\ Len(q.outstanding) \in Nat
      /\ s.next_seqno \in Nat /\ q.next_seqno \in Nat
      /\ s.input.bytes_popped \in Nat /\ q.input.bytes_popped \in Nat
      /\ Len(q.input.buffer) \in Nat /\ q.input.buffer \in Seq(Bytes(conv))
      /\ s.syn_sent \in BOOLEAN /\ q.syn_sent \in BOOLEAN /\ q.fin_sent \in BOOLEAN
      /\ s.fin_sent \in BOOLEAN
      /\ \A i \in 1 .. Len(q.outstanding) : q.outstanding[i] \in OutSegments(conv)
  BY <1>1, <1>2, SenderIsTyped, InputIsTyped
<1>7. ASSUME ~s.syn_sent
      PROVE  q.next_seqno <= 1 /\ q.input.buffer = << >> /\ ~q.input.is_closed
  <2>1. w = 0 /\ ~s.input.is_closed
    BY <1>1, <1>7, UnsentIsEmpty
  <2>2. /\ q.input.bytes_popped + Len(q.input.buffer) = w
        /\ q.next_seqno = Count(q.syn_sent) + q.input.bytes_popped + Count(q.fin_sent)
        /\ q.fin_sent => q.input.is_closed
    BY <1>2 DEF SoundSender, HoldsTheRest, CountsSent
  <2>3. q.input.bytes_popped = 0 /\ Len(q.input.buffer) = 0 /\ ~q.fin_sent
    BY <1>4, <1>6, <2>1, <2>2
  <2>4. q.next_seqno <= 1
    BY <2>2, <2>3 DEF Count
  <2> QED
    BY <1>4, <1>6, <2>1, <2>3, <2>4, EmptySeq
<1>8. SynAlone(q)
  <2> SUFFICES ASSUME NEW i \in 1 .. Len(q.outstanding), q.outstanding[i].msg.SYN
               PROVE  q.outstanding[i].length = 1
    BY DEF SynAlone
  <2>1. CASE i <= Len(s.outstanding)
    <3>1. i \in 1 .. Len(s.outstanding)
      BY <1>6, <2>1
    <3> QED
      BY <1>1, <1>4, <3>1 DEF SynAlone
  <2>2. CASE ~(i <= Len(s.outstanding))
    <3>1. i \in Len(s.outstanding) + 1 .. Len(q.outstanding)
      BY <1>6, <2>2
    <3>2. q.outstanding[i].seqno = 0
      BY <1>2 DEF SoundSender, AllTrue, TrueSegment
    <3>3. s.next_seqno = 0
      BY <1>5, <1>6, <3>1, <3>2
    <3>4. ~s.syn_sent
      <4>1. s.next_seqno = Count(s.syn_sent) + s.input.bytes_popped + Count(s.fin_sent)
        BY <1>1 DEF SoundSender, CountsSent
      <4> QED
        BY <1>6, <3>3, <4>1 DEF Count
    <3>5. EndOf(q.outstanding[i]) <= q.next_seqno
      <4>1. i \in 1 .. i
        BY <1>6
      <4> QED
        BY <1>2, <4>1, RowIsOrdered
    <3>6. q.outstanding[i].length \in Nat \ {0}
      BY <1>6 DEF OutSegments
    <3> QED
      BY <1>6, <1>7, <3>2, <3>4, <3>5, <3>6 DEF EndOf
  <2> QED
    BY <2>1, <2>2
<1>9. Ready(conv, q, w)
  BY <1>1, <1>2, <1>4, <1>7, <1>8 DEF Ready
<1>10. NoStall(q)
  BY <1>1, <1>2 DEF NoStall
<1> QED
  BY <1>3, <1>4, <1>5, <1>6, <1>9, <1>10 DEF q

\* A clock does not change what a sender may do.
LEMMA AlikeIsReady ==
  ASSUME NEW conv, NEW w, NEW s, Ready(conv, s, w), NoStall(s),
         NEW q, SoundSender(conv, q, w), Alike(s, q)
  PROVE  Ready(conv, q, w) /\ NoStall(q) /\ Start(q, 0) = Start(s, 0)
<1>1. /\ SoundSender(conv, s, w) /\ ~s.input.error
      /\ s.input.is_closed => w = Len(conv.stream)
      /\ ~s.syn_sent => s.input.buffer = << >> /\ ~s.input.is_closed
      /\ SynAlone(s)
  BY DEF Ready
<1>2. /\ q.input = s.input /\ q.next_seqno = s.next_seqno
      /\ q.syn_sent = s.syn_sent /\ q.fin_sent = s.fin_sent
      /\ q.window_size = s.window_size /\ q.bytes_in_flight = s.bytes_in_flight
      /\ Len(q.outstanding) = Len(s.outstanding)
      /\ \A i \in 1 .. Len(s.outstanding) : q.outstanding[i].msg = s.outstanding[i].msg
  BY DEF Alike
<1>3. SynAlone(q)
  <2> SUFFICES ASSUME NEW i \in 1 .. Len(s.outstanding), q.outstanding[i].msg.SYN
               PROVE  q.outstanding[i].length = 1
    BY <1>2 DEF SynAlone
  <2>1. /\ s.outstanding[i].length = SequenceLength(s.outstanding[i].msg)
        /\ q.outstanding[i].length = SequenceLength(q.outstanding[i].msg)
    BY <1>1, <1>2 DEF SoundSender, AllTrue, TrueSegment
  <2>2. s.outstanding[i].length = 1
    BY <1>1, <1>2 DEF SynAlone
  <2> QED
    BY <1>2, <2>1, <2>2, Zenon
<1>4. Ready(conv, q, w)
  BY <1>1, <1>2, <1>3 DEF Ready
<1>5. NoStall(q)
  BY <1>2 DEF NoStall, Space, EffectiveWindow
<1>6. Start(q, 0) = Start(s, 0)
  <2>1. /\ s.bytes_in_flight = s.next_seqno - Start(s, 0)
        /\ q.bytes_in_flight = q.next_seqno - Start(q, 0)
    BY <1>1, StartsInARow
  <2>2. /\ s.next_seqno \in Nat
        /\ 0 \in 0 .. Len(s.outstanding) /\ 0 \in 0 .. Len(q.outstanding)
    BY <1>1, <1>2, SenderIsTyped
  <2>3. Start(s, 0) \in Nat /\ Start(q, 0) \in Nat
    BY <1>1, <2>2, StartsInARow
  <2> QED
    BY <1>2, <2>1, <2>2, <2>3
<1> QED
  BY <1>4, <1>5, <1>6

\* Nor does putting it back.
PutBack(s, rto) == [s EXCEPT !.current_RTO = rto, !.consecutive_retransmissions = 0]
LEMMA ClockPutBack ==
  ASSUME NEW conv, NEW w, NEW s, Ready(conv, s, w), NoStall(s), NEW rto \in Nat
  PROVE  /\ Ready(conv, PutBack(s, rto), w) /\ NoStall(PutBack(s, rto))
         /\ Start(PutBack(s, rto), 0) = Start(s, 0) /\ Alike(s, PutBack(s, rto))
<1> DEFINE q == PutBack(s, rto)
<1>1. SoundSender(conv, s, w)
  BY DEF Ready
<1>2. s \in Senders(conv)
  BY <1>1 DEF SoundSender
<1>3. /\ q \in Senders(conv)
      /\ q.input = s.input /\ q.next_seqno = s.next_seqno
      /\ q.syn_sent = s.syn_sent /\ q.fin_sent = s.fin_sent
      /\ q.window_size = s.window_size /\ q.bytes_in_flight = s.bytes_in_flight
      /\ q.time_running = s.time_running /\ q.outstanding = s.outstanding
  BY <1>2 DEF Senders, PutBack
<1> HIDE DEF q
<1>4. Loses(conv, s, q, 0) /\ 0 \in 0 .. Len(s.outstanding)
  <2>1. 0 \in 0 .. Len(s.outstanding)
    BY <1>1, SenderIsTyped
  <2> QED
    BY <1>1, <1>3, <2>1, DropNoneOrAll, Zenon DEF Loses
<1>5. SoundSender(conv, q, w)
  BY <1>1, <1>4, LosesIsSound, Zenon
<1>6. Alike(s, q)
  BY <1>3, Zenon DEF Alike
<1> QED
  BY <1>1, <1>3, <1>5, <1>6, AlikeIsReady DEF q

LEMMA TickIsReady ==
  ASSUME NEW conv, NEW w, NEW s, Ready(conv, s, w), NoStall(s), NEW ms \in Nat
  PROVE  /\ Ready(conv, SenderTick(s, ms), w) /\ NoStall(SenderTick(s, ms))
         /\ Start(SenderTick(s, ms), 0) = Start(s, 0)
         /\ Carried(TickSends(s, ms), SenderTick(s, ms)) /\ Alike(s, SenderTick(s, ms))
<1>1. SoundSender(conv, s, w)
  BY DEF Ready
<1>2. SoundSender(conv, SenderTick(s, ms), w) /\ Alike(s, SenderTick(s, ms))
  BY <1>1, TickIsSound
<1>3. Carried(TickSends(s, ms), SenderTick(s, ms))
  BY <1>1, TickOnTheWire
<1> QED
  BY <1>2, <1>3, AlikeIsReady

\* An acknowledgment leaves a sender ready to push.
LEMMA ReplyIsReady ==
  ASSUME NEW conv, NEW w, NEW s, Ready(conv, s, w), NEW m, m.window_size \in Nat, ~m.RST,
         NEW a \in Nat, 2 * Distance(a, s.next_seqno) < Modulus,
         \/ m.ackno = None /\ m.window_size # 0
         \/ m.ackno = Some(Wrap(a, conv.isn))
  PROVE  LET q == SenderReceive(s, m)
         IN  /\ Ready(conv, q, w) /\ q.next_seqno = s.next_seqno
             /\ Start(q, 0) = Start(s, 0) \/ Start(q, 0) <= a
<1> DEFINE q == SenderReceive(s, m)
<1>1. /\ SoundSender(conv, s, w) /\ ~s.input.error
      /\ s.input.is_closed => w = Len(conv.stream)
      /\ ~s.syn_sent => s.input.buffer = << >> /\ ~s.input.is_closed
      /\ SynAlone(s)
  BY DEF Ready
<1>2. SoundSender(conv, q, w) /\ Forgets(conv, s, q, a)
  BY <1>1, ReplyIsSound
<1> HIDE DEF q
<1>3. PICK k \in 0 .. Len(s.outstanding) :
        Loses(conv, s, q, k) /\ (k = 0 \/ Start(s, k) <= a)
  BY <1>2 DEF Forgets
<1>4. /\ q.input = s.input /\ q.next_seqno = s.next_seqno
      /\ q.syn_sent = s.syn_sent /\ q.fin_sent = s.fin_sent
  BY <1>3 DEF Loses
<1>5. /\ Start(q, 0) = Start(s, k)
      /\ \A i \in 1 .. Len(q.outstanding) :
           k + i \in 1 .. Len(s.outstanding) /\ q.outstanding[i] = s.outstanding[k + i]
  BY <1>1, <1>3, LosesTheFirst
<1>6. SynAlone(q)
  BY <1>1, <1>5 DEF SynAlone
<1>7. Ready(conv, q, w)
  BY <1>1, <1>2, <1>4, <1>6 DEF Ready
<1> QED
  BY <1>3, <1>4, <1>5, <1>7 DEF q

\* The owner's bytes, or the end of them, in the input of a sender.
LEMMA InputIsReady ==
  ASSUME NEW conv, NEW w, NEW s, Ready(conv, s, w), s.syn_sent,
         NEW input, NEW q, q = [s EXCEPT !.input = input],
         NEW x, SoundSender(conv, q, x), ~input.error, input.is_closed => x = Len(conv.stream)
  PROVE  Ready(conv, q, x) /\ Start(q, 0) = Start(s, 0)
<1>1. SoundSender(conv, s, w) /\ SynAlone(s)
  BY DEF Ready
<1>2. SenderFields(s)
  BY <1>1, SenderIsTyped
<1>3. /\ q.input = input /\ q.syn_sent = s.syn_sent /\ q.outstanding = s.outstanding
      /\ q.next_seqno = s.next_seqno
  BY <1>2 DEF SenderFields
<1>4. Ready(conv, q, x)
  BY <1>1, <1>3 DEF Ready, SynAlone
<1>5. Start(q, 0) = Start(s, 0)
  BY <1>3 DEF Start
<1> QED
  BY <1>4, <1>5

LEMMA WriteIsReady ==
  ASSUME NEW conv, NEW w, NEW s, Ready(conv, s, w), s.syn_sent, ~s.input.is_closed,
         NEW n \in Nat, w + n <= Len(conv.stream), n <= AvailableCapacity(s.input),
         NEW q, q = [s EXCEPT !.input = Push(s.input, SubSeq(conv.stream, w + 1, w + n))]
  PROVE  Ready(conv, q, w + n) /\ Start(q, 0) = Start(s, 0)
<1> DEFINE data == SubSeq(conv.stream, w + 1, w + n)
           input == Push(s.input, data)
<1>1. SoundSender(conv, s, w) /\ ~s.input.error
  BY DEF Ready
<1>2. /\ SoundSender(conv, [s EXCEPT !.input = input], w + Len(Accepted(s.input, data)))
  BY <1>1, WriteIsSound
<1>3. /\ s.input \in ByteStreams(Bytes(conv)) /\ w \in Nat /\ Len(conv.stream) \in Nat
      /\ conv.stream \in Seq(Bytes(conv))
  BY <1>1, InputIsTyped DEF SoundSender, IsConversation
<1>4. data \in Seq(Bytes(conv)) /\ Len(data) = n
  <2>1. w + n \in w .. Len(conv.stream) /\ n \in 0 .. Len(conv.stream) - w /\ w \in 0 .. Len(conv.stream)
    BY <1>3
  <2> QED
    BY <1>3, <2>1, TakeMore
<1> HIDE DEF data
<1>5. /\ Accepted(s.input, data) = data
      /\ input.error = s.input.error /\ input.is_closed = s.input.is_closed
  <2>1. PushedWith(input, s.input, data)
    BY <1>1, <1>3, <1>4, PushIsStream
  <2>2. Accepted(s.input, data) = data
    <3>1. MinOf(Len(data), AvailableCapacity(s.input)) = Len(data)
      BY <1>4 DEF MinOf
    <3>2. Take(data, Len(data)) = data
      BY <1>4, SubSeqFull DEF Take
    <3> QED
      BY <1>1, <3>1, <3>2 DEF Accepted
  <2> QED
    BY <2>1, <2>2 DEF PushedWith
<1>6. q = [s EXCEPT !.input = input]
  BY DEF data
<1> HIDE DEF input
<1>7. SoundSender(conv, q, w + n)
  BY <1>2, <1>4, <1>5, <1>6
<1>8. ~input.error /\ ~input.is_closed
  BY <1>1, <1>5
<1> DEFINE x == w + n
<1>9. SoundSender(conv, q, x)
  BY <1>7
<1> HIDE DEF x
<1>10. Ready(conv, q, x) /\ Start(q, 0) = Start(s, 0)
  BY <1>6, <1>8, <1>9, InputIsReady
<1> QED
  BY <1>10 DEF x

LEMMA CloseIsReady ==
  ASSUME NEW conv, NEW s, Ready(conv, s, Len(conv.stream)), s.syn_sent,
         NEW q, q = [s EXCEPT !.input = Close(s.input)]
  PROVE  Ready(conv, q, Len(conv.stream)) /\ Start(q, 0) = Start(s, 0)
<1> DEFINE w == Len(conv.stream)
           input == Close(s.input)
<1>1. SoundSender(conv, s, w) /\ ~s.input.error
  BY DEF Ready
<1>2. SoundSender(conv, q, w)
  BY <1>1, CloseIsSound
<1>3. ~input.error
  <2>1. s.input \in ByteStreams(Bytes(conv))
    BY <1>1, InputIsTyped
  <2> QED
    BY <1>1, <2>1, CloseIsStream
<1>4. q = [s EXCEPT !.input = input] /\ (input.is_closed => w = Len(conv.stream))
      /\ Ready(conv, s, w)
  OBVIOUS
<1> HIDE DEF w, input
<1>5. Ready(conv, q, w) /\ Start(q, 0) = Start(s, 0)
  BY <1>2, <1>3, <1>4, InputIsReady
<1> QED
  BY <1>5 DEF w

-----------------------------------------------------------------------------
(* A receiver and what it is told *)

\* One way of a connection as its receiver sees it: what the sender wrote so
\* far, its initial sequence number, whether the sender's owner has ended it.
IsSaid(said) ==
  said.stream \in Seq(ToSet(said.stream)) /\ said.isn \in Wraps /\ said.ended \in BOOLEAN

MarkOf(said) == << said.isn >>
MarkedStream(said) == MarkOf(said) \o said.stream

\* Index 0 is passed, what the reader got is the stream up to the next index.
GoodAfterSyn(said, q, read) ==
  /\ Sound(MarkedStream(said), q, MarkOf(said) \o read) /\ AllWait(q)
  /\ q.output.bytes_popped = Len(read) /\ (q.eof_flag => said.ended)

LEMMA StreamIsStream ==
  ASSUME NEW said, IsSaid(said)
  PROVE  IsStream(said.stream) /\ Len(said.stream) \in Nat
BY LenProperties DEF IsSaid, IsStream

Begun(cap) == IncrementNextIndex(Insert(NewReassembler(cap), 0, << >>, FALSE))

\* What no step takes back of a stream.
Advance(bs, after) ==
  /\ after.bytes_pushed >= bs.bytes_pushed /\ after.bytes_popped >= bs.bytes_popped
  /\ after.capacity = bs.capacity
  /\ bs.is_closed => after.is_closed

LEMMA MarkedIsStream ==
  ASSUME NEW said, IsSaid(said)
  PROVE
         /\ IsStream(MarkedStream(said)) /\ Len(MarkedStream(said)) = Len(said.stream) + 1
  /\ MarkOf(said) \in Seq(ToSet(MarkedStream(said))) /\ Len(MarkOf(said)) = 1
  /\ MarkedStream(said)[1] = said.isn /\ MarkOf(said)[1] = said.isn
  /\ \A i \in 1 .. Len(said.stream) : MarkedStream(said)[i + 1] = said.stream[i]
<1> DEFINE S == {said.isn} \cup ToSet(said.stream)
<1>1. said.stream \in Seq(S) /\ Len(said.stream) \in Nat /\ Len(said.stream) = Len(said.stream)
  <2>1. /\ Len(said.stream) \in Nat /\ Len(said.stream) = Len(said.stream) /\ said.stream = [i \in 1 .. Len(said.stream) |-> said.stream[i]]
        /\ \A i \in 1 .. Len(said.stream) : said.stream[i] \in ToSet(said.stream)
    BY StreamIsStream, LenProperties, ElementOfSeq, SeqDef DEF IsStream
  <2>2. said.stream \in [1 .. Len(said.stream) -> S]
    BY <2>1
  <2> QED
    BY <2>1, <2>2, SeqDef, SMTT(30)
<1>2. MarkOf(said) \in Seq(S) /\ Len(MarkOf(said)) = 1 /\ MarkOf(said)[1] = said.isn
  BY DEF MarkOf
<1> HIDE DEF S
<1>3. /\ MarkedStream(said) \in Seq(S) /\ Len(MarkedStream(said)) = 1 + Len(said.stream)
      /\ \A i \in 1 .. 1 + Len(said.stream) : MarkedStream(said)[i] = IF i <= 1 THEN MarkOf(said)[i] ELSE said.stream[i - 1]
  <2>1. /\ MarkOf(said) \o said.stream \in Seq(S) /\ Len(MarkOf(said) \o said.stream) = Len(MarkOf(said)) + Len(said.stream)
        /\ \A i \in 1 .. Len(MarkOf(said)) + Len(said.stream) :
             (MarkOf(said) \o said.stream)[i] = IF i <= Len(MarkOf(said)) THEN MarkOf(said)[i] ELSE said.stream[i - Len(MarkOf(said))]
    BY <1>1, <1>2, ConcatProperties
  <2> QED
    BY <1>1, <1>2, <2>1 DEF MarkedStream
<1>4. /\ MarkedStream(said) \in Seq(ToSet(MarkedStream(said))) /\ ToSet(MarkedStream(said)) = ToSet(MarkOf(said)) \cup ToSet(said.stream)
  BY <1>1, <1>2, <1>3, SeqOfElements, ElementsOfConcat DEF MarkedStream
<1>5. \A i \in 1 .. Len(said.stream) : MarkedStream(said)[i + 1] = said.stream[i]
  <2> TAKE i \in 1 .. Len(said.stream)
  <2>1. i + 1 \in 1 .. 1 + Len(said.stream) /\ ~(i + 1 <= 1) /\ (i + 1) - 1 = i
    BY <1>1
  <2> QED
    BY <1>3, <2>1
<1>6. MarkedStream(said)[1] = said.isn
  BY <1>1, <1>2, <1>3
<1>7. MarkOf(said) \in Seq(ToSet(MarkedStream(said)))
  <2>1. 1 \in 1 .. Len(MarkedStream(said))
    BY <1>1, <1>3
  <2>2. said.isn \in ToSet(MarkedStream(said))
    BY <1>4, <1>6, <2>1, ElementOfSeq
  <2> QED
    BY <2>2 DEF MarkOf
<1> QED
  BY <1>1, <1>2, <1>3, <1>4, <1>5, <1>6, <1>7 DEF IsStream

LEMMA MarkedHasAll ==
  ASSUME NEW said, IsSaid(said)
  PROVE  ToSet(said.stream) \subseteq ToSet(MarkedStream(said))
<1>1. IsStream(said.stream) /\ Len(said.stream) \in Nat
  BY StreamIsStream
<1>2. \A i \in 1 .. Len(said.stream) : said.stream[i] \in ToSet(MarkedStream(said))
  <2> TAKE i \in 1 .. Len(said.stream)
  <2>1. i + 1 \in 1 .. Len(MarkedStream(said))
    BY <1>1, MarkedIsStream
  <2>2. MarkedStream(said)[i + 1] \in ToSet(MarkedStream(said))
    BY <2>1, MarkedIsStream, ElementOfSeq DEF IsStream
  <2>3. MarkedStream(said)[i + 1] = said.stream[i]
    BY MarkedIsStream
  <2> QED
    BY <2>2, <2>3
<1>3. said.stream \in Seq(ToSet(MarkedStream(said)))
  <2>1. said.stream \in Seq(ToSet(said.stream))
    BY DEF IsSaid
  <2>2. said.stream = [i \in 1 .. Len(said.stream) |-> said.stream[i]]
    BY <1>1, <2>1, LenProperties
  <2>3. said.stream \in [1 .. Len(said.stream) -> ToSet(MarkedStream(said))]
    BY <1>2, <2>2
  <2> QED
    BY <1>1, <2>3, SeqDef
<1> QED
  BY <1>3, SeqOfElements

\* A slice that is not empty lies within its stream.
LEMMA SliceReaches ==
  ASSUME NEW st, NEW s, IsSlice(st, s, 0), Len(s) > 0
  PROVE  0 + Len(s) <= Len(st) /\ \A i \in 1 .. Len(s) : s[i] = st[0 + i]
BY Zenon DEF IsSlice

\* What is the marked stream behind the mark is the stream.
LEMMA BehindTheMark ==
  ASSUME NEW said, IsSaid(said), NEW s \in Seq(ToSet(said.stream)), NEW t \in Seq(ToSet(MarkedStream(said))),
         IsSlice(MarkedStream(said), (MarkOf(said) \o s) \o t, 0)
  PROVE  IsSlice(said.stream, s \o t, 0) /\ MarkOf(said) \o s \in Seq(ToSet(MarkedStream(said)))
         /\ Len(MarkOf(said) \o s) = 1 + Len(s) /\ Len(s \o t) = Len(s) + Len(t)
<1> DEFINE S == ToSet(MarkedStream(said))
           c == s \o t
<1>0. ToSet(said.stream) \subseteq S
  BY MarkedHasAll
<1>1. MarkOf(said) \in Seq(S) /\ Len(MarkOf(said)) = 1 /\ Len(said.stream) \in Nat /\ Len(MarkedStream(said)) = Len(said.stream) + 1
  BY MarkedIsStream, StreamIsStream
<1>2. s \in Seq(S) /\ Len(s) \in Nat /\ Len(t) \in Nat
  <2>1. /\ Len(s) \in Nat /\ Len(t) \in Nat /\ s = [i \in 1 .. Len(s) |-> s[i]]
        /\ \A i \in 1 .. Len(s) : s[i] \in ToSet(said.stream)
    BY LenProperties, ElementOfSeq, SeqDef
  <2> HIDE DEF S
  <2>3. s \in [1 .. Len(s) -> S]
    BY <1>0, <2>1
  <2> QED
    BY <2>1, <2>3, SeqDef
<1> HIDE DEF S
<1>3. c \in Seq(S) /\ Len(c) = Len(s) + Len(t) /\ MarkOf(said) \o s \in Seq(S) /\ Len(MarkOf(said) \o s) = 1 + Len(s)
  <2>1. MarkOf(said) \in Seq(S)
    BY <1>1 DEF S
  <2>2. s \o t \in Seq(S) /\ Len(s \o t) = Len(s) + Len(t)
    BY <1>2, ConcatProperties DEF S
  <2>3. MarkOf(said) \o s \in Seq(S) /\ Len(MarkOf(said) \o s) = Len(MarkOf(said)) + Len(s)
    BY <1>2, <2>1, ConcatProperties
  <2> QED
    BY <1>1, <2>2, <2>3
<1>4. (MarkOf(said) \o s) \o t = MarkOf(said) \o c
  <2>1. \A x, y, z \in Seq(S) : (x \o y) \o z = x \o (y \o z)
    BY Associates, SMTT(60)
  <2> QED
    BY <1>1, <1>2, <2>1, Zenon DEF S
<1> HIDE DEF c
<1>5. /\ Len(MarkOf(said) \o c) = 1 + Len(c)
      /\ \A i \in 1 .. 1 + Len(c) : (MarkOf(said) \o c)[i] = IF i <= 1 THEN MarkOf(said)[i] ELSE c[i - 1]
  BY <1>1, <1>3, ConcatProperties
<1>6. /\ 1 + Len(c) <= Len(said.stream) + 1
      /\ \A i \in 1 .. 1 + Len(c) : (MarkOf(said) \o c)[i] = MarkedStream(said)[0 + i]
  <2>1. IsSlice(MarkedStream(said), MarkOf(said) \o c, 0)
    BY <1>4, Zenon
  <2>2. /\ 0 + Len(MarkOf(said) \o c) <= Len(MarkedStream(said))
        /\ \A i \in 1 .. Len(MarkOf(said) \o c) : (MarkOf(said) \o c)[i] = MarkedStream(said)[0 + i]
    <3>1. Len(MarkOf(said) \o c) > 0
      BY <1>3, <1>5, LenProperties
    <3> QED
      BY <2>1, <3>1, SliceReaches, Zenon
  <2> QED
    BY <1>1, <1>2, <1>3, <1>5, <2>2
<1>7. \A i \in 1 .. Len(c) : c[i] = said.stream[i]
  <2> TAKE i \in 1 .. Len(c)
  <2>1. Len(c) \in Nat /\ Len(said.stream) \in Nat /\ 1 + Len(c) <= Len(said.stream) + 1
    BY <1>1, <1>2, <1>3, <1>6
  <2>2. /\ i \in 1 .. Len(said.stream) /\ i + 1 \in 1 .. 1 + Len(c) /\ ~(i + 1 <= 1)
        /\ (i + 1) - 1 = i /\ 0 + (i + 1) = i + 1
    BY <2>1
  <2>3. MarkedStream(said)[i + 1] = said.stream[i]
    BY <2>2, MarkedIsStream
  <2> QED
    BY <1>5, <1>6, <2>2, <2>3
<1>8. c \in Seq(ToSet(said.stream))
  <2>1. Len(c) \in Nat /\ c = [i \in 1 .. Len(c) |-> c[i]]
    BY <1>3, LenProperties, SeqDef
  <2>2. \A i \in 1 .. Len(c) : i \in 1 .. Len(said.stream)
    BY <1>1, <1>6, <2>1
  <2>3. \A i \in 1 .. Len(said.stream) : said.stream[i] \in ToSet(said.stream)
    BY StreamIsStream, ElementOfSeq DEF IsStream
  <2>4. c \in [1 .. Len(c) -> ToSet(said.stream)]
    BY <1>7, <2>1, <2>2, <2>3
  <2> QED
    BY <2>1, <2>4, SeqDef
<1>9. 0 + Len(c) <= Len(said.stream) /\ \A i \in 1 .. Len(c) : c[i] = said.stream[0 + i]
  BY <1>1, <1>2, <1>3, <1>6, <1>7
<1> QED
  BY <1>3, <1>8, <1>9 DEF IsSlice, c, S

LEMMA BegunIsSound ==
  ASSUME NEW said, IsSaid(said), NEW cap \in Nat
  PROVE
  /\ Sound(MarkedStream(said), Begun(cap), MarkOf(said)) /\ AllWait(Begun(cap))
  /\ Begun(cap).next_index = 1 /\ Begun(cap).output.buffer = << >>
  /\ Begun(cap).output.bytes_popped = 0 /\ Begun(cap).output.bytes_pushed = 0
  /\ Begun(cap).output.capacity = cap /\ ~Begun(cap).eof_flag
<1> DEFINE S == ToSet(MarkedStream(said))
           new == NewReassembler(cap)
           pushed == PushOutput(new, << >>)
           assembled == TryAssemble(pushed)
           done == CloseAtEof(assembled)
<1>1. /\ IsStream(MarkedStream(said)) /\ << >> \in Seq(S) /\ Len(<< >>) = 0
      /\ Len(MarkedStream(said)) = Len(said.stream) + 1 /\ Len(said.stream) \in Nat
  BY MarkedIsStream, StreamIsStream, EmptySeq
<1>2. Sound(MarkedStream(said), new, << >>) /\ AllWait(new)
  BY <1>1, NewIsSound
<1>3. /\ new.output.bytes_popped = 0 /\ new.output.capacity = cap /\ new.segments = << >>
      /\ new.next_index = 0 /\ new.eof_flag = FALSE
  BY DEF NewReassembler, NewByteStream
<1>4. Insert(new, 0, << >>, FALSE) = done
  <2>1. Drop(<< >>, 0 - 0) = << >>
    BY <1>1, SubSeqProperties DEF Drop
  <2>2. NoteEof(new, 0, << >>, FALSE) = new
    BY DEF NoteEof
  <2> HIDE DEF new
  <2>3. /\ ~(0 < new.next_index) /\ 0 <= new.next_index
        /\ Drop(<< >>, new.next_index - 0) = << >>
    BY <1>3, <2>1
  <2>4. Insert(new, 0, << >>, FALSE) =
          CloseAtEof(TryAssemble(PushOutput(NoteEof(new, 0, << >>, FALSE),
                                            Drop(<< >>, new.next_index - 0))))
    BY <2>3, Zenon DEF Insert
  <2> QED
    BY <2>2, <2>3, <2>4
<1>5. /\ Sound(MarkedStream(said), pushed, << >>) /\ Onward(new, pushed)
      /\ pushed.segments = << >> /\ pushed.next_index = 0
  <2>1. IsSlice(MarkedStream(said), << >>, new.next_index)
    BY <1>1, <1>3 DEF IsSlice
  <2>2. Sound(MarkedStream(said), pushed, << >>) /\ Onward(new, pushed)
    <3> HIDE DEF new
    <3> QED
      BY <1>1, <1>2, <2>1, PushOutputIsSound
  <2>3. Len(Take(<< >>, MinOf(Len(<< >>), AvailableCapacity(new.output)))) = 0
    <3>1. AvailableCapacity(new.output) \in Nat
      BY <1>1, <1>2, SoundFacts
    <3>2. MinOf(Len(<< >>), AvailableCapacity(new.output)) = 0
      BY <1>1, <3>1 DEF MinOf
    <3>3. 0 \in 0 .. Len(<< >>)
      BY <1>1
    <3>4. Len(Take(<< >>, 0)) = 0
      BY <1>1, <3>3, Cut
    <3> QED
      BY <3>2, <3>4
  <2>4. pushed.segments = new.segments /\ pushed.next_index = 0
    <3>1. 0 + Len(Take(<< >>, MinOf(Len(<< >>), AvailableCapacity(new.output)))) = 0
      BY <2>3
    <3> QED
      BY <1>3, <2>3, <3>1 DEF PushOutput, NewReassembler
  <2> QED
    BY <1>3, <2>2, <2>4
<1> HIDE DEF new, pushed
<1>6. /\ Step(MarkedStream(said), << >>, pushed, assembled)
      /\ DOMAIN assembled.segments = {} /\ assembled.next_index = 0
  <2>1. Step(MarkedStream(said), << >>, pushed, assembled)
    BY <1>1, <1>5, TryAssembleIsSound
  <2>2. DOMAIN pushed.segments = {}
    BY <1>5
  <2>3. Frontier(pushed) = 0
    <3>1. /\ Frontier(pushed) \in 0 .. Len(said.stream) + 1
          /\ \A p \in 0 .. Frontier(pushed) - 1 :
               \E k \in DOMAIN pushed.segments : Covers(pushed, k, p)
      BY <1>1, <1>5, FrontierIsReached
    <3>2. 0 \notin 0 .. Frontier(pushed) - 1
      BY <2>2, <3>1
    <3> QED
      BY <1>1, <3>1, <3>2
  <2>4. /\ assembled.next_index = Frontier(pushed)
        /\ DOMAIN assembled.segments \subseteq DOMAIN pushed.segments
    BY <1>5 DEF TryAssemble, Without, Sound, IsReassembler
  <2> QED
    BY <2>1, <2>2, <2>3, <2>4
<1> HIDE DEF assembled
<1>7. done = assembled
  BY <1>3, <1>5, <1>6 DEF CloseAtEof, Onward, Step
<1> DEFINE next == 1
           q == [done EXCEPT !.next_index = next]
<1>8. Begun(cap) = q
  <2>1. done.next_index + 1 = next
    BY <1>6, <1>7
  <2> HIDE DEF done, next
  <2> QED
    BY <1>4, <2>1 DEF Begun, IncrementNextIndex, new
<1>9. /\ Sound(MarkedStream(said), done, << >>) /\ DOMAIN done.segments = {} /\ done.next_index = 0
      /\ done.output.bytes_popped = 0 /\ done.output.capacity = cap /\ ~done.eof_flag
  BY <1>3, <1>5, <1>6, <1>7 DEF Step, Onward
<1> HIDE DEF done
<1>10. /\ IsReassembler(MarkedStream(said), q) /\ q.output = done.output /\ q.segments = done.segments
       /\ q.next_index = 1 /\ ~q.eof_flag
  <2>1. q \in [ output : ByteStreams(S), segments : {done.segments}, next_index : Nat,
                bytes_pending : {done.bytes_pending}, eof_flag : BOOLEAN, eof_index : Nat ]
    <3>1. next \in Nat
      OBVIOUS
    <3> HIDE DEF next
    <3> QED
      BY <1>9, <3>1, Zenon DEF Sound, IsReassembler
  <2>2. /\ q.output = done.output /\ q.next_index = 1 /\ q.segments = done.segments
        /\ q.bytes_pending = done.bytes_pending /\ q.eof_flag = done.eof_flag
    BY <1>9 DEF Sound, IsReassembler
  <2> HIDE DEF q
  <2> QED
    BY <1>9, <2>1, <2>2 DEF IsReassembler
<1> HIDE DEF q
<1>11. /\ done.output.buffer = << >> /\ done.output.bytes_pushed = 0
       /\ OutputOK(MarkedStream(said), done.output) /\ ~done.output.is_closed
  <2>1. /\ OutputOK(MarkedStream(said), done.output) /\ 0 + Len(done.output.buffer) = 0
        /\ ~done.output.is_closed /\ done.output.buffer \in Seq(S)
    BY <1>1, <1>9 DEF Sound, OutputOK, ByteStreams
  <2>2. Len(done.output.buffer) = 0
    BY <2>1, LenProperties
  <2>3. done.output.buffer = << >>
    BY <2>1, <2>2, EmptySeq
  <2> QED
    BY <1>9, <2>1, <2>2, <2>3 DEF OutputOK
<1>12. /\ IsSlice(MarkedStream(said), MarkOf(said) \o q.output.buffer, 0)
       /\ Len(MarkOf(said)) + Len(q.output.buffer) = q.next_index
  <2>1. MarkOf(said) \o << >> = MarkOf(said) /\ MarkOf(said) \in Seq(S) /\ Len(MarkOf(said)) = 1
    BY MarkedIsStream, ConcatEmptySeq
  <2>2. 0 + Len(MarkOf(said)) <= Len(MarkedStream(said)) /\ \A i \in 1 .. Len(MarkOf(said)) : MarkOf(said)[i] = MarkedStream(said)[0 + i]
    BY <1>1, <2>1, MarkedIsStream
  <2>3. IsSlice(MarkedStream(said), MarkOf(said), 0)
    BY <2>1, <2>2 DEF IsSlice
  <2> QED
    BY <1>1, <1>10, <1>11, <2>1, <2>3
<1>13. SegmentsOK(MarkedStream(said), q.segments) /\ AllWait(q)
  BY <1>9, <1>10 DEF SegmentsOK, AllWait
<1>14. Sound(MarkedStream(said), q, MarkOf(said))
  BY <1>10, <1>11, <1>12, <1>13 DEF Sound
<1> QED
  BY <1>8, <1>9, <1>10, <1>11, <1>13, <1>14

\* The indices written to the output are those behind the mark.
LEMMA PushedIsNext ==
  ASSUME NEW said, IsSaid(said), NEW q, NEW read \in Seq(ToSet(said.stream)), GoodAfterSyn(said, q, read)
  PROVE  /\ q.output.bytes_pushed + 1 = q.next_index
         /\ q.output.bytes_pushed \in 0 .. Len(said.stream)
         /\ q.output \in ByteStreams(ToSet(MarkedStream(said)))
         /\ MarkOf(said) \o read \in Seq(ToSet(MarkedStream(said)))
         /\ Len(read) + Len(q.output.buffer) = q.output.bytes_pushed
         /\ IsSlice(said.stream, read \o q.output.buffer, 0)
         /\ Len(read \o q.output.buffer) = q.output.bytes_pushed
<1>1. /\ Sound(MarkedStream(said), q, MarkOf(said) \o read) /\ q.output.bytes_popped = Len(read)
      /\ OutputOK(MarkedStream(said), q.output) /\ Len(said.stream) \in Nat /\ Len(MarkedStream(said)) = Len(said.stream) + 1
      /\ q.output \in ByteStreams(ToSet(MarkedStream(said)))
      /\ q.output.buffer \in Seq(ToSet(MarkedStream(said))) /\ q.output.bytes_pushed \in Nat
      /\ Len(read) \in Nat /\ Len(q.output.buffer) \in Nat
  BY StreamIsStream, MarkedIsStream, LenProperties
     DEF GoodAfterSyn, Sound, OutputOK, ByteStreams
<1>2. /\ IsSlice(MarkedStream(said), (MarkOf(said) \o read) \o q.output.buffer, 0)
      /\ Len(MarkOf(said) \o read) + Len(q.output.buffer) = q.next_index
  BY <1>1 DEF Sound
<1>3. /\ MarkOf(said) \o read \in Seq(ToSet(MarkedStream(said))) /\ Len(MarkOf(said) \o read) = 1 + Len(read)
      /\ IsSlice(said.stream, read \o q.output.buffer, 0)
      /\ Len(read \o q.output.buffer) = Len(read) + Len(q.output.buffer)
  BY <1>1, <1>2, BehindTheMark
<1>4. q.next_index <= Len(said.stream) + 1
  BY <1>1, <1>3, MarkedIsStream, SoundFacts
<1>5. q.output.bytes_pushed = Len(read) + Len(q.output.buffer)
  BY <1>1 DEF OutputOK
<1>6. /\ Len(read) + Len(q.output.buffer) = q.output.bytes_pushed
      /\ q.next_index = (1 + Len(read)) + Len(q.output.buffer)
  BY <1>2, <1>3, <1>5
<1>7. q.output.bytes_pushed + 1 = q.next_index /\ q.output.bytes_pushed \in 0 .. Len(said.stream)
  <2> DEFINE p == q.output.bytes_pushed
             next == q.next_index
             a == Len(read)
             b == Len(q.output.buffer)
  <2>1. a \in Nat /\ b \in Nat /\ p \in Nat /\ Len(said.stream) \in Nat
    BY <1>1
  <2>2. a + b = p /\ next = (1 + a) + b /\ next <= Len(said.stream) + 1
    BY <1>4, <1>6
  <2> HIDE DEF p, next, a, b
  <2>3. p + 1 = next /\ p \in 0 .. Len(said.stream)
    BY <2>1, <2>2
  <2> QED
    BY <2>3 DEF p, next
<1> QED
  BY <1>1, <1>3, <1>6, <1>7

\* A step that the Reassembler's lemmas allow keeps what the receiver needs.
LEMMA StepAdvances ==
  ASSUME NEW said, IsSaid(said), NEW r, NEW noted, NEW q, NEW read \in Seq(ToSet(said.stream)),
         GoodAfterSyn(said, r, read), noted.next_index = r.next_index, noted.output = r.output,
         noted.eof_flag => said.ended, Step(MarkedStream(said), MarkOf(said) \o read, noted, q)
  PROVE  GoodAfterSyn(said, q, read) /\ Advance(r.output, q.output)
<1>1. GoodAfterSyn(said, q, read)
  BY DEF Step, Onward, GoodAfterSyn
<1>2. /\ q.next_index >= r.next_index
      /\ r.output.is_closed => q.output.is_closed
      /\ q.output.bytes_popped = r.output.bytes_popped
      /\ q.output.capacity = r.output.capacity
  BY DEF Step, Onward
<1>3. /\ r.output.bytes_pushed + 1 = r.next_index /\ r.output.bytes_pushed \in Nat
      /\ q.output.bytes_pushed + 1 = q.next_index /\ q.output.bytes_pushed \in Nat
      /\ r.output.bytes_popped \in Nat
  BY <1>1, PushedIsNext, StreamIsStream DEF ByteStreams
<1> QED
  BY <1>1, <1>2, <1>3 DEF Advance

\* A message as the sender of said may have sent it: what it carries is the
\* stream at its sequence number.
Spoken(said, m) ==
  /\ m = SenderMessage(m.seqno, m.SYN, m.payload, m.FIN, m.RST)
  /\ ~m.RST /\ m.SYN \in BOOLEAN /\ m.FIN \in BOOLEAN
  /\ \E i \in 0 .. Len(said.stream) + 2 :
       /\ m.seqno = Wrap(i, said.isn)
       /\ IsSlice(MarkedStream(said), m.payload, i)
       /\ m.SYN => i = 0 /\ m.payload = << >> /\ ~m.FIN
       /\ m.FIN => said.ended /\ i + Len(m.payload) = Len(said.stream) + 1

Acked(tr) == IF HasValue(tr.isn) THEN AbsoluteAckno(tr) ELSE 0

\* A receiver listens, or has the stream behind the mark, of which read was read.
ReceiverOK(said, cap, tr, read) ==
  /\ read \in Seq(ToSet(said.stream)) /\ Inbound(tr).capacity = cap
  /\ \/ tr = NewReceiver(cap) /\ read = << >>
     \/ /\ tr = [ reassembler |-> tr.reassembler, syn_received |-> TRUE, isn |-> Some(said.isn) ]
        /\ GoodAfterSyn(said, tr.reassembler, read)

\* What is inserted where its sequence number says.
LEMMA DataIsTaken ==
  ASSUME NEW said, IsSaid(said), NEW r, NEW read \in Seq(ToSet(said.stream)),
         GoodAfterSyn(said, r, read), NEW i \in Nat, NEW data, NEW FIN \in BOOLEAN,
         IsSlice(MarkedStream(said), data, i),
         FIN => said.ended /\ i + Len(data) = Len(said.stream) + 1
  PROVE  /\ GoodAfterSyn(said, Insert(r, i, data, FIN), read)
         /\ Advance(r.output, Insert(r, i, data, FIN).output)
<1> DEFINE st == MarkedStream(said)
           had == MarkOf(said) \o read
           noted == NoteEof(r, i, data, FIN)
           q == Insert(r, i, data, FIN)
<1>1. /\ IsStream(st) /\ Len(st) = Len(said.stream) + 1 /\ IsSlice(st, data, i)
  BY MarkedIsStream
<1>2. /\ had \in Seq(ToSet(st)) /\ Sound(st, r, had) /\ AllWait(r)
      /\ r.eof_flag => said.ended
  BY PushedIsNext DEF GoodAfterSyn
<1>3. Len(data) \in Nat /\ (FIN => i + Len(data) = Len(st))
  BY <1>1, LenProperties DEF IsSlice
<1>s. Step(st, had, noted, q) => Step(MarkedStream(said), MarkOf(said) \o read, noted, q)
  OBVIOUS
<1> HIDE DEF st, had
<1>4. Step(st, had, noted, q)
  BY <1>1, <1>2, <1>3, InsertIsSound
<1>5. Noted(r, noted, FIN, i + Len(data))
  <2>1. FIN => i + Len(data) = Len(st) \/ i + Len(data) < r.next_index
    BY <1>3
  <2> QED
    BY <1>1, <1>2, <1>3, <2>1, NoteEofIsSound, Zenon
<1> HIDE DEF noted, q
<1>6. /\ noted.next_index = r.next_index /\ noted.output = r.output
      /\ noted.eof_flag => said.ended
  BY <1>2, <1>5 DEF Noted
<1>7. GoodAfterSyn(said, q, read) /\ Advance(r.output, q.output)
  BY <1>4, <1>6, <1>s, StepAdvances
<1> QED
  BY <1>7 DEF q

\* What a receiver acknowledges.
LEMMA AckedIsIndex ==
  ASSUME NEW said, IsSaid(said), NEW cap \in Nat, NEW tr, NEW read,
         ReceiverOK(said, cap, tr, read), HasValue(tr.isn)
  PROVE  /\ GoodAfterSyn(said, tr.reassembler, read) /\ tr.isn = Some(said.isn)
         /\ tr.syn_received = TRUE
         /\ Inbound(tr).bytes_pushed \in 0 .. Len(said.stream)
         /\ Acked(tr) = Inbound(tr).bytes_pushed + 1 + Count(Inbound(tr).is_closed)
         /\ Acked(tr) \in 1 .. Len(said.stream) + 2
         /\ Inbound(tr).is_closed => Inbound(tr).bytes_pushed = Len(said.stream) /\ said.ended
<1>1. tr # NewReceiver(cap)
  BY DEF NewReceiver, HasValue
<1>2. /\ tr = [ reassembler |-> tr.reassembler, syn_received |-> TRUE, isn |-> Some(said.isn) ]
      /\ GoodAfterSyn(said, tr.reassembler, read) /\ read \in Seq(ToSet(said.stream))
  BY <1>1 DEF ReceiverOK
<1>3. tr.isn = Some(said.isn) /\ tr.syn_received = TRUE
  BY <1>2
<1> DEFINE r == tr.reassembler
<1>4. /\ r.output.bytes_pushed \in 0 .. Len(said.stream) /\ r.output.bytes_pushed + 1 = r.next_index
      /\ Len(said.stream) \in Nat /\ r.output.is_closed \in BOOLEAN
      /\ Len(MarkedStream(said)) = Len(said.stream) + 1
      /\ r.output.is_closed => r.eof_flag /\ r.next_index = Len(MarkedStream(said))
      /\ r.eof_flag => said.ended
  <2>1. r.output \in ByteStreams(ToSet(MarkedStream(said)))
    BY <1>2, PushedIsNext
  <2> QED
    BY <1>2, <2>1, PushedIsNext, StreamIsStream, MarkedIsStream
       DEF GoodAfterSyn, Sound, ByteStreams
<1>5. Acked(tr) = r.output.bytes_pushed + 1 + Count(r.output.is_closed)
  BY DEF Acked, AbsoluteAckno, Inbound
<1>6. Acked(tr) \in 1 .. Len(said.stream) + 2
  BY <1>4, <1>5, CountOfFlag
<1> QED
  BY <1>2, <1>3, <1>4, <1>5, <1>6 DEF Inbound

LEMMA NewReceiverFacts ==
  ASSUME NEW cap \in Nat
  PROVE  LET tr == NewReceiver(cap)
         IN  /\ tr.isn = None /\ tr.syn_received = FALSE /\ ~HasValue(tr.isn)
             /\ tr.reassembler = NewReassembler(cap) /\ Acked(tr) = 0
             /\ Inbound(tr).bytes_pushed = 0 /\ Inbound(tr).buffer = << >>
             /\ Inbound(tr).bytes_popped = 0 /\ Inbound(tr).capacity = cap
             /\ ~Inbound(tr).is_closed /\ ~Inbound(tr).error
BY DEF NewReceiver, HasValue, Acked, Inbound, NewReassembler, NewByteStream

\* A message of the sender, whatever came before it, keeps a receiver sound, and
\* takes no acknowledgment back.
LEMMA ReceiveIsOK ==
  ASSUME NEW said, IsSaid(said), 2 * (Len(said.stream) + 2) < Modulus, NEW cap \in Nat,
         NEW tr, NEW read, ReceiverOK(said, cap, tr, read), NEW m, Spoken(said, m)
  PROVE  /\ ReceiverOK(said, cap, ReceiverReceive(tr, m), read)
         /\ Acked(ReceiverReceive(tr, m)) >= Acked(tr)
         /\ Inbound(tr).is_closed => Inbound(ReceiverReceive(tr, m)).is_closed
         /\ HasValue(tr.isn) => HasValue(ReceiverReceive(tr, m).isn)
<1> DEFINE q == ReceiverReceive(tr, m)
<1>1. PICK i \in 0 .. Len(said.stream) + 2 :
        /\ m.seqno = Wrap(i, said.isn)
        /\ IsSlice(MarkedStream(said), m.payload, i)
        /\ m.SYN => i = 0 /\ m.payload = << >> /\ ~m.FIN
        /\ m.FIN => said.ended /\ i + Len(m.payload) = Len(said.stream) + 1
  BY DEF Spoken
<1>2. /\ ~m.RST /\ m.SYN \in BOOLEAN /\ m.FIN \in BOOLEAN /\ Len(said.stream) \in Nat
      /\ read \in Seq(ToSet(said.stream)) /\ i \in Nat
  BY StreamIsStream DEF Spoken, ReceiverOK
<1>3. CASE ~HasValue(tr.isn)
  <2>1. tr = NewReceiver(cap) /\ read = << >>
    <3>1. CASE tr = [ reassembler |-> tr.reassembler, syn_received |-> TRUE, isn |-> Some(said.isn) ]
      <4>1. tr.isn = Some(said.isn)
        BY <3>1
      <4> QED
        BY <1>3, <4>1 DEF HasValue, Some, None
    <3> QED
      BY <3>1 DEF ReceiverOK
  <2>2. /\ ~tr.syn_received /\ tr.reassembler = NewReassembler(cap) /\ Acked(tr) = 0
        /\ Inbound(tr).capacity = cap /\ ~Inbound(tr).is_closed
    BY <2>1, NewReceiverFacts
  <2>3. CASE m.SYN
    <3> DEFINE begun == Begun(cap)
    <3>1. i = 0 /\ m.payload = << >> /\ ~m.FIN
      BY <1>1, <2>3
    <3>2. m.seqno = said.isn
      <4>1. said.isn \in Wraps
        BY DEF IsSaid
      <4>2. \A z \in Wraps : Wrap(0, z) = z
        BY ModulusAssumption DEF Wrap, Wraps
      <4> QED
        BY <1>1, <3>1, <4>1, <4>2
    <3>3. q = [ reassembler |-> begun, syn_received |-> TRUE, isn |-> Some(said.isn) ]
      <4>1. q = ReceiveSyn(tr, m)
        BY <1>2, <2>2, <2>3 DEF ReceiverReceive
      <4> QED
        BY <2>2, <3>1, <3>2, <4>1 DEF ReceiveSyn, Begun
    <3>4. /\ Sound(MarkedStream(said), begun, MarkOf(said)) /\ AllWait(begun)
          /\ begun.output.bytes_popped = 0 /\ begun.output.capacity = cap /\ ~begun.eof_flag
      BY BegunIsSound
    <3> HIDE DEF begun, q
    <3>5. GoodAfterSyn(said, begun, << >>)
      <4>1. MarkOf(said) \o << >> = MarkOf(said) /\ Len(<< >>) = 0
        BY MarkedIsStream, ConcatEmptySeq, EmptySeq
      <4> QED
        BY <3>4, <4>1 DEF GoodAfterSyn
    <3>6. ReceiverOK(said, cap, q, << >>)
      BY <1>2, <2>1, <3>3, <3>4, <3>5 DEF ReceiverOK, Inbound
    <3>7. HasValue(q.isn)
      BY <3>3 DEF HasValue, Some, None
    <3>8. Acked(q) \in 1 .. Len(said.stream) + 2
      BY <3>6, <3>7, AckedIsIndex
    <3> QED
      BY <1>2, <1>3, <2>1, <2>2, <3>6, <3>8 DEF q
  <2>4. CASE ~m.SYN
    <3>1. q = tr
      BY <1>2, <1>3, <2>4 DEF ReceiverReceive
    <3> QED
      BY <1>3, <2>2, <3>1
  <2> QED
    BY <2>3, <2>4
<1>4. CASE HasValue(tr.isn)
  <2> DEFINE r == tr.reassembler
             p == Insert(r, i, m.payload, m.FIN)
  <2>1. /\ GoodAfterSyn(said, r, read) /\ tr.isn = Some(said.isn) /\ tr.syn_received = TRUE
        /\ Inbound(tr).bytes_pushed \in 0 .. Len(said.stream)
        /\ Acked(tr) = Inbound(tr).bytes_pushed + 1 + Count(Inbound(tr).is_closed)
    BY <1>4, AckedIsIndex
  <2>2. /\ GoodAfterSyn(said, p, read) /\ Advance(r.output, p.output)
    BY <1>1, <1>2, <2>1, DataIsTaken
  <2>3. StreamIndex(tr, m) = i
    <3>1. Value(tr.isn) = said.isn /\ said.isn \in Wraps
      BY <2>1 DEF Value, Some, IsSaid
    <3>2. 2 * Distance(i, Inbound(tr).bytes_pushed) < Modulus /\ Inbound(tr).bytes_pushed \in Nat
      <4> DEFINE at == Inbound(tr).bytes_pushed
                 n == Len(said.stream)
      <4>1. at \in 0 .. n /\ i \in 0 .. n + 2 /\ n \in Nat /\ 2 * (n + 2) < Modulus /\ Modulus \in Nat
        BY <1>2, <2>1, ModulusAssumption
      <4> HIDE DEF at, n
      <4>2. 2 * Distance(i, at) < Modulus /\ at \in Nat
        BY <4>1 DEF Distance
      <4> QED
        BY <4>2 DEF at
    <3>3. Unwrap(m.seqno, Value(tr.isn), Inbound(tr).bytes_pushed) = i
      BY <1>1, <1>2, <3>1, <3>2, RoundTrip
    <3> QED
      BY <1>1, <3>3 DEF StreamIndex
  <2>4. q = [tr EXCEPT !.reassembler = p]
    <3>1. q = ReceiveData(tr, m)
      BY <1>2, <1>4, <2>1 DEF ReceiverReceive
    <3> QED
      BY <2>3, <3>1 DEF ReceiveData
  <2> HIDE DEF p, q
  <2>5. q = [ reassembler |-> p, syn_received |-> TRUE, isn |-> Some(said.isn) ]
    <3>1. tr = [ reassembler |-> tr.reassembler, syn_received |-> TRUE, isn |-> Some(said.isn) ]
      BY <2>1, NewReceiverFacts DEF ReceiverOK
    <3> DEFINE old == tr.reassembler
               isn == Some(said.isn)
    <3>2. tr = [ reassembler |-> old, syn_received |-> TRUE, isn |-> isn ]
      BY <3>1
    <3> HIDE DEF old, isn
    <3>3. q = [ reassembler |-> p, syn_received |-> TRUE, isn |-> isn ]
      BY <2>4, <3>2
    <3> QED
      BY <3>3 DEF isn
  <2>6. ReceiverOK(said, cap, q, read)
    BY <1>2, <2>2, <2>5 DEF ReceiverOK, Advance, Inbound
  <2>7. HasValue(q.isn)
    BY <2>5 DEF HasValue, Some, None
  <2>8. /\ Inbound(q).bytes_pushed \in 0 .. Len(said.stream)
        /\ Acked(q) = Inbound(q).bytes_pushed + 1 + Count(Inbound(q).is_closed)
    BY <2>6, <2>7, AckedIsIndex
  <2>9. /\ Inbound(q).bytes_pushed >= Inbound(tr).bytes_pushed
        /\ Inbound(tr).is_closed => Inbound(q).is_closed
    BY <2>2, <2>5 DEF Advance, Inbound
  <2>10. Acked(q) >= Acked(tr)
    <3> DEFINE a == Inbound(tr).bytes_pushed
               b == Inbound(q).bytes_pushed
    <3>1. a \in Nat /\ b \in Nat /\ b >= a
      BY <1>2, <2>1, <2>8, <2>9
    <3>2. Count(Inbound(q).is_closed) >= Count(Inbound(tr).is_closed)
      BY <2>9 DEF Count
    <3>3. Count(Inbound(q).is_closed) \in Nat /\ Count(Inbound(tr).is_closed) \in Nat
      BY DEF Count
    <3> HIDE DEF a, b
    <3>4. b + 1 + Count(Inbound(q).is_closed) >= a + 1 + Count(Inbound(tr).is_closed)
      BY <3>1, <3>2, <3>3
    <3> QED
      BY <2>1, <2>8, <3>4 DEF a, b
  <2> QED
    BY <2>6, <2>7, <2>9, <2>10 DEF q
<1> QED
  BY <1>3, <1>4

-----------------------------------------------------------------------------
(* What a receiver replies *)

\* A reply as the receiver that acknowledges acked may have sent it, or earlier.
Heard(acked, cap, isn, reply) ==
  /\ reply = ReceiverMessage(reply.ackno, reply.window_size, reply.RST)
  /\ ~reply.RST /\ reply.window_size \in 0 .. cap
  /\ \/ reply.ackno = None /\ reply.window_size > 0
     \/ \E a \in 0 .. acked : reply.ackno = Some(Wrap(a, isn))

LEMMA SendIsHeard ==
  ASSUME NEW said, IsSaid(said), NEW cap \in Nat \ {0}, MaxWindow \in Nat \ {0},
         NEW tr, NEW read, ReceiverOK(said, cap, tr, read)
  PROVE  Heard(Acked(tr), cap, said.isn, ReceiverSend(tr)) /\ Acked(tr) \in 0 .. Len(said.stream) + 2
<1> DEFINE reply == ReceiverSend(tr)
           space == AvailableCapacity(Inbound(tr))
<1>1. Len(said.stream) \in Nat
  BY StreamIsStream
<1>2. CASE ~HasValue(tr.isn)
  <2>1. tr = NewReceiver(cap)
    <3>1. CASE tr = [ reassembler |-> tr.reassembler, syn_received |-> TRUE, isn |-> Some(said.isn) ]
      <4>1. tr.isn = Some(said.isn)
        BY <3>1
      <4> QED
        BY <1>2, <4>1 DEF HasValue, Some, None
    <3> QED
      BY <3>1 DEF ReceiverOK
  <2>2. /\ Acked(tr) = 0 /\ ~Inbound(tr).error
        /\ Inbound(tr).bytes_pushed = 0 /\ Inbound(tr).bytes_popped = 0
        /\ Inbound(tr).capacity = cap
    BY <2>1, NewReceiverFacts
  <2>3. space = cap
    BY <2>2 DEF AvailableCapacity
  <2> HIDE DEF space
  <2>4. reply = ReceiverMessage(None, MinOf(space, MaxWindow), FALSE)
    BY <1>2, <2>2 DEF ReceiverSend, space
  <2>5. /\ ~reply.RST /\ reply.ackno = None /\ reply.window_size = MinOf(space, MaxWindow)
        /\ reply = ReceiverMessage(reply.ackno, reply.window_size, reply.RST)
    BY <2>4 DEF ReceiverMessage
  <2> HIDE DEF reply
  <2>6. reply.window_size \in 0 .. cap /\ reply.window_size > 0
    BY <2>3, <2>5 DEF MinOf
  <2> QED
    BY <1>1, <2>2, <2>5, <2>6 DEF Heard, reply
<1>3. CASE HasValue(tr.isn)
  <2>1. /\ GoodAfterSyn(said, tr.reassembler, read) /\ tr.isn = Some(said.isn)
        /\ Acked(tr) \in 1 .. Len(said.stream) + 2
    BY <1>3, AckedIsIndex
  <2>2. /\ OutputOK(MarkedStream(said), Inbound(tr)) /\ Inbound(tr).capacity = cap
    BY <2>1 DEF GoodAfterSyn, Sound, Inbound, ReceiverOK
  <2>3. ~Inbound(tr).error /\ space \in 0 .. cap
    <3>1. /\ Len(Inbound(tr).buffer) \in Nat /\ Len(Inbound(tr).buffer) <= cap /\ ~Inbound(tr).error
          /\ Inbound(tr).bytes_popped \in Nat
          /\ Inbound(tr).bytes_pushed = Inbound(tr).bytes_popped + Len(Inbound(tr).buffer)
      BY <2>2, LenProperties DEF OutputOK, ByteStreams
    <3> QED
      BY <2>2, <3>1 DEF AvailableCapacity
  <2> HIDE DEF space
  <2>4. reply = ReceiverMessage(Some(Wrap(Acked(tr), said.isn)), MinOf(space, MaxWindow), FALSE)
    <3>1. Value(tr.isn) = said.isn /\ Acked(tr) = AbsoluteAckno(tr)
      BY <1>3, <2>1 DEF Value, Some, Acked
    <3> QED
      BY <1>3, <2>3, <3>1 DEF ReceiverSend, space
  <2>5. /\ ~reply.RST /\ reply.ackno = Some(Wrap(Acked(tr), said.isn))
        /\ reply.window_size = MinOf(space, MaxWindow)
        /\ reply = ReceiverMessage(reply.ackno, reply.window_size, reply.RST)
    BY <2>4 DEF ReceiverMessage
  <2> HIDE DEF reply
  <2>6. reply.window_size \in 0 .. cap
    BY <2>3, <2>5 DEF MinOf
  <2>7. Acked(tr) \in 0 .. Acked(tr) /\ Acked(tr) \in 0 .. Len(said.stream) + 2
    BY <1>1, <2>1
  <2> QED
    BY <2>5, <2>6, <2>7 DEF Heard, reply
<1> QED
  BY <1>2, <1>3

LEMMA HeardLater ==
  ASSUME NEW acked \in Nat, NEW later \in Nat, acked <= later, NEW cap, NEW isn, NEW reply,
         Heard(acked, cap, isn, reply)
  PROVE  Heard(later, cap, isn, reply)
<1>1. 0 .. acked \subseteq 0 .. later
  OBVIOUS
<1> QED
  BY <1>1, Zenon DEF Heard

-----------------------------------------------------------------------------
(* More is written, or the stream is ended *)

Begins(st, more) ==
  /\ IsStream(st) /\ IsStream(more) /\ Len(st) <= Len(more)
  /\ \A i \in 1 .. Len(st) : more[i] = st[i]

LEMMA BeginsHasAll ==
  ASSUME NEW st, NEW more, Begins(st, more)
  PROVE  /\ ToSet(st) \subseteq ToSet(more) /\ Seq(ToSet(st)) \subseteq Seq(ToSet(more))
         /\ ByteStreams(ToSet(st)) \subseteq ByteStreams(ToSet(more))
<1>1. Len(st) \in Nat /\ Len(more) \in Nat /\ Len(st) <= Len(more) /\ DOMAIN st = 1 .. Len(st)
  BY LenProperties DEF Begins, IsStream
<1>2. \A i \in 1 .. Len(st) : st[i] \in ToSet(more)
  <2> TAKE i \in 1 .. Len(st)
  <2>1. i \in 1 .. Len(more)
    BY <1>1
  <2>2. more[i] \in ToSet(more)
    BY <2>1, ElementOfSeq DEF Begins, IsStream
  <2> QED
    BY <2>2 DEF Begins
<1>3. ToSet(st) \subseteq ToSet(more)
  BY <1>1, <1>2 DEF ToSet
<1>4. ASSUME NEW s \in Seq(ToSet(st)) PROVE s \in Seq(ToSet(more))
  <2>1. /\ Len(s) \in Nat /\ s = [i \in 1 .. Len(s) |-> s[i]]
        /\ \A i \in 1 .. Len(s) : s[i] \in ToSet(st)
    BY LenProperties, ElementOfSeq, SeqDef
  <2>2. s \in [1 .. Len(s) -> ToSet(more)]
    BY <1>3, <2>1
  <2> QED
    BY <2>1, <2>2, SeqDef
<1>5. Seq(ToSet(st)) \subseteq Seq(ToSet(more))
  BY <1>4
<1> DEFINE S == Seq(ToSet(st))
           T == Seq(ToSet(more))
<1>6. ByteStreams(ToSet(st)) \subseteq ByteStreams(ToSet(more))
  <2>1. S \subseteq T
    BY <1>5
  <2> HIDE DEF S, T
  <2> QED
    BY <2>1 DEF ByteStreams, S, T
<1> QED
  BY <1>3, <1>5, <1>6

LEMMA SliceOfMore ==
  ASSUME NEW st, NEW more, Begins(st, more), NEW k \in Nat, NEW s, IsSlice(st, s, k)
  PROVE  IsSlice(more, s, k)
<1>1. /\ Len(s) \in Nat /\ Len(st) \in Nat /\ Len(more) \in Nat /\ Len(st) <= Len(more)
      /\ Len(s) > 0 => k + Len(s) <= Len(st)
      /\ s \in Seq(ToSet(more))
  BY LenProperties, BeginsHasAll DEF Begins, IsStream, IsSlice
<1>2. \A i \in 1 .. Len(s) : s[i] = more[k + i]
  <2> TAKE i \in 1 .. Len(s)
  <2>1. k + i \in 1 .. Len(st)
    BY <1>1
  <2> QED
    BY <2>1 DEF Begins, IsSlice
<1> QED
  BY <1>1, <1>2 DEF IsSlice

\* As long as no end was noted, what is sound stays so.
LEMMA SoundOfMore ==
  ASSUME NEW st, NEW more, Begins(st, more), NEW r, NEW read, Sound(st, r, read),
         r.eof_flag => more = st
  PROVE  Sound(more, r, read)
<1>1. CASE r.eof_flag
  BY <1>1
<1>2. CASE ~r.eof_flag
  <2>1. IsReassembler(more, r)
    <3> DEFINE S == ByteStreams(ToSet(st))
               T == ByteStreams(ToSet(more))
    <3>1. S \subseteq T
      BY BeginsHasAll
    <3>2. r \in [ output : S, segments : {r.segments}, next_index : Nat,
                  bytes_pending : {r.bytes_pending}, eof_flag : BOOLEAN, eof_index : Nat ]
      BY DEF Sound, IsReassembler
    <3> HIDE DEF S, T
    <3>3. r \in [ output : T, segments : {r.segments}, next_index : Nat,
                  bytes_pending : {r.bytes_pending}, eof_flag : BOOLEAN, eof_index : Nat ]
      BY <3>1, <3>2
    <3> QED
      BY <3>3 DEF IsReassembler, T
  <2>2. OutputOK(more, r.output)
    BY BeginsHasAll DEF Sound, OutputOK
  <2>3. SegmentsOK(more, r.segments)
    <3>1. \A k \in DOMAIN r.segments : k \in Nat /\ IsSlice(st, r.segments[k], k)
      BY DEF Sound, SegmentsOK
    <3>2. \A k \in DOMAIN r.segments : IsSlice(more, r.segments[k], k)
      BY <3>1, SliceOfMore
    <3> QED
      BY <3>2 DEF Sound, SegmentsOK
  <2>4. IsSlice(more, read \o r.output.buffer, 0)
    BY SliceOfMore DEF Sound
  <2> QED
    BY <1>2, <2>1, <2>2, <2>3, <2>4 DEF Sound
<1> QED
  BY <1>1, <1>2

Grows(said, more) ==
  /\ IsSaid(said) /\ IsSaid(more) /\ more.isn = said.isn
  /\ Len(said.stream) <= Len(more.stream)
  /\ \A i \in 1 .. Len(said.stream) : more.stream[i] = said.stream[i]
  /\ said.ended => more.ended /\ more.stream = said.stream

LEMMA GrownBegins ==
  ASSUME NEW said, NEW more, Grows(said, more)
  PROVE  /\ Begins(said.stream, more.stream)
         /\ Begins(MarkedStream(said), MarkedStream(more))
         /\ MarkOf(more) = MarkOf(said)
         /\ said.ended => MarkedStream(more) = MarkedStream(said)
<1>1. /\ IsSaid(said) /\ IsSaid(more) /\ more.isn = said.isn
      /\ Len(said.stream) <= Len(more.stream)
      /\ \A i \in 1 .. Len(said.stream) : more.stream[i] = said.stream[i]
      /\ said.ended => more.stream = said.stream
  BY DEF Grows
<1>2. IsStream(said.stream) /\ IsStream(more.stream) /\ Len(said.stream) \in Nat /\ Len(more.stream) \in Nat
  BY <1>1, StreamIsStream
<1>3. MarkOf(more) = MarkOf(said) /\ (said.ended => MarkedStream(more) = MarkedStream(said))
  BY <1>1 DEF MarkOf, MarkedStream
<1> DEFINE st == MarkedStream(said)
           new == MarkedStream(more)
<1>4. /\ IsStream(st) /\ Len(st) = Len(said.stream) + 1 /\ st[1] = said.isn
      /\ \A i \in 1 .. Len(said.stream) : st[i + 1] = said.stream[i]
  BY <1>1, MarkedIsStream
<1>5. /\ IsStream(new) /\ Len(new) = Len(more.stream) + 1 /\ new[1] = more.isn
      /\ \A i \in 1 .. Len(more.stream) : new[i + 1] = more.stream[i]
  BY <1>1, MarkedIsStream
<1> HIDE DEF st, new
<1>6. \A i \in 1 .. Len(st) : new[i] = st[i]
  <2> TAKE i \in 1 .. Len(st)
  <2>1. CASE i = 1
    BY <1>1, <1>4, <1>5, <2>1
  <2>2. CASE i # 1
    <3> DEFINE j == i - 1
    <3>1. j \in 1 .. Len(said.stream) /\ j \in 1 .. Len(more.stream) /\ j + 1 = i
      BY <1>1, <1>2, <1>4, <2>2
    <3> HIDE DEF j
    <3>2. st[j + 1] = said.stream[j] /\ new[j + 1] = more.stream[j]
      BY <1>4, <1>5, <3>1
    <3> QED
      BY <1>1, <3>1, <3>2
  <2> QED
    BY <2>1, <2>2
<1>7. Begins(st, new)
  BY <1>1, <1>2, <1>4, <1>5, <1>6 DEF Begins
<1> QED
  BY <1>1, <1>2, <1>3, <1>7 DEF Begins, st, new

\* What was said stays said.
LEMMA SpokenLater ==
  ASSUME NEW said, NEW more, Grows(said, more), NEW m, Spoken(said, m)
  PROVE  Spoken(more, m)
<1>1. PICK i \in 0 .. Len(said.stream) + 2 :
        /\ m.seqno = Wrap(i, said.isn)
        /\ IsSlice(MarkedStream(said), m.payload, i)
        /\ m.SYN => i = 0 /\ m.payload = << >> /\ ~m.FIN
        /\ m.FIN => said.ended /\ i + Len(m.payload) = Len(said.stream) + 1
  BY DEF Spoken
<1>2. /\ more.isn = said.isn /\ Len(said.stream) \in Nat /\ Len(more.stream) \in Nat
      /\ Len(said.stream) <= Len(more.stream)
      /\ said.ended => more.ended /\ more.stream = said.stream
  BY StreamIsStream DEF Grows
<1>3. IsSlice(MarkedStream(more), m.payload, i)
  BY <1>1, <1>2, GrownBegins, SliceOfMore
<1>4. i \in 0 .. Len(more.stream) + 2
  BY <1>2
<1> QED
  BY <1>1, <1>2, <1>3, <1>4 DEF Spoken

LEMMA ReceiverOKLater ==
  ASSUME NEW said, NEW more, Grows(said, more), NEW cap, NEW tr, NEW read,
         ReceiverOK(said, cap, tr, read)
  PROVE  ReceiverOK(more, cap, tr, read)
<1>1. read \in Seq(ToSet(more.stream))
  BY GrownBegins, BeginsHasAll DEF ReceiverOK
<1>2. ASSUME GoodAfterSyn(said, tr.reassembler, read)
      PROVE  GoodAfterSyn(more, tr.reassembler, read)
  <2> DEFINE r == tr.reassembler
  <2>1. /\ Sound(MarkedStream(said), r, MarkOf(said) \o read) /\ AllWait(r)
        /\ r.output.bytes_popped = Len(read) /\ (r.eof_flag => said.ended)
    BY <1>2 DEF GoodAfterSyn
  <2>2. /\ MarkOf(more) = MarkOf(said) /\ (r.eof_flag => more.ended)
        /\ r.eof_flag => MarkedStream(more) = MarkedStream(said)
    BY <2>1, GrownBegins DEF Grows
  <2>3. Sound(MarkedStream(more), r, MarkOf(said) \o read)
    BY <2>1, <2>2, GrownBegins, SoundOfMore
  <2> QED
    BY <2>1, <2>2, <2>3 DEF GoodAfterSyn
<1>3. more.isn = said.isn
  BY DEF Grows
<1> QED
  BY <1>1, <1>2, <1>3 DEF ReceiverOK

-----------------------------------------------------------------------------
(* The reader *)

LEMMA ReadIsOK ==
  ASSUME NEW said, IsSaid(said), NEW cap \in Nat, NEW tr, NEW read,
         ReceiverOK(said, cap, tr, read), HasValue(tr.isn),
         NEW n \in 0 .. Len(Inbound(tr).buffer),
         NEW q, q = [tr EXCEPT !.reassembler.output = Pop(@, n)]
  PROVE  /\ ReceiverOK(said, cap, q, read \o Take(Inbound(tr).buffer, n))
         /\ Acked(q) = Acked(tr) /\ HasValue(q.isn)
         /\ Inbound(q).is_closed = Inbound(tr).is_closed
         /\ Inbound(q) = Pop(Inbound(tr), n)
<1> DEFINE r == tr.reassembler
           bs == r.output
           p == AfterPop(r, n)
           taken == Take(bs.buffer, n)
           now == read \o taken
           had == MarkOf(said) \o read
           st == MarkedStream(said)
<1>1. /\ GoodAfterSyn(said, r, read) /\ tr.isn = Some(said.isn) /\ tr.syn_received = TRUE
      /\ Acked(tr) = bs.bytes_pushed + 1 + Count(bs.is_closed)
      /\ read \in Seq(ToSet(said.stream)) /\ bs.capacity = cap
  BY AckedIsIndex DEF Inbound, ReceiverOK
<1>2. tr = [ reassembler |-> r, syn_received |-> TRUE, isn |-> Some(said.isn) ]
  BY <1>1, NewReceiverFacts DEF ReceiverOK
<1>3. q = [ reassembler |-> p, syn_received |-> TRUE, isn |-> Some(said.isn) ]
  <2> DEFINE left == Pop(bs, n)
             old == tr.reassembler
             isn == Some(said.isn)
  <2>1. /\ q = [tr EXCEPT !.reassembler.output = left] /\ p = [old EXCEPT !.output = left]
        /\ tr = [ reassembler |-> old, syn_received |-> TRUE, isn |-> isn ]
    BY <1>2 DEF AfterPop
  <2> HIDE DEF left, old, isn, p
  <2>2. q = [ reassembler |-> p, syn_received |-> TRUE, isn |-> isn ]
    BY <2>1
  <2> QED
    BY <2>2 DEF isn
<1>4. /\ Sound(st, r, had) /\ AllWait(r) /\ had \in Seq(ToSet(st)) /\ IsStream(st)
      /\ bs \in ByteStreams(ToSet(st)) /\ ~bs.error /\ bs.buffer \in Seq(ToSet(st))
      /\ Len(bs.buffer) \in Nat /\ bs.bytes_pushed \in Nat
      /\ bs.bytes_pushed + 1 = r.next_index /\ (r.eof_flag => said.ended)
      /\ IsSlice(said.stream, read \o bs.buffer, 0)
  <2>1. /\ bs.bytes_pushed + 1 = r.next_index /\ had \in Seq(ToSet(st))
        /\ bs \in ByteStreams(ToSet(st)) /\ IsSlice(said.stream, read \o bs.buffer, 0)
    BY <1>1, PushedIsNext
  <2>2. bs.buffer \in Seq(ToSet(st)) /\ bs.bytes_pushed \in Nat
    BY <2>1 DEF ByteStreams
  <2> QED
    BY <1>1, <2>1, <2>2, MarkedIsStream, LenProperties DEF GoodAfterSyn, Sound, OutputOK
<1>5. Removed(bs, n) = n
  <2>1. n \in 0 .. Len(bs.buffer)
    BY DEF Inbound
  <2>2. IsFinished(bs) => Len(bs.buffer) = 0
    BY EmptySeq DEF IsFinished
  <2>3. MinOf(n, Len(bs.buffer)) = n
    BY <1>4, <2>1 DEF MinOf
  <2> QED
    BY <1>4, <2>1, <2>2, <2>3 DEF Removed
<1>6. /\ Sound(st, p, ReadAfterPop(r, had, n)) /\ AllWait(p) /\ PopStep(r, p)
  <2>1. n \in Nat
    OBVIOUS
  <2> HIDE DEF st, had
  <2> QED
    BY <1>4, <2>1, PopIsSound
<1>7. taken \in Seq(ToSet(said.stream)) /\ taken \in Seq(ToSet(st))
  <2>1. n \in 0 .. Len(bs.buffer)
    BY DEF Inbound
  <2>2. bs.buffer \in Seq(ToSet(said.stream))
    BY <1>1, <1>4, TailIsSeq DEF IsSlice
  <2> QED
    BY <1>4, <2>1, <2>2, Cut
<1>8. now \in Seq(ToSet(said.stream)) /\ Len(now) \in Nat
  BY <1>1, <1>7, ConcatProperties, LenProperties
<1>9. ReadAfterPop(r, had, n) = MarkOf(said) \o now
  <2>1. MarkOf(said) \in Seq(ToSet(st)) /\ read \in Seq(ToSet(st))
    <3>1. ToSet(said.stream) \subseteq ToSet(st)
      BY MarkedHasAll
    <3> QED
      BY <1>1, <1>4, MarkedIsStream, TailIsSeq
  <2> HIDE DEF taken, st
  <2>2. \A x, y, z \in Seq(ToSet(st)) : (x \o y) \o z = x \o (y \o z)
    BY Associates, SMTT(60)
  <2>3. had \o taken = MarkOf(said) \o now
    BY <1>7, <2>1, <2>2, Zenon
  <2> QED
    BY <1>5, <2>3, Zenon DEF ReadAfterPop, taken
<1> HIDE DEF now, taken, p, st
<1>10. p.output.bytes_popped = Len(now)
  <2>1. /\ OutputOK(st, p.output) /\ p.output \in ByteStreams(ToSet(st))
        /\ IsSlice(st, (MarkOf(said) \o now) \o p.output.buffer, 0)
        /\ Len(MarkOf(said) \o now) + Len(p.output.buffer) = p.next_index
    BY <1>6, <1>9 DEF Sound, OutputOK
  <2>2. p.output.buffer \in Seq(ToSet(st))
    BY <2>1 DEF ByteStreams
  <2>3. Len(MarkOf(said) \o now) = 1 + Len(now) /\ Len(p.output.buffer) \in Nat
    BY <1>8, <2>1, <2>2, BehindTheMark, LenProperties DEF st
  <2> DEFINE popped == p.output.bytes_popped
             pushed == p.output.bytes_pushed
             next == p.next_index
             left == Len(p.output.buffer)
  <2>4. pushed = popped + left /\ popped \in Nat /\ left \in Nat /\ pushed + 1 = next
    BY <1>4, <1>6, <2>1, <2>3 DEF PopStep, OutputOK, ByteStreams
  <2>5. (1 + Len(now)) + left = next
    BY <2>1, <2>3
  <2> HIDE DEF popped, pushed, next, left
  <2>6. popped = Len(now)
    BY <1>8, <2>4, <2>5
  <2> QED
    BY <2>6 DEF popped
<1>11. GoodAfterSyn(said, p, now)
  BY <1>4, <1>6, <1>9, <1>10 DEF GoodAfterSyn, PopStep, st
<1>12. ReceiverOK(said, cap, q, now)
  <2>1. Inbound(q).capacity = cap /\ q.reassembler = p
    BY <1>1, <1>3, <1>6 DEF PopStep, Inbound
  <2> QED
    BY <1>3, <1>8, <1>11, <2>1 DEF ReceiverOK
<1>13. HasValue(q.isn)
  BY <1>3 DEF HasValue, Some, None
<1>14. Acked(q) = Acked(tr) /\ Inbound(q).is_closed = Inbound(tr).is_closed
  <2>1. Acked(q) = Inbound(q).bytes_pushed + 1 + Count(Inbound(q).is_closed)
    BY <1>12, <1>13, AckedIsIndex
  <2>2. Inbound(q) = p.output
    BY <1>3 DEF Inbound
  <2>3. Inbound(q).bytes_pushed = bs.bytes_pushed /\ Inbound(q).is_closed = bs.is_closed
    BY <1>6, <2>2 DEF PopStep
  <2> QED
    BY <1>1, <2>1, <2>3 DEF Inbound
<1>15. Inbound(q) = Pop(bs, n)
  <2>1. r = [ output |-> r.output, segments |-> r.segments, next_index |-> r.next_index,
              bytes_pending |-> r.bytes_pending, eof_flag |-> r.eof_flag,
              eof_index |-> r.eof_index ]
    BY <1>4 DEF Sound, IsReassembler
  <2> HIDE DEF r
  <2>2. p.output = Pop(r.output, n)
    BY <2>1 DEF p, AfterPop
  <2> QED
    BY <1>3, <2>2 DEF Inbound, r
<1> QED
  BY <1>12, <1>13, <1>14, <1>15 DEF now, taken, Inbound

-----------------------------------------------------------------------------
(* What a sender has said *)

\* What a sender with w bytes of the stream to send has been given to say.
SaidSoFar(conv, s, w) ==
  [ stream |-> Take(conv.stream, w), isn |-> conv.isn, ended |-> s.input.is_closed ]

LEMMA SaidIsSaid ==
  ASSUME NEW conv, NEW w, NEW s, SoundSender(conv, s, w)
  PROVE  LET said == SaidSoFar(conv, s, w)
         IN  /\ IsSaid(said) /\ said.isn = conv.isn /\ said.ended = s.input.is_closed
             /\ said.stream = Take(conv.stream, w)
             /\ Len(said.stream) = w /\ w \in Nat /\ w <= Len(conv.stream) /\ Len(conv.stream) \in Nat
             /\ \A i \in 1 .. w : said.stream[i] = conv.stream[i]
             /\ ToSet(said.stream) \subseteq Bytes(conv)
<1> DEFINE said == SaidSoFar(conv, s, w)
           st == Take(conv.stream, w)
<1>1. /\ conv.stream \in Seq(Bytes(conv)) /\ conv.isn \in Wraps /\ s.input.is_closed \in BOOLEAN
      /\ w \in Nat /\ w <= Len(conv.stream) /\ Len(conv.stream) \in Nat /\ w \in 0 .. Len(conv.stream)
  BY InputIsTyped DEF SoundSender, IsConversation
<1>2. /\ st \in Seq(Bytes(conv)) /\ Len(st) = w
      /\ \A i \in 1 .. w : st[i] = conv.stream[i]
  BY <1>1, Parts
<1> HIDE DEF st
<1>3. st \in Seq(ToSet(st)) /\ \A x \in ToSet(st) : x \in Bytes(conv)
  BY <1>2, SeqOfElements
<1>4. said.stream = st /\ said.isn = conv.isn /\ said.ended = s.input.is_closed
  BY DEF SaidSoFar, st
<1> HIDE DEF said
<1>5. IsSaid(said)
  BY <1>1, <1>3, <1>4 DEF IsSaid
<1> QED
  BY <1>1, <1>2, <1>3, <1>4, <1>5 DEF said, st

\* How far a sender may have counted.
LEMMA CountsAreBounded ==
  ASSUME NEW conv, NEW w, NEW s, SoundSender(conv, s, w)
  PROVE  /\ s.next_seqno \in 0 .. w + 2 /\ w \in Nat
         /\ s.input.bytes_popped \in 0 .. w
         /\ ~s.fin_sent => s.next_seqno <= 1 + s.input.bytes_popped
         /\ s.fin_sent => /\ s.next_seqno = w + 2 /\ s.input.is_closed
                          /\ s.input.bytes_popped = w
<1>1. /\ s.input.bytes_popped \in Nat /\ Len(s.input.buffer) \in Nat /\ w \in Nat
      /\ s.syn_sent \in BOOLEAN /\ s.fin_sent \in BOOLEAN /\ s.next_seqno \in Nat
  BY InputIsTyped, SenderIsTyped
<1>2. /\ s.next_seqno = Count(s.syn_sent) + s.input.bytes_popped + Count(s.fin_sent)
      /\ s.fin_sent => s.input.is_closed /\ s.input.buffer = << >>
      /\ s.input.bytes_popped > 0 \/ s.fin_sent => s.syn_sent
      /\ s.input.bytes_popped + Len(s.input.buffer) = w
  BY DEF SoundSender, CountsSent, HoldsTheRest
<1>3. Count(s.syn_sent) \in 0 .. 1 /\ Count(s.fin_sent) \in 0 .. 1
  BY <1>1, CountOfFlag
<1>4. CASE s.fin_sent
  <2>1. s.syn_sent /\ Len(s.input.buffer) = 0
    BY <1>2, <1>4, EmptySeq
  <2>2. Count(s.syn_sent) = 1 /\ Count(s.fin_sent) = 1
    BY <1>4, <2>1 DEF Count
  <2>3. s.next_seqno = 1 + s.input.bytes_popped + 1 /\ s.input.bytes_popped + 0 = w
    BY <1>2, <2>1, <2>2
  <2>4. s.input.bytes_popped = w /\ s.next_seqno = w + 2 /\ w + 2 \in 0 .. w + 2 /\ w \in 0 .. w
    BY <1>1, <2>3
  <2> QED
    BY <1>1, <1>2, <1>4, <2>4
<1>5. CASE ~s.fin_sent
  <2>1. Count(s.fin_sent) = 0
    BY <1>5 DEF Count
  <2> QED
    BY <1>1, <1>2, <1>3, <1>5, <2>1
<1> QED
  BY <1>4, <1>5

\* What a sender keeps outstanding says what it was given.
LEMMA OutstandingIsSpoken ==
  ASSUME NEW conv, NEW w, NEW s, Ready(conv, s, w), NEW j \in 1 .. Len(s.outstanding)
  PROVE  Spoken(SaidSoFar(conv, s, w), s.outstanding[j].msg)
<1> DEFINE said == SaidSoFar(conv, s, w)
           g == s.outstanding[j]
           m == g.msg
           i == g.seqno
           n == Len(m.payload)
           first == IF m.SYN THEN 1 ELSE i
           st == MarkedStream(said)
<1>1. SoundSender(conv, s, w) /\ SynAlone(s)
  BY DEF Ready
<1>2. /\ m.SYN \in BOOLEAN /\ m.FIN \in BOOLEAN /\ ~m.RST /\ m.payload \in Seq(Bytes(conv))
      /\ i \in Nat /\ n \in Nat /\ g.length \in Nat \ {0}
      /\ m = SenderMessage(m.seqno, m.SYN, m.payload, m.FIN, m.RST)
  <2>1. g \in OutSegments(conv)
    BY <1>1, SenderIsTyped
  <2> QED
    BY <2>1, LenProperties DEF OutSegments, OutMessages, SenderMessage
<1>3. /\ g.length = Count(m.SYN) + n + Count(m.FIN)
      /\ m.seqno = Wrap(i, conv.isn)
      /\ m.SYN <=> i = 0
      /\ m.payload = SubSeq(conv.stream, first, first + n - 1)
      /\ m.FIN <=> s.fin_sent /\ EndOf(g) = s.next_seqno
  BY <1>1 DEF SoundSender, AllTrue, TrueSegment, SequenceLength
<1>4. EndOf(g) <= s.next_seqno /\ EndOf(g) = i + g.length
  <2>1. 1 \in 1 .. j
    BY <1>1, SenderIsTyped
  <2>2. EndOf(g) <= s.next_seqno
    BY <1>1, <2>1, RowIsOrdered
  <2> QED
    BY <2>2 DEF EndOf
<1>5. /\ s.next_seqno \in 0 .. w + 2 /\ w \in Nat /\ s.input.bytes_popped \in 0 .. w
      /\ ~s.fin_sent => s.next_seqno <= 1 + s.input.bytes_popped
      /\ s.fin_sent => s.next_seqno = w + 2 /\ s.input.is_closed
  BY <1>1, CountsAreBounded
<1>6. /\ IsSaid(said) /\ said.isn = conv.isn /\ said.ended = s.input.is_closed
      /\ Len(said.stream) = w /\ w <= Len(conv.stream) /\ Len(conv.stream) \in Nat
      /\ \A k \in 1 .. w : said.stream[k] = conv.stream[k]
      /\ conv.stream \in Seq(Bytes(conv))
  BY <1>1, SaidIsSaid DEF SoundSender, IsConversation
<1>7. m.SYN => g.length = 1
  BY <1>1 DEF SynAlone
<1> HIDE DEF said, g
<1>8. m.SYN => i = 0 /\ m.payload = << >> /\ ~m.FIN
  <2> SUFFICES ASSUME m.SYN PROVE n = 0 /\ ~m.FIN /\ i = 0
    BY <1>2, EmptySeq
  <2>1. Count(m.SYN) = 1 /\ Count(m.FIN) \in 0 .. 1 /\ (m.FIN => Count(m.FIN) = 1)
    BY <1>2, CountOfFlag
  <2>2. g.length = 1 /\ i = 0
    BY <1>3, <1>7
  <2>3. 1 + n + Count(m.FIN) = 1
    BY <1>3, <2>1, <2>2
  <2>4. n = 0 /\ Count(m.FIN) = 0
    <3> HIDE DEF n
    <3> QED
      BY <1>2, <2>1, <2>3
  <2> QED
    BY <1>2, <2>1, <2>2, <2>4
<1>9. m.FIN => said.ended /\ i + n = w + 1
  <2> SUFFICES ASSUME m.FIN PROVE said.ended /\ i + n = w + 1
    OBVIOUS
  <2>1. Count(m.SYN) = 0 /\ Count(m.FIN) = 1
    BY <1>2, <1>8 DEF Count
  <2>2. s.fin_sent /\ EndOf(g) = s.next_seqno
    BY <1>3
  <2>3. g.length = 0 + n + 1 /\ i + g.length = w + 2
    BY <1>3, <1>4, <1>5, <2>1, <2>2
  <2>4. i + n = w + 1
    <3> HIDE DEF n, i
    <3> QED
      BY <1>2, <1>5, <2>3
  <2> QED
    BY <1>5, <1>6, <2>2, <2>4
<1>10. n > 0 => i + n <= w + 1 /\ i >= 1 /\ ~m.SYN
  <2> SUFFICES ASSUME n > 0 PROVE i + n <= w + 1 /\ i >= 1 /\ ~m.SYN
    OBVIOUS
  <2>1. ~m.SYN /\ i >= 1
    BY <1>2, <1>3, <1>8, EmptySeq
  <2>2. CASE m.FIN
    BY <1>2, <1>5, <1>9, <2>1, <2>2
  <2>3. CASE ~m.FIN
    <3>1. i + n = EndOf(g)
      BY <1>2, <1>3, <1>4, <2>1, <2>3 DEF Count
    <3>2. s.fin_sent => EndOf(g) < s.next_seqno
      BY <1>2, <1>3, <1>4, <1>5, <2>3, <3>1
    <3> DEFINE end == EndOf(g)
               next == s.next_seqno
               popped == s.input.bytes_popped
    <3>3. /\ end = i + n /\ end <= next /\ next \in 0 .. w + 2 /\ w \in Nat /\ popped \in 0 .. w
          /\ ~s.fin_sent => next <= 1 + popped
          /\ s.fin_sent => end < next
      BY <1>4, <1>5, <3>1, <3>2
    <3> HIDE DEF end, next, popped, n, i
    <3>4. i + n <= w + 1
      BY <1>2, <3>3
    <3> QED
      BY <2>1, <3>4 DEF i
  <2> QED
    BY <2>2, <2>3
<1>11. IsStream(st) /\ Len(st) = w + 1 /\ \A k \in 1 .. w : st[k + 1] = said.stream[k]
  BY <1>6, MarkedIsStream
<1> HIDE DEF st
<1>12. \A k \in 1 .. n : m.payload[k] = st[i + k]
  <2> TAKE k \in 1 .. n
  <2>1. n > 0 /\ i >= 1 /\ ~m.SYN /\ i + n <= w + 1 /\ first = i
    BY <1>2, <1>10
  <2> DEFINE at == i + k - 1
  <2>2. at \in 1 .. w /\ at + 1 = i + k /\ at \in 1 .. Len(conv.stream)
    <3> DEFINE l == Len(conv.stream)
    <3>1. i \in Nat /\ n \in Nat /\ w \in Nat /\ l \in Nat /\ w <= l /\ k \in 1 .. n
          /\ i >= 1 /\ i + n <= w + 1
      BY <1>2, <1>5, <1>6, <2>1
    <3> HIDE DEF i, n, l
    <3>2. at \in 1 .. w /\ at + 1 = i + k /\ at \in 1 .. l
      BY <3>1
    <3> QED
      BY <3>2 DEF l
  <2>3. m.payload[k] = conv.stream[at]
    <3>1. i \in Int /\ i + n - 1 \in Int /\ k \in 1 .. (i + n - 1) - i + 1
      BY <1>2, <2>1
    <3>2. \A x \in i .. i + n - 1 : conv.stream[x] \in Bytes(conv)
      <4>1. \A x \in i .. i + n - 1 : x \in 1 .. Len(conv.stream)
        <5> DEFINE l == Len(conv.stream)
        <5>1. i \in Nat /\ n \in Nat /\ w \in Nat /\ l \in Nat /\ w <= l /\ i >= 1 /\ i + n <= w + 1
          BY <1>2, <1>5, <1>6, <2>1
        <5> HIDE DEF i, n, l
        <5>2. \A x \in i .. i + n - 1 : x \in 1 .. l
          BY <5>1
        <5> QED
          BY <5>2 DEF l
      <4>2. \A x \in 1 .. Len(conv.stream) : conv.stream[x] \in Bytes(conv)
        BY <1>6, ElementOfSeq
      <4> QED
        BY <4>1, <4>2
    <3>3. SubSeq(conv.stream, i, i + n - 1)[k] = conv.stream[i + k - 1]
      BY <3>1, <3>2, SubSeqProperties
    <3> QED
      BY <1>3, <2>1, <3>3
  <2> HIDE DEF at
  <2> QED
    BY <1>6, <1>11, <2>2, <2>3
<1>13. m.payload \in Seq(ToSet(st))
  <2>1. \A k \in 1 .. n : i + k \in 1 .. Len(st)
    <3> DEFINE l == Len(st)
    <3>1. i \in Nat /\ n \in Nat /\ w \in Nat /\ l = w + 1 /\ (n > 0 => i + n <= w + 1)
      BY <1>2, <1>5, <1>10, <1>11
    <3> HIDE DEF i, n, l
    <3>2. \A k \in 1 .. n : i + k \in 1 .. l
      BY <3>1
    <3> QED
      BY <3>2 DEF l
  <2>2. \A k \in 1 .. n : st[i + k] \in ToSet(st)
    BY <1>11, <2>1, ElementOfSeq DEF IsStream
  <2>3. m.payload = [k \in 1 .. n |-> m.payload[k]]
    BY <1>2, SeqDef, LenProperties
  <2>4. m.payload \in [1 .. n -> ToSet(st)]
    BY <1>12, <2>2, <2>3
  <2> QED
    BY <1>2, <2>4, SeqDef
<1>14. IsSlice(st, m.payload, i)
  BY <1>10, <1>11, <1>12, <1>13 DEF IsSlice
<1>15. i \in 0 .. Len(said.stream) + 2
  BY <1>2, <1>4, <1>5, <1>6
<1> QED
  BY <1>2, <1>3, <1>6, <1>8, <1>9, <1>14, <1>15 DEF Spoken, st, said, g

\* So does an empty message.
LEMMA EmptyIsSpoken ==
  ASSUME NEW conv, NEW w, NEW s, Ready(conv, s, w)
  PROVE  Spoken(SaidSoFar(conv, s, w), EmptyMessage(s))
<1> DEFINE said == SaidSoFar(conv, s, w)
           m == EmptyMessage(s)
           i == s.next_seqno
<1>1. SoundSender(conv, s, w) /\ ~s.input.error
  BY DEF Ready
<1>2. IsSaid(said) /\ said.isn = conv.isn /\ Len(said.stream) = w
  BY <1>1, SaidIsSaid
<1>3. i \in 0 .. Len(said.stream) + 2 /\ s.isn = conv.isn /\ i \in Nat
  BY <1>1, <1>2, CountsAreBounded, SenderIsTyped
<1>4. m = [ seqno |-> Wrap(i, said.isn), SYN |-> FALSE, payload |-> << >>, FIN |-> FALSE, RST |-> s.input.error ]
  BY <1>2, <1>3 DEF EmptyMessage, SenderMessage
<1> HIDE DEF m, said, i
<1>5. /\ m.seqno = Wrap(i, said.isn) /\ m.SYN = FALSE /\ m.payload = << >> /\ m.FIN = FALSE
      /\ ~m.RST /\ m = SenderMessage(m.seqno, m.SYN, m.payload, m.FIN, m.RST)
  BY <1>1, <1>4 DEF SenderMessage
<1>6. IsSlice(MarkedStream(said), m.payload, i)
  BY <1>5, EmptySeq DEF IsSlice
<1> QED
  BY <1>3, <1>5, <1>6 DEF Spoken, m, said, i

AllSpoken(said, sent) == \A i \in 1 .. Len(sent) : Spoken(said, sent[i])

LEMMA CarriedIsSpoken ==
  ASSUME NEW conv, NEW w, NEW s, Ready(conv, s, w), NEW sent, Carried(sent, s)
  PROVE  AllSpoken(SaidSoFar(conv, s, w), sent)
BY OutstandingIsSpoken DEF AllSpoken, Carried, Ready

-----------------------------------------------------------------------------
(* How much a sender has under way *)

Bounded(s, cap) == s.window_size \in 0 .. cap /\ s.bytes_in_flight <= cap

LEMMA PushIsBounded ==
  ASSUME NEW conv, NEW w, NEW s, Ready(conv, s, w), NEW cap \in Nat \ {0}, Bounded(s, cap)
  PROVE  /\ Bounded(SenderPush(s), cap)
         /\ SenderPush(s).input.is_closed = s.input.is_closed
<1> DEFINE q == SenderPush(s)
<1>1. SoundSender(conv, s, w)
  BY DEF Ready
<1>2. SoundSender(conv, q, w) /\ Pushed(s, q) /\ Ready(conv, q, w)
  BY <1>1, PushIsSound, PushIsReady
<1> HIDE DEF q
<1>3. /\ q.window_size = s.window_size /\ q.input.is_closed = s.input.is_closed
      /\ s.next_seqno <= q.next_seqno
      /\ q.bytes_in_flight = s.bytes_in_flight + (q.next_seqno - s.next_seqno)
      /\ s.syn_sent /\ q.next_seqno > s.next_seqno => q.bytes_in_flight <= EffectiveWindow(s)
  BY <1>2 DEF Pushed
<1>4. /\ s.next_seqno \in Nat /\ q.next_seqno \in Nat /\ s.bytes_in_flight \in Nat
      /\ q.bytes_in_flight \in Nat
  BY <1>1, <1>2, SenderIsTyped
<1> DEFINE flight == s.bytes_in_flight
           then == q.bytes_in_flight
           size == s.window_size
           room == EffectiveWindow(s)
           next == s.next_seqno
           after == q.next_seqno
<1>5. flight <= cap /\ size \in 0 .. cap
  BY DEF Bounded
<1>6. room \in Nat /\ room <= cap
  <2>1. room = IF size = 0 THEN 1 ELSE size
    BY DEF EffectiveWindow
  <2> HIDE DEF room, size
  <2> QED
    BY <1>5, <2>1
<1>7. next \in Nat /\ after \in Nat /\ flight \in Nat /\ then \in Nat /\ next <= after
      /\ then = flight + (after - next) /\ (s.syn_sent /\ after > next => then <= room)
  BY <1>3, <1>4
<1>8. ~s.syn_sent => after <= 1 /\ flight = 0 /\ next = 0
  <2> SUFFICES ASSUME ~s.syn_sent PROVE after <= 1 /\ flight = 0 /\ next = 0
    OBVIOUS
  <2>1. w = 0 /\ next = 0 /\ Start(s, 0) = 0 /\ ~s.input.is_closed
    BY UnsentIsEmpty DEF Ready
  <2>2. /\ ~q.fin_sent => after <= 1 + q.input.bytes_popped
        /\ q.input.bytes_popped \in 0 .. w
        /\ q.fin_sent => q.input.is_closed
    BY <1>2, CountsAreBounded
  <2>3. ~q.fin_sent /\ q.input.bytes_popped = 0
    BY <1>3, <2>1, <2>2
  <2>4. flight = next - Start(s, 0)
    BY <1>1, StartsInARow
  <2> HIDE DEF after, flight, next
  <2> QED
    BY <1>7, <2>1, <2>2, <2>3, <2>4
<1>9. then <= cap
  <2> HIDE DEF after, flight, next, then, room, size
  <2> QED
    BY <1>5, <1>6, <1>7, <1>8
<1>10. Bounded(q, cap)
  BY <1>3, <1>5, <1>9 DEF Bounded
<1> QED
  BY <1>3, <1>10 DEF q

\* Where an acknowledgment leaves a sender, it has no more under way.
LEMMA ForgetsShrinks ==
  ASSUME NEW conv, NEW w, NEW s, SoundSender(conv, s, w), NEW q, NEW a, Forgets(conv, s, q, a)
  PROVE  q.bytes_in_flight <= s.bytes_in_flight /\ q.bytes_in_flight \in Nat
         /\ q.input.is_closed = s.input.is_closed
<1>1. PICK k \in 0 .. Len(s.outstanding) : Loses(conv, s, q, k)
  BY DEF Forgets
<1>2. /\ q.bytes_in_flight = s.next_seqno - Start(s, k) /\ q.input = s.input
      /\ q \in Senders(conv)
  BY <1>1 DEF Loses
<1>3. /\ s.bytes_in_flight = s.next_seqno - Start(s, 0) /\ Start(s, k) \in Nat
      /\ s.next_seqno \in Nat /\ Len(s.outstanding) \in Nat /\ Start(s, 0) \in Nat
  <2>1. s.next_seqno \in Nat /\ Len(s.outstanding) \in Nat
    BY SenderIsTyped
  <2>2. 0 \in 0 .. Len(s.outstanding)
    BY <2>1
  <2> QED
    BY <2>1, <2>2, StartsInARow
<1>4. Start(s, 0) <= Start(s, k)
  <2>1. CASE k < Len(s.outstanding)
    <3>1. k + 1 \in 1 .. Len(s.outstanding) /\ 1 \in 1 .. k + 1 /\ 0 < Len(s.outstanding)
          /\ 0 + 1 = 1
      BY <1>3, <2>1
    <3>2. s.outstanding[1].seqno <= s.outstanding[k + 1].seqno
      BY <3>1, RowIsOrdered
    <3> QED
      BY <2>1, <3>1, <3>2 DEF Start
  <2>2. CASE ~(k < Len(s.outstanding))
    <3>1. Start(s, k) = s.next_seqno
      BY <2>2 DEF Start
    <3>2. 0 \in 0 .. Len(s.outstanding)
      BY <1>3
    <3>3. Start(s, 0) <= s.next_seqno
      BY <3>2, StartsInARow
    <3> QED
      BY <3>1, <3>3
  <2> QED
    BY <2>1, <2>2
<1>5. q.bytes_in_flight \in Nat
  BY <1>2 DEF Senders
<1> QED
  BY <1>2, <1>3, <1>4, <1>5

LEMMA ReplyIsBounded ==
  ASSUME NEW conv, NEW w, NEW s, Ready(conv, s, w), NEW m, ~m.RST,
         NEW a \in Nat, 2 * Distance(a, s.next_seqno) < Modulus,
         \/ m.ackno = None /\ m.window_size # 0
         \/ m.ackno = Some(Wrap(a, conv.isn)),
         NEW cap \in Nat \ {0}, Bounded(s, cap), m.window_size \in 0 .. cap
  PROVE  /\ Bounded(SenderReceive(s, m), cap)
         /\ SenderReceive(s, m).input.is_closed = s.input.is_closed
<1> DEFINE q == SenderReceive(s, m)
           size == m.window_size
<1>1. SoundSender(conv, s, w) /\ m.window_size \in Nat
  BY DEF Ready
<1>2. Forgets(conv, s, q, a)
  BY <1>1, ReplyIsSound
<1>3. /\ q.bytes_in_flight <= s.bytes_in_flight /\ q.bytes_in_flight \in Nat
      /\ q.input.is_closed = s.input.is_closed /\ s.bytes_in_flight \in Nat
  <2> HIDE DEF q
  <2> QED
    BY <1>1, <1>2, ForgetsShrinks, SenderIsTyped
<1>4. q.window_size = size
  <2> DEFINE noted == [s EXCEPT !.window_size = size]
             ackno == Unwrap(Value(m.ackno), s.isn, s.next_seqno)
  <2>1. SenderFields(s)
    BY <1>1, SenderIsTyped
  <2>2. noted.window_size = size /\ noted = [s EXCEPT !.window_size = size]
    <3> HIDE DEF size
    <3> QED
      BY <2>1 DEF SenderFields
  <2>3. q = noted \/ q = Acknowledge(noted, ackno)
    <3>1. CASE m.ackno = None /\ size # 0
      <4>1. q = noted
        BY <3>1, Zenon DEF SenderReceive, HasValue
      <4> QED
        BY <4>1
    <3>2. CASE m.ackno = Some(Wrap(a, conv.isn))
      <4>1. HasValue(m.ackno)
        BY <3>2 DEF HasValue, Some, None
      <4>2. q = IF ackno > s.next_seqno THEN noted ELSE Acknowledge(noted, ackno)
        BY <4>1, Zenon DEF SenderReceive
      <4> QED
        BY <4>2
    <3> QED
      BY <3>1, <3>2
  <2>4. Acknowledge(noted, ackno).window_size = size
    <3>1. SenderFields(noted)
      <4> HIDE DEF size
      <4> QED
        BY <2>1 DEF SenderFields
    <3> DEFINE pass == Visited(noted, ackno)
               kept == pass.kept
               flight == pass.in_flight
               rto == noted.initial_RTO
    <3>2. Acknowledge(noted, ackno) \in
            {noted, [noted EXCEPT !.outstanding = kept, !.bytes_in_flight = flight,
                                  !.consecutive_retransmissions = 0, !.current_RTO = rto]}
      BY DEF Acknowledge
    <3> HIDE DEF noted, kept, flight, rto
    <3> QED
      BY <2>2, <3>1, <3>2 DEF SenderFields
  <2> QED
    BY <2>2, <2>3, <2>4
<1>5. Bounded(q, cap)
  BY <1>3, <1>4 DEF Bounded
<1> QED
  BY <1>3, <1>5 DEF q

-----------------------------------------------------------------------------
(* Lists of messages and segments *)

LEMMA AlikeIsBounded ==
  ASSUME NEW s, NEW q, NEW cap, Bounded(s, cap), Alike(s, q)
  PROVE  Bounded(q, cap) /\ q.input = s.input
BY DEF Bounded, Alike

-----------------------------------------------------------------------------
(* What is on the wire *)

AllSaid(said, sent) == IsStream(sent) /\ \A m \in ToSet(sent) : Spoken(said, m)

\* A sequence is a stream of its elements.
LEMMA StreamOfSet ==
  ASSUME NEW S, NEW s \in Seq(S)
  PROVE  IsStream(s) /\ \A x \in ToSet(s) : x \in S
BY SeqOfElements DEF IsStream

LEMMA ElementOfStream ==
  ASSUME NEW s, IsStream(s), NEW x \in ToSet(s)
  PROVE  \E i \in 1 .. Len(s) : x = s[i]
<1>1. DOMAIN s = 1 .. Len(s)
  BY LenProperties DEF IsStream
<1> QED
  BY <1>1 DEF ToSet

LEMMA FunctionIsStream ==
  ASSUME NEW n \in Nat, NEW S, NEW f \in [1 .. n -> S]
  PROVE  IsStream(f) /\ Len(f) = n
<1>1. f \in Seq(S)
  BY SeqDef
<1>2. DOMAIN f = 1 .. n /\ DOMAIN f = 1 .. Len(f) /\ Len(f) \in Nat
  BY <1>1, LenProperties
<1>3. Len(f) = n
  BY <1>2
<1> QED
  BY <1>1, <1>3, StreamOfSet

LEMMA PairIsStream ==
  ASSUME NEW a, NEW b, IsStream(a), IsStream(b)
  PROVE  /\ IsStream(a \o b)
         /\ \A x \in ToSet(a \o b) : x \in ToSet(a) \/ x \in ToSet(b)
<1> DEFINE S == ToSet(a) \cup ToSet(b)
<1>1. a \in Seq(S) /\ b \in Seq(S)
  <2>1. ToSet(a) \subseteq S /\ ToSet(b) \subseteq S
    OBVIOUS
  <2> HIDE DEF S
  <2> QED
    BY <2>1, SeqMonotonic DEF IsStream
<1>2. a \o b \in Seq(S)
  <2> HIDE DEF S
  <2> QED
    BY <1>1, ConcatProperties
<1>3. IsStream(a \o b) /\ \A x \in ToSet(a \o b) : x \in S
  BY <1>2, StreamOfSet
<1> QED
  BY <1>3

LEMMA PartOfStream ==
  ASSUME NEW s, IsStream(s), NEW k \in 0 .. Len(s)
  PROVE  /\ IsStream(Take(s, k)) /\ IsStream(Drop(s, k))
         /\ \A x \in ToSet(Take(s, k)) : x \in ToSet(s)
         /\ \A x \in ToSet(Drop(s, k)) : x \in ToSet(s)
<1> DEFINE S == ToSet(s)
           t == Take(s, k)
           d == Drop(s, k)
<1>1. s \in Seq(S)
  BY DEF IsStream
<1> HIDE DEF S
<1>2. t \in Seq(S) /\ d \in Seq(S)
  BY <1>1, Parts
<1> HIDE DEF t, d
<1>3. /\ IsStream(t) /\ (\A x \in ToSet(t) : x \in S)
      /\ IsStream(d) /\ (\A x \in ToSet(d) : x \in S)
  BY <1>2, StreamOfSet
<1> QED
  BY <1>3 DEF t, d, S

LEMMA RemovedFrom ==
  ASSUME NEW s, IsStream(s), NEW i \in 1 .. Len(s)
  PROVE  /\ IsStream(RemoveAt(s, i)) /\ s[i] \in ToSet(s)
         /\ \A x \in ToSet(RemoveAt(s, i)) : x \in ToSet(s)
<1>1. Len(s) \in Nat /\ DOMAIN s = 1 .. Len(s)
  BY LenProperties DEF IsStream
<1> DEFINE t == Take(s, i - 1)
           d == Drop(s, i)
           n == Len(s)
           k == i - 1
<1>2. k \in 0 .. n /\ i \in 0 .. n
  BY <1>1
<1>3. RemoveAt(s, i) = t \o d
  BY DEF RemoveAt, Take, Drop
<1>4. /\ IsStream(Take(s, k)) /\ IsStream(Drop(s, i))
      /\ \A x \in ToSet(Take(s, k)) : x \in ToSet(s)
      /\ \A x \in ToSet(Drop(s, i)) : x \in ToSet(s)
  <2> HIDE DEF k
  <2> QED
    BY <1>2, PartOfStream
<1>5. IsStream(t) /\ IsStream(d) /\ (\A x \in ToSet(t) : x \in ToSet(s))
      /\ (\A x \in ToSet(d) : x \in ToSet(s))
  BY <1>4
<1> HIDE DEF t, d
<1>6. /\ IsStream(t \o d) /\ \A x \in ToSet(t \o d) : x \in ToSet(t) \/ x \in ToSet(d)
  BY <1>5, PairIsStream
<1>7. s[i] \in ToSet(s)
  BY <1>1 DEF ToSet
<1> QED
  BY <1>3, <1>5, <1>6, <1>7

LEMMA RepeatedOf ==
  ASSUME NEW s, IsStream(s), NEW i \in 1 .. Len(s)
  PROVE  /\ IsStream(Append(s, s[i]))
         /\ \A x \in ToSet(Append(s, s[i])) : x \in ToSet(s)
<1> DEFINE S == ToSet(s)
           e == s[i]
<1>1. s \in Seq(S) /\ e \in S
  <2>1. DOMAIN s = 1 .. Len(s)
    BY LenProperties DEF IsStream
  <2> QED
    BY <2>1 DEF IsStream, ToSet
<1> HIDE DEF S, e
<1>2. Append(s, e) \in Seq(S)
  BY <1>1, AppendProperties
<1>3. IsStream(Append(s, e)) /\ \A x \in ToSet(Append(s, e)) : x \in S
  BY <1>2, StreamOfSet
<1> QED
  BY <1>3 DEF S, e

\* What the sends of the senders are sequences of.
LEMMA NoneOrOne ==
  ASSUME NEW sent, sent = << >> \/ \E m : sent = << m >>
  PROVE  IsStream(sent)
<1>1. CASE sent = << >>
  BY <1>1, EmptySeq, StreamOfSet
<1>2. ASSUME NEW m, sent = << m >> PROVE IsStream(sent)
  <2>1. sent \in Seq({m})
    BY <1>2
  <2> QED
    BY <2>1, StreamOfSet
<1> QED
  BY <1>1, <1>2

LEMMA PushSendsStream ==
  ASSUME NEW conv, NEW w, NEW s, Ready(conv, s, w)
  PROVE  IsStream(PushSends(s))
<1>1. CASE s.fin_sent \/ s.input.error
  <2>1. PushSends(s) = << >> \/ PushSends(s) = << EmptyMessage(s) >>
    BY <1>1, Zenon DEF PushSends
  <2> QED
    BY <2>1, NoneOrOne, Zenon
<1>2. CASE ~s.fin_sent /\ ~s.input.error
  <2> DEFINE q == SenderPush(s)
             n == Len(s.outstanding)
             added == Drop(q.outstanding, n)
             k == Len(added)
             sent == [i \in 1 .. k |-> added[i].msg]
  <2>1. PushSends(s) = sent
    BY <1>2, Zenon DEF PushSends
  <2>2. /\ q.outstanding \in Seq(OutSegments(conv)) /\ n \in 0 .. Len(q.outstanding)
    <3>1. SoundSender(conv, s, w)
      BY DEF Ready
    <3>2. SoundSender(conv, q, w) /\ Pushed(s, q)
      BY <3>1, PushIsSound
    <3> HIDE DEF q
    <3>3. n \in Nat /\ Len(q.outstanding) \in Nat /\ q.outstanding \in Seq(OutSegments(conv))
      BY <3>1, <3>2, SenderIsTyped
    <3>4. n <= Len(q.outstanding)
      BY <3>2 DEF Pushed
    <3> QED
      BY <3>3, <3>4
  <2>3. added \in Seq(OutSegments(conv))
    <3> HIDE DEF n, q
    <3> QED
      BY <2>2, Parts
  <2> HIDE DEF added
  <2>4. k \in Nat
    BY <2>3, LenProperties
  <2> DEFINE S == { added[i].msg : i \in 1 .. k }
  <2>5. sent \in [1 .. k -> S]
    <3>1. \A i \in 1 .. k : added[i].msg \in S
      OBVIOUS
    <3> HIDE DEF S
    <3> QED
      BY <3>1
  <2> HIDE DEF sent, k, S
  <2>6. IsStream(sent)
    BY <2>4, <2>5, FunctionIsStream
  <2> QED
    BY <2>1, <2>6
<1> QED
  BY <1>1, <1>2

LEMMA TickSendsStream ==
  ASSUME NEW s, NEW ms
  PROVE  IsStream(TickSends(s, ms))
BY NoneOrOne, Zenon DEF TickSends

LEMMA CarriedIsSaid ==
  ASSUME NEW conv, NEW w, NEW s, Ready(conv, s, w), NEW sent, Carried(sent, s), IsStream(sent)
  PROVE  AllSaid(SaidSoFar(conv, s, w), sent)
<1>1. AllSpoken(SaidSoFar(conv, s, w), sent)
  BY CarriedIsSpoken
<1> QED
  BY <1>1, ElementOfStream DEF AllSaid, AllSpoken

LEMMA PairIsSaid ==
  ASSUME NEW said, NEW a, NEW b, AllSaid(said, a), AllSaid(said, b)
  PROVE  AllSaid(said, a \o b)
BY PairIsStream DEF AllSaid

LEMMA EmptyIsSaid ==
  ASSUME NEW conv, NEW w, NEW s, Ready(conv, s, w),
         NEW sent, sent = << >> \/ sent = << EmptyMessage(s) >>
  PROVE  AllSaid(SaidSoFar(conv, s, w), sent)
<1> DEFINE m == EmptyMessage(s)
           said == SaidSoFar(conv, s, w)
<1>1. Spoken(said, m)
  BY EmptyIsSpoken
<1> HIDE DEF m, said
<1>2. IsStream(sent)
  BY NoneOrOne, Zenon DEF m
<1>3. sent \in Seq({m})
  <2>1. sent = << >> \/ sent = << m >>
    BY DEF m
  <2> HIDE DEF m
  <2>2. CASE sent = << >>
    BY <2>2, EmptySeq
  <2>3. CASE sent = << m >>
    BY <2>3
  <2> QED
    BY <2>1, <2>2, <2>3
<1>4. \A x \in ToSet(sent) : x \in {m}
  BY <1>3, StreamOfSet
<1> QED
  BY <1>1, <1>2, <1>4 DEF AllSaid, said

-----------------------------------------------------------------------------
(* A peer and the segments on their way to it *)

\* A segment that fits what its sender has said and its receiver got.
Good(said, acked, cap, isn, g) == Spoken(said, g.sender) /\ Heard(acked, cap, isn, g.receiver)
NetOK(said, acked, cap, isn, sent) ==
  IsStream(sent) /\ \A g \in ToSet(sent) : Good(said, acked, cap, isn, g)

LEMMA SegmentIsGood ==
  ASSUME NEW said, NEW acked, NEW cap, NEW isn, NEW m, NEW reply,
         Spoken(said, m), Heard(acked, cap, isn, reply)
  PROVE  Good(said, acked, cap, isn, Segmented(m, reply))
<1> DEFINE reset == m.RST \/ reply.RST
           one == [m EXCEPT !.RST = reset]
           two == [reply EXCEPT !.RST = reset]
<1>1. reset = FALSE
  BY DEF Spoken, Heard
<1> HIDE DEF reset
<1>2. /\ one = SenderMessage(one.seqno, one.SYN, one.payload, one.FIN, one.RST)
      /\ one.seqno = m.seqno /\ one.SYN = m.SYN /\ one.payload = m.payload
      /\ one.FIN = m.FIN /\ one.RST = reset
  <2>1. m = [ seqno |-> m.seqno, SYN |-> m.SYN, payload |-> m.payload, FIN |-> m.FIN, RST |-> m.RST ]
    BY DEF Spoken, SenderMessage
  <2> QED
    BY <2>1 DEF SenderMessage
<1>3. /\ two = ReceiverMessage(two.ackno, two.window_size, two.RST)
      /\ two.ackno = reply.ackno /\ two.window_size = reply.window_size /\ two.RST = reset
  <2>1. reply = [ ackno |-> reply.ackno, window_size |-> reply.window_size, RST |-> reply.RST ]
    BY DEF Heard, ReceiverMessage
  <2> QED
    BY <2>1 DEF ReceiverMessage
<1> HIDE DEF one, two
<1>4. Spoken(said, one)
  BY <1>1, <1>2, Zenon DEF Spoken
<1>5. Heard(acked, cap, isn, two)
  BY <1>1, <1>3, Zenon DEF Heard
<1>6. Segmented(m, reply) = [ sender |-> one, receiver |-> two ]
  BY DEF Segmented, one, two, reset
<1> QED
  BY <1>4, <1>5, <1>6 DEF Good

LEMMA SegmentsAreGood ==
  ASSUME NEW said, NEW acked, NEW cap, NEW isn, NEW p, NEW messages,
         AllSaid(said, messages), Heard(acked, cap, isn, ReceiverSend(p.receiver))
  PROVE  NetOK(said, acked, cap, isn, Segments(p, messages))
<1> DEFINE reply == ReceiverSend(p.receiver)
           n == Len(messages)
           sent == [i \in 1 .. n |-> Segmented(messages[i], reply)]
           S == { Segmented(m, reply) : m \in ToSet(messages) }
<1>1. n \in Nat /\ \A i \in 1 .. n : messages[i] \in ToSet(messages)
  BY LenProperties, ElementOfSeq DEF AllSaid, IsStream
<1>2. sent \in [1 .. n -> S]
  <2>1. \A i \in 1 .. n : Segmented(messages[i], reply) \in S
    BY <1>1
  <2> HIDE DEF S, n, reply
  <2> QED
    BY <2>1
<1>3. \A g \in S : Good(said, acked, cap, isn, g)
  <2>1. \A m \in ToSet(messages) : Good(said, acked, cap, isn, Segmented(m, reply))
    <3> HIDE DEF reply
    <3> QED
      BY SegmentIsGood DEF AllSaid, reply
  <2> QED
    BY <2>1
<1> HIDE DEF S, sent, n
<1>4. sent \in Seq(S)
  BY <1>1, <1>2, FunctionIsSeq
<1>5. IsStream(sent) /\ \A x \in ToSet(sent) : x \in S
  BY <1>4, StreamOfSet
<1>6. Segments(p, messages) = sent
  BY DEF Segments, sent, n
<1> QED
  BY <1>3, <1>5, <1>6 DEF NetOK

LEMMA NetLater ==
  ASSUME NEW said, NEW more, Grows(said, more), NEW acked \in Nat, NEW later \in Nat, acked <= later,
         NEW cap, NEW isn, NEW sent, NetOK(said, acked, cap, isn, sent)
  PROVE  NetOK(more, later, cap, isn, sent)
<1>1. ASSUME NEW g \in ToSet(sent) PROVE Good(more, later, cap, isn, g)
  <2> DEFINE m == g.sender
             reply == g.receiver
  <2>1. Spoken(said, m) /\ Heard(acked, cap, isn, reply)
    BY DEF NetOK, Good
  <2> HIDE DEF m, reply
  <2>2. Spoken(more, m) /\ Heard(later, cap, isn, reply)
    BY <2>1, SpokenLater, HeardLater
  <2> QED
    BY <2>2 DEF Good, m, reply
<1> QED
  BY <1>1 DEF NetOK

LEMMA NetOfSome ==
  ASSUME NEW said, NEW acked, NEW cap, NEW isn, NEW sent, NetOK(said, acked, cap, isn, sent),
         NEW some, IsStream(some), \A g \in ToSet(some) : g \in ToSet(sent)
  PROVE  NetOK(said, acked, cap, isn, some)
BY DEF NetOK

LEMMA NetJoins ==
  ASSUME NEW said, NEW acked, NEW cap, NEW isn, NEW a, NEW b, NEW room \in Nat,
         NetOK(said, acked, cap, isn, a), NetOK(said, acked, cap, isn, b)
  PROVE  NetOK(said, acked, cap, isn, Take(a \o b, MinOf(Len(a \o b), room)))
<1> DEFINE c == a \o b
           k == MinOf(Len(c), room)
<1>1. IsStream(c) /\ \A g \in ToSet(c) : g \in ToSet(a) \/ g \in ToSet(b)
  BY PairIsStream DEF NetOK
<1> HIDE DEF c
<1>2. k \in 0 .. Len(c)
  BY <1>1, LenProperties DEF MinOf, IsStream
<1> HIDE DEF k
<1>3. IsStream(Take(c, k)) /\ \A g \in ToSet(Take(c, k)) : g \in ToSet(c)
  BY <1>1, <1>2, PartOfStream
<1>4. NetOK(said, acked, cap, isn, Take(c, k))
  BY <1>1, <1>3 DEF NetOK
<1> QED
  BY <1>4 DEF c, k

-----------------------------------------------------------------------------
(* A peer *)

PeerFields(p) ==
  /\ p = [ sender |-> p.sender, receiver |-> p.receiver, rt_timeout |-> p.rt_timeout,
           linger_after_streams_finish |-> p.linger_after_streams_finish,
           cumulative_time |-> p.cumulative_time,
           time_of_last_receipt |-> p.time_of_last_receipt ]
  /\ p.rt_timeout \in Nat

PeerOK(conv, w, said, cap, p, read) ==
  /\ PeerFields(p) /\ Ready(conv, p.sender, w) /\ Bounded(p.sender, cap)
  /\ ReceiverOK(said, cap, p.receiver, read)

\* What no call of a peer takes back; the other side acknowledged what is not
\* outstanding any more.
Follows(p, q, acked) ==
  /\ Start(q.sender, 0) = Start(p.sender, 0) \/ Start(q.sender, 0) <= acked
  /\ Acked(q.receiver) >= Acked(p.receiver)
  /\ Inbound(p.receiver).is_closed => Inbound(q.receiver).is_closed
  /\ q.sender.input.is_closed = p.sender.input.is_closed

Answer(conv, w, said, cap, read, acked, p, r) ==
  /\ PeerOK(conv, w, said, cap, r.peer, read) /\ NoStall(r.peer.sender)
  /\ Follows(p, r.peer, acked)
  /\ NetOK(SaidSoFar(conv, r.peer.sender, w), Acked(r.peer.receiver), cap, said.isn, r.sends)

Way(said, cap) ==
  /\ IsSaid(said) /\ 2 * (Len(said.stream) + 2) < Modulus
  /\ cap \in Nat \ {0} /\ MaxWindow \in Nat \ {0}

LEMMA ResultIsAnswer ==
  ASSUME NEW conv, NEW w, NEW said, NEW cap, NEW read, NEW acked, NEW was, NEW p, NEW messages,
         Way(said, cap), PeerOK(conv, w, said, cap, p, read), NoStall(p.sender),
         Follows(was, p, acked), AllSaid(SaidSoFar(conv, p.sender, w), messages)
  PROVE  Answer(conv, w, said, cap, read, acked, was, Result(p, messages))
<1> DEFINE so == SaidSoFar(conv, p.sender, w)
           tr == p.receiver
           a == Acked(tr)
           isn == said.isn
<1>1. Heard(a, cap, isn, ReceiverSend(tr))
  <2>1. IsSaid(said) /\ cap \in Nat \ {0} /\ MaxWindow \in Nat \ {0} /\ ReceiverOK(said, cap, tr, read)
    BY DEF Way, PeerOK
  <2> HIDE DEF tr
  <2> QED
    BY <2>1, SendIsHeard
<1> HIDE DEF so, a, isn
<1>2. NetOK(so, a, cap, isn, Segments(p, messages))
  BY <1>1, SegmentsAreGood DEF so
<1>3. Result(p, messages) = [ peer |-> p, sends |-> Segments(p, messages) ]
  BY DEF Result
<1> QED
  BY <1>2, <1>3 DEF Answer, so, a, isn

LEMMA AckedIsNat ==
  ASSUME NEW said, NEW cap, Way(said, cap), NEW tr, NEW read, ReceiverOK(said, cap, tr, read)
  PROVE  Acked(tr) \in Nat /\ Acked(tr) \in 0 .. Len(said.stream) + 2
BY SendIsHeard, StreamIsStream DEF Way

LEMMA PeerPushIsOK ==
  ASSUME NEW conv, NEW w, NEW said, NEW cap, NEW read, NEW acked, NEW p,
         Way(said, cap), PeerOK(conv, w, said, cap, p, read)
  PROVE  Answer(conv, w, said, cap, read, acked, p, PeerPush(p))
<1> DEFINE s == p.sender
           q == SenderPush(s)
           sent == PushSends(s)
           after == [p EXCEPT !.sender = q]
<1>1. /\ PeerFields(p) /\ Ready(conv, s, w) /\ Bounded(s, cap)
      /\ ReceiverOK(said, cap, p.receiver, read) /\ cap \in Nat \ {0}
  BY DEF PeerOK, Way
<1>2. /\ Ready(conv, q, w) /\ NoStall(q) /\ Start(q, 0) = Start(s, 0)
      /\ Carried(sent, q) /\ IsStream(sent)
      /\ Bounded(q, cap) /\ q.input.is_closed = s.input.is_closed
  <2> HIDE DEF s
  <2> QED
    BY <1>1, PushIsReady, PushSendsStream, PushIsBounded
<1>3. PeerPush(p) = Result(after, sent)
  BY DEF PeerPush
<1> HIDE DEF q, sent
<1>4. after.sender = q /\ after.receiver = p.receiver /\ PeerFields(after)
  BY <1>1 DEF PeerFields
<1> HIDE DEF after
<1>5. PeerOK(conv, w, said, cap, after, read) /\ NoStall(after.sender)
  BY <1>1, <1>2, <1>4 DEF PeerOK
<1>6. Follows(p, after, acked)
  <2>1. Acked(p.receiver) \in Nat
    BY <1>1, AckedIsNat
  <2> QED
    BY <1>2, <1>4, <2>1 DEF Follows, s
<1>7. AllSaid(SaidSoFar(conv, q, w), sent)
  BY <1>2, CarriedIsSaid
<1>8. AllSaid(SaidSoFar(conv, after.sender, w), sent)
  BY <1>4, <1>7
<1>9. Answer(conv, w, said, cap, read, acked, p, Result(after, sent))
  BY <1>5, <1>6, <1>8, ResultIsAnswer
<1> QED
  BY <1>3, <1>9

\* A peer with one field changed.
LEMMA PeerWithSender ==
  ASSUME NEW p, PeerFields(p), NEW v, NEW q, q = [p EXCEPT !.sender = v]
  PROVE  PeerFields(q) /\ q.sender = v /\ q.receiver = p.receiver /\ q.rt_timeout = p.rt_timeout
BY DEF PeerFields

LEMMA PeerWithReceiver ==
  ASSUME NEW p, PeerFields(p), NEW v, NEW q, q = [p EXCEPT !.receiver = v]
  PROVE  PeerFields(q) /\ q.sender = p.sender /\ q.receiver = v /\ q.rt_timeout = p.rt_timeout
BY DEF PeerFields

LEMMA PeerWithClock ==
  ASSUME NEW p, PeerFields(p), NEW v,
         NEW q, \/ q = [p EXCEPT !.cumulative_time = v]
                \/ q = [p EXCEPT !.time_of_last_receipt = v]
                \/ q = [p EXCEPT !.linger_after_streams_finish = v]
  PROVE  PeerFields(q) /\ q.sender = p.sender /\ q.receiver = p.receiver
         /\ q.rt_timeout = p.rt_timeout
<1>1. CASE q = [p EXCEPT !.cumulative_time = v]
  BY <1>1 DEF PeerFields
<1>2. CASE q = [p EXCEPT !.time_of_last_receipt = v]
  BY <1>2 DEF PeerFields
<1>3. CASE q = [p EXCEPT !.linger_after_streams_finish = v]
  BY <1>3 DEF PeerFields
<1> QED
  BY <1>1, <1>2, <1>3

LEMMA PeerTickIsOK ==
  ASSUME NEW conv, NEW w, NEW said, NEW cap, NEW read, NEW acked, NEW p, NEW ms \in Nat,
         Way(said, cap), PeerOK(conv, w, said, cap, p, read), NoStall(p.sender)
  PROVE  Answer(conv, w, said, cap, read, acked, p, PeerTick(p, ms))
<1> DEFINE s == p.sender
           q == SenderTick(s, ms)
           sent == TickSends(s, ms)
           time == p.cumulative_time + ms
           after == [p EXCEPT !.cumulative_time = time, !.sender = q]
<1>1. /\ PeerFields(p) /\ Ready(conv, s, w) /\ Bounded(s, cap)
      /\ ReceiverOK(said, cap, p.receiver, read) /\ cap \in Nat \ {0}
  BY DEF PeerOK, Way
<1>2. /\ Ready(conv, q, w) /\ NoStall(q) /\ Start(q, 0) = Start(s, 0)
      /\ Carried(sent, q) /\ IsStream(sent) /\ Alike(s, q)
  <2> HIDE DEF s
  <2> QED
    BY <1>1, TickIsReady, TickSendsStream DEF s
<1>3. PeerTick(p, ms) = Result(after, sent)
  BY DEF PeerTick
<1> HIDE DEF q, sent, time
<1>4. after.sender = q /\ after.receiver = p.receiver /\ PeerFields(after)
  <2> DEFINE mid == [p EXCEPT !.cumulative_time = time]
  <2>1. PeerFields(mid) /\ mid.receiver = p.receiver
    BY <1>1, PeerWithClock
  <2>2. after = [mid EXCEPT !.sender = q]
    OBVIOUS
  <2> HIDE DEF mid, after
  <2> QED
    BY <2>1, <2>2, PeerWithSender
<1> HIDE DEF after
<1>10. Bounded(q, cap) /\ q.input = s.input
  BY <1>1, <1>2, AlikeIsBounded
<1>5. PeerOK(conv, w, said, cap, after, read) /\ NoStall(after.sender)
  BY <1>1, <1>2, <1>4, <1>10 DEF PeerOK
<1>6. Follows(p, after, acked)
  <2>1. Acked(p.receiver) \in Nat
    BY <1>1, AckedIsNat
  <2> QED
    BY <1>2, <1>4, <1>10, <2>1 DEF Follows, s
<1>7. AllSaid(SaidSoFar(conv, q, w), sent)
  BY <1>2, CarriedIsSaid
<1>8. AllSaid(SaidSoFar(conv, after.sender, w), sent)
  BY <1>4, <1>7
<1>9. Answer(conv, w, said, cap, read, acked, p, Result(after, sent))
  BY <1>5, <1>6, <1>8, ResultIsAnswer
<1> QED
  BY <1>3, <1>9

\* What a reply leaves of a sender that heard it.
LEMMA HeardIsOK ==
  ASSUME NEW conv, NEW w, NEW s, NEW cap \in Nat \ {0}, Ready(conv, s, w), Bounded(s, cap),
         2 * (Len(conv.stream) + 2) < Modulus,
         NEW acked \in 0 .. w + 2, NEW m, Heard(acked, cap, conv.isn, m)
  PROVE  LET q == SenderReceive(s, m)
         IN  /\ Ready(conv, q, w) /\ Bounded(q, cap)
             /\ Start(q, 0) = Start(s, 0) \/ Start(q, 0) <= acked
             /\ q.input.is_closed = s.input.is_closed
<1> DEFINE q == SenderReceive(s, m)
<1>1. SoundSender(conv, s, w)
  BY DEF Ready
<1>2. /\ s.next_seqno \in 0 .. w + 2 /\ w \in Nat /\ w <= Len(conv.stream)
      /\ Len(conv.stream) \in Nat
  BY <1>1, CountsAreBounded, InputIsTyped
<1>3. \A a \in 0 .. acked : a \in Nat /\ 2 * Distance(a, s.next_seqno) < Modulus /\ a <= acked
  <2> TAKE a \in 0 .. acked
  <2> DEFINE next == s.next_seqno
             d == Distance(a, next)
  <2>1. a \in 0 .. w + 2 /\ next \in 0 .. w + 2 /\ a \in Nat /\ next \in Nat
    BY <1>2
  <2>2. d \in Nat /\ d <= w + 2
    <3> HIDE DEF next
    <3> QED
      BY <1>2, <2>1 DEF Distance
  <2>3. Modulus \in Nat
    BY ModulusAssumption
  <2> DEFINE l == Len(conv.stream)
  <2>4. l \in Nat /\ w <= l /\ 2 * (l + 2) < Modulus
    BY <1>2
  <2> HIDE DEF d, l
  <2>5. 2 * d < Modulus
    BY <1>2, <2>2, <2>3, <2>4
  <2> QED
    BY <2>1, <2>5 DEF d
<1>4. PICK a \in 0 .. acked : \/ m.ackno = None /\ m.window_size # 0
                             \/ m.ackno = Some(Wrap(a, conv.isn))
  <2>1. CASE m.ackno = None /\ m.window_size > 0
    <3>1. 0 \in 0 .. acked /\ m.window_size # 0
      BY <2>1, <1>2 DEF Heard
    <3> QED
      BY <2>1, <3>1
  <2>2. CASE \E a \in 0 .. acked : m.ackno = Some(Wrap(a, conv.isn))
    BY <2>2
  <2> QED
    BY <2>1, <2>2 DEF Heard
<1>5. /\ ~m.RST /\ m.window_size \in 0 .. cap /\ m.window_size \in Nat
      /\ a \in Nat /\ 2 * Distance(a, s.next_seqno) < Modulus /\ a <= acked
  BY <1>3, <1>4 DEF Heard
<1>6. /\ Ready(conv, q, w) /\ q.next_seqno = s.next_seqno
      /\ Start(q, 0) = Start(s, 0) \/ Start(q, 0) <= a
  BY <1>4, <1>5, ReplyIsReady
<1>7. Bounded(q, cap) /\ q.input.is_closed = s.input.is_closed
  BY <1>4, <1>5, ReplyIsBounded
<1> HIDE DEF q
<1>8. Start(q, 0) \in Nat
  <2>1. SoundSender(conv, q, w)
    BY <1>6 DEF Ready
  <2>2. 0 \in 0 .. Len(q.outstanding)
    BY <2>1, SenderIsTyped
  <2> QED
    BY <2>1, <2>2, StartsInARow
<1> QED
  BY <1>2, <1>5, <1>6, <1>7, <1>8 DEF q

LEMMA PeerReceiveIsOK ==
  ASSUME NEW conv, NEW w, NEW said, NEW cap, NEW read, NEW p,
         Way(said, cap), PeerOK(conv, w, said, cap, p, read), NoStall(p.sender),
         2 * (Len(conv.stream) + 2) < Modulus, NEW acked \in 0 .. w + 2,
         NEW g, Good(said, acked, cap, conv.isn, g)
  PROVE  Answer(conv, w, said, cap, read, acked, p, PeerReceive(p, g))
<1> DEFINE s == p.sender
           tr == p.receiver
           s1 == SenderReceive(s, g.receiver)
           tr1 == ReceiverReceive(tr, g.sender)
           s2 == SenderPush(s1)
           pushes == PushSends(s1)
           last == p.cumulative_time
           p1 == [p EXCEPT !.time_of_last_receipt = last]
           p2 == [p1 EXCEPT !.receiver = tr1]
           heard == [p2 EXCEPT !.sender = s1]
           pushed == [heard EXCEPT !.sender = s2]
           replies == IF pushes = << >> /\ NeedsReply(p, g.sender)
                      THEN << EmptyMessage(s2) >> ELSE << >>
           passive == InboundOf(pushed).is_closed /\ ~IsFinished(Outbound(pushed))
           linger == pushed.linger_after_streams_finish /\ ~passive
           after == [pushed EXCEPT !.linger_after_streams_finish = linger]
           sent == pushes \o replies
<1>1. /\ PeerFields(p) /\ Ready(conv, s, w) /\ Bounded(s, cap)
      /\ ReceiverOK(said, cap, tr, read) /\ cap \in Nat \ {0} /\ cap \in Nat
      /\ IsSaid(said) /\ 2 * (Len(said.stream) + 2) < Modulus
      /\ Spoken(said, g.sender) /\ Heard(acked, cap, conv.isn, g.receiver)
  BY DEF PeerOK, Way, Good
<1>2. CASE ~Active(p)
  <2>1. PeerReceive(p, g) = Result(p, << >>)
    BY <1>2, Zenon DEF PeerReceive
  <2>2. AllSaid(SaidSoFar(conv, s, w), << >>)
    BY <1>1, EmptyIsSaid
  <2>3. Follows(p, p, acked)
    <3>1. Acked(p.receiver) \in Nat
      BY <1>1, AckedIsNat
    <3> QED
      BY <3>1 DEF Follows
  <2>4. Answer(conv, w, said, cap, read, acked, p, Result(p, << >>))
    BY <2>2, <2>3, ResultIsAnswer
  <2> QED
    BY <2>1, <2>4
<1>3. CASE Active(p)
  <2>1. PeerReceive(p, g) = Result(after, sent)
    BY <1>3 DEF PeerReceive
  <2> HIDE DEF s, tr
  <2>2. /\ Ready(conv, s1, w) /\ Bounded(s1, cap)
        /\ Start(s1, 0) = Start(s, 0) \/ Start(s1, 0) <= acked
        /\ s1.input.is_closed = s.input.is_closed
    BY <1>1, HeardIsOK
  <2>3. /\ ReceiverOK(said, cap, tr1, read) /\ Acked(tr1) >= Acked(tr)
        /\ Inbound(tr).is_closed => Inbound(tr1).is_closed
    BY <1>1, ReceiveIsOK
  <2> HIDE DEF s1, tr1
  <2>4. /\ Ready(conv, s2, w) /\ NoStall(s2) /\ Start(s2, 0) = Start(s1, 0)
        /\ Carried(pushes, s2) /\ IsStream(pushes)
        /\ Bounded(s2, cap) /\ s2.input.is_closed = s1.input.is_closed
    BY <1>1, <2>2, PushIsReady, PushSendsStream, PushIsBounded
  <2> HIDE DEF s2, pushes
  <2>5. PeerFields(p2) /\ p2.sender = s /\ p2.receiver = tr1
    <3> HIDE DEF last
    <3>1. PeerFields(p1) /\ p1.sender = s
      BY <1>1, PeerWithClock DEF s
    <3> HIDE DEF p1
    <3> QED
      BY <3>1, PeerWithReceiver
  <2> HIDE DEF p2
  <2>6. PeerFields(pushed) /\ pushed.sender = s2 /\ pushed.receiver = tr1
    <3>1. PeerFields(heard) /\ heard.receiver = tr1
      BY <2>5, PeerWithSender
    <3>2. pushed = [heard EXCEPT !.sender = s2]
      OBVIOUS
    <3> HIDE DEF heard, pushed
    <3> QED
      BY <3>1, <3>2, SMT DEF PeerFields
  <2> HIDE DEF pushed, linger
  <2>7. PeerFields(after) /\ after.sender = s2 /\ after.receiver = tr1
    BY <2>6, PeerWithClock
  <2> HIDE DEF after
  <2>8. AllSaid(SaidSoFar(conv, s2, w), sent)
    <3>1. AllSaid(SaidSoFar(conv, s2, w), pushes)
      BY <2>4, CarriedIsSaid
    <3>2. AllSaid(SaidSoFar(conv, s2, w), replies)
      <4>1. replies = << >> \/ replies = << EmptyMessage(s2) >>
        OBVIOUS
      <4> HIDE DEF replies
      <4> QED
        BY <2>4, <4>1, EmptyIsSaid
    <3> HIDE DEF replies
    <3> QED
      BY <3>1, <3>2, PairIsSaid
  <2> HIDE DEF sent
  <2>9. PeerOK(conv, w, said, cap, after, read) /\ NoStall(after.sender)
    BY <2>3, <2>4, <2>7 DEF PeerOK
  <2>10. Follows(p, after, acked)
    BY <2>2, <2>3, <2>4, <2>7 DEF Follows, s, tr
  <2>11. AllSaid(SaidSoFar(conv, after.sender, w), sent)
    BY <2>7, <2>8
  <2>12. Answer(conv, w, said, cap, read, acked, p, Result(after, sent))
    BY <2>9, <2>10, <2>11, ResultIsAnswer
  <2> QED
    BY <2>1, <2>12
<1> QED
  BY <1>2, <1>3

-----------------------------------------------------------------------------
(* The invariant *)

\* What one peer's owner will have said, and what it has said so far.
Whole(x) == [ stream |-> Streams[x], isn |-> Isns[x], capacity |-> SendCapacity ]
Said(x) == SaidSoFar(Whole(x), peer[x].sender, written[x])

\* Half of a period of sequence numbers is enough for either stream, its SYN
\* and its FIN, as no segment is on its way for ever.
ShortStreams == \A x \in Peers : 2 * (Len(Streams[x]) + 2) < Modulus

Functions ==
  /\ peer = [x \in Peers |-> peer[x]] /\ net = [x \in Peers |-> net[x]]
  /\ received = [x \in Peers |-> received[x]]
  /\ written \in [Peers -> Nat] /\ shut \in [Peers -> BOOLEAN]

\* One side, as values: the peer p of conv, the other side said so much and
\* acknowledges acked, net is on its way to p, read was given to the owner.
Side(conv, w, said, acked, p, sent, read, ended) ==
  /\ PeerOK(conv, w, said, RecvCapacity, p, read) /\ NoStall(p.sender)
  /\ NetOK(said, acked, RecvCapacity, conv.isn, sent)
  /\ Start(p.sender, 0) <= acked
  /\ ended => Inbound(p.receiver).is_closed /\ Len(read) = Len(said.stream)

SideOK(x) ==
  Side(Whole(x), written[x], Said(Other(x)), Acked(peer[Other(x)].receiver),
       peer[x], net[x], received[x], shut[x])

IInv == Functions /\ \A x \in Peers : SideOK(x)

-----------------------------------------------------------------------------
LEMMA TwoPeers ==
  /\ Client \in Peers /\ Server \in Peers
  /\ \A x \in Peers : /\ Other(x) \in Peers /\ Other(x) # x /\ Other(Other(x)) = x
                      /\ \A y \in Peers : y = x \/ y = Other(x)
BY PeersAssumption DEF Peers, Other

LEMMA WholeIsConversation ==
  ASSUME NEW x \in Peers
  PROVE  /\ IsConversation(Whole(x)) /\ Whole(x).stream = Streams[x] /\ Whole(x).isn = Isns[x]
         /\ Whole(x).capacity = SendCapacity
         /\ Streams[x] \in Seq(Byte) /\ Len(Streams[x]) \in Nat
<1>1. Streams[x] \in Seq(Byte) /\ Isns[x] \in Wraps /\ SendCapacity \in Nat
  BY StreamsAssumption, CapacitiesAssumption
<1>2. Streams[x] \in Seq(ToSet(Streams[x]))
  BY <1>1, SeqOfElements
<1> QED
  BY <1>1, <1>2, LenProperties DEF Whole, IsConversation, Bytes

\* What the two halves of the invariant say about each other.
LEMMA SidesMeet ==
  ASSUME IInv, ShortStreams, NEW x \in Peers
  PROVE  /\ Way(Said(x), RecvCapacity) /\ Said(x).isn = Isns[x]
         /\ Said(x).ended = peer[x].sender.input.is_closed
         /\ Said(x).stream = Take(Streams[x], written[x])
         /\ Len(Said(x).stream) = written[x] /\ written[x] \in Nat
         /\ written[x] <= Len(Streams[x])
         /\ ToSet(Said(x).stream) \subseteq ToSet(Streams[x])
<1> DEFINE conv == Whole(x)
           w == written[x]
           s == peer[x].sender
           l == Len(Streams[x])
<1>1. SoundSender(conv, s, w)
  BY DEF IInv, SideOK, Side, PeerOK, Ready
<1>2. conv.stream = Streams[x] /\ conv.isn = Isns[x]
  BY WholeIsConversation
<1> HIDE DEF conv, w, s
<1>3. /\ IsSaid(SaidSoFar(conv, s, w)) /\ SaidSoFar(conv, s, w).isn = conv.isn
      /\ SaidSoFar(conv, s, w).ended = s.input.is_closed
      /\ SaidSoFar(conv, s, w).stream = Take(conv.stream, w)
      /\ Len(SaidSoFar(conv, s, w).stream) = w
      /\ w \in Nat /\ w <= Len(conv.stream) /\ Len(conv.stream) \in Nat
      /\ ToSet(SaidSoFar(conv, s, w).stream) \subseteq Bytes(conv)
  BY <1>1, SaidIsSaid
<1>4. 2 * (w + 2) < Modulus
  <2>1. 2 * (l + 2) < Modulus /\ l \in Nat /\ w \in Nat /\ w <= l /\ Modulus \in Nat
    BY <1>2, <1>3, ModulusAssumption DEF ShortStreams
  <2> HIDE DEF l
  <2> QED
    BY <2>1
<1>5. Said(x) = SaidSoFar(conv, s, w)
  BY DEF Said, conv, w, s
<1>6. RecvCapacity \in Nat \ {0} /\ MaxWindow \in Nat \ {0}
  BY CapacitiesAssumption, WindowAssumption
<1> QED
  BY <1>2, <1>3, <1>4, <1>5, <1>6 DEF Way, Bytes, w, s

-----------------------------------------------------------------------------
(* The initial states *)

LEMMA NewSenderIsReady ==
  ASSUME NEW conv, IsConversation(conv), NEW rto \in Nat
  PROVE  LET s == NewSender(conv.capacity, conv.isn, rto)
         IN  Ready(conv, s, 0) /\ NoStall(s) /\ Start(s, 0) = 0
             /\ s.window_size = 1 /\ s.bytes_in_flight = 0
<1> DEFINE s == NewSender(conv.capacity, conv.isn, rto)
           bs == NewByteStream(conv.capacity)
<1>1. /\ SoundSender(conv, s, 0) /\ s.input = bs
      /\ s.bytes_in_flight = 0 /\ s.next_seqno = 0 /\ s.outstanding = << >>
      /\ ~s.syn_sent /\ ~s.fin_sent /\ s.window_size = 1
  BY NewSenderIsSound
<1>2. bs.buffer = << >> /\ ~bs.is_closed /\ ~bs.error /\ Len(<< >>) = 0
  BY EmptySeq DEF NewByteStream
<1> HIDE DEF bs, s
<1>3. SynAlone(s)
  BY <1>1, <1>2 DEF SynAlone
<1>4. Ready(conv, s, 0)
  BY <1>1, <1>2, <1>3 DEF Ready
<1>5. NoStall(s) /\ Start(s, 0) = 0
  BY <1>1, <1>2 DEF NoStall, Start
<1> QED
  BY <1>1, <1>4, <1>5 DEF s

LEMMA NothingIsOK ==
  ASSUME NEW said, NEW acked, NEW cap, NEW isn, NEW sent, sent = << >>
  PROVE  NetOK(said, acked, cap, isn, sent)
<1> DEFINE none == {}
<1>1. sent \in Seq(none)
  BY EmptySeq
<1> HIDE DEF none
<1>2. IsStream(sent) /\ \A g \in ToSet(sent) : g \in none
  BY <1>1, StreamOfSet
<1> QED
  BY <1>2 DEF NetOK, none

LEMMA InitIInv == Init => IInv
<1> SUFFICES ASSUME Init PROVE IInv
  OBVIOUS
<1>1. Functions
  BY DEF Init, Functions
<1>2. ASSUME NEW x \in Peers PROVE SideOK(x)
  <2> DEFINE conv == Whole(x)
             s == NewSender(conv.capacity, conv.isn, 1)
             tr == NewReceiver(RecvCapacity)
             y == Other(x)
             said == Said(y)
             acked == Acked(peer[y].receiver)
             p == peer[x]
  <2>1. IsConversation(conv) /\ conv.isn = Isns[x] /\ conv.capacity = SendCapacity
    BY WholeIsConversation
  <2>2. y \in Peers
    BY TwoPeers
  <2>3. /\ p = [ sender |-> s, receiver |-> tr, rt_timeout |-> 1,
                 linger_after_streams_finish |-> TRUE,
                 cumulative_time |-> 0, time_of_last_receipt |-> 0 ]
        /\ written[x] = 0 /\ net[x] = << >> /\ received[x] = << >> /\ shut[x] = FALSE
        /\ peer[y].receiver = tr
    BY <2>1, <2>2 DEF Init, NewPeer
  <2>4. /\ Ready(conv, s, 0) /\ NoStall(s) /\ Start(s, 0) = 0
        /\ s.window_size = 1 /\ s.bytes_in_flight = 0
    BY <2>1, NewSenderIsReady
  <2>5. acked = 0 /\ Inbound(tr).capacity = RecvCapacity
    <3>1. RecvCapacity \in Nat
      BY CapacitiesAssumption
    <3> QED
      BY <2>3, <3>1, NewReceiverFacts
  <2>6. ReceiverOK(said, RecvCapacity, tr, << >>)
    BY <2>5, EmptySeq DEF ReceiverOK
  <2>7. NetOK(said, acked, RecvCapacity, conv.isn, << >>)
    BY NothingIsOK
  <2> HIDE DEF conv, s, tr, said, acked, p
  <2>8. PeerFields(p) /\ p.sender = s /\ p.receiver = tr
    BY <2>3 DEF PeerFields
  <2>9. Bounded(s, RecvCapacity)
    BY <2>4, CapacitiesAssumption DEF Bounded
  <2>10. PeerOK(conv, 0, said, RecvCapacity, p, << >>)
    BY <2>4, <2>6, <2>8, <2>9 DEF PeerOK
  <2>11. Side(conv, 0, said, acked, p, << >>, << >>, FALSE)
    BY <2>4, <2>5, <2>7, <2>8, <2>10 DEF Side
  <2> QED
    BY <2>3, <2>11 DEF SideOK, conv, said, acked, p
<1> QED
  BY <1>1, <1>2 DEF IInv

-----------------------------------------------------------------------------
(* A call of one peer *)

\* Its clocks put back, an answer is as good.
LEMMA UnclockedIsOK ==
  ASSUME NEW conv, NEW w, NEW said, NEW cap, NEW read, NEW acked, NEW was, NEW r,
         Answer(conv, w, said, cap, read, acked, was, r),
         NEW q, q = [ peer |-> Unclocked(r.peer), sends |-> r.sends ]
  PROVE  Answer(conv, w, said, cap, read, acked, was, q)
<1> DEFINE p == r.peer
           s == p.sender
           s1 == PutBack(s, p.rt_timeout)
           time == IF p.cumulative_time >= p.time_of_last_receipt + 10 * p.rt_timeout
                   THEN 10 * p.rt_timeout ELSE 0
           p1 == [p EXCEPT !.sender = s1]
           p2 == [p1 EXCEPT !.cumulative_time = time]
           p3 == [p2 EXCEPT !.time_of_last_receipt = 0]
<1>1. /\ PeerFields(p) /\ Ready(conv, s, w) /\ Bounded(s, cap) /\ NoStall(s)
      /\ ReceiverOK(said, cap, p.receiver, read) /\ p.rt_timeout \in Nat
      /\ Follows(was, p, acked)
      /\ NetOK(SaidSoFar(conv, s, w), Acked(p.receiver), cap, said.isn, r.sends)
  BY DEF Answer, PeerOK, PeerFields
<1>2. Unclocked(p) = p3
  BY <1>1 DEF Unclocked, PeerFields, PutBack
<1>3. /\ Ready(conv, s1, w) /\ NoStall(s1) /\ Start(s1, 0) = Start(s, 0) /\ Alike(s, s1)
  <2> DEFINE rto == p.rt_timeout
  <2> HIDE DEF rto, s
  <2> QED
    BY <1>1, ClockPutBack DEF rto
<1> HIDE DEF s1, time
<1>4. Bounded(s1, cap) /\ s1.input = s.input
  BY <1>1, <1>3, AlikeIsBounded
<1>5. PeerFields(p3) /\ p3.sender = s1 /\ p3.receiver = p.receiver
  <2>1. PeerFields(p1) /\ p1.sender = s1 /\ p1.receiver = p.receiver
    <3> HIDE DEF p
    <3> QED
      BY <1>1, PeerWithSender
  <2> HIDE DEF p1
  <2>2. PeerFields(p2) /\ p2.sender = s1 /\ p2.receiver = p.receiver
    BY <2>1, PeerWithClock
  <2> HIDE DEF p2
  <2> QED
    BY <2>2, PeerWithClock
<1> HIDE DEF p3
<1>6. q.peer = p3 /\ q.sends = r.sends
  BY <1>2
<1>7. PeerOK(conv, w, said, cap, p3, read)
  BY <1>1, <1>3, <1>4, <1>5 DEF PeerOK
<1>8. Follows(was, p3, acked)
  BY <1>1, <1>3, <1>4, <1>5 DEF Follows
<1>9. SaidSoFar(conv, s1, w) = SaidSoFar(conv, s, w)
  BY <1>4 DEF SaidSoFar
<1> QED
  BY <1>1, <1>3, <1>5, <1>6, <1>7, <1>8, <1>9 DEF Answer

\* What a receiver has of what the other side said.
LEMMA ReceiverHas ==
  ASSUME NEW said, IsSaid(said), NEW cap \in Nat, NEW tr, NEW read, ReceiverOK(said, cap, tr, read)
  PROVE  /\ Inbound(tr).is_closed => /\ said.ended /\ HasValue(tr.isn)
                                     /\ Inbound(tr).bytes_pushed = Len(said.stream)
         /\ ~Inbound(tr).error /\ Len(read) \in Nat /\ Len(Inbound(tr).buffer) \in Nat
         /\ Inbound(tr).bytes_pushed \in 0 .. Len(said.stream) /\ Len(said.stream) \in Nat
         /\ Len(read) + Len(Inbound(tr).buffer) = Inbound(tr).bytes_pushed
         /\ Len(Inbound(tr).buffer) <= cap
         /\ \A i \in 1 .. Len(read) : read[i] = said.stream[i]
         /\ ~HasValue(tr.isn) => Inbound(tr).buffer = << >> /\ Acked(tr) = 0
         /\ HasValue(tr.isn) => Acked(tr) = Inbound(tr).bytes_pushed + 1 + Count(Inbound(tr).is_closed)
<1>1. Len(said.stream) \in Nat
  BY StreamIsStream
<1>2. CASE tr = NewReceiver(cap) /\ read = << >>
  <2>1. /\ ~HasValue(tr.isn) /\ Acked(tr) = 0
        /\ Inbound(tr).bytes_pushed = 0 /\ Inbound(tr).buffer = << >>
        /\ ~Inbound(tr).is_closed /\ ~Inbound(tr).error
    BY <1>2, NewReceiverFacts
  <2> QED
    BY <1>1, <1>2, <2>1, EmptySeq
<1>3. CASE tr.isn = Some(said.isn)
  <2> DEFINE r == tr.reassembler
             bs == r.output
  <2>1. HasValue(tr.isn)
    BY <1>3 DEF HasValue, Some, None
  <2>2. /\ GoodAfterSyn(said, r, read) /\ bs = Inbound(tr)
        /\ Acked(tr) = bs.bytes_pushed + 1 + Count(bs.is_closed)
        /\ bs.is_closed => bs.bytes_pushed = Len(said.stream) /\ said.ended
        /\ read \in Seq(ToSet(said.stream))
    BY <2>1, AckedIsIndex DEF ReceiverOK, Inbound
  <2> HIDE DEF r, bs
  <2>3. /\ bs.bytes_pushed \in 0 .. Len(said.stream)
        /\ Len(read) + Len(bs.buffer) = bs.bytes_pushed
        /\ IsSlice(said.stream, read \o bs.buffer, 0)
        /\ Len(read \o bs.buffer) = bs.bytes_pushed
    BY <2>2, PushedIsNext DEF bs
  <2>4. /\ ~bs.error /\ bs.buffer \in Seq(ToSet(MarkedStream(said)))
        /\ Len(bs.buffer) <= bs.capacity /\ bs.capacity = cap
    <3>1. OutputOK(MarkedStream(said), bs) /\ bs.capacity = cap
      BY <2>2 DEF GoodAfterSyn, Sound, bs, ReceiverOK
    <3> QED
      BY <3>1 DEF OutputOK, ByteStreams
  <2>5. Len(read) \in Nat /\ Len(bs.buffer) \in Nat
    BY <2>2, <2>4, LenProperties
  <2>6. ASSUME NEW i \in 1 .. Len(read) PROVE read[i] = said.stream[i]
    <3>1. read \in Seq(ToSet(MarkedStream(said)))
      BY <2>2, MarkedHasAll, SeqMonotonic
    <3>2. i \in 1 .. Len(read) + Len(bs.buffer) /\ i <= Len(read)
          /\ i \in 1 .. Len(read \o bs.buffer)
      BY <2>3, <2>5
    <3>3. (read \o bs.buffer)[i] = read[i]
      BY <2>4, <3>1, <3>2, ConcatProperties
    <3>4. (read \o bs.buffer)[i] = said.stream[0 + i]
      BY <2>3, <3>2 DEF IsSlice
    <3> QED
      BY <3>2, <3>3, <3>4
  <2> QED
    BY <1>1, <2>1, <2>2, <2>3, <2>4, <2>5, <2>6
<1> QED
  BY <1>2, <1>3 DEF ReceiverOK

LEMMA StartIsNat ==
  ASSUME NEW conv, NEW w, NEW s, Ready(conv, s, w)
  PROVE  Start(s, 0) \in Nat
<1>1. SoundSender(conv, s, w)
  BY DEF Ready
<1>2. 0 \in 0 .. Len(s.outstanding)
  BY <1>1, SenderIsTyped
<1> QED
  BY <1>1, <1>2, StartsInARow

\* A side while the other side says more and acknowledges more.
LEMMA SideWaits ==
  ASSUME NEW conv, NEW w, NEW said, NEW acked \in Nat, NEW p, NEW sent, NEW read, NEW ended,
         Side(conv, w, said, acked, p, sent, read, ended),
         NEW more, Grows(said, more), NEW later \in Nat, acked <= later,
         NEW after, NetOK(more, later, RecvCapacity, conv.isn, after)
  PROVE  Side(conv, w, more, later, p, after, read, ended)
<1> DEFINE s == p.sender
           tr == p.receiver
           cap == RecvCapacity
           start == Start(s, 0)
<1>1. /\ PeerFields(p) /\ Ready(conv, s, w) /\ Bounded(s, cap) /\ NoStall(s)
      /\ ReceiverOK(said, cap, tr, read) /\ start <= acked
      /\ ended => Inbound(tr).is_closed /\ Len(read) = Len(said.stream)
  BY DEF Side, PeerOK
<1>2. IsSaid(said) /\ cap \in Nat
  BY CapacitiesAssumption DEF Grows
<1>3. start \in Nat
  BY <1>1, StartIsNat
<1> HIDE DEF cap, tr, s, start
<1>4. ReceiverOK(more, cap, tr, read)
  BY <1>1, ReceiverOKLater
<1>5. start <= later
  BY <1>1, <1>3
<1>6. ended => Inbound(tr).is_closed /\ Len(read) = Len(more.stream)
  <2>1. Inbound(tr).is_closed => said.ended
    BY <1>1, <1>2, ReceiverHas
  <2> QED
    BY <1>1, <2>1 DEF Grows
<1> QED
  BY <1>1, <1>4, <1>5, <1>6 DEF Side, PeerOK, cap, tr, s, start

\* A side after an answer of its peer.
LEMMA SideAnswers ==
  ASSUME NEW conv, NEW w, NEW said, NEW acked \in Nat, NEW p, NEW sent, NEW read, NEW ended,
         Side(conv, w, said, acked, p, sent, read, ended),
         NEW v, NEW was, NEW r, Answer(conv, v, said, RecvCapacity, read, acked, was, r),
         Start(was.sender, 0) = Start(p.sender, 0), was.receiver = p.receiver,
         NEW left, NetOK(said, acked, RecvCapacity, conv.isn, left)
  PROVE  /\ Side(conv, v, said, acked, r.peer, left, read, ended)
         /\ Acked(r.peer.receiver) >= Acked(p.receiver)
<1>1. /\ PeerOK(conv, v, said, RecvCapacity, r.peer, read) /\ NoStall(r.peer.sender)
      /\ Follows(was, r.peer, acked)
  BY DEF Answer
<1>2. Start(r.peer.sender, 0) <= acked
  <2>1. Start(p.sender, 0) <= acked
    BY DEF Side
  <2> QED
    BY <1>1, <2>1 DEF Follows
<1>3. /\ Acked(r.peer.receiver) >= Acked(p.receiver)
      /\ Inbound(p.receiver).is_closed => Inbound(r.peer.receiver).is_closed
  BY <1>1 DEF Follows
<1> QED
  BY <1>1, <1>2, <1>3 DEF Side

LEMMA GrowsNot ==
  ASSUME NEW said, IsSaid(said)
  PROVE  Grows(said, said)
<1>1. Len(said.stream) \in Nat
  BY StreamIsStream
<1> QED
  BY <1>1 DEF Grows

Kept ==
  \A x \in Peers :
    /\ Grows(Said(x), Said(x)')
    /\ shut[x] => shut'[x]
    /\ Len(received[x]) <= Len(received'[x])
    /\ \A i \in 1 .. Len(received[x]) : received'[x][i] = received[x][i]

\* The segments that are left are some that were on their way.
SomeOf(left) ==
  /\ left = [y \in Peers |-> left[y]]
  /\ \A y \in Peers : IsStream(left[y]) /\ \A g \in ToSet(left[y]) : g \in ToSet(net[y])

\* What x's peer answers in a call that leaves w bytes written, starting from was.
Answers(x, w, was, r) ==
  /\ Answer(Whole(x), w, Said(Other(x)), RecvCapacity, received[x],
            Acked(peer[Other(x)].receiver), was, r)
  /\ Start(was.sender, 0) = Start(peer[x].sender, 0) /\ was.receiver = peer[x].receiver
  /\ Grows(Said(x), SaidSoFar(Whole(x), was.sender, w))

LEMMA DoesKeeps ==
  ASSUME IInv, ShortStreams, NEW x \in Peers, NEW r, NEW left, SomeOf(left), Does(x, r, left),
         NEW w \in Nat, NEW was, Answers(x, w, was, r),
         written' = [written EXCEPT ![x] = w], UNCHANGED << received, shut >>
  PROVE  IInv' /\ Kept
<1> DEFINE y == Other(x)
           conv == Whole(x)
           said == Said(y)
           acked == Acked(peer[y].receiver)
           q == [ peer |-> Unclocked(r.peer), sends |-> r.sends ]
           p == Unclocked(r.peer)
           old == Said(x)
           more == SaidSoFar(conv, p.sender, w)
           then == Acked(peer[x].receiver)
           later == Acked(p.receiver)
           sent == left[y] \o r.sends
           all == Take(sent, MinOf(Len(sent), NetCapacity))
<1>1. /\ y \in Peers /\ y # x /\ Other(y) = x /\ \A z \in Peers : z = x \/ z = y
  BY TwoPeers
<1>2. /\ Side(conv, written[x], said, acked, peer[x], net[x], received[x], shut[x])
      /\ Side(Whole(y), written[y], old, then, peer[y], net[y], received[y], shut[y])
      /\ Functions
  BY <1>1 DEF IInv, SideOK
<1>3. /\ Way(said, RecvCapacity) /\ said.isn = Isns[y]
      /\ Way(old, RecvCapacity) /\ old.isn = Isns[x]
  BY <1>1, SidesMeet
<1>4. conv.isn = Isns[x] /\ Whole(y).isn = Isns[y]
  BY <1>1, WholeIsConversation
<1>5. acked \in Nat /\ then \in Nat
  BY <1>2, <1>3, AckedIsNat DEF Side, PeerOK
<1>6. /\ peer'[x] = p /\ peer'[y] = peer[y] /\ peer' = [z \in Peers |-> peer'[z]]
      /\ net'[x] = left[x] /\ net'[y] = all /\ net' = [z \in Peers |-> net'[z]]
      /\ written'[x] = w /\ written'[y] = written[y] /\ written' \in [Peers -> Nat]
  <2> HIDE DEF y, p, sent
  <2>1. /\ peer = [z \in Peers |-> peer[z]] /\ left = [z \in Peers |-> left[z]]
        /\ written \in [Peers -> Nat]
    BY <1>2 DEF Functions, SomeOf
  <2>2. /\ peer' = [peer EXCEPT ![x] = p]
        /\ net' = [left EXCEPT ![y] = all]
    BY DEF Does, y, p, sent
  <2> HIDE DEF all
  <2>3. peer'[x] = p /\ peer'[y] = peer[y] /\ peer' = [z \in Peers |-> peer'[z]]
    BY <1>1, <2>1, <2>2
  <2>4. net'[x] = left[x] /\ net'[y] = all /\ net' = [z \in Peers |-> net'[z]]
    BY <1>1, <2>1, <2>2
  <2>5. written'[x] = w /\ written'[y] = written[y] /\ written' \in [Peers -> Nat]
    BY <1>1, <2>1
  <2> QED
    BY <2>3, <2>4, <2>5
<1>7. /\ Answer(conv, w, said, RecvCapacity, received[x], acked, was, q)
      /\ Start(was.sender, 0) = Start(peer[x].sender, 0) /\ was.receiver = peer[x].receiver
      /\ Grows(old, SaidSoFar(conv, was.sender, w))
      /\ q.peer = p /\ q.sends = r.sends
  <2> HIDE DEF said, acked, conv
  <2>1. Answer(conv, w, said, RecvCapacity, received[x], acked, was, r)
    BY DEF Answers, said, acked, conv, y
  <2>2. Answer(conv, w, said, RecvCapacity, received[x], acked, was, q)
    BY <2>1, UnclockedIsOK
  <2> QED
    BY <2>2 DEF Answers, conv, old
<1> HIDE DEF p, q, acked, said, conv, old, then
<1>8. Grows(old, more)
  <2>1. p.sender.input.is_closed = was.sender.input.is_closed
    BY <1>7 DEF Answer, Follows
  <2>2. more = SaidSoFar(conv, was.sender, w)
    BY <2>1 DEF SaidSoFar
  <2> QED
    BY <1>7, <2>2
<1>9. /\ NetOK(said, acked, RecvCapacity, conv.isn, left[x])
      /\ NetOK(old, then, RecvCapacity, Isns[y], left[y])
  <2>1. /\ NetOK(said, acked, RecvCapacity, conv.isn, net[x])
        /\ NetOK(old, then, RecvCapacity, Isns[y], net[y])
    BY <1>2, <1>4 DEF Side
  <2>2. /\ IsStream(left[x]) /\ \A g \in ToSet(left[x]) : g \in ToSet(net[x])
        /\ IsStream(left[y]) /\ \A g \in ToSet(left[y]) : g \in ToSet(net[y])
    BY <1>1 DEF SomeOf
  <2> QED
    BY <2>1, <2>2, NetOfSome
<1>10. /\ Side(conv, w, said, acked, q.peer, left[x], received[x], shut[x])
       /\ Acked(q.peer.receiver) >= Acked(peer[x].receiver)
  BY <1>2, <1>5, <1>7, <1>9, SideAnswers
<1>11. later \in Nat /\ then <= later
  <2>1. PeerOK(conv, w, said, RecvCapacity, p, received[x])
    BY <1>7, <1>10 DEF Side
  <2>2. later \in Nat
    BY <1>3, <2>1, AckedIsNat DEF PeerOK
  <2> QED
    BY <1>5, <1>7, <1>10, <2>2 DEF then
<1>12. NetOK(more, later, RecvCapacity, Isns[y], r.sends)
  BY <1>3, <1>7 DEF Answer
<1> HIDE DEF more, later
<1>13. NetOK(more, later, RecvCapacity, Isns[y], all)
  <2>1. NetOK(more, later, RecvCapacity, Isns[y], left[y])
    BY <1>5, <1>8, <1>9, <1>11, NetLater
  <2>2. NetCapacity \in Nat
    BY CapacitiesAssumption
  <2> QED
    BY <1>12, <2>1, <2>2, NetJoins
<1> HIDE DEF all
<1>14. Side(Whole(y), written[y], more, later, peer[y], all, received[y], shut[y])
  BY <1>2, <1>4, <1>5, <1>8, <1>11, <1>13, SideWaits
<1>15. Said(x)' = more /\ Said(y)' = said /\ Acked(peer'[x].receiver) = later
       /\ Acked(peer'[y].receiver) = acked
  <2>1. Said(x)' = SaidSoFar(conv, peer'[x].sender, written'[x])
    BY DEF Said, conv, Whole
  <2>2. Said(y)' = SaidSoFar(Whole(y), peer'[y].sender, written'[y])
    BY DEF Said, Whole
  <2>3. said = SaidSoFar(Whole(y), peer[y].sender, written[y])
    BY DEF said, Said
  <2> QED
    BY <1>6, <2>1, <2>2, <2>3 DEF more, later, acked
<1>16. SideOK(x)' /\ SideOK(y)'
  <2>1. SideOK(x)' = Side(conv, written'[x], Said(y)', Acked(peer'[y].receiver), peer'[x],
                          net'[x], received'[x], shut'[x])
    BY DEF SideOK, conv, Whole
  <2>2. SideOK(y)' = Side(Whole(y), written'[y], Said(x)', Acked(peer'[x].receiver), peer'[y],
                          net'[y], received'[y], shut'[y])
    BY <1>1 DEF SideOK, Whole
  <2> QED
    BY <1>6, <1>7, <1>10, <1>14, <1>15, <2>1, <2>2
<1>17. Functions'
  BY <1>2, <1>6 DEF Functions
<1>18. IInv'
  BY <1>1, <1>16, <1>17 DEF IInv
<1>19. Kept
  <2>1. Grows(Said(x), Said(x)')
    BY <1>8, <1>15 DEF old
  <2>2. Grows(Said(y), Said(y)')
    BY <1>3, <1>15, GrowsNot DEF said, Way
  <2>3. \A z \in Peers : Len(received[z]) \in Nat
    <3>1. ASSUME NEW conv1, NEW w1, NEW said1, NEW acked1, NEW p1, NEW sent1, NEW read1, NEW end1,
                 Side(conv1, w1, said1, acked1, p1, sent1, read1, end1)
          PROVE  Len(read1) \in Nat
      BY <3>1, LenProperties DEF Side, PeerOK, ReceiverOK
    <3> QED
      BY <1>1, <1>2, <3>1
  <2> QED
    BY <1>1, <2>1, <2>2, <2>3 DEF Kept
<1> QED
  BY <1>18, <1>19

-----------------------------------------------------------------------------
(* The steps of the connection *)

\* What one peer finds when it is called.
LEMMA PeerIsOK ==
  ASSUME IInv, ShortStreams, NEW x \in Peers
  PROVE  /\ PeerOK(Whole(x), written[x], Said(Other(x)), RecvCapacity, peer[x], received[x])
         /\ NoStall(peer[x].sender)
         /\ Way(Said(Other(x)), RecvCapacity)
         /\ Acked(peer[Other(x)].receiver) \in 0 .. written[x] + 2 /\ written[x] \in Nat
         /\ 2 * (Len(Whole(x).stream) + 2) < Modulus
         /\ IsSaid(Said(x))
<1> DEFINE y == Other(x)
           tr == peer[y].receiver
           said == Said(x)
           read == received[y]
<1>1. y \in Peers /\ Other(y) = x
  BY TwoPeers
<1>2. /\ PeerOK(Whole(x), written[x], Said(y), RecvCapacity, peer[x], received[x])
      /\ NoStall(peer[x].sender)
      /\ ReceiverOK(said, RecvCapacity, tr, read)
  BY <1>1 DEF IInv, SideOK, Side, PeerOK
<1>3. /\ Way(said, RecvCapacity) /\ Way(Said(y), RecvCapacity)
      /\ Len(said.stream) = written[x] /\ written[x] \in Nat
  BY <1>1, SidesMeet
<1>4. 2 * (Len(Whole(x).stream) + 2) < Modulus
  BY WholeIsConversation DEF ShortStreams
<1> HIDE DEF y, tr, said, read
<1>5. Acked(tr) \in 0 .. Len(said.stream) + 2
  BY <1>2, <1>3, AckedIsNat
<1> QED
  BY <1>2, <1>3, <1>4, <1>5 DEF y, tr, said, Way

LEMMA NetIsSome ==
  ASSUME IInv
  PROVE  SomeOf(net)
<1>1. \A x \in Peers : IsStream(net[x])
  BY DEF IInv, SideOK, Side, NetOK
<1> QED
  BY <1>1 DEF SomeOf, IInv, Functions

\* A call that writes nothing.
LEMMA PlainStep ==
  ASSUME IInv, ShortStreams, NEW x \in Peers, NEW r, NEW left, SomeOf(left), Does(x, r, left),
         Answer(Whole(x), written[x], Said(Other(x)), RecvCapacity, received[x],
                Acked(peer[Other(x)].receiver), peer[x], r),
         OwnerIdle
  PROVE  IInv' /\ Kept
<1> DEFINE w == written[x]
           was == peer[x]
<1>1. w \in Nat /\ IsSaid(Said(x))
  BY PeerIsOK
<1>2. written' = [written EXCEPT ![x] = w] /\ UNCHANGED << received, shut >>
  BY DEF OwnerIdle, IInv, Functions
<1>3. Said(x) = SaidSoFar(Whole(x), was.sender, w)
  BY DEF Said
<1>4. Answers(x, w, was, r)
  BY <1>1, <1>3, GrowsNot DEF Answers
<1> HIDE DEF w, was
<1> QED
  BY <1>1, <1>2, <1>4, DoesKeeps

LEMMA ConnectKeeps == ASSUME IInv, ShortStreams, Connect PROVE IInv' /\ Kept
<1> DEFINE x == Client
           p == peer[x]
           r == PeerPush(p)
<1>1. x \in Peers
  BY TwoPeers
<1>2. Answer(Whole(x), written[x], Said(Other(x)), RecvCapacity, received[x],
             Acked(peer[Other(x)].receiver), p, r)
  <2> HIDE DEF x
  <2>1. /\ PeerOK(Whole(x), written[x], Said(Other(x)), RecvCapacity, p, received[x])
        /\ Way(Said(Other(x)), RecvCapacity)
    BY <1>1, PeerIsOK
  <2> HIDE DEF p
  <2> QED
    BY <2>1, PeerPushIsOK
<1>3. Does(x, r, net) /\ OwnerIdle /\ SomeOf(net)
  BY NetIsSome DEF Connect
<1> HIDE DEF x, r
<1> QED
  BY <1>1, <1>2, <1>3, PlainStep

LEMMA TickKeeps ==
  ASSUME IInv, ShortStreams, NEW x \in Peers, Timeout(x) \/ LingerEnds(x)
  PROVE  IInv' /\ Kept
<1> DEFINE p == peer[x]
<1>1. PICK ms \in Nat : Does(x, PeerTick(p, ms), net) /\ OwnerIdle
  <2>1. p.sender.current_RTO \in Nat /\ 10 * p.rt_timeout \in Nat
    <3>1. PeerFields(p) /\ SoundSender(Whole(x), p.sender, written[x])
      BY PeerIsOK DEF PeerOK, Ready
    <3> HIDE DEF p
    <3> QED
      BY <3>1, SenderIsTyped DEF PeerFields
  <2> QED
    BY <2>1 DEF Timeout, LingerEnds
<1> DEFINE r == PeerTick(p, ms)
<1>2. Answer(Whole(x), written[x], Said(Other(x)), RecvCapacity, received[x],
             Acked(peer[Other(x)].receiver), p, r)
  <2>1. /\ PeerOK(Whole(x), written[x], Said(Other(x)), RecvCapacity, p, received[x])
        /\ Way(Said(Other(x)), RecvCapacity) /\ NoStall(p.sender)
    BY PeerIsOK
  <2> HIDE DEF p
  <2> QED
    BY <2>1, PeerTickIsOK
<1>3. Does(x, r, net) /\ OwnerIdle /\ SomeOf(net)
  BY <1>1, NetIsSome
<1> HIDE DEF r
<1> QED
  BY <1>2, <1>3, PlainStep

LEMMA DeliverKeeps ==
  ASSUME IInv, ShortStreams, NEW x \in Peers, NEW i, Deliver(x, i)
  PROVE  IInv' /\ Kept
<1> DEFINE p == peer[x]
           g == net[x][i]
           r == PeerReceive(p, g)
           left == [net EXCEPT ![x] = RemoveAt(net[x], i)]
           conv == Whole(x)
           said == Said(Other(x))
           acked == Acked(peer[Other(x)].receiver)
<1>1. i \in 1 .. Len(net[x]) /\ Does(x, r, left) /\ OwnerIdle
  BY DEF Deliver
<1>2. net = [y \in Peers |-> net[y]] /\ \A y \in Peers : IsStream(net[y])
  BY DEF IInv, Functions, SideOK, Side, NetOK
<1>3. /\ IsStream(RemoveAt(net[x], i)) /\ g \in ToSet(net[x])
      /\ \A h \in ToSet(RemoveAt(net[x], i)) : h \in ToSet(net[x])
  BY <1>1, <1>2, RemovedFrom
<1>4. SomeOf(left)
  BY <1>2, <1>3 DEF SomeOf
<1>5. Good(said, acked, RecvCapacity, conv.isn, g)
  <2>1. NetOK(said, acked, RecvCapacity, conv.isn, net[x])
    BY DEF IInv, SideOK, Side
  <2> QED
    BY <1>3, <2>1 DEF NetOK
<1>6. /\ PeerOK(conv, written[x], said, RecvCapacity, p, received[x])
      /\ Way(said, RecvCapacity) /\ NoStall(p.sender)
      /\ acked \in 0 .. written[x] + 2 /\ 2 * (Len(conv.stream) + 2) < Modulus
  BY PeerIsOK
<1>7. Answer(conv, written[x], said, RecvCapacity, received[x], acked, p, r)
  <2> HIDE DEF p, conv, said, acked, g
  <2> QED
    BY <1>5, <1>6, PeerReceiveIsOK
<1> HIDE DEF r, left
<1> QED
  BY <1>1, <1>4, <1>7, PlainStep

\* A sender that was given more of its stream says more.
LEMMA SaysMore ==
  ASSUME NEW conv, NEW w, NEW s, SoundSender(conv, s, w), NEW v, NEW q, SoundSender(conv, q, v),
         w <= v, s.input.is_closed => q.input.is_closed /\ v = w
  PROVE  Grows(SaidSoFar(conv, s, w), SaidSoFar(conv, q, v))
<1> DEFINE said == SaidSoFar(conv, s, w)
           more == SaidSoFar(conv, q, v)
<1>1. /\ IsSaid(said) /\ said.isn = conv.isn /\ said.ended = s.input.is_closed
      /\ said.stream = Take(conv.stream, w) /\ Len(said.stream) = w /\ w \in Nat
      /\ \A i \in 1 .. w : said.stream[i] = conv.stream[i]
  BY SaidIsSaid
<1>2. /\ IsSaid(more) /\ more.isn = conv.isn /\ more.ended = q.input.is_closed
      /\ more.stream = Take(conv.stream, v) /\ Len(more.stream) = v /\ v \in Nat
      /\ \A i \in 1 .. v : more.stream[i] = conv.stream[i]
  BY SaidIsSaid
<1> HIDE DEF said, more
<1>3. \A i \in 1 .. w : more.stream[i] = said.stream[i]
  BY <1>1, <1>2
<1>4. Grows(said, more)
  BY <1>1, <1>2, <1>3 DEF Grows
<1> QED
  BY <1>4 DEF said, more

\* A peer whose owner wrote or ended its stream, before it pushes.
WithInput(p, input) == [p EXCEPT !.sender = [p.sender EXCEPT !.input = input]]

LEMMA WriterStep ==
  ASSUME IInv, ShortStreams, NEW x \in Peers, NEW input, NEW v \in Nat,
         Ready(Whole(x), [peer[x].sender EXCEPT !.input = input], v),
         Start([peer[x].sender EXCEPT !.input = input], 0) = Start(peer[x].sender, 0),
         written[x] <= v, ~peer[x].sender.input.is_closed,
         Does(x, PeerPush(WithInput(peer[x], input)), net),
         written' = [written EXCEPT ![x] = v], UNCHANGED << received, shut >>
  PROVE  IInv' /\ Kept
<1> DEFINE p == peer[x]
           s == p.sender
           s2 == [s EXCEPT !.input = input]
           was == WithInput(p, input)
           conv == Whole(x)
           w == written[x]
           said == Said(Other(x))
           acked == Acked(peer[Other(x)].receiver)
           r == PeerPush(was)
<1>1. /\ PeerOK(conv, w, said, RecvCapacity, p, received[x]) /\ Way(said, RecvCapacity)
  BY PeerIsOK
<1>2. /\ PeerFields(p) /\ Ready(conv, s, w) /\ Bounded(s, RecvCapacity)
      /\ ReceiverOK(said, RecvCapacity, p.receiver, received[x]) /\ SoundSender(conv, s, w)
  BY <1>1 DEF PeerOK, Ready
<1>3. was.sender = s2 /\ was.receiver = p.receiver /\ PeerFields(was)
  <2>1. was = [p EXCEPT !.sender = s2]
    BY DEF WithInput
  <2> HIDE DEF was, p, s2
  <2> QED
    BY <1>2, <2>1, PeerWithSender
<1>4. Bounded(s2, RecvCapacity)
  <2>1. SenderFields(s)
    BY <1>2, SenderIsTyped
  <2>2. s2.window_size = s.window_size /\ s2.bytes_in_flight = s.bytes_in_flight
    <3> HIDE DEF s
    <3> QED
      BY <2>1 DEF SenderFields
  <2> QED
    BY <1>2, <2>2 DEF Bounded
<1>5. /\ Ready(conv, s2, v) /\ SoundSender(conv, s2, v) /\ Start(s2, 0) = Start(s, 0) /\ w <= v
      /\ ~s.input.is_closed
  BY DEF Ready
<1>6. Said(x) = SaidSoFar(conv, s, w)
  BY DEF Said
<1> HIDE DEF was, s2, s, conv, w
<1>7. PeerOK(conv, v, said, RecvCapacity, was, received[x])
  BY <1>2, <1>3, <1>4, <1>5 DEF PeerOK
<1>8. Answer(conv, v, said, RecvCapacity, received[x], acked, was, r)
  <2> HIDE DEF said, acked
  <2> QED
    BY <1>1, <1>7, PeerPushIsOK
<1>9. Grows(Said(x), SaidSoFar(conv, s2, v))
  BY <1>2, <1>5, <1>6, SaysMore
<1>10. Answers(x, v, was, r)
  BY <1>3, <1>5, <1>8, <1>9 DEF Answers, conv, s
<1>11. Does(x, r, net)
  BY DEF was
<1> HIDE DEF r
<1> QED
  BY <1>10, <1>11, NetIsSome, DoesKeeps

LEMMA WriteKeeps ==
  ASSUME IInv, ShortStreams, NEW x \in Peers, NEW n \in 1 .. SendCapacity, OwnerWrite(x, n)
  PROVE  IInv' /\ Kept
<1> DEFINE p == peer[x]
           s == p.sender
           w == written[x]
           conv == Whole(x)
           data == SubSeq(conv.stream, w + 1, w + n)
           input == Push(s.input, data)
           s2 == [s EXCEPT !.input = input]
           v == w + n
<1>1. conv.stream = Streams[x]
  BY WholeIsConversation
<1>2. /\ s.syn_sent /\ ~s.input.is_closed /\ n <= AvailableCapacity(s.input)
      /\ w + n <= Len(conv.stream)
      /\ written' = [written EXCEPT ![x] = v] /\ UNCHANGED << received, shut >>
  BY <1>1 DEF OwnerWrite, TakesInput, Established, Outbound, IInv, Functions
<1>3. Does(x, PeerPush(WithInput(p, input)), net)
  <2>1. WithInput(p, input) = [p EXCEPT !.sender.input = input]
    BY DEF WithInput
  <2> QED
    BY <1>1, <2>1 DEF OwnerWrite
<1>4. Ready(conv, s, w) /\ w \in Nat /\ n \in Nat
  BY PeerIsOK DEF PeerOK
<1>5. Ready(conv, s2, v) /\ Start(s2, 0) = Start(s, 0)
  <2> HIDE DEF s, conv, w
  <2> QED
    BY <1>2, <1>4, WriteIsReady
<1>6. v \in Nat /\ w <= v
  BY <1>4
<1> HIDE DEF input, v
<1> QED
  BY <1>2, <1>3, <1>5, <1>6, WriterStep

LEMMA CloseKeeps ==
  ASSUME IInv, ShortStreams, NEW x \in Peers, OwnerClose(x)
  PROVE  IInv' /\ Kept
<1> DEFINE p == peer[x]
           s == p.sender
           w == written[x]
           conv == Whole(x)
           input == Close(s.input)
           s2 == [s EXCEPT !.input = input]
<1>1. conv.stream = Streams[x]
  BY WholeIsConversation
<1>2. /\ s.syn_sent /\ ~s.input.is_closed /\ w = Len(conv.stream)
      /\ written' = [written EXCEPT ![x] = w] /\ UNCHANGED << received, shut >>
  BY <1>1 DEF OwnerClose, TakesInput, Established, Outbound, OwnerIdle, IInv, Functions
<1>3. Does(x, PeerPush(WithInput(p, input)), net)
  <2>1. WithInput(p, input) = [p EXCEPT !.sender.input = input]
    BY DEF WithInput
  <2> QED
    BY <1>1, <2>1 DEF OwnerClose
<1>4. Ready(conv, s, w) /\ w \in Nat
  BY PeerIsOK DEF PeerOK
<1>5. Ready(conv, s2, w) /\ Start(s2, 0) = Start(s, 0)
  <2> HIDE DEF s, conv, w
  <2> QED
    BY <1>2, <1>4, CloseIsReady
<1>6. w <= w
  BY <1>4
<1> HIDE DEF input, w
<1> QED
  BY <1>2, <1>3, <1>4, <1>5, <1>6, WriterStep DEF w

\* The other side of a peer whose owner reads notices nothing.
LEMMA ReadKeeps ==
  ASSUME IInv, ShortStreams, NEW x \in Peers, NEW n \in Nat, OwnerRead(x, n)
  PROVE  IInv' /\ Kept
<1> DEFINE y == Other(x)
           p == peer[x]
           tr == p.receiver
           bs == Inbound(tr)
           tr2 == [tr EXCEPT !.reassembler.output = Pop(@, n)]
           p2 == [p EXCEPT !.receiver = tr2]
           left == Pop(bs, n)
           taken == Take(bs.buffer, n)
           read == received[x]
           read2 == read \o taken
           ended == shut[x] \/ IsFinished(left) \/ left.error
           conv == Whole(x)
           w == written[x]
           said == Said(y)
           acked == Acked(peer[y].receiver)
<1>1. /\ y \in Peers /\ y # x /\ Other(y) = x /\ \A z \in Peers : z = x \/ z = y
  BY TwoPeers
<1>2. /\ Side(conv, w, said, acked, p, net[x], read, shut[x]) /\ SideOK(y)
      /\ Functions /\ IsSaid(said) /\ RecvCapacity \in Nat /\ IsSaid(Said(x))
  BY <1>1, PeerIsOK, CapacitiesAssumption DEF IInv, SideOK, Way
<1>3. /\ n <= Len(bs.buffer) /\ (bs.buffer = << >> => IsFinished(bs) \/ bs.error)
      /\ peer' = [peer EXCEPT ![x] = p2]
      /\ received' = [received EXCEPT ![x] = read2]
      /\ shut' = [shut EXCEPT ![x] = ended]
      /\ UNCHANGED << net, written >>
  <2>1. peer' = [peer EXCEPT ![x].receiver.reassembler.output = left]
    BY DEF OwnerRead, InboundOf
  <2>2. [peer EXCEPT ![x].receiver.reassembler.output = left] = [peer EXCEPT ![x] = p2]
    BY DEF Inbound
  <2> QED
    BY <2>1, <2>2 DEF OwnerRead, InboundOf
<1>4. peer'[x] = p2 /\ peer'[y] = peer[y] /\ received'[x] = read2 /\ received'[y] = received[y]
      /\ shut'[x] = ended /\ shut'[y] = shut[y] /\ net' = net /\ written' = written
  <2> HIDE DEF p2, read2, ended, y
  <2> QED
    BY <1>1, <1>2, <1>3 DEF Functions
<1>5. Functions'
  <2>1. ended \in BOOLEAN
    BY <1>2 DEF Functions, IsFinished
  <2> HIDE DEF p2, read2, ended, y
  <2> QED
    BY <1>2, <1>3, <2>1 DEF Functions
<1>6. /\ PeerFields(p) /\ Ready(conv, p.sender, w) /\ Bounded(p.sender, RecvCapacity)
      /\ NoStall(p.sender) /\ ReceiverOK(said, RecvCapacity, tr, read)
      /\ NetOK(said, acked, RecvCapacity, conv.isn, net[x]) /\ Start(p.sender, 0) <= acked
      /\ shut[x] => bs.is_closed /\ Len(read) = Len(said.stream)
  BY <1>2 DEF Side, PeerOK
<1> HIDE DEF said, acked, conv, w
<1>7. /\ bs.is_closed => HasValue(tr.isn)
      /\ ~bs.error /\ Len(bs.buffer) \in Nat
      /\ ~HasValue(tr.isn) => bs.buffer = << >>
      /\ Len(read) \in Nat
  BY <1>2, <1>6, ReceiverHas
<1>8. HasValue(tr.isn) /\ n \in 0 .. Len(bs.buffer)
  BY <1>3, <1>7 DEF IsFinished
<1>9. /\ ReceiverOK(said, RecvCapacity, tr2, read2) /\ Acked(tr2) = Acked(tr)
      /\ Inbound(tr2).is_closed = bs.is_closed /\ Inbound(tr2) = left
  BY <1>2, <1>6, <1>8, ReadIsOK
<1>10. /\ left.is_closed => left.bytes_pushed = Len(said.stream)
       /\ ~left.error /\ Len(left.buffer) \in Nat
       /\ left.bytes_pushed \in 0 .. Len(said.stream) /\ Len(said.stream) \in Nat
       /\ Len(read2) + Len(left.buffer) = left.bytes_pushed /\ Len(read2) \in Nat
  <2> DEFINE cap == RecvCapacity
             Has(in, m) == /\ in.is_closed => in.bytes_pushed = Len(said.stream)
                           /\ ~in.error /\ Len(in.buffer) \in Nat
                           /\ in.bytes_pushed \in 0 .. Len(said.stream)
                           /\ Len(said.stream) \in Nat
                           /\ m + Len(in.buffer) = in.bytes_pushed /\ m \in Nat
  <2>1. IsSaid(said) /\ cap \in Nat
    BY <1>2
  <2> HIDE DEF left, tr2, read2, cap
  <2>2. ASSUME NEW t, NEW got, ReceiverOK(said, cap, t, got)
        PROVE  Has(Inbound(t), Len(got))
    <3>1. Len(got) \in Nat /\ Len(Inbound(t).buffer) \in Nat /\ ~Inbound(t).error
      BY <2>1, <2>2, ReceiverHas
    <3>2. Inbound(t).is_closed => Inbound(t).bytes_pushed = Len(said.stream)
      BY <2>1, <2>2, ReceiverHas
    <3>3. /\ Inbound(t).bytes_pushed \in 0 .. Len(said.stream) /\ Len(said.stream) \in Nat
          /\ Len(got) + Len(Inbound(t).buffer) = Inbound(t).bytes_pushed
      BY <2>1, <2>2, ReceiverHas
    <3> QED
      BY <3>1, <3>2, <3>3
  <2>3. ReceiverOK(said, cap, tr2, read2) /\ Inbound(tr2) = left
    BY <1>9 DEF cap
  <2> HIDE DEF Has
  <2>4. Has(left, Len(read2))
    <3>1. Has(Inbound(tr2), Len(read2))
      BY <2>2, <2>3
    <3> QED
      BY <2>3, <3>1
  <2> QED
    BY <2>4 DEF Has
<1>11. /\ Len(read) <= Len(read2) /\ \A i \in 1 .. Len(read) : read2[i] = read[i]
  <2> DEFINE S == ToSet(MarkedStream(said))
             b == bs.buffer
  <2>1. b \in Seq(S) /\ read \in Seq(S)
    <3>1. GoodAfterSyn(said, tr.reassembler, read) /\ read \in Seq(ToSet(said.stream))
      BY <1>2, <1>6, <1>8, AckedIsIndex DEF ReceiverOK
    <3>2. b \in Seq(S)
      BY <3>1 DEF GoodAfterSyn, Sound, OutputOK, ByteStreams, Inbound
    <3>3. read \in Seq(S)
      BY <1>2, <3>1, MarkedHasAll, SeqMonotonic
    <3> QED
      BY <3>2, <3>3
  <2>2. n \in 0 .. Len(b)
    BY <1>8
  <2> HIDE DEF S, b, read
  <2>3. Take(b, n) \in Seq(S) /\ Len(Take(b, n)) = n
    BY <2>1, <2>2, Parts
  <2> DEFINE t == Take(b, n)
  <2>4. t \in Seq(S) /\ Len(t) = n /\ read2 = read \o t
    BY <2>3 DEF b
  <2> HIDE DEF t, read2
  <2>5. Len(read2) = Len(read) + n /\ \A i \in 1 .. Len(read) + n :
          read2[i] = IF i <= Len(read) THEN read[i] ELSE t[i - Len(read)]
    BY <2>1, <2>4, ConcatProperties
  <2> QED
    BY <1>7, <2>5 DEF read
<1>12. ended => left.is_closed /\ Len(read2) = Len(said.stream)
  <2> DEFINE k == Len(left.buffer)
             m == Len(read2)
             l == Len(said.stream)
             j == left.bytes_pushed
  <2>1. CASE shut[x]
    <3>1. left.is_closed /\ l <= m
      BY <1>6, <1>9, <1>11, <2>1
    <3>2. m + k = j /\ j \in 0 .. l /\ k \in Nat /\ m \in Nat /\ l \in Nat
      BY <1>10
    <3> HIDE DEF k, m, l, j, left, read2
    <3>3. m = l
      BY <3>1, <3>2
    <3> QED
      BY <3>1, <3>3 DEF m, l
  <2>2. CASE IsFinished(left)
    <3>1. left.is_closed /\ k = 0 /\ j = l
      <4> HIDE DEF left, l, j
      <4> QED
        BY <1>10, <2>2, EmptySeq DEF IsFinished, l, j
    <3>2. m + k = j /\ m \in Nat
      BY <1>10
    <3> HIDE DEF k, m, l, j, left, read2
    <3>3. m = l
      BY <3>1, <3>2
    <3> QED
      BY <3>1, <3>3 DEF m, l
  <2> QED
    BY <1>10, <2>1, <2>2
<1>13. Side(conv, w, said, acked, p2, net[x], read2, ended)
  <2>1. PeerFields(p2) /\ p2.sender = p.sender /\ p2.receiver = tr2
    <3> HIDE DEF tr2, p
    <3> QED
      BY <1>6, PeerWithReceiver
  <2>2. PeerOK(conv, w, said, RecvCapacity, p2, read2)
    BY <1>6, <1>9, <2>1 DEF PeerOK
  <2>3. ended => Inbound(p2.receiver).is_closed /\ Len(read2) = Len(said.stream)
    BY <1>9, <1>12, <2>1
  <2> HIDE DEF p2, read2, ended
  <2> QED
    BY <1>6, <2>1, <2>2, <2>3 DEF Side
<1>14. /\ Said(x)' = Said(x) /\ Said(y)' = said
       /\ Acked(peer'[x].receiver) = Acked(peer[x].receiver)
       /\ Acked(peer'[y].receiver) = acked
  <2>1. p2.sender = p.sender /\ p2.receiver = tr2
    <3> HIDE DEF tr2, p
    <3> QED
      BY <1>6, PeerWithReceiver
  <2> HIDE DEF p2, tr2
  <2> QED
    BY <1>4, <1>9, <2>1 DEF Said, Whole, said, acked
<1>15. SideOK(x)' /\ SideOK(y)'
  <2> HIDE DEF p2, read2, ended
  <2>1. SideOK(x)' = Side(conv, written'[x], Said(y)', Acked(peer'[y].receiver), peer'[x],
                          net'[x], received'[x], shut'[x])
    BY DEF SideOK, conv, Whole
  <2>2. SideOK(y)' = Side(Whole(y), written'[y], Said(x)', Acked(peer'[x].receiver), peer'[y],
                          net'[y], received'[y], shut'[y])
    BY <1>1 DEF SideOK, Whole
  <2>3. SideOK(y) = Side(Whole(y), written[y], Said(x), Acked(peer[x].receiver), peer[y],
                          net[y], received[y], shut[y])
    BY <1>1 DEF SideOK
  <2> HIDE DEF y
  <2> QED
    BY <1>2, <1>4, <1>13, <1>14, <2>1, <2>2, <2>3 DEF w
<1>16. IInv'
  BY <1>1, <1>5, <1>15 DEF IInv
<1>17. Kept
  <2>1. Grows(Said(x), Said(x)') /\ Grows(Said(y), Said(y)')
    BY <1>2, <1>14, GrowsNot DEF said
  <2>2. Len(received[y]) \in Nat
    <3>1. IsSaid(Said(x)) /\ ReceiverOK(Said(x), RecvCapacity, peer[y].receiver, received[y])
      BY <1>1, <1>2 DEF SideOK, Side, PeerOK
    <3> QED
      BY <1>2, <3>1, ReceiverHas
  <2>3. shut[x] => shut'[x]
    BY <1>4
  <2> HIDE DEF read2, ended
  <2> QED
    BY <1>1, <1>4, <1>11, <2>1, <2>2, <2>3 DEF Kept
<1> QED
  BY <1>16, <1>17

\* The network loses or repeats a segment.
LEMMA NetKeeps ==
  ASSUME IInv, ShortStreams, NEW x \in Peers, NEW i, Lose(x, i) \/ Repeat(x, i)
  PROVE  IInv' /\ Kept
<1>1. /\ i \in 1 .. Len(net[x]) /\ UNCHANGED << peer, written, received, shut >>
      /\ \/ net' = [net EXCEPT ![x] = RemoveAt(net[x], i)]
         \/ net' = [net EXCEPT ![x] = Append(net[x], net[x][i])]
  BY DEF Lose, Repeat, OwnerIdle
<1>2. /\ net = [y \in Peers |-> net[y]] /\ \A y \in Peers : IsStream(net[y])
      /\ Functions
  BY DEF IInv, Functions, SideOK, Side, NetOK
<1>3. /\ net' = [y \in Peers |-> net'[y]]
      /\ \A y \in Peers : IsStream(net'[y]) /\ \A g \in ToSet(net'[y]) : g \in ToSet(net[y])
  <2>1. /\ IsStream(RemoveAt(net[x], i)) /\ IsStream(Append(net[x], net[x][i]))
        /\ \A g \in ToSet(RemoveAt(net[x], i)) : g \in ToSet(net[x])
        /\ \A g \in ToSet(Append(net[x], net[x][i])) : g \in ToSet(net[x])
    BY <1>1, <1>2, RemovedFrom, RepeatedOf
  <2>2. PICK s : /\ net' = [net EXCEPT ![x] = s]
                 /\ IsStream(s) /\ \A g \in ToSet(s) : g \in ToSet(net[x])
    BY <1>1, <2>1
  <2> QED
    BY <1>2, <2>2
<1>4. ASSUME NEW y \in Peers PROVE SideOK(y)' /\ Said(y)' = Said(y)
  <2>1. Said(y)' = Said(y) /\ Said(Other(y))' = Said(Other(y))
    BY <1>1 DEF Said, Whole
  <2>2. SideOK(y)' = Side(Whole(y), written'[y], Said(Other(y))', Acked(peer'[Other(y)].receiver),
                          peer'[y], net'[y], received'[y], shut'[y])
    BY DEF SideOK, Whole, Other
  <2> DEFINE said == Said(Other(y))
             acked == Acked(peer[Other(y)].receiver)
             conv == Whole(y)
  <2>3. Side(conv, written[y], said, acked, peer[y], net[y], received[y], shut[y])
    BY DEF IInv, SideOK
  <2> HIDE DEF said, acked, conv
  <2>4. NetOK(said, acked, RecvCapacity, conv.isn, net'[y])
    BY <1>3, <2>3, NetOfSome DEF Side
  <2>5. Side(conv, written[y], said, acked, peer[y], net'[y], received[y], shut[y])
    BY <2>3, <2>4 DEF Side
  <2> QED
    BY <1>1, <2>1, <2>2, <2>5 DEF said, acked, conv
<1>5. Functions'
  BY <1>1, <1>2, <1>3 DEF Functions
<1>6. Kept
  <2>1. ASSUME NEW y \in Peers
        PROVE  Grows(Said(y), Said(y)') /\ Len(received[y]) \in Nat
    <3>1. Grows(Said(y), Said(y)')
      BY <1>4, PeerIsOK, GrowsNot
    <3>2. /\ IsSaid(Said(Other(y))) /\ RecvCapacity \in Nat
          /\ ReceiverOK(Said(Other(y)), RecvCapacity, peer[y].receiver, received[y])
      BY PeerIsOK, CapacitiesAssumption DEF Way, PeerOK
    <3> QED
      BY <3>1, <3>2, ReceiverHas
  <2> QED
    BY <1>1, <2>1 DEF Kept
<1> QED
  BY <1>4, <1>5, <1>6 DEF IInv

-----------------------------------------------------------------------------
LEMMA NextKeeps == ASSUME IInv, ShortStreams, Next PROVE IInv' /\ Kept
<1>1. \/ Connect
      \/ \E x \in Peers :
           \/ \E n \in 1 .. SendCapacity : OwnerWrite(x, n)
           \/ OwnerClose(x)
           \/ \E n \in 0 .. RecvCapacity : OwnerRead(x, n)
           \/ Timeout(x) \/ LingerEnds(x)
           \/ \E i \in 1 .. NetCapacity : Deliver(x, i) \/ Lose(x, i) \/ Repeat(x, i)
  BY DEF Next
<1>2. CASE Connect
  BY <1>2, ConnectKeeps
<1>3. ASSUME NEW x \in Peers, NEW n \in 1 .. SendCapacity, OwnerWrite(x, n)
      PROVE  IInv' /\ Kept
  BY <1>3, WriteKeeps
<1>4. ASSUME NEW x \in Peers, OwnerClose(x)
      PROVE  IInv' /\ Kept
  BY <1>4, CloseKeeps
<1>5. ASSUME NEW x \in Peers, NEW n \in 0 .. RecvCapacity, OwnerRead(x, n)
      PROVE  IInv' /\ Kept
  <2>1. n \in Nat
    BY CapacitiesAssumption
  <2> QED
    BY <1>5, <2>1, ReadKeeps
<1>6. ASSUME NEW x \in Peers, Timeout(x) \/ LingerEnds(x)
      PROVE  IInv' /\ Kept
  BY <1>6, TickKeeps
<1>7. ASSUME NEW x \in Peers, NEW i \in 1 .. NetCapacity, Deliver(x, i)
      PROVE  IInv' /\ Kept
  BY <1>7, DeliverKeeps
<1>8. ASSUME NEW x \in Peers, NEW i \in 1 .. NetCapacity, Lose(x, i) \/ Repeat(x, i)
      PROVE  IInv' /\ Kept
  BY <1>8, NetKeeps
<1> QED
  BY <1>1, <1>2, <1>3, <1>4, <1>5, <1>6, <1>7, <1>8

LEMMA StutterKeeps == ASSUME IInv, UNCHANGED vars PROVE IInv'
<1>1. UNCHANGED << peer, net, written, received, shut >>
  BY DEF vars
<1>2. Functions'
  BY <1>1 DEF IInv, Functions
<1>3. ASSUME NEW x \in Peers PROVE SideOK(x)'
  <2>1. SideOK(x)
    BY DEF IInv
  <2> QED
    BY <1>1, <2>1 DEF SideOK, Said, Whole, Other
<1> QED
  BY <1>2, <1>3 DEF IInv

-----------------------------------------------------------------------------
(* What the invariant says *)

LEMMA FirstIsStart ==
  ASSUME IInv, NEW x \in Peers
  PROVE  /\ Unacked(x) = Start(peer[x].sender, 0) /\ Unacked(x) \in Nat
         /\ Unacked(x) <= Acked(peer[Other(x)].receiver)
<1> DEFINE s == peer[x].sender
           out == s.outstanding
<1>1. Ready(Whole(x), s, written[x]) /\ Start(s, 0) <= Acked(peer[Other(x)].receiver)
  BY DEF IInv, SideOK, Side, PeerOK
<1>2. SoundSender(Whole(x), s, written[x]) /\ Start(s, 0) \in Nat
  BY <1>1, StartIsNat DEF Ready
<1>3. out \in Seq(OutSegments(Whole(x))) /\ Len(out) \in Nat
  BY <1>2, SenderIsTyped
<1>4. 0 < Len(out) <=> out # << >>
  BY <1>3, EmptySeq
<1>5. Unacked(x) = Start(s, 0)
  BY <1>4 DEF Unacked, Start
<1> QED
  BY <1>1, <1>2, <1>5

\* Each receiver has what the other side says it said.
LEMMA OtherHas ==
  ASSUME IInv, ShortStreams, NEW x \in Peers
  PROVE  /\ IsSaid(Said(x)) /\ RecvCapacity \in Nat
         /\ ReceiverOK(Said(x), RecvCapacity, peer[Other(x)].receiver, received[Other(x)])
<1>1. /\ Other(x) \in Peers /\ Other(Other(x)) = x
  BY TwoPeers
<1> QED
  BY <1>1, PeerIsOK, CapacitiesAssumption DEF PeerOK

LEMMA NothingIsWrong ==
  ASSUME IInv, ShortStreams, NEW x \in Peers
  PROVE  ~AnyErrors(peer[x])
<1> DEFINE y == Other(x)
           tr == peer[x].receiver
           said == Said(y)
           read == received[x]
           cap == RecvCapacity
<1>1. IsSaid(said) /\ ReceiverOK(said, cap, tr, read) /\ cap \in Nat
  BY TwoPeers, OtherHas
<1>2. ~peer[x].sender.input.error
  BY PeerIsOK DEF PeerOK, Ready
<1> HIDE DEF y, tr, said, read, cap
<1>3. ~Inbound(tr).error
  BY <1>1, ReceiverHas
<1> QED
  BY <1>2, <1>3 DEF AnyErrors, InboundOf, Outbound, Inbound, tr

\* A peer with nothing in flight and nothing left to send has sent its FIN, as
\* nothing that may be sent waits.
LEMMA AllIsSent ==
  ASSUME NEW conv, NEW w, NEW s, Ready(conv, s, w), NoStall(s),
         s.bytes_in_flight = 0, IsFinished(s.input)
  PROVE  s.fin_sent /\ s.next_seqno = w + 2 /\ Start(s, 0) = s.next_seqno /\ w \in Nat
<1>1. SoundSender(conv, s, w) /\ s.syn_sent
  BY DEF Ready, IsFinished
<1>2. s.window_size \in Nat
  BY <1>1, SenderIsTyped
<1>3. Space(s) >= 1
  BY <1>2 DEF Space, EffectiveWindow
<1>4. s.fin_sent
  BY <1>1, <1>2, <1>3 DEF NoStall, IsFinished, Space, EffectiveWindow
<1>5. s.next_seqno = w + 2 /\ w \in Nat
  BY <1>1, <1>4, CountsAreBounded
<1>6. s.bytes_in_flight = s.next_seqno - Start(s, 0) /\ Start(s, 0) \in Nat
  BY <1>1, StartsInARow, StartIsNat
<1> QED
  BY <1>4, <1>5, <1>6

LEMMA DoneIsDone ==
  ASSUME IInv, ShortStreams, NEW x \in Peers, ~Active(peer[x])
  PROVE  /\ Unacked(x) = peer[x].sender.next_seqno /\ peer[x].sender.fin_sent
         /\ InboundOf(peer[x]).is_closed /\ InboundOf(peer[Other(x)]).is_closed
<1> DEFINE y == Other(x)
           s == peer[x].sender
           tr == peer[y].receiver
           said == Said(x)
           read == received[y]
           cap == RecvCapacity
           w == written[x]
           conv == Whole(x)
<1>1. /\ ~(s.bytes_in_flight > 0) /\ IsFinished(s.input)
      /\ InboundOf(peer[x]).is_closed
  BY NothingIsWrong DEF Active, SenderActive, ReceiverActive, Outbound
<1>2. /\ Ready(conv, s, w) /\ NoStall(s) /\ Len(said.stream) = w
  BY SidesMeet, PeerIsOK DEF PeerOK
<1>3. /\ IsSaid(said) /\ ReceiverOK(said, cap, tr, read) /\ cap \in Nat
      /\ Unacked(x) = Start(s, 0) /\ Unacked(x) \in Nat
      /\ Unacked(x) <= Acked(tr)
  BY OtherHas, FirstIsStart
<1>4. tr.reassembler.output.is_closed = InboundOf(peer[y]).is_closed
  BY DEF InboundOf, Inbound
<1> HIDE DEF y, s, tr, said, read, cap, w, conv
<1>5. s.bytes_in_flight = 0
  <2>1. s.bytes_in_flight \in Nat
    BY <1>2, SenderIsTyped DEF Ready
  <2> QED
    BY <1>1, <2>1
<1>6. s.fin_sent /\ s.next_seqno = w + 2 /\ Start(s, 0) = s.next_seqno /\ w \in Nat
  BY <1>1, <1>2, <1>5, AllIsSent
<1>7. Inbound(tr).is_closed
  <2> DEFINE in == Inbound(tr)
             j == in.bytes_pushed
             a == Acked(tr)
  <2>1. w + 2 <= a
    BY <1>3, <1>6
  <2>2. /\ ~HasValue(tr.isn) => a = 0
        /\ HasValue(tr.isn) => a = j + 1 + Count(in.is_closed)
        /\ j \in 0 .. w
    <3>1. ~HasValue(tr.isn) => Acked(tr) = 0
      BY <1>3, ReceiverHas
    <3>2. HasValue(tr.isn) => Acked(tr) = Inbound(tr).bytes_pushed + 1 + Count(Inbound(tr).is_closed)
      BY <1>3, ReceiverHas
    <3>3. Inbound(tr).bytes_pushed \in 0 .. Len(said.stream)
      BY <1>3, ReceiverHas
    <3> QED
      BY <1>2, <3>1, <3>2, <3>3
  <2>3. ~in.is_closed => Count(in.is_closed) = 0
    BY DEF Count
  <2> HIDE DEF in, j, a
  <2>4. in.is_closed
    BY <1>6, <2>1, <2>2, <2>3
  <2> QED
    BY <2>4 DEF in
<1>8. InboundOf(peer[y]).is_closed
  BY <1>4, <1>7 DEF Inbound
<1> QED
  BY <1>1, <1>3, <1>6, <1>8 DEF s, y

-----------------------------------------------------------------------------
(* Each way is a pipe *)

LEMMA PrefixByElements ==
  ASSUME NEW A, NEW B, NEW s \in Seq(A), NEW t \in Seq(B), Len(s) <= Len(t),
         \A i \in 1 .. Len(s) : t[i] = s[i]
  PROVE  IsPrefix(s, t) /\ (Len(s) = Len(t) => s = t)
<1> DEFINE S == A \cup B
           n == Len(s)
           u == Take(s, n)
           v == Take(t, n)
<1>1. s \in Seq(S) /\ t \in Seq(S) /\ n \in Nat /\ Len(t) \in Nat
  BY SeqMonotonic, LenProperties
<1>2. n \in 0 .. Len(s) /\ n \in 0 .. Len(t)
  BY <1>1
<1> HIDE DEF S, n
<1>3. u \in Seq(S) /\ Len(u) = n /\ \A i \in 1 .. n : u[i] = s[i]
  BY <1>1, <1>2, Parts
<1>4. v \in Seq(S) /\ Len(v) = n /\ \A i \in 1 .. n : v[i] = t[i]
  BY <1>1, <1>2, Parts
<1>5. u = v
  <2> HIDE DEF u, v
  <2>1. \A i \in 1 .. Len(u) : u[i] = v[i]
    BY <1>3, <1>4 DEF n
  <2> QED
    BY <1>3, <1>4, <2>1, SeqEqual
<1>6. Len(s) = Len(t) => s = t
  BY <1>1, SeqEqual
<1> QED
  BY <1>5, <1>6 DEF IsPrefix, Take, n

\* At most the sender's buffer, a window in flight and the receiver's buffer
\* are under way.
LEMMA UnderWay ==
  ASSUME NEW conv, NEW w, NEW s, Ready(conv, s, w), NEW cap \in Nat, Bounded(s, cap),
         NEW tr, NEW read, ReceiverOK(SaidSoFar(conv, s, w), cap, tr, read),
         Start(s, 0) <= Acked(tr)
  PROVE  w - Len(read) <= conv.capacity + 2 * cap
<1> DEFINE said == SaidSoFar(conv, s, w)
           in == Inbound(tr)
           popped == s.input.bytes_popped
           held == Len(s.input.buffer)
           pushed == in.bytes_pushed
           kept == Len(in.buffer)
           given == Len(read)
           next == s.next_seqno
           flight == s.bytes_in_flight
           start == Start(s, 0)
           acked == Acked(tr)
           room == conv.capacity
<1>1. SoundSender(conv, s, w) /\ flight <= cap
  BY DEF Ready, Bounded
<1>2. /\ IsSaid(said) /\ Len(said.stream) = w /\ w \in Nat
  BY <1>1, SaidIsSaid
<1>3. /\ popped \in Nat /\ held \in Nat /\ popped + held = w /\ held <= room /\ room \in Nat
      /\ next \in Nat /\ (popped > 0 => 1 + popped <= next)
  <2>1. /\ popped \in Nat /\ held \in Nat /\ next \in Nat /\ s.syn_sent \in BOOLEAN
        /\ s.fin_sent \in BOOLEAN
    BY <1>1, InputIsTyped, SenderIsTyped
  <2>2. /\ popped + held = w /\ held <= room /\ room \in Nat
        /\ next = Count(s.syn_sent) + popped + Count(s.fin_sent)
        /\ popped > 0 => s.syn_sent
    BY <1>1 DEF SoundSender, HoldsTheRest, CountsSent, IsConversation
  <2> HIDE DEF popped, held, next, room
  <2>3. Count(s.syn_sent) \in 0 .. 1 /\ Count(s.fin_sent) \in 0 .. 1
        /\ (s.syn_sent => Count(s.syn_sent) = 1)
    BY <2>1 DEF Count
  <2> QED
    BY <2>1, <2>2, <2>3
<1>4. flight = next - start /\ start \in Nat
  BY <1>1, StartsInARow, StartIsNat
<1> HIDE DEF said
<1>5. /\ in.is_closed => pushed = w
      /\ given \in Nat /\ kept \in Nat /\ pushed \in 0 .. w /\ given + kept = pushed /\ kept <= cap
  <2>1. ReceiverOK(said, cap, tr, read)
    BY DEF said
  <2>2. in.is_closed => pushed = Len(said.stream)
    BY <1>2, <2>1, ReceiverHas
  <2>3. given \in Nat /\ kept \in Nat /\ given + kept = pushed /\ kept <= cap
    BY <1>2, <2>1, ReceiverHas
  <2>4. pushed \in 0 .. Len(said.stream)
    BY <1>2, <2>1, ReceiverHas
  <2> HIDE DEF in, pushed, given, kept
  <2> QED
    BY <1>2, <2>2, <2>3, <2>4
<1>6. ~in.is_closed => acked \in 0 .. pushed + 1
  <2>1. ReceiverOK(said, cap, tr, read)
    BY DEF said
  <2>2. ~HasValue(tr.isn) => acked = 0
    BY <1>2, <2>1, ReceiverHas
  <2>3. HasValue(tr.isn) => acked = pushed + 1 + Count(in.is_closed)
    BY <1>2, <2>1, ReceiverHas
  <2>4. ~in.is_closed => Count(in.is_closed) = 0
    BY DEF Count
  <2> HIDE DEF in, pushed, acked
  <2> QED
    BY <1>5, <2>2, <2>3, <2>4
<1>7. start <= acked
  OBVIOUS
<1> HIDE DEF in, popped, held, pushed, kept, given, next, flight, start, acked, room
<1>8. popped - pushed <= cap
  <2>1. CASE in.is_closed
    BY <1>3, <1>5, <2>1
  <2>2. CASE ~in.is_closed
    BY <1>1, <1>2, <1>3, <1>4, <1>5, <1>6, <1>7, <2>2
  <2> QED
    BY <2>1, <2>2
<1>9. w - given <= room + 2 * cap
  BY <1>2, <1>3, <1>5, <1>8
<1> QED
  BY <1>9 DEF given, room

\* One step of the way from x to the other.
Flows(x, sent, more) ==
  LET y == Other(x) IN
  /\ IsPrefix(sent, more) /\ IsPrefix(received[y], received'[y]) /\ IsPrefix(received'[y], more)
  /\ Len(more) - Len(received'[y]) <= SendCapacity + 2 * RecvCapacity
  /\ Outbound(peer[x]).is_closed => Outbound(peer'[x]).is_closed /\ more = sent
  /\ shut[y] => shut'[y]
  /\ shut'[y] => Outbound(peer'[x]).is_closed /\ received'[y] = more

LEMMA WayFlows ==
  ASSUME IInv, IInv', ShortStreams, Kept, NEW x \in Peers
  PROVE  Flows(x, Take(Streams[x], written[x]), Take(Streams[x], written'[x]))
<1> DEFINE y == Other(x)
           conv == Whole(x)
           s == peer'[x].sender
           w == written'[x]
           tr == peer'[y].receiver
           read == received[y]
           read2 == received'[y]
           said == Said(x)
           said2 == SaidSoFar(conv, s, w)
           cap == RecvCapacity
<1>1. y \in Peers /\ Other(y) = x
  BY TwoPeers
<1>2. /\ said.stream = Take(Streams[x], written[x]) /\ said2.stream = Take(Streams[x], w)
      /\ said.ended = Outbound(peer[x]).is_closed /\ said2.ended = s.input.is_closed
      /\ Outbound(peer'[x]).is_closed = s.input.is_closed /\ conv.capacity = SendCapacity
  BY DEF Said, SaidSoFar, Whole, Outbound
<1>3. Grows(said, said2) /\ (shut[y] => shut'[y])
      /\ Len(read) <= Len(read2) /\ \A i \in 1 .. Len(read) : read2[i] = read[i]
  <2>1. Said(x)' = said2
    BY DEF Said, Whole
  <2> HIDE DEF said2
  <2>2. Grows(Said(x), Said(x)')
    BY DEF Kept
  <2>3. /\ shut[y] => shut'[y]
        /\ Len(read) <= Len(read2) /\ \A i \in 1 .. Len(read) : read2[i] = read[i]
    <3> HIDE DEF y
    <3> QED
      BY <1>1 DEF Kept
  <2> QED
    BY <2>1, <2>2, <2>3
<1>4. read \in Seq(ToSet(said.stream))
  BY OtherHas DEF ReceiverOK
<1>5. /\ Ready(conv, s, w) /\ Bounded(s, cap) /\ Start(s, 0) <= Acked(tr)
  <2>1. SideOK(x)'
    BY DEF IInv
  <2> QED
    BY <2>1 DEF SideOK, Side, PeerOK, Whole, Other
<1>6. /\ ReceiverOK(said2, cap, tr, read2)
      /\ shut'[y] => Inbound(tr).is_closed /\ Len(read2) = Len(said2.stream)
  <2>1. SideOK(y)'
    BY <1>1 DEF IInv
  <2>2. Said(Other(y))' = said2
    BY <1>1 DEF Said, Whole, Other
  <2>3. Side(Whole(y), written'[y], said2, Acked(peer'[x].receiver), peer'[y], net'[y], read2, shut'[y])
    BY <1>1, <2>1, <2>2 DEF SideOK, Whole, Other
  <2> HIDE DEF said2, tr, read2
  <2> QED
    BY <2>3 DEF Side, PeerOK, tr
<1> HIDE DEF said, conv, s, w, tr, read, read2, cap
<1>7. cap \in Nat
  BY CapacitiesAssumption DEF cap
<1>8. w - Len(read2) <= conv.capacity + 2 * cap
  BY <1>5, <1>6, <1>7, UnderWay
<1>9. Len(said2.stream) = w
  BY <1>5, SaidIsSaid DEF Ready
<1> HIDE DEF said2
<1>10. /\ IsSaid(said) /\ IsSaid(said2) /\ Len(said.stream) <= Len(said2.stream)
       /\ \A i \in 1 .. Len(said.stream) : said2.stream[i] = said.stream[i]
       /\ said.ended => said2.ended /\ said2.stream = said.stream
  BY <1>3 DEF Grows
<1>11. IsPrefix(said.stream, said2.stream)
  BY <1>10, PrefixByElements DEF IsSaid
<1>12. /\ read2 \in Seq(ToSet(said2.stream)) /\ Len(read2) <= Len(said2.stream)
       /\ \A i \in 1 .. Len(read2) : read2[i] = said2.stream[i]
       /\ Inbound(tr).is_closed => said2.ended
  <2> DEFINE m == Len(read2)
             in == Inbound(tr)
             k == Len(in.buffer)
             j == in.bytes_pushed
             l == Len(said2.stream)
  <2>1. \A i \in 1 .. m : read2[i] = said2.stream[i]
    BY <1>6, <1>7, <1>10, ReceiverHas
  <2>2. in.is_closed => said2.ended
    BY <1>6, <1>7, <1>10, ReceiverHas
  <2>3. m \in Nat /\ k \in Nat /\ j \in 0 .. l /\ l \in Nat /\ m + k = j
    BY <1>6, <1>7, <1>10, ReceiverHas
  <2> HIDE DEF m, in, k, j, l
  <2>4. m <= l
    BY <2>3
  <2> QED
    BY <1>6, <2>1, <2>2, <2>4 DEF ReceiverOK, m, l, in
<1>13. IsPrefix(read2, said2.stream) /\ (Len(read2) = Len(said2.stream) => read2 = said2.stream)
  BY <1>10, <1>12, PrefixByElements DEF IsSaid
<1>14. IsPrefix(read, read2)
  BY <1>3, <1>4, <1>12, PrefixByElements
<1>15. Len(said2.stream) - Len(read2) <= SendCapacity + 2 * RecvCapacity
  BY <1>2, <1>8, <1>9 DEF cap
<1>16. shut'[y] => said2.ended /\ read2 = said2.stream
  BY <1>6, <1>12, <1>13
<1> QED
  BY <1>2, <1>3, <1>10, <1>11, <1>13, <1>14, <1>15, <1>16 DEF Flows, read, read2, w

-----------------------------------------------------------------------------
(* The theorems *)

\* The two peers stay sound together: each sender keeps what is not
\* acknowledged, each receiver has a part of what the other side said, every
\* segment on its way says what was said, and no sender takes as acknowledged
\* what the other receiver does not have.
THEOREM ConnectionIsSound == ASSUME ShortStreams PROVE Spec => []IInv
<1>1. IInv /\ [Next]_vars => IInv'
  BY NextKeeps, StutterKeeps
<1> QED
  BY InitIInv, <1>1, PTL DEF Spec

\* A sender forgets a segment only when the other side has it, the SYN and the
\* FIN too, whatever the network loses, repeats and reorders.
THEOREM AcknowledgedIsHeld == ASSUME ShortStreams PROVE Spec => []AcknowledgedIsReceived
<1>1. IInv => AcknowledgedIsReceived
  BY FirstIsStart DEF AcknowledgedIsReceived, Acked
<1> QED
  BY ConnectionIsSound, <1>1, PTL

\* Neither peer ever takes the other's segments for a failure.
THEOREM ErrorIsNeverSpurious == ASSUME ShortStreams PROVE Spec => []NoSpuriousError
<1>1. IInv => NoSpuriousError
  BY NothingIsWrong DEF NoSpuriousError
<1> QED
  BY ConnectionIsSound, <1>1, PTL

\* A peer that is no longer active has got its whole stream and its end to the
\* other side, and has the other's.
THEOREM InactiveIsDone == ASSUME ShortStreams PROVE Spec => []InactiveMeansDone
<1>1. IInv => InactiveMeansDone
  BY DoneIsDone DEF InactiveMeansDone
<1> QED
  BY ConnectionIsSound, <1>1, PTL

\* Each direction of the connection implements a pipe.
THEOREM EachWayFlows == ASSUME ShortStreams PROVE Spec => EachWayIsAPipe
<1>1. /\ \A s, t : Upstream!IsPrefix(s, t) <=> IsPrefix(s, t)
      /\ \A s, t : Downstream!IsPrefix(s, t) <=> IsPrefix(s, t)
  BY DEF IsPrefix, Upstream!IsPrefix, Downstream!IsPrefix
<1>2. Client \in Peers /\ Server \in Peers /\ Other(Client) = Server /\ Other(Server) = Client
  BY PeersAssumption DEF Peers, Other
<1>3. Init => Upstream!PipeInit /\ Downstream!PipeInit
  <2> SUFFICES ASSUME Init PROVE Upstream!PipeInit /\ Downstream!PipeInit
    OBVIOUS
  <2>1. ASSUME NEW x \in Peers
        PROVE  /\ Take(Streams[x], written[x]) = << >> /\ received[x] = << >>
               /\ Outbound(peer[x]).is_closed = FALSE /\ shut[x] = FALSE
    <3>1. written[x] = 0 /\ received[x] = << >> /\ shut[x] = FALSE
          /\ Outbound(peer[x]).is_closed = FALSE
      BY <2>1 DEF Init, NewPeer, NewSender, NewByteStream, Outbound
    <3>2. Streams[x] \in Seq(Byte) /\ 0 \in 0 .. Len(Streams[x])
      BY WholeIsConversation
    <3>3. Len(Take(Streams[x], 0)) = 0 /\ Take(Streams[x], 0) \in Seq(Byte)
      BY <3>2, Parts
    <3> QED
      BY <3>1, <3>3, EmptySeq
  <2>2. Upstream!PipeInit
    BY <1>2, <2>1 DEF Upstream!PipeInit
  <2>3. Downstream!PipeInit
    BY <1>2, <2>1 DEF Downstream!PipeInit
  <2> QED
    BY <2>2, <2>3
<1>4. IInv /\ IInv' /\ Next => Upstream!PipeNext /\ Downstream!PipeNext
  <2> SUFFICES ASSUME IInv, IInv', Next PROVE Upstream!PipeNext /\ Downstream!PipeNext
    OBVIOUS
  <2>1. ASSUME NEW x \in Peers
        PROVE  Flows(x, Take(Streams[x], written[x]), Take(Streams[x], written'[x]))
    BY NextKeeps, WayFlows
  <2>2. Upstream!PipeNext
    BY <1>1, <1>2, <2>1 DEF Flows, Upstream!PipeNext
  <2>3. Downstream!PipeNext
    BY <1>1, <1>2, <2>1 DEF Flows, Downstream!PipeNext
  <2> QED
    BY <2>2, <2>3
<1>5. UNCHANGED vars => UNCHANGED Upstream!pipeVars /\ UNCHANGED Downstream!pipeVars
  BY DEF vars, Upstream!pipeVars, Downstream!pipeVars
<1> QED
  BY ConnectionIsSound, <1>3, <1>4, <1>5, PTL
     DEF Spec, EachWayIsAPipe, Upstream!PipeSpec, Downstream!PipeSpec
=============================================================================
