--------------------------- MODULE TCPSenderProofs ---------------------------
(***************************************************************************)
(* For every stream, initial sequence number, capacity, payload size and   *)
(* every receiver's messages, late, repeated or nonsense, with the clock   *)
(* running at any speed: what the sender transmits is the stream, within   *)
(* the window, counted and timed until it is acknowledged.                 *)
(***************************************************************************)
EXTENDS TCPSender, ValueLemmas

\* The constants as one way of a connection.
Conv == [ stream |-> Stream, isn |-> Isn, capacity |-> Capacity ]

IInv == SoundSender(Conv, sender, written) /\ Carried(wire, sender)

LEMMA ConvIsConversation ==
  /\ IsConversation(Conv)
  /\ Conv.stream = Stream /\ Conv.isn = Isn /\ Conv.capacity = Capacity /\ Len(Stream) \in Nat
<1>1. Stream \in Seq(ToSet(Stream))
  BY StreamAssumption, SeqOfElements
<1> QED
  BY <1>1, StreamAssumption, IsnAssumption, CapacityAssumption, LenProperties
     DEF Conv, IsConversation, Bytes

LEMMA InitIInv == Init => IInv
<1> SUFFICES ASSUME Init PROVE IInv
  OBVIOUS
<1>1. /\ sender = NewSender(Conv.capacity, Conv.isn, InitialRTO)
      /\ written = 0 /\ wire = << >> /\ InitialRTO \in Nat
  BY ConvIsConversation, TimeAssumption DEF Init
<1>2. SoundSender(Conv, sender, 0)
  BY <1>1, ConvIsConversation, NewSenderIsSound
<1>3. Carried(wire, sender)
  BY <1>1, NothingOnTheWire
<1> QED
  BY <1>1, <1>2, <1>3 DEF IInv

\* Every step keeps the sender sound, and numbers are used up by push alone.
LEMMA NextIsSound ==
  ASSUME IInv, Next
  PROVE  IInv' /\ (PushSegments \/ sender'.next_seqno = sender.next_seqno)
<1>a. SoundSender(Conv, sender, written) /\ Len(Stream) \in Nat
  BY ConvIsConversation DEF IInv
<1> DEFINE Quiet == sender'.next_seqno = sender.next_seqno
<1>b. ASSUME SoundSender(Conv, sender', written'), wire' = << >> PROVE IInv'
  BY <1>b, NothingOnTheWire DEF IInv
<1>1. ASSUME NEW n \in 1 .. Len(Stream), AppWrite(n) PROVE IInv' /\ Quiet
  <2>1. n \in Nat /\ written + n <= Len(Stream)
    BY <1>a, <1>1 DEF AppWrite
  <2> DEFINE data == SubSeq(Stream, written + 1, written + n)
             q == [sender EXCEPT !.input = Push(sender.input, data)]
             w == written + Len(Accepted(sender.input, data))
  <2>2. SoundSender(Conv, q, w) /\ q.next_seqno = sender.next_seqno
    <3> DEFINE all == Conv.stream
               part == SubSeq(all, written + 1, written + n)
               q2 == [sender EXCEPT !.input = Push(sender.input, part)]
               w2 == written + Len(Accepted(sender.input, part))
    <3>1. n \in Nat /\ written + n <= Len(all) /\ all = Stream
      BY <2>1, ConvIsConversation
    <3>2. SoundSender(Conv, q2, w2) /\ q2.next_seqno = sender.next_seqno
      <4>1. SoundSender(Conv, sender, written) /\ n \in Nat /\ written + n <= Len(Conv.stream)
        BY <1>a, <3>1
      <4> QED
        BY <4>1, WriteIsSound
    <3> HIDE DEF all
    <3> QED
      BY <3>1, <3>2
  <2>3. sender' = q /\ written' = w /\ wire' = << >>
    BY <1>1, Zenon DEF AppWrite
  <2> HIDE DEF q, w
  <2>4. SoundSender(Conv, sender', written') /\ Quiet
    BY <2>2, <2>3, Zenon
  <2> QED
    BY <1>b, <2>3, <2>4
<1>2. ASSUME AppClose PROVE IInv' /\ Quiet
  <2>1. SoundSender(Conv, sender', written') /\ Quiet
    BY <1>a, <1>2, CloseIsSound, Zenon DEF AppClose
  <2> QED
    BY <1>2, <1>b, <2>1 DEF AppClose
<1>3. ASSUME PushSegments PROVE IInv'
  <2>1. SoundSender(Conv, sender', written')
    BY <1>a, <1>3, PushIsSound, Zenon DEF PushSegments
  <2>2. Carried(wire, sender)'
    BY <1>a, <1>3, PushOnTheWire, Zenon DEF PushSegments
  <2> QED
    BY <2>1, <2>2 DEF IInv
<1>4. ASSUME NEW m, Receive(m), m.window_size \in Nat,
             m.ackno = None \/ \E raw \in Wraps : m.ackno = Some(raw)
      PROVE  IInv' /\ Quiet
  <2>1. SoundSender(Conv, sender', written') /\ Quiet
    BY <1>a, <1>4, ReceiveIsSound, Zenon DEF Receive
  <2> QED
    BY <1>4, <1>b, <2>1 DEF Receive
<1>5. ASSUME NEW ackno \in 0 .. sender.next_seqno + 1, NEW window \in Windows,
             NEW RST \in BOOLEAN, ReceiveAck(ackno, window, RST)
      PROVE  IInv' /\ Quiet
  <2> DEFINE raw == Wrap(ackno, Isn)
             m == ReceiverMessage(Some(raw), window, RST)
  <2>1. raw \in Wraps
    <3>1. ackno \in Nat
      BY <1>a, SenderIsTyped
    <3> QED
      BY <3>1, IsnAssumption, ModulusAssumption DEF Wrap, Wraps
  <2> HIDE DEF raw
  <2>2. m.window_size \in Nat /\ m.ackno = Some(raw)
    BY WindowsAssumption DEF ReceiverMessage
  <2>3. Receive(m)
    BY <1>5, Zenon DEF ReceiveAck, raw
  <2> HIDE DEF m
  <2> QED
    BY <1>4, <2>1, <2>2, <2>3
<1>6. ASSUME NEW window \in Windows, ReceiveWindow(window) PROVE IInv' /\ Quiet
  <2> DEFINE m == ReceiverMessage(None, window, FALSE)
  <2>1. m.window_size \in Nat /\ m.ackno = None
    BY WindowsAssumption DEF ReceiverMessage
  <2>2. Receive(m)
    BY <1>6, Zenon DEF ReceiveWindow
  <2> HIDE DEF m
  <2> QED
    BY <1>4, <2>1, <2>2
<1>7. ASSUME NEW ms \in Ticks, Tick(ms) PROVE IInv' /\ Quiet
  <2>1. ms \in Nat
    BY TimeAssumption
  <2>2. SoundSender(Conv, sender', written') /\ Quiet
    <3>1. SoundSender(Conv, sender', written') /\ Alike(sender, sender')
      BY <1>a, <1>7, <2>1, TickIsSound, Zenon DEF Tick
    <3> QED
      BY <3>1 DEF Alike
  <2>3. Carried(wire, sender)'
    BY <1>a, <1>7, <2>1, TickOnTheWire, Zenon DEF Tick
  <2> QED
    BY <2>2, <2>3 DEF IInv
<1> QED
  BY <1>1, <1>2, <1>3, <1>5, <1>6, <1>7 DEF Next

LEMMA NextIInv == IInv /\ [Next]_vars => IInv'
<1>1. IInv /\ UNCHANGED vars => IInv'
  BY DEF IInv, vars
<1> QED
  BY <1>1, NextIsSound

-----------------------------------------------------------------------------
(* The theorems *)

\* The state of the sender always accounts for the stream: what is buffered,
\* outstanding, counted and timed fit together.
THEOREM SenderIsSound == Spec => []IInv
BY InitIInv, NextIInv, PTL DEF Spec

\* The outstanding segments are one run of numbers, as long as bytes_in_flight
\* says, however acknowledgments, resets and pushes follow each other.
THEOREM FlightIsOneRun == Spec => []FlightIsContiguous
<1>1. IInv => FlightIsContiguous
  <2> SUFFICES ASSUME SoundSender(Conv, sender, written) PROVE FlightIsContiguous
    BY DEF IInv
  <2> DEFINE n == Len(sender.outstanding)
  <2>1. sender.outstanding \in Seq(OutSegments(Conv)) /\ n \in Nat
    BY SenderIsTyped, Zenon
  <2>2. sender.outstanding = << >> <=> n = 0
    BY <2>1, EmptySeq
  <2>3. /\ \A i \in 1 .. n - 1 : EndOf(sender.outstanding[i]) = sender.outstanding[i + 1].seqno
        /\ n > 0 => /\ EndOf(sender.outstanding[n]) = sender.next_seqno
                    /\ sender.bytes_in_flight = sender.next_seqno - sender.outstanding[1].seqno
        /\ n = 0 => sender.bytes_in_flight = 0
    BY DEF SoundSender, InARow
  <2> HIDE DEF n
  <2>4. \A i \in 1 .. n : i = n \/ i \in 1 .. n - 1
    BY <2>1
  <2>5. n = 0 \/ n > 0
    BY <2>1
  <2> QED
    BY <2>2, <2>3, <2>4, <2>5 DEF FlightIsContiguous, Outstanding, EndOf, n
<1> QED
  BY <1>1, SenderIsSound, PTL

\* Every message sent, for the first time or again, carries the flags and bytes
\* that its sequence numbers stand for.
THEOREM SegmentsCarryStream == Spec => []SegmentsAreTrue
<1>1. IInv => SegmentsAreTrue
  <2> SUFFICES ASSUME SoundSender(Conv, sender, written), Carried(wire, sender) PROVE SegmentsAreTrue
    BY DEF IInv
  <2>1. SequenceSpaceIsStream
    <3>1. sender.fin_sent => sender.input.bytes_popped = written
      <4>1. sender.input.bytes_popped \in Nat /\ Len(<< >>) = 0
        BY InputIsTyped, EmptySeq
      <4> QED
        BY <4>1 DEF SoundSender, HoldsTheRest, CountsSent
    <3> QED
      BY <3>1 DEF SoundSender, CountsSent, SequenceSpaceIsStream
  <2>2. ASSUME NEW i \in 1 .. Len(Outstanding)
        PROVE  /\ Outstanding[i].length = SequenceLength(Outstanding[i].msg)
               /\ IsTrue(Outstanding[i].msg, Outstanding[i].seqno)
    <3>1. TrueSegment(Conv, sender, Outstanding[i])
      BY DEF SoundSender, AllTrue, Outstanding
    <3> QED
      BY <3>1, ConvIsConversation DEF TrueSegment, IsTrue, EndOf
  <2> QED
    BY <2>1, <2>2 DEF SegmentsAreTrue, Carried, Outstanding
<1> QED
  BY <1>1, SenderIsSound, PTL

\* No segment waits for its acknowledgment without the timer running.
THEOREM NothingWaitsUntimed == Spec => []OutstandingIsTimed
<1>1. IInv => OutstandingIsTimed
  BY DEF IInv, SoundSender, Timed, OutstandingIsTimed, Outstanding
<1> QED
  BY <1>1, SenderIsSound, PTL

\* What is sent for the first time fits into the window announced last, or is a
\* probe of one number when that window is zero.
THEOREM WindowIsRespected == Spec => WindowRespected
<1>1. IInv /\ [Next]_vars =>
        [sender.syn_sent /\ sender'.next_seqno > sender.next_seqno =>
           sender'.bytes_in_flight <= EffectiveWindow(sender)]_vars
  <2> SUFFICES ASSUME IInv, Next, sender.syn_sent, sender'.next_seqno > sender.next_seqno
               PROVE  sender'.bytes_in_flight <= EffectiveWindow(sender)
    OBVIOUS
  <2>1. SoundSender(Conv, sender, written)
    BY DEF IInv
  <2>2. PushSegments
    <3>1. sender.next_seqno \in Nat
      BY <2>1, SenderIsTyped, Zenon
    <3>2. sender'.next_seqno # sender.next_seqno
      BY <3>1
    <3> QED
      BY <3>2, NextIsSound
  <2>3. Pushed(sender, sender')
    BY <2>1, <2>2, PushIsSound, Zenon DEF PushSegments
  <2> QED
    BY <2>3 DEF Pushed
<1> QED
  BY <1>1, SenderIsSound, PTL DEF Spec, WindowRespected

\* push stops only when the stream is sent, or the window is used up (so that
\* the timer runs), or there is nothing left to send.
THEOREM PushNeverStalls == Spec => NoSilentStall
<1> DEFINE Stopped == \/ sender'.fin_sent
                      \/ sender'.bytes_in_flight >= EffectiveWindow(sender')
                      \/ sender'.input.buffer = << >> /\ ~sender'.input.is_closed
<1>1. IInv /\ [Next]_vars => [PushSegments /\ ~sender.input.error => Stopped]_vars
  <2> SUFFICES ASSUME IInv, PushSegments, ~sender.input.error PROVE Stopped
    OBVIOUS
  <2>1. SoundSender(Conv, sender, written)
    BY DEF IInv
  <2>2. /\ SoundSender(Conv, sender', written)
        /\ \/ sender'.fin_sent \/ Space(sender') <= 0
           \/ sender'.input.buffer = << >> /\ ~sender'.input.is_closed
    BY <2>1, PushIsSound, Zenon DEF PushSegments
  <2>3. /\ EffectiveWindow(sender') \in Nat /\ sender'.bytes_in_flight \in Nat
        /\ Space(sender') = EffectiveWindow(sender') - sender'.bytes_in_flight
    BY <2>2, WindowIsOpen, SenderIsTyped, Zenon
  <2>4. Space(sender') <= 0 => sender'.bytes_in_flight >= EffectiveWindow(sender')
    BY <2>3
  <2> QED
    BY <2>2, <2>4
<1> QED
  BY <1>1, SenderIsSound, PTL DEF Spec, NoSilentStall
===============================================================================
