------------------------------ MODULE TCPSender ------------------------------
(***************************************************************************)
(* A TCPSender with the application that writes Stream into it, the clock  *)
(* and a receiver whose messages may be late, repeated or nonsense         *)
(* (src/minnow/src/tcp_sender.cc).  written counts the bytes the input     *)
(* took, wire is what the last call transmitted.                           *)
(***************************************************************************)
EXTENDS TCPSenderOps

CONSTANTS Byte, Stream, Isn,
          Capacity,    \* of the input
          InitialRTO,
          Windows,     \* the window sizes a receiver announces
          Ticks        \* the milliseconds between two ticks

ASSUME StreamAssumption == Stream \in Seq(Byte)
ASSUME IsnAssumption == Isn \in Wraps
ASSUME CapacityAssumption == Capacity \in Nat
ASSUME TimeAssumption == InitialRTO \in Nat \ {0} /\ Ticks \subseteq Nat
ASSUME WindowsAssumption == Windows \subseteq Nat

VARIABLES sender, written, wire

vars == << sender, written, wire >>

Init == /\ sender = NewSender(Capacity, Isn, InitialRTO)
        /\ written = 0
        /\ wire = << >>

\* The application writes as much of the next n bytes as the input takes.
AppWrite(n) ==
  LET data == SubSeq(Stream, written + 1, written + n) IN
  /\ written + n <= Len(Stream)
  /\ sender' = [sender EXCEPT !.input = Push(@, data)]
  /\ written' = written + Len(Accepted(sender.input, data))
  /\ wire' = << >>

AppClose == /\ sender' = [sender EXCEPT !.input = Close(@)]
            /\ wire' = << >>
            /\ UNCHANGED written

PushSegments == /\ sender' = SenderPush(sender)
                /\ wire' = PushSends(sender)
                /\ UNCHANGED written

Receive(m) == /\ sender' = SenderReceive(sender, m)
              /\ wire' = << >>
              /\ UNCHANGED written

ReceiveAck(ackno, window, RST) ==
  Receive(ReceiverMessage(Some(Wrap(ackno, Isn)), window, RST))
ReceiveWindow(window) == Receive(ReceiverMessage(None, window, FALSE))

Tick(ms) == /\ sender' = SenderTick(sender, ms)
            /\ wire' = TickSends(sender, ms)
            /\ UNCHANGED written

Next ==
  \/ \E n \in 1 .. Len(Stream) : AppWrite(n)
  \/ AppClose
  \/ PushSegments
  \/ \E ackno \in 0 .. sender.next_seqno + 1, window \in Windows, RST \in BOOLEAN :
       ReceiveAck(ackno, window, RST)
  \/ \E window \in Windows : ReceiveWindow(window)
  \/ \E ms \in Ticks : Tick(ms)

Spec == Init /\ [][Next]_vars

------------------------------------------------------------------------------
(* Properties *)

Outstanding == sender.outstanding

\* The outstanding segments are one run of sequence numbers that ends at
\* next_seqno, and bytes_in_flight is its length, so the unsigned subtraction
\* at each acknowledgment never wraps.
FlightIsContiguous ==
  /\ \A i \in 1 .. Len(Outstanding) :
       Outstanding[i].seqno + Outstanding[i].length =
         IF i = Len(Outstanding) THEN sender.next_seqno ELSE Outstanding[i + 1].seqno
  /\ sender.bytes_in_flight =
       IF Outstanding = << >> THEN 0 ELSE sender.next_seqno - Outstanding[1].seqno

\* next_seqno counts what was taken from the stream: SYN, bytes and FIN.  The
\* FIN goes only after every byte the application wrote.
SequenceSpaceIsStream ==
  /\ sender.next_seqno =
       Count(sender.syn_sent) + sender.input.bytes_popped + Count(sender.fin_sent)
  /\ sender.fin_sent => sender.input.is_closed /\ sender.input.bytes_popped = written
  /\ sender.input.bytes_popped > 0 => sender.syn_sent

\* Sequence number 0 is the SYN, then every byte of the stream has its own
\* number, then the FIN: each outstanding or transmitted message carries
\* exactly the flags and bytes of its sequence numbers, first time or not.
IsTrue(m, seqno) ==
  /\ m.seqno = Wrap(seqno, Isn)
  /\ m.SYN <=> seqno = 0
  /\ LET first == IF m.SYN THEN 1 ELSE seqno
     IN  m.payload = SubSeq(Stream, first, first + Len(m.payload) - 1)
  /\ m.FIN => sender.fin_sent /\ seqno + SequenceLength(m) = sender.next_seqno
SegmentsAreTrue ==
  /\ SequenceSpaceIsStream
  /\ \A i \in 1 .. Len(Outstanding) :
       /\ Outstanding[i].length = SequenceLength(Outstanding[i].msg)
       /\ IsTrue(Outstanding[i].msg, Outstanding[i].seqno)
  /\ \A i \in 1 .. Len(wire) :
       wire[i].RST \/ \E j \in 1 .. Len(Outstanding) : wire[i] = Outstanding[j].msg

\* A segment that waits for its acknowledgment is under the timer, so it is
\* sent again if it or its acknowledgment is lost.
OutstandingIsTimed == Outstanding # << >> => sender.time_running

\* Data sent for the first time stays within the window the receiver
\* announced last (one byte of probe when that is zero).
WindowRespected ==
  [][sender.syn_sent /\ sender'.next_seqno > sender.next_seqno =>
       sender'.bytes_in_flight <= EffectiveWindow(sender)]_vars

\* push never leaves a sender that has something to send with nothing
\* outstanding: a stalled connection would have no timer to wake it.
NoSilentStall ==
  [][PushSegments /\ ~sender.input.error =>
       \/ sender'.fin_sent
       \/ sender'.bytes_in_flight >= EffectiveWindow(sender')
       \/ sender'.input.buffer = << >> /\ ~sender'.input.is_closed]_vars
==============================================================================
