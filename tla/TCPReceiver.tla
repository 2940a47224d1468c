----------------------------- MODULE TCPReceiver -----------------------------
(***************************************************************************)
(* A TCPReceiver that is sent the segments of one stream in any order,     *)
(* any number of times, cut in any way, while a reader takes the bytes     *)
(* (src/minnow/src/tcp_receiver.cc).  The segments are those a correct     *)
(* sender of Stream with initial sequence number Isn may make: the SYN,    *)
(* with or without payload, substrings, the FIN with the last one or by    *)
(* itself, empty acknowledgments, and a reset.  consumed records the bytes *)
(* that read() gave the reader (byte_stream_helpers.cc): after a reset it  *)
(* gives bytes that were not popped, and gives them again.                 *)
(***************************************************************************)
EXTENDS TCPReceiverOps, SequencesExt

CONSTANTS Byte, Stream, Isn, Capacity,
          SynPayloads  \* how much payload a SYN may carry

ASSUME StreamAssumption == Stream \in Seq(Byte)
ASSUME CapacityAssumption == Capacity \in Nat
ASSUME WindowAssumption == MaxWindow \in Nat
ASSUME IsnAssumption == Isn \in Wraps
ASSUME SynPayloadsAssumption == SynPayloads \subseteq Nat

VARIABLES receiver, consumed

vars == << receiver, consumed >>

Length == Len(Stream)

\* The segment with the n bytes from stream index first (0 is the first byte),
\* whose absolute sequence number is first + 1; with the SYN it is 0.
Segment(first, n, SYN, FIN) ==
  SenderMessage(Wrap(IF SYN THEN first ELSE first + 1, Isn), SYN,
                SubSeq(Stream, first + 1, first + n), FIN, FALSE)

Reset == SenderMessage(Wrap(0, Isn), FALSE, << >>, FALSE, TRUE)

Init == /\ receiver = NewReceiver(Capacity)
        /\ consumed = << >>

Receive(m) == receiver' = ReceiverReceive(receiver, m) /\ UNCHANGED consumed

ReaderReads(max_len) ==
  /\ receiver' = [receiver EXCEPT !.reassembler.output = Pop(@, max_len)]
  /\ consumed' = consumed \o ReadBytes(Inbound(receiver), max_len)

\* A FIN comes only with the end of the stream.
ReceiveSegment ==
  \E first \in 0 .. Length : \E n \in 0 .. Length - first, SYN, FIN \in BOOLEAN :
    /\ SYN => first = 0 /\ n \in SynPayloads
    /\ FIN => first + n = Length
    /\ Receive(Segment(first, n, SYN, FIN))

Next == \/ ReceiveSegment
        \/ Receive(Reset)
        \/ \E max_len \in Nat : ReaderReads(max_len)

Spec == Init /\ [][Next]_vars

-----------------------------------------------------------------------------
(* Properties *)

\* What was written to the output: the bytes popped, which were read first, and
\* those still buffered.
Delivered == Take(consumed, Inbound(receiver).bytes_popped) \o Inbound(receiver).buffer

\* What the reader was given without popping it, which only an error permits.
Unpopped == Drop(consumed, Inbound(receiver).bytes_popped)

\* tcp_receiver.hh:14-15: payload goes into the Reassembler at the correct
\* stream index, so the output is the beginning of the sender's stream; until a
\* reset the reader is given each byte of it once and in order, and after a
\* reset no byte but those it had left in the buffer.
DeliversStream ==
  /\ Delivered = Take(Stream, Len(Delivered)) /\ Len(Delivered) <= Length
  /\ Inbound(receiver).bytes_popped <= Len(consumed)
  /\ ~Inbound(receiver).error => Unpopped = << >>
  /\ ToSet(Unpopped) \subseteq ToSet(Inbound(receiver).buffer)

\* The acknowledgment says what was received: all bytes written to the output,
\* the SYN, and the FIN only once the whole stream is in.
AckIsTruthful ==
  HasValue(ReceiverSend(receiver).ackno) =>
    /\ ReceiverSend(receiver).ackno = Some(Wrap(Len(Delivered) + 1 + Count(Inbound(receiver).is_closed), Isn))
    /\ Inbound(receiver).is_closed => Len(Delivered) = Length

\* tcp_receiver_message.hh:12-16: the window is what can be received from the
\* ackno on; the right edge a sender may fill never moves back.
RightEdge(tr) == AbsoluteAckno(tr) - Count(Inbound(tr).is_closed)
                 + MinOf(AvailableCapacity(Inbound(tr)), MaxWindow)

\* Nothing said to the sender is taken back, whatever old or overlapping
\* segment comes: no acknowledgment, and no part of the window.
NothingRetreats ==
  [][/\ HasValue(receiver.isn) => /\ receiver'.isn = receiver.isn
                                  /\ AbsoluteAckno(receiver') >= AbsoluteAckno(receiver)
     /\ RightEdge(receiver') >= RightEdge(receiver)]_vars
==============================================================================
