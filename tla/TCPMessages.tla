------------------------------ MODULE TCPMessages ------------------------------
(***************************************************************************)
(* The two halves of what peers send each other, as records                *)
(* (src/minnow/util/tcp_sender_message.hh, tcp_receiver_message.hh).  A    *)
(* std::optional is the empty sequence or a sequence of one value.         *)
(***************************************************************************)
EXTENDS WrappingIntegers, Sequences

None == << >>
Some(x) == << x >>
HasValue(opt) == opt # None
Value(opt) == opt[1]

SenderMessage(seqno, SYN, payload, FIN, RST) ==
  [ seqno |-> seqno, SYN |-> SYN, payload |-> payload, FIN |-> FIN, RST |-> RST ]

Count(flag) == IF flag THEN 1 ELSE 0

\* sequence_length(): the flags SYN and FIN take a sequence number each.
SequenceLength(m) == Count(m.SYN) + Len(m.payload) + Count(m.FIN)

ReceiverMessage(ackno, window_size, RST) ==
  [ ackno |-> ackno, window_size |-> window_size, RST |-> RST ]
================================================================================
