---------------------------- MODULE TCPReceiverOps ----------------------------
(***************************************************************************)
(* A TCPReceiver as a value: its Reassembler, syn_received_ and isn_       *)
(* (src/minnow/src/tcp_receiver.hh), and its two methods (tcp_receiver.cc).*)
(* The stream's first byte has index 1 in this Reassembler: the SYN takes  *)
(* index 0.                                                                *)
(***************************************************************************)
EXTENDS TCPMessages, ReassemblerOps

CONSTANT MaxWindow  \* UINT16_MAX

NewReceiver(capacity) ==
  [ reassembler |-> NewReassembler(capacity), syn_received |-> FALSE, isn |-> None ]

Inbound(tr) == tr.reassembler.output

ReceiveReset(tr) == [tr EXCEPT !.reassembler.output = SetError(@)]

\* The first SYN: an empty insert at index 0, index 0 is passed over, then the
\* payload and the FIN that came with it, if any.
ReceiveSyn(tr, m) ==
  LET begun == IncrementNextIndex(Insert(tr.reassembler, 0, << >>, FALSE))
      filled == IF m.payload # << >> \/ m.FIN
                THEN Insert(begun, 1, m.payload, m.FIN)
                ELSE begun
  IN  [ reassembler |-> filled, syn_received |-> TRUE, isn |-> Some(m.seqno) ]

\* A fault: the index of every segment is taken for a SYN's.
StreamIndexEarly(tr, m) ==
  LET absolute == Unwrap(m.seqno, Value(tr.isn), Inbound(tr).bytes_pushed)
  IN  IF absolute > 0 THEN absolute - 1 ELSE absolute

\* Any later segment is inserted where its sequence number says, a repeated
\* SYN segment one index earlier and never before index 0.
StreamIndex(tr, m) ==
  LET absolute == Unwrap(m.seqno, Value(tr.isn), Inbound(tr).bytes_pushed)
  IN  IF m.SYN /\ absolute > 0 THEN absolute - 1 ELSE absolute

ReceiveData(tr, m) ==
  [tr EXCEPT !.reassembler = Insert(@, StreamIndex(tr, m), m.payload, m.FIN)]

ReceiverReceive(tr, m) ==
  IF m.RST THEN ReceiveReset(tr)
  ELSE IF m.SYN /\ ~tr.syn_received THEN ReceiveSyn(tr, m)
  ELSE IF HasValue(tr.isn) THEN ReceiveData(tr, m)
  ELSE tr

\* Faults of the ackno: the FIN is never counted, or as soon as its
\* place is known; what was popped is not counted.
AbsoluteAcknoNoFin(tr) == Inbound(tr).bytes_pushed + 1
AbsoluteAcknoAtFlag(tr) == Inbound(tr).bytes_pushed + 1 + Count(tr.reassembler.eof_flag)
AbsoluteAcknoBuffered(tr) == BytesBuffered(Inbound(tr)) + 1 + Count(Inbound(tr).is_closed)

\* The next absolute sequence number the receiver needs.
AbsoluteAckno(tr) == Inbound(tr).bytes_pushed + 1 + Count(Inbound(tr).is_closed)

\* A fault of send: no window is announced before the SYN came.
ReceiverSendLate(tr) ==
  IF Inbound(tr).error \/ ~HasValue(tr.isn)
  THEN ReceiverMessage(None, 0, Inbound(tr).error)
  ELSE ReceiverMessage(Some(Wrap(AbsoluteAckno(tr), Value(tr.isn))),
                       MinOf(AvailableCapacity(Inbound(tr)), MaxWindow), FALSE)

ReceiverSend(tr) ==
  IF Inbound(tr).error
  THEN ReceiverMessage(None, 0, TRUE)
  ELSE ReceiverMessage(
         IF HasValue(tr.isn) THEN Some(Wrap(AbsoluteAckno(tr), Value(tr.isn))) ELSE None,
         MinOf(AvailableCapacity(Inbound(tr)), MaxWindow),
         FALSE)
===============================================================================
