------------------------------ MODULE TCPPeerOps ------------------------------
(***************************************************************************)
(* A TCPPeer as a value (src/minnow/util/tcp_peer.hh): its sender, its     *)
(* receiver and the clock of its lingering.  need_send_ is not part of it: *)
(* it is false whenever receive() returns.  A method that transmits gives  *)
(* the peer it leaves and the segments it sends.                           *)
(***************************************************************************)
EXTENDS TCPSenderOps, TCPReceiverOps

NewPeer(send_capacity, recv_capacity, isn, rt_timeout) ==
  [ sender |-> NewSender(send_capacity, isn, rt_timeout),
    receiver |-> NewReceiver(recv_capacity),
    rt_timeout |-> rt_timeout,
    linger_after_streams_finish |-> TRUE,
    cumulative_time |-> 0,
    time_of_last_receipt |-> 0 ]

Outbound(p) == p.sender.input
InboundOf(p) == Inbound(p.receiver)

AnyErrors(p) == InboundOf(p).error \/ Outbound(p).error
\* A fault: a peer does not wait for its last acknowledgments.
SenderActiveUnsent(p) == ~IsFinished(Outbound(p))
SenderActive(p) == p.sender.bytes_in_flight > 0 \/ ~IsFinished(Outbound(p))
ReceiverActive(p) == ~InboundOf(p).is_closed
Lingering(p) == /\ p.linger_after_streams_finish
                /\ p.cumulative_time < p.time_of_last_receipt + 10 * p.rt_timeout
Active(p) == ~AnyErrors(p) /\ (SenderActive(p) \/ ReceiverActive(p) \/ Lingering(p))

\* A TCPMessage as it arrives: the segment has one RST flag, set if either
\* half is a reset and read into both (src/minnow/util/tcp_segment.cc).
Segmented(m, reply) ==
  LET reset == m.RST \/ reply.RST
  IN  [ sender |-> [m EXCEPT !.RST = reset], receiver |-> [reply EXCEPT !.RST = reset] ]

\* send(): every message goes out with the receiver's current reply.
Segments(p, messages) ==
  [i \in 1 .. Len(messages) |-> Segmented(messages[i], ReceiverSend(p.receiver))]

Result(p, messages) == [ peer |-> p, sends |-> Segments(p, messages) ]

PeerPush(p) == Result([p EXCEPT !.sender = SenderPush(@)], PushSends(p.sender))

PeerTick(p, ms) ==
  Result([p EXCEPT !.cumulative_time = @ + ms, !.sender = SenderTick(@, ms)],
         TickSends(p.sender, ms))

\* A reply is due to a segment that takes sequence numbers and to a
\* keep-alive, whose sequence number is the one before our ackno.
NeedsReply(p, m) ==
  \/ SequenceLength(m) > 0
  \/ LET ackno == ReceiverSend(p.receiver).ackno
     IN  HasValue(ackno) /\ Value(ackno) = Wrap(1, m.seqno)

\* receive(): both halves, then a push, then an empty message if a reply is
\* still due; the peer whose inbound stream ends first need not linger.
PeerReceive(p, segment) ==
  LET heard == [p EXCEPT !.time_of_last_receipt = p.cumulative_time,
                         !.receiver = ReceiverReceive(@, segment.sender),
                         !.sender = SenderReceive(@, segment.receiver)]
      pushes == PushSends(heard.sender)
      pushed == [heard EXCEPT !.sender = SenderPush(@)]
      replies == IF pushes = << >> /\ NeedsReply(p, segment.sender)
                 THEN << EmptyMessage(pushed.sender) >> ELSE << >>
      passive == InboundOf(pushed).is_closed /\ ~IsFinished(Outbound(pushed))
  IN  IF ~Active(p) THEN Result(p, << >>)
      ELSE Result([pushed EXCEPT !.linger_after_streams_finish = @ /\ ~passive],
                  pushes \o replies)
===============================================================================
