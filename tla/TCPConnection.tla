----------------------------- MODULE TCPConnection -----------------------------
(***************************************************************************)
(* Two TCPPeers, each run by the rules of a TCPMinnowSocket's event loop   *)
(* (src/minnow/util/tcp_minnow_socket_impl.hh), and the network between    *)
(* them, which may lose, repeat and reorder segments.  The client          *)
(* connects, the server listens; then each owner writes its own stream,    *)
(* ends it and reads the other's.                                          *)
(*                                                                         *)
(* Clocks are abstract: a retransmission timer may expire at any time, a   *)
(* lingering peer may have lingered long enough at any time.  What only    *)
(* measures time (the current timeout, the count of retransmissions, the   *)
(* milliseconds) is put back after every step.                             *)
(***************************************************************************)
EXTENDS TCPPeerOps

CONSTANTS Byte,
          Client, Server,  \* the names of the two peers
          Streams,         \* what the owner of each peer will write
          Isns,            \* each peer's initial sequence number
          SendCapacity, RecvCapacity,
          NetCapacity      \* segments the network holds each way; it loses the rest

Peers == { Client, Server }
Other(x) == IF x = Client THEN Server ELSE Client

ASSUME PeersAssumption == Client # Server
ASSUME StreamsAssumption == \A x \in Peers : Streams[x] \in Seq(Byte) /\ Isns[x] \in Wraps
ASSUME CapacitiesAssumption ==
  SendCapacity \in Nat /\ RecvCapacity \in Nat \ {0} /\ NetCapacity \in Nat
ASSUME WindowAssumption == MaxWindow \in Nat \ {0}

VARIABLES peer,      \* the two TCPPeers
          net,       \* net[x] are the segments on their way to x
          written,   \* how many bytes of Streams[x] x's owner has written
          received,  \* the bytes x's owner has been given
          shut       \* rule 3 has told x's owner that its input ended

vars == << peer, net, written, received, shut >>

Init == /\ peer = [x \in Peers |-> NewPeer(SendCapacity, RecvCapacity, Isns[x], 1)]
        /\ net = [x \in Peers |-> << >>]
        /\ written = [x \in Peers |-> 0]
        /\ received = [x \in Peers |-> << >>]
        /\ shut = [x \in Peers |-> FALSE]

\* A peer with its clocks put back; ten timeouts after the last receipt is all
\* that lingering tells apart.
Unclocked(p) ==
  [p EXCEPT !.sender.current_RTO = p.rt_timeout,
            !.sender.consecutive_retransmissions = 0,
            !.cumulative_time = IF @ >= p.time_of_last_receipt + 10 * p.rt_timeout
                                THEN 10 * p.rt_timeout ELSE 0,
            !.time_of_last_receipt = 0]

\* x does a call with this result: its segments join those on the way.
Does(x, result, left) ==
  LET sent == left[Other(x)] \o result.sends IN
  /\ peer' = [peer EXCEPT ![x] = Unclocked(result.peer)]
  /\ net' = [left EXCEPT ![Other(x)] = Take(sent, MinOf(Len(sent), NetCapacity))]

OwnerIdle == UNCHANGED << written, received, shut >>

-------------------------------------------------------------------------------
\* connect() pushes once, before the event loop runs.
Connect == /\ ~peer[Client].sender.syn_sent
           /\ Does(Client, PeerPush(peer[Client]), net)
           /\ OwnerIdle

\* connect() and listen_and_accept() return, and the owner may write, when the
\* SYN is acknowledged.
Established(p) == p.sender.syn_sent /\ (p.sender.next_seqno > 1 \/ p.sender.outstanding = << >>)

\* Rule 2 is offered the owner's bytes.
TakesInput(x) == /\ Established(peer[x])
                 /\ Active(peer[x])
                 /\ ~Outbound(peer[x]).is_closed
                 /\ AvailableCapacity(Outbound(peer[x])) > 0

OwnerWrite(x, n) ==
  LET data == SubSeq(Streams[x], written[x] + 1, written[x] + n) IN
  /\ TakesInput(x)
  /\ n <= AvailableCapacity(Outbound(peer[x])) /\ written[x] + n <= Len(Streams[x])
  /\ Does(x, PeerPush([peer[x] EXCEPT !.sender.input = Push(@, data)]), net)
  /\ written' = [written EXCEPT ![x] = @ + n]
  /\ UNCHANGED << received, shut >>

OwnerClose(x) ==
  /\ TakesInput(x)
  /\ written[x] = Len(Streams[x])
  /\ Does(x, PeerPush([peer[x] EXCEPT !.sender.input = Close(@)]), net)
  /\ OwnerIdle

\* Rule 3 hands over as many of the buffered bytes as the owner's socket takes
\* and ends the owner's input when the stream is finished.
OwnerRead(x, n) ==
  LET inbound == InboundOf(peer[x])
      left == Pop(inbound, n)
  IN  /\ n <= Len(inbound.buffer)
      /\ inbound.buffer # << >> => n > 0
      /\ inbound.buffer = << >> => (IsFinished(inbound) \/ inbound.error) /\ ~shut[x]
      /\ peer' = [peer EXCEPT ![x].receiver.reassembler.output = left]
      /\ received' = [received EXCEPT ![x] = @ \o Take(inbound.buffer, n)]
      /\ shut' = [shut EXCEPT ![x] = @ \/ IsFinished(left) \/ left.error]
      /\ UNCHANGED << net, written >>

\* Rule 1 reads a segment, the i-th on the way.
Deliver(x, i) ==
  /\ i \in 1 .. Len(net[x])
  /\ Active(peer[x])
  /\ \E result \in {PeerReceive(peer[x], net[x][i])} :
       Does(x, result, [net EXCEPT ![x] = RemoveAt(@, i)])
  /\ OwnerIdle

\* tick() with the time that is left on the timer.
Timeout(x) ==
  LET p == peer[x] IN
  /\ Active(p)
  /\ p.sender.time_running /\ p.sender.outstanding # << >>
  /\ Does(x, PeerTick(p, p.sender.current_RTO), net)
  /\ OwnerIdle

\* tick() after a silence of ten timeouts, with nothing to retransmit.
LingerEnds(x) ==
  LET p == peer[x] IN
  /\ Active(p) /\ Lingering(p)
  /\ p.sender.outstanding = << >>
  /\ Does(x, PeerTick(p, 10 * p.rt_timeout), net)
  /\ OwnerIdle

Lose(x, i) == /\ i \in 1 .. Len(net[x])
              /\ net' = [net EXCEPT ![x] = RemoveAt(@, i)]
              /\ UNCHANGED peer /\ OwnerIdle

Repeat(x, i) == /\ i \in 1 .. Len(net[x])
                /\ Len(net[x]) < NetCapacity
                /\ net' = [net EXCEPT ![x] = Append(@, @[i])]
                /\ UNCHANGED peer /\ OwnerIdle

Next == \/ Connect
        \/ \E x \in Peers :
             \/ \E n \in 1 .. SendCapacity : OwnerWrite(x, n)
             \/ OwnerClose(x)
             \/ \E n \in 0 .. RecvCapacity : OwnerRead(x, n)
             \/ Timeout(x) \/ LingerEnds(x)
             \/ \E i \in 1 .. NetCapacity : Deliver(x, i) \/ Lose(x, i) \/ Repeat(x, i)

Spec == Init /\ [][Next]_vars

-------------------------------------------------------------------------------
(* Properties *)

\* The first sequence number of x that is not acknowledged.
Unacked(x) == IF peer[x].sender.outstanding = << >>
              THEN peer[x].sender.next_seqno
              ELSE peer[x].sender.outstanding[1].seqno

\* A sender forgets a segment only when the peer has it: what x takes as
\* acknowledged is in the other's inbound stream, the SYN and FIN too, through
\* any loss, repetition and reordering and the wrap of sequence numbers.
AcknowledgedIsReceived ==
  \A x \in Peers :
    LET tr == peer[Other(x)].receiver
    IN  Unacked(x) <= IF HasValue(tr.isn) THEN AbsoluteAckno(tr) ELSE 0

\* tcp_peer.hh:38-48: a peer that is no longer active has got its whole stream
\* to the other side and has the other's whole stream.
InactiveMeansDone ==
  \A x \in Peers :
    ~Active(peer[x]) =>
      /\ Unacked(x) = peer[x].sender.next_seqno /\ peer[x].sender.fin_sent
      /\ InboundOf(peer[x]).is_closed /\ InboundOf(peer[Other(x)]).is_closed

\* No reset comes up by itself: the two peers never take each other's
\* segments for a failure.
NoSpuriousError == \A x \in Peers : ~AnyErrors(peer[x])

\* Each direction of the connection is a pipe from the one owner to the other.
Upstream == INSTANCE BytePipe WITH
  PipeCapacity <- SendCapacity + 2 * RecvCapacity,
  sent <- Take(Streams[Client], written[Client]), delivered <- received[Server],
  ended <- Outbound(peer[Client]).is_closed, finished <- shut[Server], broken <- FALSE
Downstream == INSTANCE BytePipe WITH
  PipeCapacity <- SendCapacity + 2 * RecvCapacity,
  sent <- Take(Streams[Server], written[Server]), delivered <- received[Client],
  ended <- Outbound(peer[Server]).is_closed, finished <- shut[Client], broken <- FALSE
EachWayIsAPipe == Upstream!PipeSpec /\ Downstream!PipeSpec
===============================================================================
