------------------------------ MODULE MinnowSocket ------------------------------
(***************************************************************************)
(* One TCPMinnowSocket (src/minnow/util/tcp_minnow_socket_impl.hh): its    *)
(* owner, its TCP thread with the event loop, the pair of local sockets    *)
(* between them, and at the other end of a network that keeps the order a  *)
(* TCPPeer whose application sends a stream, reads at once and may fail.   *)
(*                                                                         *)
(* The thread's turn is two steps, the poll and what is done about it, so  *)
(* that the owner's calls come in between.  connect() and                  *)
(* listen_and_accept() run the same loop in the owner's thread.  Clocks    *)
(* are abstract, as in TCPConnection.                                      *)
(***************************************************************************)
EXTENDS TCPPeerOps, TCPOverIPv4Ops

CONSTANTS Byte,
          OutStream, InStream,  \* what the owner writes, what the other end sends
          SendCapacity, RecvCapacity,
          OwnerRoom,            \* bytes the local socket holds for the owner
          Isns                  \* initial sequence numbers: ours, the other end's

ASSUME StreamAssumption == OutStream \in Seq(Byte) /\ InStream \in Seq(Byte)
ASSUME RoomAssumption == OwnerRoom \in Nat \ {0}

VARIABLES role,    \* "connect" or "listen"
          phase,   \* "new", "connecting", "running", "ended" or, killed, "dead"
          sock,    \* the peer and the flags the rules read
          rules,   \* the event loop's rules that are left
          polled,  \* << >>, or what poll reported and is not served yet
          abort,   \* _abort
          local,   \* the socket pair: bytes each way and the ways shut down
          owner,   \* what the owner's thread has done
          other,   \* the TCPPeer at the other end and its application
          net      \* segments on their way in and out

vars == << role, phase, sock, rules, polled, abort, local, owner, other, net >>

Rules == << "receive", "push", "deliver" >>

Init ==
  /\ role \in { "connect", "listen" }
  /\ phase = "new"
  /\ sock = [ tcp |-> NewPeer(SendCapacity, RecvCapacity, Isns[1], 1), listening |-> FALSE,
              outbound_shutdown |-> FALSE, inbound_shutdown |-> FALSE, eof |-> FALSE ]
  /\ rules = Rules
  /\ polled = << >>
  /\ abort = FALSE
  /\ local = [ outbound |-> << >>, inbound |-> << >>, shut |-> {} ]
  /\ owner = [ state |-> "calling", written |-> 0, got |-> << >>, eof |-> FALSE, ended |-> FALSE ]
  /\ other = [ tcp |-> NewPeer(SendCapacity, RecvCapacity, Isns[2], 1),
               written |-> 0, got |-> << >>, eof |-> FALSE, failed |-> FALSE ]
  /\ net = [ in |-> << >>, out |-> << >> ]

-------------------------------------------------------------------------------
(* The rules' functions *)

ReadsFd(r) == r # "deliver"
FdAtEof(r, c) == r = "push" /\ c.eof
FdIsClosed(r, c) == FALSE

WantsOutbound(c) == /\ Active(c.tcp) /\ ~c.outbound_shutdown
                    /\ AvailableCapacity(Outbound(c.tcp)) > 0

\* A fault: bytes are no reason to deliver.
WantsInboundEnd(c) ==
  (IsFinished(InboundOf(c.tcp)) \/ InboundOf(c.tcp).error) /\ ~c.inbound_shutdown
WantsInbound(c) ==
  \/ InboundOf(c.tcp).buffer # << >>
  \/ (IsFinished(InboundOf(c.tcp)) \/ InboundOf(c.tcp).error) /\ ~c.inbound_shutdown

Wants(r, c) == \/ r = "receive" /\ Active(c.tcp)
               \/ r = "push" /\ WantsOutbound(c)
               \/ r = "deliver" /\ WantsInbound(c)

EndOutbound(c) == [c EXCEPT !.tcp.sender.input = Close(@), !.outbound_shutdown = TRUE]
CancelRule(r, c) == IF r = "push" THEN EndOutbound(c) ELSE c
BreakRule(r, c) ==
  IF r = "push" THEN [c EXCEPT !.tcp.sender.input = SetError(@)]
  ELSE IF r = "deliver" THEN [c EXCEPT !.tcp.receiver.reassembler.output = SetError(@)]
  ELSE c

Loop == INSTANCE EventLoop WITH
  Reads <- ReadsFd, AtEof <- FdAtEof, Closed <- FdIsClosed,
  Interest <- Wants, OnCancel <- CancelRule, OnError <- BreakRule

-------------------------------------------------------------------------------
(* The local sockets: a shutdown of either end shuts a way down for both. *)

BothWays == { "outbound", "inbound" }

ReadyFds == { r \in ToSet(Rules) :
  \/ r = "receive" /\ net.in # << >>
  \/ r = "push" /\ (local.outbound # << >> \/ "outbound" \in local.shut)
  \/ r = "deliver" /\ Len(local.inbound) < OwnerRoom }
HungUp == IF local.shut = BothWays THEN { "push", "deliver" } \cap ToSet(rules) ELSE {}

-------------------------------------------------------------------------------
(* The thread *)

\* What only measures time is put back.
Unclocked(p) ==
  [p EXCEPT !.sender.current_RTO = p.rt_timeout,
            !.sender.consecutive_retransmissions = 0,
            !.cumulative_time = IF @ >= p.time_of_last_receipt + 10 * p.rt_timeout
                                THEN 10 * p.rt_timeout ELSE 0,
            !.time_of_last_receipt = 0]

\* The peer has done a call with this result in state c.
Became(c, result) == [c EXCEPT !.tcp = Unclocked(result.peer)]

\* connect() and listen_and_accept(), up to the loop.
Call ==
  LET result == PeerPush(sock.tcp) IN
  /\ phase = "new"
  /\ phase' = "connecting"
  /\ IF role = "connect"
     THEN /\ sock' = Became(sock, result)
          /\ net' = [net EXCEPT !.out = @ \o result.sends]
     ELSE /\ sock' = [sock EXCEPT !.listening = TRUE]
          /\ UNCHANGED net
  /\ UNCHANGED << role, rules, polled, abort, local, owner, other >>

\* The loop's condition in connect() and listen_and_accept(), in the thread.
SynUnderWay ==
  LET flight == sock.tcp.sender.bytes_in_flight IN
  IF role = "connect" THEN flight = 1
  ELSE ~HasValue(ReceiverSend(sock.tcp.receiver).ackno) \/ flight > 0
LoopsOn == \/ phase = "connecting" /\ polled = << >> /\ SynUnderWay
           \/ phase = "running" /\ polled = << >>

\* The loop is over: in connect() or listen_and_accept() the thread starts and
\* the owner goes on; in the thread both ways are shut down, and it ends.
Leave(pair) ==
  IF phase = "connecting"
  THEN /\ phase' = "running"
       /\ owner' = [owner EXCEPT !.state = "open"]
       /\ local' = pair
  ELSE /\ phase' = "ended"
       /\ local' = [pair EXCEPT !.shut = BothWays]
       /\ UNCHANGED owner

Connected ==
  /\ phase = "connecting" /\ polled = << >> /\ ~SynUnderWay
  /\ Leave(local)
  /\ UNCHANGED << role, sock, rules, polled, abort, other, net >>

\* Nothing is left to poll for.  Swept, and other results below, are bound by
\* \E so that TLC evaluates them once.
Swept == Loop!Sweep(sock, rules)

Exit ==
  /\ LoopsOn
  /\ \E swept \in {Swept} : /\ swept.asked = {}
                            /\ sock' = swept.state
                            /\ rules' = swept.rules
  /\ Leave(local)
  /\ UNCHANGED << role, polled, abort, other, net >>

\* wait_next_event until poll has something to report.
Poll ==
  /\ LoopsOn
  /\ \E swept \in {Swept} :
       LET ready == swept.asked \cap ReadyFds
           hup == HungUp \cap ToSet(swept.rules)
       IN  /\ swept.asked # {}
           /\ Loop!PollReturns(swept, ready, hup, {})
           /\ sock' = swept.state
           /\ rules' = swept.rules
           /\ polled' = << [ asked |-> swept.asked, ready |-> ready, hup |-> hup ] >>
  /\ UNCHANGED << role, phase, abort, local, owner, other, net >>

-------------------------------------------------------------------------------
(* The callbacks: a turn in the making is the socket's state, what its peer *)
(* came to and sent, what is left of the segments that came in, the local  *)
(* sockets, whether the rule's descriptor was read or written, and whether *)
(* that killed the process (a write to a way that is shut down raises      *)
(* SIGPIPE).                                                               *)

Turn(c) == [ sock |-> c, did |-> [ peer |-> c.tcp, sends |-> << >> ], in |-> net.in,
             local |-> local, touched |-> FALSE, killed |-> FALSE ]

\* Rule 1: what the adapter takes for a segment of the connection.
Receive(t) ==
  LET segment == Head(t.in)
      read == [t EXCEPT !.in = Tail(@), !.touched = TRUE]
  IN  IF t.sock.listening /\ ~Opens(segment.sender) THEN read
      ELSE [read EXCEPT !.did = PeerReceive(@.peer, segment), !.sock.listening = FALSE]

\* Rule 2: as many bytes as the stream has room for; none is the end.
PushBytes(t) ==
  LET n == MinOf(Len(t.local.outbound), AvailableCapacity(Outbound(t.sock.tcp)))
      data == Take(t.local.outbound, n)
      pushed == [t.sock EXCEPT !.tcp.sender.input = Push(@, data), !.eof = n = 0]
      filled == IF n = 0 THEN EndOutbound(pushed) ELSE pushed
  IN  [t EXCEPT !.sock = filled, !.did = PeerPush(filled.tcp),
                !.local.outbound = Drop(@, n), !.touched = TRUE]

\* Faults: all is popped although the owner's socket took a part; only a clean
\* end is passed on.
DeliveredAll(inbound, n) == Pop(inbound, BytesBuffered(inbound))
Delivered(inbound, n) == Pop(inbound, n)
EndsInboundClean(inbound) == IsFinished(inbound)
EndsInbound(inbound) == IsFinished(inbound) \/ inbound.error

\* Rule 3: what the owner's socket takes is popped; a finished stream ends the
\* owner's input.
Deliver(t) ==
  LET inbound == InboundOf(t.sock.tcp)
      n == MinOf(Len(inbound.buffer), OwnerRoom - Len(t.local.inbound))
      left == Delivered(inbound, n)
      wrote == [t EXCEPT !.did.peer.receiver.reassembler.output = left,
                         !.local.inbound = @ \o Take(inbound.buffer, n),
                         !.touched = inbound.buffer # << >>]
  IN  IF inbound.buffer # << >> /\ "inbound" \in t.local.shut THEN [t EXCEPT !.killed = TRUE]
      ELSE IF EndsInbound(left)
      THEN [wrote EXCEPT !.local.shut = @ \cup {"inbound"},
                         !.sock.inbound_shutdown = TRUE, !.touched = TRUE]
      ELSE wrote

Callback(r, t) == IF r = "receive" THEN Receive(t)
                  ELSE IF r = "push" THEN PushBytes(t) ELSE Deliver(t)

\* A busy wait that the event loop detects ends the process as well: the
\* thread's exception is thrown on.
Served(r, after) ==
  LET c == Became(after.sock, after.did)
  IN  [after EXCEPT !.sock = c, !.killed = @ \/ Loop!BusyWait(r, c, after.touched)]

-------------------------------------------------------------------------------
(* The end of a turn: _abort, and tick() *)

\* How much time goes by: none that matters, or as much as ends a silence.
Lapses == { "none", "retransmission", "lingering" }
MayLapse(p, lapse) ==
  \/ lapse = "none"
  \/ lapse = "retransmission" /\ p.sender.time_running /\ p.sender.outstanding # << >>
  \/ lapse = "lingering" /\ Lingering(p) /\ p.sender.outstanding = << >>
Ticked(p, lapse) ==
  IF ~Active(p) THEN Result(p, << >>)
  ELSE PeerTick(p, IF lapse = "retransmission" THEN p.sender.current_RTO
                   ELSE IF lapse = "lingering" THEN 10 * p.rt_timeout ELSE 0)

\* A fault: _abort is not looked at.
StopsNever == FALSE
Stops == abort

EndTurn(t, lapse) ==
  IF t.killed
  THEN /\ phase' = "dead"
       /\ UNCHANGED << sock, net, local, owner >>
  ELSE IF Stops
  THEN /\ Leave(t.local)
       /\ sock' = t.sock
       /\ net' = [ in |-> t.in, out |-> net.out \o t.did.sends ]
  ELSE \E result \in {Ticked(t.sock.tcp, lapse)} :
       /\ sock' = Became(t.sock, result)
       /\ net' = [ in |-> t.in, out |-> net.out \o t.did.sends \o result.sends ]
       /\ local' = t.local
       /\ UNCHANGED << phase, owner >>

\* wait_next_event after poll, and the rest of the loop's body.  Time that
\* matters goes by only in turns that serve nothing.
Serve(lapse) ==
  /\ polled # << >>
  /\ polled' = << >>
  /\ \E walked \in {Loop!Walk([ state |-> sock, rules |-> rules, asked |-> polled[1].asked ],
                              polled[1].ready, polled[1].hup, {})} :
       /\ rules' = walked.rules
       /\ IF walked.served = {}
          THEN MayLapse(walked.state.tcp, lapse) /\ EndTurn(Turn(walked.state), lapse)
          ELSE /\ lapse = "none"
               /\ \E r \in walked.served :
                    \E after \in {Callback(r, Turn(walked.state))} :
                      EndTurn(Served(r, after), lapse)
  /\ UNCHANGED << role, abort, other >>

\* poll returns after 10 ms with nothing.
TimeOut(lapse) ==
  /\ LoopsOn
  /\ \E swept \in {Swept} :
       /\ swept.asked # {}
       /\ swept.asked \cap ReadyFds = {} /\ HungUp \cap ToSet(swept.rules) = {}
       /\ rules' = swept.rules
       /\ MayLapse(swept.state.tcp, lapse)
       /\ EndTurn(Turn(swept.state), lapse)
  /\ UNCHANGED << role, polled, abort, other >>

-------------------------------------------------------------------------------
(* The owner, once connect() or listen_and_accept() has returned *)

OwnerMay == owner.state = "open" /\ phase # "dead"

OwnerActs == UNCHANGED << role, phase, sock, rules, polled, other, net >>

OwnerWrite(n) ==
  /\ OwnerMay
  /\ "outbound" \notin local.shut
  /\ owner.written + n <= Len(OutStream)
  /\ local' = [local EXCEPT !.outbound =
                 @ \o SubSeq(OutStream, owner.written + 1, owner.written + n)]
  /\ owner' = [owner EXCEPT !.written = @ + n]
  /\ UNCHANGED abort /\ OwnerActs

OwnerShutdown ==
  /\ OwnerMay
  /\ ~owner.ended
  /\ local' = [local EXCEPT !.shut = @ \cup {"outbound"}]
  /\ owner' = [owner EXCEPT !.ended = TRUE]
  /\ UNCHANGED abort /\ OwnerActs

\* A read gives all there is, or the end.
OwnerRead ==
  /\ OwnerMay
  /\ local.inbound # << >> \/ ("inbound" \in local.shut /\ ~owner.eof)
  /\ local' = [local EXCEPT !.inbound = << >>]
  /\ owner' = [owner EXCEPT !.got = @ \o local.inbound, !.eof = local.inbound = << >>]
  /\ UNCHANGED abort /\ OwnerActs

WaitUntilClosed ==
  /\ OwnerMay
  /\ local' = [local EXCEPT !.shut = BothWays]
  /\ owner' = [owner EXCEPT !.state = "waiting", !.ended = TRUE]
  /\ UNCHANGED abort /\ OwnerActs

\* The destructor while the thread is running.
Destroy ==
  /\ OwnerMay
  /\ abort' = TRUE
  /\ owner' = [owner EXCEPT !.state = "destroying"]
  /\ UNCHANGED local /\ OwnerActs

Join ==
  /\ owner.state \in { "waiting", "destroying" }
  /\ phase = "ended"
  /\ owner' = [owner EXCEPT !.state = "done"]
  /\ UNCHANGED << abort, local >> /\ OwnerActs

-------------------------------------------------------------------------------
(* The other end, and the network *)

OtherActs == UNCHANGED << role, phase, sock, rules, polled, abort, local, owner >>

\* It does a call with this result; its application reads what there is.
OtherDoes(result, left) ==
  \E p \in {Unclocked(result.peer)} :
    LET inbound == InboundOf(p)
        read == Pop(inbound, Len(inbound.buffer))
    IN
      /\ other' = [other EXCEPT !.tcp = [p EXCEPT !.receiver.reassembler.output = read],
                                !.got = @ \o inbound.buffer,
                                !.eof = @ \/ IsFinished(read)]
      /\ net' = [ in |-> net.in \o result.sends, out |-> left ]
      /\ OtherActs

OtherConnects ==
  /\ role = "listen" /\ ~other.tcp.sender.syn_sent
  /\ OtherDoes(PeerPush(other.tcp), net.out)

OtherReceives ==
  /\ net.out # << >>
  /\ IF other.failed
     THEN net' = [net EXCEPT !.out = Tail(@)] /\ UNCHANGED other /\ OtherActs
     ELSE \E result \in {PeerReceive(other.tcp, Head(net.out))} :
            OtherDoes(result, Tail(net.out))

Established(p) == p.sender.syn_sent /\ (p.sender.next_seqno > 1 \/ p.sender.outstanding = << >>)

\* One more byte, or the end.
OtherWrites ==
  LET p == other.tcp
      next == IF other.written < Len(InStream)
              THEN [p EXCEPT !.sender.input = Push(@, << InStream[other.written + 1] >>)]
              ELSE [p EXCEPT !.sender.input = Close(@)]
      result == PeerPush(next)
  IN  /\ ~other.failed /\ Established(p) /\ Active(p)
      /\ ~Outbound(p).is_closed
      /\ AvailableCapacity(Outbound(p)) > 0
      /\ other' = [other EXCEPT !.tcp = Unclocked(result.peer),
                                !.written = MinOf(@ + 1, Len(InStream))]
      /\ net' = [net EXCEPT !.in = @ \o result.sends]
      /\ OtherActs

OtherTicks(lapse) ==
  /\ ~other.failed
  /\ lapse # "none" /\ MayLapse(other.tcp, lapse)
  /\ Active(other.tcp)
  /\ OtherDoes(Ticked(other.tcp, lapse), net.out)

\* The application at the other end is gone, and a reset says so.
OtherFails ==
  LET p == other.tcp
      reset == [EmptyMessage(p.sender) EXCEPT !.RST = TRUE]
  IN  /\ ~other.failed
      /\ p.sender.syn_sent \/ HasValue(p.receiver.isn)
      /\ other' = [other EXCEPT !.failed = TRUE]
      /\ net' = [net EXCEPT !.in = @ \o Segments(p, << reset >>)]
      /\ OtherActs

Next ==
  \/ Call \/ Connected \/ Exit \/ Poll
  \/ \E lapse \in Lapses : Serve(lapse) \/ TimeOut(lapse) \/ OtherTicks(lapse)
  \/ \E n \in 1 .. Len(OutStream) : OwnerWrite(n)
  \/ OwnerShutdown \/ OwnerRead \/ WaitUntilClosed \/ Destroy \/ Join
  \/ OtherConnects \/ OtherReceives \/ OtherWrites \/ OtherFails

Spec == Init /\ [][Next]_vars

-------------------------------------------------------------------------------
(* Properties *)

\* Nothing the owner may do and nothing the other end does ends the process:
\* the thread writes to no way that is shut down (SIGPIPE, which the program
\* does not catch) and its event loop detects no busy wait.
NeverKilled == phase # "dead"

\* A connection that ends without an error (tcp_minnow_socket_impl.hh:282,
\* "cleanly") has carried both streams to their ends: the other end has all
\* the owner wrote, and the owner's socket was given all the other end wrote.
CleanMeansComplete ==
  phase = "ended" /\ ~abort /\ ~AnyErrors(sock.tcp) =>
    /\ owner.ended /\ other.eof /\ other.got = Take(OutStream, owner.written)
    /\ owner.got \o local.inbound = InStream

\* Each way between the two applications is a pipe, with its end, as long as
\* the other end does not fail and the owner does not destroy the socket.
Broken == other.failed \/ abort
Upstream == INSTANCE BytePipe WITH
  PipeCapacity <- Len(OutStream), sent <- Take(OutStream, owner.written),
  delivered <- other.got, ended <- owner.ended, finished <- other.eof, broken <- FALSE
Downstream == INSTANCE BytePipe WITH
  PipeCapacity <- Len(InStream), sent <- Take(InStream, other.written),
  delivered <- owner.got, ended <- Outbound(other.tcp).is_closed, finished <- owner.eof,
  broken <- FALSE
EachWayIsAPipe == [][Broken' \/ (Upstream!PipeNext /\ Downstream!PipeNext)]_vars
=================================================================================
