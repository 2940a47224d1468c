----------------------------- MODULE TCPOverIPv4Ops -----------------------------
(***************************************************************************)
(* A TCPOverIPv4Adapter as a value (src/minnow/util/fd_adapter.hh,         *)
(* tcp_over_ip.cc): whom a socket talks with, and which datagrams it takes *)
(* for segments of its connection.  An address is a pair of an IP address  *)
(* and a port; addresses of a default FdAdapterConfig are Anywhere.  A     *)
(* message's bytes come to its number, as far as the checksum goes.        *)
(***************************************************************************)
EXTENDS Sequences, IPv4Ops

Anywhere == << 0, 0 >>
Ip(address) == address[1]
Port(address) == address[2]

NewAdapter(source, destination, listening) ==
  [ source |-> source, destination |-> destination, listening |-> listening ]

SegmentSum(d) == PseudoSum(d) + d.src_port + d.dst_port + d.message.number

\* wrap_tcp_in_ip, with the TTL of a new header
Wrapped(ad, message, ttl) ==
  LET d == [ src |-> Ip(ad.source), dst |-> Ip(ad.destination), ttl |-> ttl, cksum |-> 0,
             src_port |-> Port(ad.source), dst_port |-> Port(ad.destination),
             message |-> message, segment_cksum |-> 0 ]
  IN  WithChecksum([d EXCEPT !.segment_cksum = Checksum(SegmentSum(d))])

\* TCPSegment::parse finds no error.  A fault: it does not verify the checksum.
SegmentParsesAlways(d) == TRUE
SegmentParses(d) == Checksum(SegmentSum(d) + d.segment_cksum) = 0

\* While it listens it takes a SYN that is no reset.
Opens(message) == message.SYN /\ ~message.RST

\* A fault: the sender's port is not looked at.
FromPeerIp(ad, d) == d.dst = Ip(ad.source) /\ d.src = Ip(ad.destination)
FromPeer(ad, d) == /\ d.dst = Ip(ad.source) /\ d.src = Ip(ad.destination)
                   /\ d.src_port = Port(ad.destination)

\* The SYN that it takes tells it both addresses, and it listens no more.
AnswerTo(ad, d) ==
  [ad EXCEPT !.source = << d.dst, Port(@) >>, !.destination = << d.src, d.src_port >>,
             !.listening = FALSE]

\* unwrap_tcp_in_ip: whether d is a segment for this socket, and what becomes
\* of the adapter.
Unwraps(ad, d) ==
  /\ SegmentParses(d)
  /\ d.dst_port = Port(ad.source)
  /\ IF ad.listening THEN Opens(d.message) ELSE FromPeer(ad, d)
Unwrapped(ad, d) == IF ad.listening /\ Unwraps(ad, d) THEN AnswerTo(ad, d) ELSE ad
=================================================================================
