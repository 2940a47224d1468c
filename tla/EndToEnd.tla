-------------------------------- MODULE EndToEnd --------------------------------
(***************************************************************************)
(* Two programs endtoend (src/minnow/apps/endtoend.cc), a client and a     *)
(* server, joined by a bouncer that hands what one sends to the other.  In *)
(* each a TCPPeer speaks through a NetworkInterfaceAdapter (a filter for   *)
(* its connection over a NetworkInterface), and a network thread runs a    *)
(* Router between that host and the internet, with a queue of frames for   *)
(* either side.  What a TCPPeer says is a message, numbered, from a        *)
(* program.  Interface 1 is host_side and interface 2 is internet_side.    *)
(***************************************************************************)
EXTENDS RouterOps, TCPOverIPv4Ops, FiniteSets

CONSTANTS Programs, Client,     \* the two, and the one that connects
          ClientPort, ServerPort,
          Other,                \* Other[p]: the other program
          HostIP, NextHop,      \* HostIP[p], NextHop[p]: of its host
          Interfaces, Tables,   \* Interfaces[p], Tables[p]: its router's addresses and routes
          Strays,               \* Strays[p]: datagrams strangers send p
          InitialTTL            \* IPv4Header::DEFAULT_TTL, 128

VARIABLES host,    \* host[p]: its NetworkInterface and its adapter
          router,  \* router[p]: the Router
          queue,   \* queue[p][i]: FramesOut, the frames interface i transmitted
          wire,    \* wire[p]: the frames underway to the host, the router and its internet side
          said,    \* said[p]: the messages its TCPPeer wrote
          heard    \* heard[p]: the messages it was given

vars == << host, router, queue, wire, said, heard >>

\* The Ethernet addresses are random: named after what is addressed.
MacOf(ip) == << "mac", ip >>

\* As connect, or bind and listen_and_accept, set it up.
AdapterOf(p) ==
  IF p = Client
  THEN NewAdapter(<< HostIP[p], ClientPort >>, << HostIP[Other[p]], ServerPort >>, FALSE)
  ELSE NewAdapter(<< HostIP[p], ServerPort >>, Anywhere, TRUE)

Init ==
  /\ host = [p \in Programs |->
       [ interface |-> NewInterface(MacOf(HostIP[p]), HostIP[p]), adapter |-> AdapterOf(p) ]]
  /\ router = [p \in Programs |->
       FoldLeft(AddRoute,
                FoldLeft(AddInterface, NewRouter,
                         [i \in 1 .. 2 |-> NewInterface(MacOf(Interfaces[p][i]), Interfaces[p][i])]),
                Tables[p])]
  /\ queue = [p \in Programs |-> << << >>, << >> >>]
  /\ wire = [p \in Programs |-> [ host |-> << >>, router |-> << >>, internet |-> << >> ]]
  /\ said = [p \in Programs |-> << >>]
  /\ heard = [p \in Programs |-> << >>]

-------------------------------------------------------------------------------
(* The host: NetworkInterfaceAdapter *)

\* Sender::transmit
ToRouter(p, frames, of) == [of EXCEPT ![p].router = @ \o frames]

\* write
HostWrites(p, message) ==
  LET h == host[p]
      dgram == Wrapped(h.adapter, message, InitialTTL)
  IN  /\ ~h.adapter.listening
      /\ host' = [host EXCEPT ![p].interface = SendDatagram(h.interface, dgram, NextHop[p])]
      /\ wire' = ToRouter(p, SendDatagramFrames(h.interface, dgram, NextHop[p]), wire)
      /\ said' = [said EXCEPT ![p] = Append(@, message)]
      /\ UNCHANGED << router, queue, heard >>

\* read: a frame goes to the interface, and at most one datagram comes out.
HostReads(p) ==
  LET frame == Head(wire[p].host)
      interface == RecvFrame(host[p].interface, frame)
      received == interface.datagrams_received
      adapter == host[p].adapter
  IN  /\ wire[p].host # << >>
      /\ wire' = ToRouter(p, RecvFrameFrames(host[p].interface, frame),
                          [wire EXCEPT ![p].host = Tail(@)])
      /\ IF received = << >>
         THEN host' = [host EXCEPT ![p].interface = interface] /\ UNCHANGED heard
         ELSE /\ host' = [host EXCEPT ![p] =
                   [ interface |-> [interface EXCEPT !.datagrams_received = Tail(received)],
                     adapter |-> Unwrapped(adapter, Head(received)) ]]
              /\ heard' = IF Unwraps(adapter, Head(received))
                          THEN [heard EXCEPT ![p] = Append(@, Head(received).message)]
                          ELSE heard
      /\ UNCHANGED << router, queue, said >>

HostTick(p, ms) ==
  /\ host' = [host EXCEPT ![p].interface = InterfaceTick(@, ms)]
  /\ UNCHANGED << router, queue, wire, said, heard >>

-------------------------------------------------------------------------------
(* The network thread.  Its clock goes on by 10 after every event, however *)
(* long that took: it may run ahead, and is an action of its own.          *)

Arriving(i) == IF i = 1 THEN "router" ELSE "internet"

\* The rules for frames that come in: recv_frame, and route().
RouterReceives(p, i) ==
  LET frame == Head(wire[p][Arriving(i)])
      interface == router[p].interfaces[i]
      answers == RecvFrameFrames(interface, frame)
      result == RouteAll([router[p] EXCEPT !.interfaces[i] = RecvFrame(interface, frame)])
      SentBy(j) == LET sends == SelectSeq(result.sends, LAMBDA s : s[1] = j)
                   IN  [k \in 1 .. Len(sends) |-> sends[k][2]]
  IN  /\ wire[p][Arriving(i)] # << >>
      /\ wire' = [wire EXCEPT ![p][Arriving(i)] = Tail(@)]
      /\ router' = [router EXCEPT ![p] = result.router]
      /\ queue' = [queue EXCEPT ![p] =
           [j \in 1 .. 2 |-> queue[p][j] \o (IF j = i THEN answers ELSE << >>) \o SentBy(j)]]
      /\ UNCHANGED << host, said, heard >>

\* The rules for frames that go out, to the host or to the other program.
RouterSends(p, i) ==
  LET frame == Head(queue[p][i]) IN
  /\ queue[p][i] # << >>
  /\ queue' = [queue EXCEPT ![p][i] = Tail(@)]
  /\ wire' = IF i = 1 THEN [wire EXCEPT ![p].host = Append(@, frame)]
             ELSE [wire EXCEPT ![Other[p]].internet = Append(@, frame)]
  /\ UNCHANGED << host, router, said, heard >>

RouterTick(p, ms) ==
  /\ router' = [router EXCEPT ![p].interfaces = [i \in 1 .. 2 |-> InterfaceTick(router[p].interfaces[i], ms)]]
  /\ UNCHANGED << host, queue, wire, said, heard >>

-------------------------------------------------------------------------------
(* The internet: it loses a frame, damages a datagram, or hands on one from *)
(* a stranger.                                                             *)

Flip(n) == IF n % 2 = 0 THEN n + 1 ELSE n - 1
Fields == { "src", "dst", "ttl", "src_port", "dst_port", "number" }
Damaged(d, field) ==
  IF field = "number" THEN [d EXCEPT !.message.number = Flip(@)]
  ELSE [d EXCEPT ![field] = Flip(@)]

Lose(p) ==
  /\ wire[p].internet # << >>
  /\ wire' = [wire EXCEPT ![p].internet = Tail(@)]
  /\ UNCHANGED << host, router, queue, said, heard >>

Damage(p, field) ==
  /\ wire[p].internet # << >> /\ Head(wire[p].internet).type = "IPv4"
  /\ wire' = [wire EXCEPT ![p].internet =
       << [Head(@) EXCEPT !.payload = Damaged(@, field)] >> \o Tail(@)]
  /\ UNCHANGED << host, router, queue, said, heard >>

Stray(p, d) ==
  /\ wire' = [wire EXCEPT ![p].internet =
       Append(@, [ type |-> "IPv4", src |-> MacOf(d.src), dst |-> Broadcast, payload |-> d ])]
  /\ UNCHANGED << host, router, queue, said, heard >>

Next ==
  \E p \in Programs :
    \/ \E number \in Nat, SYN, RST \in BOOLEAN :
         HostWrites(p, [ from |-> p, number |-> number, SYN |-> SYN, RST |-> RST ])
    \/ HostReads(p)
    \/ \E i \in 1 .. 2 : RouterReceives(p, i) \/ RouterSends(p, i)
    \/ \E ms \in Nat : HostTick(p, ms) \/ RouterTick(p, ms)
    \/ Lose(p) \/ \E field \in Fields : Damage(p, field)
    \/ \E d \in Strays[p] : Stray(p, d)

Spec == Init /\ [][Next]_vars

-------------------------------------------------------------------------------
(* Properties *)

\* What a TCPPeer hears from the other program, that one said, word for word:
\* the checksums, over routers that rewrite the header's, let no damage through.
RightlyHeard ==
  \A p \in Programs : \A i \in DOMAIN heard[p] :
    heard[p][i].from \in Programs =>
      /\ heard[p][i].from # p
      /\ \E j \in DOMAIN said[heard[p][i].from] : said[heard[p][i].from][j] = heard[p][i]

\* A socket hears one program only, the one that it answers: not who else
\* sends to its port, before or after the connection is opened.
OneConversation ==
  \A p \in Programs : \A i \in DOMAIN heard[p] :
    heard[p][i].from = heard[p][1].from

\* Every message of the two programs in a sound datagram and segment, wherever
\* it is, as often as it is there.
Queued(queues) ==
  LET ips == SetToSeq(DOMAIN queues) IN FlattenSeq([i \in 1 .. Len(ips) |-> queues[ips[i]]])
Payloads(frames) ==
  LET ipv4 == SelectSeq(frames, LAMBDA f : f.type = "IPv4")
  IN  [i \in 1 .. Len(ipv4) |-> ipv4[i].payload]
Held(ni) == ni.datagrams_received \o Queued(ni.arp_pending_queue)
DatagramsIn(p) ==
  Held(host[p].interface) \o Held(router[p].interfaces[1]) \o Held(router[p].interfaces[2])
  \o Payloads(queue[p][1] \o queue[p][2] \o wire[p].host \o wire[p].router \o wire[p].internet)
Sound(d) == HeaderParses(d) /\ SegmentParses(d)
OfPrograms(messages) == SelectSeq(messages, LAMBDA m : m.from \in Programs)
MessagesIn(p) ==
  LET sound == SelectSeq(DatagramsIn(p), Sound)
  IN  OfPrograms(heard[p] \o [i \in 1 .. Len(sound) |-> sound[i].message])
Everywhere == Queued([p \in Programs |-> MessagesIn(p)])

\* Waiting for addresses, being forwarded, queued and filtered never doubles a
\* message: a retransmission is TCP's alone.
AtMostOneCopy ==
  LET all == Everywhere IN Cardinality(ToSet(all)) = Len(all)
=================================================================================
