--------------------------- MODULE NetworkInterface ---------------------------
(***************************************************************************)
(* A NetworkInterface between an owner who sends datagrams to neighbours,  *)
(* a network that delivers any frame a neighbour may send, and the clock   *)
(* (src/minnow/src/network_interface.cc).  The n-th datagram for the next  *)
(* hop ip is the pair << ip, n >>.  given counts the datagrams handed to   *)
(* send_datagram, out are those transmitted, in order, wire the frames of  *)
(* the last call, heard the last mapping each neighbour made known, and    *)
(* requested when each address was last asked for.                         *)
(***************************************************************************)
EXTENDS NetworkInterfaceOps, SequencesExt

CONSTANTS OurMAC, OurIP,
          Neighbours,  \* the IP addresses of the neighbours
          MACs,        \* the Ethernet addresses they may have
          Ticks        \* the milliseconds between two ticks

ASSUME AddressesAssumption == /\ OurMAC \notin MACs \cup {Broadcast} /\ Broadcast \notin MACs
                              /\ OurIP \notin Neighbours
ASSUME TicksAssumption == Ticks \subseteq Nat \ {0}

VARIABLES ni, given, out, wire, heard, requested

vars == << ni, given, out, wire, heard, requested >>

Init == /\ ni = NewInterface(OurMAC, OurIP)
        /\ given = [ip \in Neighbours |-> 0]
        /\ out = << >>
        /\ wire = << >>
        /\ heard = << >>
        /\ requested = << >>

Sent(frames) == { f.payload : f \in { g \in ToSet(frames) : g.type = "IPv4" } }
Requests(frames) ==
  { f.payload.target_ip_address : f \in { g \in ToSet(frames) :
      g.type = "ARP" /\ g.payload.opcode = "request" } }

\* The call that leaves the interface as next transmits the ARP frames and then
\* the datagrams' frames.
Does(next, arp, ipv4) ==
  /\ ni' = next
  /\ wire' = arp \o ipv4
  /\ out' = out \o [i \in 1 .. Len(ipv4) |-> ipv4[i].payload]
  /\ requested' = [ip \in DOMAIN requested \cup Requests(arp) |->
                     IF ip \in Requests(arp) THEN ni.timestamp_ms ELSE requested[ip]]

OwnerSends(ip) ==
  LET dgram == << ip, given[ip] + 1 >> IN
  /\ Does(SendDatagram(ni, dgram, ip), SendDatagramRequest(ni, ip), SendDatagramNow(ni, dgram, ip))
  /\ given' = [given EXCEPT ![ip] = @ + 1]
  /\ UNCHANGED heard

\* An ARP message from a neighbour, to us, to all or to another, about any
\* address; the neighbour may have changed its Ethernet address.
ArpArrives(ip, mac, dst, opcode, target_ip) ==
  LET frame == [ type |-> "ARP", src |-> mac, dst |-> dst,
                 payload |-> [ opcode |-> opcode, sender_ethernet_address |-> mac,
                               sender_ip_address |-> ip, target_ip_address |-> target_ip ] ]
  IN  /\ Does(RecvFrame(ni, frame), RecvFrameReply(ni, frame), RecvFrameReleased(ni, frame))
      /\ heard' = IF dst \in {OurMAC, Broadcast}
                  THEN Put(heard, ip, << mac, ni.timestamp_ms >>) ELSE heard
      /\ UNCHANGED given

\* A datagram for us, the n-th, that may be damaged; the owner takes those that
\* were received.
DatagramArrives(mac, dst, n) ==
  LET frame == [ type |-> "IPv4", src |-> mac, dst |-> dst, payload |-> << OurIP, n >> ] IN
  /\ ni.datagrams_received = << >>
  /\ Does(RecvFrame(ni, frame), RecvFrameReply(ni, frame), RecvFrameReleased(ni, frame))
  /\ UNCHANGED << given, heard >>
OwnerTakes ==
  /\ ni.datagrams_received # << >>
  /\ Does([ni EXCEPT !.datagrams_received = Tail(@)], << >>, << >>)
  /\ UNCHANGED << given, heard >>

Tick(ms) == Does(InterfaceTick(ni, ms), << >>, << >>) /\ UNCHANGED << given, heard >>

Destinations == {OurMAC, Broadcast} \cup MACs

Next ==
  \/ \E ip \in Neighbours : OwnerSends(ip)
  \/ \E ip \in Neighbours, mac \in MACs, dst \in Destinations,
        opcode \in {"request", "reply"}, target_ip \in Neighbours \cup {OurIP} :
       ArpArrives(ip, mac, dst, opcode, target_ip)
  \/ \E mac \in MACs, dst \in Destinations, n \in Nat : DatagramArrives(mac, dst, n)
  \/ OwnerTakes
  \/ \E ms \in Ticks : Tick(ms)

Spec == Init /\ [][Next]_vars

-------------------------------------------------------------------------------
(* Properties *)

\* A datagram waits only while its next hop is unknown and was asked for, and
\* no longer after the request than RequestTTL: none is forgotten in the queue
\* when the answer comes or never comes (network_interface.hh, tick()).
WaitingIsJustified ==
  \A ip \in DOMAIN ni.arp_pending_queue :
    /\ ip \notin DOMAIN ni.arp_cache
    /\ ni.arp_pending_queue[ip] # << >>
    /\ ip \in DOMAIN requested
    /\ ni.timestamp_ms - requested[ip] <= RequestTTL

\* Two requests for the same address are at least RequestTTL apart, however
\* often the mapping is learned, changed, expired or asked for in between.
RequestsApart ==
  [][\A ip \in Requests(wire') \cap DOMAIN requested :
       ni.timestamp_ms - requested[ip] >= RequestTTL]_vars

\* A datagram leaves only to the Ethernet address that its next hop made known
\* last, and not later than CacheTTL after that.
SentWhereHeard ==
  \A i \in 1 .. Len(wire) :
    LET f == wire[i] IN
    f.type = "IPv4" => /\ f.payload[1] \in DOMAIN heard
                       /\ f.dst = heard[f.payload[1]][1]
                       /\ ni.timestamp_ms - heard[f.payload[1]][2] <= CacheTTL

\* The datagrams for a next hop leave in the order they were given, each at
\* most once, those that still wait after those that left.
InOrderOnce ==
  \A ip \in Neighbours :
    LET left == { i \in DOMAIN out : out[i][1] = ip }
        queue == Pending(ni, ip)
    IN  /\ \A i \in left : out[i][2] <= given[ip]
        /\ \A i, j \in left : i < j => out[i][2] < out[j][2]
        /\ \A j \in DOMAIN queue : /\ queue[j][2] <= given[ip]
                                   /\ \A i \in left : out[i][2] < queue[j][2]
        /\ \A i, j \in DOMAIN queue : i < j => queue[i][2] < queue[j][2]

\* A datagram that waits is sent or goes on waiting, whatever call is made, until
\* a tick finds its request more than RequestTTL old; one that is given is sent
\* or waits after the call: none is dropped while its answer may still come in
\* time (network_interface.cc:31-71, 155-177, 212-225).
DroppedOnlyLate ==
  [][\A ip \in Neighbours :
       LET now == ToSet(Pending(ni', ip)) \cup Sent(wire')
       IN  /\ given'[ip] > given[ip] => << ip, given'[ip] >> \in now
           /\ \/ ToSet(Pending(ni, ip)) \subseteq now
              \/ /\ ni'.timestamp_ms > ni.timestamp_ms
                 /\ ip \in DOMAIN requested
                 /\ ni'.timestamp_ms - requested[ip] > RequestTTL]_vars
===============================================================================
