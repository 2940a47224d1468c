------------------------------- MODULE RouterOps -------------------------------
(***************************************************************************)
(* A Router as a value (src/minnow/src/router.hh) and its methods          *)
(* (router.cc).  IP addresses are numbers of AddressBits bits (32).  A     *)
(* datagram is a record whose fields src, dst, ttl and cksum are the       *)
(* header's.                                                               *)
(***************************************************************************)
EXTENDS NetworkInterfaceOps, IPv4Ops, SequencesExt

CONSTANT AddressBits

ASSUME AddressBitsAssumption == AddressBits \in Nat

NewRouter == [ interfaces |-> << >>, routing_table |-> << >> ]

\* Interface numbers start at 0 in the code and at 1 here.
AddInterface(rt, ni) == [rt EXCEPT !.interfaces = Append(@, ni)]

\* A route's next hop is a sequence of at most one address (std::optional).
RouteEntry(route_prefix, prefix_length, next_hop, interface_num) ==
  [ route_prefix |-> route_prefix, prefix_length |-> prefix_length,
    next_hop |-> next_hop, interface_num |-> interface_num ]

AddRoute(rt, entry) == [rt EXCEPT !.routing_table = Append(@, entry)]

\* The high-order prefix_length bits agree, none of them for the default route.
Matches(entry, destination) ==
  LET low == 2 ^ (AddressBits - entry.prefix_length)
  IN  destination \div low = entry.route_prefix \div low

\* A fault: the last match is taken, however short its prefix.
FindBestRouteLast(rt, destination) ==
  FoldLeft(LAMBDA best, entry : IF Matches(entry, destination) THEN << entry >> ELSE best,
           << >>, rt.routing_table)

\* find_best_route: none, or the match with the longest prefix, of several the
\* one added last.
FindBestRoute(rt, destination) ==
  FoldLeft(LAMBDA best, entry :
             IF /\ Matches(entry, destination)
                /\ best # << >> => entry.prefix_length >= best[1].prefix_length
             THEN << entry >> ELSE best,
           << >>, rt.routing_table)

Outlives(dgram) == dgram.ttl > 1

\* A fault: the hop costs nothing.
HopFree(dgram) == dgram
Hop(dgram) == WithChecksum([dgram EXCEPT !.ttl = @ - 1])

\* The datagrams with a route and a TTL that outlives the hop are forwarded; an
\* interface that does not exist makes interface() throw, which ends route().
\* acc is the router, the frames sent as pairs of interface and frame, and
\* whether route() was thrown out of.
ForwardOne(acc, dgram) ==
  LET best == FindBestRoute(acc.router, dgram.dst)
      n == best[1].interface_num
      hop == IF best[1].next_hop # << >> THEN best[1].next_hop[1] ELSE dgram.dst
      next == Hop(dgram)
      frames == SendDatagramFrames(acc.router.interfaces[n], next, hop)
  IN  IF ~Outlives(dgram) \/ best = << >> THEN acc
      ELSE IF n \notin DOMAIN acc.router.interfaces THEN [acc EXCEPT !.thrown = TRUE]
      ELSE [acc EXCEPT !.router.interfaces[n] = SendDatagram(@, next, hop),
                       !.sends = @ \o [i \in 1 .. Len(frames) |-> << n, frames[i] >>]]

\* One turn of the inner loop on interface i.
RouteOne(acc, i) ==
  LET received == acc.router.interfaces[i].datagrams_received
      taken == [acc EXCEPT !.router.interfaces[i].datagrams_received = Tail(received)]
  IN  IF acc.thrown THEN acc ELSE ForwardOne(taken, Head(received))

\* route(): every interface's datagrams, interface by interface.  Forwarding
\* adds none, so each loop has as many turns as there are datagrams before.
RouteAll(rt) ==
  LET turns == FlattenSeq([i \in 1 .. Len(rt.interfaces) |->
                 [j \in 1 .. Len(rt.interfaces[i].datagrams_received) |-> i]])
  IN  FoldLeft(RouteOne, [ router |-> rt, sends |-> << >>, thrown |-> FALSE ], turns)
===============================================================================
