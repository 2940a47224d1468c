------------------------------- MODULE MCEndToEnd -------------------------------
(***************************************************************************)
(* Client and server open a connection: a SYN, an answer, a segment.  A    *)
(* TCPPeer that is not heard says it again when all is quiet and time has  *)
(* passed.  Addresses have four bits: the client's host is on 00xx, the    *)
(* internet 01xx, the server's host on 11xx.  Unlike the application's,    *)
(* the tables have default routes, each to the other router, so that what  *)
(* is sent to 10xx goes in a circle.                                       *)
(***************************************************************************)
EXTENDS EndToEnd

CONSTANTS MaxSaid,    \* messages of each program
          MaxWaits,   \* times that everybody waits until a request expires
          MaxFaults   \* frames lost, damaged or strange and clocks that run ahead

VARIABLES faults, waits

MCvars == << vars, faults, waits >>

MCPrograms == { "client", "server" }
MCOther == [client |-> "server", server |-> "client"]
MCHostIP == [client |-> 2, server |-> 13]
MCNextHop == [client |-> 1, server |-> 12]
MCInterfaces == [client |-> << 1, 4 >>, server |-> << 12, 5 >>]
\* The default routes come last, so that the longest prefix counts.
MCTables ==
  [client |-> << RouteEntry(0, 2, << >>, 1), RouteEntry(4, 2, << >>, 2),
                 RouteEntry(12, 2, << 5 >>, 2), RouteEntry(0, 0, << 5 >>, 2) >>,
   server |-> << RouteEntry(12, 2, << >>, 1), RouteEntry(4, 2, << >>, 2),
                 RouteEntry(0, 2, << 4 >>, 2), RouteEntry(0, 0, << 4 >>, 2) >>]

MCInit == Init /\ faults = 0 /\ waits = 0

\* A stranger opens a connection to the server, speaks for a host of the
\* client's or the server's address, or for nobody's.
Strange(SYN) == [ from |-> "stranger", number |-> 0, SYN |-> SYN, RST |-> FALSE ]
Sends(source, destination, SYN) ==
  Wrapped(NewAdapter(source, destination, FALSE), Strange(SYN), InitialTTL)
MCStrays == [p \in MCPrograms |->
  LET here == << MCHostIP[p], IF p = "client" THEN ClientPort ELSE ServerPort >>
  IN  { Sends(<< 6, 3 >>, here, TRUE), Sends(<< MCHostIP[MCOther[p]], 3 >>, here, FALSE),
        Sends(<< 6, 3 >>, << 8, 3 >>, TRUE) }]

Quiet == \A p \in Programs : /\ queue[p] = << << >>, << >> >>
                             /\ wire[p].host = << >> /\ wire[p].router = << >>
                             /\ wire[p].internet = << >>
Waiting(ni) == ni.arp_pending_queue # << >>
NobodyWaits == \A p \in Programs : /\ ~Waiting(host[p].interface)
                                   /\ \A i \in 1 .. 2 : ~Waiting(router[p].interfaces[i])

HeardFrom(p) == \E i \in DOMAIN heard[p] : heard[p][i].from = Other[p]
\* What p wants to say: the client its SYN, and a segment after the answer.
Opening(p) == p = "server" \/ ~HeardFrom(p)
Understood(p) == \E i \in DOMAIN heard[Other[p]] :
  heard[Other[p]][i].from = p /\ heard[Other[p]][i].SYN = Opening(p)
Said(p) == \E i \in DOMAIN said[p] : said[p][i].SYN = Opening(p)

MaySay(p) == /\ Len(said[p]) < MaxSaid
             /\ p = "server" => HeardFrom(p)
             /\ ~Said(p) \/ (Quiet /\ NobodyWaits /\ ~Understood(p))
Says(p) == MaySay(p) /\ HostWrites(p,
  [ from |-> p, number |-> 2 * Len(said[p]), SYN |-> Opening(p), RST |-> FALSE ])

\* Everybody's clock goes on, when nothing else does.
Late(ni) == InterfaceTick(ni, RequestTTL + 1)
Wait ==
  /\ Quiet /\ ~NobodyWaits
  /\ waits < MaxWaits /\ waits' = waits + 1
  /\ host' = [p \in Programs |-> [host[p] EXCEPT !.interface = Late(@)]]
  /\ router' = [p \in Programs |->
       [router[p] EXCEPT !.interfaces = [i \in 1 .. 2 |-> Late(router[p].interfaces[i])]]]
  /\ UNCHANGED << queue, wire, said, heard >>

Moves == \E p \in Programs :
  HostReads(p) \/ \E i \in 1 .. 2 : RouterReceives(p, i) \/ RouterSends(p, i)

Works == /\ \/ (Moves \/ \E p \in Programs : Says(p)) /\ UNCHANGED waits
            \/ Wait
         /\ UNCHANGED faults

\* Damage that is damaged again may look sound: the checksum is a sum.
GoesWrong ==
  /\ faults < MaxFaults /\ faults' = faults + 1
  /\ UNCHANGED waits
  /\ \E p \in Programs :
       \/ Lose(p)
       \/ \E field \in Fields : Damage(p, field) /\ Sound(Head(wire[p].internet).payload)
       \/ \E d \in Strays[p] : Stray(p, d)
       \/ HostTick(p, RequestTTL + 1) \/ RouterTick(p, RequestTTL + 1)

\* The threads' loops go on, and as each step uses up something, fairness to all
\* that can happen is enough: WF_MCvars(Works), written out.
Can == \/ ~Quiet
       \/ ~NobodyWaits /\ waits < MaxWaits
       \/ \E p \in Programs : MaySay(p) /\ ~host[p].adapter.listening
MCSpec == /\ MCInit /\ [][Works \/ GoesWrong]_MCvars
          /\ []<>~Can \/ []<><<faults' = faults>>_MCvars

\* What is said over and over is heard in the end, whatever single thing goes
\* wrong on the way, unless the server is taken by a stranger.
Taken == \E i \in DOMAIN heard["server"] : heard["server"][i].from = "stranger"
EventuallyHeard == <>[](Taken \/ \A p \in Programs : HeardFrom(p) /\ Understood(p))

\* Even with routes that go in a circle all traffic ends.
EventuallyQuiet == <>[]Quiet
=================================================================================
