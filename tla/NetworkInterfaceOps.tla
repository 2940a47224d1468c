-------------------------- MODULE NetworkInterfaceOps --------------------------
(***************************************************************************)
(* A NetworkInterface as a value (src/minnow/src/network_interface.hh) and *)
(* its methods (network_interface.cc).  A method that transmits has two    *)
(* operators: the interface it leaves, and the frames it hands to          *)
(* transmit(), in order.  A std::unordered_map is a function whose domain  *)
(* is the set of its keys.  Ethernet headers and ARP messages parse.        *)
(***************************************************************************)
EXTENDS Integers, Sequences

CONSTANTS Broadcast,   \* ETHERNET_BROADCAST
          CacheTTL,    \* 30000, how long a mapping is used
          RequestTTL,  \* 5000, how long an ARP request is waited for
          Parses(_)    \* whether a datagram's header parses

ASSUME TTLAssumption == CacheTTL \in Nat /\ RequestTTL \in Nat

NewInterface(ethernet_address, ip_address) ==
  [ ethernet_address |-> ethernet_address, ip_address |-> ip_address,
    datagrams_received |-> << >>, arp_cache |-> << >>, arp_timer |-> << >>,
    timestamp_ms |-> 0, arp_pending_queue |-> << >> ]

Put(map, key, value) ==
  [k \in DOMAIN map \cup {key} |-> IF k = key THEN value ELSE map[k]]
Erase(map, keys) == [k \in DOMAIN map \ keys |-> map[k]]

\* The frames, whose payload is a datagram or an ARP message.
IPv4Frame(ni, dst, dgram) ==
  [ type |-> "IPv4", src |-> ni.ethernet_address, dst |-> dst, payload |-> dgram ]
ARPFrame(ni, dst, opcode, target_ip) ==
  [ type |-> "ARP", src |-> ni.ethernet_address, dst |-> dst,
    payload |-> [ opcode |-> opcode, sender_ethernet_address |-> ni.ethernet_address,
                  sender_ip_address |-> ni.ip_address, target_ip_address |-> target_ip ] ]

-------------------------------------------------------------------------------
Known(ni, ip) == /\ ip \in DOMAIN ni.arp_cache
                 /\ ni.timestamp_ms - ni.arp_cache[ip].timestamp <= CacheTTL
\* A fault: the timer of the last request is not looked at.
AskedNever(ni, ip) == FALSE
Asked(ni, ip) == /\ ip \in DOMAIN ni.arp_timer
                 /\ ni.timestamp_ms - ni.arp_timer[ip] < RequestTTL

Pending(ni, ip) == IF ip \in DOMAIN ni.arp_pending_queue THEN ni.arp_pending_queue[ip] ELSE << >>

\* send_datagram: with the next hop's address unknown, the datagram waits, and
\* the address is asked for unless it was asked for lately.
SendDatagram(ni, dgram, next_hop) ==
  IF Known(ni, next_hop) THEN ni
  ELSE [ni EXCEPT !.arp_cache = Erase(@, {next_hop}),
                  !.arp_timer = IF Asked(ni, next_hop) THEN @
                                ELSE Put(@, next_hop, ni.timestamp_ms),
                  !.arp_pending_queue = Put(@, next_hop, Append(Pending(ni, next_hop), dgram))]

\* The request it transmits, if any, and the datagram, if it goes at once.
SendDatagramRequest(ni, next_hop) ==
  IF Known(ni, next_hop) \/ Asked(ni, next_hop) THEN << >>
  ELSE << ARPFrame(ni, Broadcast, "request", next_hop) >>
SendDatagramNow(ni, dgram, next_hop) ==
  IF Known(ni, next_hop)
  THEN << IPv4Frame(ni, ni.arp_cache[next_hop].ethernet_address, dgram) >>
  ELSE << >>
SendDatagramFrames(ni, dgram, next_hop) ==
  SendDatagramRequest(ni, next_hop) \o SendDatagramNow(ni, dgram, next_hop)

-------------------------------------------------------------------------------
\* recv_frame: what is sent to somebody else is ignored.  Every ARP message
\* teaches its sender's address and sends what waited for it.
\* A fault: the frame's destination is not looked at.
ForUsAlways(ni, frame) == TRUE
ForUs(ni, frame) == frame.dst \in {ni.ethernet_address, Broadcast}

\* Faults: an old mapping stays; the queue stays.
LearnOnce(ni, arp) ==
  LET entry == [ ethernet_address |-> arp.sender_ethernet_address, timestamp |-> ni.timestamp_ms ]
      kept == arp.sender_ip_address \in DOMAIN ni.arp_cache
  IN  [ni EXCEPT !.arp_cache = IF kept THEN @ ELSE Put(@, arp.sender_ip_address, entry),
                 !.arp_pending_queue = Erase(@, {arp.sender_ip_address})]
LearnOnly(ni, arp) ==
  [ni EXCEPT !.arp_cache = Put(@, arp.sender_ip_address,
                               [ ethernet_address |-> arp.sender_ethernet_address,
                                 timestamp |-> ni.timestamp_ms ])]

Learn(ni, arp) ==
  [ni EXCEPT !.arp_cache = Put(@, arp.sender_ip_address,
                               [ ethernet_address |-> arp.sender_ethernet_address,
                                 timestamp |-> ni.timestamp_ms ]),
             !.arp_pending_queue = Erase(@, {arp.sender_ip_address})]

RecvFrame(ni, frame) ==
  IF ~ForUs(ni, frame) THEN ni
  ELSE IF frame.type = "IPv4"
  THEN IF Parses(frame.payload) THEN [ni EXCEPT !.datagrams_received = Append(@, frame.payload)]
       ELSE ni
  ELSE Learn(ni, frame.payload)

\* The reply it transmits, if any, and then the datagrams that waited.
RecvFrameReply(ni, frame) ==
  LET arp == frame.payload IN
  IF /\ ForUs(ni, frame) /\ frame.type = "ARP"
     /\ arp.opcode = "request" /\ arp.target_ip_address = ni.ip_address
  THEN << ARPFrame(ni, arp.sender_ethernet_address, "reply", arp.sender_ip_address) >>
  ELSE << >>
RecvFrameReleased(ni, frame) ==
  LET arp == frame.payload
      waiting == Pending(ni, arp.sender_ip_address)
  IN  IF ForUs(ni, frame) /\ frame.type = "ARP"
      THEN [i \in 1 .. Len(waiting) |-> IPv4Frame(ni, arp.sender_ethernet_address, waiting[i])]
      ELSE << >>
RecvFrameFrames(ni, frame) == RecvFrameReply(ni, frame) \o RecvFrameReleased(ni, frame)

-------------------------------------------------------------------------------
\* A fault: off by one, a request of just RequestTTL is past its time.
InterfaceTickEarly(ni, ms) ==
  LET now == ni.timestamp_ms + ms IN
  [ni EXCEPT !.timestamp_ms = now,
             !.arp_cache = Erase(@, { ip \in DOMAIN @ : now - @[ip].timestamp > CacheTTL }),
             !.arp_pending_queue =
               Erase(@, { ip \in DOMAIN @ : /\ ip \in DOMAIN ni.arp_timer
                                            /\ now - ni.arp_timer[ip] >= RequestTTL })]

\* tick: mappings and waiting datagrams past their time are dropped.
InterfaceTick(ni, ms) ==
  LET now == ni.timestamp_ms + ms IN
  [ni EXCEPT !.timestamp_ms = now,
             !.arp_cache = Erase(@, { ip \in DOMAIN @ : now - @[ip].timestamp > CacheTTL }),
             !.arp_pending_queue =
               Erase(@, { ip \in DOMAIN @ : /\ ip \in DOMAIN ni.arp_timer
                                            /\ now - ni.arp_timer[ip] > RequestTTL })]
===============================================================================
