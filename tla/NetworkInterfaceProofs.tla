------------------------ MODULE NetworkInterfaceProofs ------------------------
(***************************************************************************)
(* For every set of neighbours and addresses, both lifetimes and every     *)
(* sequence of calls: a NetworkInterface keeps the promises that           *)
(* NetworkInterface states.  None of them is inductive alone.  A datagram  *)
(* is released where its next hop was heard last because the cache repeats *)
(* what was heard (CacheIsHeard) and a queue holds only its own next hop's *)
(* datagrams (QueuesAreSorted); it overtakes none that waits because a     *)
(* queue and a mapping exclude each other (WaitingIsJustified), and that   *)
(* holds because the request timer tells when the request was transmitted  *)
(* (TimerIsRequest).                                                       *)
(***************************************************************************)
EXTENDS NetworkInterface, ValueLemmas

Datagram == Neighbours \X Nat
CacheEntry == [ethernet_address : MACs, timestamp : Nat]

\* An unordered_map from next hops to V.
IsMap(map, V) == DOMAIN map \subseteq Neighbours /\ map \in [DOMAIN map -> V]

TypeOK ==
  /\ ni \in [ ethernet_address : {OurMAC}, ip_address : {OurIP},
              datagrams_received : Seq({OurIP} \X Nat), arp_cache : {ni.arp_cache},
              arp_timer : {ni.arp_timer}, timestamp_ms : Nat,
              arp_pending_queue : {ni.arp_pending_queue} ]
  /\ IsMap(ni.arp_cache, CacheEntry)
  /\ IsMap(ni.arp_timer, Nat)
  /\ IsMap(ni.arp_pending_queue, Seq(Datagram))
  /\ given \in [Neighbours -> Nat]
  /\ out \in Seq(Datagram)
  /\ IsMap(heard, MACs \X Nat)

\* The timer of an address tells when its last request was transmitted.
TimerIsRequest == requested = ni.arp_timer

\* A mapping in the cache is the one its neighbour made known last.
CacheIsHeard ==
  \A ip \in DOMAIN ni.arp_cache :
    /\ ip \in DOMAIN heard
    /\ heard[ip] = << ni.arp_cache[ip].ethernet_address, ni.arp_cache[ip].timestamp >>
    /\ ni.timestamp_ms - ni.arp_cache[ip].timestamp <= CacheTTL

\* A datagram waits in the queue of its own next hop.
QueuesAreSorted ==
  \A ip \in DOMAIN ni.arp_pending_queue :
    \A j \in 1 .. Len(ni.arp_pending_queue[ip]) : ni.arp_pending_queue[ip][j][1] = ip

IInv == /\ TypeOK /\ TimerIsRequest /\ CacheIsHeard /\ QueuesAreSorted
        /\ WaitingIsJustified /\ SentWhereHeard /\ InOrderOnce

-----------------------------------------------------------------------------
(* What the operators return *)

\* Storing under a key, and erasing keys, leaves an unordered_map of the same type.
LEMMA MapsStayMaps ==
  ASSUME NEW V, NEW map, IsMap(map, V)
  PROVE  /\ \A key \in Neighbours : \A value \in V : IsMap(Put(map, key, value), V)
         /\ \A keys : IsMap(Erase(map, keys), V)
BY DEF IsMap, Put, Erase

-----------------------------------------------------------------------------
(* What a call transmits *)

ARPFrames ==
  [ type : {"ARP"}, src : {OurMAC}, dst : MACs \cup {Broadcast},
    payload : [ opcode : {"request", "reply"}, sender_ethernet_address : {OurMAC},
                sender_ip_address : {OurIP}, target_ip_address : Neighbours ] ]
IPv4Frames == [ type : {"IPv4"}, src : {OurMAC}, dst : MACs, payload : Datagram ]

\* What a call that transmits arp and then ipv4 leaves behind.
Effect(next, arp, ipv4) ==
  /\ ni' = next
  /\ DOMAIN wire' = 1 .. Len(wire')
  /\ ToSet(wire') = ToSet(arp) \cup ToSet(ipv4)
  /\ Sent(wire') = { ipv4[i].payload : i \in 1 .. Len(ipv4) }
  /\ Requests(wire') = Requests(arp)
  /\ out' \in Seq(Datagram)
  /\ Len(out') = Len(out) + Len(ipv4)
  /\ \A i \in 1 .. Len(out) : out'[i] = out[i]
  /\ \A i \in 1 .. Len(ipv4) : out'[Len(out) + i] = ipv4[i].payload
  /\ requested' = [ip \in DOMAIN requested \cup Requests(arp) |->
                      IF ip \in Requests(arp) THEN ni.timestamp_ms ELSE requested[ip]]

\* Each call does that, whatever frames of the two kinds it transmits.
LEMMA DoesEffect ==
  ASSUME TypeOK, NEW next,
         NEW arp \in Seq(ARPFrames), NEW ipv4 \in Seq(IPv4Frames), Does(next, arp, ipv4)
  PROVE  Effect(next, arp, ipv4)
<1>1. /\ ni' = next /\ wire' = arp \o ipv4
      /\ out' = out \o [i \in 1 .. Len(ipv4) |-> ipv4[i].payload]
      /\ requested' = [ip \in DOMAIN requested \cup Requests(arp) |->
                          IF ip \in Requests(arp) THEN ni.timestamp_ms ELSE requested[ip]]
  BY DEF Does
<1>2. /\ Len(ipv4) \in Nat /\ DOMAIN ipv4 = 1 .. Len(ipv4)
      /\ DOMAIN arp = 1 .. Len(arp)
      /\ \A i \in 1 .. Len(ipv4) : ipv4[i] \in IPv4Frames
      /\ \A i \in 1 .. Len(arp) : arp[i] \in ARPFrames
  BY LenProperties, ElementOfSeq
<1>3. ToSet(wire') = ToSet(arp) \cup ToSet(ipv4) /\ DOMAIN wire' = 1 .. Len(wire')
  <2> DEFINE Frames == ARPFrames \cup IPv4Frames
  <2>1. arp \in Seq(Frames) /\ ipv4 \in Seq(Frames)
    BY SeqMonotonic
  <2> HIDE DEF Frames
  <2>2. ToSet(arp \o ipv4) = ToSet(arp) \cup ToSet(ipv4)
    BY <2>1, ElementsOfConcat
  <2>3. DOMAIN (arp \o ipv4) = 1 .. Len(arp \o ipv4)
    BY <2>1, ConcatProperties, LenProperties
  <2> QED
    BY <1>1, <2>2, <2>3
<1>4. /\ \A f \in ToSet(arp) : f.type = "ARP"
      /\ \A f \in ToSet(ipv4) : f.type = "IPv4"
  BY <1>2 DEF ToSet, ARPFrames, IPv4Frames
<1>5. Sent(wire') = { ipv4[i].payload : i \in 1 .. Len(ipv4) }
  <2>1. { f \in ToSet(wire') : f.type = "IPv4" } = ToSet(ipv4)
    BY <1>3, <1>4
  <2> QED
    BY <2>1, <1>2 DEF Sent, ToSet
<1>6. Requests(wire') = Requests(arp)
  <2>1. { f \in ToSet(wire') : f.type = "ARP" /\ f.payload.opcode = "request" }
        = { f \in ToSet(arp) : f.type = "ARP" /\ f.payload.opcode = "request" }
    BY <1>3, <1>4
  <2> QED
    BY <2>1, Zenon DEF Requests
<1> DEFINE data == [i \in 1 .. Len(ipv4) |-> ipv4[i].payload]
<1>7. data \in Seq(Datagram) /\ Len(data) = Len(ipv4)
  <2>1. data \in [1 .. Len(ipv4) -> Datagram]
    BY <1>2 DEF IPv4Frames
  <2> HIDE DEF data
  <2> QED
    BY <1>2, <2>1, FunctionIsSeq
<1>8. \A i \in 1 .. Len(ipv4) : data[i] = ipv4[i].payload
  OBVIOUS
<1>9. out \in Seq(Datagram) /\ Len(out) \in Nat /\ out' = out \o data
  BY <1>1, LenProperties DEF TypeOK
<1> HIDE DEF data
<1>10. /\ out' \in Seq(Datagram)
       /\ Len(out') = Len(out) + Len(data)
       /\ \A i \in 1 .. Len(out) + Len(data) :
            out'[i] = IF i <= Len(out) THEN out[i] ELSE data[i - Len(out)]
  BY <1>7, <1>9, ConcatProperties, ZenonT(40)
<1>11. \A i \in 1 .. Len(out) : out'[i] = out[i]
  BY <1>2, <1>7, <1>9, <1>10
<1>12. \A i \in 1 .. Len(ipv4) : out'[Len(out) + i] = ipv4[i].payload
  <2> TAKE i \in 1 .. Len(ipv4)
  <2>1. out'[Len(out) + i] = data[Len(out) + i - Len(out)] /\ Len(out) + i - Len(out) = i
    BY <1>2, <1>7, <1>9, <1>10
  <2> QED
    BY <1>8, <2>1
<1> QED
  BY <1>1, <1>3, <1>5, <1>6, <1>7, <1>10, <1>11, <1>12 DEF Effect

\* A call that transmits nothing.
LEMMA QuietEffect ==
  ASSUME TypeOK, TimerIsRequest, NEW next, Does(next, << >>, << >>)
  PROVE  /\ ni' = next /\ out' = out /\ requested' = requested
         /\ ToSet(wire') = {} /\ Sent(wire') = {} /\ Requests(wire') = {} /\ wire' = << >>
<1> DEFINE none == << >>
<1>1. none \in Seq(ARPFrames) /\ none \in Seq(IPv4Frames) /\ Len(none) = 0
  BY EmptySeq
<1>2. ToSet(none) = {}
  BY DEF ToSet
<1>3. Requests(none) = {}
  BY <1>2 DEF Requests
<1>4. Does(next, none, none)
  OBVIOUS
<1>5. wire' = << >>
  BY <1>1, ConcatEmptySeq DEF Does
<1>6. out' = out
  <2>1. [i \in 1 .. Len(<< >>) |-> << >>[i].payload] = << >>
    OBVIOUS
  <2> QED
    BY <2>1, ConcatEmptySeq DEF Does, TypeOK
<1> HIDE DEF none
<1>6a. Effect(next, none, none)
  BY <1>1, <1>4, DoesEffect
<1>7. /\ ni' = next /\ ToSet(wire') = {} /\ Requests(wire') = {}
      /\ Sent(wire') = { none[i].payload : i \in 1 .. Len(none) }
      /\ requested' = [ip \in DOMAIN requested \cup {} |->
                          IF ip \in {} THEN ni.timestamp_ms ELSE requested[ip]]
  BY <1>2, <1>3, <1>6a DEF Effect
<1>8. Sent(wire') = {}
  BY <1>1, <1>7
<1>9. requested' = requested
  BY <1>7 DEF TypeOK, TimerIsRequest, IsMap
<1> QED
  BY <1>5, <1>6, <1>7, <1>8, <1>9

\* What waits for a next hop.
LEMMA PendingType ==
  ASSUME TypeOK, NEW ip \in Neighbours
  PROVE  /\ Pending(ni, ip) \in Seq(Datagram)
         /\ Len(Pending(ni, ip)) \in Nat
         /\ DOMAIN Pending(ni, ip) = 1 .. Len(Pending(ni, ip))
         /\ \A i \in 1 .. Len(Pending(ni, ip)) : Pending(ni, ip)[i] \in Datagram
<1>1. Pending(ni, ip) \in Seq(Datagram)
  BY EmptySeq DEF TypeOK, IsMap, Pending
<1> QED
  BY <1>1, LenProperties, ElementOfSeq

\* send_datagram() to a next hop whose address is known.
LEMMA SendsAtOnce ==
  ASSUME TypeOK, TimerIsRequest, NEW ip \in Neighbours, OwnerSends(ip), Known(ni, ip)
  PROVE  LET dgram == << ip, given[ip] + 1 >> IN
         /\ UNCHANGED << ni, heard, requested >>
         /\ given' = [given EXCEPT ![ip] = @ + 1]
         /\ DOMAIN wire' = 1 .. Len(wire')
         /\ ToSet(wire') = {IPv4Frame(ni, ni.arp_cache[ip].ethernet_address, dgram)}
         /\ Sent(wire') = {dgram} /\ Requests(wire') = {}
         /\ out' \in Seq(Datagram) /\ Len(out') = Len(out) + 1
         /\ \A i \in 1 .. Len(out) : out'[i] = out[i]
         /\ out'[Len(out) + 1] = dgram
<1> DEFINE dgram == << ip, given[ip] + 1 >>
           frame == IPv4Frame(ni, ni.arp_cache[ip].ethernet_address, dgram)
           none == << >>
           one == << frame >>
<1>1. /\ SendDatagram(ni, dgram, ip) = ni
      /\ SendDatagramRequest(ni, ip) = none
      /\ SendDatagramNow(ni, dgram, ip) = one
  BY DEF SendDatagram, SendDatagramRequest, SendDatagramNow
<1>2. /\ Does(ni, none, one)
      /\ given' = [given EXCEPT ![ip] = @ + 1] /\ heard' = heard
  BY <1>1 DEF OwnerSends
<1>3. frame \in IPv4Frames /\ frame.payload = dgram
  BY DEF IPv4Frame, IPv4Frames, TypeOK, IsMap, CacheEntry, Known, Datagram
<1> HIDE DEF frame
<1>4. /\ one \in Seq(IPv4Frames) /\ Len(one) = 1 /\ one[1] = frame
      /\ none \in Seq(ARPFrames)
  BY <1>3, EmptySeq
<1>5. ToSet(none) = {} /\ ToSet(one) = {frame}
  BY DEF ToSet
<1>6. Requests(none) = {}
  BY <1>5 DEF Requests
<1> HIDE DEF none, one
<1>6a. Effect(ni, none, one)
  BY <1>2, <1>4, DoesEffect
<1>7. /\ ni' = ni /\ ToSet(wire') = {} \cup {frame} /\ Requests(wire') = {}
      /\ DOMAIN wire' = 1 .. Len(wire')
      /\ Sent(wire') = { one[i].payload : i \in 1 .. 1 }
      /\ out' \in Seq(Datagram) /\ Len(out') = Len(out) + 1
      /\ \A i \in 1 .. Len(out) : out'[i] = out[i]
      /\ out'[Len(out) + 1] = one[1].payload
      /\ requested' = [p \in DOMAIN requested \cup {} |->
                          IF p \in {} THEN ni.timestamp_ms ELSE requested[p]]
  BY <1>4, <1>5, <1>6, <1>6a DEF Effect
<1>8. requested' = requested
  BY <1>7 DEF TypeOK, TimerIsRequest, IsMap
<1>9. Sent(wire') = {dgram}
  <2>1. { one[i].payload : i \in 1 .. 1 } = {one[1].payload}
    OBVIOUS
  <2> QED
    BY <1>3, <1>4, <1>7, <2>1, Zenon
<1> QED
  BY <1>2, <1>3, <1>4, <1>7, <1>8, <1>9 DEF frame

\* send_datagram() to a next hop whose address is not known.
LEMMA SendsLater ==
  ASSUME TypeOK, TimerIsRequest, NEW ip \in Neighbours, OwnerSends(ip), ~Known(ni, ip)
  PROVE  LET dgram == << ip, given[ip] + 1 >> IN
         /\ ni' = [ni EXCEPT !.arp_cache = Erase(@, {ip}),
                             !.arp_timer = IF Asked(ni, ip) THEN @
                                           ELSE Put(@, ip, ni.timestamp_ms),
                             !.arp_pending_queue = Put(@, ip, Append(Pending(ni, ip), dgram))]
         /\ given' = [given EXCEPT ![ip] = @ + 1] /\ heard' = heard
         /\ \A i \in 1 .. Len(wire') : wire'[i].type # "IPv4"
         /\ Sent(wire') = {} /\ out' = out
         /\ Requests(wire') = IF Asked(ni, ip) THEN {} ELSE {ip}
         /\ requested' = IF Asked(ni, ip) THEN requested
                         ELSE Put(requested, ip, ni.timestamp_ms)
<1> DEFINE dgram == << ip, given[ip] + 1 >>
           next == SendDatagram(ni, dgram, ip)
           arp == SendDatagramRequest(ni, ip)
           none == << >>
<1>1. /\ next = [ni EXCEPT !.arp_cache = Erase(@, {ip}),
                           !.arp_timer = IF Asked(ni, ip) THEN @
                                         ELSE Put(@, ip, ni.timestamp_ms),
                           !.arp_pending_queue = Put(@, ip, Append(Pending(ni, ip), dgram))]
      /\ SendDatagramNow(ni, dgram, ip) = none
  BY DEF SendDatagram, SendDatagramNow
<1>2. /\ Does(next, arp, none)
      /\ given' = [given EXCEPT ![ip] = @ + 1] /\ heard' = heard
  BY <1>1 DEF OwnerSends
<1>3. none \in Seq(IPv4Frames) /\ Len(none) = 0 /\ ToSet(none) = {}
  BY EmptySeq DEF ToSet
<1>4. arp \in Seq(ARPFrames) /\ Requests(arp) = IF Asked(ni, ip) THEN {} ELSE {ip}
  <2>1. CASE Asked(ni, ip)
    <3>1. arp = << >>
      BY <2>1 DEF SendDatagramRequest
    <3> QED
      BY <2>1, <3>1, EmptySeq DEF Requests, ToSet
  <2>2. CASE ~Asked(ni, ip)
    <3> DEFINE frame == ARPFrame(ni, Broadcast, "request", ip)
    <3>1. arp = << frame >>
      BY <2>2 DEF SendDatagramRequest
    <3>2. /\ frame \in ARPFrames /\ frame.type = "ARP"
          /\ frame.payload.opcode = "request" /\ frame.payload.target_ip_address = ip
      BY DEF ARPFrame, ARPFrames, TypeOK
    <3> HIDE DEF frame
    <3>3. arp \in Seq(ARPFrames) /\ ToSet(arp) = {frame}
      BY <3>1, <3>2 DEF ToSet
    <3> QED
      BY <2>2, <3>2, <3>3 DEF Requests
  <2> QED
    BY <2>1, <2>2
<1>5. out' = out
  <2>1. [i \in 1 .. Len(<< >>) |-> << >>[i].payload] = << >>
    OBVIOUS
  <2> QED
    BY <1>2, <2>1, ConcatEmptySeq DEF Does, TypeOK
<1> HIDE DEF next, arp, none
<1>5a. Effect(next, arp, none)
  BY <1>2, <1>3, <1>4, DoesEffect
<1>6. /\ ni' = next /\ ToSet(wire') = ToSet(arp) /\ Requests(wire') = Requests(arp)
      /\ DOMAIN wire' = 1 .. Len(wire')
      /\ Sent(wire') = { none[i].payload : i \in 1 .. Len(none) }
      /\ requested' = [p \in DOMAIN requested \cup Requests(arp) |->
                          IF p \in Requests(arp) THEN ni.timestamp_ms ELSE requested[p]]
  BY <1>3, <1>5a DEF Effect
<1>7. \A i \in 1 .. Len(wire') : wire'[i].type # "IPv4"
  <2>1. DOMAIN arp = 1 .. Len(arp) /\ \A i \in 1 .. Len(arp) : arp[i] \in ARPFrames
    BY <1>4, LenProperties, ElementOfSeq
  <2>2. \A f \in ToSet(arp) : f.type = "ARP"
    BY <2>1 DEF ToSet, ARPFrames
  <2> QED
    BY <1>6, <2>2 DEF ToSet
<1>8. Sent(wire') = {}
  BY <1>3, <1>6
<1>9. requested' = IF Asked(ni, ip) THEN requested ELSE Put(requested, ip, ni.timestamp_ms)
  BY <1>4, <1>6 DEF TypeOK, TimerIsRequest, IsMap, Put
<1> QED
  BY <1>1, <1>2, <1>4, <1>5, <1>6, <1>7, <1>8, <1>9

\* The interface hears that ip has the address mac: what waited for it leaves.
Hears(ip, mac) ==
  LET queue == Pending(ni, ip) IN
  /\ ni' = [ni EXCEPT
              !.arp_cache = Put(@, ip, [ ethernet_address |-> mac, timestamp |-> ni.timestamp_ms ]),
              !.arp_pending_queue = Erase(@, {ip})]
  /\ heard' = Put(heard, ip, << mac, ni.timestamp_ms >>)
  /\ given' = given /\ requested' = requested
  /\ \A i \in 1 .. Len(wire') :
       wire'[i].type = "IPv4" => wire'[i].dst = mac /\ wire'[i].payload \in ToSet(queue)
  /\ Sent(wire') = ToSet(queue) /\ Requests(wire') = {}
  /\ out' \in Seq(Datagram) /\ Len(out') = Len(out) + Len(queue)
  /\ \A i \in 1 .. Len(out) : out'[i] = out[i]
  /\ \A i \in 1 .. Len(queue) : out'[Len(out) + i] = queue[i]

\* It does, of every ARP message to us or to all.
LEMMA ArpIsHeard ==
  ASSUME TypeOK, TimerIsRequest, NEW ip \in Neighbours, NEW mac \in MACs,
         NEW dst \in {OurMAC, Broadcast}, NEW opcode \in {"request", "reply"},
         NEW target_ip \in Neighbours \cup {OurIP},
         ArpArrives(ip, mac, dst, opcode, target_ip)
  PROVE  Hears(ip, mac)
<1> DEFINE queue == Pending(ni, ip)
           payload == [ opcode |-> opcode, sender_ethernet_address |-> mac,
                        sender_ip_address |-> ip, target_ip_address |-> target_ip ]
           frame == [ type |-> "ARP", src |-> mac, dst |-> dst, payload |-> payload ]
           next == RecvFrame(ni, frame)
           arp == RecvFrameReply(ni, frame)
           ipv4 == RecvFrameReleased(ni, frame)
<1>1. ni.ethernet_address = OurMAC /\ ni.ip_address = OurIP
  BY DEF TypeOK
<1>2. /\ Does(next, arp, ipv4) /\ given' = given
      /\ heard' = Put(heard, ip, << mac, ni.timestamp_ms >>)
  BY DEF ArpArrives
<1>3. ForUs(ni, frame) /\ frame.type = "ARP" /\ frame.payload = payload
  BY <1>1 DEF ForUs
<1>4. next = [ni EXCEPT
                !.arp_cache = Put(@, ip, [ ethernet_address |-> mac,
                                           timestamp |-> ni.timestamp_ms ]),
                !.arp_pending_queue = Erase(@, {ip})]
  <2>1. next = Learn(ni, payload)
    BY <1>3 DEF RecvFrame
  <2> QED
    BY <2>1 DEF Learn
<1>5. arp \in Seq(ARPFrames) /\ Requests(arp) = {}
  <2> DEFINE reply == ARPFrame(ni, mac, "reply", ip)
  <2>1. arp = << >> \/ arp = << reply >>
    BY <1>3 DEF RecvFrameReply
  <2>2. reply \in ARPFrames /\ reply.payload.opcode = "reply"
    BY <1>1 DEF ARPFrame, ARPFrames
  <2> HIDE DEF reply, arp
  <2>3. arp \in Seq(ARPFrames)
    <3>1. << >> \in Seq(ARPFrames)
      BY EmptySeq
    <3>2. << reply >> \in Seq(ARPFrames)
      BY <2>2
    <3> QED
      BY <2>1, <3>1, <3>2
  <2>4. \A f \in ToSet(arp) : f = reply
    BY <2>1 DEF ToSet
  <2> QED
    BY <2>2, <2>3, <2>4 DEF Requests
<1>6. /\ queue \in Seq(Datagram) /\ Len(queue) \in Nat /\ DOMAIN queue = 1 .. Len(queue)
      /\ \A i \in 1 .. Len(queue) : queue[i] \in Datagram
  BY PendingType
<1>7. ipv4 = [i \in 1 .. Len(queue) |-> IPv4Frame(ni, mac, queue[i])]
  BY <1>3 DEF RecvFrameReleased
<1>8. ipv4 \in Seq(IPv4Frames) /\ Len(ipv4) = Len(queue)
  <2>1. \A i \in 1 .. Len(queue) : IPv4Frame(ni, mac, queue[i]) \in IPv4Frames
    BY <1>1, <1>6 DEF IPv4Frame, IPv4Frames
  <2> HIDE DEF queue, ipv4
  <2>2. ipv4 \in [1 .. Len(queue) -> IPv4Frames]
    BY <1>7, <2>1
  <2> QED
    BY <1>6, <2>2, FunctionIsSeq
<1> HIDE DEF next, arp, ipv4, queue, frame, payload
<1>9. /\ \A i \in 1 .. Len(queue) : ipv4[i].payload = queue[i] /\ ipv4[i].dst = mac
      /\ DOMAIN ipv4 = 1 .. Len(queue)
  BY <1>7 DEF IPv4Frame
<1>10. Effect(next, arp, ipv4)
  BY <1>2, <1>5, <1>8, DoesEffect
<1>11. Sent(wire') = ToSet(queue)
  <2>1. Sent(wire') = { ipv4[i].payload : i \in 1 .. Len(queue) }
    BY <1>8, <1>10 DEF Effect
  <2> QED
    BY <1>6, <1>9, <2>1 DEF ToSet
<1>12. requested' = requested
  <2>1. requested' = [p \in DOMAIN requested \cup {} |->
                        IF p \in {} THEN ni.timestamp_ms ELSE requested[p]]
    BY <1>5, <1>10 DEF Effect
  <2> QED
    BY <2>1 DEF TypeOK, TimerIsRequest, IsMap
<1>13. \A i \in 1 .. Len(wire') :
         wire'[i].type = "IPv4" => wire'[i].dst = mac /\ wire'[i].payload \in ToSet(queue)
  <2>1. \A f \in ToSet(wire') : f \in ToSet(arp) \/ f \in ToSet(ipv4)
    BY <1>10 DEF Effect
  <2>2. DOMAIN arp = 1 .. Len(arp) /\ \A i \in 1 .. Len(arp) : arp[i] \in ARPFrames
    BY <1>5, LenProperties, ElementOfSeq
  <2>3. \A f \in ToSet(arp) : f.type = "ARP"
    BY <2>2 DEF ToSet, ARPFrames
  <2>4. \A f \in ToSet(ipv4) : f.dst = mac /\ f.payload \in ToSet(queue)
    BY <1>6, <1>9 DEF ToSet
  <2>5. \A i \in 1 .. Len(wire') : wire'[i] \in ToSet(wire')
    BY <1>10 DEF Effect, ToSet
  <2> QED
    BY <2>1, <2>3, <2>4, <2>5
<1>14. /\ ni' = next /\ Requests(wire') = {}
       /\ out' \in Seq(Datagram) /\ Len(out') = Len(out) + Len(queue)
       /\ \A i \in 1 .. Len(out) : out'[i] = out[i]
       /\ \A i \in 1 .. Len(queue) : out'[Len(out) + i] = queue[i]
  BY <1>5, <1>8, <1>9, <1>10 DEF Effect
<1> QED
  BY <1>2, <1>4, <1>11, <1>12, <1>13, <1>14 DEF Hears, queue

\* An ARP message that is not for us changes nothing.
LEMMA ArpIsIgnored ==
  ASSUME TypeOK, TimerIsRequest, NEW ip \in Neighbours, NEW mac \in MACs,
         NEW dst, dst \notin {OurMAC, Broadcast}, NEW opcode, NEW target_ip,
         ArpArrives(ip, mac, dst, opcode, target_ip)
  PROVE  /\ UNCHANGED << ni, given, out, heard, requested >>
         /\ wire' = << >> /\ Sent(wire') = {} /\ Requests(wire') = {}
<1> DEFINE frame == [ type |-> "ARP", src |-> mac, dst |-> dst,
                      payload |-> [ opcode |-> opcode, sender_ethernet_address |-> mac,
                                    sender_ip_address |-> ip,
                                    target_ip_address |-> target_ip ] ]
<1>1. ~ForUs(ni, frame)
  BY DEF ForUs, TypeOK
<1>2. /\ RecvFrame(ni, frame) = ni
      /\ RecvFrameReply(ni, frame) = << >> /\ RecvFrameReleased(ni, frame) = << >>
  BY <1>1 DEF RecvFrame, RecvFrameReply, RecvFrameReleased
<1>3. Does(ni, << >>, << >>) /\ given' = given /\ heard' = heard
  BY <1>2 DEF ArpArrives
<1> QED
  BY <1>3, QuietEffect

\* A datagram or something that is not for us: the owner finds one more, or not.
LEMMA DatagramOnly ==
  ASSUME TypeOK, TimerIsRequest, NEW mac \in MACs, NEW dst, NEW n \in Nat,
         DatagramArrives(mac, dst, n)
  PROVE  /\ \E data \in Seq({OurIP} \X Nat) : ni' = [ni EXCEPT !.datagrams_received = data]
         /\ UNCHANGED << given, out, heard, requested >>
         /\ wire' = << >> /\ Sent(wire') = {} /\ Requests(wire') = {}
<1> DEFINE frame == [ type |-> "IPv4", src |-> mac, dst |-> dst, payload |-> << OurIP, n >> ]
           next == RecvFrame(ni, frame)
<1>1. RecvFrameReply(ni, frame) = << >> /\ RecvFrameReleased(ni, frame) = << >>
  BY DEF RecvFrameReply, RecvFrameReleased
<1>2. Does(next, << >>, << >>) /\ given' = given /\ heard' = heard
  BY <1>1 DEF DatagramArrives
<1>3. \E data \in Seq({OurIP} \X Nat) : next = [ni EXCEPT !.datagrams_received = data]
  <2> DEFINE longer == Append(ni.datagrams_received, << OurIP, n >>)
  <2>1. next = ni \/ next = [ni EXCEPT !.datagrams_received = longer]
    BY DEF RecvFrame
  <2>2. longer \in Seq({OurIP} \X Nat)
    BY AppendProperties DEF TypeOK
  <2>3. ni = [ni EXCEPT !.datagrams_received = ni.datagrams_received]
    BY DEF TypeOK
  <2> HIDE DEF longer, next
  <2> QED
    BY <2>1, <2>2, <2>3 DEF TypeOK
<1> HIDE DEF next
<1> QED
  BY <1>2, <1>3, QuietEffect

\* The owner takes the datagram that was received.
LEMMA TakesOnly ==
  ASSUME TypeOK, TimerIsRequest, OwnerTakes
  PROVE  /\ \E data \in Seq({OurIP} \X Nat) : ni' = [ni EXCEPT !.datagrams_received = data]
         /\ UNCHANGED << given, out, heard, requested >>
         /\ wire' = << >> /\ Sent(wire') = {} /\ Requests(wire') = {}
<1> DEFINE next == [ni EXCEPT !.datagrams_received = Tail(@)]
<1>1. Does(next, << >>, << >>) /\ given' = given /\ heard' = heard
  BY DEF OwnerTakes
<1>2. Tail(ni.datagrams_received) \in Seq({OurIP} \X Nat)
  BY HeadTailProperties DEF TypeOK, OwnerTakes
<1> HIDE DEF next
<1> QED
  BY <1>1, <1>2, QuietEffect DEF next

\* tick() transmits nothing.
LEMMA TickOnly ==
  ASSUME TypeOK, TimerIsRequest, NEW ms \in Ticks, Tick(ms)
  PROVE  /\ ni' = InterfaceTick(ni, ms)
         /\ UNCHANGED << given, out, heard, requested >>
         /\ wire' = << >> /\ Sent(wire') = {} /\ Requests(wire') = {}
BY QuietEffect DEF Tick

-----------------------------------------------------------------------------
(* The inductive invariant *)

\* The constructor makes an empty interface (network_interface.hh:86-119).
LEMMA InitIInv == Init => IInv
<1> SUFFICES ASSUME Init PROVE IInv
  OBVIOUS
<1> DEFINE none == << >>
<1>1. /\ ni = [ ethernet_address |-> OurMAC, ip_address |-> OurIP,
                datagrams_received |-> none, arp_cache |-> none, arp_timer |-> none,
                timestamp_ms |-> 0, arp_pending_queue |-> none ]
      /\ given = [ip \in Neighbours |-> 0]
      /\ out = none /\ wire = none /\ heard = none /\ requested = none
  BY DEF Init, NewInterface
<1>2. DOMAIN none = {} /\ Len(none) = 0 /\ \A S : none \in Seq(S)
  BY EmptySeq
<1>3. \A V : IsMap(none, V)
  BY <1>2 DEF IsMap
<1> HIDE DEF none
<1>4. TypeOK
  BY <1>1, <1>2, <1>3 DEF TypeOK
<1>5. TimerIsRequest /\ CacheIsHeard /\ QueuesAreSorted /\ WaitingIsJustified
  BY <1>1, <1>2 DEF TimerIsRequest, CacheIsHeard, QueuesAreSorted, WaitingIsJustified
<1>6. SentWhereHeard
  BY <1>1, <1>2 DEF SentWhereHeard
<1>7. InOrderOnce
  <2>1. \A ip \in Neighbours : Pending(ni, ip) = << >>
    BY <1>1, <1>2 DEF Pending
  <2> QED
    BY <1>1, <1>2, <2>1 DEF InOrderOnce
<1> QED
  BY <1>4, <1>5, <1>6, <1>7 DEF IInv

\* What only the owner of the interface sees leaves the promises alone.
LEMMA DatagramsKeepIInv ==
  ASSUME IInv, NEW data \in Seq({OurIP} \X Nat),
         ni' = [ni EXCEPT !.datagrams_received = data],
         UNCHANGED << given, out, heard, requested >>, wire' = << >>
  PROVE  IInv'
<1>1. /\ ni'.arp_cache = ni.arp_cache /\ ni'.arp_timer = ni.arp_timer
      /\ ni'.timestamp_ms = ni.timestamp_ms
      /\ ni'.arp_pending_queue = ni.arp_pending_queue
      /\ ni'.datagrams_received = data
  BY DEF IInv, TypeOK
<1>2. TypeOK'
  <2>1. ni' \in [ ethernet_address : {OurMAC}, ip_address : {OurIP},
                  datagrams_received : Seq({OurIP} \X Nat), arp_cache : {ni.arp_cache},
                  arp_timer : {ni.arp_timer}, timestamp_ms : Nat,
                  arp_pending_queue : {ni.arp_pending_queue} ]
    BY DEF IInv, TypeOK
  <2> QED
    BY <1>1, <2>1, Zenon DEF IInv, TypeOK
<1>3. TimerIsRequest' /\ CacheIsHeard' /\ QueuesAreSorted' /\ WaitingIsJustified'
  BY <1>1 DEF IInv, TimerIsRequest, CacheIsHeard, QueuesAreSorted, WaitingIsJustified
<1>4. SentWhereHeard'
  BY DEF SentWhereHeard
<1>5. InOrderOnce'
  <2>1. \A ip : Pending(ni', ip) = Pending(ni, ip)
    BY <1>1 DEF Pending
  <2> QED
    BY <2>1 DEF IInv, InOrderOnce
<1> QED
  BY <1>2, <1>3, <1>4, <1>5 DEF IInv

\* send_datagram() keeps the promises when the address is known: nothing waits.
LEMMA SendsAtOnceKeepsIInv ==
  ASSUME IInv, NEW ip \in Neighbours, OwnerSends(ip), Known(ni, ip)
  PROVE  IInv'
<1> DEFINE dgram == << ip, given[ip] + 1 >>
           frame == IPv4Frame(ni, ni.arp_cache[ip].ethernet_address, dgram)
<1>1. /\ ni' = ni /\ heard' = heard /\ requested' = requested
      /\ given' = [given EXCEPT ![ip] = @ + 1]
      /\ DOMAIN wire' = 1 .. Len(wire') /\ ToSet(wire') = {frame}
      /\ out' \in Seq(Datagram) /\ Len(out') = Len(out) + 1
      /\ \A i \in 1 .. Len(out) : out'[i] = out[i]
      /\ out'[Len(out) + 1] = dgram
  BY SendsAtOnce DEF IInv
<1>2. ip \in DOMAIN ni.arp_cache /\ ip \notin DOMAIN ni.arp_pending_queue
  BY DEF Known, IInv, WaitingIsJustified
<1>3. given \in [Neighbours -> Nat] /\ given[ip] \in Nat
  BY DEF IInv, TypeOK
<1>4. TypeOK'
  BY <1>1, <1>3 DEF IInv, TypeOK
<1>5. TimerIsRequest' /\ CacheIsHeard' /\ QueuesAreSorted' /\ WaitingIsJustified'
  BY <1>1 DEF IInv, TimerIsRequest, CacheIsHeard, QueuesAreSorted, WaitingIsJustified
<1>6. SentWhereHeard'
  <2>1. /\ frame.payload[1] = ip
        /\ frame.dst = ni.arp_cache[ip].ethernet_address
    BY DEF IPv4Frame
  <2> HIDE DEF frame
  <2>2. \A i \in 1 .. Len(wire') : wire'[i] = frame
    BY <1>1 DEF ToSet
  <2>3. /\ ip \in DOMAIN heard
        /\ heard[ip] = << ni.arp_cache[ip].ethernet_address, ni.arp_cache[ip].timestamp >>
        /\ ni.timestamp_ms - ni.arp_cache[ip].timestamp <= CacheTTL
    BY <1>2 DEF IInv, CacheIsHeard
  <2> QED
    BY <1>1, <2>1, <2>2, <2>3 DEF SentWhereHeard
<1>7. InOrderOnce'
  <2>1. Len(out) \in Nat /\ DOMAIN out = 1 .. Len(out) /\ DOMAIN out' = 1 .. Len(out) + 1
    BY <1>1, LenProperties DEF IInv, TypeOK
  <2>2. Pending(ni, ip) = << >>
    BY <1>2 DEF Pending
  <2>3. \A i \in 1 .. Len(out) : out[i] \in Datagram
    BY ElementOfSeq DEF IInv, TypeOK
  <2> SUFFICES ASSUME NEW p \in Neighbours
               PROVE  LET left == { i \in 1 .. Len(out) + 1 : out'[i][1] = p }
                          queue == Pending(ni, p)
                      IN  /\ \A i \in left : out'[i][2] <= given'[p]
                          /\ \A i, j \in left : i < j => out'[i][2] < out'[j][2]
                          /\ \A j \in DOMAIN queue :
                               /\ queue[j][2] <= given'[p]
                               /\ \A i \in left : out'[i][2] < queue[j][2]
                          /\ \A i, j \in DOMAIN queue : i < j => queue[i][2] < queue[j][2]
    BY <1>1, <2>1 DEF InOrderOnce
  <2>4. LET left == { i \in 1 .. Len(out) : out[i][1] = p }
            queue == Pending(ni, p)
        IN  /\ \A i \in left : out[i][2] <= given[p]
            /\ \A i, j \in left : i < j => out[i][2] < out[j][2]
            /\ \A j \in DOMAIN queue : /\ queue[j][2] <= given[p]
                                       /\ \A i \in left : out[i][2] < queue[j][2]
            /\ \A i, j \in DOMAIN queue : i < j => queue[i][2] < queue[j][2]
    BY <2>1 DEF IInv, InOrderOnce
  <2>5. CASE p = ip
    <3>1. out'[Len(out) + 1][2] = given[ip] + 1 /\ given'[ip] = given[ip] + 1
      BY <1>1, <1>3
    <3>2. \A i \in 1 .. Len(out) : out[i][2] \in Nat
      BY <2>3 DEF Datagram
    <3>3. DOMAIN Pending(ni, p) = {}
      BY <2>2, <2>5
    <3>4. \A i \in 1 .. Len(out) + 1 :
            out'[i][1] = p => \/ i = Len(out) + 1
                              \/ i \in 1 .. Len(out) /\ out'[i] = out[i] /\ out[i][1] = p
      BY <1>1, <2>1
    <3>5. \A i \in 1 .. Len(out) + 1 : out'[i][1] = p => out'[i][2] <= given'[p]
      BY <1>3, <2>4, <2>5, <3>1, <3>2, <3>4
    <3>6. \A i, j \in 1 .. Len(out) + 1 :
            out'[i][1] = p /\ out'[j][1] = p /\ i < j => out'[i][2] < out'[j][2]
      BY <1>3, <2>1, <2>4, <2>5, <3>1, <3>2, <3>4
    <3> QED
      BY <3>3, <3>5, <3>6
  <2>6. CASE p # ip
    <3>1. out'[Len(out) + 1][1] # p /\ given'[p] = given[p]
      BY <1>1, <1>3, <2>6
    <3>2. { i \in 1 .. Len(out) + 1 : out'[i][1] = p } = { i \in 1 .. Len(out) : out[i][1] = p }
      BY <1>1, <2>1, <3>1
    <3> QED
      BY <1>1, <2>4, <3>1, <3>2
  <2> QED
    BY <2>5, <2>6
<1> QED
  BY <1>4, <1>5, <1>6, <1>7 DEF IInv

\* send_datagram() keeps the promises when the address is not known.
LEMMA SendsLaterKeepsIInv ==
  ASSUME IInv, NEW ip \in Neighbours, OwnerSends(ip), ~Known(ni, ip)
  PROVE  IInv'
<1> DEFINE dgram == << ip, given[ip] + 1 >>
           queue == Pending(ni, ip)
           longer == Append(queue, dgram)
           timers == IF Asked(ni, ip) THEN ni.arp_timer
                     ELSE Put(ni.arp_timer, ip, ni.timestamp_ms)
<1>1. /\ ni' = [ni EXCEPT !.arp_cache = Erase(@, {ip}), !.arp_timer = timers,
                          !.arp_pending_queue = Put(@, ip, longer)]
      /\ given' = [given EXCEPT ![ip] = @ + 1] /\ heard' = heard /\ out' = out
      /\ \A i \in 1 .. Len(wire') : wire'[i].type # "IPv4"
      /\ requested' = timers
  BY SendsLater DEF IInv, TypeOK, TimerIsRequest
<1>2. /\ given \in [Neighbours -> Nat] /\ given[ip] \in Nat /\ dgram \in Datagram
      /\ given'[ip] = given[ip] + 1 /\ \A p \in Neighbours \ {ip} : given'[p] = given[p]
  BY <1>1 DEF IInv, TypeOK, Datagram
<1>3. /\ queue \in Seq(Datagram) /\ Len(queue) \in Nat
      /\ \A i \in 1 .. Len(queue) : queue[i] \in Datagram
      /\ DOMAIN queue = 1 .. Len(queue)
  BY PendingType DEF IInv
<1> HIDE DEF queue
<1>4. /\ longer \in Seq(Datagram) /\ Len(longer) = Len(queue) + 1
      /\ \A i \in 1 .. Len(queue) : longer[i] = queue[i]
      /\ longer[Len(queue) + 1] = dgram
      /\ DOMAIN longer = 1 .. Len(queue) + 1
  BY <1>2, <1>3, AppendProperties, LenProperties
<1> HIDE DEF longer
<1>5. /\ ni'.arp_cache = Erase(ni.arp_cache, {ip}) /\ ni'.arp_timer = timers
      /\ ni'.arp_pending_queue = Put(ni.arp_pending_queue, ip, longer)
      /\ ni'.timestamp_ms = ni.timestamp_ms
  BY <1>1 DEF IInv, TypeOK
<1>6. /\ IsMap(ni'.arp_cache, CacheEntry)
      /\ DOMAIN ni'.arp_cache = DOMAIN ni.arp_cache \ {ip}
      /\ \A p \in DOMAIN ni'.arp_cache : ni'.arp_cache[p] = ni.arp_cache[p]
  <2>1. IsMap(ni.arp_cache, CacheEntry)
    BY DEF IInv, TypeOK
  <2> DEFINE after == Erase(ni.arp_cache, {ip})
  <2>2. /\ IsMap(after, CacheEntry)
        /\ DOMAIN after = DOMAIN ni.arp_cache \ {ip}
        /\ \A p \in DOMAIN ni.arp_cache \ {ip} : after[p] = ni.arp_cache[p]
    BY <2>1, MapsStayMaps DEF Erase
  <2> QED
    BY <1>5, <2>2
<1>7. /\ IsMap(ni'.arp_pending_queue, Seq(Datagram))
      /\ DOMAIN ni'.arp_pending_queue = DOMAIN ni.arp_pending_queue \cup {ip}
      /\ ni'.arp_pending_queue[ip] = longer
      /\ \A p \in DOMAIN ni.arp_pending_queue :
           p # ip => ni'.arp_pending_queue[p] = ni.arp_pending_queue[p]
  <2>1. IsMap(ni.arp_pending_queue, Seq(Datagram))
    BY DEF IInv, TypeOK
  <2> DEFINE after == Put(ni.arp_pending_queue, ip, longer)
  <2>2. IsMap(after, Seq(Datagram))
    BY <1>4, <2>1, MapsStayMaps
  <2>3. /\ DOMAIN after = DOMAIN ni.arp_pending_queue \cup {ip}
        /\ after[ip] = longer
        /\ \A p \in DOMAIN ni.arp_pending_queue :
             p # ip => after[p] = ni.arp_pending_queue[p]
    BY DEF Put
  <2> QED
    BY <1>5, <2>2, <2>3
<1>8. /\ IsMap(timers, Nat)
      /\ ip \in DOMAIN timers /\ DOMAIN ni.arp_timer \subseteq DOMAIN timers
      /\ \A p \in DOMAIN ni.arp_timer : p # ip => timers[p] = ni.arp_timer[p]
      /\ ni.timestamp_ms - timers[ip] <= RequestTTL
  <2>1. /\ IsMap(ni.arp_timer, Nat) /\ ni.timestamp_ms \in Nat /\ RequestTTL \in Nat
    BY TTLAssumption DEF IInv, TypeOK
  <2>2. CASE Asked(ni, ip)
    BY <2>1, <2>2 DEF Asked, IsMap
  <2>3. CASE ~Asked(ni, ip)
    <3> DEFINE after == Put(ni.arp_timer, ip, ni.timestamp_ms)
    <3>1. IsMap(after, Nat)
      BY <2>1, MapsStayMaps
    <3>2. /\ DOMAIN after = DOMAIN ni.arp_timer \cup {ip}
          /\ after[ip] = ni.timestamp_ms
          /\ \A p \in DOMAIN ni.arp_timer : p # ip => after[p] = ni.arp_timer[p]
      BY DEF Put
    <3>3. timers = after
      BY <2>3
    <3> HIDE DEF after, timers
    <3> QED
      BY <2>1, <3>1, <3>2, <3>3
  <2> QED
    BY <2>2, <2>3
<1> HIDE DEF timers
<1>9. TypeOK'
  <2>1. ni' \in [ ethernet_address : {OurMAC}, ip_address : {OurIP},
                  datagrams_received : Seq({OurIP} \X Nat), arp_cache : {ni'.arp_cache},
                  arp_timer : {ni'.arp_timer}, timestamp_ms : Nat,
                  arp_pending_queue : {ni'.arp_pending_queue} ]
    BY <1>1 DEF IInv, TypeOK
  <2>2. given' \in [Neighbours -> Nat]
    BY <1>1, <1>2
  <2>3. IsMap(ni'.arp_timer, Nat)
    BY <1>5, <1>8
  <2>4. out' \in Seq(Datagram) /\ IsMap(heard', MACs \X Nat)
    BY <1>1 DEF IInv, TypeOK
  <2> QED
    BY <1>6, <1>7, <2>1, <2>2, <2>3, <2>4 DEF TypeOK
<1>10. TimerIsRequest'
  BY <1>1, <1>5 DEF TimerIsRequest
<1>11. CacheIsHeard'
  BY <1>1, <1>5, <1>6 DEF IInv, CacheIsHeard
<1>12. QueuesAreSorted'
  <2>1. \A j \in 1 .. Len(queue) : queue[j][1] = ip
    BY DEF queue, Pending, IInv, QueuesAreSorted
  <2>2. \A j \in 1 .. Len(longer) : longer[j][1] = ip
    BY <1>2, <1>3, <1>4, <2>1
  <2> QED
    BY <1>7, <2>2 DEF IInv, QueuesAreSorted
<1>13. WaitingIsJustified'
  <2>1. longer # << >>
    BY <1>3, <1>4
  <2> SUFFICES ASSUME NEW p \in DOMAIN ni'.arp_pending_queue
               PROVE  /\ p \notin DOMAIN ni'.arp_cache
                      /\ ni'.arp_pending_queue[p] # << >>
                      /\ p \in DOMAIN requested'
                      /\ ni'.timestamp_ms - requested'[p] <= RequestTTL
    BY DEF WaitingIsJustified
  <2>2. CASE p = ip
    BY <1>1, <1>5, <1>6, <1>7, <1>8, <2>1, <2>2
  <2>3. CASE p # ip
    <3>1. p \in DOMAIN ni.arp_pending_queue
      BY <1>7, <2>3
    <3>2. /\ p \notin DOMAIN ni.arp_cache /\ ni.arp_pending_queue[p] # << >>
          /\ p \in DOMAIN ni.arp_timer
          /\ ni.timestamp_ms - ni.arp_timer[p] <= RequestTTL
      BY <3>1 DEF IInv, WaitingIsJustified, TimerIsRequest
    <3> QED
      BY <1>1, <1>5, <1>6, <1>7, <1>8, <2>3, <3>1, <3>2
  <2> QED
    BY <2>2, <2>3
<1>14. SentWhereHeard'
  BY <1>1 DEF SentWhereHeard
<1>15. InOrderOnce'
  <2>1. Pending(ni', ip) = longer
    BY <1>7 DEF Pending
  <2>2. \A p \in Neighbours : p # ip => Pending(ni', p) = Pending(ni, p)
    BY <1>7 DEF Pending
  <2>3. /\ DOMAIN out = 1 .. Len(out) /\ Len(out) \in Nat
        /\ \A i \in 1 .. Len(out) : out[i] \in Datagram
    BY LenProperties, ElementOfSeq DEF IInv, TypeOK
  <2>4. \A i \in DOMAIN out : out[i][2] \in Nat
    BY <2>3 DEF Datagram
  <2>5. \A j \in 1 .. Len(queue) : queue[j][2] \in Nat
    BY <1>3 DEF Datagram
  <2>6. LET left == { i \in DOMAIN out : out[i][1] = ip }
        IN  /\ \A i \in left : out[i][2] <= given[ip]
            /\ \A i, j \in left : i < j => out[i][2] < out[j][2]
            /\ \A j \in 1 .. Len(queue) : /\ queue[j][2] <= given[ip]
                                          /\ \A i \in left : out[i][2] < queue[j][2]
            /\ \A i, j \in 1 .. Len(queue) : i < j => queue[i][2] < queue[j][2]
    BY <1>3 DEF IInv, InOrderOnce, queue
  <2> SUFFICES ASSUME NEW p \in Neighbours
               PROVE  LET left == { i \in DOMAIN out : out[i][1] = p }
                          after == Pending(ni', p)
                      IN  /\ \A i \in left : out[i][2] <= given'[p]
                          /\ \A i, j \in left : i < j => out[i][2] < out[j][2]
                          /\ \A j \in DOMAIN after :
                               /\ after[j][2] <= given'[p]
                               /\ \A i \in left : out[i][2] < after[j][2]
                          /\ \A i, j \in DOMAIN after : i < j => after[i][2] < after[j][2]
    BY <1>1 DEF InOrderOnce
  <2>7. CASE p = ip
    <3>1. \A j \in 1 .. Len(queue) + 1 :
            \/ j \in 1 .. Len(queue) /\ longer[j] = queue[j]
            \/ j = Len(queue) + 1 /\ longer[j][2] = given[ip] + 1
      BY <1>3, <1>4
    <3>2. \A i \in DOMAIN out : out[i][1] = ip => out[i][2] <= given[ip]
      BY <2>6
    <3>3. \A i \in DOMAIN out : out[i][1] = ip => out[i][2] <= given[ip] + 1
      BY <1>2, <2>4, <3>2
    <3>4. \A j \in 1 .. Len(queue) + 1 : longer[j][2] <= given[ip] + 1
      BY <1>2, <2>5, <2>6, <3>1
    <3>5. \A j \in 1 .. Len(queue) + 1 :
            \A i \in DOMAIN out : out[i][1] = ip => out[i][2] < longer[j][2]
      BY <1>2, <2>4, <2>5, <2>6, <3>1, <3>2
    <3>6. \A i, j \in 1 .. Len(queue) + 1 : i < j => longer[i][2] < longer[j][2]
      BY <1>2, <1>3, <2>5, <2>6, <3>1, SMTT(30)
    <3> QED
      BY <1>2, <1>4, <2>1, <2>6, <2>7, <3>3, <3>4, <3>5, <3>6
  <2>8. CASE p # ip
    BY <1>2, <2>2, <2>8 DEF IInv, InOrderOnce
  <2> QED
    BY <2>7, <2>8
<1> QED
  BY <1>9, <1>10, <1>11, <1>12, <1>13, <1>14, <1>15 DEF IInv

\* recv_frame() keeps the promises when it learns an address: what waited for
\* it follows what has left, in its order.
LEMMA ArpKeepsIInv ==
  ASSUME IInv, NEW ip \in Neighbours, NEW mac \in MACs,
         NEW dst \in {OurMAC, Broadcast}, NEW opcode \in {"request", "reply"},
         NEW target_ip \in Neighbours \cup {OurIP},
         ArpArrives(ip, mac, dst, opcode, target_ip)
  PROVE  IInv'
<1> DEFINE queue == Pending(ni, ip)
           entry == [ ethernet_address |-> mac, timestamp |-> ni.timestamp_ms ]
<1>1. /\ ni' = [ni EXCEPT !.arp_cache = Put(@, ip, entry),
                          !.arp_pending_queue = Erase(@, {ip})]
      /\ heard' = Put(heard, ip, << mac, ni.timestamp_ms >>)
      /\ given' = given /\ requested' = requested
      /\ \A i \in 1 .. Len(wire') :
           wire'[i].type = "IPv4" => wire'[i].dst = mac /\ wire'[i].payload \in ToSet(queue)
      /\ out' \in Seq(Datagram) /\ Len(out') = Len(out) + Len(queue)
      /\ \A i \in 1 .. Len(out) : out'[i] = out[i]
      /\ \A i \in 1 .. Len(queue) : out'[Len(out) + i] = queue[i]
  <2>1. Hears(ip, mac)
    BY ArpIsHeard DEF IInv
  <2> QED
    BY <2>1 DEF Hears
<1>2. /\ queue \in Seq(Datagram) /\ Len(queue) \in Nat
      /\ \A i \in 1 .. Len(queue) : queue[i] \in Datagram
      /\ DOMAIN queue = 1 .. Len(queue)
  BY PendingType DEF IInv
<1>3. \A j \in 1 .. Len(queue) : queue[j][1] = ip
  BY DEF Pending, IInv, QueuesAreSorted
<1> HIDE DEF queue
<1>4. ni.timestamp_ms \in Nat /\ entry \in CacheEntry /\ CacheTTL \in Nat
  BY TTLAssumption DEF IInv, TypeOK, CacheEntry
<1>5. /\ ni'.arp_cache = Put(ni.arp_cache, ip, entry) /\ ni'.arp_timer = ni.arp_timer
      /\ ni'.arp_pending_queue = Erase(ni.arp_pending_queue, {ip})
      /\ ni'.timestamp_ms = ni.timestamp_ms
  BY <1>1 DEF IInv, TypeOK
<1>6. TypeOK'
  <2>1. ni' \in [ ethernet_address : {OurMAC}, ip_address : {OurIP},
                  datagrams_received : Seq({OurIP} \X Nat), arp_cache : {ni'.arp_cache},
                  arp_timer : {ni'.arp_timer}, timestamp_ms : Nat,
                  arp_pending_queue : {ni'.arp_pending_queue} ]
    BY <1>1 DEF IInv, TypeOK
  <2>2. /\ IsMap(ni.arp_cache, CacheEntry) /\ IsMap(ni.arp_timer, Nat)
        /\ IsMap(ni.arp_pending_queue, Seq(Datagram)) /\ IsMap(heard, MACs \X Nat)
        /\ << mac, ni.timestamp_ms >> \in MACs \X Nat
    BY <1>4 DEF IInv, TypeOK
  <2>3. IsMap(ni'.arp_cache, CacheEntry) /\ IsMap(ni'.arp_pending_queue, Seq(Datagram))
    BY <1>4, <1>5, <2>2, MapsStayMaps
  <2>4. IsMap(heard', MACs \X Nat)
    BY <1>1, <2>2, MapsStayMaps
  <2> QED
    BY <1>1, <1>5, <2>1, <2>2, <2>3, <2>4 DEF IInv, TypeOK
<1>7. TimerIsRequest'
  BY <1>1, <1>5 DEF IInv, TimerIsRequest
<1>8. CacheIsHeard'
  <2>1. \A p \in DOMAIN ni.arp_cache :
          /\ p \in DOMAIN heard
          /\ heard[p] = << ni.arp_cache[p].ethernet_address, ni.arp_cache[p].timestamp >>
          /\ ni.timestamp_ms - ni.arp_cache[p].timestamp <= CacheTTL
    BY DEF IInv, CacheIsHeard
  <2>2. /\ DOMAIN ni'.arp_cache = DOMAIN ni.arp_cache \cup {ip}
        /\ ni'.arp_cache[ip] = entry
        /\ \A p \in DOMAIN ni.arp_cache : p # ip => ni'.arp_cache[p] = ni.arp_cache[p]
    BY <1>5 DEF Put
  <2>3. /\ DOMAIN heard' = DOMAIN heard \cup {ip}
        /\ heard'[ip] = << mac, ni.timestamp_ms >>
        /\ \A p \in DOMAIN heard : p # ip => heard'[p] = heard[p]
    BY <1>1 DEF Put
  <2>4. /\ entry.ethernet_address = mac /\ entry.timestamp = ni.timestamp_ms
        /\ ni.timestamp_ms - ni.timestamp_ms <= CacheTTL
    BY <1>4
  <2> HIDE DEF entry
  <2> QED
    BY <1>5, <2>1, <2>2, <2>3, <2>4 DEF CacheIsHeard
<1> HIDE DEF entry
<1>9. /\ DOMAIN ni'.arp_pending_queue = DOMAIN ni.arp_pending_queue \ {ip}
      /\ \A p \in DOMAIN ni'.arp_pending_queue :
           ni'.arp_pending_queue[p] = ni.arp_pending_queue[p]
  BY <1>5 DEF Erase
<1>10. QueuesAreSorted'
  BY <1>9 DEF IInv, QueuesAreSorted
<1>11. WaitingIsJustified'
  <2>1. DOMAIN ni'.arp_cache = DOMAIN ni.arp_cache \cup {ip}
    BY <1>5 DEF Put
  <2> QED
    BY <1>1, <1>5, <1>9, <2>1 DEF IInv, WaitingIsJustified
<1>12. SentWhereHeard'
  <2>1. /\ ip \in DOMAIN heard' /\ heard'[ip][1] = mac /\ heard'[ip][2] = ni.timestamp_ms
        /\ ni.timestamp_ms - ni.timestamp_ms <= CacheTTL
    BY <1>1, <1>4 DEF Put
  <2>2. \A d \in ToSet(queue) : d[1] = ip
    BY <1>2, <1>3 DEF ToSet
  <2> QED
    BY <1>1, <1>5, <2>1, <2>2 DEF SentWhereHeard
<1>13. InOrderOnce'
  <2>1. /\ Len(out) \in Nat /\ DOMAIN out = 1 .. Len(out)
        /\ DOMAIN out' = 1 .. Len(out) + Len(queue)
    BY <1>1, LenProperties DEF IInv, TypeOK
  <2>2. Pending(ni', ip) = << >> /\ \A p \in Neighbours : p # ip => Pending(ni', p) = Pending(ni, p)
    BY <1>9 DEF Pending
  <2>3. \A i \in 1 .. Len(out) + Len(queue) :
          \/ i \in 1 .. Len(out) /\ out'[i] = out[i]
          \/ i - Len(out) \in 1 .. Len(queue) /\ out'[i] = queue[i - Len(out)]
    <3> TAKE i \in 1 .. Len(out) + Len(queue)
    <3>1. CASE i <= Len(out)
      BY <1>1, <2>1, <3>1
    <3>2. CASE ~(i <= Len(out))
      <4>1. i - Len(out) \in 1 .. Len(queue) /\ Len(out) + (i - Len(out)) = i
        BY <1>2, <2>1, <3>2
      <4> QED
        BY <1>1, <4>1
    <3> QED
      BY <3>1, <3>2
  <2> SUFFICES ASSUME NEW p \in Neighbours
               PROVE  LET left == { i \in 1 .. Len(out) + Len(queue) : out'[i][1] = p }
                          after == Pending(ni', p)
                      IN  /\ \A i \in left : out'[i][2] <= given[p]
                          /\ \A i, j \in left : i < j => out'[i][2] < out'[j][2]
                          /\ \A j \in DOMAIN after :
                               /\ after[j][2] <= given[p]
                               /\ \A i \in left : out'[i][2] < after[j][2]
                          /\ \A i, j \in DOMAIN after : i < j => after[i][2] < after[j][2]
    BY <1>1, <2>1 DEF InOrderOnce
  <2>4. LET left == { i \in 1 .. Len(out) : out[i][1] = p }
            before == Pending(ni, p)
        IN  /\ \A i \in left : out[i][2] <= given[p]
            /\ \A i, j \in left : i < j => out[i][2] < out[j][2]
            /\ \A j \in DOMAIN before : /\ before[j][2] <= given[p]
                                        /\ \A i \in left : out[i][2] < before[j][2]
            /\ \A i, j \in DOMAIN before : i < j => before[i][2] < before[j][2]
    BY <2>1 DEF IInv, InOrderOnce
  <2>5. CASE p = ip
    <3>1. /\ \A i \in 1 .. Len(out) : out[i][1] = ip => out[i][2] <= given[ip]
          /\ \A i, j \in 1 .. Len(out) :
               out[i][1] = ip /\ out[j][1] = ip /\ i < j => out[i][2] < out[j][2]
          /\ \A j \in 1 .. Len(queue) : queue[j][2] <= given[ip]
          /\ \A j \in 1 .. Len(queue), i \in 1 .. Len(out) :
               out[i][1] = ip => out[i][2] < queue[j][2]
          /\ \A i, j \in 1 .. Len(queue) : i < j => queue[i][2] < queue[j][2]
      BY <1>2, <2>4, <2>5 DEF queue
    <3>2. \A i \in 1 .. Len(out) + Len(queue) : out'[i][1] = ip => out'[i][2] <= given[ip]
      BY <2>3, <3>1
    <3>3. \A i, j \in 1 .. Len(out) + Len(queue) :
            out'[i][1] = ip /\ out'[j][1] = ip /\ i < j => out'[i][2] < out'[j][2]
      <4> SUFFICES ASSUME NEW i \in 1 .. Len(out) + Len(queue),
                          NEW j \in 1 .. Len(out) + Len(queue),
                          out'[i][1] = ip, out'[j][1] = ip, i < j
                   PROVE  out'[i][2] < out'[j][2]
        OBVIOUS
      <4>1. CASE j <= Len(out)
        BY <1>2, <2>1, <2>3, <3>1, <4>1
      <4>2. CASE ~(j <= Len(out)) /\ i <= Len(out)
        <5>1. out'[i] = out[i] /\ i \in 1 .. Len(out)
          BY <1>2, <2>1, <2>3, <4>2
        <5>2. j - Len(out) \in 1 .. Len(queue) /\ out'[j] = queue[j - Len(out)]
          BY <1>2, <2>1, <2>3, <4>2
        <5> QED
          BY <3>1, <5>1, <5>2
      <4>3. CASE ~(i <= Len(out))
        <5>1. i - Len(out) \in 1 .. Len(queue) /\ out'[i] = queue[i - Len(out)]
          BY <1>2, <2>1, <2>3, <4>3
        <5>2. j - Len(out) \in 1 .. Len(queue) /\ out'[j] = queue[j - Len(out)]
          BY <1>2, <2>1, <2>3, <4>3
        <5>3. i - Len(out) < j - Len(out)
          BY <2>1
        <5> QED
          BY <3>1, <5>1, <5>2, <5>3
      <4> QED
        BY <4>1, <4>2, <4>3
    <3>4. DOMAIN Pending(ni', p) = {}
      BY <2>2, <2>5
    <3> QED
      BY <2>5, <3>2, <3>3, <3>4
  <2>6. CASE p # ip
    <3>1. { i \in 1 .. Len(out) + Len(queue) : out'[i][1] = p }
          = { i \in 1 .. Len(out) : out[i][1] = p }
      BY <1>1, <1>2, <1>3, <2>1, <2>3, <2>6
    <3>2. Pending(ni', p) = Pending(ni, p)
      BY <2>2, <2>6
    <3> QED
      BY <1>1, <2>4, <3>1, <3>2
  <2> QED
    BY <2>5, <2>6
<1> QED
  BY <1>6, <1>7, <1>8, <1>10, <1>11, <1>12, <1>13 DEF IInv

\* tick() keeps the promises: it drops what is too old, and moves nothing.
LEMMA TickKeepsIInv ==
  ASSUME IInv, NEW ms \in Ticks, Tick(ms)
  PROVE  IInv'
<1> DEFINE now == ni.timestamp_ms + ms
           stale == { ip \in DOMAIN ni.arp_cache : now - ni.arp_cache[ip].timestamp > CacheTTL }
           late == { ip \in DOMAIN ni.arp_pending_queue :
                       ip \in DOMAIN ni.arp_timer /\ now - ni.arp_timer[ip] > RequestTTL }
<1>1. /\ ni' = InterfaceTick(ni, ms) /\ wire' = << >>
      /\ given' = given /\ out' = out /\ heard' = heard /\ requested' = requested
  BY TickOnly DEF IInv
<1>2. /\ ni'.timestamp_ms = now /\ ni'.arp_timer = ni.arp_timer
      /\ ni'.arp_cache = Erase(ni.arp_cache, stale)
      /\ ni'.arp_pending_queue = Erase(ni.arp_pending_queue, late)
  BY <1>1 DEF InterfaceTick, IInv, TypeOK
<1>3. now \in Nat /\ ni.timestamp_ms \in Nat
  BY TicksAssumption DEF IInv, TypeOK
<1>4. TypeOK'
  <2>1. ni' \in [ ethernet_address : {OurMAC}, ip_address : {OurIP},
                  datagrams_received : Seq({OurIP} \X Nat), arp_cache : {ni'.arp_cache},
                  arp_timer : {ni'.arp_timer}, timestamp_ms : Nat,
                  arp_pending_queue : {ni'.arp_pending_queue} ]
    BY <1>1, <1>3 DEF InterfaceTick, IInv, TypeOK
  <2>2. IsMap(ni.arp_cache, CacheEntry) /\ IsMap(ni.arp_pending_queue, Seq(Datagram))
    BY DEF IInv, TypeOK
  <2>3. IsMap(ni'.arp_cache, CacheEntry) /\ IsMap(ni'.arp_pending_queue, Seq(Datagram))
    BY <1>2, <2>2, MapsStayMaps
  <2> QED
    BY <1>1, <1>2, <2>1, <2>3 DEF IInv, TypeOK
<1>5. /\ DOMAIN ni'.arp_cache = DOMAIN ni.arp_cache \ stale
      /\ \A ip \in DOMAIN ni'.arp_cache : ni'.arp_cache[ip] = ni.arp_cache[ip]
      /\ DOMAIN ni'.arp_pending_queue = DOMAIN ni.arp_pending_queue \ late
      /\ \A ip \in DOMAIN ni'.arp_pending_queue :
           ni'.arp_pending_queue[ip] = ni.arp_pending_queue[ip]
  <2> HIDE DEF stale, late
  <2> QED
    BY <1>2 DEF Erase
<1>6. TimerIsRequest' /\ QueuesAreSorted'
  <2>1. TimerIsRequest'
    BY <1>1, <1>2 DEF IInv, TimerIsRequest
  <2>2. QueuesAreSorted'
    BY <1>5 DEF IInv, QueuesAreSorted
  <2> QED
    BY <2>1, <2>2
<1>7. CacheIsHeard'
  <2>1. \A ip \in DOMAIN ni'.arp_cache : now - ni.arp_cache[ip].timestamp <= CacheTTL
    <3>1. \A ip \in DOMAIN ni.arp_cache : ni.arp_cache[ip].timestamp \in Nat
      BY DEF IInv, TypeOK, IsMap, CacheEntry
    <3>2. \A ip \in DOMAIN ni'.arp_cache :
            ip \in DOMAIN ni.arp_cache /\ ~(now - ni.arp_cache[ip].timestamp > CacheTTL)
      BY <1>5
    <3> QED
      BY <1>3, <3>1, <3>2, TTLAssumption
  <2> QED
    BY <1>1, <1>2, <1>5, <2>1 DEF IInv, CacheIsHeard
<1>8. WaitingIsJustified'
  <2>1. \A ip \in DOMAIN ni'.arp_pending_queue :
          /\ ip \in DOMAIN ni.arp_pending_queue /\ ip \in DOMAIN requested
          /\ now - requested[ip] <= RequestTTL
    <3> TAKE ip \in DOMAIN ni'.arp_pending_queue
    <3>1. ip \in DOMAIN ni.arp_pending_queue /\ ip \notin late
      BY <1>5
    <3>2. ip \in DOMAIN ni.arp_timer /\ requested = ni.arp_timer /\ ni.arp_timer[ip] \in Nat
      BY <3>1 DEF IInv, WaitingIsJustified, TimerIsRequest, TypeOK, IsMap
    <3>3. ~(now - ni.arp_timer[ip] > RequestTTL)
      BY <3>1, <3>2
    <3> QED
      BY <1>3, <3>1, <3>2, <3>3, TTLAssumption
  <2> QED
    BY <1>1, <1>2, <1>5, <2>1 DEF IInv, WaitingIsJustified
<1>9. SentWhereHeard'
  BY <1>1 DEF SentWhereHeard
<1>10. InOrderOnce'
  <2>1. \A ip : Pending(ni', ip) = Pending(ni, ip) \/ DOMAIN Pending(ni', ip) = {}
    BY <1>5 DEF Pending
  <2> QED
    BY <1>1, <2>1 DEF IInv, InOrderOnce
<1> QED
  BY <1>4, <1>6, <1>7, <1>8, <1>9, <1>10 DEF IInv

\* Every call and every tick preserves the invariant.
LEMMA NextIInv == IInv /\ [Next]_vars => IInv'
<1> SUFFICES ASSUME IInv, [Next]_vars PROVE IInv'
  OBVIOUS
<1>1. ASSUME NEW ip \in Neighbours, OwnerSends(ip) PROVE IInv'
  BY <1>1, SendsAtOnceKeepsIInv, SendsLaterKeepsIInv
<1>2. ASSUME NEW ip \in Neighbours, NEW mac \in MACs, NEW dst \in Destinations,
             NEW opcode \in {"request", "reply"}, NEW target_ip \in Neighbours \cup {OurIP},
             ArpArrives(ip, mac, dst, opcode, target_ip)
      PROVE  IInv'
  <2>1. CASE dst \in {OurMAC, Broadcast}
    BY <1>2, <2>1, ArpKeepsIInv
  <2>2. CASE dst \notin {OurMAC, Broadcast}
    <3>1. UNCHANGED << ni, given, out, heard, requested >> /\ wire' = << >>
      BY <1>2, <2>2, ArpIsIgnored DEF IInv
    <3>2. /\ ni.datagrams_received \in Seq({OurIP} \X Nat)
          /\ ni' = [ni EXCEPT !.datagrams_received = ni.datagrams_received]
      BY <3>1 DEF IInv, TypeOK
    <3> QED
      BY <3>1, <3>2, DatagramsKeepIInv
  <2> QED
    BY <2>1, <2>2
<1>3. ASSUME NEW mac \in MACs, NEW dst \in Destinations, NEW n \in Nat,
             DatagramArrives(mac, dst, n)
      PROVE  IInv'
  BY <1>3, DatagramOnly, DatagramsKeepIInv DEF IInv
<1>4. ASSUME OwnerTakes PROVE IInv'
  BY <1>4, TakesOnly, DatagramsKeepIInv DEF IInv
<1>5. ASSUME NEW ms \in Ticks, Tick(ms) PROVE IInv'
  BY <1>5, TickKeepsIInv
<1>6. ASSUME UNCHANGED vars PROVE IInv'
  BY <1>6 DEF vars, IInv, TypeOK, TimerIsRequest, CacheIsHeard, QueuesAreSorted,
              WaitingIsJustified, SentWhereHeard, InOrderOnce, Pending
<1> QED
  BY <1>1, <1>2, <1>3, <1>4, <1>5, <1>6 DEF Next

\* The invariant holds of every behaviour.
LEMMA AlwaysIInv == Spec => []IInv
BY InitIInv, NextIInv, PTL DEF Spec

-----------------------------------------------------------------------------
(* The theorems *)

\* Every member of the interface keeps its type, its maps their keys.
THEOREM TypeCorrect == Spec => []TypeOK
<1>1. IInv => TypeOK
  BY DEF IInv
<1> QED
  BY <1>1, AlwaysIInv, PTL

\* A datagram waits only for an answer that may still come (tick(),
\* network_interface.cc:198-226; send_datagram(), 31-71).
THEOREM NoneIsForgotten == Spec => []WaitingIsJustified
<1>1. IInv => WaitingIsJustified
  BY DEF IInv
<1> QED
  BY <1>1, AlwaysIInv, PTL

\* A datagram leaves to the address its next hop made known last, in time
\* (network_interface.cc:31-47, 155-177).
THEOREM RightAddress == Spec => []SentWhereHeard
<1>1. IInv => SentWhereHeard
  BY DEF IInv
<1> QED
  BY <1>1, AlwaysIInv, PTL

\* Datagrams for one next hop leave in order and once (network_interface.cc:
\* 31-71, 155-177): those that waited for the answer before later ones.
THEOREM LeaveInOrderOnce == Spec => []InOrderOnce
<1>1. IInv => InOrderOnce
  BY DEF IInv
<1> QED
  BY <1>1, AlwaysIInv, PTL

\* An address is asked for again only after RequestTTL, whatever was learned or
\* dropped in between (network_interface.cc:52-63).
THEOREM AsksSparingly == Spec => RequestsApart
<1> DEFINE Apart == \A ip \in Requests(wire') \cap DOMAIN requested :
                      ni.timestamp_ms - requested[ip] >= RequestTTL
<1>1. IInv /\ [Next]_vars => [Apart]_vars
  <2> SUFFICES ASSUME IInv, Next PROVE Apart
    OBVIOUS
  <2>0. TypeOK /\ TimerIsRequest
    BY DEF IInv
  <2>1. ASSUME NEW hop \in Neighbours, OwnerSends(hop) PROVE Apart
    <3>1. CASE Known(ni, hop)
      <4>1. Requests(wire') = {}
        BY <2>0, <2>1, <3>1, SendsAtOnce
      <4> QED
        BY <4>1
    <3>2. CASE ~Known(ni, hop)
      <4>1. Requests(wire') = IF Asked(ni, hop) THEN {} ELSE {hop}
        BY <2>0, <2>1, <3>2, SendsLater
      <4>2. ASSUME hop \in DOMAIN requested, ~Asked(ni, hop)
            PROVE  ni.timestamp_ms - requested[hop] >= RequestTTL
        <5>1. /\ hop \in DOMAIN ni.arp_timer /\ requested[hop] = ni.arp_timer[hop]
              /\ ni.arp_timer[hop] \in Nat /\ ni.timestamp_ms \in Nat
          BY <4>2 DEF IInv, TimerIsRequest, TypeOK, IsMap
        <5> QED
          BY <4>2, <5>1, TTLAssumption DEF Asked
      <4> QED
        BY <4>1, <4>2
    <3> QED
      BY <3>1, <3>2
  <2>2. ASSUME NEW ip \in Neighbours, NEW mac \in MACs, NEW dst \in Destinations,
               NEW opcode \in {"request", "reply"}, NEW target_ip \in Neighbours \cup {OurIP},
               ArpArrives(ip, mac, dst, opcode, target_ip)
        PROVE  Requests(wire') = {}
    <3>1. CASE dst \in {OurMAC, Broadcast}
      BY <2>0, <2>2, <3>1, ArpIsHeard DEF Hears
    <3>2. CASE dst \notin {OurMAC, Broadcast}
      BY <2>0, <2>2, <3>2, ArpIsIgnored
    <3> QED
      BY <3>1, <3>2
  <2>3. ASSUME NEW mac \in MACs, NEW dst \in Destinations, NEW n \in Nat,
               DatagramArrives(mac, dst, n)
        PROVE  Requests(wire') = {}
    BY <2>0, <2>3, DatagramOnly
  <2>4. ASSUME OwnerTakes PROVE Requests(wire') = {}
    BY <2>0, <2>4, TakesOnly
  <2>5. ASSUME NEW ms \in Ticks, Tick(ms) PROVE Requests(wire') = {}
    BY <2>0, <2>5, TickOnly
  <2> QED
    BY <2>1, <2>2, <2>3, <2>4, <2>5 DEF Next
<1> QED
  BY <1>1, AlwaysIInv, PTL DEF Spec, RequestsApart

\* A waiting datagram leaves the queue only by being sent, or by a tick that
\* finds its request past its time (network_interface.cc:31-71, 136-226).
THEOREM KeepsDatagrams == Spec => DroppedOnlyLate
<1> DEFINE Now(ip) == ToSet(Pending(ni', ip)) \cup Sent(wire')
           Taken(ip) == given'[ip] > given[ip] => << ip, given'[ip] >> \in Now(ip)
           Stays(ip) == ToSet(Pending(ni, ip)) \subseteq Now(ip)
           Late(ip) == /\ ni'.timestamp_ms > ni.timestamp_ms
                       /\ ip \in DOMAIN requested
                       /\ ni'.timestamp_ms - requested[ip] > RequestTTL
           Kept(ip) == Stays(ip) /\ Taken(ip)
           NoneDropped ==
             \A ip \in Neighbours :
               LET now == ToSet(Pending(ni', ip)) \cup Sent(wire')
               IN  /\ given'[ip] > given[ip] => << ip, given'[ip] >> \in now
                   /\ \/ ToSet(Pending(ni, ip)) \subseteq now
                      \/ /\ ni'.timestamp_ms > ni.timestamp_ms
                         /\ ip \in DOMAIN requested
                         /\ ni'.timestamp_ms - requested[ip] > RequestTTL
<1>1. IInv /\ [Next]_vars => [NoneDropped]_vars
  <2> SUFFICES ASSUME IInv, Next, NEW ip \in Neighbours
               PROVE  Taken(ip) /\ (Stays(ip) \/ Late(ip))
    OBVIOUS
  <2>0. /\ TypeOK /\ TimerIsRequest /\ given \in [Neighbours -> Nat]
        /\ \A p \in Neighbours : given[p] \in Nat
    BY DEF IInv, TypeOK
  <2>a. ni \in [ ethernet_address : {OurMAC}, ip_address : {OurIP},
                 datagrams_received : Seq({OurIP} \X Nat), arp_cache : {ni.arp_cache},
                 arp_timer : {ni.arp_timer}, timestamp_ms : Nat,
                 arp_pending_queue : {ni.arp_pending_queue} ]
    BY <2>0 DEF TypeOK
  <2>1. ASSUME ni'.arp_pending_queue = ni.arp_pending_queue, given' = given PROVE Kept(ip)
    BY <2>0, <2>1 DEF Pending
  <2>2. ASSUME NEW hop \in Neighbours, OwnerSends(hop) PROVE Kept(ip)
    <3> DEFINE dgram == << hop, given[hop] + 1 >>
    <3>1. CASE Known(ni, hop)
      <4>1. ni' = ni /\ given' = [given EXCEPT ![hop] = @ + 1] /\ Sent(wire') = {dgram}
        BY <2>0, <2>2, <3>1, SendsAtOnce
      <4> QED
        BY <2>0, <4>1
    <3>2. CASE ~Known(ni, hop)
      <4> DEFINE queue == Pending(ni, hop)
                 longer == Append(queue, dgram)
      <4>1. /\ ni'.arp_pending_queue = Put(ni.arp_pending_queue, hop, longer)
            /\ given' = [given EXCEPT ![hop] = @ + 1]
        <5>1. /\ ni' = [ni EXCEPT !.arp_cache = Erase(@, {hop}),
                                  !.arp_timer = IF Asked(ni, hop) THEN @
                                                ELSE Put(@, hop, ni.timestamp_ms),
                                  !.arp_pending_queue = Put(@, hop, longer)]
              /\ given' = [given EXCEPT ![hop] = @ + 1]
          BY <2>0, <2>2, <3>2, SendsLater, Zenon
        <5> HIDE DEF longer
        <5> QED
          BY <2>a, <5>1
      <4>2. \A p \in Neighbours : Pending(ni', p) = IF p = hop THEN longer ELSE Pending(ni, p)
        BY <4>1 DEF Pending, Put
      <4>3. ToSet(longer) = ToSet(queue) \cup {dgram}
        <5>1. queue \in Seq(Datagram) /\ Len(queue) \in Nat /\ DOMAIN queue = 1 .. Len(queue)
          BY <2>0, PendingType
        <5>2. dgram \in Datagram
          BY <2>0 DEF Datagram
        <5> HIDE DEF queue, dgram
        <5>3. /\ longer \in Seq(Datagram) /\ Len(longer) = Len(queue) + 1
              /\ \A i \in 1 .. Len(queue) : longer[i] = queue[i]
              /\ longer[Len(queue) + 1] = dgram /\ DOMAIN longer = 1 .. Len(queue) + 1
          BY <5>1, <5>2, AppendProperties, LenProperties
        <5> HIDE DEF longer
        <5> QED
          BY <5>1, <5>3 DEF ToSet
      <4> HIDE DEF queue, longer
      <4> QED
        BY <2>0, <4>1, <4>2, <4>3 DEF queue
    <3> QED
      BY <3>1, <3>2
  <2>3. ASSUME NEW hop \in Neighbours, NEW mac \in MACs, NEW dst \in Destinations,
               NEW opcode \in {"request", "reply"}, NEW target_ip \in Neighbours \cup {OurIP},
               ArpArrives(hop, mac, dst, opcode, target_ip)
        PROVE  Kept(ip)
    <3>1. CASE dst \in {OurMAC, Broadcast}
      <4>1. /\ ni'.arp_pending_queue = Erase(ni.arp_pending_queue, {hop})
            /\ given' = given /\ Sent(wire') = ToSet(Pending(ni, hop))
        <5>1. Hears(hop, mac)
          BY <2>0, <2>3, <3>1, ArpIsHeard
        <5> QED
          BY <2>0, <5>1 DEF Hears, TypeOK
      <4>2. \A p \in Neighbours : p # hop => Pending(ni', p) = Pending(ni, p)
        BY <4>1 DEF Pending, Erase
      <4> QED
        BY <2>0, <4>1, <4>2
    <3>2. CASE dst \notin {OurMAC, Broadcast}
      <4>1. ni' = ni /\ given' = given
        BY <2>0, <2>3, <3>2, ArpIsIgnored
      <4> QED
        BY <2>1, <4>1
    <3> QED
      BY <3>1, <3>2
  <2>4. ASSUME NEW mac \in MACs, NEW dst \in Destinations, NEW n \in Nat,
               DatagramArrives(mac, dst, n)
        PROVE  Kept(ip)
    <3>1. ni'.arp_pending_queue = ni.arp_pending_queue /\ given' = given
      BY <2>0, <2>4, DatagramOnly DEF TypeOK
    <3> QED
      BY <2>1, <3>1
  <2>5. ASSUME OwnerTakes PROVE Kept(ip)
    <3>1. ni'.arp_pending_queue = ni.arp_pending_queue /\ given' = given
      BY <2>0, <2>5, TakesOnly DEF TypeOK
    <3> QED
      BY <2>1, <3>1
  <2>6. ASSUME NEW ms \in Ticks, Tick(ms) PROVE Taken(ip) /\ (Stays(ip) \/ Late(ip))
    <3> DEFINE now == ni.timestamp_ms + ms
               dropped == { p \in DOMAIN ni.arp_pending_queue :
                              /\ p \in DOMAIN ni.arp_timer
                              /\ now - ni.arp_timer[p] > RequestTTL }
    <3>1. /\ ni'.timestamp_ms = now /\ given' = given
          /\ ni'.arp_pending_queue = Erase(ni.arp_pending_queue, dropped)
      <4>1. ni' = InterfaceTick(ni, ms) /\ given' = given
        BY <2>0, <2>6, TickOnly
      <4> QED
        BY <2>a, <4>1 DEF InterfaceTick
    <3>2. Taken(ip)
      BY <2>0, <3>1
    <3>3. CASE ip \in dropped
      <4>1. now > ni.timestamp_ms
        BY <2>0, TicksAssumption DEF TypeOK
      <4>2. ip \in DOMAIN requested /\ now - requested[ip] > RequestTTL
        BY <2>0, <3>3 DEF TimerIsRequest
      <4> QED
        BY <3>1, <3>2, <4>1, <4>2
    <3>4. CASE ip \notin dropped
      <4> HIDE DEF dropped, now
      <4>1. Pending(ni', ip) = Pending(ni, ip)
        BY <3>1, <3>4 DEF Pending, Erase
      <4> QED
        BY <3>2, <4>1
    <3> QED
      BY <3>3, <3>4
  <2> QED
    BY <2>2, <2>3, <2>4, <2>5, <2>6 DEF Next
<1> QED
  BY <1>1, AlwaysIInv, PTL DEF Spec, DroppedOnlyLate
===============================================================================
