-------------------------- MODULE MCNetworkInterface --------------------------
(***************************************************************************)
(* Time runs long enough for a request to expire and be repeated and for a *)
(* mapping to be learned and to expire after that.                         *)
(***************************************************************************)
EXTENDS NetworkInterface

CONSTANTS MaxTime,   \* the clock stops there
          MaxGiven   \* datagrams given in all

\* Of those the frame is not for, one does.
Receivers == {OurMAC, Broadcast} \cup {CHOOSE m \in MACs : TRUE}
Damaged == 0
MCParses(dgram) == dgram[2] # Damaged
Targets == {OurIP, CHOOSE ip \in Neighbours : TRUE}

MCNext ==
  \/ \E ip \in Neighbours : SumFunction(given) < MaxGiven /\ OwnerSends(ip)
  \/ \E ip \in Neighbours, mac \in MACs, dst \in Receivers,
        opcode \in {"request", "reply"}, target_ip \in Targets :
       ArpArrives(ip, mac, dst, opcode, target_ip)
  \/ \E mac \in MACs, dst \in Receivers, n \in {Damaged, 1} : DatagramArrives(mac, dst, n)
  \/ OwnerTakes
  \/ \E ms \in Ticks : ni.timestamp_ms + ms <= MaxTime /\ Tick(ms)

MCSpec == Init /\ [][MCNext]_vars
===============================================================================
