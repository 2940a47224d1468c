---------------------------- MODULE MCTCPConnection ----------------------------
(***************************************************************************)
(* The two owners' streams have ClientBytes and ServerBytes distinct bytes;*)
(* the initial sequence numbers are such that one of them wraps within its *)
(* stream.  faults names what went wrong: a segment that is lost, repeated *)
(* or overtaken, a timer that expires although something is still on its   *)
(* way, a peer that lingers too short a time.  Without faults a timer      *)
(* expires only when all is quiet, and lingering, ten timeouts long, ends  *)
(* only after the other side has nothing left to retransmit.               *)
(***************************************************************************)
EXTENDS TCPConnection

CONSTANTS ClientBytes, ServerBytes,
          MaxFaults     \* how many things go wrong in all

VARIABLE faults

MCvars == << vars, faults >>

MCByte == 1 .. ClientBytes + ServerBytes
MCStreams == [x \in Peers |->
  IF x = Client THEN [i \in 1 .. ClientBytes |-> i]
                ELSE [i \in 1 .. ServerBytes |-> ClientBytes + i]]
MCIsns == [x \in Peers |-> IF x = Client THEN Modulus - 2 ELSE 1]

\* Nothing is on its way to a peer that would still take it.
Quiet == \A x \in Peers : net[x] = << >> \/ ~Active(peer[x])
Settled == Quiet /\ \A x \in Peers : peer[x].sender.outstanding = << >>

Writes(x) == OwnerClose(x) \/ \E n \in 1 .. SendCapacity : OwnerWrite(x, n)
Reads(x) == \E n \in 0 .. RecvCapacity : OwnerRead(x, n)
Runs == \/ Connect
        \/ \E x \in Peers : \/ Deliver(x, 1)
                            \/ Quiet /\ Timeout(x)
                            \/ Settled /\ LingerEnds(x)

GoesWrong(x, kind) ==
  \/ kind = "lost" /\ Lose(x, 1)
  \/ kind = "early" /\ ~Quiet /\ Timeout(x)
  \/ kind = "hasty" /\ ~Settled /\ LingerEnds(x)
  \/ kind = "overtaken" /\ Repeat(x, 1)
  \/ kind = "overtaken" /\ \E i \in 2 .. Len(net[x]) : Deliver(x, i)

Kinds == { "lost", "early", "hasty", "overtaken" }

MCNext ==
  \/ /\ Runs \/ \E x \in Peers : Writes(x) \/ Reads(x)
     /\ UNCHANGED faults
  \/ /\ Len(faults) < MaxFaults
     /\ \E x \in Peers, kind \in Kinds : /\ GoesWrong(x, kind)
                                       /\ faults' = Append(faults, kind)

MCInit == Init /\ faults = << >>

MCSpec == MCInit /\ [][MCNext]_MCvars

-------------------------------------------------------------------------------
\* The enabling conditions of Writes, Reads and Runs, which all change the
\* state when they are taken.
MayWrite(x) == TakesInput(x)
MayRead(x) == LET inbound == InboundOf(peer[x]) IN
              inbound.buffer # << >> \/ ((IsFinished(inbound) \/ inbound.error) /\ ~shut[x])
MayRun == \/ ~peer[Client].sender.syn_sent
          \/ \E x \in Peers :
               /\ Active(peer[x])
               /\ \/ net[x] # << >>
                  \/ Quiet /\ peer[x].sender.time_running /\ peer[x].sender.outstanding # << >>
                  \/ Settled /\ Lingering(peer[x])

\* Which steps are theirs, told by what they change.
Wrote(x) == \/ written'[x] # written[x]
            \/ Outbound(peer'[x]).is_closed # Outbound(peer[x]).is_closed
DidRead(x) == received'[x] # received[x] \/ shut'[x] # shut[x]
Ran == faults' = faults /\ \A x \in Peers : ~Wrote(x) /\ ~DidRead(x)

\* Weak fairness of each owner's writing and reading and of the event loops
\* with the network, written out (TLC is slow at ENABLED here).
FairSpec ==
  /\ MCSpec
  /\ []<>~MayRun \/ []<><<Ran>>_MCvars
  /\ \A x \in Peers : /\ []<>~MayWrite(x) \/ []<><<Wrote(x)>>_MCvars
                      /\ []<>~MayRead(x) \/ []<><<DidRead(x)>>_MCvars

Went(kind) == kind \in ToSet(faults)

\* What x has sent reaches at most one byte, the probe of a closed window,
\* beyond what the other side could store when it last spoke: no sender
\* overruns its receiver, if no older window overtakes a newer one.
SenderWithinWindow ==
  \A x \in Peers :
    LET tr == peer[Other(x)].receiver
        bytes == peer[x].sender.input.bytes_popped
    IN  HasValue(tr.isn) /\ ~Went("overtaken") =>
          bytes <= Inbound(tr).bytes_popped + RecvCapacity + 1

\* Whatever goes wrong, each owner is given the other's whole stream and its
\* end, and both peers come to rest: no window stays closed, no FIN
\* unacknowledged, no peer lingers for ever.  Only a peer that left too early
\* may leave the other alone.
EventuallyDone ==
  <>[](\/ Went("hasty")
       \/ \A x \in Peers : received[x] = Streams[Other(x)] /\ shut[x] /\ ~Active(peer[x]))
===============================================================================
