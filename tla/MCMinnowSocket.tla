---------------------------- MODULE MCMinnowSocket ----------------------------
(***************************************************************************)
(* A socket that connects and one that listens.  Time passes only when     *)
(* nothing is on its way; the owner calls wait_until_closed() when its     *)
(* input has ended, as tcp_minnow_socket.hh:24 advises.                    *)
(***************************************************************************)
EXTENDS MinnowSocket

CONSTANTS OutBytes, InBytes,
          ResetAnytime   \* whether a reset may find bytes that are not delivered

MCByte == 1 .. OutBytes + InBytes
MCOut == [i \in 1 .. OutBytes |-> i]
MCIn == [i \in 1 .. InBytes |-> OutBytes + i]
MCIsns == << Modulus - 2, 1 >>

Quiet == net.in = << >> /\ net.out = << >>
Settled == Quiet /\ \A p \in { sock.tcp, other.tcp } : p.sender.outstanding = << >>
InTime(lapse) == \/ lapse = "none"
                 \/ lapse = "retransmission" /\ Quiet
                 \/ lapse = "lingering" /\ (Settled \/ other.failed)

\* What the other end does commutes with the second half of a turn; it reads
\* what has come before it writes, and is of no interest once the thread ended.
Between == polled = << >> /\ phase \notin { "ended", "dead" }

TimeMatters == { lapse \in Lapses : InTime(lapse) }
Thread == \/ Call \/ Connected \/ Exit \/ Poll
          \/ \E lapse \in TimeMatters : Serve(lapse) \/ TimeOut(lapse)
OtherEnd == /\ Between
            /\ \/ OtherConnects \/ OtherReceives \/ (net.out = << >> /\ OtherWrites)
               \/ \E lapse \in TimeMatters : OtherTicks(lapse)
Fails == /\ Between
         /\ ResetAnytime \/ (net.in = << >> /\ InboundOf(sock.tcp).buffer = << >>)
         /\ OtherFails
Owns == \/ \E n \in 1 .. OutBytes : OwnerWrite(n)
        \/ OwnerShutdown
        \/ OwnerRead
        \/ owner.eof /\ WaitUntilClosed
        \/ Join

MCNext == Thread \/ OtherEnd \/ Fails \/ Owns \/ Destroy

MCSpec == Init /\ [][MCNext]_vars

\* The thread takes its turns, the other end and the owner do what they can.
\* Steps are told apart by what only they change, which is what weak fairness
\* comes to here and quicker to evaluate.
ThreadCan ==
  \/ phase = "new" \/ polled # << >>
  \/ phase = "connecting" /\ ~SynUnderWay
  \/ /\ LoopsOn
     /\ \E swept \in {Swept} :
          \/ swept.asked = {} \/ swept.asked \cap ReadyFds # {}
          \/ HungUp \cap ToSet(swept.rules) # {} \/ Stops
          \/ \E lapse \in TimeMatters \ {"none"} : MayLapse(swept.state.tcp, lapse)
ThreadDid == \/ << phase, sock, rules, polled >>' # << phase, sock, rules, polled >>
             \/ Len(net.out') > Len(net.out)
OtherCan == /\ Between
            /\ \/ role = "listen" /\ ~other.tcp.sender.syn_sent
               \/ net.out # << >>
               \/ /\ ~other.failed /\ Active(other.tcp)
                  /\ \/ /\ Established(other.tcp) /\ ~Outbound(other.tcp).is_closed
                        /\ AvailableCapacity(Outbound(other.tcp)) > 0
                     \/ \E lapse \in TimeMatters \ {"none"} : MayLapse(other.tcp, lapse)
OtherDid == \/ other' # other \/ Len(net.in') > Len(net.in) \/ Len(net.out') < Len(net.out)

FairSpec == /\ MCSpec /\ WF_vars(Owns)
            /\ []<>~ThreadCan \/ []<><<ThreadDid>>_vars
            /\ []<>~OtherCan \/ []<><<OtherDid>>_vars

\* Whatever the other end and the owner do, the owner learns that its input
\* ended and joins the thread: wait_until_closed() and the destructor return.
EventuallyJoined == <>[](owner.state = "done")
===============================================================================
