----------------------------- MODULE MCTCPSender -----------------------------
(***************************************************************************)
(* A stream of distinct bytes longer than the capacity, payloads of at     *)
(* most two bytes so that the window takes several segments, an initial    *)
(* sequence number that wraps within the stream.                           *)
(***************************************************************************)
EXTENDS TCPSender

CONSTANTS StreamLength,
          MaxRTO,     \* no tick once the timeout is larger
          MaxRetries  \* or after more retransmissions in a row

MCByte == 1 .. StreamLength
MCStream == [i \in 1 .. StreamLength |-> i]

MCNext ==
  \/ \E n \in 1 .. Len(Stream) : AppWrite(n)
  \/ AppClose
  \/ PushSegments
  \/ \E ackno \in 0 .. sender.next_seqno + 1, window \in Windows, RST \in BOOLEAN :
       ReceiveAck(ackno, window, RST)
  \/ \E window \in Windows : ReceiveWindow(window)
  \/ \E ms \in Ticks :
       /\ sender.current_RTO <= MaxRTO
       /\ sender.consecutive_retransmissions <= MaxRetries
       /\ Tick(ms)

MCSpec == Init /\ [][MCNext]_vars
==============================================================================
