---------------------------- MODULE MCTCPReceiver ----------------------------
(***************************************************************************)
(* A stream of distinct bytes longer than the capacity; the initial        *)
(* sequence number is close to the wrap, so that sequence numbers wrap     *)
(* within the stream.                                                      *)
(***************************************************************************)
EXTENDS TCPReceiver

CONSTANTS StreamLength,
          MaxPending,  \* no segment once bytes_pending_ is larger
          MaxRead      \* nothing is read that makes consumed longer

MCByte == 1 .. StreamLength
MCStream == [i \in 1 .. StreamLength |-> i]

MCReceiveSegment ==
  \E first \in 0 .. Length : \E n \in 0 .. Length - first, SYN, FIN \in BOOLEAN :
    /\ receiver.reassembler.bytes_pending <= MaxPending
    /\ SYN => first = 0 /\ n \in SynPayloads
    /\ FIN => first + n = Length
    /\ Receive(Segment(first, n, SYN, FIN))

MCNext == \/ MCReceiveSegment
          \/ Receive(Reset)
          \/ \E max_len \in 1 .. Capacity + 1 :
               ReaderReads(max_len) /\ Len(consumed') <= MaxRead

MCSpec == Init /\ [][MCNext]_vars
==============================================================================
