---------------------------- MODULE MCReassembler ----------------------------
(***************************************************************************)
(* A stream of distinct bytes, so that a byte written in the wrong place   *)
(* shows, longer than the capacity, so that substrings are cut at the      *)
(* window and the window moves.                                            *)
(***************************************************************************)
EXTENDS ReassemblerLoops

CONSTANTS StreamLength,
          MaxPending   \* no insert once bytes_pending_ is larger

MCStream == [i \in 1 .. StreamLength |-> i]
MCByte == 1 .. StreamLength

MCNext ==
  \/ /\ ra.bytes_pending <= MaxPending
     /\ \E first \in 0 .. Length : \E n \in 0 .. Length - first, last \in BOOLEAN :
          /\ last => first + n = Length
          /\ InsertSlice(first, n, last)
  \/ \E len \in 1 .. Capacity : ReaderPop(len)

MCSpec == Init /\ [][MCNext]_vars

-----------------------------------------------------------------------------
\* The sender repeats what is missing, one byte at a time at the worst.
RepeatMissing ==
  /\ ra.next_index < Length
  /\ InsertSlice(ra.next_index, 1, ra.next_index + 1 = Length)

\* RepeatMissing can change something; ENABLED written out, which TLC is slow at.
RepeatHelps ==
  /\ ra.next_index < Length
  /\ ra # Insert(ra, ra.next_index, Slice(ra.next_index, 1), ra.next_index + 1 = Length)

\* The missing byte is repeated for ever (weak fairness) and the reader reads.
FairSpec == /\ MCSpec
            /\ []<>(~RepeatHelps) \/ []<><<RepeatMissing>>_vars
            /\ []<>(ra.output.buffer = << >>) \/ []<><<ReaderPop(1)>>_vars

\* A stream whose missing bytes are repeated is delivered in full: no
\* truncation, merge or full window makes the reassembler refuse for ever.
EventuallyComplete == <>(~plain \/ (IsFinished(ra.output) /\ consumed = Stream))
==============================================================================
