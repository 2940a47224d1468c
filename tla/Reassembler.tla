----------------------------- MODULE Reassembler -----------------------------
(***************************************************************************)
(* A Reassembler that is handed substrings of one stream, in any order,    *)
(* overlapping and repeated, while a reader takes bytes from its output    *)
(* (src/minnow/src/reassembler.cc).  consumed records the bytes the reader *)
(* popped, promised the indices that were inserted while they lay within   *)
(* the window of the output's available capacity.  plain is TRUE as long   *)
(* as no substring was empty and each that ends the stream had the flag:   *)
(* what the reassembler promises to keep and to complete it promises for   *)
(* such substrings only.                                                   *)
(***************************************************************************)
EXTENDS ReassemblerOps, SequencesExt

CONSTANTS Byte,
          Stream,    \* the stream the substrings are taken from
          Capacity   \* the capacity of the output

ASSUME StreamAssumption == Stream \in Seq(Byte)
ASSUME CapacityAssumption == Capacity \in Nat

VARIABLES ra, consumed, promised, plain

vars == << ra, consumed, promised, plain >>

\* The n bytes of the stream from index first on (indices count from 0).
Slice(first, n) == SubSeq(Stream, first + 1, first + n)
Length == Len(Stream)

Init == /\ ra = NewReassembler(Capacity)
        /\ consumed = << >>
        /\ promised = {}
        /\ plain = TRUE

InsertSlice(first, n, is_last_substring) ==
  /\ ra' = Insert(ra, first, Slice(first, n), is_last_substring)
  /\ promised' = promised \cup (first .. MinOf(first + n, WindowEnd(ra)) - 1)
  /\ plain' = (plain /\ n > 0 /\ (first + n = Length => is_last_substring))
  /\ UNCHANGED consumed

ReaderPop(len) ==
  /\ ra' = [ra EXCEPT !.output = Pop(@, len)]
  /\ consumed' = consumed \o Take(ra.output.buffer, Removed(ra.output, len))
  /\ UNCHANGED << promised, plain >>

\* Only a substring that ends where the stream ends may be called the last, and
\* it may come without the flag.
Next ==
  \/ \E first \in 0 .. Length :
       \E n \in 0 .. Length - first, last \in BOOLEAN :
         /\ last => first + n = Length
         /\ InsertSlice(first, n, last)
  \/ \E len \in Nat : ReaderPop(len)

Spec == Init /\ [][Next]_vars

-----------------------------------------------------------------------------
(* Properties *)

\* However the substrings overlap and are cut and merged, what the reader was
\* and will be given is the beginning of the stream, up to next_index_, and the
\* output is closed only when the whole stream was written to it.
OutputIsPrefix == consumed \o ra.output.buffer = Take(Stream, ra.next_index)
ClosedMeansComplete ==
  /\ ra.eof_flag => ra.eof_index = Length
  /\ ra.output.is_closed => ra.eof_flag /\ ra.next_index = Length
OutputIsStream == OutputIsPrefix /\ ClosedMeansComplete

\* Every segment that waits in unassembled_segments_ holds the bytes of the
\* stream at its index, merged and truncated segments too; it waits for an
\* earlier byte and shares no index with another: the loops over
\* overlapping_indices and in try_assemble rely on it.
StoredAreTrue ==
  \A k \in DOMAIN ra.segments :
    /\ End(ra.segments, k) <= Length
    /\ ra.segments[k] = Slice(k, Len(ra.segments[k]))
    /\ k > ra.next_index
    /\ \A j \in DOMAIN ra.segments : k < j => End(ra.segments, k) <= j

StoredIndices == IndicesOf(ra.segments, DOMAIN ra.segments)

\* reassembler.hh:37-39: a byte that fit the available capacity when it was
\* inserted is kept, in the output or in a stored segment.
NothingLost == promised \subseteq (0 .. ra.next_index - 1) \cup StoredIndices

\* reassembler.hh:34-39: and it is written as soon as it is the next one.
PromisesKept == NothingLost /\ ra.next_index \notin promised

\* reassembler.hh:59-62: bytes_pending_ is the number of bytes stored, which
\* twice the capacity bounds whatever substrings come.
PendingCount ==
  /\ ra.bytes_pending = SizeOf(ra.segments, DOMAIN ra.segments)
  /\ ra.bytes_pending <= 2 * Capacity

\* A byte that fit the available capacity when it was inserted is kept and
\* written as soon as it is the next one, and bytes_pending_ is right, if no
\* substring was empty.
PlainPromisesKept == plain => PromisesKept /\ PendingCount
==============================================================================
