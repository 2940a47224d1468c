---------------------------- MODULE ReassemblerOps ----------------------------
(***************************************************************************)
(* A Reassembler as a value (src/minnow/src/reassembler.hh) and the        *)
(* operators that insert() is made of (reassembler.cc).  segments is       *)
(* unassembled_segments_, a map from the index of a segment's first byte   *)
(* to its bytes.  The two loops of the code, over the overlapping segments *)
(* and over the segments that can be written, are given by their results;  *)
(* ReassemblerLoops has them as loops, and a run compares the two.         *)
(***************************************************************************)
EXTENDS ByteStreamOps, FiniteSetsExt

MaxOf(m, n) == IF m >= n THEN m ELSE n

NewReassembler(capacity) ==
  [ output |-> NewByteStream(capacity), segments |-> << >>,
    next_index |-> 0, bytes_pending |-> 0, eof_flag |-> FALSE, eof_index |-> 0 ]

\* One past the last byte of the stored segment k.
End(segs, k) == k + Len(segs[k])

\* The bytes of the stored segments K, which share none (StoredAreTrue), so that
\* their number is the sum of the segments' sizes.
IndicesOf(segs, K) == UNION { k .. End(segs, k) - 1 : k \in K }
SizeOf(segs, K) == Cardinality(IndicesOf(segs, K))

Without(segs, K) == [k \in DOMAIN segs \ K |-> segs[k]]
With(segs, k, data) ==
  [j \in DOMAIN segs \cup {k} |-> IF j = k THEN data ELSE segs[j]]

\* One past the last index that the output could take now.
WindowEnd(ra) == ra.next_index + AvailableCapacity(ra.output)
Room(ra, first) == IF first < WindowEnd(ra) THEN WindowEnd(ra) - first ELSE 0

-------------------------------------------------------------------------------
\* A fault of push_output: next_index_ moves by the bytes offered, not by those
\* that there was space for.
PushOutputOffered(ra, data) ==
  [ra EXCEPT !.output = Push(@, data), !.next_index = @ + Len(data)]

\* push_output: the stream may refuse the bytes (closed or broken), next_index_
\* moves past them all the same.
PushOutput(ra, data) ==
  LET pushed == Take(data, MinOf(Len(data), AvailableCapacity(ra.output)))
  IN  [ra EXCEPT !.output = Push(@, pushed), !.next_index = @ + Len(pushed)]

\* A simplification of the limit that forgets the stream that takes nothing.
LimitOpen(ra, k) == WindowEnd(ra)

\* try_assemble writes the stored bytes that continue the output.  A stream
\* that takes bytes has less space after each segment, so that the limit is
\* the window's end; one that refuses them shows every segment the same space.
Limit(ra, k) ==
  IF ra.output.is_closed \/ ra.output.error
  THEN MaxOf(k, ra.next_index) + AvailableCapacity(ra.output)
  ELSE WindowEnd(ra)

Covers(ra, k, p) == /\ k <= p
                    /\ p < MinOf(End(ra.segments, k), Limit(ra, k))

\* How far the stored segments reach from next_index_ without a gap.
Frontier(ra) ==
  LET ends == { MinOf(End(ra.segments, k), Limit(ra, k)) : k \in DOMAIN ra.segments }
  IN  Max({ n \in {ra.next_index} \cup ends :
              /\ n >= ra.next_index
              /\ \A p \in ra.next_index .. n - 1 :
                   \E k \in DOMAIN ra.segments : Covers(ra, k, p) })

StoredByte(ra, p) ==
  LET k == CHOOSE k \in DOMAIN ra.segments : Covers(ra, k, p)
  IN  ra.segments[k][p - k + 1]

\* A fault of insert: the stored segments are not looked at after a write.
TryAssembleForgotten(ra) == ra

TryAssemble(ra) ==
  LET next == ra.next_index
      reach == Frontier(ra)
      used == { k \in DOMAIN ra.segments : k <= reach }
  IN  [ra EXCEPT !.output = Push(@, [i \in 1 .. reach - next |-> StoredByte(ra, next + i - 1)]),
                 !.segments = Without(@, used),
                 !.next_index = reach,
                 !.bytes_pending = @ - SizeOf(ra.segments, used)]

-------------------------------------------------------------------------------
\* A fault of the search for overlaps: an older segment that begins before the
\* new one is missed.
OverlappingRight(segs, first, data) ==
  { k \in DOMAIN segs : first <= k /\ k < first + Len(data) }

\* store_segment: the segments that share a byte with the new one.  The code
\* compares last bytes; these are the same comparisons on ends.
Overlapping(segs, first, data) ==
  { k \in DOMAIN segs : k < first + Len(data) /\ first < End(segs, k) }

\* A fault of the merge: what lies to the left of the new segment is dropped.
MergedFirstNew(segs, first, K) == first

\* The union of the new segment and those it overlaps: an older segment to
\* the left keeps its bytes, the new bytes win over the others.
MergedFirst(segs, first, K) == Min({first} \cup K)
MergedEnd(segs, first, data, K) ==
  Max({first + Len(data)} \cup { End(segs, k) : k \in K })
MergedByte(segs, first, data, K, p) ==
  LET old == { k \in K : k <= p /\ p < End(segs, k) }
      left == { k \in old : k <= first }
      ByteOf(k) == segs[k][p - k + 1]
  IN  IF left # {} THEN ByteOf(CHOOSE k \in left : TRUE)
      ELSE IF first <= p /\ p < first + Len(data) THEN data[p - first + 1]
      ELSE ByteOf(CHOOSE k \in old : TRUE)
Merged(segs, first, data, K) ==
  LET from == MergedFirst(segs, first, K)
  IN  [i \in 1 .. MergedEnd(segs, first, data, K) - from |->
         MergedByte(segs, first, data, K, from + i - 1)]

\* unassembled_segments_[first] = data, with its bytes counted.
StoreAt(ra, first, data) ==
  [ra EXCEPT !.segments = With(@, first, data), !.bytes_pending = @ + Len(data)]

\* No overlap: the prefix that fits the window is stored, even an empty one
\* when the data is empty, but not when no byte of it fits.
StoreAlone(ra, first, data) ==
  IF Room(ra, first) = 0 /\ data # << >>
  THEN ra
  ELSE StoreAt(ra, first, Take(data, MinOf(Len(data), Room(ra, first))))

\* Overlap: the older segments give way to the union, which is cut to the
\* window only when the bytes stored would exceed the space of the output.
StoreMerged(ra, first, data, K) ==
  LET from == MergedFirst(ra.segments, first, K)
      union == Merged(ra.segments, first, data, K)
      rest == [ra EXCEPT !.segments = Without(@, K),
                         !.bytes_pending = @ - SizeOf(ra.segments, K)]
  IN  IF Len(union) + rest.bytes_pending <= AvailableCapacity(ra.output)
      THEN StoreAt(rest, from, union)
      ELSE IF Room(ra, from) = 0
      THEN rest
      ELSE StoreAt(rest, from, Take(union, MinOf(Len(union), Room(ra, from))))

StoreSegment(ra, first, data) ==
  LET K == Overlapping(ra.segments, first, data)
      known == \E k \in K : k <= first /\ first + Len(data) <= End(ra.segments, k)
  IN  IF first > WindowEnd(ra) \/ known THEN ra
      ELSE IF K = {} THEN StoreAlone(ra, first, data)
      ELSE StoreMerged(ra, first, data, K)

-------------------------------------------------------------------------------
CloseAtEof(ra) ==
  IF ra.eof_flag /\ ra.next_index = ra.eof_index
  THEN [ra EXCEPT !.output = Close(@)]
  ELSE ra

\* The last substring fixes the end of the stream, by its size before it is cut.
NoteEof(ra, first, data, is_last_substring) ==
  IF is_last_substring
  THEN [ra EXCEPT !.eof_flag = TRUE, !.eof_index = first + Len(data)]
  ELSE ra

\* insert: a substring that is old in full returns before the stream could be
\* closed.
Insert(ra, first, data, is_last_substring) ==
  LET noted == NoteEof(ra, first, data, is_last_substring)
      next == ra.next_index
      kept == IF is_last_substring /\ first > next
              THEN Take(data, MinOf(Len(data), Room(ra, first)))
              ELSE data
  IN  IF first < next /\ first + Len(data) <= next THEN noted
      ELSE IF first <= next
      THEN CloseAtEof(TryAssemble(PushOutput(noted, Drop(data, next - first))))
      ELSE CloseAtEof(StoreSegment(noted, first, kept))

IncrementNextIndex(ra) == [ra EXCEPT !.next_index = @ + 1]
===============================================================================
