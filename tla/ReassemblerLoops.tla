--------------------------- MODULE ReassemblerLoops ---------------------------
(***************************************************************************)
(* insert() with its two loops written as loops over the stored segments   *)
(* in the order of their indices (std::map), to be compared with the       *)
(* results that ReassemblerOps gives for them.                             *)
(***************************************************************************)
EXTENDS Reassembler

InOrder(K) == SetToSortSeq(K, <)

\* try_assemble, reassembler.cc:62-98: the first segment is taken as long as
\* it begins at or before next_index_.
AssembleOne(st, k) ==
  LET offset == st.next_index - k
      data == st.segments[k]
      pushed == IF offset >= Len(data) THEN st ELSE PushOutput(st, Drop(data, offset))
  IN  IF k > st.next_index
      THEN st
      ELSE [pushed EXCEPT !.segments = Without(@, {k}), !.bytes_pending = @ - Len(data)]

TryAssembleLoop(st) == FoldLeft(AssembleOne, st, InOrder(DOMAIN st.segments))

\* The loop over overlapping_indices, reassembler.cc:186-239, on the triple of
\* the reassembler, the new segment's first index and its bytes.
MergeOne(acc, k) ==
  LET old == acc.st.segments[k]
      first == acc.first
      last == first + Len(acc.data) - 1
      old_last == k + Len(old) - 1
      erased == [acc.st EXCEPT !.segments = Without(@, {k}), !.bytes_pending = @ - Len(old)]
  IN  IF acc.returned THEN acc
      ELSE IF first >= k /\ last <= old_last THEN [acc EXCEPT !.returned = TRUE]
      ELSE IF first < k /\ last > old_last THEN [acc EXCEPT !.st = erased]
      ELSE IF first < k
      THEN [acc EXCEPT !.st = erased,
                       !.data = @ \o Drop(old, MinOf(last - k + 1, Len(old)))]
      ELSE [acc EXCEPT !.st = erased, !.first = k,
                       !.data = old \o Drop(@, MinOf(old_last - first + 1, Len(@)))]

StoreSegmentLoop(st, first, data) ==
  LET K == Overlapping(st.segments, first, data)
      end == FoldLeft(MergeOne, [st |-> st, first |-> first, data |-> data, returned |-> FALSE],
                      InOrder(K))
      room == Room(st, end.first)
  IN  IF first > WindowEnd(st) THEN st
      ELSE IF K = {} THEN StoreAlone(st, first, data)
      ELSE IF end.returned THEN end.st
      ELSE IF Len(end.data) + end.st.bytes_pending <= AvailableCapacity(st.output)
      THEN StoreAt(end.st, end.first, end.data)
      ELSE IF room = 0 THEN end.st
      ELSE StoreAt(end.st, end.first, Take(end.data, MinOf(room, Len(end.data))))

\* The two loops and the results that stand for them agree on every
\* reassembler the program reaches and every substring it may be given next;
\* the output may also have failed meanwhile, as after a RST.
LoopsAgree ==
  \A st \in {ra, [ra EXCEPT !.output = SetError(@)]} :
    /\ \A first \in 0 .. Length : \A n \in 0 .. Length - first :
         /\ first > st.next_index =>
              StoreSegmentLoop(st, first, Slice(first, n)) = StoreSegment(st, first, Slice(first, n))
         /\ first <= st.next_index /\ st.next_index <= first + n =>
              LET pushed == PushOutput(st, Drop(Slice(first, n), st.next_index - first))
              IN  TryAssembleLoop(pushed) = TryAssemble(pushed)
===============================================================================
