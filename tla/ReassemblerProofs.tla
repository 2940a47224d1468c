-------------------------- MODULE ReassemblerProofs --------------------------
(***************************************************************************)
(* For every stream, every capacity and every substrings in any order,     *)
(* overlapping, repeated or empty: what a Reassembler writes is the stream *)
(* from its beginning, what it stores is true, and it closes its output at *)
(* the end of the stream only (OutputIsStream, StoredAreTrue).  And while  *)
(* no substring is empty, it keeps what it promised (PlainPromisesKept).   *)
(***************************************************************************)
EXTENDS Reassembler, ValueLemmas, FiniteSetTheorems

IInv ==
  /\ consumed \in Seq(ToSet(Stream))
  /\ Sound(Stream, ra, consumed)
  /\ AllWait(ra)
  /\ ra.eof_flag => ra.eof_index = Length
  /\ \A k \in DOMAIN ra.segments : k <= Length

LEMMA StreamIsStream == IsStream(Stream) /\ Length \in Nat
BY StreamAssumption, SeqOfElements, LenProperties DEF IsStream, Length

\* insert() stores what it is given where it begins, or where what it joins did.
LEMMA StoredWhereInserted ==
  ASSUME NEW st, NEW r, NEW read \in Seq(ToSet(st)), NEW first \in Nat, NEW data,
         NEW last \in BOOLEAN,
         IsStream(st), Sound(st, r, read), AllWait(r), IsSlice(st, data, first),
         last => first + Len(data) = Len(st)
  PROVE  DOMAIN Insert(r, first, data, last).segments \subseteq DOMAIN r.segments \cup {first}
<1> DEFINE noted == NoteEof(r, first, data, last)
           next == r.next_index
           kept == IF last /\ first > next
                   THEN Take(data, MinOf(Len(data), Room(r, first)))
                   ELSE data
           rest == Drop(data, next - first)
           D == DOMAIN r.segments \cup {first}
<1>1. /\ next \in Nat /\ Len(data) \in Nat /\ SegmentsOK(st, r.segments)
      /\ WindowEnd(r) = next + AvailableCapacity(r.output)
      /\ AvailableCapacity(r.output) \in Nat
  BY SoundFacts, LenProperties DEF IsSlice
<1>2. /\ Sound(st, noted, read) /\ AllWait(noted) /\ IsReassembler(st, noted)
      /\ noted.next_index = next /\ noted.segments = r.segments
  BY <1>1, NoteEofIsSound DEF Noted, Sound
<1>i. Insert(r, first, data, last) =
        IF first < next /\ first + Len(data) <= next THEN noted
        ELSE IF first <= next
        THEN CloseAtEof(TryAssemble(PushOutput(noted, rest)))
        ELSE CloseAtEof(StoreSegment(noted, first, kept))
  BY DEF Insert
<1>c. ASSUME NEW q, IsReassembler(st, q) PROVE CloseAtEof(q).segments = q.segments
  BY <1>c DEF IsReassembler, CloseAtEof
<1> HIDE DEF noted, next, kept, rest
<1>3. CASE first <= next /\ ~(first < next /\ first + Len(data) <= next)
  <2> DEFINE pushed == PushOutput(noted, rest)
             assembled == TryAssemble(pushed)
  <2>1. next - first \in 0 .. Len(data) /\ first + (next - first) = next
    BY <1>1, <1>3
  <2>2. IsSlice(st, rest, next)
    <3>1. IsSlice(st, rest, first + (next - first))
      BY <2>1, CutSlice DEF rest
    <3> QED
      BY <2>1, <3>1
  <2>3. Sound(st, pushed, read) /\ IsReassembler(st, pushed) /\ pushed.segments = r.segments
    <3>1. Sound(st, pushed, read)
      BY <1>2, <2>2, PushOutputIsSound
    <3>2. pushed.segments = r.segments
      BY <1>2 DEF PushOutput, IsReassembler
    <3> QED
      BY <3>1, <3>2 DEF Sound
  <2> HIDE DEF pushed
  <2>4. Step(st, read, pushed, assembled)
    BY <2>3, TryAssembleIsSound
  <2>5. DOMAIN assembled.segments \subseteq DOMAIN pushed.segments
    BY <2>3 DEF TryAssemble, Without, IsReassembler
  <2> HIDE DEF assembled
  <2>6. CloseAtEof(assembled).segments = assembled.segments
    BY <1>c, <2>4 DEF Step, Sound
  <2> QED
    BY <1>3, <1>i, <2>3, <2>5, <2>6 DEF pushed, assembled
<1>4. CASE ~(first <= next)
  <2> DEFINE stored == StoreSegment(noted, first, kept)
             K == Overlapping(noted.segments, first, kept)
             from == MergedFirst(noted.segments, first, K)
  <2>1. IsSlice(st, kept, first)
    <3>1. MinOf(Len(data), Room(r, first)) \in 0 .. Len(data)
      BY <1>1 DEF MinOf, Room, next
    <3>2. IsSlice(st, Take(data, MinOf(Len(data), Room(r, first))), first)
      BY <3>1, CutSlice
    <3> QED
      BY <3>2 DEF kept
  <2>2. Step(st, read, noted, stored)
    <3>1. first > noted.next_index
      BY <1>1, <1>2, <1>4
    <3> QED
      BY <1>2, <2>1, <3>1, StoreSegmentIsSound
  <2>3. from \in {first} \cup K
    BY <1>1, <1>2, <2>1, MergedIsSlice, SMTT(30)
  <2>4. K \subseteq DOMAIN r.segments
    BY <1>2 DEF Overlapping
  <2> HIDE DEF K, from
  <2>5. DOMAIN stored.segments \subseteq D
    <3> DEFINE left == [noted EXCEPT !.segments = Without(@, K),
                                     !.bytes_pending = @ - SizeOf(noted.segments, K)]
    <3>1. \/ stored \in {noted, left}
          \/ \E d : stored \in {StoreAt(noted, first, d), StoreAt(left, from, d)}
      BY DEF StoreSegment, StoreAlone, StoreMerged, K, from
    <3>2. /\ DOMAIN left.segments \subseteq DOMAIN r.segments
          /\ "segments" \in DOMAIN left /\ "segments" \in DOMAIN noted
      BY <1>2 DEF Without, IsReassembler
    <3>3. ASSUME NEW q, "segments" \in DOMAIN q, NEW at, NEW d
          PROVE  DOMAIN StoreAt(q, at, d).segments = DOMAIN q.segments \cup {at}
      BY <3>3 DEF StoreAt, With
    <3> DEFINE a(d) == StoreAt(noted, first, d)
               b(d) == StoreAt(left, from, d)
    <3>4. \A d : DOMAIN a(d).segments \subseteq D /\ DOMAIN b(d).segments \subseteq D
      <4> HIDE DEF left
      <4> TAKE d
      <4>1. DOMAIN a(d).segments \subseteq D
        BY <1>2, <3>2, <3>3
      <4>2. DOMAIN b(d).segments \subseteq D
        BY <2>3, <2>4, <3>2, <3>3
      <4> QED
        BY <4>1, <4>2
    <3>5. DOMAIN noted.segments \subseteq D /\ DOMAIN left.segments \subseteq D
      BY <1>2, <3>2
    <3>6. stored \in {noted, left} \/ \E d : stored \in {a(d), b(d)}
      BY <3>1
    <3> HIDE DEF left, stored, a, b
    <3> QED
      BY <3>4, <3>5, <3>6
  <2> HIDE DEF stored
  <2>6. CloseAtEof(stored).segments = stored.segments
    BY <1>c, <2>2 DEF Step, Sound
  <2>7. ~(first < next /\ first + Len(data) <= next)
    BY <1>1, <1>4
  <2> QED
    BY <1>4, <1>i, <2>5, <2>6, <2>7 DEF stored
<1> QED
  BY <1>2, <1>3, <1>4, <1>i

THEOREM ReassemblerIsSound == Spec => []IInv
<1>1. Init => IInv
  <2> SUFFICES ASSUME Init PROVE IInv
    OBVIOUS
  <2>1. ra = NewReassembler(Capacity) /\ consumed = << >>
    BY DEF Init
  <2>2. Sound(Stream, ra, consumed) /\ AllWait(ra)
    BY <2>1, CapacityAssumption, StreamIsStream, NewIsSound
  <2>3. ~ra.eof_flag /\ consumed \in Seq(ToSet(Stream)) /\ DOMAIN ra.segments = {}
    BY <2>1, EmptySeq DEF NewReassembler
  <2> QED
    BY <2>2, <2>3 DEF IInv
<1>2. IInv /\ [Next]_vars => IInv'
  <2> SUFFICES ASSUME IInv, [Next]_vars PROVE IInv'
    OBVIOUS
  <2>1. /\ consumed \in Seq(ToSet(Stream)) /\ Sound(Stream, ra, consumed) /\ AllWait(ra)
        /\ ra.eof_flag => ra.eof_index = Length
        /\ \A k \in DOMAIN ra.segments : k <= Length
    BY DEF IInv
  <2>2. ASSUME NEW first \in 0 .. Length, NEW n \in 0 .. Length - first, NEW last \in BOOLEAN,
               last => first + n = Length, InsertSlice(first, n, last)
        PROVE  IInv'
    <3> DEFINE data == Slice(first, n)
               noted == NoteEof(ra, first, data, last)
               q == Insert(ra, first, data, last)
    <3>1. first \in Nat /\ n \in Nat /\ first + n <= Len(Stream)
      BY StreamIsStream DEF Length
    <3>2. IsSlice(Stream, data, first) /\ Len(data) = n
      BY <3>1, StreamIsStream, SliceIsSlice DEF Slice
    <3>3. ra' = q /\ consumed' = consumed
      BY <2>2 DEF InsertSlice
    <3> HIDE DEF data
    <3>4. last => first + Len(data) = Len(Stream)
      BY <2>2, <3>2 DEF Length
    <3>5. Step(Stream, consumed, noted, q)
      BY <2>1, <3>1, <3>2, <3>4, StreamIsStream, InsertIsSound
    <3>6. Noted(ra, noted, last, first + Len(data))
      BY <2>1, <3>1, <3>2, <3>4, StreamIsStream, NoteEofIsSound
    <3> HIDE DEF noted
    <3>8. DOMAIN q.segments \subseteq DOMAIN ra.segments \cup {first}
      BY <2>1, <3>1, <3>2, <3>4, StreamIsStream, StoredWhereInserted
    <3> HIDE DEF q
    <3>9. \A k \in DOMAIN q.segments : k <= Length
      BY <2>1, <3>1, <3>8 DEF Length
    <3>7. ra'.eof_flag => ra'.eof_index = Length
      BY <2>1, <3>3, <3>4, <3>5, <3>6 DEF Step, Onward, Noted, Length
    <3> QED
      BY <2>1, <3>3, <3>5, <3>7, <3>9 DEF IInv, Step
  <2>3. ASSUME NEW len \in Nat, ReaderPop(len) PROVE IInv'
    <3> DEFINE q == AfterPop(ra, len)
               now == ReadAfterPop(ra, consumed, len)
    <3>1. ra' = q /\ consumed' = now
      BY <2>3 DEF ReaderPop, AfterPop, ReadAfterPop
    <3>2. /\ now \in Seq(ToSet(Stream)) /\ Sound(Stream, q, now) /\ AllWait(q)
          /\ PopStep(ra, q)
      BY <2>1, StreamIsStream, PopIsSound
    <3>3. q.segments = ra.segments
      BY <2>1 DEF AfterPop, Sound, IsReassembler
    <3> HIDE DEF q, now
    <3> QED
      BY <2>1, <3>1, <3>2, <3>3 DEF IInv, PopStep
  <2>4. CASE UNCHANGED vars
    BY <2>1, <2>4 DEF IInv, vars
  <2> QED
    BY <2>2, <2>3, <2>4 DEF Next
<1> QED
  BY <1>1, <1>2, PTL DEF Spec

\* What the reader was and will be given is the beginning of the stream, up to
\* next_index_, and the output is closed only when all of it was written.
THEOREM OutputCorrect == Spec => []OutputIsStream
<1>1. IInv => OutputIsStream
  <2> SUFFICES ASSUME IInv PROVE OutputIsStream
    OBVIOUS
  <2> DEFINE all == consumed \o ra.output.buffer
             n == ra.next_index
  <2>1. /\ consumed \in Seq(ToSet(Stream)) /\ Sound(Stream, ra, consumed)
        /\ ra.eof_flag => ra.eof_index = Length
    BY DEF IInv
  <2>2. /\ n \in Nat /\ n <= Len(Stream) /\ OutputOK(Stream, ra.output)
        /\ ra.output.is_closed => ra.eof_flag /\ ra.next_index = Length
    BY <2>1, StreamIsStream, SoundFacts DEF Length
  <2>3. IsSlice(Stream, all, 0) /\ Len(all) = n
    BY <2>1, <2>2, ConcatProperties DEF Sound, OutputOK, ByteStreams
  <2>4. Take(Stream, n) = Slice(0, n)
    <3>1. 0 + 1 = 1 /\ 0 + n = n
      BY <2>2
    <3> QED
      BY <3>1 DEF Take, Slice
  <2>5. IsSlice(Stream, Slice(0, n), 0) /\ Len(Slice(0, n)) = n
    <3>1. 0 \in Nat /\ 0 + n <= Len(Stream)
      BY <2>2
    <3> HIDE DEF n
    <3> QED
      BY <2>2, <3>1, StreamIsStream, SliceIsSlice DEF Slice
  <2>6. all = Slice(0, n)
    BY <2>3, <2>5, SlicesAgree
  <2> QED
    BY <2>1, <2>2, <2>4, <2>6 DEF OutputIsStream, OutputIsPrefix, ClosedMeansComplete
<1> QED
  BY <1>1, ReassemblerIsSound, PTL

\* Every segment that waits in unassembled_segments_ holds the bytes of the
\* stream at its index, waits for an earlier byte and overlaps no other.
THEOREM StoredCorrect == Spec => []StoredAreTrue
<1>1. IInv => StoredAreTrue
  <2> SUFFICES ASSUME IInv, NEW k \in DOMAIN ra.segments
               PROVE  /\ End(ra.segments, k) <= Length
                      /\ ra.segments[k] = Slice(k, Len(ra.segments[k]))
                      /\ k > ra.next_index
                      /\ \A j \in DOMAIN ra.segments : k < j => End(ra.segments, k) <= j
    BY DEF StoredAreTrue
  <2> DEFINE seg == ra.segments[k]
             n == Len(seg)
  <2>1. SegmentsOK(Stream, ra.segments) /\ AllWait(ra)
    BY DEF IInv, Sound
  <2>2. /\ IsSlice(Stream, seg, k) /\ k \in Nat /\ n \in Nat /\ End(ra.segments, k) = k + n
        /\ End(ra.segments, k) <= Length
    <3>1. k \in Nat /\ End(ra.segments, k) = k + n /\ n \in Nat /\ End(ra.segments, k) <= Len(Stream)
      <4>1. /\ k \in Nat /\ End(ra.segments, k) = k + n /\ n \in Nat
            /\ k < End(ra.segments, k) => End(ra.segments, k) <= Len(Stream)
        <5> DEFINE segs == ra.segments
        <5>1. SegmentsOK(Stream, segs) /\ k \in DOMAIN segs
          BY <2>1
        <5> HIDE DEF segs
        <5>2. /\ k \in Nat /\ End(segs, k) = k + Len(segs[k]) /\ Len(segs[k]) \in Nat
              /\ k < End(segs, k) => End(segs, k) <= Len(Stream)
          BY <5>1, SegmentFacts
        <5> QED
          BY <5>2 DEF segs
      <4>2. k <= Len(Stream)
        BY DEF IInv, Length
      <4> QED
        BY <4>1, <4>2
    <3>2. IsSlice(Stream, seg, k)
      BY <2>1 DEF SegmentsOK
    <3> QED
      BY <3>1, <3>2 DEF Length
  <2>3. k + n <= Length
    BY <2>2
  <2>4. IsSlice(Stream, Slice(k, n), k) /\ Len(Slice(k, n)) = n
    BY <2>2, <2>3, StreamIsStream, SliceIsSlice DEF Slice, Length
  <2> HIDE DEF seg
  <2>5. seg = Slice(k, n)
    BY <2>2, <2>4, SlicesAgree
  <2> QED
    BY <2>1, <2>2, <2>5 DEF SegmentsOK, AllWait, seg
<1> QED
  BY <1>1, ReassemblerIsSound, PTL

-----------------------------------------------------------------------------
(* What nothing is lost of *)

\* Every stored segment begins in the window, or is empty and begins at its
\* end; none reaches further beyond it than a full output; and the pending bytes
\* are those of the stored segments.
Tidy(r) ==
  /\ \A k \in DOMAIN r.segments :
       /\ k <= WindowEnd(r) /\ End(r.segments, k) <= WindowEnd(r) + Capacity
       /\ k < End(r.segments, k) => k < WindowEnd(r)
  /\ r.bytes_pending = SizeOf(r.segments, DOMAIN r.segments)

\* The byte p was written, or is stored.
Holds(r, p) == p < r.next_index \/ p \in IndicesOf(r.segments, DOMAIN r.segments)

\* A step from r to q drops no byte of the window and leaves the window's end.
Keeps(r, q) ==
  /\ WindowEnd(q) = WindowEnd(r)
  /\ \A p \in Nat : p < WindowEnd(r) /\ Holds(r, p) => Holds(q, p)
  /\ Tidy(r) => Tidy(q)

\* All that was promised lies in the window, which never moves back, and is held.
KeptInv ==
  /\ ra.output.capacity = Capacity
  /\ promised \subseteq 0 .. WindowEnd(ra) - 1
  /\ plain => Tidy(ra) /\ \A p \in promised : Holds(ra, p)

-----------------------------------------------------------------------------
(* The indices of stored segments *)

LEMMA IndicesAreFinite ==
  ASSUME NEW segs, SegmentsOK(Stream, segs), NEW K \in SUBSET DOMAIN segs
  PROVE  /\ IndicesOf(segs, K) \subseteq 0 .. Length - 1
         /\ IsFiniteSet(IndicesOf(segs, K)) /\ SizeOf(segs, K) \in Nat
<1>1. IndicesOf(segs, K) \subseteq 0 .. Length - 1
  <2>1. ASSUME NEW k \in K, NEW p \in k .. End(segs, k) - 1 PROVE p \in 0 .. Length - 1
    BY StreamIsStream, SegmentFacts DEF Length
  <2> QED
    BY <2>1 DEF IndicesOf
<1>2. IsFiniteSet(0 .. Length - 1)
  BY StreamIsStream, FS_Interval
<1>3. IsFiniteSet(IndicesOf(segs, K))
  BY <1>1, <1>2, FS_Subset
<1> QED
  BY <1>1, <1>3, FS_CardinalityType DEF SizeOf

\* Segments that are taken out take their own bytes along and no others.
LEMMA FewerIndices ==
  ASSUME NEW segs, SegmentsOK(Stream, segs), NEW K \in SUBSET DOMAIN segs
  PROVE  LET left == Without(segs, K)
         IN  /\ IndicesOf(left, DOMAIN left) = IndicesOf(segs, DOMAIN segs) \ IndicesOf(segs, K)
             /\ SizeOf(left, DOMAIN left) = SizeOf(segs, DOMAIN segs) - SizeOf(segs, K)
<1> DEFINE left == Without(segs, K)
           all == IndicesOf(segs, DOMAIN segs)
           taken == IndicesOf(segs, K)
<1>1. DOMAIN left = DOMAIN segs \ K /\ \A k \in DOMAIN left : End(left, k) = End(segs, k)
  BY DEF Without, End
<1>2. ASSUME NEW j \in DOMAIN segs \ K, NEW k \in K,
             NEW p \in j .. End(segs, j) - 1, p \in k .. End(segs, k) - 1
      PROVE  FALSE
  <2>1. j \in Nat /\ k \in Nat /\ End(segs, j) \in Nat /\ End(segs, k) \in Nat /\ j # k
    BY SegmentFacts
  <2>2. j < k => End(segs, j) <= k
    BY DEF SegmentsOK
  <2>3. k < j => End(segs, k) <= j
    BY DEF SegmentsOK
  <2> QED
    BY <1>2, <2>1, <2>2, <2>3
<1>3. IndicesOf(left, DOMAIN left) = all \ taken
  <2> HIDE DEF left
  <2>1. \A p : p \in IndicesOf(left, DOMAIN left) <=>
               \E k \in DOMAIN segs \ K : p \in k .. End(segs, k) - 1
    BY <1>1 DEF IndicesOf
  <2>2. \A p : p \in all \ taken <=> \E k \in DOMAIN segs \ K : p \in k .. End(segs, k) - 1
    BY <1>2 DEF IndicesOf
  <2> QED
    BY <2>1, <2>2
<1>4. IsFiniteSet(all) /\ all \cap taken = taken
  <2>1. IsFiniteSet(all)
    BY IndicesAreFinite
  <2>2. taken \subseteq all
    BY DEF IndicesOf
  <2> QED
    BY <2>1, <2>2
<1>5. Cardinality(all \ taken) = Cardinality(all) - Cardinality(taken)
  <2> HIDE DEF all, taken
  <2> QED
    BY <1>4, FS_Difference
<1> QED
  BY <1>3, <1>5 DEF SizeOf

\* A segment that joins the others, clear of them, adds its own bytes; one at the
\* same index may only have been empty.
LEMMA OneMoreIndices ==
  ASSUME NEW segs, SegmentsOK(Stream, segs), NEW at \in Nat, NEW data, Len(data) \in Nat,
         \A k \in DOMAIN segs \ {at} : k >= at + Len(data) \/ End(segs, k) <= at,
         at \in DOMAIN segs => End(segs, at) <= at
  PROVE  LET more == With(segs, at, data)
             added == at .. at + Len(data) - 1
         IN  /\ IndicesOf(more, DOMAIN more) = IndicesOf(segs, DOMAIN segs) \cup added
             /\ SizeOf(more, DOMAIN more) = SizeOf(segs, DOMAIN segs) + Len(data)
<1> DEFINE more == With(segs, at, data)
           all == IndicesOf(segs, DOMAIN segs)
           added == at .. at + Len(data) - 1
<1>1. /\ DOMAIN more = DOMAIN segs \cup {at}
      /\ \A k \in DOMAIN segs \ {at} : End(more, k) = End(segs, k)
      /\ End(more, at) = at + Len(data)
  BY DEF With, End
<1>2. \A k \in DOMAIN segs : k \in Nat /\ End(segs, k) \in Nat
  BY SegmentFacts
<1>3. IndicesOf(more, DOMAIN more) = all \cup added
  <2> HIDE DEF more, added
  <2>1. \A p : p \in IndicesOf(more, DOMAIN more) <=>
               \/ \E k \in DOMAIN segs \ {at} : p \in k .. End(segs, k) - 1
               \/ p \in added
    BY <1>1 DEF IndicesOf, added
  <2>2. at \in DOMAIN segs => \A p : p \notin at .. End(segs, at) - 1
    BY <1>2
  <2>3. \A p : p \in all <=> \E k \in DOMAIN segs \ {at} : p \in k .. End(segs, k) - 1
    BY <2>2 DEF IndicesOf
  <2> QED
    BY <2>1, <2>3
<1>4. all \cap added = {}
  <2>1. ASSUME NEW k \in DOMAIN segs, NEW p \in k .. End(segs, k) - 1 PROVE p \notin added
    BY <1>2
  <2> QED
    BY <2>1 DEF IndicesOf
<1>5. IsFiniteSet(all) /\ Cardinality(all) \in Nat
  BY IndicesAreFinite, FS_CardinalityType
<1>6. IsFiniteSet(added) /\ Cardinality(added) = Len(data)
  <2> DEFINE last == at + Len(data) - 1
  <2>1. last \in Int /\ at \in Int /\ last - at + 1 = Len(data) /\ (at > last <=> Len(data) = 0)
    OBVIOUS
  <2> HIDE DEF last
  <2>2. /\ IsFiniteSet(at .. last)
        /\ Cardinality(at .. last) = IF at > last THEN 0 ELSE last - at + 1
    BY <2>1, FS_Interval
  <2>3. Cardinality(at .. last) = Len(data)
    BY <2>1, <2>2
  <2> QED
    BY <2>2, <2>3 DEF last
<1>7. Cardinality(all \cup added) = Cardinality(all) + Len(data)
  <2> HIDE DEF all, added
  <2>1. Cardinality(all \cup added) = Cardinality(all) + Cardinality(added) - Cardinality({})
    BY <1>4, <1>5, <1>6, FS_Union
  <2> QED
    BY <1>5, <1>6, <2>1, FS_EmptySet
<1> QED
  BY <1>3, <1>7 DEF SizeOf

-----------------------------------------------------------------------------
(* What the steps of insert() keep *)

\* What was read fixes the window's end, so that no step that inserts moves it.
LEMMA WindowIsFixed ==
  ASSUME NEW r, NEW read \in Seq(ToSet(Stream)), Sound(Stream, r, read)
  PROVE  /\ WindowEnd(r) = Len(read) + r.output.capacity
         /\ WindowEnd(r) \in Nat /\ r.next_index \in Nat /\ r.output.capacity \in Nat
         /\ r.next_index <= WindowEnd(r) /\ WindowEnd(r) - r.next_index <= r.output.capacity
<1>1. /\ r.output.capacity \in Nat /\ Len(r.output.buffer) \in Nat /\ Len(read) \in Nat
      /\ Len(r.output.buffer) <= r.output.capacity
      /\ r.output.bytes_pushed = r.output.bytes_popped + Len(r.output.buffer)
      /\ r.output.bytes_pushed \in Nat /\ r.output.bytes_popped \in Nat
      /\ Len(read) + Len(r.output.buffer) = r.next_index
  BY LenProperties DEF Sound, OutputOK, ByteStreams
<1>2. /\ WindowEnd(r) = r.next_index + AvailableCapacity(r.output)
      /\ AvailableCapacity(r.output) = r.output.capacity - Len(r.output.buffer)
  BY <1>1 DEF WindowEnd, AvailableCapacity
<1> DEFINE c == r.output.capacity
           b == Len(r.output.buffer)
           n == r.next_index
           l == Len(read)
<1>3. /\ c \in Nat /\ b \in Nat /\ l \in Nat /\ b <= c /\ n = l + b
      /\ WindowEnd(r) = n + (c - b)
  BY <1>1, <1>2
<1> HIDE DEF c, b, n, l
<1>4. /\ WindowEnd(r) = l + c /\ WindowEnd(r) \in Nat /\ n \in Nat
      /\ n <= WindowEnd(r) /\ WindowEnd(r) - n <= c
  BY <1>3
<1> QED
  BY <1>3, <1>4 DEF c, n, l

LEMMA StepsKeepWindow ==
  ASSUME NEW r, NEW q, NEW read \in Seq(ToSet(Stream)),
         Sound(Stream, r, read), Sound(Stream, q, read), Onward(r, q)
  PROVE  WindowEnd(q) = WindowEnd(r)
BY WindowIsFixed DEF Onward

LEMMA KeepsOnKeeps ==
  ASSUME NEW r, NEW p, NEW q, Keeps(r, p), Keeps(p, q)
  PROVE  Keeps(r, q)
BY DEF Keeps

\* A step that stores nothing else, and takes nothing out, keeps all.
LEMMA SameSegmentsKeep ==
  ASSUME NEW r, NEW q, WindowEnd(q) = WindowEnd(r), q.segments = r.segments,
         q.bytes_pending = r.bytes_pending, r.next_index \in Nat, q.next_index \in Nat,
         q.next_index >= r.next_index
  PROVE  Keeps(r, q)
BY DEF Keeps, Tidy, Holds

LEMMA NoteEofKeeps ==
  ASSUME NEW r, NEW read \in Seq(ToSet(Stream)), NEW first, NEW data, NEW last \in BOOLEAN,
         Sound(Stream, r, read)
  PROVE  LET q == NoteEof(r, first, data, last)
         IN  Keeps(r, q) /\ q.output = r.output /\ q.segments = r.segments
<1> DEFINE q == NoteEof(r, first, data, last)
<1>1. /\ q.output = r.output /\ q.segments = r.segments /\ q.next_index = r.next_index
      /\ q.bytes_pending = r.bytes_pending
  BY DEF NoteEof, Sound, IsReassembler
<1>2. WindowEnd(q) = WindowEnd(r) /\ r.next_index \in Nat
  BY <1>1, WindowIsFixed DEF WindowEnd
<1> HIDE DEF q
<1>3. Keeps(r, q)
  BY <1>1, <1>2, SameSegmentsKeep
<1> QED
  BY <1>1, <1>3 DEF q

LEMMA CloseAtEofKeeps ==
  ASSUME NEW r, NEW read \in Seq(ToSet(Stream)), Sound(Stream, r, read), AllWait(r)
  PROVE  Keeps(r, CloseAtEof(r))
<1> DEFINE q == CloseAtEof(r)
<1>1. /\ q.segments = r.segments /\ q.next_index = r.next_index
      /\ q.bytes_pending = r.bytes_pending
  BY DEF CloseAtEof, Sound, IsReassembler
<1>2. Step(Stream, read, r, q)
  BY StreamIsStream, CloseAtEofIsSound
<1> HIDE DEF q
<1>3. WindowEnd(q) = WindowEnd(r) /\ r.next_index \in Nat
  BY <1>2, StepsKeepWindow, WindowIsFixed DEF Step
<1>4. Keeps(r, q)
  BY <1>1, <1>3, SameSegmentsKeep
<1> QED
  BY <1>4 DEF q

\* push_output() writes all that there is space for.
LEMMA PushOutputKeeps ==
  ASSUME NEW r, NEW read \in Seq(ToSet(Stream)), NEW data,
         Sound(Stream, r, read), IsSlice(Stream, data, r.next_index)
  PROVE  /\ Keeps(r, PushOutput(r, data))
         /\ \A p \in Nat : p < r.next_index + Len(data) /\ p < WindowEnd(r)
                             => Holds(PushOutput(r, data), p)
<1> DEFINE m == MinOf(Len(data), AvailableCapacity(r.output))
           q == PushOutput(r, data)
<1>1. /\ AvailableCapacity(r.output) \in Nat /\ r.next_index \in Nat
      /\ WindowEnd(r) = r.next_index + AvailableCapacity(r.output)
      /\ Len(data) \in Nat
  BY StreamIsStream, SoundFacts, LenProperties DEF IsSlice
<1>2. m \in 0 .. Len(data)
  BY <1>1 DEF MinOf
<1> HIDE DEF m
<1>3. Len(Take(data, m)) = m
  BY <1>1, <1>2, StreamIsStream, CutSlice
<1>4. /\ q.segments = r.segments /\ q.next_index = r.next_index + m
      /\ q.bytes_pending = r.bytes_pending
  BY <1>3 DEF PushOutput, Sound, IsReassembler, m
<1>5. Sound(Stream, q, read) /\ Onward(r, q)
  BY StreamIsStream, PushOutputIsSound
<1> HIDE DEF q
<1>6. WindowEnd(q) = WindowEnd(r)
  BY <1>5, StepsKeepWindow
<1>7. q.next_index \in Nat /\ q.next_index >= r.next_index
  BY <1>1, <1>2, <1>4
<1>8. Keeps(r, q)
  BY <1>1, <1>4, <1>6, <1>7, SameSegmentsKeep
<1>9. \A p \in Nat : p < r.next_index + Len(data) /\ p < WindowEnd(r) => p < q.next_index
  BY <1>1, <1>4 DEF m, MinOf
<1> QED
  BY <1>8, <1>9 DEF q, Holds

\* What try_assemble() takes out it has written, but for what the window had no
\* room for.
LEMMA TryAssembleKeeps ==
  ASSUME NEW r, NEW read \in Seq(ToSet(Stream)), Sound(Stream, r, read)
  PROVE  Keeps(r, TryAssemble(r))
<1> DEFINE reach == Frontier(r)
           used == { k \in DOMAIN r.segments : k <= reach }
           left == Without(r.segments, used)
           q == TryAssemble(r)
<1>1. /\ q.segments = left /\ q.next_index = reach
      /\ q.bytes_pending = r.bytes_pending - SizeOf(r.segments, used)
  BY DEF TryAssemble, Sound, IsReassembler
<1>2. Step(Stream, read, r, q)
  BY StreamIsStream, TryAssembleIsSound
<1>3. SegmentsOK(Stream, r.segments) /\ r.next_index \in Nat /\ WindowEnd(r) \in Nat
  BY WindowIsFixed DEF Sound
<1>4. reach \in Nat /\ reach >= r.next_index
  <2>1. reach \in r.next_index .. Len(Stream)
    BY StreamIsStream, FrontierIsReached
  <2> QED
    BY <1>3, <2>1
<1>5. /\ IndicesOf(left, DOMAIN left)
           = IndicesOf(r.segments, DOMAIN r.segments) \ IndicesOf(r.segments, used)
      /\ SizeOf(left, DOMAIN left)
           = SizeOf(r.segments, DOMAIN r.segments) - SizeOf(r.segments, used)
  BY <1>3, FewerIndices
<1>6. /\ DOMAIN left \subseteq DOMAIN r.segments
      /\ \A k \in DOMAIN left : End(left, k) = End(r.segments, k)
  BY DEF Without, End
<1>7. ASSUME NEW k \in used, NEW p \in k .. End(r.segments, k) - 1, p < WindowEnd(r)
      PROVE  p < reach
  <2>1. k \in Nat /\ End(r.segments, k) \in Nat
    BY <1>3, SegmentFacts
  <2>2. End(r.segments, k) <= reach \/ WindowEnd(r) <= reach
    BY StreamIsStream, FrontierIsLast
  <2> HIDE DEF reach, used
  <2> QED
    BY <1>3, <1>4, <1>7, <2>1, <2>2
<1> HIDE DEF q, reach, used, left
<1>8. WindowEnd(q) = WindowEnd(r)
  BY <1>2, StepsKeepWindow DEF Step
<1>9. \A p \in IndicesOf(r.segments, used) : p < WindowEnd(r) => p < reach
  BY <1>7 DEF IndicesOf
<1>10. ASSUME NEW p \in Nat, p < WindowEnd(r), Holds(r, p) PROVE Holds(q, p)
  BY <1>1, <1>3, <1>4, <1>5, <1>9, <1>10 DEF Holds
<1>11. Tidy(r) => Tidy(q)
  BY <1>1, <1>5, <1>6, <1>8 DEF Tidy
<1> QED
  BY <1>8, <1>10, <1>11 DEF Keeps, q

-----------------------------------------------------------------------------
(* What store_segment() keeps *)

\* The bytes of data at first that lie in the window.
Fitting(r, first, data) ==
  { p \in Nat : first <= p /\ p < first + Len(data) /\ p < WindowEnd(r) }

\* A step that keeps all, and holds the new bytes that lie in the window.
Stores(r, q, first, data) ==
  Keeps(r, q) /\ \A p \in Fitting(r, first, data) : Holds(q, p)

\* A slice that is stored where the segments K, which may be none, make place for
\* it.
LEMMA StoreAtStores ==
  ASSUME NEW r, NEW read \in Seq(ToSet(Stream)), NEW first, NEW data,
         NEW at \in Nat, NEW cut, NEW K \in SUBSET DOMAIN r.segments, NEW q, NEW segs,
         Sound(Stream, r, read), r.output.capacity = Capacity, Tidy(r),
         IsSlice(Stream, cut, at), segs = With(Without(r.segments, K), at, cut),
         q.output = r.output, q.next_index = r.next_index, q.segments = segs,
         q.bytes_pending = r.bytes_pending - SizeOf(r.segments, K) + Len(cut),
         \A k \in DOMAIN r.segments \ K : k >= at + Len(cut) \/ End(r.segments, k) <= at,
         at \in DOMAIN r.segments \ K => End(r.segments, at) <= at,
         \A k \in K : /\ at <= k
                      /\ \/ End(r.segments, k) <= at + Len(cut)
                         \/ WindowEnd(r) <= at + Len(cut),
         at <= WindowEnd(r), at + Len(cut) <= WindowEnd(r) + Capacity,
         Len(cut) > 0 => at < WindowEnd(r),
         \A p \in Fitting(r, first, data) : at <= p /\ p < at + Len(cut)
  PROVE  Stores(r, q, first, data)
<1> DEFINE left == Without(r.segments, K)
           added == at .. at + Len(cut) - 1
           all == IndicesOf(r.segments, DOMAIN r.segments)
           taken == IndicesOf(r.segments, K)
<1>1. /\ SegmentsOK(Stream, r.segments) /\ Len(cut) \in Nat /\ WindowEnd(r) \in Nat
      /\ r.next_index \in Nat
  BY WindowIsFixed, LenProperties DEF Sound, IsSlice
<1>2. \A k \in DOMAIN r.segments : k \in Nat /\ End(r.segments, k) \in Nat
  BY <1>1, SegmentFacts
<1>3. /\ DOMAIN left = DOMAIN r.segments \ K
      /\ \A k \in DOMAIN left : End(left, k) = End(r.segments, k)
  BY DEF Without, End
<1>4. SegmentsOK(Stream, left)
  BY <1>1, FewerSegments
<1>5. /\ IndicesOf(left, DOMAIN left) = all \ taken
      /\ SizeOf(left, DOMAIN left) = SizeOf(r.segments, DOMAIN r.segments) - SizeOf(r.segments, K)
  BY <1>1, FewerIndices
<1> HIDE DEF left
<1>6. /\ segs = With(left, at, cut)
      /\ \A k \in DOMAIN left \ {at} : k >= at + Len(cut) \/ End(left, k) <= at
      /\ at \in DOMAIN left => End(left, at) <= at
  BY <1>3 DEF left
<1>7. /\ IndicesOf(segs, DOMAIN segs) = IndicesOf(left, DOMAIN left) \cup added
      /\ SizeOf(segs, DOMAIN segs) = SizeOf(left, DOMAIN left) + Len(cut)
  BY <1>1, <1>4, <1>6, OneMoreIndices
<1>8. \A p : p \in IndicesOf(q.segments, DOMAIN q.segments) <=> p \in all \ taken \/ p \in added
  BY <1>5, <1>7
<1>9. WindowEnd(q) = WindowEnd(r)
  BY DEF WindowEnd
<1>10. \A p \in taken : p < WindowEnd(r) => p \in added
  <2>1. ASSUME NEW k \in K, NEW p \in k .. End(r.segments, k) - 1, p < WindowEnd(r)
        PROVE  p \in added
    BY <1>1, <1>2, <2>1
  <2> QED
    BY <2>1 DEF IndicesOf
<1>11. ASSUME NEW p \in Nat, p < WindowEnd(r), Holds(r, p) PROVE Holds(q, p)
  BY <1>8, <1>10, <1>11 DEF Holds
<1>12. \A p \in Fitting(r, first, data) : Holds(q, p)
  <2>1. \A p \in Fitting(r, first, data) : p \in added
    BY <1>1 DEF Fitting
  <2> QED
    BY <1>8, <2>1 DEF Holds
<1>13. Tidy(q)
  <2>1. q.bytes_pending = SizeOf(segs, DOMAIN segs)
    BY <1>5, <1>7 DEF Tidy
  <2>2. ASSUME NEW k \in DOMAIN segs
        PROVE  /\ k <= WindowEnd(r) /\ End(segs, k) <= WindowEnd(r) + Capacity
               /\ k < End(segs, k) => k < WindowEnd(r)
    <3>1. CASE k = at
      <4>1. End(segs, at) = at + Len(cut)
        BY <1>6 DEF With, End
      <4> QED
        BY <1>1, <3>1, <4>1
    <3>2. CASE k # at
      <4>1. k \in DOMAIN r.segments /\ End(segs, k) = End(r.segments, k)
        BY <1>3, <1>6, <3>2 DEF With, End
      <4> QED
        BY <4>1 DEF Tidy
    <3> QED
      BY <3>1, <3>2
  <2> QED
    BY <1>9, <2>1, <2>2 DEF Tidy
<1> QED
  BY <1>9, <1>11, <1>12, <1>13 DEF Stores, Keeps

\* The segment overlaps none: what fits is stored.
LEMMA StoreAloneStores ==
  ASSUME NEW r, NEW read \in Seq(ToSet(Stream)), NEW first \in Nat, NEW data,
         Sound(Stream, r, read), r.output.capacity = Capacity, Tidy(r),
         IsSlice(Stream, data, first), Overlapping(r.segments, first, data) = {},
         first <= WindowEnd(r), data # << >> \/ Room(r, first) = 0
  PROVE  Stores(r, StoreAlone(r, first, data), first, data)
<1> DEFINE n == MinOf(Len(data), Room(r, first))
           cut == Take(data, n)
           q == StoreAt(r, first, cut)
           segs == With(Without(r.segments, {}), first, cut)
<1>1. /\ SegmentsOK(Stream, r.segments) /\ Len(data) \in Nat /\ WindowEnd(r) \in Nat
      /\ r.next_index \in Nat /\ data # << >> => Len(data) > 0
      /\ Capacity \in Nat
  <2>1. data \in Seq(ToSet(Stream)) /\ SegmentsOK(Stream, r.segments)
    BY DEF Sound, IsSlice
  <2>2. Len(data) \in Nat /\ (Len(data) = 0 => data = << >>)
    BY <2>1, LenProperties, EmptySeq
  <2>3. WindowEnd(r) \in Nat /\ r.next_index \in Nat
    BY WindowIsFixed
  <2> QED
    BY <2>1, <2>2, <2>3, CapacityAssumption
<1>2. \A k \in DOMAIN r.segments : k \in Nat /\ End(r.segments, k) \in Nat
  BY <1>1, SegmentFacts
<1>3. /\ Room(r, first) \in Nat
      /\ Room(r, first) = 0 => first = WindowEnd(r)
      /\ Room(r, first) > 0 => first + Room(r, first) = WindowEnd(r)
  BY <1>1 DEF Room
<1>4. /\ n \in 0 .. Len(data) /\ first + n <= WindowEnd(r)
      /\ n > 0 => first < WindowEnd(r)
      /\ \A p \in Fitting(r, first, data) : first <= p /\ p < first + n
  BY <1>1, <1>3 DEF MinOf, Fitting
<1> HIDE DEF n
<1>5. IsSlice(Stream, cut, first) /\ Len(cut) = n
  BY <1>4, StreamIsStream, CutSlice
<1> HIDE DEF cut
<1>6. \A k \in DOMAIN r.segments : k >= first + Len(data) \/ End(r.segments, k) <= first
  BY <1>1, <1>2 DEF Overlapping
<1>7. \A k \in DOMAIN r.segments \ {} : k >= first + Len(cut) \/ End(r.segments, k) <= first
  BY <1>1, <1>2, <1>4, <1>5, <1>6
<1>8. first \in DOMAIN r.segments => End(r.segments, first) <= first
  <2>1. CASE data # << >>
    BY <1>1, <1>6, <2>1
  <2>2. CASE Room(r, first) = 0
    BY <1>2, <1>3, <2>2 DEF Tidy
  <2> QED
    BY <2>1, <2>2
<1>9. /\ q.output = r.output /\ q.next_index = r.next_index
      /\ q.segments = With(r.segments, first, cut)
      /\ q.bytes_pending = r.bytes_pending + Len(cut)
  BY DEF StoreAt, Sound, IsReassembler
<1>10. segs = With(r.segments, first, cut)
  BY DEF With, Without
<1>11. SizeOf(r.segments, {}) = 0 /\ r.bytes_pending \in Nat
  <2>1. IndicesOf(r.segments, {}) = {}
    BY DEF IndicesOf
  <2>2. r.bytes_pending \in Nat
    BY <1>1, IndicesAreFinite DEF Tidy
  <2> QED
    BY <2>1, <2>2, FS_EmptySet DEF SizeOf
<1>12. q.bytes_pending = r.bytes_pending - SizeOf(r.segments, {}) + Len(cut)
  BY <1>4, <1>5, <1>9, <1>11
<1>13. /\ first + Len(cut) <= WindowEnd(r) + Capacity
       /\ Len(cut) > 0 => first < WindowEnd(r)
       /\ \A p \in Fitting(r, first, data) : first <= p /\ p < first + Len(cut)
  BY <1>1, <1>4, <1>5
<1>14. {} \in SUBSET DOMAIN r.segments /\ q.segments = segs
  BY <1>9, <1>10
<1> DEFINE none == {}
<1>15. /\ none \in SUBSET DOMAIN r.segments /\ segs = With(Without(r.segments, none), first, cut)
       /\ q.bytes_pending = r.bytes_pending - SizeOf(r.segments, none) + Len(cut)
       /\ \A k \in DOMAIN r.segments \ none :
            k >= first + Len(cut) \/ End(r.segments, k) <= first
       /\ first \in DOMAIN r.segments \ none => End(r.segments, first) <= first
       /\ \A k \in none : /\ first <= k
                          /\ \/ End(r.segments, k) <= first + Len(cut)
                             \/ WindowEnd(r) <= first + Len(cut)
  BY <1>7, <1>8, <1>12, <1>14
<1> HIDE DEF q, segs, none
<1>16. Stores(r, q, first, data)
  BY <1>5, <1>9, <1>13, <1>14, <1>15, StoreAtStores
<1>17. CASE Room(r, first) = 0 /\ data # << >>
  <2>1. Fitting(r, first, data) = {}
    BY <1>1, <1>3, <1>17 DEF Fitting
  <2>2. Stores(r, r, first, data)
    BY <2>1 DEF Stores, Keeps
  <2> QED
    BY <1>17, <2>2 DEF StoreAlone
<1>18. CASE ~(Room(r, first) = 0 /\ data # << >>)
  <2>1. StoreAlone(r, first, data) = q
    BY <1>18 DEF StoreAlone, q, cut, n
  <2> QED
    BY <1>16, <2>1
<1> QED
  BY <1>17, <1>18

\* The segment overlaps others: they give way to the union, which is cut at the
\* window's end if it is cut at all.
LEMMA StoreMergedStores ==
  ASSUME NEW r, NEW read \in Seq(ToSet(Stream)), NEW first \in Nat, NEW data, NEW K,
         Sound(Stream, r, read), r.output.capacity = Capacity, Tidy(r),
         IsSlice(Stream, data, first), K = Overlapping(r.segments, first, data), K # {},
         first <= WindowEnd(r), Len(data) > 0
  PROVE  Stores(r, StoreMerged(r, first, data, K), first, data)
<1> DEFINE from == MergedFirst(r.segments, first, K)
           union == Merged(r.segments, first, data, K)
           left == Without(r.segments, K)
           pending == r.bytes_pending - SizeOf(r.segments, K)
           rest == [r EXCEPT !.segments = left, !.bytes_pending = pending]
           n == MinOf(Len(union), Room(r, from))
           cut == Take(union, n)
           room == AvailableCapacity(r.output)
           W == WindowEnd(r)
           q == StoreMerged(r, first, data, K)
<1>1. /\ SegmentsOK(Stream, r.segments) /\ W \in Nat /\ r.next_index \in Nat
      /\ room \in Nat /\ room <= Capacity /\ Capacity \in Nat /\ W = r.next_index + room
  <2>1. /\ SegmentsOK(Stream, r.segments) /\ room \in Nat /\ W = r.next_index + room
    BY StreamIsStream, SoundFacts
  <2>2. W \in Nat /\ r.next_index \in Nat /\ W - r.next_index <= Capacity
    BY WindowIsFixed
  <2> QED
    BY <2>1, <2>2, CapacityAssumption
<1>2. Len(data) \in Nat
  BY LenProperties DEF IsSlice
<1>3. /\ from \in {first} \cup K /\ from \in Nat
      /\ IsSlice(Stream, union, from)
      /\ \A k \in DOMAIN r.segments \ K :
           k >= from + Len(union) \/ End(r.segments, k) <= from
      /\ \A k \in {first} \cup K : from <= k
      /\ first + Len(data) <= from + Len(union)
      /\ \A k \in K : End(r.segments, k) <= from + Len(union)
  <2>1. IsStream(Stream) /\ SegmentsOK(Stream, r.segments)
    BY <1>1, StreamIsStream
  <2> DEFINE segs == r.segments
  <2>2. SegmentsOK(Stream, segs) /\ K = Overlapping(segs, first, data)
    BY <2>1
  <2>3. /\ from = MergedFirst(segs, first, K) /\ union = Merged(segs, first, data, K)
    OBVIOUS
  <2> HIDE DEF room, W, segs, from, union
  <2>4. LET f == MergedFirst(segs, first, K)
            u == Merged(segs, first, data, K)
        IN  /\ f \in {first} \cup K /\ f \in Nat
            /\ IsSlice(Stream, u, f)
            /\ \A k \in DOMAIN segs \ K : k >= f + Len(u) \/ End(segs, k) <= f
            /\ \A k \in {first} \cup K : f <= k
            /\ first + Len(data) <= f + Len(u)
            /\ \A k \in K : End(segs, k) <= f + Len(u)
    BY <2>1, <2>2, MergedIsSlice
  <2> QED
    BY <2>3, <2>4 DEF segs
<1>4. /\ K \in SUBSET DOMAIN r.segments
      /\ \A k \in K : first < End(r.segments, k)
      /\ \A k \in DOMAIN r.segments : k \in Nat /\ End(r.segments, k) \in Nat
  BY <1>1, SegmentFacts DEF Overlapping
<1>5. Len(union) \in Nat /\ Len(union) > 0
  <2>1. Len(union) \in Nat
    BY <1>3, LenProperties DEF IsSlice
  <2> HIDE DEF from, union
  <2>2. from \in Nat /\ from <= first /\ first + Len(data) <= from + Len(union)
    BY <1>3
  <2> QED
    BY <1>2, <2>1, <2>2
<1>6. SizeOf(left, DOMAIN left) = pending /\ pending \in Nat
  <2>1. /\ SizeOf(left, DOMAIN left)
             = SizeOf(r.segments, DOMAIN r.segments) - SizeOf(r.segments, K)
        /\ SegmentsOK(Stream, left)
    BY <1>1, <1>4, FewerIndices, FewerSegments
  <2> DEFINE rem == DOMAIN left
  <2>2. rem \in SUBSET DOMAIN left
    OBVIOUS
  <2> HIDE DEF left, rem
  <2>3. SizeOf(left, rem) \in Nat
    BY <2>1, <2>2, IndicesAreFinite
  <2> QED
    BY <2>1, <2>3 DEF Tidy, rem
<1> HIDE DEF from, union, left, pending
<1>7. from < W /\ from <= first
  <2>1. PICK k \in K : TRUE
    OBVIOUS
  <2>2. k \in Nat /\ from <= k /\ from <= first /\ first < End(r.segments, k) /\ k <= W
    BY <1>3, <1>4, <2>1 DEF Tidy
  <2>3. k < End(r.segments, k) => k < W
    BY <1>4, <2>1 DEF Tidy
  <2>4. from \in Nat /\ W \in Nat /\ End(r.segments, k) \in Nat
    BY <1>1, <1>3, <1>4, <2>1
  <2> DEFINE e == End(r.segments, k)
  <2>5. /\ e \in Nat /\ W \in Nat /\ from \in Nat /\ k \in Nat
        /\ from <= k /\ from <= first /\ first < e /\ k <= W /\ (k < e => k < W)
    BY <2>2, <2>3, <2>4
  <2> HIDE DEF W, from, e
  <2>6. CASE k < e
    BY <2>5, <2>6
  <2>7. CASE ~(k < e)
    BY <2>5, <2>7
  <2>8. from < W /\ from <= first
    BY <2>5, <2>6, <2>7
  <2> QED
    BY <2>8 DEF W
<1>8. Room(r, from) \in Nat /\ Room(r, from) > 0 /\ from + Room(r, from) = W
  <2>1. Room(r, from) = IF from < W THEN W - from ELSE 0
    BY DEF Room
  <2>2. from \in Nat /\ W \in Nat
    BY <1>1, <1>3
  <2> HIDE DEF W
  <2> QED
    BY <1>7, <2>1, <2>2
<1>9. n \in 0 .. Len(union) /\ n > 0
      /\ (n = Len(union) \/ from + n = W) /\ from + n <= W
  BY <1>1, <1>3, <1>5, <1>8 DEF MinOf
<1> HIDE DEF n
<1>10. IsSlice(Stream, cut, from) /\ Len(cut) = n
  <2>1. IsStream(Stream) /\ IsSlice(Stream, union, from) /\ from \in Nat /\ n \in 0 .. Len(union)
    BY <1>3, <1>9, StreamIsStream
  <2> QED
    BY <2>1, CutSlice
<1> HIDE DEF cut
<1>11. ASSUME NEW piece, IsSlice(Stream, piece, from), Len(piece) \in 1 .. Len(union),
              Len(piece) = Len(union) \/ from + Len(piece) = W,
              from + Len(piece) <= W + Capacity
       PROVE  Stores(r, StoreAt(rest, from, piece), first, data)
  <2> DEFINE next == StoreAt(rest, from, piece)
             segs == With(Without(r.segments, K), from, piece)
  <2>1. /\ next.output = r.output /\ next.next_index = r.next_index
        /\ next.segments = segs
        /\ next.bytes_pending = r.bytes_pending - SizeOf(r.segments, K) + Len(piece)
    BY DEF StoreAt, Sound, IsReassembler, left, pending
  <2>2. /\ \A k \in DOMAIN r.segments \ K :
             k >= from + Len(piece) \/ End(r.segments, k) <= from
        /\ from \in DOMAIN r.segments \ K => End(r.segments, from) <= from
    BY <1>3, <1>4, <1>5, <1>11
  <2>3. \A k \in K : /\ from <= k
                     /\ \/ End(r.segments, k) <= from + Len(piece)
                        \/ WindowEnd(r) <= from + Len(piece)
    <3> SUFFICES ASSUME NEW k \in K
                 PROVE  /\ from <= k
                        /\ \/ End(r.segments, k) <= from + Len(piece)
                           \/ WindowEnd(r) <= from + Len(piece)
      OBVIOUS
    <3>1. from <= k /\ End(r.segments, k) <= from + Len(union) /\ WindowEnd(r) <= W
      <4>1. k \in {first} \cup K
        OBVIOUS
      <4>2. from <= k
        BY <1>3, <4>1
      <4>3. End(r.segments, k) <= from + Len(union)
        BY <1>3
      <4>4. WindowEnd(r) <= WindowEnd(r)
        BY <1>1
      <4> QED
        BY <4>2, <4>3, <4>4
    <3> HIDE DEF W
    <3> QED
      BY <1>11, <3>1
  <2>4. /\ from <= WindowEnd(r) /\ from + Len(piece) <= WindowEnd(r) + Capacity
        /\ Len(piece) > 0 => from < WindowEnd(r)
    BY <1>1, <1>3, <1>7, <1>11
  <2>5. \A p \in Fitting(r, first, data) : from <= p /\ p < from + Len(piece)
    <3>1. /\ from \in Nat /\ from <= first /\ first + Len(data) <= from + Len(union)
          /\ WindowEnd(r) = W /\ WindowEnd(r) \in Nat
      BY <1>1, <1>3, <1>7
    <3> HIDE DEF W
    <3> QED
      BY <1>2, <1>5, <1>11, <3>1, SMTT(30) DEF Fitting
  <2> HIDE DEF next, segs, rest, W
  <2>6. segs = With(Without(r.segments, K), from, piece)
    BY DEF segs
  <2>7. Stores(r, next, first, data)
    BY <1>3, <1>4, <1>11, <2>1, <2>2, <2>3, <2>4, <2>5, <2>6, StoreAtStores
  <2> QED
    BY <2>7 DEF next
<1>12. q = IF Len(union) + pending <= room THEN StoreAt(rest, from, union)
           ELSE IF Room(r, from) = 0 THEN rest ELSE StoreAt(rest, from, cut)
  <2>1. rest.bytes_pending = pending
    BY DEF Sound, IsReassembler
  <2>2. q = IF Len(union) + rest.bytes_pending <= room THEN StoreAt(rest, from, union)
            ELSE IF Room(r, from) = 0 THEN rest ELSE StoreAt(rest, from, cut)
    BY DEF StoreMerged, from, union, left, pending, cut, n
  <2> HIDE DEF q, rest
  <2> QED
    BY <2>1, <2>2
<1> HIDE DEF q, rest
<1>13. CASE Len(union) + pending <= room
  <2>1. /\ Len(union) \in 1 .. Len(union)
        /\ from + Len(union) <= W + Capacity
    <3>1. /\ from \in Nat /\ W \in Nat /\ room \in Nat /\ Capacity \in Nat /\ room <= Capacity
      BY <1>1, <1>3
    <3> HIDE DEF W, room
    <3> QED
      BY <1>5, <1>6, <1>7, <1>13, <3>1
  <2>2. Stores(r, StoreAt(rest, from, union), first, data)
    BY <1>3, <1>11, <2>1
  <2> QED
    BY <1>12, <1>13, <2>2 DEF q
<1>14. CASE ~(Len(union) + pending <= room)
  <2>1. /\ Len(cut) \in 1 .. Len(union)
        /\ Len(cut) = Len(union) \/ from + Len(cut) = W
        /\ from + Len(cut) <= W + Capacity
    BY <1>1, <1>3, <1>5, <1>9, <1>10
  <2>2. Stores(r, StoreAt(rest, from, cut), first, data)
    BY <1>10, <1>11, <2>1
  <2> QED
    BY <1>8, <1>12, <1>14, <2>2 DEF q
<1> QED
  BY <1>13, <1>14

LEMMA StoreSegmentStores ==
  ASSUME NEW r, NEW read \in Seq(ToSet(Stream)), NEW first \in Nat, NEW data,
         Sound(Stream, r, read), r.output.capacity = Capacity, Tidy(r),
         IsSlice(Stream, data, first), data # << >> \/ Room(r, first) = 0
  PROVE  Stores(r, StoreSegment(r, first, data), first, data)
<1> DEFINE K == Overlapping(r.segments, first, data)
           known == \E k \in K : k <= first /\ first + Len(data) <= End(r.segments, k)
<1>1. /\ SegmentsOK(Stream, r.segments) /\ Len(data) \in Nat /\ WindowEnd(r) \in Nat
  <2>1. data \in Seq(ToSet(Stream)) /\ SegmentsOK(Stream, r.segments)
    BY DEF Sound, IsSlice
  <2> QED
    BY <2>1, LenProperties, WindowIsFixed
<1>2. \A k \in DOMAIN r.segments : k \in Nat /\ End(r.segments, k) \in Nat
  BY <1>1, SegmentFacts
<1>s. Keeps(r, r)
  BY DEF Keeps
<1>3. CASE first > WindowEnd(r)
  <2>1. Fitting(r, first, data) = {}
    BY <1>1, <1>3 DEF Fitting
  <2> QED
    BY <1>3, <1>s, <2>1 DEF StoreSegment, Stores
<1>4. CASE known
  <2>1. PICK k \in K : k <= first /\ first + Len(data) <= End(r.segments, k)
    BY <1>4
  <2>2. k \in DOMAIN r.segments
    BY DEF Overlapping
  <2>3. \A p \in Fitting(r, first, data) : p \in k .. End(r.segments, k) - 1
    BY <1>1, <1>2, <2>1, <2>2 DEF Fitting
  <2>4. \A p \in Fitting(r, first, data) : Holds(r, p)
    BY <2>2, <2>3 DEF Holds, IndicesOf
  <2> QED
    BY <1>4, <1>s, <2>4 DEF StoreSegment, Stores
<1>5. CASE ~(first > WindowEnd(r)) /\ ~known
  <2>1. first <= WindowEnd(r)
    BY <1>1, <1>5
  <2>2. CASE K = {}
    <3>1. Stores(r, StoreAlone(r, first, data), first, data)
      BY <2>1, <2>2, StoreAloneStores
    <3> QED
      BY <1>5, <2>2, <3>1 DEF StoreSegment
  <2>3. CASE K # {}
    <3>1. Len(data) > 0
      <4>1. PICK k \in K : TRUE
        BY <2>3
      <4>2. /\ k \in Nat /\ End(r.segments, k) \in Nat
            /\ k < first + Len(data) /\ first < End(r.segments, k)
        BY <1>2, <4>1 DEF Overlapping
      <4>3. ~(k <= first /\ first + Len(data) <= End(r.segments, k))
        BY <1>5, <4>1
      <4> QED
        BY <1>1, <4>2, <4>3
    <3>2. Stores(r, StoreMerged(r, first, data, K), first, data)
      BY <2>1, <2>3, <3>1, StoreMergedStores
    <3> QED
      BY <1>5, <2>3, <3>2 DEF StoreSegment
  <2> QED
    BY <2>2, <2>3
<1> QED
  BY <1>3, <1>4, <1>5

-----------------------------------------------------------------------------
(* What insert() and the reader keep *)

\* What a step stores, the steps after it keep.
LEMMA KeepsWhatWasStored ==
  ASSUME NEW r, NEW p, NEW q, NEW first, NEW data, Stores(r, p, first, data), Keeps(p, q)
  PROVE  Stores(r, q, first, data)
BY DEF Stores, Keeps, Fitting

\* insert() of bytes, whatever was inserted before.
LEMMA InsertStores ==
  ASSUME NEW r, NEW read \in Seq(ToSet(Stream)), NEW first \in Nat, NEW data,
         NEW last \in BOOLEAN,
         Sound(Stream, r, read), AllWait(r), r.output.capacity = Capacity, Tidy(r),
         IsSlice(Stream, data, first), last => first + Len(data) = Len(Stream),
         Len(data) > 0
  PROVE  Stores(r, Insert(r, first, data, last), first, data)
<1> DEFINE noted == NoteEof(r, first, data, last)
           next == r.next_index
           kept == IF last /\ first > next
                   THEN Take(data, MinOf(Len(data), Room(r, first)))
                   ELSE data
           rest == Drop(data, next - first)
           q == Insert(r, first, data, last)
<1>1. /\ next \in Nat /\ WindowEnd(r) \in Nat /\ Len(data) \in Nat
  <2>1. data \in Seq(ToSet(Stream))
    BY DEF IsSlice
  <2> QED
    BY <2>1, LenProperties, WindowIsFixed
<1>2. /\ Sound(Stream, noted, read) /\ AllWait(noted) /\ noted.next_index = next
  BY <1>1, StreamIsStream, NoteEofIsSound DEF Noted
<1>3. /\ Keeps(r, noted) /\ noted.output = r.output /\ noted.segments = r.segments
  BY NoteEofKeeps
<1>i. q = IF first < next /\ first + Len(data) <= next THEN noted
          ELSE IF first <= next
          THEN CloseAtEof(TryAssemble(PushOutput(noted, rest)))
          ELSE CloseAtEof(StoreSegment(noted, first, kept))
  BY DEF Insert
<1> HIDE DEF noted, kept, rest, q
<1>4. WindowEnd(noted) = WindowEnd(r) /\ Tidy(noted)
  BY <1>3 DEF Keeps
<1>5. CASE first < next /\ first + Len(data) <= next
  <2>1. \A p \in Fitting(r, first, data) : Holds(noted, p)
    BY <1>1, <1>2, <1>5 DEF Fitting, Holds
  <2> QED
    BY <1>3, <1>5, <1>i, <2>1 DEF Stores, q
<1>6. CASE first <= next /\ ~(first < next /\ first + Len(data) <= next)
  <2> DEFINE pushed == PushOutput(noted, rest)
             assembled == TryAssemble(pushed)
             closed == CloseAtEof(assembled)
  <2>1. next - first \in 0 .. Len(data) /\ first + (next - first) = next
    BY <1>1, <1>6
  <2>2. IsSlice(Stream, rest, noted.next_index) /\ Len(rest) = Len(data) - (next - first)
    <3>1. IsSlice(Stream, rest, first + (next - first)) /\ Len(rest) = Len(data) - (next - first)
      BY <2>1, StreamIsStream, CutSlice DEF rest
    <3> QED
      BY <1>2, <2>1, <3>1
  <2>3. Sound(Stream, pushed, read) /\ Onward(noted, pushed)
    BY <1>2, <2>2, StreamIsStream, PushOutputIsSound
  <2>4. /\ Keeps(noted, pushed)
        /\ \A p \in Nat : p < noted.next_index + Len(rest) /\ p < WindowEnd(noted)
                            => Holds(pushed, p)
    BY <1>2, <2>2, PushOutputKeeps
  <2> HIDE DEF pushed
  <2>5. Keeps(pushed, assembled) /\ Step(Stream, read, pushed, assembled)
    BY <2>3, StreamIsStream, TryAssembleKeeps, TryAssembleIsSound
  <2> HIDE DEF assembled
  <2>6. Keeps(assembled, closed)
    BY <2>5, CloseAtEofKeeps DEF Step
  <2> HIDE DEF closed
  <2>7. \A p \in Fitting(r, first, data) : Holds(pushed, p)
    <3>1. noted.next_index + Len(rest) = first + Len(data)
      BY <1>1, <1>2, <2>2
    <3> QED
      BY <1>4, <2>4, <3>1 DEF Fitting
  <2>8. Stores(r, pushed, first, data)
    BY <1>3, <2>4, <2>7, KeepsOnKeeps DEF Stores
  <2>9. Stores(r, closed, first, data)
    BY <2>5, <2>6, <2>8, KeepsWhatWasStored
  <2> QED
    BY <1>6, <1>i, <2>9 DEF closed, assembled, pushed, q
<1>7. CASE ~(first <= next)
  <2> DEFINE stored == StoreSegment(noted, first, kept)
             closed == CloseAtEof(stored)
  <2>1. Room(noted, first) = Room(r, first)
    BY <1>4 DEF Room
  <2>2. /\ IsSlice(Stream, kept, first) /\ (kept # << >> \/ Room(r, first) = 0)
        /\ Fitting(r, first, data) = Fitting(noted, first, kept)
    <3> DEFINE n == MinOf(Len(data), Room(r, first))
    <3>1. n \in 0 .. Len(data)
      BY <1>1 DEF MinOf, Room
    <3>2. /\ \A p \in Nat : first <= p /\ p < WindowEnd(r) => (p < first + Len(data) <=> p < first + n)
          /\ n > 0 \/ Room(r, first) = 0
      BY <1>1 DEF MinOf, Room
    <3> HIDE DEF n
    <3>3. IsSlice(Stream, Take(data, n), first) /\ Len(Take(data, n)) = n
      BY <3>1, StreamIsStream, CutSlice
    <3>4. kept = Take(data, n) \/ kept = data
      BY DEF kept, n
    <3>5. Len(<< >>) = 0
      OBVIOUS
    <3>6. CASE kept = Take(data, n)
      <4>1. Fitting(r, first, data) = Fitting(noted, first, kept)
        BY <1>4, <3>2, <3>3, <3>6 DEF Fitting
      <4>2. kept # << >> \/ Room(r, first) = 0
        BY <3>1, <3>2, <3>3, <3>5, <3>6
      <4> QED
        BY <3>3, <3>6, <4>1, <4>2
    <3>7. CASE kept = data
      <4>1. Fitting(r, first, data) = Fitting(noted, first, kept)
        BY <1>4, <3>7 DEF Fitting
      <4>2. kept # << >>
        BY <3>5, <3>7
      <4> QED
        BY <3>7, <4>1, <4>2
    <3> QED
      BY <3>4, <3>6, <3>7
  <2>3. Stores(noted, stored, first, kept)
    <3>1. /\ Sound(Stream, noted, read) /\ noted.output.capacity = Capacity /\ Tidy(noted)
          /\ IsSlice(Stream, kept, first) /\ (kept # << >> \/ Room(noted, first) = 0)
      BY <1>2, <1>3, <1>4, <2>1, <2>2
    <3> QED
      BY <3>1, StoreSegmentStores
  <2>4. Step(Stream, read, noted, stored)
    <3>1. first > noted.next_index
      BY <1>1, <1>2, <1>7
    <3>2. /\ Sound(Stream, noted, read) /\ AllWait(noted) /\ IsStream(Stream)
          /\ IsSlice(Stream, kept, first)
      BY <1>2, <2>2, StreamIsStream
    <3> QED
      BY <3>1, <3>2, StoreSegmentIsSound
  <2> HIDE DEF stored
  <2>5. Keeps(stored, closed)
    BY <2>4, CloseAtEofKeeps DEF Step
  <2> HIDE DEF closed
  <2>6. Stores(r, stored, first, data)
    BY <1>3, <2>2, <2>3, KeepsOnKeeps DEF Stores
  <2>7. Stores(r, closed, first, data)
    BY <2>5, <2>6, KeepsWhatWasStored
  <2>8. ~(first < next /\ first + Len(data) <= next)
    BY <1>1, <1>7
  <2> QED
    BY <1>7, <1>i, <2>7, <2>8 DEF closed, stored, q
<1> QED
  BY <1>5, <1>6, <1>7

\* The reader makes room, and takes nothing from what is stored.
LEMMA PopKeeps ==
  ASSUME NEW r, NEW read \in Seq(ToSet(Stream)), NEW len \in Nat,
         Sound(Stream, r, read), AllWait(r), r.output.capacity = Capacity
  PROVE  LET q == AfterPop(r, len)
         IN  /\ WindowEnd(q) >= WindowEnd(r) /\ WindowEnd(q) \in Nat
             /\ q.output.capacity = Capacity
             /\ \A p : Holds(r, p) => Holds(q, p)
             /\ Tidy(r) => Tidy(q)
<1> DEFINE q == AfterPop(r, len)
           now == ReadAfterPop(r, read, len)
           out == Take(r.output.buffer, Removed(r.output, len))
<1>1. /\ now \in Seq(ToSet(Stream)) /\ Sound(Stream, q, now) /\ PopStep(r, q)
  BY StreamIsStream, PopIsSound
<1>2. /\ q.next_index = r.next_index /\ q.segments = r.segments
      /\ q.bytes_pending = r.bytes_pending
  BY DEF AfterPop, Sound, IsReassembler
<1>3. Len(now) >= Len(read) /\ Len(now) \in Nat /\ Len(read) \in Nat
  <2>1. r.output.buffer \in Seq(ToSet(Stream))
    BY DEF Sound, OutputOK, ByteStreams
  <2>2. Removed(r.output, len) \in 0 .. Len(r.output.buffer)
    <3>1. Len(r.output.buffer) \in Nat
      BY <2>1, LenProperties
    <3> QED
      BY <3>1 DEF Removed, MinOf
  <2>3. out \in Seq(ToSet(Stream))
    BY <2>1, <2>2, Cut
  <2> HIDE DEF out
  <2>4. Len(read \o out) = Len(read) + Len(out) /\ Len(out) \in Nat /\ Len(read) \in Nat
    BY <2>3, ConcatProperties, LenProperties
  <2>5. now = read \o out
    BY DEF ReadAfterPop, out
  <2> QED
    BY <2>4, <2>5
<1> HIDE DEF q, now, out
<1>4. q.output.capacity = Capacity
  BY <1>1 DEF PopStep
<1>5. WindowEnd(r) = Len(read) + Capacity /\ WindowEnd(r) \in Nat
  BY WindowIsFixed
<1>6. WindowEnd(q) = Len(now) + Capacity /\ WindowEnd(q) \in Nat
  BY <1>1, <1>4, WindowIsFixed
<1>7. WindowEnd(q) >= WindowEnd(r)
  BY <1>3, <1>5, <1>6, CapacityAssumption
<1>8. \A p : Holds(r, p) => Holds(q, p)
  BY <1>2 DEF Holds
<1>9. Tidy(r) => Tidy(q)
  <2> SUFFICES ASSUME Tidy(r) PROVE Tidy(q)
    OBVIOUS
  <2>1. SegmentsOK(Stream, r.segments)
    BY DEF Sound
  <2>2. ASSUME NEW k \in DOMAIN r.segments
        PROVE  /\ k <= WindowEnd(q) /\ End(r.segments, k) <= WindowEnd(q) + Capacity
               /\ k < End(r.segments, k) => k < WindowEnd(q)
    <3>1. /\ k <= WindowEnd(r) /\ End(r.segments, k) <= WindowEnd(r) + Capacity
          /\ k < End(r.segments, k) => k < WindowEnd(r)
      BY DEF Tidy
    <3>2. k \in Nat /\ End(r.segments, k) \in Nat
      BY <2>1, SegmentFacts
    <3> QED
      BY <1>5, <1>6, <1>7, <3>1, <3>2, CapacityAssumption
  <2> QED
    BY <1>2, <2>2 DEF Tidy
<1> QED
  BY <1>4, <1>6, <1>7, <1>8, <1>9 DEF q

THEOREM ReassemblerKeeps == Spec => []KeptInv
<1>1. Init => KeptInv
  <2> SUFFICES ASSUME Init PROVE KeptInv
    OBVIOUS
  <2>1. ra = NewReassembler(Capacity) /\ promised = {}
    BY DEF Init
  <2>2. ra.output.capacity = Capacity
    BY <2>1 DEF NewReassembler, NewByteStream
  <2>3. DOMAIN ra.segments = {} /\ ra.bytes_pending = 0
    BY <2>1 DEF NewReassembler
  <2>4. SizeOf(ra.segments, {}) = 0
    <3>1. IndicesOf(ra.segments, {}) = {}
      BY DEF IndicesOf
    <3> QED
      BY <3>1, FS_EmptySet DEF SizeOf
  <2>5. Tidy(ra)
    BY <2>3, <2>4 DEF Tidy
  <2> QED
    BY <2>1, <2>2, <2>5 DEF KeptInv
<1>2. IInv /\ KeptInv /\ [Next]_vars => KeptInv'
  <2> SUFFICES ASSUME IInv, KeptInv, [Next]_vars PROVE KeptInv'
    OBVIOUS
  <2>1. /\ consumed \in Seq(ToSet(Stream)) /\ Sound(Stream, ra, consumed) /\ AllWait(ra)
        /\ ra.output.capacity = Capacity
        /\ promised \subseteq 0 .. WindowEnd(ra) - 1
        /\ plain => Tidy(ra) /\ \A p \in promised : Holds(ra, p)
    BY DEF IInv, KeptInv
  <2>w. WindowEnd(ra) \in Nat
    BY <2>1, WindowIsFixed
  <2>2. ASSUME NEW first \in 0 .. Length, NEW n \in 0 .. Length - first, NEW last \in BOOLEAN,
               last => first + n = Length, InsertSlice(first, n, last)
        PROVE  KeptInv'
    <3> DEFINE data == Slice(first, n)
               noted == NoteEof(ra, first, data, last)
               q == Insert(ra, first, data, last)
               new == first .. MinOf(first + n, WindowEnd(ra)) - 1
    <3>1. first \in Nat /\ n \in Nat /\ first + n <= Len(Stream)
      BY StreamIsStream DEF Length
    <3>2. IsSlice(Stream, data, first) /\ Len(data) = n
      BY <3>1, StreamIsStream, SliceIsSlice DEF Slice
    <3>3. ra' = q /\ promised' = promised \cup new /\ (plain' => plain /\ n > 0)
      BY <2>2 DEF InsertSlice
    <3> HIDE DEF data
    <3>4. last => first + Len(data) = Len(Stream)
      BY <2>2, <3>2 DEF Length
    <3>5. Step(Stream, consumed, noted, q)
      BY <2>1, <3>1, <3>2, <3>4, StreamIsStream, InsertIsSound
    <3>6. /\ Sound(Stream, noted, consumed)
          /\ Keeps(ra, noted) /\ noted.output = ra.output
      <4>1. Sound(Stream, noted, consumed)
        BY <2>1, <3>1, <3>2, <3>4, StreamIsStream, NoteEofIsSound
      <4> QED
        BY <2>1, <4>1, NoteEofKeeps
    <3> HIDE DEF noted
    <3>7. WindowEnd(q) = WindowEnd(ra) /\ q.output.capacity = Capacity
      <4> HIDE DEF q
      <4>1. WindowEnd(q) = WindowEnd(noted)
        BY <2>1, <3>5, <3>6, StepsKeepWindow DEF Step
      <4> QED
        BY <2>1, <3>5, <3>6, <4>1 DEF Step, Onward, Keeps
    <3>8. new \subseteq 0 .. WindowEnd(ra) - 1
      BY <2>w, <3>1 DEF MinOf
    <3>9. ASSUME plain' PROVE Tidy(q) /\ \A p \in promised \cup new : Holds(q, p)
      <4>1. plain /\ n > 0 /\ Tidy(ra)
        BY <2>1, <3>3, <3>9
      <4>2. Stores(ra, q, first, data)
        BY <2>1, <3>1, <3>2, <3>4, <4>1, InsertStores
      <4> HIDE DEF q
      <4>3. ASSUME NEW p \in promised PROVE Holds(q, p)
        <5>1. p \in Nat /\ p < WindowEnd(ra) /\ Holds(ra, p)
          BY <2>1, <2>w, <4>1
        <5> QED
          BY <4>2, <5>1 DEF Stores, Keeps
      <4>4. new \subseteq Fitting(ra, first, data)
        BY <2>w, <3>1, <3>2 DEF Fitting, MinOf
      <4> QED
        BY <4>1, <4>2, <4>3, <4>4 DEF Stores, Keeps
    <3> HIDE DEF q, new
    <3>10. promised' \subseteq 0 .. WindowEnd(ra') - 1
      BY <2>1, <3>3, <3>7, <3>8
    <3> QED
      BY <3>3, <3>7, <3>9, <3>10 DEF KeptInv
  <2>3. ASSUME NEW len \in Nat, ReaderPop(len) PROVE KeptInv'
    <3> DEFINE q == AfterPop(ra, len)
    <3>1. ra' = q /\ promised' = promised /\ plain' = plain
      BY <2>3 DEF ReaderPop, AfterPop
    <3>2. /\ WindowEnd(q) >= WindowEnd(ra) /\ WindowEnd(q) \in Nat
          /\ q.output.capacity = Capacity
          /\ \A p : Holds(ra, p) => Holds(q, p)
          /\ Tidy(ra) => Tidy(q)
      BY <2>1, PopKeeps
    <3> HIDE DEF q
    <3>3. promised \subseteq 0 .. WindowEnd(q) - 1
      BY <2>1, <2>w, <3>2
    <3> QED
      BY <2>1, <3>1, <3>2, <3>3 DEF KeptInv
  <2>4. CASE UNCHANGED vars
    BY <2>1, <2>4 DEF KeptInv, vars, Tidy, Holds, WindowEnd
  <2> QED
    BY <2>2, <2>3, <2>4 DEF Next
<1> QED
  BY <1>1, <1>2, ReassemblerIsSound, PTL DEF Spec

\* As long as no substring is empty, a byte that fit the available capacity when
\* it was inserted stays in the output or in a stored segment and is written as
\* soon as it is the next one, and bytes_pending_ counts the stored bytes, which
\* are never more than twice the capacity.
THEOREM PromisesAreKept == Spec => []PlainPromisesKept
<1>1. IInv /\ KeptInv => PlainPromisesKept
  <2> SUFFICES ASSUME IInv, KeptInv, plain PROVE PromisesKept /\ PendingCount
    BY DEF PlainPromisesKept
  <2> DEFINE next == ra.next_index
             W == WindowEnd(ra)
             stored == StoredIndices
             most == next + 1 .. W + Capacity - 1
  <2>1. /\ consumed \in Seq(ToSet(Stream)) /\ Sound(Stream, ra, consumed) /\ AllWait(ra)
        /\ ra.output.capacity = Capacity /\ SegmentsOK(Stream, ra.segments)
        /\ promised \subseteq 0 .. W - 1
        /\ Tidy(ra) /\ \A p \in promised : Holds(ra, p)
    BY DEF IInv, KeptInv, Sound
  <2>2. next \in Nat /\ W \in Nat /\ W - next <= Capacity /\ next <= W /\ Capacity \in Nat
    BY <2>1, WindowIsFixed
  <2>3. stored \subseteq most
    <3>1. ASSUME NEW k \in DOMAIN ra.segments, NEW p \in k .. End(ra.segments, k) - 1
          PROVE  p \in most
      <4>1. /\ k \in Nat /\ End(ra.segments, k) \in Nat /\ k > next
            /\ End(ra.segments, k) <= W + Capacity
        BY <2>1, SegmentFacts DEF AllWait, Tidy
      <4> QED
        BY <2>2, <3>1, <4>1
    <3> QED
      BY <3>1 DEF StoredIndices, IndicesOf
  <2> HIDE DEF W
  <2>4. IsFiniteSet(most) /\ Cardinality(most) \in Nat /\ Cardinality(most) <= 2 * Capacity
    <3> DEFINE low == next + 1
               high == W + Capacity - 1
    <3>1. low \in Int /\ high \in Int /\ high - low + 1 <= 2 * Capacity
      BY <2>2
    <3> HIDE DEF low, high
    <3>2. /\ IsFiniteSet(low .. high)
          /\ Cardinality(low .. high) = IF low > high THEN 0 ELSE high - low + 1
      BY <3>1, FS_Interval
    <3>3. Cardinality(low .. high) \in Nat /\ Cardinality(low .. high) <= 2 * Capacity
      BY <2>2, <3>1, <3>2
    <3> QED
      BY <3>2, <3>3 DEF low, high
  <2> HIDE DEF most, stored
  <2>5. Cardinality(stored) <= 2 * Capacity
    <3>1. Cardinality(stored) \in Nat /\ Cardinality(stored) <= Cardinality(most)
      BY <2>3, <2>4, FS_Subset, FS_CardinalityType
    <3> QED
      BY <2>2, <2>4, <3>1
  <2>6. PendingCount
    BY <2>1, <2>5 DEF PendingCount, Tidy, SizeOf, StoredIndices, stored
  <2>7. NothingLost
    <3>1. \A p \in promised : p \in 0 .. next - 1 \/ p \in stored
      BY <2>1, <2>2 DEF Holds, StoredIndices, stored, W
    <3> QED
      BY <3>1 DEF NothingLost, stored
  <2>8. next \notin promised
    <3>1. next \notin stored
      BY <2>2, <2>3 DEF most
    <3> QED
      BY <2>1, <2>2, <3>1 DEF Holds, StoredIndices, stored
  <2> QED
    BY <2>6, <2>7, <2>8 DEF PromisesKept
<1> QED
  BY <1>1, ReassemblerIsSound, ReassemblerKeeps, PTL
==============================================================================
