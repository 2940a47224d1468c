---------------------------- MODULE ByteStreamOps ----------------------------
(***************************************************************************)
(* A ByteStream as a value: the fields of class ByteStream                 *)
(* (src/minnow/src/byte_stream.hh) and one operator per method of its      *)
(* Writer and Reader views that changes it or computes something from it.  *)
(* Every component that owns a ByteStream keeps such a record.             *)
(***************************************************************************)
EXTENDS Naturals, Sequences

MinOf(m, n) == IF m <= n THEN m ELSE n

Take(s, n) == SubSeq(s, 1, n)           \* substr(0, n)
Drop(s, n) == SubSeq(s, n + 1, Len(s))  \* substr(n), for n <= Len(s)

ByteStreams(Byte) ==
  [ capacity : Nat, error : BOOLEAN, buffer : Seq(Byte),
    bytes_pushed : Nat, bytes_popped : Nat, is_closed : BOOLEAN ]

NewByteStream(cap) ==
  [ capacity |-> cap, error |-> FALSE, buffer |-> << >>,
    bytes_pushed |-> 0, bytes_popped |-> 0, is_closed |-> FALSE ]

BytesBuffered(bs) == Len(bs.buffer)
\* Faults of available_capacity(): the buffer is not counted; pops are not.
AvailableCapacityEmpty(bs) == bs.capacity
AvailableCapacityForEver(bs) == bs.capacity - bs.bytes_pushed
AvailableCapacity(bs) == bs.capacity - (bs.bytes_pushed - bs.bytes_popped)
\* A fault of is_finished(): the bytes still buffered are forgotten.
IsFinishedClosed(bs) == bs.is_closed
IsFinished(bs) == bs.is_closed /\ bs.buffer = << >>

SetError(bs) == [bs EXCEPT !.error = TRUE]
Close(bs) == [bs EXCEPT !.is_closed = TRUE]

\* A fault of push(): the test of the end forgotten.
AcceptedAfterClose(bs, data) ==
  IF bs.error THEN << >> ELSE Take(data, MinOf(Len(data), AvailableCapacity(bs)))

\* What a push of data appends: nothing once the stream is closed or broken,
\* and never more than the space left.
Accepted(bs, data) ==
  IF bs.is_closed \/ bs.error
  THEN << >>
  ELSE Take(data, MinOf(Len(data), AvailableCapacity(bs)))

\* A fault of push(): the bytes are not cut to the space that is left.
PushUncut(bs, data) ==
  IF Accepted(bs, data) = << >> THEN bs
  ELSE [bs EXCEPT !.buffer = @ \o data, !.bytes_pushed = @ + Len(data)]

Push(bs, data) ==
  [bs EXCEPT !.buffer = @ \o Accepted(bs, data),
             !.bytes_pushed = @ + Len(Accepted(bs, data))]

\* How many bytes a pop of len removes.
Removed(bs, len) ==
  IF IsFinished(bs) \/ bs.error THEN 0 ELSE MinOf(len, Len(bs.buffer))

Pop(bs, len) ==
  [bs EXCEPT !.buffer = Drop(@, Removed(bs, len)),
             !.bytes_popped = @ + Removed(bs, len)]

\* What read() hands out: it peeks and pops until it has max_len bytes or the
\* buffer is empty.  After an error pop() removes nothing, so the loop goes over
\* the same buffer again and again.
ReadBytes(bs, max_len) ==
  IF bs.error /\ bs.buffer # << >>
  THEN [i \in 1 .. max_len |-> bs.buffer[((i - 1) % Len(bs.buffer)) + 1]]
  ELSE Take(bs.buffer, MinOf(max_len, Len(bs.buffer)))
==============================================================================
