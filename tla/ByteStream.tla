----------------------------- MODULE ByteStream -----------------------------
(***************************************************************************)
(* One ByteStream with its Writer and its Reader, every method of the two  *)
(* views an action (src/minnow/src/byte_stream.cc).  The history variables *)
(* written and consumed record the bytes push() let in and pop() took out. *)
(***************************************************************************)
EXTENDS ByteStreamOps, SequencesExt

CONSTANTS Byte,      \* the values a byte takes
          Capacity   \* the constructor's argument

ASSUME CapacityAssumption == Capacity \in Nat

VARIABLES stream, written, consumed

vars == << stream, written, consumed >>

TypeOK == /\ stream \in ByteStreams(Byte)
          /\ stream.capacity = Capacity
          /\ written \in Seq(Byte)
          /\ consumed \in Seq(Byte)

Init == /\ stream = NewByteStream(Capacity)
        /\ written = << >>
        /\ consumed = << >>

WriterPush(data) ==
  /\ stream' = Push(stream, data)
  /\ written' = written \o Accepted(stream, data)
  /\ UNCHANGED consumed

WriterClose ==
  /\ stream' = Close(stream)
  /\ UNCHANGED << written, consumed >>

\* The reader peeks at the buffer and counts as consumed what pop() then takes
\* off it (read(), which peeks and pops in a loop, is ReadBytes).
ReaderPop(len) ==
  /\ stream' = Pop(stream, len)
  /\ consumed' = consumed \o Take(stream.buffer, Removed(stream, len))
  /\ UNCHANGED written

StreamSetError ==
  /\ stream' = SetError(stream)
  /\ UNCHANGED << written, consumed >>

Next == \/ \E data \in Seq(Byte) : WriterPush(data)
        \/ WriterClose
        \/ \E len \in Nat : ReaderPop(len)
        \/ StreamSetError

Spec == Init /\ [][Next]_vars

-----------------------------------------------------------------------------
(* Properties *)

\* The stream is a FIFO: what went in is what came out followed by what is
\* buffered, whatever pushes were cut short at the capacity
\* (byte_stream.cc push/pop).
FIFO == written = consumed \o stream.buffer

\* available_capacity() subtracts three unsigned counters; they stay in step
\* with the buffer, so the subtraction never wraps and the buffer never
\* outgrows the capacity.
Accounting ==
  /\ stream.bytes_pushed = Len(written)
  /\ stream.bytes_popped = Len(consumed)
  /\ Len(stream.buffer) <= Capacity

\* The stream is a pipe: the reader's bytes are the writer's, the end is seen
\* after the last of them, and an error stops them (byte_stream.hh:11-91).
Pipe == INSTANCE BytePipe WITH
          PipeCapacity <- Capacity, sent <- written, delivered <- consumed,
          ended <- stream.is_closed, finished <- IsFinished(stream),
          broken <- stream.error

ImplementsPipe == Pipe!PipeSpec
=============================================================================
