--------------------------- MODULE ByteStreamProofs ---------------------------
(***************************************************************************)
(* For every capacity, every set of bytes and calls of any length: the     *)
(* ByteStream is a FIFO whose counters keep in step with its buffer, and   *)
(* it implements the abstract pipe.  TypeOK, FIFO and Accounting together  *)
(* are inductive; neither FIFO nor Accounting is by itself, since a push   *)
(* is cut by the counters and a pop takes what FIFO says is there.         *)
(***************************************************************************)
EXTENDS ByteStream, ValueLemmas

IInv == TypeOK /\ FIFO /\ Accounting

-----------------------------------------------------------------------------
(* What the operators return *)

\* What push() appends fits the space that is left (byte_stream.cc:20-33).
LEMMA AcceptedFits ==
  ASSUME IInv, NEW data \in Seq(Byte)
  PROVE  /\ Accepted(stream, data) \in Seq(Byte)
         /\ Len(Accepted(stream, data)) \in Nat
         /\ Len(stream.buffer) + Len(Accepted(stream, data)) <= Capacity
<1>1. /\ stream.buffer \in Seq(Byte)
      /\ stream.capacity = Capacity /\ Capacity \in Nat
      /\ Len(stream.buffer) \in Nat /\ Len(data) \in Nat
      /\ Len(stream.buffer) <= Capacity
  BY LenProperties, CapacityAssumption DEF IInv, TypeOK, ByteStreams, Accounting
<1>2. AvailableCapacity(stream) = Capacity - Len(stream.buffer)
  <2>1. Len(written) = Len(consumed) + Len(stream.buffer)
    BY <1>1, ConcatProperties DEF IInv, TypeOK, FIFO
  <2>2. Len(written) \in Nat /\ Len(consumed) \in Nat
    BY LenProperties DEF IInv, TypeOK
  <2> QED
    BY <1>1, <2>1, <2>2 DEF IInv, Accounting, AvailableCapacity
<1>3. CASE stream.is_closed \/ stream.error
  <2>1. Accepted(stream, data) = << >>
    BY <1>3 DEF Accepted
  <2>2. << >> \in Seq(Byte) /\ Len(<< >>) = 0
    BY EmptySeq
  <2> QED
    BY <1>1, <2>1, <2>2
<1>4. CASE ~(stream.is_closed \/ stream.error)
  <2> DEFINE n == MinOf(Len(data), AvailableCapacity(stream))
  <2>1. /\ n \in 0 .. Len(data)
        /\ n + Len(stream.buffer) <= Capacity
    <3>1. AvailableCapacity(stream) \in Nat
      BY <1>1, <1>2
    <3>2. /\ MinOf(Len(data), AvailableCapacity(stream)) \in 0 .. Len(data)
          /\ MinOf(Len(data), AvailableCapacity(stream)) <= AvailableCapacity(stream)
      BY <1>1, <3>1 DEF MinOf
    <3> QED
      BY <1>1, <1>2, <3>2
  <2> HIDE DEF n
  <2>2. Take(data, n) \in Seq(Byte) /\ Len(Take(data, n)) = n
    BY <2>1, Cut
  <2>3. Accepted(stream, data) = Take(data, n)
    BY <1>4 DEF Accepted, n
  <2> QED
    BY <1>1, <2>1, <2>2, <2>3
<1> QED
  BY <1>3, <1>4

\* What pop() removes is there (byte_stream.cc:92-103).
LEMMA RemovedIsThere ==
  ASSUME IInv, NEW len \in Nat
  PROVE  Removed(stream, len) \in 0 .. Len(stream.buffer)
<1>1. Len(stream.buffer) \in Nat
  BY LenProperties DEF IInv, TypeOK, ByteStreams
<1> QED
  BY <1>1 DEF Removed, MinOf

-----------------------------------------------------------------------------
(* The inductive invariant *)

\* The constructor makes an empty stream (byte_stream.cc:9-11).
LEMMA InitIInv == Init => IInv
<1> SUFFICES ASSUME Init PROVE IInv
  OBVIOUS
<1>1. << >> \in Seq(Byte) /\ Len(<< >>) = 0 /\ << >> \o << >> = << >>
  BY EmptySeq, ConcatEmptySeq
<1> QED
  BY <1>1, CapacityAssumption
  DEF Init, IInv, TypeOK, FIFO, Accounting, NewByteStream, ByteStreams

\* Every method of the two views preserves the invariant.
LEMMA NextIInv == IInv /\ [Next]_vars => IInv'
<1> SUFFICES ASSUME IInv, [Next]_vars PROVE IInv'
  OBVIOUS
<1>a. /\ stream \in ByteStreams(Byte) /\ stream.capacity = Capacity
      /\ stream.buffer \in Seq(Byte) /\ written \in Seq(Byte) /\ consumed \in Seq(Byte)
      /\ written = consumed \o stream.buffer
      /\ stream.bytes_pushed = Len(written) /\ stream.bytes_popped = Len(consumed)
      /\ Len(stream.buffer) <= Capacity
  BY DEF IInv, TypeOK, FIFO, Accounting, ByteStreams
<1>b. /\ Len(written) \in Nat /\ Len(consumed) \in Nat /\ Len(stream.buffer) \in Nat
      /\ Capacity \in Nat
  BY <1>a, LenProperties, CapacityAssumption
<1>1. ASSUME NEW data \in Seq(Byte), WriterPush(data) PROVE IInv'
  <2> DEFINE new == Accepted(stream, data)
  <2>1. /\ new \in Seq(Byte) /\ Len(new) \in Nat
        /\ Len(stream.buffer) + Len(new) <= Capacity
    BY AcceptedFits
  <2>2. /\ stream' = [stream EXCEPT !.buffer = @ \o new, !.bytes_pushed = @ + Len(new)]
        /\ written' = written \o new /\ consumed' = consumed
    BY <1>1 DEF WriterPush, Push
  <2> HIDE DEF new
  <2>3. /\ written \o new \in Seq(Byte)
        /\ Len(written \o new) = Len(written) + Len(new)
        /\ stream.buffer \o new \in Seq(Byte)
        /\ Len(stream.buffer \o new) = Len(stream.buffer) + Len(new)
    BY <1>a, <2>1, ConcatProperties
  <2>4. (consumed \o stream.buffer) \o new = consumed \o (stream.buffer \o new)
    <3> DEFINE buffer == stream.buffer
    <3>1. buffer \in Seq(Byte)
      BY <1>a
    <3> HIDE DEF buffer
    <3>2. (consumed \o buffer) \o new = consumed \o (buffer \o new)
      BY <1>a, <2>1, <3>1, SMTT(30)
    <3> QED
      BY <3>2 DEF buffer
  <2>5. /\ stream'.buffer = stream.buffer \o new
        /\ stream'.bytes_pushed = stream.bytes_pushed + Len(new)
        /\ stream'.bytes_popped = stream.bytes_popped
        /\ stream'.capacity = Capacity
    BY <1>a, <2>2 DEF ByteStreams
  <2>5a. stream' \in ByteStreams(Byte)
    <3>1. stream.bytes_pushed + Len(new) \in Nat
      BY <1>a, <1>b, <2>1
    <3> QED
      BY <1>a, <2>2, <2>3, <3>1, Zenon DEF ByteStreams
  <2>6. TypeOK'
    BY <1>a, <2>2, <2>3, <2>5, <2>5a DEF TypeOK
  <2>7. FIFO'
    BY <1>a, <2>2, <2>4, <2>5 DEF FIFO
  <2>8. Accounting'
    BY <1>a, <1>b, <2>1, <2>2, <2>3, <2>5 DEF Accounting
  <2> QED
    BY <2>6, <2>7, <2>8 DEF IInv
<1>2. ASSUME WriterClose PROVE IInv'
  BY <1>a, <1>2 DEF WriterClose, Close, IInv, TypeOK, FIFO, Accounting, ByteStreams
<1>3. ASSUME NEW len \in Nat, ReaderPop(len) PROVE IInv'
  <2> DEFINE n == Removed(stream, len)
             out == Take(stream.buffer, n)
             rest == Drop(stream.buffer, n)
  <2>1. n \in 0 .. Len(stream.buffer)
    BY RemovedIsThere
  <2>2. /\ stream' = [stream EXCEPT !.buffer = rest, !.bytes_popped = @ + n]
        /\ consumed' = consumed \o out /\ written' = written
    BY <1>3 DEF ReaderPop, Pop
  <2>3. /\ out \in Seq(Byte) /\ Len(out) = n
        /\ rest \in Seq(Byte) /\ Len(rest) = Len(stream.buffer) - n
        /\ out \o rest = stream.buffer
    <3>1. stream.buffer \in Seq(Byte)
      BY <1>a
    <3> QED
      BY <2>1, <3>1, Cut, Zenon
  <2> HIDE DEF n, out, rest
  <2>4. /\ consumed \o out \in Seq(Byte)
        /\ Len(consumed \o out) = Len(consumed) + n
    BY <1>a, <2>3, ConcatProperties
  <2>5. (consumed \o out) \o rest = consumed \o stream.buffer
    <3>1. consumed \in Seq(Byte) /\ out \in Seq(Byte) /\ rest \in Seq(Byte)
      BY <1>a, <2>3
    <3>2. (consumed \o out) \o rest = consumed \o (out \o rest)
      BY <3>1, SMT
    <3> QED
      BY <2>3, <3>2
  <2>6. /\ stream'.buffer = rest
        /\ stream'.bytes_pushed = stream.bytes_pushed
        /\ stream'.bytes_popped = stream.bytes_popped + n
        /\ stream'.capacity = Capacity
    BY <1>a, <2>2 DEF ByteStreams
  <2>6a. stream' \in ByteStreams(Byte)
    <3>1. stream.bytes_popped + n \in Nat
      BY <1>a, <1>b, <2>1
    <3> QED
      BY <1>a, <2>2, <2>3, <3>1, Zenon DEF ByteStreams
  <2>7. TypeOK'
    BY <1>a, <2>2, <2>4, <2>6, <2>6a DEF TypeOK
  <2>8. FIFO'
    BY <1>a, <2>2, <2>5, <2>6 DEF FIFO
  <2>9. Accounting'
    BY <1>a, <1>b, <2>1, <2>2, <2>3, <2>4, <2>6 DEF Accounting
  <2> QED
    BY <2>7, <2>8, <2>9 DEF IInv
<1>4. ASSUME StreamSetError PROVE IInv'
  BY <1>a, <1>4 DEF StreamSetError, SetError, IInv, TypeOK, FIFO, Accounting, ByteStreams
<1>5. ASSUME UNCHANGED vars PROVE IInv'
  BY <1>5 DEF vars, IInv, TypeOK, FIFO, Accounting
<1> QED
  BY <1>1, <1>2, <1>3, <1>4, <1>5 DEF Next

\* The fields keep their types and the capacity is never changed.
THEOREM TypeCorrect == Spec => []TypeOK
<1>1. IInv => TypeOK
  BY DEF IInv
<1> QED
  BY <1>1, InitIInv, NextIInv, PTL DEF Spec

\* The bytes that come out are those that went in, in order and each once.
THEOREM StreamIsFIFO == Spec => []FIFO
<1>1. IInv => FIFO
  BY DEF IInv
<1> QED
  BY <1>1, InitIInv, NextIInv, PTL DEF Spec

\* bytes_pushed_ and bytes_popped_ count what went in and out, and the buffer
\* never outgrows the capacity, so that available_capacity() never wraps.
THEOREM CountersInStep == Spec => []Accounting
<1>1. IInv => Accounting
  BY DEF IInv
<1> QED
  BY <1>1, InitIInv, NextIInv, PTL DEF Spec

-----------------------------------------------------------------------------
(* The refinement *)

\* A new stream is an empty pipe.
LEMMA InitIsPipeInit == Init => Pipe!PipeInit
BY DEF Init, NewByteStream, IsFinished, Pipe!PipeInit

\* Every method is a step of the pipe, or none.
LEMMA NextIsPipeNext ==
  IInv /\ IInv' /\ [Next]_vars => [Pipe!PipeNext]_Pipe!pipeVars
<1> SUFFICES ASSUME IInv, IInv', Next PROVE Pipe!PipeNext
  BY DEF vars, Pipe!pipeVars
<1>a. /\ written \in Seq(Byte) /\ written' \in Seq(Byte)
      /\ consumed \in Seq(Byte) /\ consumed' \in Seq(Byte)
      /\ stream.buffer \in Seq(Byte) /\ stream'.buffer \in Seq(Byte)
      /\ written' = consumed' \o stream'.buffer
      /\ Len(stream'.buffer) <= Capacity
      /\ stream \in ByteStreams(Byte) /\ stream' \in ByteStreams(Byte)
  BY DEF IInv, TypeOK, FIFO, Accounting, ByteStreams
<1>b. Len(consumed') \in Nat /\ Len(stream'.buffer) \in Nat /\ Capacity \in Nat
  BY <1>a, LenProperties, CapacityAssumption
\* What holds of every step because of the invariant.
<1>c. /\ IsPrefix(consumed', written')
      /\ Len(written') - Len(consumed') <= Capacity
      /\ IsFinished(stream)' => stream'.is_closed /\ consumed' = written'
  <2>1. IsPrefix(consumed', written')
    BY <1>a, PrefixOfConcat
  <2>2. Len(written') = Len(consumed') + Len(stream'.buffer)
    BY <1>a, ConcatProperties
  <2>3. consumed' \o << >> = consumed'
    BY <1>a, ConcatEmptySeq
  <2> QED
    BY <1>a, <1>b, <2>1, <2>2, <2>3 DEF IsFinished
\* What holds of a step that writes nothing, or reads nothing.
<1>d. IsPrefix(written, written) /\ IsPrefix(consumed, consumed)
  <2>1. << >> \in Seq(Byte) /\ written \o << >> = written /\ consumed \o << >> = consumed
    BY <1>a, EmptySeq, ConcatEmptySeq
  <2> QED
    BY <1>a, <2>1, PrefixOfConcat
\* The pipe's IsPrefix is the stream's.
<1>e. \A s, t : Pipe!IsPrefix(s, t) <=> IsPrefix(s, t)
  BY DEF IsPrefix, Pipe!IsPrefix
<1>1. ASSUME NEW data \in Seq(Byte), WriterPush(data) PROVE Pipe!PipeNext
  <2> DEFINE new == Accepted(stream, data)
  <2>1. new \in Seq(Byte)
    BY AcceptedFits
  <2>2. /\ stream' = [stream EXCEPT !.buffer = @ \o new, !.bytes_pushed = @ + Len(new)]
        /\ written' = written \o new /\ consumed' = consumed
    BY <1>1 DEF WriterPush, Push
  <2>3. stream.is_closed \/ stream.error => new = << >>
    BY DEF Accepted
  <2> HIDE DEF new
  <2>4. IsPrefix(written, written')
    BY <1>a, <2>1, <2>2, PrefixOfConcat
  <2>5. /\ written \o << >> = written /\ stream.buffer \o << >> = stream.buffer
    BY <1>a, ConcatEmptySeq
  <2>6. /\ stream'.is_closed = stream.is_closed /\ stream'.error = stream.error
        /\ stream'.buffer = stream.buffer \o new
    BY <1>a, <2>2 DEF ByteStreams
  <2>7. stream.is_closed \/ stream.error => written' = written /\ stream'.buffer = stream.buffer
    BY <2>2, <2>3, <2>5, <2>6
  <2>8. IsFinished(stream) => IsFinished(stream)'
    BY <2>6, <2>7 DEF IsFinished
  <2> QED
    BY <1>c, <1>d, <1>e, <2>2, <2>4, <2>6, <2>7, <2>8 DEF Pipe!PipeNext
<1>2. ASSUME WriterClose PROVE Pipe!PipeNext
  <2>1. /\ stream'.is_closed /\ stream'.error = stream.error /\ stream'.buffer = stream.buffer
        /\ written' = written /\ consumed' = consumed
    BY <1>a, <1>2 DEF WriterClose, Close, ByteStreams
  <2> QED
    BY <1>c, <1>d, <1>e, <2>1 DEF Pipe!PipeNext, IsFinished
<1>3. ASSUME NEW len \in Nat, ReaderPop(len) PROVE Pipe!PipeNext
  <2> DEFINE n == Removed(stream, len)
             out == Take(stream.buffer, n)
  <2>1. n \in 0 .. Len(stream.buffer)
    BY RemovedIsThere
  <2>2. /\ stream'.is_closed = stream.is_closed /\ stream'.error = stream.error
        /\ stream'.buffer = Drop(stream.buffer, n)
        /\ consumed' = consumed \o out /\ written' = written
    BY <1>a, <1>3 DEF ReaderPop, Pop, ByteStreams
  <2>3. IsFinished(stream) \/ stream.error => n = 0
    BY DEF Removed
  <2> HIDE DEF n
  <2>4. out \in Seq(Byte)
    BY <1>a, <2>1, Cut
  <2>5. n = 0 => out = << >>
    BY SubSeqEmpty DEF Take
  <2> HIDE DEF out
  <2>6. IsPrefix(consumed, consumed')
    BY <1>a, <2>2, <2>4, PrefixOfConcat
  <2>7. consumed \o << >> = consumed
    BY <1>a, ConcatEmptySeq
  <2>8. n = 0 => Drop(stream.buffer, n) = stream.buffer
    <3>1. SubSeq(stream.buffer, 1, Len(stream.buffer)) = stream.buffer
      BY <1>a, SubSeqFull
    <3> QED
      BY <3>1 DEF Drop
  <2>9. IsFinished(stream) => IsFinished(stream)'
    BY <2>2, <2>3, <2>8 DEF IsFinished
  <2> QED
    BY <1>c, <1>d, <1>e, <2>2, <2>3, <2>5, <2>6, <2>7, <2>9 DEF Pipe!PipeNext
<1>4. ASSUME StreamSetError PROVE Pipe!PipeNext
  <2>1. /\ stream'.is_closed = stream.is_closed /\ stream'.error
        /\ stream'.buffer = stream.buffer /\ written' = written /\ consumed' = consumed
    BY <1>a, <1>4 DEF StreamSetError, SetError, ByteStreams
  <2> QED
    BY <1>c, <1>d, <1>e, <2>1 DEF Pipe!PipeNext, IsFinished
<1> QED
  BY <1>1, <1>2, <1>3, <1>4 DEF Next

\* The stream implements the abstract pipe: its end is final and comes after
\* the last byte, and an error stops both ways.
THEOREM StreamIsPipe == Spec => ImplementsPipe
BY InitIInv, NextIInv, InitIsPipeInit, NextIsPipeNext, PTL
DEF Spec, ImplementsPipe, Pipe!PipeSpec
===============================================================================
