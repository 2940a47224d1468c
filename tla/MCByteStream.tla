---------------------------- MODULE MCByteStream ----------------------------
(***************************************************************************)
(* A stream written in chunks of at most MaxChunk bytes.  A push must be   *)
(* able to meet a buffer with some but not enough space, and the buffer    *)
(* must be able to be filled and drained twice.                            *)
(***************************************************************************)
EXTENDS ByteStream

CONSTANTS MaxChunk,   \* longest data pushed or popped in one call
          MaxWritten  \* no push once so many bytes were accepted

Chunks == BoundedSeq(Byte, MaxChunk)

MCNext ==
  \/ \E data \in Chunks : Len(written) < MaxWritten /\ WriterPush(data)
  \/ WriterClose
  \/ \E len \in 0 .. MaxChunk : ReaderPop(len)
  \/ StreamSetError

MCSpec == Init /\ [][MCNext]_vars
=============================================================================
