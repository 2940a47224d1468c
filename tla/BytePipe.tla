------------------------------- MODULE BytePipe -------------------------------
(***************************************************************************)
(* What every byte carrier of the program promises, from one ByteStream to *)
(* one direction of a TCP connection: the bytes that come out are the      *)
(* bytes that went in, in order and each once; the end of the stream is    *)
(* reported only after the writer ended it and every byte came out; at     *)
(* most PipeCapacity bytes are under way; a broken carrier moves nothing.  *)
(***************************************************************************)
EXTENDS Naturals, SequencesExt

CONSTANT PipeCapacity

VARIABLES sent,       \* every byte the writer got into the pipe
          delivered,  \* every byte the reader got out of it
          ended,      \* the writer has ended the stream
          finished,   \* the reader has been told of the end
          broken      \* the carrier has failed

pipeVars == << sent, delivered, ended, finished, broken >>

PipeInit == /\ sent = << >> /\ delivered = << >>
            /\ ended = FALSE /\ finished = FALSE /\ broken = FALSE

\* One step may write, read, end the stream and report the end, as one call
\* of the program may do.
PipeNext ==
  /\ IsPrefix(sent, sent')
  /\ IsPrefix(delivered, delivered')
  /\ IsPrefix(delivered', sent')
  /\ Len(sent') - Len(delivered') <= PipeCapacity
  /\ ended => ended' /\ sent' = sent
  /\ finished => finished'
  /\ finished' => ended' /\ delivered' = sent'
  /\ broken => broken' /\ UNCHANGED << sent, delivered >>

PipeSpec == PipeInit /\ [][PipeNext]_pipeVars
===============================================================================
