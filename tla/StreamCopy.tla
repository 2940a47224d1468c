------------------------------- MODULE StreamCopy -------------------------------
(***************************************************************************)
(* bidirectional_stream_copy (src/minnow/apps): four rules of an EventLoop *)
(* copy standard input to a socket and the socket to standard output, each *)
(* way through a ByteStream.  A rule is a pair of the way and whether it   *)
(* fills or drains the way's stream.  Descriptors may take a part of what  *)
(* they are offered, hang up and fail.                                     *)
(***************************************************************************)
EXTENDS ByteStreamOps, SequencesExt

CONSTANTS Byte,
          Input,       \* Input[w]: what the source of each way will give
          BufferSize

Ways == { "outbound", "inbound" }
Rules == << << "outbound", "fill" >>, << "outbound", "drain" >>,
            << "inbound", "fill" >>, << "inbound", "drain" >> >>
Fd(r) == IF r = << "outbound", "fill" >> THEN "stdin"
         ELSE IF r = << "inbound", "drain" >> THEN "stdout" ELSE "socket"

ASSUME InputAssumption == \A w \in Ways : Input[w] \in Seq(Byte)
ASSUME BufferSizeAssumption == BufferSize \in Nat \ {0}

VARIABLES copy,    \* the two streams and flags, and the descriptors' flags
          rules,   \* the event loop's rules that are left
          taken,   \* taken[w]: how many bytes of Input[w] were read
          given,   \* given[w]: the bytes the way's destination was given
          status   \* "running", "exited", or "threw" for a busy wait

vars == << copy, rules, taken, given, status >>

Init ==
  /\ copy = [ stream |-> [w \in Ways |-> NewByteStream(BufferSize)],
              shutdown |-> [w \in Ways |-> FALSE],
              eof |-> {}, closed |-> {} ]
  /\ rules = Rules
  /\ taken = [w \in Ways |-> 0]
  /\ given = [w \in Ways |-> << >>]
  /\ status = "running"

-------------------------------------------------------------------------------
(* The rules' functions *)

Fills(r) == r[2] = "fill"
FdAtEof(r, c) == Fd(r) \in c.eof
FdIsClosed(r, c) == Fd(r) \in c.closed

HasError(c) == \E w \in Ways : c.stream[w].error

\* Faults: a full stream is filled; the end of a stream is no reason to drain
\* it; a way that was shut down is drained again.
WantsFillFull(c, w) == ~HasError(c) /\ ~c.stream[w].is_closed
WantsDrainBytes(c, w) == c.stream[w].buffer # << >>
WantsDrainAgain(c, w) == c.stream[w].buffer # << >> \/ IsFinished(c.stream[w])

WantsFill(c, w) == /\ ~HasError(c)
                   /\ AvailableCapacity(c.stream[w]) > 0
                   /\ ~c.stream[w].is_closed
WantsDrain(c, w) == \/ c.stream[w].buffer # << >>
                    \/ IsFinished(c.stream[w]) /\ ~c.shutdown[w]
Wants(r, c) == IF Fills(r) THEN WantsFill(c, r[1]) ELSE WantsDrain(c, r[1])

CloseStream(r, c) == [c EXCEPT !.stream[r[1]] = Close(@)]
BreakStreams(r, c) ==
  [c EXCEPT !.stream["outbound"] = SetError(@), !.stream["inbound"] = SetError(@)]

Loop == INSTANCE EventLoop WITH
  Reads <- Fills, AtEof <- FdAtEof, Closed <- FdIsClosed,
  Interest <- Wants, OnCancel <- CloseStream, OnError <- BreakStreams

\* What fill reads is pushed; a read of no bytes is the end.
Fill(c, w, data) ==
  LET r == << w, "fill" >>
      pushed == [c EXCEPT !.stream[w] = Push(@, data)]
  IN  IF data = << >>
      THEN [CloseStream(r, pushed) EXCEPT !.eof = @ \cup {Fd(r)}]
      ELSE pushed

\* A fault: the end of a stream is not passed on.
DrainUnended(c, w, n) == [c EXCEPT !.stream[w] = Pop(@, n)]

\* What the destination takes is popped; a finished stream ends it, the socket
\* by a shutdown, the output by closing it (which also marks its end).
Drain(c, w, n) ==
  LET popped == [c EXCEPT !.stream[w] = Pop(@, n)]
      ends == IF w = "inbound" THEN {"stdout"} ELSE {}
  IN  IF IsFinished(popped.stream[w])
      THEN [popped EXCEPT !.shutdown[w] = TRUE,
                          !.closed = @ \cup ends, !.eof = @ \cup ends]
      ELSE popped

-------------------------------------------------------------------------------
Left(w) == Len(Input[w]) - taken[w]

\* Any descriptor may hang up at any time: the thread of a TCPMinnowSocket shuts
\* the socket pair down by itself (tcp_minnow_socket_impl.hh:279).  One that is
\* read stays readable as long as it has bytes, the socket until its end is read.
MayHangUp(swept, ready, fds) ==
  LET seen(w) == << w, "fill" >> \in swept.asked => << w, "fill" >> \in ready
  IN  /\ "stdin" \in fds => Left("outbound") = 0 \/ seen("outbound")
      /\ "socket" \in fds => seen("inbound")

On(fds, swept) == { r \in ToSet(swept.rules) : Fd(r) \in fds }

\* The loop goes on in state next, having served r with a read or write or not.
Continue(walked, next, touched) ==
  /\ copy' = next
  /\ rules' = walked.rules
  /\ status' = IF \E r \in walked.served : Loop!BusyWait(r, next, touched)
               THEN "threw" ELSE "running"

\* A read takes some of what there is, as much as the stream has room for; asked
\* for nothing it would take more (file_descriptor.cc:83).
ServeFill(walked, w) ==
  LET room == AvailableCapacity(walked.state.stream[w]) IN
  \E n \in 0 .. Left(w) :
    LET data == SubSeq(Input[w], taken[w] + 1, taken[w] + n) IN
    /\ n <= room \/ room = 0
    /\ n = 0 => Left(w) = 0
    /\ Continue(walked, Fill(walked.state, w, data), TRUE)
    /\ taken' = [taken EXCEPT ![w] = @ + n]
    /\ UNCHANGED given

\* A write takes a part of the buffer.  A shutdown of the socket counts as one.
ServeDrain(walked, w) ==
  LET buffer == walked.state.stream[w].buffer IN
  \E n \in 0 .. Len(buffer) :
    LET next == Drain(walked.state, w, n) IN
    /\ n = 0 => buffer = << >>
    /\ Continue(walked, next, n > 0 \/ (w = "outbound" /\ IsFinished(next.stream[w])))
    /\ given' = [given EXCEPT ![w] = @ \o Take(buffer, n)]
    /\ UNCHANGED taken

\* One call of wait_next_event(-1), without time limit: Exit, or Wait.  Swept and
\* the result of the walk are bound by \E so that TLC evaluates them once.
Swept == Loop!Sweep(copy, rules)

Exit ==
  /\ status = "running"
  /\ Swept.asked = {}
  /\ copy' = Swept.state
  /\ rules' = Swept.rules
  /\ status' = "exited"
  /\ UNCHANGED << taken, given >>

Wait(swept, ready, hung, broken) ==
  /\ status = "running"
  /\ swept.asked # {}
  /\ MayHangUp(swept, ready, hung)
  /\ Loop!PollReturns(swept, ready, On(hung, swept), On(broken, swept))
  /\ \E walked \in {Loop!Walk(swept, ready, On(hung, swept), On(broken, swept))} :
       \/ /\ walked.served = {}
          /\ Continue(walked, walked.state, FALSE)
          /\ UNCHANGED << taken, given >>
       \/ \E r \in walked.served : IF Fills(r) THEN ServeFill(walked, r[1])
                                               ELSE ServeDrain(walked, r[1])

Fds == { "stdin", "socket", "stdout" }

\* Which descriptors hang up or break is one of the given sets.
Waits(troubles) ==
  \E swept \in {Swept} :
    \E ready \in SUBSET swept.asked, hung, broken \in troubles :
      Wait(swept, ready, hung, broken)

Next == Exit \/ Waits(SUBSET Fds)

Spec == Init /\ [][Next]_vars

-------------------------------------------------------------------------------
(* Properties *)

\* Each way is a pipe until something fails, over partial reads and writes,
\* ends and hang-ups in any order (after that drain writes what pop leaves).
Outbound == INSTANCE BytePipe WITH
  PipeCapacity <- BufferSize, sent <- Take(Input["outbound"], taken["outbound"]),
  delivered <- given["outbound"], ended <- copy.stream["outbound"].is_closed,
  finished <- copy.shutdown["outbound"], broken <- FALSE
Inbound == INSTANCE BytePipe WITH
  PipeCapacity <- BufferSize, sent <- Take(Input["inbound"], taken["inbound"]),
  delivered <- given["inbound"], ended <- copy.stream["inbound"].is_closed,
  finished <- copy.shutdown["inbound"], broken <- FALSE
CopiesEachWay == [][HasError(copy') \/ (Outbound!PipeNext /\ Inbound!PipeNext)]_vars

\* No order of events makes the loop throw its exception for a busy wait
\* (eventloop.cc:212): every callback reads, writes or loses its interest.
NeverThrows == status # "threw"

\* When the loop exits without an error, each way has been copied to the end of
\* its input and its end passed on, except one whose destination hung up.
ExitMeansCopied ==
  status = "exited" /\ ~HasError(copy) =>
    \A w \in Ways :
      IF copy.shutdown[w] THEN given[w] = Input[w]
                          ELSE << w, "drain" >> \notin ToSet(rules)
=================================================================================
