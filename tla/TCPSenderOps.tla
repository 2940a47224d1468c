----------------------------- MODULE TCPSenderOps -----------------------------
(***************************************************************************)
(* A TCPSender as a value (src/minnow/src/tcp_sender.hh) and its methods   *)
(* (tcp_sender.cc).  A method that transmits has two operators: the sender *)
(* it leaves, and the messages it hands to transmit(), in order.           *)
(***************************************************************************)
EXTENDS TCPMessages, ByteStreamOps, SequencesExt

CONSTANT MaxPayload  \* TCPConfig::MAX_PAYLOAD_SIZE

ASSUME MaxPayloadAssumption == MaxPayload \in Nat \ {0}

NewSender(capacity, isn, rto) ==
  [ input |-> NewByteStream(capacity), isn |-> isn,
    initial_RTO |-> rto, current_RTO |-> rto, window_size |-> 1,
    bytes_in_flight |-> 0, next_seqno |-> 0, time_running |-> FALSE,
    consecutive_retransmissions |-> 0, syn_sent |-> FALSE, fin_sent |-> FALSE,
    outstanding |-> << >> ]

\* A fault: a window of zero is not probed.
EffectiveWindowClosed(s) == s.window_size

\* A window of zero is treated as one, so that a probe is sent.
EffectiveWindow(s) == IF s.window_size = 0 THEN 1 ELSE s.window_size
\* A fault: the bytes in flight are not counted.
SpaceFree(s) == EffectiveWindow(s)
Space(s) == EffectiveWindow(s) - s.bytes_in_flight

EmptyMessage(s) ==
  SenderMessage(Wrap(s.next_seqno, s.isn), FALSE, << >>, FALSE, s.input.error)

-------------------------------------------------------------------------------
\* What every branch of push does with a message it built: the payload leaves
\* the input, the segment is outstanding and counted, and the timer runs.
Send(s, SYN, payload, FIN) ==
  LET m == SenderMessage(Wrap(s.next_seqno, s.isn), SYN, payload, FIN, FALSE)
      segment == [ msg |-> m, seqno |-> s.next_seqno,
                   length |-> SequenceLength(m), transmit_time |-> 0 ]
  IN  [s EXCEPT !.input = Pop(@, Len(payload)),
                !.outstanding = Append(@, segment),
                !.bytes_in_flight = @ + SequenceLength(m),
                !.next_seqno = @ + SequenceLength(m),
                !.syn_sent = @ \/ SYN,
                !.fin_sent = @ \/ FIN,
                !.time_running = TRUE,
                !.consecutive_retransmissions = IF s.time_running THEN @ ELSE 0]

\* The payload of at most n bytes, and whether it takes the input to its end.
Payload(s, n) == Take(s.input.buffer, MinOf(MinOf(n, MaxPayload), Len(s.input.buffer)))
Ends(s, payload) == IsFinished(Pop(s.input, Len(payload)))

\* The SYN takes payload along; its FIN is not held against the window.
SendSyn(s) ==
  IF ~s.syn_sent /\ Space(s) > 0
  THEN LET payload == Payload(s, Space(s) - 1)
       IN  Send(s, TRUE, payload, Ends(s, payload))
  ELSE s

\* One turn of the loop over the buffered bytes.
SendChunk(s) ==
  IF Space(s) > 0 /\ s.input.buffer # << >>
  THEN LET payload == Payload(s, Space(s))
       IN  Send(s, FALSE, payload, Ends(s, payload) /\ Len(payload) < Space(s))
  ELSE s

\* The sender after each number of turns.  Every turn takes at least one byte,
\* so the loop is over after as many turns as there are bytes.
Turns(s) ==
  LET turn[n \in 0 .. Len(s.input.buffer)] == IF n = 0 THEN s ELSE SendChunk(turn[n - 1])
  IN  turn
SendChunks(s) == Turns(s)[Len(s.input.buffer)]

\* A fault: off by one at the end of the window.
SendFinSpare(s) ==
  IF IsFinished(s.input) /\ ~s.fin_sent /\ Space(s) > 1 THEN Send(s, FALSE, << >>, TRUE) ELSE s

SendFin(s) ==
  IF IsFinished(s.input) /\ ~s.fin_sent /\ Space(s) > 0
  THEN Send(s, FALSE, << >>, TRUE)
  ELSE s

SenderPush(s) ==
  IF s.fin_sent \/ s.input.error THEN s ELSE SendFin(SendChunks(SendSyn(s)))

\* What push transmits: a reset once the input is broken, else the segments it
\* added to the outstanding ones.
PushSends(s) ==
  IF s.fin_sent THEN << >>
  ELSE IF s.input.error THEN << EmptyMessage(s) >>
  ELSE LET added == Drop(SenderPush(s).outstanding, Len(s.outstanding))
       IN  [i \in 1 .. Len(added) |-> added[i].msg]

-------------------------------------------------------------------------------
\* A fault: off by one, the last number of the segment is not needed.
CoveredEarly(segment, ackno) == ackno + 1 >= segment.seqno + segment.length
Covered(segment, ackno) == ackno >= segment.seqno + segment.length

\* A fault: bytes_in_flight is left alone.
VisitUncounted(p, g, ackno) ==
  IF Covered(g, ackno) THEN p ELSE [p EXCEPT !.kept = Append(@, g)]

\* One turn of the loop over the outstanding segments: a segment that ackno
\* covers in full is taken out and no longer counted, any other is kept.
Visit(p, g, ackno) ==
  IF Covered(g, ackno) THEN [p EXCEPT !.in_flight = @ - g.length]
  ELSE [p EXCEPT !.kept = Append(@, g)]

\* The loop after its first i segments.
Visits(s, ackno) ==
  LET after[i \in 0 .. Len(s.outstanding)] ==
        IF i = 0 THEN [kept |-> << >>, in_flight |-> s.bytes_in_flight]
        ELSE Visit(after[i - 1], s.outstanding[i], ackno)
  IN  after
Visited(s, ackno) == Visits(s, ackno)[Len(s.outstanding)]

\* A fault: the timer stops at every ackno.
AcknowledgeStops(s, ackno) ==
  [s EXCEPT !.outstanding = Visited(s, ackno).kept, !.time_running = FALSE,
            !.bytes_in_flight = Visited(s, ackno).in_flight]

\* The retransmission timeout starts afresh if any segment was covered.
Acknowledge(s, ackno) ==
  LET pass == Visited(s, ackno)
  IN  IF pass.kept = s.outstanding THEN s
      ELSE [s EXCEPT !.outstanding = pass.kept,
                     !.bytes_in_flight = pass.in_flight,
                     !.consecutive_retransmissions = 0,
                     !.current_RTO = s.initial_RTO]

\* The window is taken over before the ackno is looked at; a message without
\* ackno and without window means the peer's receiver failed; an ackno beyond
\* what was sent is ignored.
SenderReceive(s, m) ==
  LET noted == [s EXCEPT !.window_size = m.window_size]
      ackno == Unwrap(Value(m.ackno), s.isn, s.next_seqno)
  IN  IF ~HasValue(m.ackno)
      THEN IF m.window_size = 0 THEN [noted EXCEPT !.input = SetError(@)] ELSE noted
      ELSE IF m.RST
      THEN [noted EXCEPT !.outstanding = << >>, !.bytes_in_flight = 0, !.time_running = FALSE]
      ELSE IF ackno > s.next_seqno THEN noted
      ELSE Acknowledge(noted, ackno)

-------------------------------------------------------------------------------
\* Only the oldest outstanding segment is timed.
Elapsed(s, ms) == Head(s.outstanding).transmit_time + ms
Expires(s, ms) == s.time_running /\ s.outstanding # << >> /\ Elapsed(s, ms) >= s.current_RTO

SenderTick(s, ms) ==
  IF ~s.time_running \/ s.outstanding = << >> THEN s
  ELSE IF Expires(s, ms)
  THEN [s EXCEPT !.outstanding[1].transmit_time = 0,
                 !.consecutive_retransmissions = @ + 1,
                 !.current_RTO = IF s.window_size > 0 THEN 2 * @ ELSE @]
  ELSE [s EXCEPT !.outstanding[1].transmit_time = @ + ms]

\* A fault: what is retransmitted is an empty message.
TickSendsEmpty(s, ms) == IF Expires(s, ms) THEN << EmptyMessage(s) >> ELSE << >>
TickSends(s, ms) == IF Expires(s, ms) THEN << Head(s.outstanding).msg >> ELSE << >>
===============================================================================
