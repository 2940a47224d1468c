# Formal models of the Minnow TCP/IP stack

This directory holds TLA+ models of the C++ network stack in `src/minnow`
(a user-space TCP, a network interface with ARP and an IP router), the TLC
configurations that check them and the proofs TLAPS checks. Paths below are
relative to the repository; line numbers are those of `PROJECT.json`, whose
`map` says for every definition which lines it stands for.

## The system

From the application down:

```
 application  <--socket pair-->  TCPMinnowSocket (EventLoop, 3 rules, tick)
                                   |
                                 TCPPeer  =  TCPSender + TCPReceiver
                                   |            |            |
                                   |        ByteStream   Reassembler -> ByteStream
                                   |            (Wrap32 numbers in the messages)
                                 adapter: TUN / TAP / lossy / IPv4 / UDP
                                   |
                                 NetworkInterface (ARP)  <-- Ethernet -->  Router of many
```

| Component | State | Operations | Where it is hard |
|---|---|---|---|
| `ByteStream` | capacity, buffer, two unsigned counters, `is_closed_`, `error_` | `push`, `close`, `peek`/`pop`, `set_error` | counters that wrap, calls after the end or an error |
| `Reassembler` | output stream, map of stored segments, `next_index_`, `bytes_pending_`, end flag | `insert` (cut to the window, merge, assemble, close) | order, overlap and repetition of substrings; a window that moves |
| `Wrap32` | none | `wrap`, `unwrap` | the period nearest the checkpoint, at its edges |
| `TCPReceiver` | reassembler, ISN, SYN seen | `receive`, `send` | what is acknowledged when; old and repeated segments |
| `TCPSender` | input stream, outstanding segments, in-flight count, window, timer, timeout | `push`, `receive`, `tick`, `make_empty_message` | flight accounting, zero window, retransmission, FIN in the last place |
| `TCPPeer` | sender, receiver, clock, linger flag | `push`, `receive`, `tick`, `active` | replies, lingering, resets |
| `TCPMinnowSocket` | peer, event loop, two socket ends, `_abort` | three rules, `connect`, `listen_and_accept`, `wait_until_closed`, the destructor | interleaving of rules with the network; partial writes; the owner's thread; resets |
| `TCPOverIPv4Adapter` | the two addresses of the connection, listening or not | `unwrap_tcp_in_ip`, `wrap_tcp_in_ip` | whom a listening socket answers; strangers; damage |
| `NetworkInterface` | ARP cache, request timers, pending queues, clock | `send_datagram`, `recv_frame`, `tick` | an answer that races with time; changed mappings |
| `Router` | interfaces, routing table | `add_route`, `route` | longest prefix, TTL, circles of routes |
| `endtoend` | a socket over an interface, a router in a thread of its own, queues of frames | `read`, `write`, four rules, ticks | everything below TCP at once: loss, damage, clocks that run ahead |
| `EventLoop` | rules, poll set | `add_rule`, `wait_next_event`, cancel | busy waits, descriptors that die |
| `bidirectional_stream_copy` | two streams, two shutdown flags | four rules of an event loop | partial reads and writes, the order of ends, hang-ups and errors |

They interact by calls alone, except that `TCPMinnowSocket` runs the peer in a
thread of its own and talks with its owner over a socket pair, and peers,
interfaces and routers exchange messages over a network that may lose them.

What makes each correct, in short: a byte stream is a FIFO; a reassembler hands
out the stream and nothing else, and loses nothing it promised to keep; a
receiver's acknowledgments are true; a sender's flight is the stream, counted,
timed and within the window; two peers make a pipe each way, and finish; an
interface sends each datagram once, in order, to the address heard last; a
router brings datagrams to their host and no circle of routes lasts.

## The modules

Each component's data structure and methods are pure operators in an `...Ops`
module (a record in, a record out), so that every module that owns such an
object uses the same definitions. The component's own module has the
variables, the actions and the properties; an `MC...` module has the bounds.

| Module | Models | State and actions |
|---|---|---|
| `BytePipe` | abstract: what every byte carrier promises | `sent`, `delivered`, `ended`, `finished`, `broken`; one step relation |
| `ByteStreamOps`, `ByteStream` | `byte_stream.{hh,cc}` | the fields; `WriterPush`, `WriterClose`, `ReaderPop`, `StreamSetError` |
| `ReassemblerOps`, `Reassembler` | `reassembler.{hh,cc}` | `Insert` with every branch of `store_segment`, `try_assemble`, `push_output`; `InsertSlice`, `ReaderPop` |
| `ReassemblerLoops` | the loops of `store_segment` and `try_assemble`, step by step | recursive; compared with the closed forms of `ReassemblerOps` in every state |
| `WrappingIntegers` | `wrapping_integers.{hh,cc}` | `Wrap`, `Unwrap` for any modulus |
| `TCPMessages` | `tcp_sender_message.hh`, `tcp_receiver_message.hh` | the two halves of a segment |
| `TCPReceiverOps`, `TCPReceiver` | `tcp_receiver.{hh,cc}` | `ReceiverReceive`, `ReceiverSend`; segments of a correct sender in any order (`ReceiveSegment`), a reset, `ReaderReads` |
| `TCPSenderOps`, `TCPSender` | `tcp_sender.{hh,cc}` | `SenderPush`, `SenderReceive`, `SenderTick`; an application, any acknowledgment, a clock |
| `TCPPeerOps` | `tcp_peer.hh`, the RST bit of `tcp_segment.cc` | `PeerPush`, `PeerReceive`, `PeerTick`, `Active` |
| `TCPConnection` | the rules of `tcp_minnow_socket_impl.hh` for two peers, and a network | `Connect`, `OwnerWrite`, `OwnerClose`, `OwnerRead`, `Deliver`, `Timeout`, `LingerEnds`, `Lose`, `Repeat` |
| `NetworkInterfaceOps`, `NetworkInterface` | `network_interface.{hh,cc}` | `OwnerSends`, `ArpArrives`, `DatagramArrives`, `OwnerTakes`, `Tick` |
| `RouterOps` | `router.{hh,cc}` | `AddRoute`, `FindBestRoute`, `ForwardOne`, `RouteAll` |
| `IPv4Ops` | `checksum.hh`, the checksums of `ipv4_header.cc` | `Checksum`, `WithChecksum`, `HeaderParses`, `PseudoSum` |
| `TCPOverIPv4Ops` | `tcp_over_ip.cc`, `fd_adapter.hh`, the checksum of `tcp_segment.cc` | `Wrapped`, `Unwraps`, `Unwrapped`, `SegmentParses` |
| `EndToEnd` | `apps/endtoend.cc`: two programs, each a host and a router | `HostWrites`, `HostReads`, `HostTick`; `RouterReceives`, `RouterSends`, `RouterTick`; `Lose`, `Damage`, `Stray` |
| `MinnowSocket` | `tcp_minnow_socket_impl.hh`: one socket, its owner, its thread, the local socket pair, and a peer at the other end | `Call`, `Connected`, `Poll`, `Serve`, `TimeOut`, `Exit`; `OwnerWrite`, `OwnerShutdown`, `OwnerRead`, `WaitUntilClosed`, `Destroy`, `Join`; `OtherConnects`, `OtherReceives`, `OtherWrites`, `OtherTicks`, `OtherFails` |
| `EventLoop` | `wait_next_event` of `eventloop.cc` for rules on descriptors | `Sweep` before the poll, `Walk` after it (each the last value of a recursive function, a turn of the loop at a time), `BusyWait`; what poll reports is the caller's choice |
| `StreamCopy` | `apps/bidirectional_stream_copy.cc` | `Wait` (one turn of the loop, with the callback it serves), `Exit` |
| `ByteStreamProofs`, `ReassemblerProofs`, `TCPReceiverProofs`, `TCPSenderProofs`, `TCPConnectionProofs`, `NetworkInterfaceProofs`, `StreamCopyProofs` | the theorems about the module each is named after | |
| `ValueLemmas` | the theorems about `WrappingIntegers`; facts about sequences, least elements and loops, about a `ByteStream` as a value, about a reassembler whatever stream it is fed, and about a sender whatever it is given to say: cited by all | |

An action is a whole method call. Inside a component nothing runs
concurrently, so a call is atomic. In `TCPConnection` the interleaving is that
of the event loops' rules, which are atomic too (one thread per peer, and the
callbacks do not yield). In `MinnowSocket` the owner's thread and the socket's
meet only in the pair of local sockets and in `_abort`, and a turn of the loop
is two steps, the poll (`Poll`) and what is done about it (`Serve`): the
owner's calls come in between, so that what poll reported may be stale. In
`EndToEnd` each rule of the network thread and each call of the adapter is a
step.

`MinnowSocket` composes `EventLoop`, `TCPPeerOps` and the filter of
`TCPOverIPv4Ops`; `EndToEnd` composes `RouterOps`, `NetworkInterfaceOps` and
`TCPOverIPv4Ops`, with a `TCPPeer` reduced to one that says something, and says
it again as long as it is not understood.

Operators whose comment calls them *a fault* are plausible mistakes. They are
used by no specification: `PROJECT.json` names, for each property, the fault
that property detects when it replaces the right definition.

Abstractions that hold everywhere:

- Bytes are small integers, all different in a stream, so that a byte in the
  wrong place shows. Payloads, frames and datagrams are records of what the
  code reads from them; layouts are left out. The checksums are kept where
  they matter, in `EndToEnd`, as the sums that they are; `NetworkInterface` has
  only whether a datagram parses (`Parses`).
- The sequence-number modulus is the constant `Modulus` (16 in the runs, 2^32
  in the code). `Wrap` and `Unwrap` keep the wrap-around; the initial sequence
  numbers of the runs make it happen within the stream.
- Unsigned 64-bit counters are integers; the invariants `Accounting`,
  `FlightIsContiguous` and `PlainPromisesKept` are what keeps the code's
  subtractions from wrapping.
- The kernel's part in `MinnowSocket` is external: a shutdown of either end of
  the pair shuts that way down for both, poll reports a hang-up when both ways
  are shut down, a read gives what there is or the end, a write takes what there
  is room for and raises SIGPIPE on a way that is shut down.
- The two loops of the reassembler are given by their results (a union of the
  overlapping segments; the longest run that can be written). `LoopsAgree`
  compares them with the loops in every reachable state and for every
  substring that can be inserted there.
- In `TCPConnection` and `MinnowSocket` clocks are abstract: a timer may expire
  at any time, before or after an answer. What only measures time (the current timeout, the
  number of retransmissions) is reset after a step; nothing in a peer's
  decisions depends on it, since `MAX_RETX_ATTEMPTS` is not used by the code.

## What is checked

| Run | Question | Bounds | States |
|---|---|---|---|
| `byte_stream` | FIFO, counters, and the abstract pipe | capacity 3, 6 bytes, chunks up to 4 | 8 132 |
| `reassembler` | only the stream comes out, loops agree; with plain substrings nothing promised is lost and all comes out | 6 bytes, capacity 4, empty substrings, late end | 24 881 |
| `reassembler_empty_insert` | violation, see below | 4 bytes, capacity 3 | |
| `tcp_receiver` | the stream is delivered; acknowledgments true, and neither they nor the window's edge retreat | 5 bytes, capacity 3, SYN payload at most 1, reads of 1 to 4 | 21 532 |
| `tcp_receiver_syn_payload` | violation, see below | 4 bytes, capacity 2 | |
| `tcp_sender` | flight, timer, window, no stall | 4 bytes, capacity 3, windows 0, 2, 5, ticks 1, 3 | 54 502 |
| `tcp_connection` | each way is a pipe, no receiver is overrun, no peer leaves early, both sides finish | 3 and 1 bytes, one fault of any kind | 133 860 |
| `network_interface` | once, in order, to whom, and dropped only by a tick that is late enough | 2 neighbours, 2 addresses, 2 datagrams, 4 ticks | 66 120 |
| `end_to_end` | heard as said, by the right one, once, in the end; all traffic ends | 4 messages each, 2 faults, 4 waits, TTL 4 | 73 253 |
| `minnow_socket` | never killed, a clean end is a complete one, each way is a pipe, the owner joins its thread | 1 byte out, 2 in, buffers of 1 and 2, room for 1 | 240 041 |
| `socket_reset` | violation, see below | the same, resets at any time | |
| `stream_copy` | each way is a pipe, no busy wait, the loop ends with all copied | 3 bytes each way, buffers of 2 | 21 656 |

Why these bounds are enough for what they ask:

- The capacity is always smaller than the stream, so that pushes and
  substrings are cut and the window has to move; the stream is long enough for
  a full buffer to be drained and filled again. In the reassembler three stored
  segments fit at once, so that a substring can overlap on the left, on the
  right, contain one and join two.
- In `reassembler`, the variable `plain` records whether every substring so far
  was nonempty and every last one had the flag. The promises to keep, count and
  complete are checked of such behaviours only; the disagreements about
  `insert` below are why. What comes out is checked of all.
- `MaxPending` bounds only when a further substring is inserted. It is a bound
  because a merge may keep bytes beyond the window (see below), so that
  `bytes_pending_` can exceed the capacity.
- In `tcp_receiver`, `SynPayloads` limits what a SYN carries to what the
  receiver takes at once; `tcp_receiver_syn_payload` drops that limit. A read
  may ask for more than the capacity, so that after a reset `read()` goes round the buffer;
  `MaxRead` bounds what the reader is given in all, three bytes more than the
  stream has, as after a reset there is no end of it.
- In `tcp_sender` acknowledgments range over every number up to one beyond
  what was sent, windows include zero, and `Isn` is such that numbers wrap.
  `MaxRTO` and `MaxRetries` stop a timer that would double without end.
- In `tcp_connection`, `faults` counts what goes wrong, so that the run covers
  every connection in which one segment is lost, repeated or overtaken or one
  timer expires too early, at any place; the network holds three segments each
  way and loses any more than that. Deadlock is not checked: a finished
  connection is at rest.
  `SenderWithinWindow` speaks of behaviours in which no segment overtakes
  another (see below), `EventuallyDone` of those in which nobody stopped
  lingering too early; the other properties hold of all.
- In `minnow_socket` two bytes come in while the owner's socket has room for
  one, so that writes to it are partial and the end follows bytes that wait;
  the outbound stream holds one byte, so that rule 2 loses and regains its
  interest. The socket connects or listens, the other end may fail at any time
  that finds nothing undelivered, and the owner may destroy the socket at any
  time. To keep it small, the other end acts between the socket's turns (its
  steps commute with the second half of one), and time ends a silence only
  when nothing is underway; `TCPConnection` has the timers that expire early. The
  owner calls `wait_until_closed` once it has read the end of its input, as
  `tcp_minnow_socket.hh:24` advises. Deadlock is not checked: a joined socket
  is at rest.
- In `end_to_end` two faults may combine in any way: a frame lost, a field of a
  datagram damaged on the internet side, a stranger's segment, a clock ahead of
  the others by more than a request lives. Four messages of each side are
  enough to say everything again after each fault. Only sound datagrams are
  damaged, because a second error can cancel the first in a sum. `MCTables`
  adds default routes to those of `endtoend.cc`, each to the other router, so
  that a stranger's datagram to an address nobody has goes round until its TTL
  ends it while the others match longer prefixes. Deadlock is not checked: the
  network comes to rest.
- In `stream_copy` any subset of the descriptors may break at any turn, and any
  subset may hang up at any turn, before the copy shuts the socket down too, as
  the thread of a `TCPMinnowSocket` may give up early
  (`tcp_minnow_socket_impl.hh:279`). Only what a hang-up leaves to read is
  limited (`MayHangUp`): when it is asked for, the standard input is readable as
  long as it has bytes and the socket until its end was read. Any read may give a
  part of what is left and any write take a part of the buffer; three bytes do
  not fit a buffer of two. Deadlock is not checked: the program returns.
- In `network_interface`, `CacheTTL` is 2 and `RequestTTL` 1 (30 s and 5 s in
  the code) with ticks of 1 and 2: a tick can reach a limit exactly, or pass
  it. Deadlock is not checked: the clock stops at `MaxTime`.

### Fairness

Liveness is asserted of the composed systems and the reassembler, under weak
fairness of what the code keeps doing by itself:

- `reassembler`: the reader reads, and a missing byte is repeated, which
  is what `TCPSender`'s timer does with an outstanding segment.
- `tcp_connection`: the event loops run (`_tcp_loop` polls and ticks at least
  every 10 ms, `tcp_minnow_socket_impl.hh:24-44`), each owner writes as long as
  its stream has bytes and then ends it, and reads. What goes wrong has no
  fairness and is bounded by `MaxFaults`; a network that loses everything for
  ever would of course deliver nothing. Lingering ends, fairly, only once
  nothing is in flight: its ten timeouts outlast the other side's
  retransmission. The fault `"hasty"` takes that assumption away for the
  safety properties.
- `stream_copy`: the loop is called again and again (`while ( true )`), and
  something it asks for gets ready: sources give what they have and end,
  destinations take. No hang-up has to come to end it. Only behaviours without
  an error of a descriptor are promised to end.
- `minnow_socket`: the thread takes its turns (`while ( condition() )`), the
  other end receives, sends what it has and times out, and the owner writes,
  ends, reads and waits. Neither a failure of the other end nor the destructor
  is fair: they may never happen.
- `end_to_end`: the loops of `endtoend.cc` serve the frames that are there,
  clocks go on when nothing else does, and a side that is not understood
  speaks again. Faults have no fairness and are bounded.

Weak fairness is written `[]<>~Can \/ []<><<Did>>_vars` where TLC is slow to
evaluate `ENABLED`: `Can` is the actions' enabling condition and `Did` tells
their steps by what only they change.

### Disagreements with the documents

Three runs expect a violation. Each checks one property that a comment of the
repository states:

- `reassembler_empty_insert`: an empty substring at the index of a stored
  segment replaces it (`reassembler.cc:182`), although `reassembler.hh:37-39`
  says that bytes within the available capacity are kept.
- `socket_reset`: a reset finds received bytes that are not delivered yet.
  `receive` sets the error of the inbound stream; rule 3 writes the bytes to
  the owner's socket, `pop` removes none of them because of the error
  (`tcp_minnow_socket_impl.hh:145-147`), and the rule shuts the socket down for
  writing. `bytes_buffered()` stays positive, so the rule stays interested and
  writes again, to a way that is shut down. `write` raises SIGPIPE, which
  nothing in the repository catches or ignores. If it were ignored, `EPIPE`
  would end the thread by an exception that it throws on.
  `minnow_socket` has resets only when nothing waits to be delivered.
- `tcp_receiver_syn_payload`: a repeated SYN whose payload was cut the first
  time is inserted one index early (`tcp_receiver.cc:52`), against
  `tcp_receiver.hh:14-15`. A `TCPSender` puts payload
  into a SYN when bytes are buffered and a window is known by then
  (`tcp_sender.cc:51-68`); in the runs of whole connections the owners write
  after the handshake, as the applications do, and do not meet it.

Others were read in the code while modelling and are modelled as the code
has them, without a run that expects a violation:

- If the substring with the last-flag comes after all bytes were written,
  `insert` returns before it looks at the end (`reassembler.cc:44`), and the
  stream is never closed, against `reassembler.hh:44`. No property catches that:
  `OutputIsStream` permits it and `EventuallyComplete` excludes a late end. A
  `TCPSender` repeats its segments as they were and does not cause it; a sender
  that cuts its stream anew does.
- `read()` peeks and pops in a loop; after an error `pop` removes nothing
  (`byte_stream.cc:92`), so that the loop hands out the same bytes until it has
  `max_len` of them, and again in the next call, against
  `byte_stream_helpers.cc:9`. The model has it so (`ReadBytes`), and
  `DeliversStream` says what is left of "each byte once": it holds until a reset,
  and after one the reader gets no bytes but those it had left in the buffer.

The others: a merged segment may reach beyond the window
(`reassembler.cc:242` against `reassembler.hh:41-42`), which is why
`PlainPromisesKept` bounds it by twice the capacity; a FIN sent with the SYN is not
held against the window (`tcp_sender.cc:73` against `tests/send_extra.cc:251`);
`MAX_RETX_ATTEMPTS` is compared with nothing (`tcp_sender.cc:262`,
`tcp_config.hh:16`); the destructor sends no RST (`tcp_minnow_socket.hh:34`
against `tcp_minnow_socket_impl.hh:190`), so that `Destroy` leaves the other
end to itself; the router of `endtoend.cc` ticks by 10 ms after each event,
however little time passed (`endtoend.cc:276`), so that under load its clock
runs ahead; after an error of a descriptor
`bidirectional_stream_copy` writes what is buffered again and again and does
not end, because `pop()` does nothing then (`bidirectional_stream_copy.cc:68`
against `bidirectional_stream_copy.hh:5`; `MaxExtra` bounds how often it does
so in `stream_copy`); and the window of an acknowledgment
that was overtaken replaces the newer one (`tcp_sender.cc:189`), so that
`SenderWithinWindow` holds only for a network that keeps the order.

## What is proved

The theorems speak of `Spec` of the component's module, in which numbers,
streams, payloads, capacities, time limits and the order of calls are not
bounded. They rest on the module's named assumptions about its constants, which
TLC evaluates in every run, and on nothing else, except the hypotheses of
the receiver's and the connection's theorems, which name them. Every inductive invariant was checked by TLC on the
component's run before it was proved.

### ByteStream

For every capacity, every set of bytes and calls with data of any length:

- `TypeCorrect`, `StreamIsFIFO`, `CountersInStep`:
  `Spec => []TypeOK`, `[]FIFO`, `[]Accounting`. The inductive invariant `IInv`
  is their conjunction. No conjunct suffices alone: `push` is cut by the
  difference of the counters, so that the buffer stays within the capacity
  only because the counters match the histories, which by `FIFO` differ by the
  buffer; `pop` takes what `FIFO` says is there.
- `StreamIsPipe`: `Spec => ImplementsPipe`. Initial states map to initial
  states, each method to a step of `BytePipe`; the invariant in the new state
  gives the prefix order and the bound, `PrefixOfConcat` the monotony of the
  histories.

### Wrap32

In `ValueLemmas`, for every positive modulus, initial sequence number and checkpoint (natural
numbers, so away from the end of 64 bits):

- `UnwrapWraps`: what `unwrap` returns is a number that wraps to its argument.
- `UnwrapIsClosest`: no other such number is closer to the checkpoint.
- `RoundTrip`: `unwrap` undoes `wrap` for numbers less than half a period from
  the checkpoint.

### Reassembler

For every stream, every capacity and all substrings of the stream, in any order,
overlapping, repeated, empty, with the last-flag or without:

- `OutputCorrect` (`OutputIsStream`) and `StoredCorrect` (`StoredAreTrue`). The
  two need each other: what is written is true because what is stored is, and
  what is stored overlaps nothing because the merge in `store_segment` takes in
  all that touches the new segment. The invariant `Sound` adds the counters of
  the output, because `push_output` moves `next_index_` by what the counters say
  there is space for and the output takes what it has space for. `Sound` holds
  between the steps of `insert` too; `AllWait` (no stored segment begins at or
  before `next_index_`) does not, and is mended by `try_assemble` at the end.
- `PromisesAreKept` (`PlainPromisesKept`): while no substring is empty, a byte
  that fit the window when it was inserted is written or stored ever after, and
  written as soon as it is the next one; and `bytes_pending_` is the number of
  stored bytes, at most twice the capacity. The invariant is `KeptInv` on top of
  `Sound` and `AllWait`. All that was promised lies in the window, because
  the bytes read and the capacity fix the window's end and no step moves it back
  (`WindowIsFixed`): what a merge cuts off and what `try_assemble` throws away
  lies beyond that end. What is stored is `Tidy`: a segment with bytes begins in
  the window, so that a merge always has room for its first byte and never drops
  all of it, and an empty one, which the cut of a last substring leaves at the
  window's end, covers nothing when it is replaced. A merge that is not cut is
  held against the space of the output, of which the stored bytes take
  their part, so that `Tidy` needs the count to be right; it reaches at most one
  capacity beyond the window, which gives the bound of twice the capacity.

  The hypothesis that no substring is empty cannot be dropped
  (`reassembler_empty_insert`). That each substring at the end of the stream has
  the flag, the other half of `plain`, is used by `EventuallyComplete` only.

`ValueLemmas` has the lemmas for any stream `st`, not for the constant
`Stream`, one for each step of `insert`.

### TCPReceiver

For every stream, modulus, initial sequence number, capacity and window limit,
with all segments a sender of that stream may make, in any order, repeated, with
a reset at any time:

- `ReaderGetsStream` (`DeliversStream`), `AcksAreTrue` (`AckIsTruthful`) and
  `NothingIsTakenBack` (`NothingRetreats`, an action property of the ackno and of the
  window's right edge).

The receiver is in one of three phases (`IInv`): it listens and has nothing; it
receives and its reassembler is sound; or a reset came, nothing more is written or
popped, and the reader is only given what is left in the buffer, any number
of times. Until the reset `read()` is one `pop` (`ReadIsPop`). To the reassembler absolute sequence numbers are
indices in the stream with the SYN as byte 0, which it is never given: it is
sound for `Marked`, the stream behind a mark, with the mark already read. That
is how the receiver's proofs cite `ValueLemmas`.

The theorems assume two things of the segments, both met by the run
`tcp_receiver`:

- `WithinHalfPeriod`: the FIN is less than half a period of the sequence numbers
  behind the SYN, so that a late segment is unwrapped to the
  number that was meant. Of a longer stream segments may be mistaken if
  they can be as late as the model lets them be; the code has no protection
  against that, as TCP has none without timestamps.
- `HarmlessSyns`: a SYN carries no payload, or one byte that is not the whole
  stream. `tcp_receiver_syn_payload` shows that `DeliversStream` is false
  without it: a repeated SYN's payload is inserted one index early.

### TCPSender

For every stream, initial sequence number, capacity, initial timeout and payload
limit, with any acknowledgment up to one beyond what was sent, any window, resets,
ticks of any length and any order of the calls:

- `FlightIsOneRun` (`FlightIsContiguous`), `SegmentsCarryStream`
  (`SegmentsAreTrue`), `NothingWaitsUntimed` (`OutstandingIsTimed`) and the
  action properties `WindowIsRespected` (`WindowRespected`) and `PushNeverStalls`
  (`NoSilentStall`).

The invariant, `SoundSender` and `Carried`, says: the input holds the bytes of
the stream that were written and not sent (`HoldsTheRest`), so that a new payload
is the next part of the stream; `next_seqno` counts SYN, bytes and FIN
(`CountsSent`), so that the payload's number is its place; the outstanding
segments are one run that ends at `next_seqno` (`InARow`), so that an
acknowledgment takes away a front part of them and the count of what stays is
again a difference of numbers; each is what its numbers stand for (`AllTrue`);
the timer runs while there are any (`Timed`); and what the last call transmitted
is outstanding or a reset (`Carried`).

The two loops of the sender, `push`'s over the payloads and `receive`'s over the
outstanding segments, are the recursive functions `Turns` and `Visits` of the
number of turns. What holds after every turn is proved by `IntervalInduction`,
that the function exists by `LoopExists` (both in `ValueLemmas`, from the least
element of a set of naturals). `SendChunksGoesOn` shows in addition that `push` has nothing
left to do when its turns are over, as each takes a byte: `NoSilentStall` needs
that the loop ends for its own reason. What a turn keeps is the relation `Pushed`:
the flight grows by what the numbers grow by, nothing outstanding changes, and the
window is respected; it is transitive, which carries it through SYN, payloads
and FIN.

The invariant and its lemmas speak of any conversation, a stream with an initial
sequence number and a capacity, and of a sender as a value. They stand in
`ValueLemmas`: `TCPSenderProofs` uses them for the constants of `TCPSender`
(`Conv`), `TCPConnectionProofs` for each of two peers (`Whole`).

### TCPConnection

For all pairs of streams, initial sequence numbers, capacities, window limits
and payload limits; whatever the network loses, repeats and reorders, however
early a timer expires or a peer stops lingering:

- `AcknowledgedIsHeld` (`AcknowledgedIsReceived`), `ErrorIsNeverSpurious`
  (`NoSpuriousError`), `InactiveIsDone` (`InactiveMeansDone`);
- `EachWayFlows` (`EachWayIsAPipe`): each direction implements `BytePipe`.

The hypothesis is `ShortStreams`: half a period of the sequence numbers is
longer than either stream with its SYN and its FIN. In the model a repeated
segment may be on its way for ever, and of a longer stream an old one could be
mistaken for a new one, as for the receiver above. The run `tcp_connection`
meets it. That a receiver has room for a byte and may announce it
(`RecvCapacity`, `MaxWindow` at least 1) is assumed by `TCPConnection`, as
without it no window ever opens.

The invariant `IInv` says of each side (`SideOK`):

- Its sender is a `SoundSender` of its stream, puts nothing into the segment
  with its SYN, has no error (`Ready`), and has nothing left that `push` could send (`NoStall`). Its window and
  what is in flight are at most the other side's capacity (`Bounded`).
- Its receiver has a part of what the other side has said so far and nothing
  else (`ReceiverOK`), and what its owner was given is the front of that.
- A segment on its way to it says something the other side has said, and
  acknowledges no more than the other side has (`NetOK`). It stays true however
  long it is on its way, because what was said and what is acknowledged only
  grow (`Grows`).
- What its sender no longer keeps is acknowledged by the other side's receiver
  (`Start <= Acked`).
- The way to its owner was shut only after the last byte was given.

No side's part is inductive alone: that a receiver gets true segments rests on
the other side's sender, and that the sender may forget them rests on the
acknowledgments on their way back. A step changes one peer and the segments to
the other; what a call returns is a pair of values about which the lemmas of
sender, receiver and reassembler say the same things, and a segment joins the
two halves (`SegmentIsGood`). An acknowledgment in `NetOK` is at most what was sent, so
no segment looks impossible to the sender and no error arises. `InactiveIsDone`
needs `NoStall`: a peer counts a sender as finished when its stream is finished
and nothing is in flight, and that the FIN was sent by then follows only from
`push` having nothing left to do. The pipe's bound is the sum of the sender's
buffer, of what is in flight, which `Bounded` limits by the receiver's capacity,
and of the receiver's buffer.

### NetworkInterface

For every set of neighbours and addresses, both lifetimes, ticks of any length
and every sequence of calls:

- `NoneIsForgotten` (`WaitingIsJustified`), `RightAddress` (`SentWhereHeard`),
  `LeaveInOrderOnce` (`InOrderOnce`) and the action properties `AsksSparingly`
  (`RequestsApart`) and `KeepsDatagrams` (`DroppedOnlyLate`); `TypeCorrect`.

None is inductive alone. A datagram is released to the address heard last because
the cache repeats what was heard (`CacheIsHeard`) and a queue holds its own next
hop's datagrams only (`QueuesAreSorted`); it overtakes none that waits because a
queue and a mapping exclude each other, which is part of `WaitingIsJustified`;
that in turn needs that the request timer tells when the request was transmitted
(`TimerIsRequest`), as `tick` drops by the timer. That is also why a datagram is
dropped only when its request is more than `RequestTTL` old: no other call drops
any, and no tick comes too early.

### bidirectional_stream_copy

For every input of both ways, every buffer size, any split of reads and writes
and whatever poll reports, hang-ups and errors included:

- `CopyNeverThrows` (`NeverThrows`), `ExitIsCopied` (`ExitMeansCopied`) and
  `EachWayIsCopied` (`CopiesEachWay`, an action property: until something fails
  every step of the program is, each way, a step of `BytePipe`).

The two ways share one list of rules and one loop, so none of the three can be
shown of a way alone. The invariant `IInv` is `ExitMeansCopied` and `Good`:

- What is left of the four rules stands in the order in which the program added
  them (`InOrder`), so that a way's `fill` comes before its `drain`.
- A rule whose descriptor is at its end or closed has a closed stream
  (`DeadAreClosed`), and so has a rule that is gone (`GoneAreClosed`). Hence the
  cancel callback of a dead rule, which closes the stream, changes nothing: what
  a rule was asked before the poll was asked in the state the loop began in.
- Each way is copied so far (`CopiedSoFar`): what was given and what is buffered
  are what was taken; the counters tell both; while its `drain` is there, the
  stream is closed only at the end of the input; an end was passed on only
  after everything was taken and given. Or both streams have an error
  (`Failed`), as one failed descriptor breaks both.

The two loops of `wait_next_event` are the recursive functions `Asks` and
`Looks` of the number of rules they have come to; what holds after each turn is
proved by `IntervalInduction`. The sweep drops dead rules only (`SweepIs`). The
walk (`Walking`) keeps the order, drops a rule only with its stream closed and,
unless something failed, only for a hang-up; it serves at most one rule and
cancels none behind it. So a `fill` that is served still has an open stream,
although other rules may have been cancelled since it was asked: only its way's
`drain` could have closed it, and that stands behind (`ServedIsOpen`). A `fill`
is cancelled for a hang-up only when nothing is left to read (`HungUpAtEnd`,
from `MayHangUp`). A `drain` that is served has bytes to write, or an end to pass on
and then no interest any more: the loop never takes it for a busy wait.

### Only model-checked

- All liveness, and what rests on `ENABLED`: out of the prover's reach.
- `LoopsAgree` compares the reassembler's loops, which are recursive over its map,
  with their results; `FindBestRoute` picks by a fold. None of the provers can
  unfold these for data of any size. The reassembler's theorems are about the results the loops
  are given by, which `LoopsAgree` ties to the code in the run's states.
- `SenderWithinWindow`, which is about the faults that the run `tcp_connection`
  counts, and holds only while none of them is an overtaking.
- The other composed systems: the properties of `EndToEnd` and `MinnowSocket`,
  the implementations of `BytePipe` by the latter included. The proofs above
  are about their parts alone.

## What is not modelled

- Rules of the event loop without a descriptor and cancellation from outside,
  which no program of the repository uses; its result `Timeout` in
  `stream_copy`, after which nothing has changed.
- An owner that calls `wait_until_closed` before it has read its input to the
  end: the thread's next write to it fails, as in `socket_reset`. An owner
  that writes while `connect` runs cannot exist: the call blocks it.
- How the threads of `endtoend.cc` end (`exit_flag`, and the exception that
  ends the network thread), and the TUN device.
- Header layouts: `parse` gives back what `serialize` was given. Of the IPv4
  header and the TCP segment only the fields that decide something are kept,
  with their checksums.
- Addresses, names, the wrappers of system calls other than `read`, `write` and
  `shutdown` on stream sockets, logging, random numbers, command lines, tests
  and the data analysis.

`PROJECT.json` lists each component with its status.

## Plan

1. *The core (done)*: `ByteStream`, `Reassembler`, `Wrap32`, `TCPReceiver`,
   `TCPSender`, `TCPPeer`, a connection; `NetworkInterface`, `Router`;
   `EventLoop` and `bidirectional_stream_copy`; the abstract `BytePipe`
   implemented by a stream, by each way of a connection and by each way of the
   copy; first theorems.
2. *More of the system (done)*: `MinnowSocket` over `EventLoop`, with the
   owner's thread, resets, `_abort` and the local sockets, again an
   implementation of `BytePipe` each way; `TCPOverIPv4Adapter` while it listens
   and after; the checksums; the two programs of `endtoend.cc`, which take the
   place of an internetwork without hosts' filters.
3. *More proofs (done)*: the reassembler, the receiver on top of it, the sender
   and the interface: all their safety and action properties.
4. *Composition (done)*: the copy of two streams by one event loop; two peers and
   a network between them.
