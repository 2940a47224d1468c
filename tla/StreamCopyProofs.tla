-------------------------- MODULE StreamCopyProofs --------------------------
(***************************************************************************)
(* For all inputs of both ways and every buffer size, with partial reads   *)
(* and writes, ends, hang-ups and errors of any descriptors in any order:  *)
(* each way of the copy is a pipe until something fails, the event loop    *)
(* never takes a callback for a busy wait, and it exits with all copied.   *)
(***************************************************************************)
EXTENDS StreamCopy, ValueLemmas

RuleSet == Ways \X { "fill", "drain" }

Copies == [ stream : [Ways -> ByteStreams(Byte)], shutdown : [Ways -> BOOLEAN],
            eof : SUBSET Fds, closed : SUBSET {"stdout"} ]

\* Of two rules of a way, the one that fills stands first; none stands twice.
InOrder(rs) ==
  \A i, j \in 1 .. Len(rs) : i < j /\ rs[i][1] = rs[j][1] => Fills(rs[i]) /\ ~Fills(rs[j])

\* What ends a rule, and what is left of an ended one, has closed its stream.
DeadAreClosed(c) == \A r \in RuleSet : Loop!Dead(r, c) => c.stream[r[1]].is_closed
GoneAreClosed(c, rs) == \A r \in RuleSet : r \notin ToSet(rs) => c.stream[r[1]].is_closed

\* A way after n bytes of its input came in and out went out: the stream holds
\* those between, and it was closed at the end of the input, or because its
\* destination hung up.
CopiedSoFar(c, w, n, out, rs) ==
  LET bs == c.stream[w] IN
  /\ bs.capacity = BufferSize /\ Len(bs.buffer) <= BufferSize
  /\ bs.bytes_pushed = n /\ bs.bytes_popped = Len(out)
  /\ out \o bs.buffer = Take(Input[w], n)
  /\ c.shutdown[w] => IsFinished(bs) /\ n = Len(Input[w])
  /\ bs.is_closed /\ << w, "drain" >> \in ToSet(rs) => n = Len(Input[w])

\* An error breaks both streams.
Failed(c) == \A w \in Ways : c.stream[w].error

Typed(c, rs, tk, gv) ==
  /\ c \in Copies /\ rs \in Seq(RuleSet)
  /\ tk \in [Ways -> Nat] /\ gv \in [Ways -> Seq(Byte)]
  /\ \A w \in Ways : tk[w] <= Len(Input[w])

Good(c, rs, tk, gv) ==
  /\ Typed(c, rs, tk, gv)
  /\ InOrder(rs) /\ DeadAreClosed(c) /\ GoneAreClosed(c, rs)
  /\ \/ Failed(c)
     \/ ~HasError(c) /\ \A w \in Ways : CopiedSoFar(c, w, tk[w], gv[w], rs)

IInv == /\ Good(copy, rules, taken, given)
        /\ status \in { "running", "exited" }
        /\ ExitMeansCopied

-----------------------------------------------------------------------------
(* The copy's state *)

\* The two ways and their rules.
LEMMA RuleFacts ==
  /\ \A w \in Ways : /\ << w, "fill" >> \in RuleSet /\ << w, "drain" >> \in RuleSet
                     /\ Fills(<< w, "fill" >>) /\ ~Fills(<< w, "drain" >>)
                     /\ << w, "fill" >> # << w, "drain" >>
  /\ \A r \in RuleSet : /\ r[1] \in Ways
                        /\ Fills(r) => r = << r[1], "fill" >>
                        /\ ~Fills(r) => r = << r[1], "drain" >>
  /\ "outbound" \in Ways /\ "inbound" \in Ways
BY DEF RuleSet, Ways, Fills

\* One stream of the copy replaced.
WithStream(c, w, bs) == [c EXCEPT !.stream[w] = bs]

LEMMA NewStream ==
  ASSUME NEW c \in Copies, NEW w \in Ways, NEW bs \in ByteStreams(Byte),
         NEW q, q = WithStream(c, w, bs)
  PROVE  /\ q \in Copies
         /\ q.stream[w] = bs /\ \A v \in Ways : v # w => q.stream[v] = c.stream[v]
         /\ q.shutdown = c.shutdown /\ q.eof = c.eof /\ q.closed = c.closed
<1> DEFINE streams == [c.stream EXCEPT ![w] = bs]
<1>1. c.stream \in [Ways -> ByteStreams(Byte)]
  BY DEF Copies
<1>2. /\ streams \in [Ways -> ByteStreams(Byte)] /\ streams[w] = bs
      /\ \A v \in Ways : v # w => streams[v] = c.stream[v]
  BY <1>1
<1>3. q = [c EXCEPT !.stream = streams]
  BY DEF WithStream
<1> HIDE DEF streams
<1> QED
  BY <1>2, <1>3 DEF Copies

\* Which descriptors there are, and which of them can be dead.
LEMMA DeadFacts ==
  ASSUME NEW c \in Copies, NEW r \in RuleSet
  PROVE  /\ Fd(r) \in Fds
         /\ Loop!Dead(r, c) <=> (Fills(r) /\ Fd(r) \in c.eof) \/ Fd(r) \in c.closed
         /\ Fills(r) => /\ Fd(r) \notin c.closed
                        /\ Fd(r) = IF r[1] = "outbound" THEN "stdin" ELSE "socket"
         /\ Fd(r) = "stdout" => r = << "inbound", "drain" >>
BY DEF Copies, RuleSet, Ways, Fills, Fd, Fds, Loop!Dead, FdAtEof, FdIsClosed

\* Cancelling a rule closes its stream, and nothing else.
LEMMA CloseCloses ==
  ASSUME NEW c \in Copies, NEW r \in RuleSet, NEW q, q = CloseStream(r, c)
  PROVE  /\ q = WithStream(c, r[1], Close(c.stream[r[1]]))
         /\ q \in Copies /\ q.stream[r[1]] = Close(c.stream[r[1]])
         /\ \A v \in Ways : v # r[1] => q.stream[v] = c.stream[v]
         /\ q.shutdown = c.shutdown /\ q.eof = c.eof /\ q.closed = c.closed
         /\ c.stream[r[1]].is_closed => q = c
<1> DEFINE w == r[1]
           bs == c.stream[w]
           new == Close(bs)
<1>1. w \in Ways /\ c.stream \in [Ways -> ByteStreams(Byte)] /\ bs \in ByteStreams(Byte)
  BY RuleFacts DEF Copies
<1>2. /\ new \in ByteStreams(Byte) /\ new.is_closed
      /\ bs.is_closed => new = bs
  BY <1>1, CloseIsStream
<1>3. q = WithStream(c, w, new)
  BY DEF CloseStream, WithStream
<1>4. bs.is_closed => q = c
  <2> SUFFICES ASSUME bs.is_closed PROVE q = c
    OBVIOUS
  <2>1. c.stream = [c.stream EXCEPT ![w] = bs]
    BY <1>1
  <2>2. q = [c EXCEPT !.stream = [c.stream EXCEPT ![w] = bs]]
    BY <1>2, <1>3 DEF WithStream
  <2> QED
    BY <2>1, <2>2 DEF Copies
<1> HIDE DEF w, new
<1>5. /\ q \in Copies
      /\ q.stream[w] = new /\ \A v \in Ways : v # w => q.stream[v] = c.stream[v]
      /\ q.shutdown = c.shutdown /\ q.eof = c.eof /\ q.closed = c.closed
  <2>1. w \in Ways /\ new \in ByteStreams(Byte)
    BY <1>1, <1>2 DEF w
  <2> QED
    BY <2>1, <1>3, NewStream
<1> QED
  BY <1>3, <1>4, <1>5 DEF w, new

\* An error breaks both streams, and moves nothing.
LEMMA BreakBreaks ==
  ASSUME NEW c \in Copies, NEW r, NEW q, q = BreakStreams(r, c)
  PROVE  /\ q \in Copies /\ Failed(q)
         /\ \A w \in Ways : q.stream[w] = SetError(c.stream[w])
         /\ q.shutdown = c.shutdown /\ q.eof = c.eof /\ q.closed = c.closed
<1> DEFINE a == SetError(c.stream["outbound"])
           b == SetError(c.stream["inbound"])
           half == WithStream(c, "outbound", a)
<1>1. /\ c.stream["outbound"] \in ByteStreams(Byte) /\ c.stream["inbound"] \in ByteStreams(Byte)
      /\ "outbound" \in Ways /\ "inbound" \in Ways /\ "outbound" # "inbound"
      /\ Ways = {"outbound", "inbound"}
  BY DEF Copies, Ways
<1>2. a \in ByteStreams(Byte) /\ b \in ByteStreams(Byte) /\ a.error /\ b.error
  BY <1>1, SetErrorIsStream
<1>3. half = WithStream(c, "outbound", a)
  OBVIOUS
<1>4. [half EXCEPT !.stream["inbound"] = SetError(@)]
        = WithStream(half, "inbound", SetError(half.stream["inbound"]))
  BY DEF WithStream
<1>5. q = WithStream(half, "inbound", SetError(half.stream["inbound"]))
  BY DEF BreakStreams, WithStream
<1> HIDE DEF half, a, b
<1>6. /\ half \in Copies /\ half.stream["outbound"] = a
      /\ \A v \in Ways : v # "outbound" => half.stream[v] = c.stream[v]
      /\ half.shutdown = c.shutdown /\ half.eof = c.eof /\ half.closed = c.closed
  <2>1. "outbound" \in Ways /\ a \in ByteStreams(Byte)
    BY <1>1, <1>2
  <2> QED
    BY <2>1, <1>3, NewStream
<1>7. half.stream["inbound"] = c.stream["inbound"]
  BY <1>1, <1>6
<1>8. q = WithStream(half, "inbound", b)
  BY <1>5, <1>7 DEF b
<1>9. /\ q \in Copies /\ q.stream["inbound"] = b
      /\ \A v \in Ways : v # "inbound" => q.stream[v] = half.stream[v]
      /\ q.shutdown = half.shutdown /\ q.eof = half.eof /\ q.closed = half.closed
  <2>1. "inbound" \in Ways /\ b \in ByteStreams(Byte) /\ half \in Copies
    BY <1>1, <1>2, <1>6
  <2> QED
    BY <2>1, <1>8, NewStream
<1>10. q.stream["outbound"] = a
  BY <1>1, <1>6, <1>9
<1> QED
  BY <1>1, <1>2, <1>6, <1>9, <1>10 DEF Failed, a, b

-----------------------------------------------------------------------------
(* The rules that are kept *)

\* Rules that are among the first i of a sequence.
FirstOf(kept, rs, i) == \A r \in ToSet(kept) : \E j \in 1 .. i : r = rs[j]

LEMMA KeepInOrder ==
  ASSUME NEW rs \in Seq(RuleSet), InOrder(rs), NEW i \in 1 .. Len(rs),
         NEW kept \in Seq(RuleSet), InOrder(kept), FirstOf(kept, rs, i - 1)
  PROVE  /\ FirstOf(kept, rs, i)
         /\ Append(kept, rs[i]) \in Seq(RuleSet) /\ InOrder(Append(kept, rs[i]))
         /\ ToSet(Append(kept, rs[i])) = ToSet(kept) \cup {rs[i]}
         /\ FirstOf(Append(kept, rs[i]), rs, i)
         /\ rs[i] \notin ToSet(kept)
<1> DEFINE r == rs[i]
           n == Len(kept)
           more == Append(kept, r)
<1>1. /\ Len(rs) \in Nat /\ r \in RuleSet /\ n \in Nat
      /\ \A j \in 1 .. n : kept[j] \in RuleSet /\ kept[j] \in ToSet(kept)
  BY LenProperties, ElementOfSeq DEF ToSet
<1>2. \A j \in 1 .. i - 1 : j \in 1 .. Len(rs) /\ j < i /\ j \in 1 .. i
  BY <1>1
<1>3. FirstOf(kept, rs, i)
  BY <1>2 DEF FirstOf
<1>4. /\ more \in Seq(RuleSet) /\ Len(more) = n + 1
      /\ \A j \in 1 .. n : more[j] = kept[j]
      /\ more[n + 1] = r
  BY <1>1, AppendProperties
<1>5. \A x \in ToSet(kept) : x[1] = r[1] => Fills(x) /\ ~Fills(r)
  <2> SUFFICES ASSUME NEW x \in ToSet(kept), x[1] = r[1] PROVE Fills(x) /\ ~Fills(r)
    OBVIOUS
  <2>1. PICK j \in 1 .. i - 1 : x = rs[j]
    BY DEF FirstOf
  <2> QED
    BY <1>2, <2>1 DEF InOrder
<1>6. r \notin ToSet(kept)
  BY <1>5
<1>7. DOMAIN more = 1 .. n + 1 /\ DOMAIN kept = 1 .. n
  BY <1>4, LenProperties
<1> HIDE DEF r, n, more
<1>8. ToSet(more) = ToSet(kept) \cup {r}
  <2>1. \A j \in 1 .. n + 1 : j \in 1 .. n \/ j = n + 1
    BY <1>1
  <2>2. \A x \in ToSet(more) : x \in ToSet(kept) \/ x = r
    BY <1>4, <1>7, <2>1 DEF ToSet
  <2>3. n + 1 \in 1 .. n + 1 /\ \A j \in 1 .. n : j \in 1 .. n + 1
    BY <1>1
  <2>4. \A x \in ToSet(kept) : x \in ToSet(more)
    BY <1>4, <1>7, <2>3 DEF ToSet
  <2>5. r \in ToSet(more)
    BY <1>4, <1>7, <2>3 DEF ToSet
  <2> QED
    BY <2>2, <2>4, <2>5
<1>9. InOrder(more)
  <2> SUFFICES ASSUME NEW p \in 1 .. n + 1, NEW q \in 1 .. n + 1, p < q,
                      more[p][1] = more[q][1]
               PROVE  Fills(more[p]) /\ ~Fills(more[q])
    BY <1>4 DEF InOrder
  <2>1. CASE q \in 1 .. n
    <3>1. p \in 1 .. n /\ more[p] = kept[p] /\ more[q] = kept[q]
      BY <1>1, <1>4, <2>1
    <3> QED
      BY <2>1, <3>1 DEF InOrder, n
  <2>2. CASE q \notin 1 .. n
    <3>1. q = n + 1 /\ p \in 1 .. n
      <4>1. n \in Nat
        BY <1>1
      <4> QED
        BY <2>2, <4>1, SMTT(30)
    <3>2. more[q] = r /\ more[p] = kept[p] /\ kept[p] \in ToSet(kept)
      BY <1>1, <1>4, <3>1
    <3> QED
      BY <1>5, <3>2
  <2> QED
    BY <2>1, <2>2
<1>10. FirstOf(more, rs, i)
  <2>1. i \in 1 .. i
    BY <1>1
  <2> QED
    BY <1>3, <1>8, <2>1 DEF FirstOf, r
<1> QED
  BY <1>3, <1>4, <1>6, <1>8, <1>9, <1>10 DEF r, more

LEMMA NoneKept ==
  ASSUME NEW rs
  PROVE  << >> \in Seq(RuleSet) /\ InOrder(<< >>) /\ ToSet(<< >>) = {} /\ FirstOf(<< >>, rs, 0)
<1>1. << >> \in Seq(RuleSet) /\ Len(<< >>) = 0 /\ DOMAIN << >> = {}
  BY EmptySeq
<1>2. ToSet(<< >>) = {}
  BY <1>1 DEF ToSet
<1> QED
  BY <1>1, <1>2 DEF InOrder, FirstOf

-----------------------------------------------------------------------------
(* The loop before the poll *)

Asking == [ state : Copies, rules : Seq(RuleSet), asked : SUBSET RuleSet ]

LEMMA AsksInTurn ==
  ASSUME NEW c \in Copies, NEW rs \in Seq(RuleSet)
  PROVE  LET F == Loop!Asks(c, rs) IN
         /\ F[0] = [ state |-> c, rules |-> << >>, asked |-> {} ]
         /\ \A i \in 0 .. Len(rs) : F[i] \in Asking
         /\ \A i \in 1 .. Len(rs) : F[i] = Loop!Ask(F[i - 1], rs[i])
<1> DEFINE n == Len(rs)
           start == [ state |-> c, rules |-> << >>, asked |-> {} ]
           turn == [i \in 1 .. n |-> [a \in Asking |-> Loop!Ask(a, rs[i])]]
           F == Loop!Asks(c, rs)
<1>1. n \in Nat /\ \A i \in 1 .. n : rs[i] \in RuleSet
  BY LenProperties, ElementOfSeq
<1>2. start \in Asking
  BY NoneKept DEF Asking
<1>3. ASSUME NEW a \in Asking, NEW r \in RuleSet PROVE Loop!Ask(a, r) \in Asking
  <2> DEFINE closed == CloseStream(r, a.state)
             more == Append(a.rules, r)
             grown == IF Wants(r, a.state) THEN a.asked \cup {r} ELSE a.asked
  <2>0. a.state \in Copies /\ a.rules \in Seq(RuleSet) /\ a.asked \in SUBSET RuleSet
    BY DEF Asking
  <2>1. more \in Seq(RuleSet) /\ grown \in SUBSET RuleSet
    BY <2>0, AppendProperties
  <2>2. closed \in Copies
    BY <2>0, CloseCloses
  <2>3. Loop!Ask(a, r) \in {[a EXCEPT !.state = closed],
                            [a EXCEPT !.rules = more, !.asked = grown]}
    BY Zenon DEF Loop!Ask
  <2> HIDE DEF closed, more, grown
  <2>4. [a EXCEPT !.state = closed] \in Asking
        /\ [a EXCEPT !.rules = more, !.asked = grown] \in Asking
    BY <2>1, <2>2 DEF Asking
  <2> QED
    BY <2>3, <2>4
<1> HIDE DEF n, start
<1>4. turn \in [1 .. n -> [Asking -> Asking]]
  BY <1>1, <1>3
<1>5. PICK f \in [0 .. n -> Asking] :
        f[0] = start /\ \A i \in 1 .. n : f[i] = turn[i][f[i - 1]]
  <2> HIDE DEF turn
  <2>1. turn \in Turnings(Asking, n)
    BY <1>4 DEF Turnings
  <2>2. PICK f \in [0 .. n -> Asking] : Runs(f, start, turn, n)
    BY <1>1, <1>2, <2>1, LoopExists
  <2> QED
    BY <2>2 DEF Runs
<1>6. \A i \in 1 .. n : f[i - 1] \in Asking /\ turn[i][f[i - 1]] = Loop!Ask(f[i - 1], rs[i])
  <2> TAKE i \in 1 .. n
  <2>1. i - 1 \in 0 .. n
    BY <1>1
  <2>2. f[i - 1] \in Asking
    BY <2>1
  <2> QED
    BY <2>2
<1> HIDE DEF turn
<1> DEFINE Loops(h) == h = [i \in 0 .. n |-> IF i = 0 THEN start ELSE Loop!Ask(h[i - 1], rs[i])]
<1>7. Loops(f)
  <2>1. \A i \in 0 .. n : i # 0 => i \in 1 .. n
    BY <1>1
  <2>2. \A i \in 0 .. n : f[i] = IF i = 0 THEN start ELSE Loop!Ask(f[i - 1], rs[i])
    BY <1>5, <1>6, <2>1
  <2> QED
    BY <2>2
<1>8. Loops(F)
  <2>1. F = CHOOSE h : Loops(h)
    BY Zenon DEF Loop!Asks, n, start
  <2> HIDE DEF Loops, F
  <2> QED
    BY <1>7, <2>1, Zenon
<1> HIDE DEF F
<1>9. F[0] = start /\ \A i \in 1 .. n : F[i] = Loop!Ask(F[i - 1], rs[i])
  <2>1. \A i \in 0 .. n : F[i] = IF i = 0 THEN start ELSE Loop!Ask(F[i - 1], rs[i])
    BY <1>8
  <2> QED
    BY <1>1, <2>1
<1> HIDE DEF Loops
<1> DEFINE T == { i \in 0 .. n : F[i] \in Asking }
<1>10. 0 .. n \subseteq T
  <2>1. 0 \in T
    BY <1>1, <1>2, <1>9
  <2>2. \A i \in 1 .. n : i - 1 \in T => i \in T
    <3> SUFFICES ASSUME NEW i \in 1 .. n, i - 1 \in T PROVE i \in T
      OBVIOUS
    <3>1. i \in 0 .. n /\ F[i - 1] \in Asking /\ rs[i] \in RuleSet
      BY <1>1
    <3>2. F[i] \in Asking
      BY <1>3, <1>9, <3>1
    <3> QED
      BY <3>1, <3>2
  <2> HIDE DEF T
  <2> QED
    BY <1>1, <2>1, <2>2, IntervalInduction
<1>11. \A i \in 0 .. n : F[i] \in Asking
  BY <1>10
<1> QED
  BY <1>9, <1>11, Zenon DEF F, n, start

\* Before the poll dead rules are dropped, whose streams are closed already, and
\* the others that want something are asked for.
LEMMA SweepIs ==
  ASSUME NEW c \in Copies, NEW rs \in Seq(RuleSet), InOrder(rs),
         DeadAreClosed(c), GoneAreClosed(c, rs),
         NEW s, s = Loop!Sweep(c, rs)
  PROVE  /\ s.state = c /\ s.rules \in Seq(RuleSet) /\ InOrder(s.rules)
         /\ ToSet(s.rules) \subseteq ToSet(rs)
         /\ GoneAreClosed(c, s.rules)
         /\ s.asked = { r \in ToSet(s.rules) : Wants(r, c) }
<1> DEFINE n == Len(rs)
           F == Loop!Asks(c, rs)
<1>1. n \in Nat /\ \A i \in 1 .. n : rs[i] \in RuleSet /\ rs[i] \in ToSet(rs)
  BY LenProperties, ElementOfSeq DEF ToSet
<1>2. /\ F[0] = [ state |-> c, rules |-> << >>, asked |-> {} ]
      /\ \A i \in 0 .. n : F[i] \in Asking
      /\ \A i \in 1 .. n : F[i] = Loop!Ask(F[i - 1], rs[i])
  BY AsksInTurn, Zenon
<1>3. s = F[n]
  BY DEF Loop!Sweep
<1> HIDE DEF F
<1> DEFINE Is(a, i) == /\ a.state = c /\ InOrder(a.rules) /\ FirstOf(a.rules, rs, i)
                       /\ \A j \in 1 .. i : rs[j] \in ToSet(a.rules) \/ Loop!Dead(rs[j], c)
                       /\ a.asked = { r \in ToSet(a.rules) : Wants(r, c) }
           T == { i \in 0 .. n : Is(F[i], i) }
<1>4. 0 \in T
  <2>1. Is(F[0], 0)
    BY <1>2, NoneKept
  <2> HIDE DEF Is
  <2> QED
    BY <1>1, <2>1
<1>5. \A i \in 1 .. n : i - 1 \in T => i \in T
  <2> SUFFICES ASSUME NEW i \in 1 .. n, Is(F[i - 1], i - 1) PROVE Is(F[i], i)
    BY <1>1
  <2> DEFINE a == F[i - 1]
             r == rs[i]
             more == Append(a.rules, r)
             grown == IF Wants(r, c) THEN a.asked \cup {r} ELSE a.asked
  <2>1. /\ a \in Asking /\ r \in RuleSet /\ F[i] = Loop!Ask(a, r)
        /\ a.state = c /\ InOrder(a.rules) /\ FirstOf(a.rules, rs, i - 1)
        /\ \A j \in 1 .. i - 1 : rs[j] \in ToSet(a.rules) \/ Loop!Dead(rs[j], c)
        /\ a.asked = { x \in ToSet(a.rules) : Wants(x, c) }
    BY <1>1, <1>2
  <2>2. \A j \in 1 .. i : j \in 1 .. i - 1 \/ j = i
    BY <1>1
  <2>3. a.rules \in Seq(RuleSet)
    BY <2>1 DEF Asking
  <2> HIDE DEF a, n, Is
  <2>4. /\ FirstOf(a.rules, rs, i)
        /\ more \in Seq(RuleSet) /\ InOrder(more)
        /\ ToSet(more) = ToSet(a.rules) \cup {r}
        /\ FirstOf(more, rs, i)
    BY <2>1, <2>3, KeepInOrder, Zenon DEF n
  <2>5. CASE Loop!Dead(r, c)
    <3> DEFINE q == CloseStream(r, c)
    <3>1. c.stream[r[1]].is_closed
      BY <2>1, <2>5 DEF DeadAreClosed
    <3>2. q = c
      <4>1. q = CloseStream(r, c)
        OBVIOUS
      <4> HIDE DEF q, r
      <4> QED
        BY <2>1, <3>1, <4>1, CloseCloses
    <3>3. F[i] = [a EXCEPT !.state = q]
      BY <2>1, <2>5, Zenon DEF Loop!Ask
    <3> HIDE DEF q
    <3>4. F[i].state = c /\ F[i].rules = a.rules /\ F[i].asked = a.asked
      BY <2>1, <3>2, <3>3 DEF Asking
    <3> QED
      BY <2>1, <2>2, <2>4, <2>5, <3>4 DEF Is
  <2>6. CASE ~Loop!Dead(r, c)
    <3>1. F[i] = [a EXCEPT !.rules = more, !.asked = grown]
      BY <2>1, <2>6, Zenon DEF Loop!Ask
    <3> HIDE DEF more, grown
    <3>2. F[i].state = c /\ F[i].rules = more /\ F[i].asked = grown
      BY <2>1, <3>1 DEF Asking
    <3>3. grown = { x \in ToSet(more) : Wants(x, c) }
      BY <2>1, <2>4 DEF grown
    <3>4. \A j \in 1 .. i : rs[j] \in ToSet(more) \/ Loop!Dead(rs[j], c)
      BY <2>1, <2>2, <2>4
    <3> QED
      BY <2>1, <2>4, <3>2, <3>3, <3>4 DEF Is
  <2> QED
    BY <2>5, <2>6
<1>6. Is(F[n], n)
  <2> HIDE DEF T
  <2>1. 0 .. n \subseteq T
    BY <1>1, <1>4, <1>5, IntervalInduction
  <2>2. n \in 0 .. n
    BY <1>1
  <2> QED
    BY <2>1, <2>2 DEF T
<1>7. s.rules \in Seq(RuleSet)
  <2>1. n \in 0 .. n
    BY <1>1
  <2> QED
    BY <1>2, <1>3, <2>1 DEF Asking
<1>8. ToSet(s.rules) \subseteq ToSet(rs)
  BY <1>1, <1>3, <1>6 DEF FirstOf
<1>9. GoneAreClosed(c, s.rules)
  <2> SUFFICES ASSUME NEW r \in RuleSet, r \notin ToSet(s.rules)
               PROVE  c.stream[r[1]].is_closed
    BY DEF GoneAreClosed
  <2>1. CASE r \notin ToSet(rs)
    BY <2>1 DEF GoneAreClosed
  <2>2. CASE r \in ToSet(rs)
    <3>1. PICK j \in 1 .. n : r = rs[j]
      BY <2>2, LenProperties DEF ToSet
    <3>2. Loop!Dead(r, c)
      BY <1>3, <1>6, <3>1
    <3> QED
      BY <3>2 DEF DeadAreClosed
  <2> QED
    BY <2>1, <2>2
<1> QED
  BY <1>3, <1>6, <1>7, <1>8, <1>9

-----------------------------------------------------------------------------
(* The loop after the poll *)

Looking == [ state : Copies, rules : Seq(RuleSet), served : SUBSET RuleSet ]

\* One rule is looked at: cancelled after an error or for a hang-up, or kept.
LEMMA LookIsOne ==
  ASSUME NEW a \in Looking, NEW r \in RuleSet, NEW asked, NEW ready, NEW hup, NEW failed
  PROVE  LET b == Loop!Look(a, r, asked, ready, hup, failed) IN
         /\ b \in Looking
         /\ \/ /\ a.served # {} /\ b.state = a.state
               /\ b.rules = Append(a.rules, r) /\ b.served = a.served
            \/ /\ a.served = {} /\ r \in failed
               /\ b.state = CloseStream(r, BreakStreams(r, a.state))
               /\ b.rules = a.rules /\ b.served = {}
            \/ /\ a.served = {} /\ Loop!Defunct(r, asked, ready, hup)
               /\ b.state = CloseStream(r, a.state)
               /\ b.rules = a.rules /\ b.served = {}
            \/ /\ a.served = {} /\ b.state = a.state
               /\ b.rules = Append(a.rules, r)
               /\ b.served = IF r \in ready THEN {r} ELSE {}
<1> DEFINE broke == BreakStreams(r, a.state)
           closed == CloseStream(r, a.state)
           both == CloseStream(r, broke)
           more == Append(a.rules, r)
           one == IF r \in ready THEN {r} ELSE {}
           b == Loop!Look(a, r, asked, ready, hup, failed)
<1>0. a.state \in Copies /\ a.rules \in Seq(RuleSet) /\ a.served \in SUBSET RuleSet
  BY DEF Looking
<1>1. more \in Seq(RuleSet) /\ one \in SUBSET RuleSet
  BY <1>0, AppendProperties
<1>2. closed \in Copies /\ broke \in Copies
  BY <1>0, CloseCloses, BreakBreaks
<1>3. both \in Copies
  <2> HIDE DEF broke
  <2> QED
    BY <1>2, CloseCloses
<1>4. b = IF a.served # {} THEN [a EXCEPT !.rules = more]
          ELSE IF r \in failed THEN [a EXCEPT !.state = both]
          ELSE IF Loop!Defunct(r, asked, ready, hup) THEN [a EXCEPT !.state = closed]
          ELSE [a EXCEPT !.rules = more, !.served = one]
  BY Zenon DEF Loop!Look
<1> HIDE DEF closed, both, more, one, b
<1>5. CASE a.served # {}
  <2>1. b = [a EXCEPT !.rules = more]
    BY <1>4, <1>5
  <2>2. /\ b \in Looking /\ b.state = a.state /\ b.rules = more /\ b.served = a.served
    BY <1>1, <2>1 DEF Looking
  <2> QED
    BY <1>5, <2>2, Zenon DEF more, b, broke
<1>6. CASE a.served = {} /\ r \in failed
  <2>1. b = [a EXCEPT !.state = both]
    BY <1>4, <1>6
  <2>2. /\ b \in Looking /\ b.state = both /\ b.rules = a.rules /\ b.served = a.served
    BY <1>3, <2>1 DEF Looking
  <2> QED
    BY <1>6, <2>2, Zenon DEF both, b, broke
<1>7. CASE a.served = {} /\ r \notin failed /\ Loop!Defunct(r, asked, ready, hup)
  <2>1. b = [a EXCEPT !.state = closed]
    BY <1>4, <1>7
  <2>2. /\ b \in Looking /\ b.state = closed /\ b.rules = a.rules /\ b.served = a.served
    BY <1>2, <2>1 DEF Looking
  <2> QED
    BY <1>7, <2>2, Zenon DEF closed, b, broke
<1>8. CASE a.served = {} /\ r \notin failed /\ ~Loop!Defunct(r, asked, ready, hup)
  <2>1. b = [a EXCEPT !.rules = more, !.served = one]
    BY <1>4, <1>8
  <2>2. /\ b \in Looking /\ b.state = a.state /\ b.rules = more /\ b.served = one
    BY <1>1, <2>1 DEF Looking
  <2> QED
    BY <1>8, <2>2, Zenon DEF more, one, b, broke
<1> QED
  BY <1>5, <1>6, <1>7, <1>8, Zenon DEF b, broke

InTurn(F, s, ready, hup, failed) ==
  /\ F[0] = [ state |-> s.state, rules |-> << >>, served |-> {} ]
  /\ \A i \in 0 .. Len(s.rules) : F[i] \in Looking
  /\ \A i \in 1 .. Len(s.rules) :
       F[i] = Loop!Look(F[i - 1], s.rules[i], s.asked, ready, hup, failed)

LEMMA LooksInTurn ==
  ASSUME NEW s, NEW ready, NEW hup, NEW failed,
         s.state \in Copies, s.rules \in Seq(RuleSet)
  PROVE  InTurn(Loop!Looks(s, ready, hup, failed), s, ready, hup, failed)
<1> DEFINE rs == s.rules
           n == Len(rs)
           start == [ state |-> s.state, rules |-> << >>, served |-> {} ]
           After(a, r) == Loop!Look(a, r, s.asked, ready, hup, failed)
           turn == [i \in 1 .. n |-> [a \in Looking |-> After(a, rs[i])]]
           F == Loop!Looks(s, ready, hup, failed)
<1>1. n \in Nat /\ \A i \in 1 .. n : rs[i] \in RuleSet
  BY LenProperties, ElementOfSeq
<1>2. start \in Looking
  BY NoneKept DEF Looking
<1>3. ASSUME NEW a \in Looking, NEW r \in RuleSet PROVE After(a, r) \in Looking
  BY LookIsOne, Zenon
<1> HIDE DEF n, rs, start, After
<1>4. turn \in [1 .. n -> [Looking -> Looking]]
  BY <1>1, <1>3
<1>5. PICK f \in [0 .. n -> Looking] :
        f[0] = start /\ \A i \in 1 .. n : f[i] = turn[i][f[i - 1]]
  <2> HIDE DEF turn
  <2>1. turn \in Turnings(Looking, n)
    BY <1>4 DEF Turnings
  <2>2. PICK f \in [0 .. n -> Looking] : Runs(f, start, turn, n)
    BY <1>1, <1>2, <2>1, LoopExists
  <2> QED
    BY <2>2 DEF Runs
<1>6. \A i \in 1 .. n : f[i - 1] \in Looking /\ turn[i][f[i - 1]] = After(f[i - 1], rs[i])
  <2> TAKE i \in 1 .. n
  <2>1. i - 1 \in 0 .. n
    BY <1>1
  <2>2. f[i - 1] \in Looking
    BY <2>1
  <2> QED
    BY <2>2
<1> HIDE DEF turn
<1> DEFINE Loops(h) == h = [i \in 0 .. n |-> IF i = 0 THEN start ELSE After(h[i - 1], rs[i])]
<1>7. Loops(f)
  <2>1. \A i \in 0 .. n : i # 0 => i \in 1 .. n
    BY <1>1
  <2>2. \A i \in 0 .. n : f[i] = IF i = 0 THEN start ELSE After(f[i - 1], rs[i])
    BY <1>5, <1>6, <2>1
  <2> QED
    BY <2>2
<1>8. Loops(F)
  <2>1. F = CHOOSE h : Loops(h)
    BY Zenon DEF Loop!Looks, n, rs, start, After
  <2> HIDE DEF Loops, F
  <2> QED
    BY <1>7, <2>1, Zenon
<1> HIDE DEF F
<1>9. F[0] = start /\ \A i \in 1 .. n : F[i] = After(F[i - 1], rs[i])
  <2>1. \A i \in 0 .. n : F[i] = IF i = 0 THEN start ELSE After(F[i - 1], rs[i])
    BY <1>8
  <2> QED
    BY <1>1, <2>1
<1> HIDE DEF Loops
<1> DEFINE T == { i \in 0 .. n : F[i] \in Looking }
<1>10. 0 .. n \subseteq T
  <2>1. 0 \in T
    BY <1>1, <1>2, <1>9
  <2>2. \A i \in 1 .. n : i - 1 \in T => i \in T
    <3> SUFFICES ASSUME NEW i \in 1 .. n, i - 1 \in T PROVE i \in T
      OBVIOUS
    <3>1. i \in 0 .. n /\ F[i - 1] \in Looking /\ rs[i] \in RuleSet
      BY <1>1
    <3>2. F[i] \in Looking
      BY <1>3, <1>9, <3>1
    <3> QED
      BY <3>1, <3>2
  <2> HIDE DEF T
  <2> QED
    BY <1>1, <2>1, <2>2, IntervalInduction
<1>11. \A i \in 0 .. n : F[i] \in Looking
  BY <1>10
<1> QED
  BY <1>9, <1>11, Zenon DEF InTurn, F, n, rs, start, After

\* State q has what c has, but streams that may have been closed or broken since.
Since(c, q) ==
  /\ q.shutdown = c.shutdown /\ q.eof = c.eof /\ q.closed = c.closed
  /\ \A w \in Ways :
       LET old == c.stream[w]  new == q.stream[w] IN
       /\ new.capacity = old.capacity /\ new.buffer = old.buffer
       /\ new.bytes_pushed = old.bytes_pushed /\ new.bytes_popped = old.bytes_popped
       /\ old.is_closed => new.is_closed
       /\ old.error => new.error

LEMMA SinceCancelled ==
  ASSUME NEW c \in Copies, NEW a \in Copies, NEW r \in RuleSet, Since(c, a)
  PROVE  LET q == CloseStream(r, a)
             b == CloseStream(r, BreakStreams(r, a))
         IN  /\ Since(c, q) /\ q.stream[r[1]].is_closed
             /\ \A w \in Ways : a.stream[w].is_closed => q.stream[w].is_closed
             /\ \A w \in Ways : w # r[1] => q.stream[w] = a.stream[w]
             /\ \A w \in Ways : q.stream[w].error = a.stream[w].error
             /\ Since(c, b) /\ b.stream[r[1]].is_closed
             /\ \A w \in Ways : a.stream[w].is_closed => b.stream[w].is_closed
             /\ Failed(b)
<1> DEFINE broke == BreakStreams(r, a)
           q == CloseStream(r, a)
           b == CloseStream(r, broke)
<1>0. r[1] \in Ways /\ \A w \in Ways : a.stream[w] \in ByteStreams(Byte)
  BY RuleFacts DEF Copies
<1>1. ASSUME NEW x \in Copies, NEW y, y = CloseStream(r, x), Since(c, x)
      PROVE  /\ Since(c, y) /\ y.stream[r[1]].is_closed
             /\ \A w \in Ways : x.stream[w].is_closed => y.stream[w].is_closed
             /\ \A w \in Ways : w # r[1] => y.stream[w] = x.stream[w]
             /\ \A w \in Ways : y.stream[w].error = x.stream[w].error
  <2>1. /\ y.stream[r[1]] = Close(x.stream[r[1]])
        /\ \A v \in Ways : v # r[1] => y.stream[v] = x.stream[v]
        /\ y.shutdown = x.shutdown /\ y.eof = x.eof /\ y.closed = x.closed
    BY <1>1, CloseCloses
  <2>2. \A w \in Ways : x.stream[w] \in ByteStreams(Byte)
    BY DEF Copies
  <2> DEFINE new == Close(x.stream[r[1]])
  <2>3. /\ new.is_closed
        /\ new.capacity = x.stream[r[1]].capacity /\ new.error = x.stream[r[1]].error
        /\ new.buffer = x.stream[r[1]].buffer
        /\ new.bytes_pushed = x.stream[r[1]].bytes_pushed
        /\ new.bytes_popped = x.stream[r[1]].bytes_popped
    BY <1>0, <2>2, CloseIsStream
  <2> HIDE DEF new
  <2>4. y.stream[r[1]] = new
    BY <2>1 DEF new
  <2>5. Since(c, y)
    <3>1. \A w \in Ways :
            /\ y.stream[w].capacity = x.stream[w].capacity
            /\ y.stream[w].buffer = x.stream[w].buffer
            /\ y.stream[w].bytes_pushed = x.stream[w].bytes_pushed
            /\ y.stream[w].bytes_popped = x.stream[w].bytes_popped
            /\ x.stream[w].is_closed => y.stream[w].is_closed
            /\ x.stream[w].error => y.stream[w].error
      BY <2>1, <2>3, <2>4
    <3> QED
      BY <1>1, <2>1, <3>1 DEF Since
  <2> QED
    BY <1>0, <2>1, <2>3, <2>4, <2>5
<1>2. /\ broke \in Copies /\ Failed(broke)
      /\ \A w \in Ways : broke.stream[w] = SetError(a.stream[w])
      /\ broke.shutdown = a.shutdown /\ broke.eof = a.eof /\ broke.closed = a.closed
  BY BreakBreaks
<1> HIDE DEF broke
<1>3. \A w \in Ways :
        /\ broke.stream[w].capacity = a.stream[w].capacity
        /\ broke.stream[w].buffer = a.stream[w].buffer
        /\ broke.stream[w].bytes_pushed = a.stream[w].bytes_pushed
        /\ broke.stream[w].bytes_popped = a.stream[w].bytes_popped
        /\ broke.stream[w].is_closed = a.stream[w].is_closed
        /\ broke.stream[w].error
  <2> TAKE w \in Ways
  <2> DEFINE old == a.stream[w]
             new == SetError(old)
  <2>1. /\ new.capacity = old.capacity /\ new.buffer = old.buffer
        /\ new.bytes_pushed = old.bytes_pushed /\ new.bytes_popped = old.bytes_popped
        /\ new.is_closed = old.is_closed /\ new.error
    BY <1>0, SetErrorIsStream
  <2> HIDE DEF new
  <2>2. broke.stream[w] = new
    BY <1>2 DEF new
  <2> QED
    BY <2>1, <2>2
<1>4. Since(c, broke)
  BY <1>2, <1>3 DEF Since
<1>5. /\ Since(c, q) /\ q.stream[r[1]].is_closed
      /\ \A w \in Ways : a.stream[w].is_closed => q.stream[w].is_closed
      /\ \A w \in Ways : w # r[1] => q.stream[w] = a.stream[w]
      /\ \A w \in Ways : q.stream[w].error = a.stream[w].error
  BY <1>1
<1>6. /\ Since(c, b) /\ b.stream[r[1]].is_closed
      /\ \A w \in Ways : broke.stream[w].is_closed => b.stream[w].is_closed
      /\ \A w \in Ways : b.stream[w].error = broke.stream[w].error
  BY <1>1, <1>2, <1>4
<1>7. Failed(b)
  BY <1>2, <1>6 DEF Failed
<1>8. \A w \in Ways : a.stream[w].is_closed => b.stream[w].is_closed
  BY <1>3, <1>6
<1> QED
  BY <1>5, <1>6, <1>7, <1>8 DEF broke

\* The walk after its first i rules: what it cancelled lost its stream, and
\* unless something failed it cancelled for a hang-up; it served at most one
\* rule, which was ready, and cancelled none behind that.
Walking(a, i, c, s, ready, hup) ==
  /\ a \in Looking /\ Since(c, a.state)
  /\ InOrder(a.rules) /\ FirstOf(a.rules, s.rules, i)
  /\ \A j \in 1 .. i : LET r == s.rules[j] IN
       r \in ToSet(a.rules) \/ a.state.stream[r[1]].is_closed
  /\ \/ Failed(a.state)
     \/ \A w \in Ways :
          /\ a.state.stream[w].error = c.stream[w].error
          /\ a.state.stream[w].is_closed /\ ~c.stream[w].is_closed =>
               \E j \in 1 .. i : LET r == s.rules[j] IN
                 /\ r[1] = w /\ r \notin ToSet(a.rules)
                 /\ Loop!Defunct(r, s.asked, ready, hup)
  /\ a.served \subseteq ready \cap ToSet(a.rules)
  /\ \A x, y \in a.served : x = y
  /\ \A x \in a.served : \E k \in 1 .. i :
       x = s.rules[k] /\ \A j \in k .. i : s.rules[j] \in ToSet(a.rules)

LEMMA LookKeepsWalking ==
  ASSUME NEW c \in Copies, NEW s, s.rules \in Seq(RuleSet), InOrder(s.rules),
         NEW ready, NEW hup, NEW failed, NEW i \in 1 .. Len(s.rules),
         NEW a, Walking(a, i - 1, c, s, ready, hup),
         NEW b, b = Loop!Look(a, s.rules[i], s.asked, ready, hup, failed)
  PROVE  Walking(b, i, c, s, ready, hup)
<1> DEFINE rs == s.rules
           n == Len(rs)
           r == rs[i]
           asked == s.asked
           more == Append(a.rules, r)
<1>1. /\ n \in Nat /\ r \in RuleSet /\ i \in 1 .. n
      /\ \A j \in 1 .. i : j \in 1 .. i - 1 \/ j = i
      /\ \A j \in 1 .. i - 1 : j \in 1 .. i
      /\ i \in 1 .. i
  BY LenProperties, ElementOfSeq
<1>2. /\ a \in Looking /\ Since(c, a.state)
      /\ InOrder(a.rules) /\ FirstOf(a.rules, rs, i - 1)
      /\ \A j \in 1 .. i - 1 : rs[j] \in ToSet(a.rules) \/ a.state.stream[rs[j][1]].is_closed
      /\ \/ Failed(a.state)
         \/ \A w \in Ways :
              /\ a.state.stream[w].error = c.stream[w].error
              /\ a.state.stream[w].is_closed /\ ~c.stream[w].is_closed =>
                   \E j \in 1 .. i - 1 :
                     /\ rs[j][1] = w /\ rs[j] \notin ToSet(a.rules)
                     /\ Loop!Defunct(rs[j], asked, ready, hup)
      /\ a.served \subseteq ready \cap ToSet(a.rules)
      /\ \A x, y \in a.served : x = y
      /\ \A x \in a.served : \E k \in 1 .. i - 1 :
           x = rs[k] /\ \A j \in k .. i - 1 : rs[j] \in ToSet(a.rules)
  BY Zenon DEF Walking
<1>3. a.state \in Copies /\ a.rules \in Seq(RuleSet) /\ a.served \in SUBSET RuleSet
  BY <1>2 DEF Looking
<1>4. rs \in Seq(RuleSet) /\ InOrder(rs)
  OBVIOUS
<1>5. /\ FirstOf(a.rules, rs, i)
      /\ more \in Seq(RuleSet) /\ InOrder(more)
      /\ ToSet(more) = ToSet(a.rules) \cup {r}
      /\ FirstOf(more, rs, i)
      /\ r \notin ToSet(a.rules)
  <2> DEFINE kept == a.rules
  <2>1. kept \in Seq(RuleSet) /\ InOrder(kept) /\ FirstOf(kept, rs, i - 1)
    BY <1>2, <1>3
  <2> HIDE DEF rs, kept
  <2> QED
    BY <1>1, <1>4, <2>1, KeepInOrder, Zenon DEF n, kept
<1>6. b = Loop!Look(a, r, asked, ready, hup, failed)
  OBVIOUS
<1> DEFINE Is == Walking(b, i, c, s, ready, hup)
<1>7. /\ b \in Looking
      /\ \/ /\ a.served # {} /\ b.state = a.state
            /\ b.rules = more /\ b.served = a.served
         \/ /\ a.served = {} /\ r \in failed
            /\ b.state = CloseStream(r, BreakStreams(r, a.state))
            /\ b.rules = a.rules /\ b.served = {}
         \/ /\ a.served = {} /\ Loop!Defunct(r, asked, ready, hup)
            /\ b.state = CloseStream(r, a.state)
            /\ b.rules = a.rules /\ b.served = {}
         \/ /\ a.served = {} /\ b.state = a.state
            /\ b.rules = more
            /\ b.served = IF r \in ready THEN {r} ELSE {}
  <2>1. a \in Looking /\ r \in RuleSet
    BY <1>1, <1>2
  <2> DEFINE l == Loop!Look(a, r, asked, ready, hup, failed)
  <2>2. b = l
    BY <1>6
  <2> HIDE DEF r, asked
  <2>3. /\ l \in Looking
        /\ \/ /\ a.served # {} /\ l.state = a.state
              /\ l.rules = Append(a.rules, r) /\ l.served = a.served
           \/ /\ a.served = {} /\ r \in failed
              /\ l.state = CloseStream(r, BreakStreams(r, a.state))
              /\ l.rules = a.rules /\ l.served = {}
           \/ /\ a.served = {} /\ Loop!Defunct(r, asked, ready, hup)
              /\ l.state = CloseStream(r, a.state)
              /\ l.rules = a.rules /\ l.served = {}
           \/ /\ a.served = {} /\ l.state = a.state
              /\ l.rules = Append(a.rules, r)
              /\ l.served = IF r \in ready THEN {r} ELSE {}
    BY <2>1, LookIsOne, Zenon
  <2> HIDE DEF l
  <2> QED
    BY <2>2, <2>3 DEF more
<1>8. /\ LET q == CloseStream(r, a.state) IN
         /\ Since(c, q) /\ q.stream[r[1]].is_closed
         /\ \A w \in Ways : a.state.stream[w].is_closed => q.stream[w].is_closed
         /\ \A w \in Ways : w # r[1] => q.stream[w] = a.state.stream[w]
         /\ \A w \in Ways : q.stream[w].error = a.state.stream[w].error
      /\ LET q == CloseStream(r, BreakStreams(r, a.state)) IN
         /\ Since(c, q) /\ q.stream[r[1]].is_closed
         /\ \A w \in Ways : a.state.stream[w].is_closed => q.stream[w].is_closed
         /\ Failed(q)
  <2> DEFINE x == a.state
  <2>1. x \in Copies /\ Since(c, x)
    BY <1>2, <1>3
  <2> HIDE DEF x, r
  <2>2. LET q == CloseStream(r, x)
            p == CloseStream(r, BreakStreams(r, x))
         IN  /\ Since(c, q) /\ q.stream[r[1]].is_closed
             /\ \A w \in Ways : x.stream[w].is_closed => q.stream[w].is_closed
             /\ \A w \in Ways : w # r[1] => q.stream[w] = x.stream[w]
             /\ \A w \in Ways : q.stream[w].error = x.stream[w].error
             /\ Since(c, p) /\ p.stream[r[1]].is_closed
             /\ \A w \in Ways : x.stream[w].is_closed => p.stream[w].is_closed
             /\ Failed(p)
    BY <1>1, <2>1, SinceCancelled, Zenon
  <2> QED
    BY <2>2, Zenon DEF x
<1>w. \A j \in 1 .. i : rs[j] \in RuleSet /\ rs[j][1] \in Ways
  BY <1>1, RuleFacts, ElementOfSeq
<1> HIDE DEF rs, n, r, asked, more
<1>r. r = rs[i]
  BY DEF r
\* The rule is kept, for one was served or nothing is wrong with it.
<1>9. ASSUME b.state = a.state, b.rules = more
      PROVE  /\ Since(c, b.state) /\ InOrder(b.rules) /\ FirstOf(b.rules, rs, i)
             /\ \A j \in 1 .. i : rs[j] \in ToSet(b.rules) \/ b.state.stream[rs[j][1]].is_closed
             /\ \/ Failed(b.state)
                \/ \A w \in Ways :
                     /\ b.state.stream[w].error = c.stream[w].error
                     /\ b.state.stream[w].is_closed /\ ~c.stream[w].is_closed =>
                          \E j \in 1 .. i :
                            /\ rs[j][1] = w /\ rs[j] \notin ToSet(b.rules)
                            /\ Loop!Defunct(rs[j], asked, ready, hup)
  <2>1. \A j \in 1 .. i : rs[j] \in ToSet(b.rules) \/ b.state.stream[rs[j][1]].is_closed
    BY <1>1, <1>2, <1>5, <1>9, <1>r
  <2>2. ASSUME NEW j \in 1 .. i - 1, rs[j] \notin ToSet(a.rules)
        PROVE  rs[j] \notin ToSet(more) \/ a.state.stream[r[1]] = a.state.stream[rs[j][1]]
    BY <1>5, <2>2
  <2>3. ASSUME ~Failed(a.state), NEW w \in Ways,
               a.state.stream[w].is_closed, ~c.stream[w].is_closed
        PROVE  \E j \in 1 .. i : /\ rs[j][1] = w /\ rs[j] \notin ToSet(more)
                                 /\ Loop!Defunct(rs[j], asked, ready, hup)
    <3>1. PICK j \in 1 .. i - 1 : /\ rs[j][1] = w /\ rs[j] \notin ToSet(a.rules)
                                  /\ Loop!Defunct(rs[j], asked, ready, hup)
      BY <1>2, <2>3
    <3>2. rs[j] # r
      <4>1. j \in 1 .. Len(rs) /\ i \in 1 .. Len(rs) /\ j < i
        BY <1>1 DEF n
      <4>2. rs[j][1] = rs[i][1] => Fills(rs[j]) /\ ~Fills(rs[i])
        BY <1>4, <4>1 DEF InOrder
      <4> QED
        BY <1>r, <4>2
    <3> QED
      BY <1>1, <1>5, <3>1, <3>2
  <2> QED
    BY <1>2, <1>5, <1>9, <2>1, <2>3
\* It is cancelled.
<1>10. ASSUME b.rules = a.rules, b.served = {},
              Since(c, b.state), b.state.stream[r[1]].is_closed,
              \A w \in Ways : a.state.stream[w].is_closed => b.state.stream[w].is_closed,
              \/ Failed(b.state)
              \/ /\ \A w \in Ways : w # r[1] => b.state.stream[w] = a.state.stream[w]
                 /\ \A w \in Ways : b.state.stream[w].error = a.state.stream[w].error
                 /\ Loop!Defunct(r, asked, ready, hup)
       PROVE  Is
  <2>1. \A j \in 1 .. i : rs[j] \in ToSet(b.rules) \/ b.state.stream[rs[j][1]].is_closed
    BY <1>1, <1>2, <1>10, <1>r, <1>w
  <2>2. \/ Failed(b.state)
        \/ \A w \in Ways :
             /\ b.state.stream[w].error = c.stream[w].error
             /\ b.state.stream[w].is_closed /\ ~c.stream[w].is_closed =>
                  \E j \in 1 .. i :
                    /\ rs[j][1] = w /\ rs[j] \notin ToSet(b.rules)
                    /\ Loop!Defunct(rs[j], asked, ready, hup)
    <3>1. CASE Failed(b.state)
      BY <3>1
    <3>2. CASE Failed(a.state) /\ ~Failed(b.state)
      BY <1>10, <3>2 DEF Failed
    <3>3. CASE ~Failed(a.state) /\ ~Failed(b.state)
      <4> SUFFICES ASSUME NEW w \in Ways
                   PROVE  /\ b.state.stream[w].error = c.stream[w].error
                          /\ b.state.stream[w].is_closed /\ ~c.stream[w].is_closed =>
                               \E j \in 1 .. i :
                                 /\ rs[j][1] = w /\ rs[j] \notin ToSet(b.rules)
                                 /\ Loop!Defunct(rs[j], asked, ready, hup)
        OBVIOUS
      <4>1. b.state.stream[w].error = c.stream[w].error
        BY <1>2, <1>10, <3>3
      <4>2. CASE w = r[1]
        BY <1>1, <1>5, <1>10, <1>r, <3>3, <4>1, <4>2
      <4>3. CASE w # r[1]
        BY <1>1, <1>2, <1>10, <3>3, <4>1, <4>3
      <4> QED
        BY <4>2, <4>3
    <3> QED
      BY <3>1, <3>2, <3>3
  <2> QED
    BY <1>2, <1>5, <1>7, <1>10, <2>1, <2>2 DEF Walking, rs, asked
<1>11. CASE a.served # {} /\ b.state = a.state /\ b.rules = more /\ b.served = a.served
  <2>1. b.served \subseteq ready \cap ToSet(b.rules) /\ \A x, y \in b.served : x = y
    BY <1>2, <1>5, <1>11
  <2>2. ASSUME NEW x \in b.served
        PROVE  \E k \in 1 .. i : x = rs[k] /\ \A j \in k .. i : rs[j] \in ToSet(b.rules)
    <3>1. PICK k \in 1 .. i - 1 : x = rs[k] /\ \A j \in k .. i - 1 : rs[j] \in ToSet(a.rules)
      BY <1>2, <1>11
    <3>2. \A j \in k .. i : j \in k .. i - 1 \/ j = i
      BY <1>1
    <3> QED
      BY <1>1, <1>5, <1>11, <1>r, <3>1, <3>2
  <2> QED
    BY <1>7, <1>9, <1>11, <2>1, <2>2 DEF Walking, rs, asked
<1>12. CASE /\ a.served = {} /\ b.state = a.state /\ b.rules = more
            /\ b.served = IF r \in ready THEN {r} ELSE {}
  <2>1. b.served \subseteq ready \cap ToSet(b.rules) /\ \A x, y \in b.served : x = y
    BY <1>5, <1>12
  <2>2. ASSUME NEW x \in b.served
        PROVE  \E k \in 1 .. i : x = rs[k] /\ \A j \in k .. i : rs[j] \in ToSet(b.rules)
    <3>1. x = rs[i] /\ rs[i] \in ToSet(b.rules)
      BY <1>5, <1>12, <1>r
    <3>2. \A j \in i .. i : j = i
      BY <1>1
    <3> QED
      BY <1>1, <3>1, <3>2
  <2> QED
    BY <1>7, <1>9, <1>12, <2>1, <2>2 DEF Walking, rs, asked
<1>13. CASE /\ a.served = {} /\ r \in failed
            /\ b.state = CloseStream(r, BreakStreams(r, a.state))
            /\ b.rules = a.rules /\ b.served = {}
  BY <1>8, <1>10, <1>13
<1>14. CASE /\ a.served = {} /\ Loop!Defunct(r, asked, ready, hup)
            /\ b.state = CloseStream(r, a.state)
            /\ b.rules = a.rules /\ b.served = {}
  BY <1>8, <1>10, <1>14
<1> QED
  BY <1>7, <1>11, <1>12, <1>13, <1>14

LEMMA WalkIsWalking ==
  ASSUME NEW s, NEW ready, NEW hup, NEW failed,
         s.state \in Copies, s.rules \in Seq(RuleSet), InOrder(s.rules)
  PROVE  Walking(Loop!Walk(s, ready, hup, failed), Len(s.rules), s.state, s, ready, hup)
<1> DEFINE n == Len(s.rules)
           F == Loop!Looks(s, ready, hup, failed)
           T == { i \in 0 .. n : Walking(F[i], i, s.state, s, ready, hup) }
<1>1. n \in Nat
  BY LenProperties
<1>2. /\ F[0] = [ state |-> s.state, rules |-> << >>, served |-> {} ]
      /\ \A i \in 0 .. n : F[i] \in Looking
      /\ \A i \in 1 .. n :
           F[i] = Loop!Look(F[i - 1], s.rules[i], s.asked, ready, hup, failed)
  <2>1. InTurn(F, s, ready, hup, failed)
    BY LooksInTurn, Zenon
  <2> HIDE DEF F
  <2> QED
    BY <2>1, Zenon DEF InTurn
<1> HIDE DEF F
<1>3. 0 \in T
  <2>1. /\ F[0].state = s.state /\ F[0].rules = << >> /\ F[0].served = {} /\ F[0] \in Looking
        /\ 0 \in 0 .. n
    BY <1>1, <1>2
  <2>2. \A i \in 1 .. 0 : FALSE
    OBVIOUS
  <2>3. Since(s.state, s.state)
    BY DEF Since
  <2>4. Walking(F[0], 0, s.state, s, ready, hup)
    BY <2>1, <2>2, <2>3, NoneKept DEF Walking
  <2> QED
    BY <2>1, <2>4
<1>4. \A i \in 1 .. n : i - 1 \in T => i \in T
  <2> SUFFICES ASSUME NEW i \in 1 .. n, Walking(F[i - 1], i - 1, s.state, s, ready, hup)
               PROVE  Walking(F[i], i, s.state, s, ready, hup)
    BY <1>1
  <2> DEFINE a == F[i - 1]
             b == F[i]
  <2>1. b = Loop!Look(a, s.rules[i], s.asked, ready, hup, failed)
    BY <1>2
  <2> HIDE DEF a, b
  <2>2. Walking(a, i - 1, s.state, s, ready, hup)
    BY DEF a
  <2>3. Walking(b, i, s.state, s, ready, hup)
    BY <2>1, <2>2, LookKeepsWalking
  <2> QED
    BY <2>3 DEF b
<1> HIDE DEF T
<1>5. 0 .. n \subseteq T
  BY <1>1, <1>3, <1>4, IntervalInduction
<1>6. Walking(F[n], n, s.state, s, ready, hup)
  BY <1>1, <1>5 DEF T
<1>7. Loop!Walk(s, ready, hup, failed) = F[n]
  BY Zenon DEF F, Loop!Walk
<1> QED
  BY <1>6, <1>7

-----------------------------------------------------------------------------
(* A call of wait_next_event *)

\* What holds of a copy's flags and rules holds of a later copy and fewer rules
\* if every rule that is gone has a closed stream.
LEMMA SinceIsDead ==
  ASSUME NEW c \in Copies, NEW q \in Copies, Since(c, q), DeadAreClosed(c)
  PROVE  DeadAreClosed(q)
<1> SUFFICES ASSUME NEW r \in RuleSet, Loop!Dead(r, q) PROVE q.stream[r[1]].is_closed
  BY DEF DeadAreClosed
<1>1. Loop!Dead(r, c)
  BY DeadFacts DEF Since
<1> QED
  BY <1>1, RuleFacts DEF DeadAreClosed, Since

LEMMA SweepIsGood ==
  ASSUME NEW c, NEW rs, NEW tk, NEW gv, Good(c, rs, tk, gv),
         NEW s, s = Loop!Sweep(c, rs)
  PROVE  /\ s.state = c /\ Good(c, s.rules, tk, gv)
         /\ ToSet(s.rules) \subseteq ToSet(rs)
         /\ s.asked = { r \in ToSet(s.rules) : Wants(r, c) }
<1>1. /\ c \in Copies /\ rs \in Seq(RuleSet) /\ InOrder(rs)
      /\ DeadAreClosed(c) /\ GoneAreClosed(c, rs)
  BY DEF Good, Typed
<1>2. /\ s.state = c /\ s.rules \in Seq(RuleSet) /\ InOrder(s.rules)
      /\ ToSet(s.rules) \subseteq ToSet(rs)
      /\ GoneAreClosed(c, s.rules)
      /\ s.asked = { r \in ToSet(s.rules) : Wants(r, c) }
  BY <1>1, SweepIs
<1>3. ASSUME NEW w \in Ways, CopiedSoFar(c, w, tk[w], gv[w], rs)
      PROVE  CopiedSoFar(c, w, tk[w], gv[w], s.rules)
  BY <1>2, <1>3 DEF CopiedSoFar
<1> QED
  BY <1>2, <1>3 DEF Good, Typed

\* A fill rule is cancelled for a hang-up only at the end of its input.
LEMMA HungUpAtEnd ==
  ASSUME NEW s, NEW ready, NEW hung, MayHangUp(s, ready, hung),
         NEW r \in RuleSet, Fills(r), Loop!Defunct(r, s.asked, ready, On(hung, s))
  PROVE  Left(r[1]) = 0
<1>1. /\ r \in On(hung, s) /\ r \in s.asked /\ r \notin ready
      /\ Fd(r) \in hung
  BY DEF Loop!Defunct, On
<1>2. \/ r = << "outbound", "fill" >> /\ Fd(r) = "stdin"
      \/ r = << "inbound", "fill" >> /\ Fd(r) = "socket"
  BY DEF RuleSet, Ways, Fills, Fd
<1> QED
  BY <1>1, <1>2 DEF MayHangUp

\* The walk leaves what was copied so far as it is.
LEMMA WalkIsGood ==
  ASSUME NEW s, Good(s.state, s.rules, taken, given),
         NEW ready, NEW hung, NEW failed, MayHangUp(s, ready, hung),
         NEW a, Walking(a, Len(s.rules), s.state, s, ready, On(hung, s))
  PROVE  /\ Good(a.state, a.rules, taken, given)
         /\ \A w \in Ways : s.state.stream[w].is_closed => a.state.stream[w].is_closed
<1> DEFINE c == s.state
           rs == s.rules
           q == a.state
           hup == On(hung, s)
           n == Len(rs)
<1>1. /\ c \in Copies /\ rs \in Seq(RuleSet) /\ InOrder(rs) /\ n \in Nat
      /\ DeadAreClosed(c) /\ GoneAreClosed(c, rs) /\ Typed(c, rs, taken, given)
      /\ \/ Failed(c)
         \/ ~HasError(c) /\ \A w \in Ways : CopiedSoFar(c, w, taken[w], given[w], rs)
  BY LenProperties DEF Good, Typed
<1>2. /\ a \in Looking /\ Since(c, q)
      /\ InOrder(a.rules) /\ FirstOf(a.rules, rs, n)
      /\ \A j \in 1 .. n : rs[j] \in ToSet(a.rules) \/ q.stream[rs[j][1]].is_closed
      /\ \/ Failed(q)
         \/ \A w \in Ways :
              /\ q.stream[w].error = c.stream[w].error
              /\ q.stream[w].is_closed /\ ~c.stream[w].is_closed =>
                   \E j \in 1 .. n :
                     /\ rs[j][1] = w /\ rs[j] \notin ToSet(a.rules)
                     /\ Loop!Defunct(rs[j], s.asked, ready, hup)
  BY Zenon DEF Walking
<1>3. q \in Copies /\ a.rules \in Seq(RuleSet)
  BY <1>2 DEF Looking
<1>4. DOMAIN rs = 1 .. n /\ \A j \in 1 .. n : rs[j] \in RuleSet /\ rs[j] \in ToSet(rs)
  BY <1>1, LenProperties, ElementOfSeq DEF ToSet
<1> HIDE DEF c, rs, q, hup, n
<1>5. ToSet(a.rules) \subseteq ToSet(rs)
  BY <1>2, <1>4 DEF FirstOf
<1>6. GoneAreClosed(q, a.rules)
  <2> SUFFICES ASSUME NEW r \in RuleSet, r \notin ToSet(a.rules)
               PROVE  q.stream[r[1]].is_closed
    BY DEF GoneAreClosed
  <2>1. CASE r \notin ToSet(rs)
    BY <1>1, <1>2, <2>1, RuleFacts DEF GoneAreClosed, Since
  <2>2. CASE r \in ToSet(rs)
    <3>1. PICK j \in 1 .. n : r = rs[j]
      BY <1>4, <2>2 DEF ToSet
    <3> QED
      BY <1>2, <3>1
  <2> QED
    BY <2>1, <2>2
<1>7. DeadAreClosed(q)
  BY <1>1, <1>2, <1>3, SinceIsDead
<1>8. \A w \in Ways : c.stream[w].is_closed => q.stream[w].is_closed
  BY <1>2 DEF Since
<1>9. Typed(q, a.rules, taken, given)
  BY <1>1, <1>3 DEF Typed
<1>10. ASSUME ~Failed(q)
       PROVE  ~HasError(q) /\ \A w \in Ways : CopiedSoFar(q, w, taken[w], given[w], a.rules)
  <2>1. ~Failed(c)
    BY <1>2, <1>10 DEF Failed, Since
  <2>2. ~HasError(c) /\ \A w \in Ways : CopiedSoFar(c, w, taken[w], given[w], rs)
    BY <1>1, <2>1
  <2>3. ~HasError(q)
    BY <1>2, <1>10, <2>2 DEF HasError
  <2>4. ASSUME NEW w \in Ways, q.stream[w].is_closed, << w, "drain" >> \in ToSet(a.rules)
        PROVE  taken[w] = Len(Input[w])
    <3>1. CASE c.stream[w].is_closed
      BY <1>5, <2>2, <2>4, <3>1 DEF CopiedSoFar
    <3>2. CASE ~c.stream[w].is_closed
      <4>1. PICK j \in 1 .. n : /\ rs[j][1] = w /\ rs[j] \notin ToSet(a.rules)
                                /\ Loop!Defunct(rs[j], s.asked, ready, hup)
        BY <1>2, <1>10, <2>4, <3>2
      <4> DEFINE r == rs[j]
      <4>2. r \in RuleSet /\ Fills(r)
        BY <1>4, <2>4, <4>1, RuleFacts
      <4>3. Left(r[1]) = 0
        <5>1. Loop!Defunct(r, s.asked, ready, On(hung, s))
          BY <4>1 DEF hup
        <5> HIDE DEF r
        <5> QED
          BY <4>2, <5>1, HungUpAtEnd
      <4> QED
        BY <1>1, <4>1, <4>3, InputAssumption, LenProperties DEF Left, Typed
    <3> QED
      BY <3>1, <3>2
  <2>5. ASSUME NEW w \in Ways PROVE CopiedSoFar(q, w, taken[w], given[w], a.rules)
    <3>1. CopiedSoFar(c, w, taken[w], given[w], rs)
      BY <2>2
    <3>2. /\ q.shutdown = c.shutdown
          /\ q.stream[w].capacity = c.stream[w].capacity
          /\ q.stream[w].buffer = c.stream[w].buffer
          /\ q.stream[w].bytes_pushed = c.stream[w].bytes_pushed
          /\ q.stream[w].bytes_popped = c.stream[w].bytes_popped
          /\ c.stream[w].is_closed => q.stream[w].is_closed
      BY <1>2 DEF Since
    <3> QED
      BY <2>4, <3>1, <3>2 DEF CopiedSoFar, IsFinished
  <2> QED
    BY <2>3, <2>5
<1>11. Good(q, a.rules, taken, given)
  BY <1>2, <1>6, <1>7, <1>9, <1>10 DEF Good
<1> QED
  BY <1>8, <1>11 DEF q, c

\* A fill rule that is served has room and an open stream unless something failed.
LEMMA ServedIsOpen ==
  ASSUME NEW s, Good(s.state, s.rules, taken, given),
         s.asked = { r \in ToSet(s.rules) : Wants(r, s.state) },
         NEW ready, ready \subseteq s.asked, NEW hung,
         NEW a, Walking(a, Len(s.rules), s.state, s, ready, On(hung, s)),
         NEW r \in a.served, Fills(r)
  PROVE  /\ r \in RuleSet /\ ~s.state.stream[r[1]].is_closed
         /\ \/ Failed(a.state)
            \/ /\ ~a.state.stream[r[1]].is_closed
               /\ AvailableCapacity(a.state.stream[r[1]]) > 0
<1> DEFINE c == s.state
           rs == s.rules
           q == a.state
           n == Len(rs)
           hup == On(hung, s)
           w == r[1]
<1>1. /\ rs \in Seq(RuleSet) /\ InOrder(rs) /\ n \in Nat
      /\ \A j \in 1 .. n : rs[j] \in RuleSet
  BY LenProperties, ElementOfSeq DEF Good, Typed
<1>2. /\ a \in Looking /\ Since(c, q)
      /\ \/ Failed(q)
         \/ \A v \in Ways :
              q.stream[v].is_closed /\ ~c.stream[v].is_closed =>
                \E j \in 1 .. n : rs[j][1] = v /\ rs[j] \notin ToSet(a.rules)
      /\ a.served \subseteq ready \cap ToSet(a.rules)
      /\ \E k \in 1 .. n : r = rs[k] /\ \A j \in k .. n : rs[j] \in ToSet(a.rules)
  BY Zenon DEF Walking
<1>3. r \in RuleSet /\ w \in Ways
  BY <1>1, <1>2, RuleFacts
<1>4. AvailableCapacity(c.stream[w]) > 0 /\ ~c.stream[w].is_closed
  BY <1>2 DEF Wants, WantsFill
<1>5. ASSUME ~Failed(q) PROVE ~q.stream[w].is_closed
  <2> SUFFICES ASSUME q.stream[w].is_closed PROVE FALSE
    OBVIOUS
  <2>1. PICK j \in 1 .. n : rs[j][1] = w /\ rs[j] \notin ToSet(a.rules)
    BY <1>2, <1>3, <1>4, <1>5
  <2>2. PICK k \in 1 .. n : r = rs[k] /\ \A i \in k .. n : rs[i] \in ToSet(a.rules)
    BY <1>2
  <2>3. j < k
    BY <1>1, <2>1, <2>2
  <2>4. ~Fills(r)
    BY <2>1, <2>2, <2>3 DEF InOrder, Good
  <2> QED
    BY <2>4
<1>6. AvailableCapacity(q.stream[w]) > 0
  BY <1>2, <1>3, <1>4 DEF Since, AvailableCapacity
<1> QED
  BY <1>3, <1>4, <1>5, <1>6

-----------------------------------------------------------------------------
(* What the callbacks do *)

\* Later, closed streams are closed and ways shut down are shut down.
Later(c, q) == \A w \in Ways : /\ c.stream[w].is_closed => q.stream[w].is_closed
                               /\ c.shutdown[w] => q.shutdown[w]

\* Bytes moved into or out of the stream of one way.
LEMMA MovedIsGood ==
  ASSUME NEW c, NEW rs, NEW tk, NEW gv, Good(c, rs, tk, gv),
         NEW w \in Ways, NEW new \in ByteStreams(Byte),
         new.is_closed = c.stream[w].is_closed, new.error = c.stream[w].error,
         NEW tk2, NEW gv2, Typed(c, rs, tk2, gv2),
         \A v \in Ways : v # w => tk2[v] = tk[v] /\ gv2[v] = gv[v],
         NEW q, q = WithStream(c, w, new),
         ~HasError(c) => CopiedSoFar(q, w, tk2[w], gv2[w], rs)
  PROVE  /\ q \in Copies /\ Good(q, rs, tk2, gv2) /\ Later(c, q)
         /\ q.stream[w] = new
         /\ q.shutdown = c.shutdown /\ q.eof = c.eof /\ q.closed = c.closed
<1>1. c \in Copies
  BY DEF Typed
<1>2. /\ q \in Copies
      /\ q.stream[w] = new /\ \A v \in Ways : v # w => q.stream[v] = c.stream[v]
      /\ q.shutdown = c.shutdown /\ q.eof = c.eof /\ q.closed = c.closed
  BY <1>1, NewStream
<1>3. \A v \in Ways : /\ q.stream[v].is_closed = c.stream[v].is_closed
                      /\ q.stream[v].error = c.stream[v].error
  BY <1>2
<1>4. DeadAreClosed(q)
  <2> SUFFICES ASSUME NEW r \in RuleSet, Loop!Dead(r, q) PROVE q.stream[r[1]].is_closed
    BY DEF DeadAreClosed
  <2>1. Loop!Dead(r, c)
    BY <1>1, <1>2, DeadFacts
  <2> QED
    BY <1>3, <2>1, RuleFacts DEF DeadAreClosed, Good
<1>5. GoneAreClosed(q, rs)
  BY <1>3, RuleFacts DEF GoneAreClosed, Good
<1>6. Typed(q, rs, tk2, gv2)
  BY <1>2 DEF Typed
<1>7. Later(c, q)
  BY <1>2, <1>3 DEF Later
<1>8. Failed(c) => Failed(q)
  BY <1>3 DEF Failed
<1>9. ~HasError(c) => ~HasError(q)
  BY <1>3 DEF HasError
<1>10. ASSUME ~HasError(c), NEW v \in Ways, v # w, CopiedSoFar(c, v, tk[v], gv[v], rs)
       PROVE  CopiedSoFar(q, v, tk2[v], gv2[v], rs)
  <2>1. q.stream[v] = c.stream[v] /\ q.shutdown = c.shutdown /\ tk2[v] = tk[v] /\ gv2[v] = gv[v]
    BY <1>2, <1>10
  <2> QED
    BY <1>10, <2>1 DEF CopiedSoFar
<1>11. Good(q, rs, tk2, gv2)
  BY <1>4, <1>5, <1>6, <1>8, <1>9, <1>10 DEF Good
<1> QED
  BY <1>2, <1>7, <1>11

\* A failure is an error.
LEMMA FailedIsError == \A c : Failed(c) => HasError(c)
BY DEF Failed, HasError, Ways

\* A read of n bytes.
Filled(c, rs, w, n) ==
  LET data == SubSeq(Input[w], taken[w] + 1, taken[w] + n)
      next == Fill(c, w, data)
  IN  /\ Good(next, rs, [taken EXCEPT ![w] = @ + n], given) /\ Later(c, next)
      /\ taken[w] \in Nat /\ taken[w] + n \in 0 .. Len(Input[w])
      /\ data \in Seq(Byte)
      /\ Take(Input[w], taken[w] + n) = Take(Input[w], taken[w]) \o data

\* What is read gets into the stream, and its end is the end of the input.
LEMMA FillIsGood ==
  ASSUME NEW c, NEW rs, Good(c, rs, taken, given), NEW w \in Ways,
         \/ Failed(c)
         \/ ~c.stream[w].is_closed /\ AvailableCapacity(c.stream[w]) > 0,
         NEW n \in 0 .. Left(w),
         n <= AvailableCapacity(c.stream[w]) \/ AvailableCapacity(c.stream[w]) = 0,
         n = 0 => Left(w) = 0
  PROVE  Filled(c, rs, w, n)
<1> DEFINE data == SubSeq(Input[w], taken[w] + 1, taken[w] + n)
           next == Fill(c, w, data)
           bs == c.stream[w]
           new == Push(bs, data)
           tk2 == [taken EXCEPT ![w] = @ + n]
           p == WithStream(c, w, new)
           r == << w, "fill" >>
           m == taken[w]
           in == Input[w]
           q == CloseStream(r, p)
<1>1. /\ c \in Copies /\ rs \in Seq(RuleSet)
      /\ taken \in [Ways -> Nat] /\ given \in [Ways -> Seq(Byte)]
      /\ \A v \in Ways : taken[v] <= Len(Input[v])
      /\ bs \in ByteStreams(Byte)
  BY DEF Good, Typed, Copies
<1>2. /\ in \in Seq(Byte) /\ Len(in) \in Nat /\ m \in 0 .. Len(in)
      /\ n \in 0 .. Len(in) - m /\ n \in Nat /\ m \in Nat /\ m + n \in 0 .. Len(in)
      /\ n = 0 => m = Len(in)
  <2>1. in \in Seq(Byte) /\ Len(in) \in Nat
    BY InputAssumption, LenProperties
  <2>2. m \in Nat /\ m <= Len(in) /\ Left(w) = Len(in) - m
    BY <1>1 DEF Left
  <2> HIDE DEF in, m
  <2> QED
    BY <2>1, <2>2
<1>3. /\ data \in Seq(Byte) /\ Len(data) = n
      /\ Take(in, m + n) = Take(in, m) \o data
  <2>1. data = SubSeq(in, m + 1, m + n)
    OBVIOUS
  <2> HIDE DEF in, m, data
  <2> QED
    <3>1. /\ SubSeq(in, m + 1, m + n) \in Seq(Byte) /\ Len(SubSeq(in, m + 1, m + n)) = n
          /\ Take(in, m + n) = Take(in, m) \o SubSeq(in, m + 1, m + n)
      <4>1. in \in Seq(Byte) /\ m \in 0 .. Len(in) /\ n \in 0 .. Len(in) - m
        BY <1>2
      <4> QED
        BY <4>1, TakeMore, Zenon
    <3> QED
      BY <2>1, <3>1
<1> HIDE DEF data
<1>4. /\ tk2 \in [Ways -> Nat] /\ tk2[w] = m + n
      /\ \A v \in Ways : v # w => tk2[v] = taken[v]
      /\ \A v \in Ways : tk2[v] <= Len(Input[v])
  BY <1>1, <1>2
<1>5. Failed(c) => bs.error
  BY DEF Failed
<1>6. bs.is_closed \/ bs.error \/ Len(data) <= AvailableCapacity(bs)
  BY <1>3, <1>5
<1>o. /\ given[w] \in Seq(Byte) /\ bs.buffer \in Seq(Byte)
      /\ Len(given[w]) \in Nat /\ Len(bs.buffer) \in Nat
      /\ bs.capacity \in Nat /\ bs.bytes_popped \in Nat /\ bs.bytes_pushed \in Nat
  BY <1>1, LenProperties DEF ByteStreams
<1>a. ~HasError(c) => /\ ~bs.error /\ CopiedSoFar(c, w, m, given[w], rs)
                      /\ ~bs.is_closed
  BY FailedIsError DEF HasError, Good
<1> DEFINE more == IF bs.is_closed \/ bs.error THEN << >> ELSE data
<1>7. /\ new \in ByteStreams(Byte)
      /\ new.buffer = bs.buffer \o more
      /\ new.bytes_pushed = bs.bytes_pushed + Len(more)
      /\ new.bytes_popped = bs.bytes_popped /\ new.capacity = bs.capacity
      /\ new.error = bs.error /\ new.is_closed = bs.is_closed
  <2>0. bs \in ByteStreams(Byte) /\ data \in Seq(Byte)
    BY <1>1, <1>3
  <2> HIDE DEF bs
  <2>1. new \in ByteStreams(Byte) /\ PushedWith(new, bs, data)
    BY <2>0, <1>6, PushIsStream
  <2> HIDE DEF new
  <2> QED
    BY <2>1, Zenon DEF PushedWith, more
<1> HIDE DEF new
<1>8. p.stream[w] = new /\ p.shutdown = c.shutdown
  <2>1. p = WithStream(c, w, new)
    OBVIOUS
  <2> HIDE DEF p
  <2> QED
    BY <1>1, <1>7, <2>1, NewStream
<1>9. ~HasError(c) => CopiedSoFar(p, w, m + n, given[w], rs)
  <2> SUFFICES ASSUME ~HasError(c) PROVE CopiedSoFar(p, w, m + n, given[w], rs)
    OBVIOUS
  <2>1. /\ bs.capacity = BufferSize /\ Len(bs.buffer) <= BufferSize
        /\ bs.bytes_pushed = m /\ bs.bytes_popped = Len(given[w])
        /\ given[w] \o bs.buffer = Take(in, m)
        /\ ~c.shutdown[w] /\ ~bs.is_closed /\ ~bs.error
    BY <1>a DEF CopiedSoFar, IsFinished
  <2>2. more = data
    BY <2>1
  <2>3. given[w] \o (bs.buffer \o data) = Take(in, m + n)
    <3>1. given[w] \o (bs.buffer \o data) = (given[w] \o bs.buffer) \o data
      <4> DEFINE out == given[w]
                 b == bs.buffer
      <4>1. out \in Seq(Byte) /\ b \in Seq(Byte) /\ data \in Seq(Byte)
        BY <1>3, <1>o
      <4> HIDE DEF out, b
      <4>2. (out \o b) \o data = out \o (b \o data)
        <5>1. \A x, y, z \in Seq(Byte) : (x \o y) \o z = x \o (y \o z)
          BY Associates, SMTT(60)
        <5> QED
          BY <4>1, <5>1
      <4> QED
        BY <4>2 DEF out, b
    <3> QED
      BY <1>3, <2>1, <3>1
  <2>4. Len(bs.buffer \o data) = Len(bs.buffer) + n
    <3> DEFINE b == bs.buffer
    <3>1. b \in Seq(Byte) /\ data \in Seq(Byte) /\ Len(data) = n
      BY <1>3, <1>o
    <3> HIDE DEF b
    <3>2. Len(b \o data) = Len(b) + Len(data)
      BY <3>1, ConcatProperties
    <3> QED
      BY <3>1, <3>2 DEF b
  <2>5. m = Len(given[w]) + Len(bs.buffer)
    <3>1. Len(given[w] \o bs.buffer) = Len(given[w]) + Len(bs.buffer)
      BY <1>o, ConcatProperties
    <3>2. Len(Take(in, m)) = m
      <4> HIDE DEF in, m
      <4> QED
        BY <1>2, Cut
    <3> QED
      BY <2>1, <3>1, <3>2
  <2>6. Len(bs.buffer) + n <= BufferSize
    <3>1. n <= AvailableCapacity(bs)
      BY <1>a, FailedIsError
    <3>2. AvailableCapacity(bs) = BufferSize - (m - Len(given[w]))
      BY <2>1 DEF AvailableCapacity
    <3> HIDE DEF m, in, bs
    <3> QED
      BY <1>2, <1>o, <2>5, <3>1, <3>2, BufferSizeAssumption
  <2> HIDE DEF p, bs, m, in, more
  <2> QED
    BY <1>3, <1>7, <1>8, <2>1, <2>2, <2>3, <2>4, <2>6 DEF CopiedSoFar, bs, in
<1>10. Typed(c, rs, tk2, given)
  BY <1>1, <1>4 DEF Typed
<1>11. /\ p \in Copies /\ Good(p, rs, tk2, given) /\ Later(c, p)
       /\ p.eof = c.eof /\ p.closed = c.closed
  <2>1. p = WithStream(c, w, new)
    OBVIOUS
  <2>2. new.is_closed = c.stream[w].is_closed /\ new.error = c.stream[w].error
    BY <1>7
  <2>3. ~HasError(c) => CopiedSoFar(p, w, tk2[w], given[w], rs)
    BY <1>4, <1>9
  <2> HIDE DEF p, tk2
  <2> QED
    BY <1>4, <1>7, <1>10, <2>1, <2>2, <2>3, MovedIsGood
<1>12. next = IF data = << >> THEN [q EXCEPT !.eof = @ \cup {Fd(r)}] ELSE p
  BY Zenon DEF Fill, WithStream, p, q, new, r, next
<1> HIDE DEF p, tk2, next
<1> SUFFICES Good(next, rs, tk2, given) /\ Later(c, next)
  BY <1>2, <1>3, Zenon DEF Filled, tk2, m, in, data, next
<1>13. CASE data # << >>
  BY <1>11, <1>12, <1>13
<1>14. CASE data = << >>
  <2>1. n = 0 /\ m + n = Len(in)
    <3>1. Len(data) = 0
      BY <1>14, EmptySeq
    <3> QED
      BY <1>2, <1>3, <3>1
  <2>2. /\ Since(p, q) /\ q.stream[w].is_closed /\ q \in Copies
        /\ \A v \in Ways : v # w => q.stream[v] = p.stream[v]
        /\ \A v \in Ways : q.stream[v].error = p.stream[v].error
    <3>1. Since(p, p)
      BY DEF Since
    <3>2. r \in RuleSet /\ r[1] = w
      BY RuleFacts
    <3>3. q = CloseStream(r, p)
      OBVIOUS
    <3> HIDE DEF r, q
    <3>4. q \in Copies
      BY <1>11, <3>2, <3>3, CloseCloses
    <3>5. /\ Since(p, CloseStream(r, p)) /\ CloseStream(r, p).stream[r[1]].is_closed
          /\ \A v \in Ways : v # r[1] => CloseStream(r, p).stream[v] = p.stream[v]
          /\ \A v \in Ways : CloseStream(r, p).stream[v].error = p.stream[v].error
      BY <1>11, <3>1, <3>2, SinceCancelled
    <3> QED
      BY <3>2, <3>3, <3>4, <3>5
  <2> HIDE DEF q
  <2>3. /\ next \in Copies /\ next.stream = q.stream /\ next.shutdown = q.shutdown
        /\ next.closed = q.closed /\ next.eof = q.eof \cup {Fd(r)}
    <3>1. Fd(r) \in Fds
      BY DEF Fds, Fd
    <3>2. next = [q EXCEPT !.eof = @ \cup {Fd(r)}]
      BY <1>12, <1>14
    <3> HIDE DEF r
    <3> QED
      BY <2>2, <3>1, <3>2 DEF Copies
  <2>4. /\ next.shutdown = p.shutdown /\ next.closed = p.closed /\ next.eof = p.eof \cup {Fd(r)}
        /\ \A v \in Ways : /\ p.stream[v].is_closed => next.stream[v].is_closed
                           /\ next.stream[v].error = p.stream[v].error
                           /\ next.stream[v].capacity = p.stream[v].capacity
                           /\ next.stream[v].buffer = p.stream[v].buffer
                           /\ next.stream[v].bytes_pushed = p.stream[v].bytes_pushed
                           /\ next.stream[v].bytes_popped = p.stream[v].bytes_popped
    <3>1. /\ q.shutdown = p.shutdown /\ q.eof = p.eof /\ q.closed = p.closed
          /\ \A v \in Ways : /\ q.stream[v].capacity = p.stream[v].capacity
                             /\ q.stream[v].buffer = p.stream[v].buffer
                             /\ q.stream[v].bytes_pushed = p.stream[v].bytes_pushed
                             /\ q.stream[v].bytes_popped = p.stream[v].bytes_popped
                             /\ p.stream[v].is_closed => q.stream[v].is_closed
      BY <2>2 DEF Since
    <3>2. \A v \in Ways : next.stream[v] = q.stream[v]
      BY <2>3
    <3> HIDE DEF r
    <3>3. /\ next.shutdown = p.shutdown /\ next.closed = p.closed
          /\ next.eof = p.eof \cup {Fd(r)}
      BY <2>3, <3>1
    <3>4. \A v \in Ways : next.stream[v].error = p.stream[v].error
      <4> TAKE v \in Ways
      <4>1. next.stream[v] = q.stream[v]
        BY <3>2
      <4>2. q.stream[v].error = p.stream[v].error
        BY <2>2, Zenon
      <4> QED
        BY <4>1, <4>2
    <3>5. \A v \in Ways : /\ next.stream[v].capacity = p.stream[v].capacity
                          /\ next.stream[v].buffer = p.stream[v].buffer
                          /\ next.stream[v].bytes_pushed = p.stream[v].bytes_pushed
                          /\ next.stream[v].bytes_popped = p.stream[v].bytes_popped
                          /\ p.stream[v].is_closed => next.stream[v].is_closed
      BY <3>1, <3>2
    <3> QED
      BY <3>3, <3>4, <3>5
  <2>5. DeadAreClosed(next)
    <3> SUFFICES ASSUME NEW x \in RuleSet, Loop!Dead(x, next) PROVE next.stream[x[1]].is_closed
      BY DEF DeadAreClosed
    <3>1. CASE Loop!Dead(x, p)
      BY <1>11, <2>4, <3>1, RuleFacts DEF DeadAreClosed, Good
    <3>2. CASE ~Loop!Dead(x, p)
      <4>1. Fills(x) /\ Fd(x) = Fd(r)
        BY <1>11, <2>3, <2>4, <3>2, DeadFacts
      <4>2. x[1] = w
        BY <4>1 DEF RuleSet, Ways, Fills, Fd
      <4> QED
        BY <2>2, <2>3, <4>2
    <3> QED
      BY <3>1, <3>2
  <2>6. GoneAreClosed(next, rs)
    BY <1>11, <2>4, RuleFacts DEF GoneAreClosed, Good
  <2>7. Typed(next, rs, tk2, given)
    BY <1>11, <2>3 DEF Good, Typed
  <2>8. Failed(p) => Failed(next)
    BY <2>4 DEF Failed
  <2>9. ~HasError(p) => ~HasError(next)
    BY <2>4 DEF HasError
  <2>10. ASSUME NEW v \in Ways, CopiedSoFar(p, v, tk2[v], given[v], rs)
         PROVE  CopiedSoFar(next, v, tk2[v], given[v], rs)
    <3>1. v # w => next.stream[v] = p.stream[v]
      BY <2>2, <2>3
    <3>2. v = w => tk2[v] = Len(Input[v])
      BY <1>4, <2>1
    <3> QED
      BY <2>4, <2>10, <3>1, <3>2 DEF CopiedSoFar, IsFinished
  <2>11. Good(next, rs, tk2, given)
    BY <1>11, <2>5, <2>6, <2>7, <2>8, <2>9, <2>10 DEF Good
  <2>12. Later(c, next)
    BY <1>11, <2>4 DEF Later
  <2> QED
    BY <2>11, <2>12
<1> QED
  BY <1>13, <1>14

\* What is written has left the stream, and a shutdown is passed on at its end.
LEMMA DrainIsGood ==
  ASSUME NEW c, NEW rs, Good(c, rs, taken, given), NEW w \in Ways,
         << w, "drain" >> \in ToSet(rs),
         NEW n \in 0 .. Len(c.stream[w].buffer),
         n = 0 => c.stream[w].buffer = << >>,
         NEW next, next = Drain(c, w, n)
  PROVE  /\ Good(next, rs, taken, [given EXCEPT ![w] = @ \o Take(c.stream[w].buffer, n)])
         /\ Later(c, next)
         /\ given[w] \in Seq(Byte) /\ Take(c.stream[w].buffer, n) \in Seq(Byte)
         /\ n = 0 => next.stream[w].buffer = << >>
         /\ IsFinished(next.stream[w]) => next.shutdown[w]
<1> DEFINE bs == c.stream[w]
           b == bs.buffer
           new == Pop(bs, n)
           out == given[w]
           part == Take(b, n)
           gv2 == [given EXCEPT ![w] = @ \o part]
           p == WithStream(c, w, new)
           ends == IF w = "inbound" THEN {"stdout"} ELSE {}
           less == IF bs.error THEN 0 ELSE n
<1>1. /\ c \in Copies /\ rs \in Seq(RuleSet)
      /\ taken \in [Ways -> Nat] /\ given \in [Ways -> Seq(Byte)]
      /\ \A v \in Ways : taken[v] <= Len(Input[v])
      /\ bs \in ByteStreams(Byte)
  BY DEF Good, Typed, Copies
<1>2. /\ out \in Seq(Byte) /\ b \in Seq(Byte) /\ Len(out) \in Nat /\ Len(b) \in Nat
      /\ n \in 0 .. Len(b) /\ n \in Nat /\ n <= Len(b)
      /\ bs.capacity \in Nat /\ bs.bytes_popped \in Nat /\ bs.bytes_pushed \in Nat
  BY <1>1, LenProperties DEF ByteStreams
<1>3. \A k \in 0 .. Len(b) : /\ Take(b, k) \in Seq(Byte) /\ Len(Take(b, k)) = k
                             /\ Drop(b, k) \in Seq(Byte) /\ Len(Drop(b, k)) = Len(b) - k
                             /\ Take(b, k) \o Drop(b, k) = b
  <2> HIDE DEF b
  <2> QED
    BY <1>2, Cut
<1>4. /\ part \in Seq(Byte) /\ out \o part \in Seq(Byte) /\ Len(out \o part) = Len(out) + n
  <2>1. part \in Seq(Byte) /\ Len(part) = n
    BY <1>2, <1>3
  <2> HIDE DEF part, out
  <2>2. out \in Seq(Byte)
    BY <1>2
  <2>3. out \o part \in Seq(Byte) /\ Len(out \o part) = Len(out) + Len(part)
    BY <2>1, <2>2, ConcatProperties
  <2> QED
    BY <2>1, <2>3
<1>5. /\ gv2 \in [Ways -> Seq(Byte)] /\ gv2[w] = out \o part
      /\ \A v \in Ways : v # w => gv2[v] = given[v]
  BY <1>1, <1>4
<1>6. new \in ByteStreams(Byte) /\ PoppedOf(new, bs, n)
  <2>1. bs \in ByteStreams(Byte) /\ n \in 0 .. Len(bs.buffer)
    BY <1>1, <1>2
  <2> HIDE DEF bs
  <2> QED
    BY <2>1, PopIsStream
<1> HIDE DEF new
<1>7. /\ new.buffer = Drop(b, less)
      /\ new.bytes_popped = bs.bytes_popped + less
      /\ new.bytes_pushed = bs.bytes_pushed /\ new.capacity = bs.capacity
      /\ new.error = bs.error /\ new.is_closed = bs.is_closed
  <2> HIDE DEF bs
  <2> QED
    BY <1>6, Zenon DEF PoppedOf, b, less
<1>8. n = 0 => new.buffer = << >>
  <2> SUFFICES ASSUME n = 0 PROVE new.buffer = << >>
    OBVIOUS
  <2>1. Len(b) = 0 /\ less = 0
    BY EmptySeq
  <2>2. Len(Drop(b, 0)) = 0 /\ Drop(b, 0) \in Seq(Byte)
    BY <1>2, <1>3, <2>1
  <2>3. Drop(b, 0) = << >>
    BY <2>2, EmptySeq
  <2> HIDE DEF b, less
  <2> QED
    BY <1>7, <2>1, <2>3
<1>a. ~HasError(c) => ~bs.error /\ CopiedSoFar(c, w, taken[w], out, rs)
  BY FailedIsError DEF HasError, Good
<1>9. p.stream[w] = new /\ p.shutdown = c.shutdown
  <2>1. p = WithStream(c, w, new)
    OBVIOUS
  <2> HIDE DEF p
  <2> QED
    BY <1>1, <1>6, <2>1, NewStream
<1>10. ~HasError(c) => CopiedSoFar(p, w, taken[w], out \o part, rs)
  <2> SUFFICES ASSUME ~HasError(c) PROVE CopiedSoFar(p, w, taken[w], out \o part, rs)
    OBVIOUS
  <2>1. /\ bs.capacity = BufferSize /\ Len(b) <= BufferSize
        /\ bs.bytes_pushed = taken[w] /\ bs.bytes_popped = Len(out)
        /\ out \o b = Take(Input[w], taken[w])
        /\ c.shutdown[w] => bs.is_closed /\ b = << >> /\ taken[w] = Len(Input[w])
        /\ bs.is_closed => taken[w] = Len(Input[w])
        /\ ~bs.error
    BY <1>a DEF CopiedSoFar, IsFinished
  <2>2. less = n
    BY <2>1
  <2>3. Drop(b, n) \in Seq(Byte) /\ Len(Drop(b, n)) = Len(b) - n /\ part \o Drop(b, n) = b
    BY <1>2, <1>3
  <2>4. (out \o part) \o Drop(b, n) = Take(Input[w], taken[w])
    <3> DEFINE rest == Drop(b, n)
    <3>1. \A x, y, z \in Seq(Byte) : (x \o y) \o z = x \o (y \o z)
      BY Associates, SMTT(60)
    <3> HIDE DEF part, out, b
    <3>2. rest \in Seq(Byte) /\ part \o rest = b
      BY <2>3
    <3> HIDE DEF rest
    <3>3. out \in Seq(Byte) /\ part \in Seq(Byte)
      BY <1>2, <1>4
    <3>4. (out \o part) \o rest = out \o b
      BY <3>1, <3>2, <3>3
    <3> QED
      BY <2>1, <3>4 DEF rest
  <2>5. b = << >> => n = 0
    BY <1>2, EmptySeq
  <2> HIDE DEF p, bs, b, less, part, out
  <2>6. /\ new.capacity = BufferSize /\ Len(new.buffer) <= BufferSize
        /\ new.bytes_pushed = taken[w] /\ new.bytes_popped = Len(out \o part)
    BY <1>2, <1>4, <1>7, <2>1, <2>2, <2>3, BufferSizeAssumption
  <2>7. /\ (out \o part) \o new.buffer = Take(Input[w], taken[w])
        /\ c.shutdown[w] => IsFinished(new) /\ taken[w] = Len(Input[w])
        /\ new.is_closed => taken[w] = Len(Input[w])
    BY <1>7, <1>8, <2>1, <2>2, <2>4, <2>5 DEF IsFinished
  <2> QED
    BY <1>9, <2>6, <2>7 DEF CopiedSoFar
<1>11. Typed(c, rs, taken, gv2)
  BY <1>1, <1>5 DEF Typed
<1>12. /\ p \in Copies /\ Good(p, rs, taken, gv2) /\ Later(c, p)
       /\ p.eof = c.eof /\ p.closed = c.closed
  <2>1. p = WithStream(c, w, new)
    OBVIOUS
  <2>2. new.is_closed = c.stream[w].is_closed /\ new.error = c.stream[w].error
    BY <1>7
  <2>3. ~HasError(c) => CopiedSoFar(p, w, taken[w], gv2[w], rs)
    BY <1>5, <1>10
  <2> HIDE DEF p, gv2
  <2> QED
    <3>1. \A v \in Ways : v # w => taken[v] = taken[v] /\ gv2[v] = given[v]
      BY <1>5
    <3>2. new \in ByteStreams(Byte)
      BY <1>6
    <3> QED
      BY <1>11, <2>1, <2>2, <2>3, <3>1, <3>2, MovedIsGood
<1>13. next = IF IsFinished(p.stream[w])
              THEN [p EXCEPT !.shutdown[w] = TRUE, !.closed = @ \cup ends, !.eof = @ \cup ends]
              ELSE p
  BY Zenon DEF Drain, WithStream, p, new, ends, bs
<1> HIDE DEF p, gv2
<1> SUFFICES /\ Good(next, rs, taken, gv2) /\ Later(c, next)
             /\ next.stream[w] = new
             /\ IsFinished(next.stream[w]) => next.shutdown[w]
  BY <1>2, <1>4, <1>8, Zenon DEF gv2, part, b, bs, out
<1>14. CASE ~IsFinished(new)
  BY <1>9, <1>12, <1>13, <1>14
<1>15. CASE IsFinished(new)
  <2> DEFINE shut == [p.shutdown EXCEPT ![w] = TRUE]
             closed == p.closed \cup ends
             eof == p.eof \cup ends
  <2>1. next = [p EXCEPT !.shutdown = shut, !.closed = closed, !.eof = eof]
    BY <1>9, <1>13, <1>15
  <2>2. /\ p.shutdown \in [Ways -> BOOLEAN] /\ p.closed \in SUBSET {"stdout"}
        /\ p.eof \in SUBSET Fds
    BY <1>12 DEF Copies
  <2>3. /\ shut \in [Ways -> BOOLEAN] /\ shut[w] = TRUE
        /\ \A v \in Ways : v # w => shut[v] = p.shutdown[v]
        /\ closed \in SUBSET {"stdout"} /\ eof \in SUBSET Fds
    BY <2>2 DEF Fds
  <2> HIDE DEF shut, closed, eof
  <2>4. /\ next \in Copies /\ next.stream = p.stream /\ next.shutdown = shut
        /\ next.closed = closed /\ next.eof = eof
    BY <1>12, <2>1, <2>3 DEF Copies
  <2>5. DeadAreClosed(next)
    <3> SUFFICES ASSUME NEW x \in RuleSet, Loop!Dead(x, next) PROVE next.stream[x[1]].is_closed
      BY DEF DeadAreClosed
    <3>1. CASE Loop!Dead(x, p)
      BY <1>12, <2>4, <3>1 DEF DeadAreClosed, Good
    <3>2. CASE ~Loop!Dead(x, p)
      <4>1. Fd(x) \in ends
        BY <1>12, <2>4, <3>2, DeadFacts DEF closed, eof
      <4>2. w = "inbound" /\ Fd(x) = "stdout"
        BY <4>1
      <4>3. x[1] = w
        BY <4>2, DeadFacts, <1>1
      <4> QED
        BY <1>9, <1>15, <2>4, <4>3 DEF IsFinished
    <3> QED
      BY <3>1, <3>2
  <2>6. GoneAreClosed(next, rs)
    BY <1>12, <2>4 DEF GoneAreClosed, Good
  <2>7. Typed(next, rs, taken, gv2)
    BY <1>12, <2>4 DEF Good, Typed
  <2>8. Failed(p) => Failed(next)
    BY <2>4 DEF Failed
  <2>9. ~HasError(p) => ~HasError(next)
    BY <2>4 DEF HasError
  <2>10. ASSUME ~HasError(p), NEW v \in Ways, CopiedSoFar(p, v, taken[v], gv2[v], rs)
         PROVE  CopiedSoFar(next, v, taken[v], gv2[v], rs)
    <3>1. v = w => IsFinished(p.stream[v]) /\ taken[v] = Len(Input[v])
      BY <1>9, <1>15, <2>10 DEF CopiedSoFar, IsFinished
    <3>2. v # w => next.shutdown[v] = p.shutdown[v]
      BY <2>3, <2>4
    <3> QED
      BY <2>4, <2>10, <3>1, <3>2 DEF CopiedSoFar
  <2>11. Good(next, rs, taken, gv2)
    BY <1>12, <2>5, <2>6, <2>7, <2>8, <2>9, <2>10 DEF Good
  <2>12. Later(c, next)
    BY <1>12, <2>3, <2>4 DEF Later
  <2> QED
    BY <1>9, <2>3, <2>4, <2>11, <2>12
<1> QED
  BY <1>14, <1>15

-----------------------------------------------------------------------------
(* The invariant is inductive *)

\* What a step does to each way: it reads on, not from a way that was closed
\* before, and writes on.
Moves ==
  \A w \in Ways :
    /\ \E more \in Seq(Byte) : Take(Input[w], taken'[w]) = Take(Input[w], taken[w]) \o more
    /\ copy.stream[w].is_closed => taken'[w] = taken[w]
    /\ \E more \in Seq(Byte) : given'[w] = given[w] \o more

\* A way that nothing is read from, and one that nothing is written to.
LEMMA NothingMoves ==
  ASSUME Good(copy, rules, taken, given), NEW w \in Ways
  PROVE  /\ taken'[w] = taken[w] =>
              \E more \in Seq(Byte) :
                Take(Input[w], taken'[w]) = Take(Input[w], taken[w]) \o more
         /\ given'[w] = given[w] => \E more \in Seq(Byte) : given'[w] = given[w] \o more
<1> DEFINE in == Input[w]
           n == taken[w]
           out == given[w]
           t == Take(in, n)
<1>1. /\ in \in Seq(Byte) /\ n \in 0 .. Len(in) /\ out \in Seq(Byte)
  BY InputAssumption, LenProperties DEF Good, Typed
<1> HIDE DEF in, n, out
<1>2. t \in Seq(Byte)
  BY <1>1, Cut
<1> HIDE DEF t
<1>3. << >> \in Seq(Byte) /\ t \o << >> = t /\ out \o << >> = out
  BY <1>1, <1>2, EmptySeq, ConcatEmptySeq
<1> QED
  BY <1>3 DEF t, in, n, out

LEMMA InitIInv == Init => IInv
<1> SUFFICES ASSUME Init PROVE IInv
  OBVIOUS
<1> DEFINE new == NewByteStream(BufferSize)
<1>1. new \in ByteStreams(Byte) /\ new.capacity = BufferSize /\ new.error = FALSE
      /\ new.buffer = << >> /\ new.bytes_pushed = 0 /\ new.bytes_popped = 0
      /\ new.is_closed = FALSE
  BY BufferSizeAssumption, EmptySeq DEF NewByteStream, ByteStreams
<1> HIDE DEF new
<1>2. /\ copy \in Copies /\ \A w \in Ways : copy.stream[w] = new /\ copy.shutdown[w] = FALSE
      /\ copy.eof = {} /\ copy.closed = {}
  BY <1>1, Zenon DEF Init, new, Copies
<1>3. /\ taken \in [Ways -> Nat] /\ given \in [Ways -> Seq(Byte)]
      /\ \A w \in Ways : taken[w] = 0 /\ given[w] = << >>
  BY EmptySeq DEF Init
<1>4. rules = Rules /\ status = "running"
  BY DEF Init
<1>5. /\ rules \in Seq(RuleSet) /\ Len(rules) = 4
      /\ rules[1] = << "outbound", "fill" >> /\ rules[2] = << "outbound", "drain" >>
      /\ rules[3] = << "inbound", "fill" >> /\ rules[4] = << "inbound", "drain" >>
  BY <1>4 DEF Rules, RuleSet, Ways
<1>6. InOrder(rules)
  <2> SUFFICES ASSUME NEW i \in 1 .. 4, NEW j \in 1 .. 4, i < j, rules[i][1] = rules[j][1]
               PROVE  Fills(rules[i]) /\ ~Fills(rules[j])
    BY <1>5 DEF InOrder
  <2>1. i \in {1, 2, 3, 4} /\ j \in {1, 2, 3, 4}
    OBVIOUS
  <2> QED
    BY <1>5, <2>1 DEF Fills
<1>7. \A r \in RuleSet : r \in ToSet(rules)
  <2>1. DOMAIN rules = 1 .. 4 /\ 1 \in 1 .. 4 /\ 2 \in 1 .. 4 /\ 3 \in 1 .. 4 /\ 4 \in 1 .. 4
    BY <1>5, LenProperties
  <2>2. /\ rules[1] \in ToSet(rules) /\ rules[2] \in ToSet(rules)
        /\ rules[3] \in ToSet(rules) /\ rules[4] \in ToSet(rules)
    BY <2>1 DEF ToSet
  <2>3. \A r \in RuleSet : r = rules[1] \/ r = rules[2] \/ r = rules[3] \/ r = rules[4]
    BY <1>5 DEF RuleSet, Ways
  <2> QED
    BY <2>2, <2>3
<1>8. DeadAreClosed(copy) /\ GoneAreClosed(copy, rules)
  BY <1>2, <1>7, DeadFacts DEF DeadAreClosed, GoneAreClosed
<1>9. ~HasError(copy)
  BY <1>1, <1>2 DEF HasError
<1>10. Typed(copy, rules, taken, given)
  BY <1>2, <1>3, <1>5, InputAssumption, LenProperties DEF Typed
<1>11. ASSUME NEW w \in Ways PROVE CopiedSoFar(copy, w, taken[w], given[w], rules)
  <2>1. Take(Input[w], 0) = << >>
    <3> DEFINE in == Input[w]
    <3>1. in \in Seq(Byte) /\ Len(in) \in Nat
      BY InputAssumption, LenProperties
    <3> HIDE DEF in
    <3>2. 0 \in 0 .. Len(in)
      BY <3>1
    <3>3. Take(in, 0) \in Seq(Byte) /\ Len(Take(in, 0)) = 0
      BY <3>1, <3>2, Cut
    <3> QED
      BY <3>3, EmptySeq DEF in
  <2>2. << >> \in Seq(Byte) /\ Len(<< >>) = 0 /\ << >> \o << >> = << >>
    BY EmptySeq, ConcatEmptySeq
  <2> QED
    BY <1>1, <1>2, <1>3, <2>1, <2>2, BufferSizeAssumption DEF CopiedSoFar
<1>12. Good(copy, rules, taken, given)
  BY <1>6, <1>8, <1>9, <1>10, <1>11 DEF Good
<1> QED
  BY <1>4, <1>12 DEF IInv, ExitMeansCopied

\* When no rule that is left wants anything, each way was copied to its end.
LEMMA NothingWanted ==
  ASSUME NEW c, NEW rs, NEW tk, NEW gv, Good(c, rs, tk, gv),
         \A r \in ToSet(rs) : ~Wants(r, c), ~HasError(c), NEW w \in Ways
  PROVE  IF c.shutdown[w] THEN gv[w] = Input[w] ELSE << w, "drain" >> \notin ToSet(rs)
<1> DEFINE bs == c.stream[w]
           n == tk[w]
           out == gv[w]
           in == Input[w]
<1>1. /\ bs \in ByteStreams(Byte) /\ n \in Nat /\ out \in Seq(Byte) /\ in \in Seq(Byte)
      /\ n <= Len(in) /\ Len(out) \in Nat /\ Len(in) \in Nat
  BY InputAssumption, LenProperties DEF Good, Typed, Copies
<1>2. /\ bs.capacity = BufferSize
      /\ bs.bytes_pushed = n /\ bs.bytes_popped = Len(out)
      /\ out \o bs.buffer = Take(in, n)
      /\ c.shutdown[w] => IsFinished(bs) /\ n = Len(in)
  BY FailedIsError DEF Good, CopiedSoFar
<1>3. bs.buffer = << >> => out = Take(in, n)
  <2> HIDE DEF bs, out, in, n
  <2> QED
    BY <1>1, <1>2, ConcatEmptySeq
<1>4. CASE c.shutdown[w]
  <2>1. out = Take(in, n) /\ n = Len(in)
    BY <1>2, <1>3, <1>4 DEF IsFinished
  <2>2. Take(in, Len(in)) = in
    <3> HIDE DEF in
    <3> QED
      BY <1>1, SubSeqFull DEF Take
  <2> QED
    BY <1>4, <2>1, <2>2
<1>5. CASE ~c.shutdown[w]
  <2> SUFFICES ASSUME << w, "drain" >> \in ToSet(rs) PROVE FALSE
    BY <1>5
  <2>1. ~Fills(<< w, "drain" >>) /\ Fills(<< w, "fill" >>) /\ << w, "fill" >> \in RuleSet
    BY RuleFacts
  <2>2. bs.buffer = << >> /\ ~IsFinished(bs)
    BY <1>5, <2>1 DEF Wants, WantsDrain
  <2>3. ~bs.is_closed
    BY <2>2 DEF IsFinished
  <2>4. << w, "fill" >> \in ToSet(rs)
    BY <2>1, <2>3 DEF GoneAreClosed, Good
  <2>5. ~(AvailableCapacity(bs) > 0)
    BY <2>1, <2>3, <2>4 DEF Wants, WantsFill
  <2>6. Len(out) = n
    <3> HIDE DEF out, in, n, bs
    <3>1. n \in 0 .. Len(in)
      BY <1>1
    <3>2. Len(Take(in, n)) = n
      BY <1>1, <3>1, Cut
    <3> QED
      BY <1>3, <2>2, <3>2
  <2>7. AvailableCapacity(bs) = BufferSize
    <3> HIDE DEF out, in, n, bs
    <3> QED
      BY <1>1, <1>2, <2>6, BufferSizeAssumption DEF AvailableCapacity
  <2> QED
    BY <2>5, <2>7, BufferSizeAssumption
<1> QED
  BY <1>4, <1>5

LEMMA ExitIsGood ==
  ASSUME IInv, Exit
  PROVE  IInv' /\ Later(copy, copy') /\ Moves
<1>1. /\ Good(copy, rules, taken, given) /\ Swept.asked = {}
      /\ copy' = Swept.state /\ rules' = Swept.rules /\ status' = "exited"
      /\ taken' = taken /\ given' = given
  BY DEF IInv, Exit
<1>2. /\ Swept.state = copy /\ Good(copy, Swept.rules, taken, given)
      /\ Swept.asked = { r \in ToSet(Swept.rules) : Wants(r, copy) }
  <2> DEFINE s == Swept
  <2>1. s = Loop!Sweep(copy, rules) /\ Good(copy, rules, taken, given)
    BY <1>1 DEF Swept
  <2> HIDE DEF s
  <2>2. /\ s.state = copy /\ Good(copy, s.rules, taken, given)
        /\ s.asked = { r \in ToSet(s.rules) : Wants(r, copy) }
    BY <2>1, SweepIsGood
  <2> QED
    BY <2>2 DEF s
<1>3. Good(copy', rules', taken', given')
  BY <1>1, <1>2
<1>4. ExitMeansCopied'
  <2> SUFFICES ASSUME ~HasError(copy'), NEW w \in Ways
               PROVE  IF copy'.shutdown[w] THEN given'[w] = Input[w]
                                           ELSE << w, "drain" >> \notin ToSet(rules')
    BY DEF ExitMeansCopied
  <2>1. \A r \in ToSet(rules') : ~Wants(r, copy')
    BY <1>1, <1>2
  <2> QED
    BY <1>3, <2>1, NothingWanted
<1>5. Later(copy, copy')
  BY <1>1, <1>2 DEF Later
<1>6. Moves
  BY <1>1, NothingMoves DEF Moves
<1> QED
  BY <1>1, <1>3, <1>4, <1>5, <1>6 DEF IInv

\* A callback that neither reads nor writes has lost its interest.
LEMMA FillIsGoodStep ==
  ASSUME NEW a, Good(a.state, a.rules, taken, given), a.rules \in Seq(RuleSet),
         NEW r \in RuleSet, Fills(r),
         \A x, y \in a.served : x = y, r \in a.served,
         ~copy.stream[r[1]].is_closed,
         \/ Failed(a.state)
         \/ /\ ~a.state.stream[r[1]].is_closed
            /\ AvailableCapacity(a.state.stream[r[1]]) > 0,
         Good(copy, rules, taken, given),
         ServeFill(a, r[1])
  PROVE  /\ Good(copy', rules', taken', given') /\ Later(a.state, copy') /\ Moves
         /\ status' = "running"
<1> DEFINE w == r[1]
           c == a.state
<1>1. w \in Ways
  BY RuleFacts
<1>2. PICK n \in 0 .. Left(w) :
        LET data == SubSeq(Input[w], taken[w] + 1, taken[w] + n)
            room == AvailableCapacity(c.stream[w])
        IN  /\ n <= room \/ room = 0
            /\ n = 0 => Left(w) = 0
            /\ Continue(a, Fill(c, w, data), TRUE)
            /\ taken' = [taken EXCEPT ![w] = @ + n]
            /\ UNCHANGED given
  BY Zenon DEF ServeFill
<1> DEFINE data == SubSeq(Input[w], taken[w] + 1, taken[w] + n)
           next == Fill(c, w, data)
<1>3. /\ n <= AvailableCapacity(c.stream[w]) \/ AvailableCapacity(c.stream[w]) = 0
      /\ n = 0 => Left(w) = 0
      /\ copy' = next /\ rules' = a.rules /\ status' = "running"
      /\ taken' = [taken EXCEPT ![w] = @ + n] /\ given' = given
  BY <1>2, Zenon DEF Continue, Loop!BusyWait
<1>5. \/ Failed(c)
      \/ ~c.stream[w].is_closed /\ AvailableCapacity(c.stream[w]) > 0
  BY Zenon
<1>6. Good(c, a.rules, taken, given)
  OBVIOUS
<1> HIDE DEF c, w, data, next
<1>7. /\ Good(next, a.rules, [taken EXCEPT ![w] = @ + n], given) /\ Later(c, next)
      /\ data \in Seq(Byte)
      /\ Take(Input[w], taken[w] + n) = Take(Input[w], taken[w]) \o data
  <2> DEFINE rs == a.rules
  <2>1. Good(c, rs, taken, given)
    BY <1>6
  <2>2. /\ n <= AvailableCapacity(c.stream[w]) \/ AvailableCapacity(c.stream[w]) = 0
        /\ n = 0 => Left(w) = 0
        /\ n \in 0 .. Left(w)
    BY <1>3 DEF w
  <2> HIDE DEF rs
  <2>3. Filled(c, rs, w, n)
    BY <1>1, <1>5, <2>1, <2>2, FillIsGood
  <2> QED
    BY <2>3, Zenon DEF Filled, rs, data, next
<1>8. /\ taken'[w] = taken[w] + n
      /\ \A v \in Ways : v # w => taken'[v] = taken[v]
  BY <1>1, <1>3 DEF Good, Typed
<1>9. Moves
  <2> SUFFICES ASSUME NEW v \in Ways
               PROVE  /\ \E more \in Seq(Byte) :
                           Take(Input[v], taken'[v]) = Take(Input[v], taken[v]) \o more
                      /\ copy.stream[v].is_closed => taken'[v] = taken[v]
                      /\ \E more \in Seq(Byte) : given'[v] = given[v] \o more
    BY DEF Moves
  <2>1. \E more \in Seq(Byte) : given'[v] = given[v] \o more
    BY <1>3, NothingMoves
  <2>2. CASE v = w
    BY <1>7, <1>8, <2>1, <2>2 DEF w
  <2>3. CASE v # w
    BY <1>8, <2>1, <2>3, NothingMoves
  <2> QED
    BY <2>2, <2>3
<1> QED
  BY <1>3, <1>7, <1>9 DEF c

LEMMA DrainIsGoodStep ==
  ASSUME NEW a, Good(a.state, a.rules, taken, given), a.rules \in Seq(RuleSet),
         NEW r \in RuleSet, ~Fills(r), r \in ToSet(a.rules),
         \A x, y \in a.served : x = y, r \in a.served,
         Good(copy, rules, taken, given),
         ServeDrain(a, r[1])
  PROVE  /\ Good(copy', rules', taken', given') /\ Later(a.state, copy') /\ Moves
         /\ status' = "running"
<1> DEFINE w == r[1]
           c == a.state
           b == c.stream[w].buffer
<1>1. w \in Ways /\ r = << w, "drain" >> /\ << w, "drain" >> \in ToSet(a.rules)
  BY RuleFacts
<1>2. PICK n \in 0 .. Len(b) :
        LET next == Drain(c, w, n) IN
        /\ n = 0 => b = << >>
        /\ Continue(a, next, n > 0 \/ (w = "outbound" /\ IsFinished(next.stream[w])))
        /\ given' = [given EXCEPT ![w] = @ \o Take(b, n)]
        /\ UNCHANGED taken
  BY Zenon DEF ServeDrain
<1> DEFINE next == Drain(c, w, n)
           part == Take(b, n)
           touched == n > 0 \/ (w = "outbound" /\ IsFinished(next.stream[w]))
<1>3. /\ n = 0 => b = << >>
      /\ copy' = next /\ rules' = a.rules
      /\ status' = IF \E x \in a.served : ~touched /\ ~FdIsClosed(x, next) /\ Wants(x, next)
                   THEN "threw" ELSE "running"
      /\ given' = [given EXCEPT ![w] = @ \o part] /\ taken' = taken
  BY <1>2, Zenon DEF Continue, Loop!BusyWait
<1>4. Good(c, a.rules, taken, given) /\ next = Drain(c, w, n) /\ n \in 0 .. Len(c.stream[w].buffer)
  OBVIOUS
<1>5. n = 0 => c.stream[w].buffer = << >>
  BY <1>3
<1> HIDE DEF c, w, next
<1>6. /\ Good(next, a.rules, taken, [given EXCEPT ![w] = @ \o part])
      /\ Later(c, next)
      /\ given[w] \in Seq(Byte) /\ part \in Seq(Byte)
      /\ n = 0 => next.stream[w].buffer = << >>
      /\ IsFinished(next.stream[w]) => next.shutdown[w]
  <2> DEFINE rs == a.rules
  <2>1. Good(c, rs, taken, given) /\ << w, "drain" >> \in ToSet(rs)
    BY <1>1, <1>4
  <2> HIDE DEF rs
  <2> QED
    BY <1>1, <1>4, <1>5, <2>1, DrainIsGood DEF rs
<1>7. status' = "running"
  <2> SUFFICES ASSUME ~touched PROVE ~Wants(r, next)
    BY <1>3
  <2>1. n = 0
    BY <1>4
  <2>2. ~WantsDrain(next, w)
    BY <1>6, <2>1 DEF WantsDrain
  <2> QED
    BY <2>2 DEF Wants, w
<1>8. /\ given'[w] = given[w] \o part
      /\ \A v \in Ways : v # w => given'[v] = given[v]
  BY <1>1, <1>3 DEF Good, Typed
<1>9. Moves
  <2> SUFFICES ASSUME NEW v \in Ways
               PROVE  /\ \E more \in Seq(Byte) :
                           Take(Input[v], taken'[v]) = Take(Input[v], taken[v]) \o more
                      /\ copy.stream[v].is_closed => taken'[v] = taken[v]
                      /\ \E more \in Seq(Byte) : given'[v] = given[v] \o more
    BY DEF Moves
  <2>1. /\ taken'[v] = taken[v]
        /\ \E more \in Seq(Byte) :
             Take(Input[v], taken'[v]) = Take(Input[v], taken[v]) \o more
    BY <1>3, NothingMoves
  <2>2. CASE v = w
    BY <1>6, <1>8, <2>1, <2>2
  <2>3. CASE v # w
    BY <1>8, <2>1, <2>3, NothingMoves
  <2> QED
    BY <2>2, <2>3
<1> QED
  BY <1>3, <1>6, <1>7, <1>9 DEF c

LEMMA WaitIsGood ==
  ASSUME IInv, NEW ready, ready \in SUBSET Swept.asked, NEW hung, NEW broken,
         Wait(Swept, ready, hung, broken)
  PROVE  IInv' /\ Later(copy, copy') /\ Moves
<1> DEFINE s == Swept
           a == Loop!Walk(s, ready, On(hung, s), On(broken, s))
<1>1. Good(copy, rules, taken, given)
  BY DEF IInv
<1>2. /\ s.state = copy /\ Good(copy, s.rules, taken, given)
      /\ s.asked = { r \in ToSet(s.rules) : Wants(r, copy) }
  <2>1. s = Loop!Sweep(copy, rules)
    BY DEF Swept
  <2> HIDE DEF s
  <2> QED
    BY <1>1, <2>1, SweepIsGood
<1>3. /\ MayHangUp(s, ready, hung)
      /\ \/ /\ a.served = {}
            /\ Continue(a, a.state, FALSE)
            /\ UNCHANGED << taken, given >>
         \/ \E r \in a.served : IF Fills(r) THEN ServeFill(a, r[1]) ELSE ServeDrain(a, r[1])
  BY Zenon DEF Wait
<1>4. ready \subseteq s.asked
  OBVIOUS
<1> HIDE DEF s
<1>5. Walking(a, Len(s.rules), s.state, s, ready, On(hung, s))
  <2>1. s.state \in Copies /\ s.rules \in Seq(RuleSet) /\ InOrder(s.rules)
    BY <1>2 DEF Good, Typed
  <2> DEFINE hup == On(hung, s)
             failed == On(broken, s)
  <2> HIDE DEF hup, failed
  <2>2. Walking(Loop!Walk(s, ready, hup, failed), Len(s.rules), s.state, s, ready, hup)
    BY <2>1, WalkIsWalking
  <2> QED
    BY <2>2 DEF hup, failed
<1> HIDE DEF a
<1>6. /\ Good(a.state, a.rules, taken, given)
      /\ \A w \in Ways : s.state.stream[w].is_closed => a.state.stream[w].is_closed
  BY <1>2, <1>3, <1>5, WalkIsGood
<1>7. /\ a.state.shutdown = copy.shutdown
      /\ a.served \subseteq ready \cap ToSet(a.rules)
      /\ \A x, y \in a.served : x = y
      /\ a.rules \in Seq(RuleSet)
  BY <1>2, <1>5 DEF Walking, Since, Looking
<1>8. Later(copy, a.state)
  BY <1>2, <1>6, <1>7 DEF Later
<1>9. /\ Good(copy', rules', taken', given') /\ Later(a.state, copy') /\ Moves
      /\ status' = "running"
  <2>1. CASE /\ a.served = {}
             /\ Continue(a, a.state, FALSE)
             /\ UNCHANGED << taken, given >>
    <3>1. /\ copy' = a.state /\ rules' = a.rules /\ taken' = taken /\ given' = given
          /\ status' = "running"
      BY <2>1 DEF Continue
    <3>2. Moves
      BY <1>1, <1>2, <1>8, <3>1, NothingMoves DEF Moves
    <3>3. Later(a.state, copy')
      BY <3>1 DEF Later
    <3> QED
      BY <1>6, <3>1, <3>2, <3>3
  <2>2. CASE \E r \in a.served : IF Fills(r) THEN ServeFill(a, r[1]) ELSE ServeDrain(a, r[1])
    <3>1. PICK r \in a.served : IF Fills(r) THEN ServeFill(a, r[1]) ELSE ServeDrain(a, r[1])
      BY <2>2
    <3>2. r \in RuleSet /\ r \in ToSet(a.rules)
      BY <1>7, <3>1, ElementOfSeq, LenProperties, SeqOfElements
    <3>3. CASE Fills(r)
      <4>1. /\ ~s.state.stream[r[1]].is_closed
            /\ \/ Failed(a.state)
               \/ /\ ~a.state.stream[r[1]].is_closed
                  /\ AvailableCapacity(a.state.stream[r[1]]) > 0
        BY <1>2, <1>4, <1>5, <3>1, <3>3, ServedIsOpen
      <4>2. ServeFill(a, r[1])
        BY <3>1, <3>3
      <4>3. ~copy.stream[r[1]].is_closed
        BY <1>2, <4>1
      <4> QED
        BY <1>1, <1>6, <1>7, <3>1, <3>2, <3>3, <4>1, <4>2, <4>3, FillIsGoodStep
    <3>4. CASE ~Fills(r)
      <4>1. ServeDrain(a, r[1])
        BY <3>1, <3>4
      <4> QED
        BY <1>1, <1>6, <1>7, <3>1, <3>2, <3>4, <4>1, DrainIsGoodStep
    <3> QED
      BY <3>3, <3>4
  <2> QED
    BY <1>3, <2>1, <2>2
<1>10. Later(copy, copy')
  BY <1>8, <1>9 DEF Later
<1> QED
  BY <1>9, <1>10 DEF IInv, ExitMeansCopied

LEMMA NextIInv ==
  IInv /\ Next => IInv' /\ Later(copy, copy') /\ Moves
<1> SUFFICES ASSUME IInv, Next PROVE IInv' /\ Later(copy, copy') /\ Moves
  OBVIOUS
<1>1. CASE Exit
  BY <1>1, ExitIsGood
<1>2. CASE Waits(SUBSET Fds)
  <2>1. PICK ready \in SUBSET Swept.asked, hung \in SUBSET Fds, broken \in SUBSET Fds :
          Wait(Swept, ready, hung, broken)
    BY <1>2 DEF Waits
  <2> QED
    BY <2>1, WaitIsGood
<1> QED
  BY <1>1, <1>2 DEF Next

LEMMA StutterIInv == IInv /\ UNCHANGED vars => IInv'
BY DEF IInv, vars, ExitMeansCopied

\* No order of readiness, hang-ups and errors makes wait_next_event throw for a
\* busy wait: a callback that neither read nor wrote has lost its interest.
THEOREM CopyNeverThrows == Spec => []NeverThrows
<1>1. IInv => NeverThrows
  BY DEF IInv, NeverThrows
<1>2. IInv /\ [Next]_vars => IInv'
  BY NextIInv, StutterIInv
<1> QED
  BY InitIInv, <1>1, <1>2, PTL DEF Spec

\* When the loop exits without an error, every way was copied to the end of its
\* input and its end was passed on, but one whose destination hung up.
THEOREM ExitIsCopied == Spec => []ExitMeansCopied
<1>1. IInv => ExitMeansCopied
  BY DEF IInv
<1>2. IInv /\ [Next]_vars => IInv'
  BY NextIInv, StutterIInv
<1> QED
  BY InitIInv, <1>1, <1>2, PTL DEF Spec

\* What one way of the copy promises, as the pipe's step.
LEMMA WayIsPipe ==
  ASSUME IInv', Moves, Later(copy, copy'), ~HasError(copy'), NEW w \in Ways
  PROVE  LET sent == Take(Input[w], taken[w])
             more == Take(Input[w], taken'[w])
         IN  /\ given[w] \in Seq(Byte) => IsPrefix(given[w], given'[w])
             /\ sent \in Seq(Byte) => IsPrefix(sent, more)
             /\ IsPrefix(given'[w], more)
             /\ Len(more) - Len(given'[w]) <= BufferSize
             /\ copy.stream[w].is_closed => copy'.stream[w].is_closed /\ more = sent
             /\ copy.shutdown[w] => copy'.shutdown[w]
             /\ copy'.shutdown[w] => copy'.stream[w].is_closed /\ given'[w] = more
<1> DEFINE sent == Take(Input[w], taken[w])
           more == Take(Input[w], taken'[w])
           out == given'[w]
           bs == copy'.stream[w]
           b == bs.buffer
<1>1. CopiedSoFar(copy', w, taken'[w], out, rules') /\ Good(copy', rules', taken', given')
  BY FailedIsError DEF IInv, Good
<1>2. /\ out \in Seq(Byte) /\ b \in Seq(Byte) /\ Len(out) \in Nat /\ Len(b) \in Nat
      /\ Len(b) <= BufferSize /\ out \o b = more
      /\ copy'.shutdown[w] => bs.is_closed /\ b = << >>
  BY <1>1, LenProperties DEF CopiedSoFar, IsFinished, Good, Typed, Copies, ByteStreams
<1>3. /\ \E x \in Seq(Byte) : more = sent \o x
      /\ copy.stream[w].is_closed => taken'[w] = taken[w]
      /\ \E x \in Seq(Byte) : out = given[w] \o x
  BY DEF Moves
<1>4. /\ copy.stream[w].is_closed => bs.is_closed /\ more = sent
      /\ copy.shutdown[w] => copy'.shutdown[w]
  BY <1>3 DEF Later
<1> HIDE DEF sent, more, out, b, bs
<1>5. given[w] \in Seq(Byte) => IsPrefix(given[w], out)
  BY <1>3, PrefixOfConcat
<1>6. sent \in Seq(Byte) => IsPrefix(sent, more)
  BY <1>3, PrefixOfConcat
<1>7. IsPrefix(out, more)
  BY <1>2, PrefixOfConcat
<1>8. Len(more) - Len(out) <= BufferSize
  <2>1. Len(out \o b) = Len(out) + Len(b)
    BY <1>2, ConcatProperties
  <2> QED
    BY <1>2, <2>1, BufferSizeAssumption
<1>9. copy'.shutdown[w] => bs.is_closed /\ out = more
  BY <1>2, ConcatEmptySeq
<1> QED
  BY <1>4, <1>5, <1>6, <1>7, <1>8, <1>9, Zenon DEF sent, more, out, bs

LEMMA SentIsSeq ==
  ASSUME IInv, NEW w \in Ways
  PROVE  Take(Input[w], taken[w]) \in Seq(Byte) /\ given[w] \in Seq(Byte)
<1> DEFINE in == Input[w]
           n == taken[w]
<1>1. /\ in \in Seq(Byte) /\ n \in 0 .. Len(in) /\ given[w] \in Seq(Byte)
  BY InputAssumption, LenProperties DEF IInv, Good, Typed
<1> HIDE DEF in, n
<1>2. Take(in, n) \in Seq(Byte)
  BY <1>1, Cut
<1> QED
  BY <1>1, <1>2 DEF in, n

\* Until something fails each way of the copy is a pipe: what its destination
\* was given is a prefix of what was read, at most a buffer behind, and the end
\* is passed on only after the last byte.
THEOREM EachWayIsCopied == Spec => CopiesEachWay
<1>1. IInv /\ IInv' /\ Next => HasError(copy') \/ (Outbound!PipeNext /\ Inbound!PipeNext)
  <2> SUFFICES ASSUME IInv, IInv', Next, ~HasError(copy')
               PROVE  Outbound!PipeNext /\ Inbound!PipeNext
    OBVIOUS
  <2>1. Moves /\ Later(copy, copy')
    BY NextIInv
  <2>2. ASSUME NEW w \in Ways
        PROVE  LET sent == Take(Input[w], taken[w])
                   more == Take(Input[w], taken'[w])
               IN  /\ IsPrefix(given[w], given'[w])
                   /\ IsPrefix(sent, more)
                   /\ IsPrefix(given'[w], more)
                   /\ Len(more) - Len(given'[w]) <= BufferSize
                   /\ copy.stream[w].is_closed => copy'.stream[w].is_closed /\ more = sent
                   /\ copy.shutdown[w] => copy'.shutdown[w]
                   /\ copy'.shutdown[w] => copy'.stream[w].is_closed /\ given'[w] = more
    <3> DEFINE sent == Take(Input[w], taken[w])
    <3>1. sent \in Seq(Byte) /\ given[w] \in Seq(Byte)
      BY SentIsSeq
    <3> QED
      BY <2>1, <3>1, WayIsPipe
  <2>3. /\ "outbound" \in Ways /\ "inbound" \in Ways
        /\ \A s, t : Outbound!IsPrefix(s, t) <=> IsPrefix(s, t)
        /\ \A s, t : Inbound!IsPrefix(s, t) <=> IsPrefix(s, t)
    BY DEF Ways, IsPrefix, Outbound!IsPrefix, Inbound!IsPrefix
  <2>4. Outbound!PipeNext
    BY <2>2, <2>3 DEF Outbound!PipeNext
  <2>5. Inbound!PipeNext
    BY <2>2, <2>3 DEF Inbound!PipeNext
  <2> QED
    BY <2>4, <2>5
<1>2. IInv /\ [Next]_vars => IInv'
  BY NextIInv, StutterIInv
<1>3. IInv /\ IInv' /\ [Next]_vars
        => [HasError(copy') \/ (Outbound!PipeNext /\ Inbound!PipeNext)]_vars
  BY <1>1
<1> QED
  BY InitIInv, <1>2, <1>3, PTL DEF Spec, CopiesEachWay
=============================================================================
