------------------------------- MODULE EventLoop -------------------------------
(***************************************************************************)
(* EventLoop::wait_next_event for rules on file descriptors                *)
(* (src/minnow/util/eventloop.cc), as operators on the program state that  *)
(* the rules' callbacks read and change.  The program that owns the loop   *)
(* gives the rules' functions.  What poll(2) reports is the environment's  *)
(* choice: the rules whose descriptor is ready for what they asked, those  *)
(* whose descriptor is hung up and those whose descriptor has an error.    *)
(* No program of the repository cancels a rule from outside or adds a rule *)
(* without a descriptor.                                                   *)
(***************************************************************************)
EXTENDS Naturals, Sequences

CONSTANTS Reads(_),                 \* Direction::In rather than Out
          AtEof(_, _), Closed(_, _),  \* the rule's descriptor ended, was closed
          Interest(_, _), OnCancel(_, _), OnError(_, _)  \* the rule's functions

Dead(r, state) == (Reads(r) /\ AtEof(r, state)) \/ Closed(r, state)

\* Before the poll: a dead rule is cancelled, any other is asked.
Ask(acc, r) ==
  IF Dead(r, acc.state) THEN [acc EXCEPT !.state = OnCancel(r, acc.state)]
  ELSE [acc EXCEPT !.rules = Append(@, r),
                   !.asked = IF Interest(r, acc.state) THEN @ \cup {r} ELSE @]

\* The loop before the poll after its first i rules.
Asks(state, rules) ==
  LET after[i \in 0 .. Len(rules)] ==
        IF i = 0 THEN [ state |-> state, rules |-> << >>, asked |-> {} ]
        ELSE Ask(after[i - 1], rules[i])
  IN  after
Sweep(state, rules) == Asks(state, rules)[Len(rules)]

\* poll returns only if it has something to report, and of readiness only
\* what was asked for.
PollReturns(swept, ready, hup, failed) ==
  /\ ready \subseteq swept.asked
  /\ ready \cup hup \cup failed # {}

\* Hung up, and not ready for what it asked or never to be written again.
Defunct(r, asked, ready, hup) == r \in hup /\ (r \in asked \ ready \/ ~Reads(r))

\* After the poll: up to the first rule that is served those that failed or are
\* defunct are cancelled.
Look(acc, r, asked, ready, hup, failed) ==
  IF acc.served # {} THEN [acc EXCEPT !.rules = Append(@, r)]
  ELSE IF r \in failed
  THEN [acc EXCEPT !.state = OnCancel(r, OnError(r, acc.state))]
  ELSE IF Defunct(r, asked, ready, hup)
  THEN [acc EXCEPT !.state = OnCancel(r, acc.state)]
  ELSE [acc EXCEPT !.rules = Append(@, r),
                   !.served = IF r \in ready THEN {r} ELSE {}]

\* The loop after the poll after its first i rules.
Looks(swept, ready, hup, failed) ==
  LET after[i \in 0 .. Len(swept.rules)] ==
        IF i = 0 THEN [ state |-> swept.state, rules |-> << >>, served |-> {} ]
        ELSE Look(after[i - 1], swept.rules[i], swept.asked, ready, hup, failed)
  IN  after
Walk(swept, ready, hup, failed) == Looks(swept, ready, hup, failed)[Len(swept.rules)]

\* The callback neither read nor wrote its descriptor and the rule is still
\* interested: the loop throws.
BusyWait(r, after, touched) == ~touched /\ ~Closed(r, after) /\ Interest(r, after)
================================================================================
