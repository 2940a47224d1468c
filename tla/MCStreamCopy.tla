------------------------------ MODULE MCStreamCopy ------------------------------
(***************************************************************************)
(* More bytes each way than the stream between holds.  After a failure     *)
(* bytes may be written again and again: MaxExtra bounds how many.         *)
(***************************************************************************)
EXTENDS StreamCopy

CONSTANTS OutboundBytes, InboundBytes,
          MaxExtra   \* bytes given beyond those there are

MCByte == 1 .. OutboundBytes + InboundBytes
MCInput == [w \in Ways |-> IF w = "outbound" THEN [i \in 1 .. OutboundBytes |-> i]
                           ELSE [i \in 1 .. InboundBytes |-> OutboundBytes + i]]

MCNext ==
  \/ Exit
  \/ /\ Waits(SUBSET Fds)
     /\ \A w \in Ways : Len(given'[w]) <= Len(Input[w]) + MaxExtra

\* The loop is called again and again, and something it asks for gets ready:
\* no hang-up and no error has to come.
MCSpec == Init /\ [][MCNext]_vars /\ WF_vars(Exit \/ Waits({{}}))

\* Unless something fails the copy ends.
EventuallyExits == <>(status = "exited" \/ HasError(copy))
=================================================================================
