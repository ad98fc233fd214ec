---------------------------- MODULE ChannelSpec -----------------------------
(***************************************************************************)
(* What a mailbox promises its reader: the messages of the other side, in  *)
(* the order they were sent, none of them twice and none skipped, until    *)
(* the socket is closed.                                                   *)
(***************************************************************************)
EXTENDS Naturals, Sequences

CONSTANT Sock
VARIABLES sent,    \* how many messages the actor has sent on the socket
          got,     \* the numbers of the messages recv! has returned
          closed

vars == <<sent, got, closed>>

Init == /\ sent = [s \in Sock |-> 0]
        /\ got = [s \in Sock |-> <<>>]
        /\ closed = [s \in Sock |-> FALSE]

Put(s) == /\ sent' = [sent EXCEPT ![s] = @ + 1]
          /\ UNCHANGED <<got, closed>>

Give(s) == /\ ~closed[s]
           /\ Len(got[s]) < sent[s]
           /\ got' = [got EXCEPT ![s] = Append(@, Len(@) + 1)]
           /\ UNCHANGED <<sent, closed>>

Close(s) == /\ closed' = [closed EXCEPT ![s] = TRUE]
            /\ UNCHANGED <<sent, got>>

Next == \E s \in Sock : Put(s) \/ Give(s) \/ Close(s)
Spec == Init /\ [][Next]_vars
=============================================================================
