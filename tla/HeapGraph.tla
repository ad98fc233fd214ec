----------------------------- MODULE HeapGraph -----------------------------
(***************************************************************************)
(* Reachability in the object graph of a heap.  The graph is given by an   *)
(* edge function: edge[o] is the set of objects that o refers to.  The     *)
(* reachable set is the least set that holds the roots and is closed under *)
(* the edges, written as an intersection so that it can be reasoned about  *)
(* without recursion.                                                      *)
(***************************************************************************)

\* S contains every successor of its own elements.
ClosedUnder(S, edge) == \A o \in S : edge[o] \subseteq S

\* What can be reached in the graph over DOMAIN edge from the set R: no closed
\* set that holds R leaves it out.
Reachable(R, edge) ==
  {x \in DOMAIN edge :
     \A S \in SUBSET DOMAIN edge :
        x \notin S => ~(R \subseteq S /\ ClosedUnder(S, edge))}
=============================================================================
