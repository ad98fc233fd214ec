------------------------------ MODULE MCThreads ------------------------------
(***************************************************************************)
(* What the threads of an Eta process share: the process manager with the  *)
(* mailboxes of its actors, and the intern table.  The two do not meet; a  *)
(* behaviour is one of them.                                               *)
(***************************************************************************)
EXTENDS MCActors, InternTable

VARIABLE shared
threadVars == <<vars, tableVars, shared>>

InitThreads ==
  /\ shared \in {"manager", "table"}
  /\ Init /\ InitTable
  /\ shared = "table" => program = CHOOSE p \in Programs : TRUE

ThreadsNext ==
  /\ UNCHANGED shared
  /\ \/ shared = "manager" /\ Next /\ UNCHANGED tableVars
     \/ shared = "table" /\ TableNext /\ UNCHANGED vars

ThreadsSpec == InitThreads /\ [][ThreadsNext]_threadVars /\ Fairness
=============================================================================
