------------------------------ MODULE MCProcess ------------------------------
(***************************************************************************)
(* What an Eta process does with files and with other processes: it loads   *)
(* modules and starts children.  The two share nothing; a behaviour is one  *)
(* of them.                                                                 *)
(***************************************************************************)
EXTENDS MCSession, MCSubprocess

VARIABLE process
processVars == <<session, callVars, process>>

InitProcess ==
  /\ process \in {"session", "children"}
  /\ Init /\ InitCalls
  /\ process # "children" => eta = "default" /\ opt = CHOOSE p \in Options : TRUE

ProcessNext ==
  /\ UNCHANGED process
  /\ \/ process = "session" /\ Next /\ UNCHANGED callVars
     \/ process = "children" /\ CallsNext /\ UNCHANGED session

ProcessSpec == InitProcess /\ [][ProcessNext]_processVars /\ ThreadsRun
=============================================================================
