---------------------------- MODULE MCSupervisor ----------------------------
(***************************************************************************)
(* A supervisor of two slots and a spare socket for a restart.             *)
(***************************************************************************)
EXTENDS Supervisor

Nothing == {[s \in Sock |-> {}]}
=============================================================================
