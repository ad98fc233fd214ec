----------------------------- MODULE MCVmAlloc -----------------------------
(* A finite instance of VmAlloc.                                            *)
EXTENDS VmAlloc
=============================================================================
