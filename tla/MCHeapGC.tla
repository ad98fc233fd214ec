------------------------------ MODULE MCHeapGC ------------------------------
(* Finite instances of HeapGC.  Ids are interchangeable: the heap never     *)
(* compares them, so the runs that check no liveness use their symmetry.    *)
EXTENDS HeapGCInv, TLC

Symmetry == Permutations(GenIds) \cup Permutations(PoolIds)
=============================================================================
