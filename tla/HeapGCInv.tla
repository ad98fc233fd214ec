----------------------------- MODULE HeapGCInv -----------------------------
(***************************************************************************)
(* The inductive strengthening of HeapGC's ReachableIsLive: the heap is    *)
(* closed under references outside the sweep, the tri-colour invariant     *)
(* holds while marking, and the marked objects are closed during the       *)
(* sweep.                                                                  *)
(***************************************************************************)
EXTENDS HeapGC

\* Cons cells take part in neither weak table and own no queue.
PoolPlain ==
  \A c \in PoolIds : Range(ready[c]) = {} /\ finTable[c] = NoProc

\* An id that names no object refers to nothing.
DeadEmpty ==
  \A o \in Id \ Live : VisitRefs(o) = {} /\ finTable[o] = NoProc

\* A waiting allocation's operands are on the stack.
RequestRooted ==
  /\ request # NoRequest => request.refs \subseteq roots
  /\ phase = "idle" => request = NoRequest
  /\ phase = "done" => request # NoRequest

\* Nothing the VM, the queue or an object holds dangles.
HeapClosed ==
  /\ StrongRoots \subseteq Live
  /\ \A o \in Id : VisitRefs(o) \subseteq Live
  /\ \A o \in Id : finTable[o] # NoProc => finTable[o] \in Live

\* No marked object refers to an unmarked one that is not on the work list.
Tricolour ==
  /\ marked \subseteq Live /\ work \subseteq Live
  /\ VmRoots \subseteq marked \cup work
  /\ \A o \in marked : VisitRefs(o) \subseteq marked \cup work
  /\ phase \in {"pending2", "fix2"} => PendingVals \subseteq marked \cup work

\* The sweep frees what is in garbage and touches nothing marked.
SweepClosed ==
  /\ marked \subseteq Live
  /\ Live \subseteq marked \cup garbage
  /\ garbage \cap marked = {}
  /\ StrongRoots \subseteq marked
  /\ \A o \in marked : VisitRefs(o) \subseteq marked
  /\ \A o \in marked : finTable[o] # NoProc => finTable[o] \in marked

HeapInv ==
  /\ TypeOK
  /\ PoolPlain
  /\ DeadEmpty
  /\ RequestRooted
  /\ phase # "sweepGen" => HeapClosed
  /\ Marking => Tricolour
  /\ phase = "enqFin" => deadKeys \subseteq Registered
  /\ phase = "sweepGen" => SweepClosed
=============================================================================
