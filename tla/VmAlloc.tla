------------------------------ MODULE VmAlloc ------------------------------
(***************************************************************************)
(* The heap of HeapGC under the allocating opcodes of the run loop         *)
(* (runtime/vm/vm.cpp): Cons, MakeClosure and Values pop their operands    *)
(* into C++ locals before they call the allocator, so a collection that    *)
(* the allocation triggers does not see the operands unless another slot   *)
(* of the VM holds them too.  The primitives, by contrast, are called with *)
(* their arguments still on the stack: HeapGC's own allocations.           *)
(***************************************************************************)
EXTENDS HeapGC

\* The opcode takes its operands off the stack; the ones in popped had no other
\* slot.  The collection then starts from what is left.
OpAllocate(req, popped) ==
  /\ Mutating
  /\ req.kind \in {"cons", "proc"}
  /\ popped \subseteq req.refs
  /\ FreshIds(req) # {}
  /\ \/ /\ Fits(req)
        /\ \E o \in FreshIds(req) :
             /\ kind' = [kind EXCEPT ![o] = req.kind]
             /\ used' = used \cup ({o} \cap GenIds)
             /\ refs' = [refs EXCEPT ![o] = req.refs]
             /\ total' = total + SizeOf(req.kind)
             /\ roots' = (roots \ popped) \cup {o}
        /\ UNCHANGED <<request, gcVars>>
     \/ /\ ~Fits(req)
        /\ request' = req
        /\ roots' = roots \ popped
        /\ phase' = "mark"
        /\ marked' = {}
        /\ work' = (roots \ popped) \cup RunningVals
        /\ UNCHANGED <<heapVars, deadKeys, deadObjs, todo, garbage>>
  /\ UNCHANGED <<weakVars, running>>

OpNext == \/ Next
          \/ \E req \in Wanted : \E popped \in SUBSET req.refs : OpAllocate(req, popped)

OpSpec == Init /\ [][OpNext]_vars

\* The operands of an allocation are still allocated when the collection it
\* triggered is over and the new object is filled with them.  The reference
\* manual lists "temporary roots during allocation" among the roots
\* (docs/guide/reference/runtime.md:268); vm.cpp:1113-1120 pushes none.
OperandsSurvive == request # NoRequest => request.refs \subseteq Live
=============================================================================
