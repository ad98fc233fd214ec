------------------------------- MODULE HeapGC -------------------------------
(***************************************************************************)
(* The managed heap of one Eta virtual machine and its collector:          *)
(*   runtime/memory/heap.{h,cpp}, cons_pool.h, mark_sweep_gc.{h,cpp} and   *)
(*   the part of runtime/vm/vm.cpp that enumerates roots and drains the    *)
(*   finalizer queue.                                                      *)
(*                                                                         *)
(* A heap belongs to one VM thread.  Between collections the thread is the *)
(* mutator: it loads, stores and drops references, allocates, registers    *)
(* finalizers, tracks objects in guardians and runs finalizers.  A         *)
(* collection runs when an allocation meets the soft limit or on request;  *)
(* its steps here are the steps of MarkSweepGC::collect, one object per    *)
(* marking step.  Work lists and hash-table walks are sets taken in any    *)
(* order: the code promises none.                                          *)
(***************************************************************************)
EXTENDS Integers, Sequences, FiniteSets, Functions, HeapGraph

CONSTANTS
  GenIds,      \* ids of the sharded heap: handed out once, never reused
  PoolIds,     \* ids of the cons pool's slots: reused after a sweep
  NewKinds,    \* kinds of general object the mutator creates
  NoProc,      \* "no finalizer registered"
  NoneRunning, \* no finalizer call is active
  NoRequest,   \* no allocation waits for the collector
  ConsSize, ObjSize,  \* bytes accounted to a cons and to a general object
  SoftLimit,   \* max_heap_soft_limit_
  MaxRefs,     \* bound: references one object holds
  MaxFinalizers, \* bound: registered, queued and running finalizers
  MaxReady     \* bound: undelivered objects in a guardian's queue

Id == GenIds \cup PoolIds
Kinds == {"data", "proc", "guardian", "cons"}

ASSUME IdAssumption ==
  /\ GenIds \cap PoolIds = {}
  /\ NoProc \notin Id
  /\ NoneRunning \notin [obj : GenIds, proc : Id]
ASSUME KindAssumption == NewKinds \subseteq {"data", "proc", "guardian"}
ASSUME SizeAssumption ==
  /\ ConsSize \in Nat /\ ObjSize \in Nat /\ SoftLimit \in Nat
  /\ MaxRefs \in Nat /\ MaxFinalizers \in Nat /\ MaxReady \in Nat

VARIABLES
  kind,      \* ObjectKind of an allocated object; "free" when there is none
  used,      \* general ids already handed out by next_id
  refs,      \* references held in an object's fields
  total,     \* total_heap_bytes
  finTable,  \* finalizer_table_
  pending,   \* pending_finalizers_
  tracking,  \* guardian_to_tracked_ and its mirror tracked_to_guardians_
  ready,     \* Guardian::ready_queue
  roots,     \* stack_, globals_, frames_, ... : what the VM itself holds
  running,   \* the pair process_pending_finalizers has on temp_roots_
  request,   \* the allocation whose gc_callback_ is running
  phase,     \* where MarkSweepGC::collect is
  marked,    \* objects whose MARK_BIT is set
  work,      \* the mark work list
  deadKeys,  \* dead_finalizer_keys still to be enqueued
  deadObjs,  \* dead_guarded_objects
  todo,      \* tracking pairs still to be looked at
  garbage    \* unmarked general ids still to be deallocated

heapVars == <<kind, used, refs, total>>
weakVars == <<finTable, pending, tracking, ready>>
vmVars   == <<roots, running, request>>
gcVars   == <<phase, marked, work, deadKeys, deadObjs, todo,
             garbage>>
vars     == <<heapVars, weakVars, vmVars, gcVars>>

-----------------------------------------------------------------------------
Live == {o \in Id : kind[o] # "free"}

SizeOf(k) == IF k = "cons" THEN ConsSize ELSE ObjSize

PendingVals == UNION {{e.obj, e.proc} : e \in Range(pending)}
RunningVals == IF running = NoneRunning THEN {} ELSE {running.obj, running.proc}

\* What VM::collect_garbage enumerates.
VmRoots == roots \cup RunningVals

\* What visit_heap_refs yields for one object.
VisitRefs(o) == refs[o] \cup Range(ready[o])

\* A marked key keeps its finalizer procedure: an ephemeron edge.
FinEdge(o) == IF finTable[o] = NoProc THEN {} ELSE {finTable[o]}

Edge == [o \in Id |-> VisitRefs(o) \cup FinEdge(o)]
StrongRoots == VmRoots \cup PendingVals
StrongReach == Reachable(StrongRoots, Edge)

\* What the program itself can still get at.
ProgramReach == Reachable(VmRoots, [o \in Id |-> VisitRefs(o)])

Phases == {"idle", "mark", "pending1", "fix1", "enqFin", "enqGuard",
           "pending2", "fix2", "sweepGen", "done"}
Requests == [kind : Kinds, refs : SUBSET Id, attempt : 1..2]
Finalizers == [obj : GenIds, proc : Id]

\* total is typed by BytesAccounted.
TypeOK ==
  /\ kind \in [Id -> Kinds \cup {"free"}]
  /\ used \subseteq GenIds
  /\ refs \in [Id -> SUBSET Id]
  /\ finTable \in [Id -> Id \cup {NoProc}]
  /\ pending \in Seq(Finalizers)
  /\ tracking \subseteq GenIds \X GenIds
  /\ ready \in [Id -> Seq(GenIds)]
  /\ roots \subseteq Id
  /\ running \in Finalizers \cup {NoneRunning}
  /\ request \in Requests \cup {NoRequest}
  /\ phase \in Phases
  /\ marked \subseteq Id
  /\ work \subseteq Id
  /\ deadKeys \subseteq GenIds
  /\ deadObjs \subseteq GenIds
  /\ todo \subseteq GenIds \X GenIds
  /\ garbage \subseteq GenIds

Init ==
  /\ kind = [o \in Id |-> "free"]
  /\ used = {}
  /\ refs = [o \in Id |-> {}]
  /\ total = 0
  /\ finTable = [o \in Id |-> NoProc]
  /\ pending = <<>>
  /\ tracking = {}
  /\ ready = [o \in Id |-> <<>>]
  /\ roots = {}
  /\ running = NoneRunning
  /\ request = NoRequest
  /\ phase = "idle"
  /\ marked = {} /\ work = {} /\ deadKeys = {} /\ deadObjs = {}
  /\ todo = {} /\ garbage = {}

-----------------------------------------------------------------------------
(***************************************************************************)
(* The mutator.  Its operands are objects the VM holds.                    *)
(***************************************************************************)
Mutating == phase = "idle"

\* Car, Cdr, vector-ref, upvalue loads: a field's value goes on the stack.
Load(o, r) ==
  /\ Mutating
  /\ o \in roots /\ r \in refs[o] \ roots
  /\ roots' = roots \cup {r}
  /\ UNCHANGED <<heapVars, weakVars, running, request, gcVars>>

\* Pop, return, an overwritten local or global: the last copy is gone.
Drop(o) ==
  /\ Mutating
  /\ o \in roots
  /\ roots' = roots \ {o}
  /\ UNCHANGED <<heapVars, weakVars, running, request, gcVars>>

Mutable(o) == kind[o] \in {"data", "cons", "proc"}

\* set-car!, vector-set!, an upvalue patch: a field gets a heap value.
StoreRef(o, r) ==
  /\ Mutating
  /\ o \in roots /\ r \in roots /\ Mutable(o)
  /\ r \notin refs[o] /\ Cardinality(refs[o]) < MaxRefs
  /\ refs' = [refs EXCEPT ![o] = @ \cup {r}]
  /\ UNCHANGED <<kind, used, total, weakVars, vmVars, gcVars>>

\* ... or an immediate, which overwrites the reference.
ClearRef(o, r) ==
  /\ Mutating
  /\ o \in roots /\ r \in refs[o] /\ Mutable(o)
  /\ refs' = [refs EXCEPT ![o] = @ \ {r}]
  /\ UNCHANGED <<kind, used, total, weakVars, vmVars, gcVars>>

\* Ids that can name a new object: a free pool slot for a cons, a new id of the
\* general heap for the rest and for make_cons's second attempt.
FreshIds(req) == IF req.kind = "cons" /\ req.attempt = 1
                   THEN {o \in PoolIds : kind[o] = "free"}
                   ELSE GenIds \ used

\* The tail of Heap::allocate and Heap::alloc_cons once there is room; the
\* result is pushed on the stack.
Install(o, req) ==
  /\ kind' = [kind EXCEPT ![o] = req.kind]
  /\ used' = used \cup ({o} \cap GenIds)
  /\ refs' = [refs EXCEPT ![o] = req.refs]
  /\ total' = total + SizeOf(req.kind)
  /\ roots' = roots \cup {o}

Fits(req) == total + SizeOf(req.kind) <= SoftLimit

\* What an allocation may ask for: operands are on the stack.
Wanted == [kind : NewKinds \cup {"cons"},
           refs : {rs \in SUBSET roots : Cardinality(rs) <= MaxRefs},
           attempt : {1}]

\* Faulty variants of BeginCollect: temp_roots_ not enumerated; marks kept.
BeginCollectWithoutTempRoots ==
  /\ phase' = "mark" /\ marked' = {} /\ work' = roots
  /\ UNCHANGED <<deadKeys, deadObjs, todo, garbage>>
BeginCollectWithStaleMarks ==
  /\ phase' = "mark" /\ work' = VmRoots
  /\ UNCHANGED <<marked, deadKeys, deadObjs, todo, garbage>>

\* MarkSweepGC::collect begins: clear_marks, then the roots are pushed.
BeginCollect ==
  /\ phase' = "mark"
  /\ marked' = {}
  /\ work' = VmRoots
  /\ UNCHANGED <<deadKeys, deadObjs, todo, garbage>>

\* An allocation below the soft limit.
Allocate(req) ==
  /\ Mutating
  /\ req.kind = "guardian" => req.refs = {}
  /\ Fits(req)
  /\ \E o \in FreshIds(req) : Install(o, req)
  /\ UNCHANGED <<weakVars, running, request, gcVars>>

\* An allocation that meets the soft limit runs gc_callback_ first.
AllocateCollecting(req) ==
  /\ Mutating
  /\ req.kind = "guardian" => req.refs = {}
  /\ ~Fits(req) /\ FreshIds(req) # {}
  /\ request' = req
  /\ BeginCollect
  /\ UNCHANGED <<heapVars, weakVars, roots, running>>

\* vm.collect_garbage() on its own.
Collect ==
  /\ Mutating
  /\ BeginCollect
  /\ UNCHANGED <<heapVars, weakVars, vmVars>>

Registered == {o \in Id : finTable[o] # NoProc}
FinalizerLoad == Cardinality(Registered) + Len(pending)
                   + (IF running = NoneRunning THEN 0 ELSE 1)

\* register-finalizer!: general objects only; a second call replaces the first.
RegisterFinalizer(o, p) ==
  /\ Mutating
  /\ o \in roots \ PoolIds /\ p \in roots /\ kind[p] = "proc"
  /\ o \in Registered \/ FinalizerLoad < MaxFinalizers
  /\ finTable' = [finTable EXCEPT ![o] = p]
  /\ UNCHANGED <<heapVars, pending, tracking, ready, vmVars, gcVars>>

UnregisterFinalizer(o) ==
  /\ Mutating
  /\ o \in roots /\ finTable[o] # NoProc
  /\ finTable' = [finTable EXCEPT ![o] = NoProc]
  /\ UNCHANGED <<heapVars, pending, tracking, ready, vmVars, gcVars>>

\* guardian-track!
GuardianTrack(g, o) ==
  /\ Mutating
  /\ g \in roots /\ kind[g] = "guardian" /\ Len(ready[g]) < MaxReady
  /\ o \in roots \ PoolIds
  /\ tracking' = tracking \cup {<<g, o>>}
  /\ UNCHANGED <<heapVars, finTable, pending, ready, vmVars, gcVars>>

\* guardian-collect
GuardianCollect(g) ==
  /\ Mutating
  /\ g \in roots /\ kind[g] = "guardian" /\ ready[g] # <<>>
  /\ roots' = roots \cup {Head(ready[g])}
  /\ ready' = [ready EXCEPT ![g] = Tail(@)]
  /\ UNCHANGED <<heapVars, finTable, pending, tracking, running, request, gcVars>>

\* Faulty variant: the newest pair first.
DrainNewest ==
  /\ Mutating
  /\ running = NoneRunning /\ pending # <<>>
  /\ running' = pending[Len(pending)]
  /\ pending' = SubSeq(pending, 1, Len(pending) - 1)
  /\ roots' = roots \cup {pending[Len(pending)].obj}
  /\ UNCHANGED <<heapVars, finTable, tracking, ready, request, gcVars>>

\* process_pending_finalizers takes one pair, holds it on temp_roots_ and
\* calls (proc obj): the argument reaches the callee's frame.  Never nested.
DrainStart ==
  /\ Mutating
  /\ running = NoneRunning /\ pending # <<>>
  /\ running' = Head(pending)
  /\ pending' = Tail(pending)
  /\ roots' = roots \cup {Head(pending).obj}
  /\ UNCHANGED <<heapVars, finTable, tracking, ready, request, gcVars>>

\* The call returned or failed: temp_roots_ shrinks back.
DrainEnd ==
  /\ Mutating
  /\ running # NoneRunning
  /\ running' = NoneRunning
  /\ UNCHANGED <<heapVars, weakVars, roots, request, gcVars>>

Mutator ==
  \/ \E o, r \in Id : Load(o, r) \/ StoreRef(o, r) \/ ClearRef(o, r)
  \/ \E o \in Id : Drop(o)
  \/ \E req \in Wanted : Allocate(req) \/ AllocateCollecting(req)
  \/ Collect
  \/ \E o, p \in GenIds : RegisterFinalizer(o, p) \/ GuardianTrack(o, p)
  \/ \E o \in GenIds : UnregisterFinalizer(o) \/ GuardianCollect(o)
  \/ DrainStart \/ DrainEnd

-----------------------------------------------------------------------------
(***************************************************************************)
(* MarkSweepGC::collect.                                                   *)
(***************************************************************************)
Marking == phase \in {"mark", "pending1", "fix1", "enqFin", "enqGuard",
                      "pending2", "fix2"}

\* Faulty variants of MarkOne: children not pushed; marked ids visited again.
MarkOneWithoutChildren(o) ==
  /\ Marking /\ o \in work
  /\ marked' = marked \cup ({o} \cap Live)
  /\ work' = work \ {o}
  /\ UNCHANGED <<heapVars, weakVars, vmVars, phase, deadKeys, deadObjs, todo,
                 garbage>>
MarkOneAgain(o) ==
  /\ Marking /\ o \in work
  /\ marked' = marked \cup ({o} \cap Live)
  /\ work' = (work \ {o}) \cup VisitRefs(o)
  /\ UNCHANGED <<heapVars, weakVars, vmVars, phase, deadKeys, deadObjs, todo,
                 garbage>>

\* One turn of mark_worklist: a stale or marked id is skipped.
MarkOne(o) ==
  /\ Marking
  /\ o \in work
  /\ IF o \in Live \ marked
       THEN /\ marked' = marked \cup {o}
            /\ work' = (work \ {o}) \cup VisitRefs(o)
       ELSE /\ work' = work \ {o}
            /\ UNCHANGED marked
  /\ UNCHANGED <<heapVars, weakVars, vmVars, phase, deadKeys, deadObjs, todo,
                 garbage>>

\* mark_pending_finalizers, before and after the dead are enqueued.
MarkPending ==
  /\ work = {}
  /\ \/ phase = "mark" /\ phase' = "pending1"
     \/ phase = "enqGuard" /\ todo = {} /\ phase' = "pending2"
  /\ work' = PendingVals
  /\ UNCHANGED <<heapVars, weakVars, vmVars, marked, deadKeys, deadObjs, todo,
                 garbage>>

\* Faulty variant: procedures of live keys are left to the sweep.
NoUnmarkedProcs == {}

\* Keys whose procedure mark_live_finalizer_procs_fixpoint has yet to mark.
UnmarkedProcs ==
  {o \in marked : finTable[o] # NoProc /\ finTable[o] \in Live \ marked}

BeginFixpoint ==
  /\ work = {}
  /\ \/ phase = "pending1" /\ phase' = "fix1"
     \/ phase = "pending2" /\ phase' = "fix2"
  /\ UNCHANGED <<heapVars, weakVars, vmVars, marked, work, deadKeys, deadObjs,
                 todo, garbage>>

FixpointStep(o) ==
  /\ phase \in {"fix1", "fix2"} /\ work = {}
  /\ o \in UnmarkedProcs
  /\ work' = {finTable[o]}
  /\ UNCHANGED <<heapVars, weakVars, vmVars, phase, marked, deadKeys, deadObjs,
                 todo, garbage>>

\* snapshot_dead_finalizer_keys and snapshot_dead_guarded_objects.
SnapshotDead ==
  /\ phase = "fix1" /\ work = {} /\ UnmarkedProcs = {}
  /\ phase' = "enqFin"
  /\ deadKeys' = {o \in GenIds : finTable[o] # NoProc} \ marked
  /\ deadObjs' = {pair[2] : pair \in tracking} \ marked
  /\ UNCHANGED <<heapVars, weakVars, vmVars, marked, work, todo, garbage>>

\* Faulty variant: the registration survives its delivery.
EnqueueKeepingRegistration(o) ==
  /\ phase = "enqFin" /\ work = {} /\ o \in deadKeys
  /\ deadKeys' = deadKeys \ {o}
  /\ pending' = Append(pending, [obj |-> o, proc |-> finTable[o]])
  /\ work' = {o, finTable[o]}
  /\ UNCHANGED <<heapVars, finTable, tracking, ready, vmVars, phase, marked,
                 deadObjs, todo, garbage>>

\* One turn of enqueue_dead_finalizers.
EnqueueDeadFinalizer(o) ==
  /\ phase = "enqFin" /\ work = {}
  /\ o \in deadKeys
  /\ deadKeys' = deadKeys \ {o}
  /\ finTable' = [finTable EXCEPT ![o] = NoProc]
  /\ IF o \in Live
       THEN /\ pending' = Append(pending, [obj |-> o, proc |-> finTable[o]])
            /\ work' = {o, finTable[o]}
       ELSE UNCHANGED <<pending, work>>
  /\ UNCHANGED <<heapVars, tracking, ready, vmVars, phase, marked, deadObjs,
                 todo, garbage>>

\* guardian_tracking_snapshot at the head of enqueue_dead_guardians.
BeginGuardians ==
  /\ phase = "enqFin" /\ work = {} /\ deadKeys = {}
  /\ phase' = "enqGuard"
  /\ todo' = tracking
  /\ UNCHANGED <<heapVars, weakVars, vmVars, marked, work, deadKeys, deadObjs,
                 garbage>>

\* Faulty variants: a delivered object is not marked; a live guardian loses a
\* dead object without receiving it.
GuardianTurnUnmarked(g, o) ==
  /\ phase = "enqGuard" /\ work = {} /\ <<g, o>> \in todo
  /\ todo' = todo \ {<<g, o>>}
  /\ tracking' = IF g \in marked /\ o \notin deadObjs
                   THEN tracking ELSE tracking \ {<<g, o>>}
  /\ ready' = IF g \in marked /\ o \in deadObjs
                THEN [ready EXCEPT ![g] = Append(@, o)] ELSE ready
  /\ UNCHANGED <<heapVars, finTable, pending, vmVars, phase, marked, work,
                 deadKeys, deadObjs, garbage>>
GuardianTurnDropping(g, o) ==
  /\ phase = "enqGuard" /\ work = {} /\ <<g, o>> \in todo
  /\ todo' = todo \ {<<g, o>>}
  /\ tracking' = IF g \in marked /\ o \notin deadObjs
                   THEN tracking ELSE tracking \ {<<g, o>>}
  /\ UNCHANGED <<heapVars, finTable, pending, ready, vmVars, phase, marked, work,
                 deadKeys, deadObjs, garbage>>

\* Faulty variant: a delivered object stays tracked.
GuardianTurnKeeping(g, o) ==
  /\ phase = "enqGuard" /\ work = {} /\ <<g, o>> \in todo
  /\ todo' = todo \ {<<g, o>>}
  /\ tracking' = IF g \in marked THEN tracking ELSE tracking \ {<<g, o>>}
  /\ IF g \in marked /\ o \in deadObjs
       THEN /\ ready' = [ready EXCEPT ![g] = Append(@, o)]
            /\ work' = {o}
       ELSE UNCHANGED <<ready, work>>
  /\ UNCHANGED <<heapVars, finTable, pending, vmVars, phase, marked, deadKeys,
                 deadObjs, garbage>>

\* One turn of enqueue_dead_guardians.
GuardianTurn(g, o) ==
  /\ phase = "enqGuard" /\ work = {}
  /\ <<g, o>> \in todo
  /\ todo' = todo \ {<<g, o>>}
  /\ \/ /\ \/ g \notin marked
           \/ o \in deadObjs \ Live
        /\ tracking' = tracking \ {<<g, o>>}
        /\ UNCHANGED <<ready, work>>
     \/ /\ g \in marked /\ o \notin deadObjs
        /\ UNCHANGED <<tracking, ready, work>>
     \/ /\ g \in marked /\ o \in deadObjs \cap Live
        /\ tracking' = tracking \ {<<g, o>>}
        /\ ready' = [ready EXCEPT ![g] = Append(@, o)]
        /\ work' = {o}
  /\ UNCHANGED <<heapVars, finTable, pending, vmVars, phase, marked, deadKeys,
                 deadObjs, garbage>>

\* Faulty variant: the pool's sweep does not adjust total_heap_bytes.
SweepPoolUncounted ==
  /\ phase = "fix2" /\ work = {} /\ UnmarkedProcs = {}
  /\ kind' = [o \in Id |-> IF o \in PoolIds \ marked THEN "free" ELSE kind[o]]
  /\ refs' = [o \in Id |-> IF o \in PoolIds \ marked THEN {} ELSE refs[o]]
  /\ garbage' = (GenIds \cap Live) \ marked
  /\ phase' = "sweepGen"
  /\ UNCHANGED <<total, used, weakVars, vmVars, marked, work, deadKeys, deadObjs,
                 todo>>

\* pause_for_gc, the pool's sweep, and the scan for unmarked general ids.
SweepPool ==
  /\ phase = "fix2" /\ work = {} /\ UnmarkedProcs = {}
  /\ LET freed == (PoolIds \cap Live) \ marked IN
       /\ kind' = [o \in Id |-> IF o \in freed THEN "free" ELSE kind[o]]
       /\ refs' = [o \in Id |-> IF o \in freed THEN {} ELSE refs[o]]
       /\ total' = total - ConsSize * Cardinality(freed)
  /\ garbage' = (GenIds \cap Live) \ marked
  /\ phase' = "sweepGen"
  /\ UNCHANGED <<used, weakVars, vmVars, marked, work, deadKeys, deadObjs, todo>>

\* erase_pending_finalizers_for_object_unsafe: remove_if, which leaves a queue
\* without a match as it is.
WithoutObject(queue, o) ==
  IF \E e \in Range(queue) : e.obj = o
    THEN SelectSeq(queue, LAMBDA e : e.obj # o) ELSE queue

\* Heap::deallocate of a general object, with its side-table clean-up.
Deallocate(o) ==
  /\ phase = "sweepGen"
  /\ o \in garbage
  /\ garbage' = garbage \ {o}
  /\ kind' = [kind EXCEPT ![o] = "free"]
  /\ refs' = [refs EXCEPT ![o] = {}]
  /\ ready' = [ready EXCEPT ![o] = <<>>]
  /\ total' = total - SizeOf(kind[o])
  /\ finTable' = [finTable EXCEPT ![o] = NoProc]
  /\ pending' = WithoutObject(pending, o)
  /\ tracking' = {pair \in tracking :
                    IF kind[o] = "guardian" THEN pair[1] # o ELSE pair[2] # o}
  /\ UNCHANGED <<used, vmVars, phase, marked, work, deadKeys, deadObjs, todo>>

\* resume_after_gc; the waiting allocation is retried by whoever asked.
EndCollect ==
  /\ phase = "sweepGen" /\ garbage = {}
  /\ phase' = IF request = NoRequest THEN "idle" ELSE "done"
  /\ deadObjs' = {}
  /\ UNCHANGED <<heapVars, weakVars, vmVars, marked, work, deadKeys, todo, garbage>>

\* gc_callback_ returned and there is room now.
AllocateAfterCollect ==
  /\ phase = "done"
  /\ Fits(request)
  /\ \E o \in FreshIds(request) : Install(o, request)
  /\ request' = NoRequest
  /\ phase' = "idle"
  /\ UNCHANGED <<weakVars, running, marked, work, deadKeys, deadObjs, todo, garbage>>

\* factory::make_cons falls back to the general heap when alloc_cons fails,
\* which meets the same limit and collects once more.
RetryCons ==
  /\ phase = "done"
  /\ ~Fits(request)
  /\ request.kind = "cons" /\ request.attempt = 1
  /\ request' = [request EXCEPT !.attempt = 2]
  /\ BeginCollect
  /\ UNCHANGED <<heapVars, weakVars, roots, running>>

\* SoftHeapLimitExceeded goes back to the program.
AllocationFails ==
  /\ phase = "done"
  /\ ~Fits(request)
  /\ request.kind = "cons" => request.attempt = 2
  /\ request' = NoRequest
  /\ phase' = "idle"
  /\ UNCHANGED <<heapVars, weakVars, roots, running, marked, work, deadKeys,
                 deadObjs, todo, garbage>>

Collector ==
  \/ \E o \in Id : MarkOne(o) \/ FixpointStep(o)
  \/ \E o \in GenIds : EnqueueDeadFinalizer(o) \/ Deallocate(o)
  \/ \E g, o \in GenIds : GuardianTurn(g, o)
  \/ MarkPending \/ BeginFixpoint \/ SnapshotDead \/ BeginGuardians
  \/ SweepPool \/ EndCollect
  \/ AllocateAfterCollect \/ RetryCons \/ AllocationFails

Next == Mutator \/ Collector

Spec == Init /\ [][Next]_vars

\* The collector runs to its end inside the allocating call, and the run loop
\* drains pending finalizers before it executes an instruction; a finalizer
\* is assumed to return.
FairSpec == Spec /\ WF_vars(Collector) /\ SF_vars(DrainStart) /\ SF_vars(DrainEnd)

-----------------------------------------------------------------------------
(***************************************************************************)
(* Properties.                                                             *)
(***************************************************************************)

\* No object the program, a queued finalizer or a guardian's queue can still
\* lead to has been freed, at any moment of a collection (mark_sweep_gc.h:151).
ReachableIsLive == StrongReach \subseteq Live

\* An object waits for at most one finalizer call, and none waits for the
\* object whose finalizer is running: collecting again before the queue is
\* drained, or inside a finalizer, enqueues nothing twice (mark_sweep_gc.h:341).
FinalizedOnce ==
  /\ \A i, j \in DOMAIN pending : pending[i].obj = pending[j].obj => i = j
  /\ running # NoneRunning => \A i \in DOMAIN pending : pending[i].obj # running.obj

\* What the collector condemns is out of the program's reach, although the
\* finalizers it enqueues meanwhile make other objects reachable again.
CondemnedIsUnreachable ==
  phase = "enqFin" => (deadKeys \cup deadObjs) \cap ProgramReach = {}

\* A collection frees everything it may: afterwards the heap holds exactly what
\* the strong roots lead to, finalized and guarded objects included.
NothingLeaks ==
  phase = "sweepGen" /\ garbage = {} => Live = StrongReach

\* total_heap_bytes is the sum over the allocated objects, and stays below the
\* soft limit: every path that frees or allocates adjusts it once.
BytesAccounted ==
  LET conses == {o \in Live : kind[o] = "cons"} IN
    /\ total = ConsSize * Cardinality(conses) + ObjSize * Cardinality(Live \ conses)
    /\ total <= SoftLimit

\* Between collections the weak tables name allocated objects only, so a
\* reused or stale id can never be delivered (heap.cpp:326-338).
WeakTablesLive ==
  phase = "idle" =>
    /\ \A o \in Id : finTable[o] # NoProc => {o, finTable[o]} \subseteq Live
    /\ \A pair \in tracking : {pair[1], pair[2]} \subseteq Live

\* A guardian the program can reach loses a tracked object only by receiving
\* it in its queue, whatever order the pairs are visited in (mark_sweep_gc.h:366).
GuardianReceives ==
  [][\A pair \in tracking \ tracking' :
       pair[1] \notin ProgramReach \/ ready'[pair[1]] = Append(ready[pair[1]], pair[2])]_vars

\* A queued finalizer is called, and every collection comes to its end.
FinalizerRuns ==
  \A o \in GenIds : (\E e \in Range(pending) : e.obj = o)
                       ~> (running # NoneRunning /\ running.obj = o)
CollectionEnds == phase # "idle" ~> phase = "idle"

(***************************************************************************)
(* HeapGC keeps the promise of FinalizerSpec.                              *)
(***************************************************************************)
FinalizerStage(o) ==
  IF running # NoneRunning /\ running.obj = o THEN "running"
  ELSE IF \E e \in Range(pending) : e.obj = o THEN "queued" ELSE "none"

\* What comes back with an object: what its fields and queue lead to, and the
\* procedure of its queued call with what that leads to.
LeadsTo(o) ==
  Reachable({o} \cup {e.proc : e \in {f \in Range(pending) : f.obj = o}},
            [x \in Id |-> VisitRefs(x)])

Promise == INSTANCE FinalizerSpec WITH
  Object <- Id,
  alive <- Live,
  inUse <- ProgramReach,
  registered <- Registered,
  guarded <- tracking,
  stage <- [o \in Id |-> FinalizerStage(o)],
  leads <- [o \in Id |-> LeadsTo(o)]

\* Every step of the collector and of the mutator is one the promise allows:
\* no object with a finalizer is swept before the finalizer was called, a
\* guardian in use loses a tracked object only by receiving it, and no object
\* the program had lost comes back other than by a finalizer call or by the
\* guardian it was given to, with what it leads to (mark_sweep_gc.h:151-178,
\* vm.cpp:267-299).
KeepsPromise == Promise!Spec
=============================================================================
