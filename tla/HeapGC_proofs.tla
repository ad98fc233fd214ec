--------------------------- MODULE HeapGC_proofs ---------------------------
(***************************************************************************)
(* HeapGC, for any sets of ids, sizes and limits: its type invariant and   *)
(* its safety; what the collector does to the weak tables, that is the     *)
(* guardians' tracking pairs, the finalizer table and the queue of         *)
(* finalizer calls; that it frees all it may, and counts the bytes right;  *)
(* and that it implements FinalizerSpec.  The invariants after HeapInv are *)
(* inductive on top of it.                                                 *)
(***************************************************************************)
EXTENDS HeapGCInv, FiniteSetTheorems, TLAPS

-----------------------------------------------------------------------------
(* Queues. *)

LEMMA RangeInSet ==
  ASSUME NEW S, NEW q \in Seq(S)
  PROVE  Range(q) \subseteq S
  BY DEF Range

LEMMA RangeOfAppend ==
  ASSUME NEW S, NEW q \in Seq(S), NEW e \in S
  PROVE  /\ Append(q, e) \in Seq(S)
         /\ Range(Append(q, e)) = Range(q) \cup {e}
<1>1. /\ Append(q, e) \in Seq(S)
      /\ DOMAIN Append(q, e) = 1..(Len(q) + 1)
      /\ DOMAIN q = 1..Len(q)
      /\ Len(q) \in Nat
      /\ \A i \in 1..Len(q) : Append(q, e)[i] = q[i]
      /\ Append(q, e)[Len(q) + 1] = e
  OBVIOUS
<1>2. Range(Append(q, e)) \subseteq Range(q) \cup {e}
  BY <1>1 DEF Range
<1>3. Range(q) \subseteq Range(Append(q, e))
  BY <1>1 DEF Range
<1>4. e \in Range(Append(q, e))
  BY <1>1, Len(q) + 1 \in 1..(Len(q) + 1) DEF Range
<1>5. QED
  BY <1>1, <1>2, <1>3, <1>4

LEMMA RangeOfTail ==
  ASSUME NEW S, NEW q \in Seq(S), q # <<>>
  PROVE  /\ Head(q) \in Range(q)
         /\ Tail(q) \in Seq(S)
         /\ Range(Tail(q)) \subseteq Range(q)
  BY DEF Range

LEMMA RangeOfEmpty == Range(<<>>) = {}
  BY DEF Range

LEMMA NoMatch ==
  ASSUME NEW q, NEW o, \A e \in Range(q) : e.obj # o
  PROVE  WithoutObject(q, o) = q
  BY DEF WithoutObject

-----------------------------------------------------------------------------
LEMMA InitInv == Init => HeapInv
<1> SUFFICES ASSUME Init PROVE HeapInv
  OBVIOUS
<1> USE DEF Init
<1>1. /\ phase = "idle" /\ ~Marking /\ Live = {} /\ StrongRoots = {}
      /\ \A o \in Id : VisitRefs(o) = {}
  BY RangeOfEmpty DEF Marking, Live, VisitRefs, StrongRoots, VmRoots, RunningVals, PendingVals
<1>2. TypeOK
  BY DEF TypeOK, Phases
<1>3. PoolPlain /\ DeadEmpty /\ RequestRooted /\ HeapClosed
  BY <1>1, RangeOfEmpty DEF PoolPlain, DeadEmpty, RequestRooted, HeapClosed, Id
<1>4. QED
  BY <1>1, <1>2, <1>3 DEF HeapInv

\* A mutator step that only moves roots keeps the invariant as long as the roots are live.
LEMMA RootsInv ==
  ASSUME HeapInv, phase = "idle", roots' \subseteq Live,
         UNCHANGED <<heapVars, weakVars, running, request, gcVars>>
  PROVE  HeapInv'
<1>1. phase' = "idle" /\ ~Marking' /\ Live' = Live
  BY DEF Marking, Live, heapVars, gcVars
<1>2. /\ RunningVals' = RunningVals /\ PendingVals' = PendingVals
      /\ \A o \in Id : VisitRefs(o)' = VisitRefs(o)
  BY DEF RunningVals, PendingVals, VisitRefs, heapVars, weakVars
<1>3. roots' \subseteq Id
  BY DEF Live
<1>4. TypeOK'
  BY <1>3 DEF HeapInv, TypeOK, heapVars, weakVars, gcVars
<1>5. PoolPlain' /\ DeadEmpty'
  BY <1>1, <1>2 DEF HeapInv, PoolPlain, DeadEmpty, weakVars
<1>6. RequestRooted'
  BY <1>1 DEF HeapInv, RequestRooted, gcVars
<1>7. StrongRoots' \subseteq Live
  BY <1>2 DEF HeapInv, HeapClosed, StrongRoots, VmRoots
<1>8. HeapClosed'
  BY <1>1, <1>2, <1>7 DEF HeapInv, HeapClosed, weakVars
<1>9. QED
  BY <1>1, <1>4, <1>5, <1>6, <1>8 DEF HeapInv

LEMMA LoadInv == ASSUME HeapInv, NEW o \in Id, NEW r \in Id, Load(o, r) PROVE HeapInv'
<1>1. phase = "idle" /\ roots \subseteq Live /\ r \in Live
  BY DEF Load, Mutating, HeapInv, HeapClosed, StrongRoots, VmRoots, VisitRefs
<1>2. QED
  BY <1>1, RootsInv DEF Load

LEMMA DropInv == ASSUME HeapInv, NEW o \in Id, Drop(o) PROVE HeapInv'
<1>1. phase = "idle" /\ roots \subseteq Live
  BY DEF Drop, Mutating, HeapInv, HeapClosed, StrongRoots, VmRoots
<1>2. QED
  BY <1>1, RootsInv DEF Drop

LEMMA StoreRefInv == ASSUME HeapInv, NEW o \in Id, NEW r \in Id, StoreRef(o, r) PROVE HeapInv'
<1> USE DEF StoreRef, Mutating
<1>1. /\ phase = "idle" /\ phase' = "idle" /\ ~Marking'
      /\ o \in Live /\ r \in Live /\ Live' = Live
      /\ UNCHANGED <<StrongRoots, VmRoots>>
  BY DEF HeapInv, HeapClosed, Marking, Live, StrongRoots, VmRoots, RunningVals, PendingVals,
         vmVars, weakVars, gcVars, VisitRefs, TypeOK
<1>2. TypeOK'
  BY DEF HeapInv, TypeOK, vmVars, weakVars, gcVars
<1>3. /\ VisitRefs(o)' \subseteq VisitRefs(o) \cup {r}
      /\ \A x \in Id \ {o} : VisitRefs(x)' = VisitRefs(x)
  BY DEF HeapInv, TypeOK, VisitRefs, weakVars
<1>4. PoolPlain' /\ RequestRooted'
  BY DEF HeapInv, PoolPlain, RequestRooted, vmVars, weakVars, gcVars
<1>5. DeadEmpty'
  BY <1>1, <1>3 DEF HeapInv, DeadEmpty, weakVars
<1>6. HeapClosed'
  BY <1>1, <1>3 DEF HeapInv, HeapClosed, weakVars
<1>7. QED
  BY <1>1, <1>2, <1>4, <1>5, <1>6 DEF HeapInv

LEMMA ClearRefInv == ASSUME HeapInv, NEW o \in Id, NEW r \in Id, ClearRef(o, r) PROVE HeapInv'
<1> USE DEF ClearRef, Mutating
<1>1. /\ phase = "idle" /\ phase' = "idle" /\ ~Marking'
      /\ o \in Live /\ r \in Live /\ Live' = Live
      /\ UNCHANGED <<StrongRoots, VmRoots>>
  BY DEF HeapInv, HeapClosed, Marking, Live, StrongRoots, VmRoots, RunningVals, PendingVals,
         vmVars, weakVars, gcVars, VisitRefs, TypeOK
<1>2. TypeOK'
  BY DEF HeapInv, TypeOK, vmVars, weakVars, gcVars
<1>3. /\ VisitRefs(o)' \subseteq VisitRefs(o) \cup {r}
      /\ \A x \in Id \ {o} : VisitRefs(x)' = VisitRefs(x)
  BY DEF HeapInv, TypeOK, VisitRefs, weakVars
<1>4. PoolPlain' /\ RequestRooted'
  BY DEF HeapInv, PoolPlain, RequestRooted, vmVars, weakVars, gcVars
<1>5. DeadEmpty'
  BY <1>1, <1>3 DEF HeapInv, DeadEmpty, weakVars
<1>6. HeapClosed'
  BY <1>1, <1>3 DEF HeapInv, HeapClosed, weakVars
<1>7. QED
  BY <1>1, <1>2, <1>4, <1>5, <1>6 DEF HeapInv

LEMMA InstallInv ==
  ASSUME HeapInv, phase # "sweepGen", ~Marking, NEW req \in Requests, req.refs \subseteq roots,
         NEW o \in Id, Install(o, req),
         UNCHANGED <<weakVars, running, marked, work, deadKeys, deadObjs, todo, garbage>>,
         phase' = "idle", request' = NoRequest
  PROVE  HeapInv'
<1> USE DEF Install
<1>1. /\ Live' = Live \cup {o}
      /\ req.kind \in Kinds /\ req.kind # "free" /\ req.refs \subseteq Id
      /\ roots \subseteq Live
  BY DEF HeapInv, TypeOK, HeapClosed, StrongRoots, VmRoots, Live, Requests, Kinds
<1>2. TypeOK'
  BY <1>1 DEF HeapInv, TypeOK, weakVars, Phases
<1>3. /\ VisitRefs(o)' = req.refs \cup Range(ready[o])
      /\ \A x \in Id \ {o} : VisitRefs(x)' = VisitRefs(x)
  BY DEF HeapInv, TypeOK, VisitRefs, weakVars
<1>4. PoolPlain' /\ RequestRooted'
  BY DEF HeapInv, PoolPlain, RequestRooted, weakVars
<1>5. DeadEmpty'
  BY <1>1, <1>3 DEF HeapInv, DeadEmpty, weakVars
<1>6. StrongRoots' = StrongRoots \cup {o}
  BY DEF StrongRoots, VmRoots, RunningVals, PendingVals, weakVars
<1>7. HeapClosed'
  BY <1>1, <1>3, <1>6 DEF HeapInv, HeapClosed, weakVars, VisitRefs
<1>8. QED
  BY <1>1, <1>2, <1>4, <1>5, <1>7 DEF HeapInv, Marking

LEMMA BeginCollectInv ==
  ASSUME HeapInv, phase # "sweepGen", ~Marking, BeginCollect,
         UNCHANGED <<heapVars, weakVars, roots, running>>,
         request' \in Requests \cup {NoRequest},
         request' # NoRequest => request'.refs \subseteq roots
  PROVE  HeapInv'
  BY DEF BeginCollect, HeapInv, TypeOK, PoolPlain, DeadEmpty, RequestRooted, HeapClosed, Tricolour,
     Marking, Live, VisitRefs, StrongRoots, VmRoots, RunningVals, PendingVals, heapVars, weakVars, Phases

LEMMA RegisterFinalizerInv ==
  ASSUME HeapInv, NEW o \in GenIds, NEW p \in GenIds, RegisterFinalizer(o, p) PROVE HeapInv'
<1> USE DEF RegisterFinalizer, Mutating
<1>1. /\ phase = "idle" /\ phase' = "idle" /\ ~Marking'
      /\ o \in Live /\ p \in Live /\ Live' = Live /\ o \in Id /\ p \in Id /\ o \notin PoolIds
      /\ UNCHANGED <<StrongRoots, VmRoots>>
  BY DEF HeapInv, HeapClosed, Marking, Live, StrongRoots, VmRoots, RunningVals, PendingVals,
         vmVars, heapVars, gcVars, Id
<1>2. TypeOK'
  BY <1>1 DEF HeapInv, TypeOK, vmVars, heapVars, gcVars
<1>3. /\ finTable'[o] = p
      /\ \A x \in Id \ {o} : finTable'[x] = finTable[x]
      /\ \A x \in Id : VisitRefs(x)' = VisitRefs(x)
  BY <1>1 DEF HeapInv, TypeOK, VisitRefs, heapVars
<1>4. PoolPlain' /\ RequestRooted'
  BY <1>1, <1>3 DEF HeapInv, PoolPlain, RequestRooted, vmVars, gcVars, Id
<1>5. DeadEmpty'
  BY <1>1, <1>3 DEF HeapInv, DeadEmpty
<1>6. HeapClosed'
  BY <1>1, <1>3 DEF HeapInv, HeapClosed
<1>7. QED
  BY <1>1, <1>2, <1>4, <1>5, <1>6 DEF HeapInv

LEMMA UnregisterFinalizerInv ==
  ASSUME HeapInv, NEW o \in GenIds, UnregisterFinalizer(o) PROVE HeapInv'
  BY IdAssumption DEF UnregisterFinalizer, HeapInv, TypeOK, PoolPlain, DeadEmpty, RequestRooted, HeapClosed, Mutating,
     Marking, Live, VisitRefs, StrongRoots, VmRoots, RunningVals, PendingVals, heapVars, vmVars, gcVars, Id

\* What a step that leaves the object graph alone preserves.
LEMMA GraphFrame ==
  ASSUME UNCHANGED <<kind, refs, finTable, pending, ready, roots, running>>
  PROVE  /\ UNCHANGED <<Live, VmRoots, PendingVals, StrongRoots, Registered>>
         /\ \A x \in Id : VisitRefs(x)' = VisitRefs(x)
         /\ PoolPlain => PoolPlain'
         /\ DeadEmpty => DeadEmpty'
         /\ HeapClosed => HeapClosed'
<1>1. /\ UNCHANGED <<Live, VmRoots, PendingVals, StrongRoots, Registered>>
      /\ \A x \in Id : VisitRefs(x)' = VisitRefs(x)
  BY DEF Live, VisitRefs, StrongRoots, VmRoots, RunningVals, PendingVals, Registered
<1>2. PoolPlain => PoolPlain'
  BY DEF PoolPlain
<1>3. DeadEmpty => DeadEmpty'
  BY <1>1 DEF DeadEmpty
<1>4. HeapClosed => HeapClosed'
  BY <1>1 DEF HeapClosed
<1>5. QED
  BY <1>1, <1>2, <1>3, <1>4

LEMMA GuardianTrackInv ==
  ASSUME HeapInv, NEW g \in GenIds, NEW o \in GenIds, GuardianTrack(g, o) PROVE HeapInv'
<1> USE DEF GuardianTrack, Mutating
<1>1. /\ phase = "idle" /\ phase' = "idle" /\ ~Marking'
      /\ UNCHANGED <<kind, refs, finTable, pending, ready, roots, running>>
  BY DEF heapVars, vmVars, gcVars, Marking
<1>2. TypeOK'
  BY DEF HeapInv, TypeOK, heapVars, vmVars, gcVars
<1>3. RequestRooted'
  BY DEF HeapInv, RequestRooted, vmVars, gcVars
<1>4. QED
  BY <1>1, <1>2, <1>3, GraphFrame DEF HeapInv

LEMMA GuardianCollectInv ==
  ASSUME HeapInv, NEW g \in GenIds, GuardianCollect(g) PROVE HeapInv'
<1> USE DEF GuardianCollect, Mutating
<1>1. /\ phase = "idle" /\ phase' = "idle" /\ ~Marking'
      /\ Live' = Live /\ g \in Id
  BY DEF heapVars, gcVars, Marking, Live, Id
<1>2. /\ ready[g] \in Seq(GenIds) /\ ready[g] # <<>>
      /\ Head(ready[g]) \in Range(ready[g])
      /\ Tail(ready[g]) \in Seq(GenIds)
      /\ Range(Tail(ready[g])) \subseteq Range(ready[g])
      /\ Range(ready[g]) \subseteq Live
      /\ Head(ready[g]) \in Id
  BY <1>1, RangeOfTail, RangeInSet DEF HeapInv, TypeOK, HeapClosed, VisitRefs, Live
<1>3. TypeOK'
  BY <1>1, <1>2 DEF HeapInv, TypeOK, heapVars, gcVars
<1>4. /\ Range(ready'[g]) \subseteq Range(ready[g])
      /\ \A x \in Id \ {g} : ready'[x] = ready[x]
      /\ \A x \in Id : VisitRefs(x)' \subseteq VisitRefs(x)
      /\ UNCHANGED finTable
  BY <1>1, <1>2 DEF HeapInv, TypeOK, VisitRefs, heapVars
<1>5. PoolPlain' /\ RequestRooted'
  BY <1>1, <1>4 DEF HeapInv, PoolPlain, RequestRooted, gcVars, Id
<1>6. DeadEmpty'
  BY <1>1, <1>4 DEF HeapInv, DeadEmpty
<1>7. StrongRoots' \subseteq StrongRoots \cup {Head(ready[g])}
  BY DEF StrongRoots, VmRoots, RunningVals, PendingVals
<1>8. HeapClosed'
  BY <1>1, <1>2, <1>4, <1>7 DEF HeapInv, HeapClosed
<1>9. QED
  BY <1>1, <1>3, <1>5, <1>6, <1>8 DEF HeapInv

LEMMA DrainStartInv == ASSUME HeapInv, DrainStart PROVE HeapInv'
<1> USE DEF DrainStart, Mutating
<1>1. /\ phase = "idle" /\ phase' = "idle" /\ ~Marking'
      /\ Live' = Live /\ UNCHANGED <<kind, refs, finTable, ready>>
      /\ \A x \in Id : VisitRefs(x)' = VisitRefs(x)
  BY DEF heapVars, gcVars, Marking, Live, VisitRefs
<1>2. /\ Head(pending) \in Range(pending)
      /\ Head(pending) \in Finalizers
      /\ Tail(pending) \in Seq(Finalizers)
      /\ Range(Tail(pending)) \subseteq Range(pending)
  BY RangeOfTail, RangeInSet DEF HeapInv, TypeOK
<1>3. TypeOK'
  BY <1>1, <1>2 DEF HeapInv, TypeOK, heapVars, gcVars, Finalizers, Id
<1>4. StrongRoots' \subseteq StrongRoots
  <2>1. PendingVals' \subseteq PendingVals
    BY <1>2 DEF PendingVals
  <2>2. {Head(pending).obj, Head(pending).proc} \subseteq PendingVals
    BY <1>2 DEF PendingVals
  <2>3. VmRoots' = roots \cup {Head(pending).obj, Head(pending).proc} \/ VmRoots' = roots \cup {Head(pending).obj}
    BY DEF VmRoots, RunningVals
  <2>4. QED
    BY <2>1, <2>2, <2>3 DEF StrongRoots, VmRoots
<1>5. PoolPlain' /\ RequestRooted'
  BY <1>1 DEF HeapInv, PoolPlain, RequestRooted, gcVars
<1>6. DeadEmpty'
  BY <1>1 DEF HeapInv, DeadEmpty
<1>7. HeapClosed'
  BY <1>1, <1>4 DEF HeapInv, HeapClosed
<1>8. QED
  BY <1>1, <1>3, <1>5, <1>6, <1>7 DEF HeapInv

LEMMA DrainEndInv == ASSUME HeapInv, DrainEnd PROVE HeapInv'
<1> USE DEF DrainEnd, Mutating
<1>1. /\ phase = "idle" /\ phase' = "idle" /\ ~Marking'
      /\ Live' = Live /\ UNCHANGED <<kind, refs, finTable, ready>>
      /\ \A x \in Id : VisitRefs(x)' = VisitRefs(x)
  BY DEF heapVars, weakVars, gcVars, Marking, Live, VisitRefs
<1>2. TypeOK'
  BY <1>1 DEF HeapInv, TypeOK, heapVars, weakVars, gcVars
<1>3. StrongRoots' \subseteq StrongRoots
  BY DEF StrongRoots, VmRoots, RunningVals, PendingVals, weakVars
<1>4. PoolPlain' /\ RequestRooted'
  BY <1>1 DEF HeapInv, PoolPlain, RequestRooted, gcVars
<1>5. DeadEmpty'
  BY <1>1 DEF HeapInv, DeadEmpty
<1>6. HeapClosed'
  BY <1>1, <1>3 DEF HeapInv, HeapClosed
<1>7. QED
  BY <1>1, <1>2, <1>4, <1>5, <1>6 DEF HeapInv

LEMMA AllocateInv ==
  ASSUME HeapInv, NEW req \in Wanted,
         Allocate(req) \/ AllocateCollecting(req)
  PROVE  HeapInv'
<1>1. /\ req \in Requests /\ req.refs \subseteq roots
  <2> DEFINE Operands == {rs \in SUBSET roots : Cardinality(rs) <= MaxRefs}
             K == NewKinds \cup {"cons"}
  <2>1. roots \subseteq Id /\ Operands \subseteq SUBSET Id /\ Operands \subseteq SUBSET roots /\ K \subseteq Kinds
    BY KindAssumption DEF Kinds, HeapInv, TypeOK
  <2>2. req \in [kind : K, refs : Operands, attempt : {1}]
    BY DEF Wanted
  <2> HIDE DEF Operands, K
  <2>3. QED
    BY <2>1, <2>2 DEF Requests
<1>2. CASE Allocate(req)
  <2>1. PICK o \in FreshIds(req) : Install(o, req)
    BY <1>2 DEF Allocate
  <2>2. o \in Id
    BY DEF FreshIds, Id
  <2>3. phase = "idle" /\ request = NoRequest
    BY <1>2 DEF Allocate, Mutating, HeapInv, RequestRooted
  <2>4. QED
    BY <1>1, <1>2, <2>1, <2>2, <2>3, InstallInv DEF Allocate, gcVars, Marking
<1>3. CASE AllocateCollecting(req)
  BY <1>1, <1>3, BeginCollectInv DEF AllocateCollecting, Mutating, Marking
<1>4. QED
  BY <1>2, <1>3

LEMMA CollectInv == ASSUME HeapInv, Collect PROVE HeapInv'
  BY BeginCollectInv DEF Collect, Mutating, Marking, vmVars, HeapInv, TypeOK, RequestRooted

LEMMA MutatorInv == ASSUME HeapInv, Mutator PROVE HeapInv'
<1>1. GenIds \subseteq Id
  BY DEF Id
<1>2. QED
  BY <1>1, LoadInv, StoreRefInv, ClearRefInv, DropInv, AllocateInv, CollectInv, RegisterFinalizerInv,
     GuardianTrackInv, UnregisterFinalizerInv, GuardianCollectInv, DrainStartInv, DrainEndInv
  DEF Mutator

-----------------------------------------------------------------------------
(* The collector: marking. *)

LEMMA MarkOneInv == ASSUME HeapInv, NEW o \in Id, MarkOne(o) PROVE HeapInv'
<1> USE DEF MarkOne
<1>1. /\ Marking /\ Marking' /\ phase' = phase
      /\ UNCHANGED <<kind, refs, finTable, pending, ready, roots, running, request, deadKeys>>
      /\ phase # "sweepGen" /\ phase # "idle" /\ phase # "done"
      /\ Tricolour
  BY DEF heapVars, vmVars, weakVars, Marking, HeapInv
<1>2. TypeOK'
  BY DEF HeapInv, TypeOK, heapVars, vmVars, weakVars, VisitRefs, Live, HeapClosed, Marking
<1>3. /\ UNCHANGED <<Live, VmRoots, PendingVals, StrongRoots, Registered>>
      /\ \A x \in Id : VisitRefs(x)' = VisitRefs(x)
      /\ PoolPlain' /\ DeadEmpty' /\ HeapClosed'
  BY <1>1, GraphFrame DEF HeapInv
<1>4. Tricolour'
  <2>1. VisitRefs(o) \subseteq Live /\ marked \subseteq Id
    BY <1>1 DEF HeapInv, HeapClosed, TypeOK
  <2>2. CASE o \in Live \ marked
    <3>1. marked' = marked \cup {o} /\ work' = (work \ {o}) \cup VisitRefs(o)
      BY <2>2
    <3>2. QED
      BY <1>1, <1>3, <2>1, <2>2, <3>1 DEF Tricolour
  <2>3. CASE o \notin Live \ marked
    <3>1. marked' = marked /\ work' = work \ {o} /\ o \in marked
      BY <1>1, <2>3 DEF Tricolour
    <3>2. QED
      BY <1>1, <1>3, <3>1, <2>1 DEF Tricolour
  <2>4. QED
    BY <2>2, <2>3
<1>5. RequestRooted'
  BY <1>1 DEF HeapInv, RequestRooted
<1>6. QED
  BY <1>1, <1>2, <1>3, <1>4, <1>5 DEF HeapInv

LEMMA MarkPendingInv == ASSUME HeapInv, MarkPending PROVE HeapInv'
<1> USE DEF MarkPending
<1>1. /\ Marking /\ Marking' /\ phase' \in {"pending1", "pending2"}
      /\ UNCHANGED <<kind, refs, finTable, pending, ready, roots, running, request>>
      /\ phase # "sweepGen" /\ phase # "idle" /\ phase # "done"
      /\ Tricolour
  BY DEF heapVars, vmVars, weakVars, Marking, HeapInv
<1>2. /\ UNCHANGED <<Live, VmRoots, PendingVals, StrongRoots, Registered>>
      /\ \A x \in Id : VisitRefs(x)' = VisitRefs(x)
      /\ PoolPlain' /\ DeadEmpty' /\ HeapClosed'
  BY <1>1, GraphFrame DEF HeapInv
<1>3. PendingVals \subseteq Live
  BY <1>1 DEF HeapInv, HeapClosed, StrongRoots
<1>4. TypeOK'
  BY <1>1, <1>3 DEF HeapInv, TypeOK, heapVars, vmVars, weakVars, Live, Phases
<1>5. Tricolour'
  BY <1>1, <1>2, <1>3 DEF Tricolour, HeapInv, TypeOK
<1>6. RequestRooted'
  BY <1>1 DEF HeapInv, RequestRooted
<1>7. QED
  BY <1>1, <1>2, <1>4, <1>5, <1>6 DEF HeapInv

LEMMA BeginFixpointInv == ASSUME HeapInv, BeginFixpoint PROVE HeapInv'
<1> USE DEF BeginFixpoint
<1>1. /\ Marking /\ Marking' /\ phase' \in {"fix1", "fix2"}
      /\ phase' = "fix2" => phase = "pending2"
      /\ UNCHANGED <<kind, refs, finTable, pending, ready, roots, running, request>>
      /\ phase # "sweepGen" /\ phase # "idle" /\ phase # "done"
      /\ Tricolour
  BY DEF heapVars, vmVars, weakVars, Marking, HeapInv
<1>2. /\ UNCHANGED <<Live, VmRoots, PendingVals, StrongRoots, Registered>>
      /\ \A x \in Id : VisitRefs(x)' = VisitRefs(x)
      /\ PoolPlain' /\ DeadEmpty' /\ HeapClosed'
  BY <1>1, GraphFrame DEF HeapInv
<1>3. TypeOK'
  BY <1>1 DEF HeapInv, TypeOK, heapVars, vmVars, weakVars, Phases
<1>4. Tricolour'
  BY <1>1, <1>2 DEF Tricolour, HeapInv, TypeOK
<1>5. RequestRooted'
  BY <1>1 DEF HeapInv, RequestRooted
<1>6. QED
  BY <1>1, <1>2, <1>3, <1>4, <1>5 DEF HeapInv

LEMMA FixpointStepInv == ASSUME HeapInv, NEW o \in Id, FixpointStep(o) PROVE HeapInv'
<1> USE DEF FixpointStep
<1>1. /\ Marking /\ Marking' /\ phase' = phase
      /\ UNCHANGED <<kind, refs, finTable, pending, ready, roots, running, request>>
      /\ phase # "sweepGen" /\ phase # "idle" /\ phase # "done" /\ phase # "enqFin"
      /\ Tricolour
  BY DEF heapVars, vmVars, weakVars, Marking, HeapInv
<1>2. /\ UNCHANGED <<Live, VmRoots, PendingVals, StrongRoots, Registered>>
      /\ \A x \in Id : VisitRefs(x)' = VisitRefs(x)
      /\ PoolPlain' /\ DeadEmpty' /\ HeapClosed'
  BY <1>1, GraphFrame DEF HeapInv
<1>3. finTable[o] \in Live
  BY DEF UnmarkedProcs
<1>4. TypeOK'
  BY <1>1, <1>3 DEF HeapInv, TypeOK, heapVars, vmVars, weakVars, Live
<1>5. Tricolour'
  BY <1>1, <1>2, <1>3 DEF Tricolour, HeapInv, TypeOK
<1>6. RequestRooted'
  BY <1>1 DEF HeapInv, RequestRooted
<1>7. QED
  BY <1>1, <1>2, <1>4, <1>5, <1>6 DEF HeapInv

LEMMA SnapshotDeadInv == ASSUME HeapInv, SnapshotDead PROVE HeapInv'
<1> USE DEF SnapshotDead
<1>1. /\ Marking /\ Marking' /\ phase = "fix1" /\ phase' = "enqFin"
      /\ UNCHANGED <<kind, refs, finTable, pending, ready, roots, running, request>>
      /\ Tricolour
  BY DEF heapVars, vmVars, weakVars, Marking, HeapInv
<1>2. /\ UNCHANGED <<Live, VmRoots, PendingVals, StrongRoots, Registered>>
      /\ \A x \in Id : VisitRefs(x)' = VisitRefs(x)
      /\ PoolPlain' /\ DeadEmpty' /\ HeapClosed'
  BY <1>1, GraphFrame DEF HeapInv
<1>3. deadKeys' \subseteq Registered'
  BY <1>1 DEF Registered, Id
<1>4. \A pair \in tracking : pair[2] \in GenIds
  BY DEF HeapInv, TypeOK
<1>5. deadKeys' \subseteq GenIds /\ deadObjs' \subseteq GenIds
  BY <1>4
<1>6. TypeOK'
  BY <1>1, <1>5 DEF HeapInv, TypeOK, heapVars, vmVars, weakVars, Phases
<1>7. Tricolour'
  BY <1>1, <1>2 DEF Tricolour, HeapInv, TypeOK
<1>8. RequestRooted'
  BY <1>1 DEF HeapInv, RequestRooted
<1>9. QED
  BY <1>1, <1>2, <1>3, <1>6, <1>7, <1>8 DEF HeapInv

LEMMA BeginGuardiansInv == ASSUME HeapInv, BeginGuardians PROVE HeapInv'
<1> USE DEF BeginGuardians
<1>1. /\ Marking /\ Marking' /\ phase = "enqFin" /\ phase' = "enqGuard"
      /\ UNCHANGED <<kind, refs, finTable, pending, ready, roots, running, request>>
      /\ Tricolour
  BY DEF heapVars, vmVars, weakVars, Marking, HeapInv
<1>2. /\ UNCHANGED <<Live, VmRoots, PendingVals, StrongRoots, Registered>>
      /\ \A x \in Id : VisitRefs(x)' = VisitRefs(x)
      /\ PoolPlain' /\ DeadEmpty' /\ HeapClosed'
  BY <1>1, GraphFrame DEF HeapInv
<1>3. TypeOK'
  BY <1>1 DEF HeapInv, TypeOK, heapVars, vmVars, weakVars, Phases
<1>4. Tricolour'
  BY <1>1, <1>2 DEF Tricolour, HeapInv, TypeOK
<1>5. RequestRooted'
  BY <1>1 DEF HeapInv, RequestRooted
<1>6. QED
  BY <1>1, <1>2, <1>3, <1>4, <1>5 DEF HeapInv

(* The collector: finalizers and guardians of the dead. *)

LEMMA EnqueueDeadFinalizerInv ==
  ASSUME HeapInv, NEW o \in GenIds, EnqueueDeadFinalizer(o) PROVE HeapInv'
<1> USE DEF EnqueueDeadFinalizer
<1>1. /\ Marking /\ Marking' /\ phase = "enqFin" /\ phase' = "enqFin"
      /\ UNCHANGED <<kind, refs, ready, roots, running, request, marked, Live, VmRoots>>
      /\ \A x \in Id : VisitRefs(x)' = VisitRefs(x)
      /\ Tricolour /\ o \in Id /\ o \in Registered
      /\ pending \in Seq(Finalizers) /\ Live \subseteq Id
  BY DEF heapVars, vmVars, Marking, HeapInv, Live, VisitRefs, VmRoots, RunningVals, Id, TypeOK
<1>2. finTable[o] \in Live /\ finTable[o] # NoProc
  BY <1>1 DEF HeapInv, HeapClosed, Registered
<1>3. /\ finTable'[o] = NoProc
      /\ \A x \in Id \ {o} : finTable'[x] = finTable[x]
  BY <1>1 DEF HeapInv, TypeOK
<1>4. /\ pending' \in Seq(Finalizers)
      /\ Range(pending') \subseteq Range(pending) \cup {[obj |-> o, proc |-> finTable[o]]}
      /\ o \notin Live => pending' = pending
      /\ o \in Live \/ pending' = pending
      /\ work' \subseteq work \cup {o, finTable[o]}
      /\ work \subseteq work' /\ (o \in Live \/ work' = work)
  <2>1. CASE o \in Live
    <3>1. [obj |-> o, proc |-> finTable[o]] \in Finalizers
      BY <1>1, <1>2 DEF Finalizers
    <3>2. /\ pending' = Append(pending, [obj |-> o, proc |-> finTable[o]])
          /\ work' = {o, finTable[o]} /\ work = {}
      BY <2>1
    <3>3. /\ Append(pending, [obj |-> o, proc |-> finTable[o]]) \in Seq(Finalizers)
          /\ Range(Append(pending, [obj |-> o, proc |-> finTable[o]]))
               = Range(pending) \cup {[obj |-> o, proc |-> finTable[o]]}
      BY <3>1, <1>1, RangeOfAppend
    <3>4. QED
      BY <2>1, <3>2, <3>3
  <2>2. CASE o \notin Live
    BY <2>2, <1>1
  <2>3. QED
    BY <2>1, <2>2
<1>5. TypeOK'
  <2>1. work' \subseteq Id /\ finTable' \in [Id -> Id \cup {NoProc}]
    BY <1>1, <1>2, <1>4 DEF HeapInv, TypeOK
  <2>2. QED
    BY <1>1, <1>4, <2>1 DEF HeapInv, TypeOK, heapVars, vmVars
<1>6. PendingVals' \subseteq PendingVals \cup {o, finTable[o]} /\ (o \in Live \/ PendingVals' = PendingVals)
  BY <1>4 DEF PendingVals
<1>7. PoolPlain' /\ DeadEmpty'
  BY <1>1, <1>3, IdAssumption DEF HeapInv, PoolPlain, DeadEmpty, Id
<1>8. HeapClosed'
  <2>1. StrongRoots' \subseteq Live
    BY <1>1, <1>2, <1>6 DEF StrongRoots, HeapInv, HeapClosed
  <2>2. QED
    BY <2>1, <1>1, <1>3 DEF HeapInv, HeapClosed
<1>9. Tricolour'
  <2>1. marked \subseteq Id
    BY DEF HeapInv, TypeOK
  <2>2. work' \subseteq Live
    BY <1>1, <1>2, <1>4 DEF Tricolour
  <2>3. QED
    BY <1>1, <1>4, <2>1, <2>2 DEF Tricolour
<1>10. RequestRooted'
  BY <1>1 DEF HeapInv, RequestRooted
<1>11. deadKeys' \subseteq Registered'
  BY <1>1, <1>3 DEF HeapInv, Registered
<1>12. QED
  BY <1>1, <1>5, <1>7, <1>8, <1>9, <1>10, <1>11 DEF HeapInv

LEMMA GuardianTurnInv ==
  ASSUME HeapInv, NEW g \in GenIds, NEW o \in GenIds, GuardianTurn(g, o) PROVE HeapInv'
<1> USE DEF GuardianTurn
<1>1. /\ Marking /\ Marking' /\ phase = "enqGuard" /\ phase' = "enqGuard"
      /\ UNCHANGED <<kind, refs, finTable, pending, roots, running, request, marked,
                     Live, VmRoots, StrongRoots>>
      /\ Tricolour /\ o \in Id /\ g \in Id /\ work = {} /\ marked \subseteq Id
  BY DEF heapVars, vmVars, Marking, HeapInv, Live, VmRoots, RunningVals, Id,
         StrongRoots, PendingVals, TypeOK
<1>2. tracking' \subseteq tracking /\ todo' \subseteq todo
  OBVIOUS
<1>3. CASE UNCHANGED <<ready, work>>
  <2>1. /\ \A x \in Id : VisitRefs(x)' = VisitRefs(x)
        /\ PoolPlain' /\ DeadEmpty' /\ HeapClosed'
    BY <1>1, <1>3, GraphFrame DEF HeapInv
  <2>2. TypeOK'
    BY <1>1, <1>2, <1>3 DEF HeapInv, TypeOK, heapVars, vmVars
  <2>3. Tricolour'
    BY <1>1, <1>3, <2>1 DEF Tricolour
  <2>4. RequestRooted'
    BY <1>1 DEF HeapInv, RequestRooted
  <2>5. QED
    BY <1>1, <2>1, <2>2, <2>3, <2>4 DEF HeapInv
<1>4. CASE /\ g \in marked /\ o \in Live
           /\ ready' = [ready EXCEPT ![g] = Append(@, o)]
           /\ work' = {o}
  <2>1. /\ ready[g] \in Seq(GenIds)
        /\ ready'[g] = Append(ready[g], o)
        /\ \A x \in Id \ {g} : ready'[x] = ready[x]
    BY <1>1, <1>4 DEF HeapInv, TypeOK
  <2>2. /\ Range(ready'[g]) = Range(ready[g]) \cup {o}
        /\ ready'[g] \in Seq(GenIds)
    BY <2>1, RangeOfAppend
  <2>3. TypeOK'
    <3>1. ready' \in [Id -> Seq(GenIds)]
      BY <1>4, <2>1, <2>2 DEF HeapInv, TypeOK
    <3>2. QED
      BY <1>1, <1>2, <1>4, <3>1 DEF HeapInv, TypeOK, heapVars, vmVars
  <2>4. /\ VisitRefs(g)' = VisitRefs(g) \cup {o}
        /\ \A x \in Id \ {g} : VisitRefs(x)' = VisitRefs(x)
    BY <1>1, <2>1, <2>2 DEF VisitRefs
  <2>5. g \in Live
    BY <1>1, <1>4 DEF Tricolour
  <2>6. PoolPlain'
    BY <1>1, <2>1, IdAssumption DEF HeapInv, PoolPlain, Id
  <2>7. DeadEmpty'
    BY <1>1, <2>4, <2>5 DEF HeapInv, DeadEmpty
  <2>8. HeapClosed'
    BY <1>1, <1>4, <2>4 DEF HeapInv, HeapClosed
  <2>9. Tricolour'
    BY <1>1, <1>4, <2>4 DEF Tricolour
  <2>10. RequestRooted'
    BY <1>1 DEF HeapInv, RequestRooted
  <2>11. QED
    BY <1>1, <2>3, <2>6, <2>7, <2>8, <2>9, <2>10 DEF HeapInv
<1>5. QED
  BY <1>3, <1>4

-----------------------------------------------------------------------------
(* The collector: the sweep. *)

LEMMA SweepPoolInv == ASSUME HeapInv, SweepPool PROVE HeapInv'
<1> DEFINE freed == (PoolIds \cap Live) \ marked
<1>1. /\ Marking /\ ~Marking' /\ phase = "fix2" /\ phase' = "sweepGen"
      /\ UNCHANGED <<finTable, pending, ready, roots, running, request, marked, used, tracking,
                     work, deadKeys, deadObjs, todo, VmRoots, StrongRoots>>
      /\ Tricolour /\ work = {} /\ UnmarkedProcs = {} /\ freed \subseteq Id
      /\ kind' = [o \in Id |-> IF o \in freed THEN "free" ELSE kind[o]]
      /\ refs' = [o \in Id |-> IF o \in freed THEN {} ELSE refs[o]]
      /\ garbage' = (GenIds \cap Live) \ marked
  BY DEF SweepPool, weakVars, vmVars, Marking, HeapInv, VmRoots, RunningVals, Id, StrongRoots, PendingVals
<1> HIDE DEF freed
<1>2. Live' = Live \ freed
  BY <1>1 DEF Live
<1>3. /\ \A x \in Id \ freed : VisitRefs(x)' = VisitRefs(x)
      /\ \A x \in freed : VisitRefs(x)' = {}
  <2>1. \A x \in freed : Range(ready[x]) = {}
    BY DEF HeapInv, PoolPlain, freed
  <2>2. QED
    BY <1>1, <2>1 DEF VisitRefs
<1>4. TypeOK'
  <2>1. kind' \in [Id -> Kinds \cup {"free"}] /\ refs' \in [Id -> SUBSET Id]
    BY <1>1 DEF HeapInv, TypeOK
  <2>2. garbage' \subseteq GenIds
    BY <1>1
  <2>3. QED
    BY <1>1, <2>1, <2>2 DEF HeapInv, TypeOK, Phases
<1>5. PoolPlain' /\ RequestRooted'
  BY <1>1 DEF HeapInv, PoolPlain, RequestRooted
<1>6. DeadEmpty'
  <2>1. \A x \in freed : finTable[x] = NoProc
    BY DEF HeapInv, PoolPlain, freed
  <2>2. QED
    BY <1>1, <1>2, <1>3, <2>1 DEF HeapInv, DeadEmpty
<1>7. SweepClosed'
  <2>1. /\ marked \subseteq Live /\ VmRoots \subseteq marked /\ PendingVals \subseteq marked
        /\ \A x \in marked : VisitRefs(x) \subseteq marked
    BY <1>1 DEF Tricolour
  <2>2. marked \cap freed = {} /\ marked \subseteq Id
    BY DEF freed, HeapInv, TypeOK
  <2>3. \A x \in marked : finTable[x] # NoProc => finTable[x] \in marked
    BY <1>1 DEF UnmarkedProcs, HeapInv, HeapClosed, TypeOK
  <2>4. Live \subseteq Id
    BY DEF Live
  <2>5. Live' \subseteq marked \cup garbage'
    BY <1>1, <1>2, <2>4 DEF freed, Id
  <2>6. QED
    BY <1>1, <1>2, <1>3, <2>1, <2>2, <2>3, <2>5 DEF SweepClosed, StrongRoots
<1>8. QED
  BY <1>1, <1>4, <1>5, <1>6, <1>7 DEF HeapInv

LEMMA DeallocateInv == ASSUME HeapInv, NEW o \in GenIds, Deallocate(o) PROVE HeapInv'
<1> USE DEF Deallocate
<1>1. /\ ~Marking /\ ~Marking' /\ phase = "sweepGen" /\ phase' = "sweepGen"
      /\ UNCHANGED <<roots, running, request, marked, used, work, deadKeys, deadObjs, todo>>
      /\ SweepClosed /\ o \in Id /\ o \notin marked
  BY DEF vmVars, Marking, HeapInv, Id, SweepClosed
<1>2. \A e \in Range(pending) : e.obj # o
  BY <1>1 DEF SweepClosed, StrongRoots, PendingVals
<1>3. pending' = pending
  BY <1>2, NoMatch
<1>4. Live' = Live \ {o}
  BY <1>1 DEF Live, HeapInv, TypeOK
<1>5. /\ \A x \in Id \ {o} : kind'[x] = kind[x] /\ refs'[x] = refs[x] /\ ready'[x] = ready[x]
                             /\ finTable'[x] = finTable[x]
      /\ refs'[o] = {} /\ ready'[o] = <<>> /\ finTable'[o] = NoProc
  BY <1>1 DEF HeapInv, TypeOK
<1>6. /\ \A x \in Id \ {o} : VisitRefs(x)' = VisitRefs(x)
      /\ VisitRefs(o)' = {}
  BY <1>1, <1>5, RangeOfEmpty DEF VisitRefs
<1>7. TypeOK'
  <2>1. /\ kind' \in [Id -> Kinds \cup {"free"}]
        /\ refs' \in [Id -> SUBSET Id]
        /\ ready' \in [Id -> Seq(GenIds)]
        /\ finTable' \in [Id -> Id \cup {NoProc}]
    BY <1>1 DEF HeapInv, TypeOK
  <2>2. tracking' \subseteq tracking /\ garbage' \subseteq garbage
    OBVIOUS
  <2>3. QED
    BY <1>1, <1>3, <2>1, <2>2 DEF HeapInv, TypeOK
<1>8. PoolPlain' /\ RequestRooted'
  BY <1>1, <1>5, RangeOfEmpty DEF HeapInv, PoolPlain, RequestRooted, Id
<1>9. DeadEmpty'
  BY <1>4, <1>5, <1>6 DEF HeapInv, DeadEmpty
<1>10. StrongRoots' = StrongRoots
  BY <1>1, <1>3 DEF StrongRoots, VmRoots, RunningVals, PendingVals
<1>11. SweepClosed'
  <2>1. marked \subseteq Id
    BY DEF HeapInv, TypeOK
  <2>2. QED
    BY <1>1, <1>4, <1>5, <1>6, <1>10, <2>1 DEF SweepClosed
<1>12. QED
  BY <1>1, <1>7, <1>8, <1>9, <1>11 DEF HeapInv

LEMMA EndCollectInv == ASSUME HeapInv, EndCollect PROVE HeapInv'
<1> USE DEF EndCollect
<1>1. /\ ~Marking /\ ~Marking' /\ phase = "sweepGen" /\ phase' \in {"idle", "done"}
      /\ UNCHANGED <<kind, refs, finTable, pending, ready, roots, running, request>>
      /\ phase' = "idle" <=> request = NoRequest
      /\ SweepClosed
  BY DEF heapVars, vmVars, weakVars, Marking, HeapInv
<1>2. Live = marked
  BY <1>1 DEF SweepClosed
<1>3. HeapClosed
  <2>1. \A x \in Id : VisitRefs(x) \subseteq Live /\ (finTable[x] # NoProc => finTable[x] \in Live)
    BY <1>1, <1>2 DEF SweepClosed, HeapInv, DeadEmpty
  <2>2. QED
    BY <1>1, <1>2, <2>1 DEF SweepClosed, HeapClosed
<1>4. PoolPlain' /\ DeadEmpty' /\ HeapClosed'
  BY <1>1, <1>3, GraphFrame DEF HeapInv
<1>5. TypeOK'
  BY <1>1 DEF HeapInv, TypeOK, heapVars, vmVars, weakVars, Phases
<1>6. RequestRooted'
  BY <1>1 DEF HeapInv, RequestRooted
<1>7. QED
  BY <1>1, <1>4, <1>5, <1>6 DEF HeapInv

LEMMA AfterCollectInv ==
  ASSUME HeapInv, AllocateAfterCollect \/ RetryCons \/ AllocationFails PROVE HeapInv'
<1>1. /\ phase = "done" /\ ~Marking /\ phase # "sweepGen"
      /\ request \in Requests /\ request.refs \subseteq roots
  BY DEF AllocateAfterCollect, RetryCons, AllocationFails, Marking, HeapInv, RequestRooted, TypeOK
<1>2. CASE AllocateAfterCollect
  <2>1. PICK o \in FreshIds(request) : Install(o, request)
    BY <1>2 DEF AllocateAfterCollect
  <2>2. o \in Id
    BY DEF FreshIds, Id
  <2>3. QED
    BY <1>1, <1>2, <2>1, <2>2, InstallInv DEF AllocateAfterCollect
<1>3. CASE RetryCons
  <2>1. request' \in Requests /\ request'.refs = request.refs
    BY <1>1, <1>3 DEF RetryCons, Requests
  <2>2. QED
    BY <1>1, <1>3, <2>1, BeginCollectInv DEF RetryCons
<1>4. CASE AllocationFails
  <2>1. /\ UNCHANGED <<kind, refs, finTable, pending, ready, roots, running>>
        /\ phase' = "idle" /\ request' = NoRequest /\ ~Marking'
    BY <1>4 DEF AllocationFails, heapVars, weakVars, Marking
  <2>2. PoolPlain' /\ DeadEmpty' /\ HeapClosed'
    BY <1>1, <2>1, GraphFrame DEF HeapInv
  <2>3. TypeOK'
    BY <1>4 DEF AllocationFails, HeapInv, TypeOK, heapVars, weakVars, Phases
  <2>4. RequestRooted'
    BY <2>1 DEF RequestRooted
  <2>5. QED
    BY <2>1, <2>2, <2>3, <2>4 DEF HeapInv
<1>5. QED
  BY <1>2, <1>3, <1>4

LEMMA CollectorInv == ASSUME HeapInv, Collector PROVE HeapInv'
  BY MarkOneInv, FixpointStepInv, EnqueueDeadFinalizerInv, DeallocateInv, GuardianTurnInv,
     MarkPendingInv, BeginFixpointInv, SnapshotDeadInv, BeginGuardiansInv, SweepPoolInv,
     EndCollectInv, AfterCollectInv
  DEF Collector

LEMMA StutterInv == ASSUME HeapInv, UNCHANGED vars PROVE HeapInv'
<1>1. /\ UNCHANGED <<kind, refs, finTable, pending, ready, roots, running, request, phase,
                     marked, work, deadKeys, Live, VmRoots, StrongRoots, PendingVals, Registered>>
      /\ \A x \in Id : VisitRefs(x)' = VisitRefs(x)
      /\ PoolPlain' /\ DeadEmpty'
      /\ HeapClosed => HeapClosed'
      /\ Marking' = Marking
  BY GraphFrame DEF vars, heapVars, weakVars, vmVars, gcVars, HeapInv, Marking
<1>2. TypeOK'
  BY DEF HeapInv, TypeOK, vars, heapVars, weakVars, vmVars, gcVars
<1>3. RequestRooted'
  BY <1>1 DEF HeapInv, RequestRooted
<1>4. Tricolour => Tricolour'
  BY <1>1 DEF Tricolour, HeapInv, TypeOK
<1>5. SweepClosed => SweepClosed'
  BY <1>1 DEF SweepClosed, HeapInv, TypeOK, vars, gcVars
<1>6. QED
  BY <1>1, <1>2, <1>3, <1>4, <1>5 DEF HeapInv

-----------------------------------------------------------------------------
(***************************************************************************)
(* The heap invariant: in every state of every collection the heap is      *)
(* closed, marking is tri-coloured and the sweep works on a closed marked  *)
(* set, for any number of objects, references, finalizers and guardians.   *)
(***************************************************************************)
THEOREM HeapInvariant == Spec => []HeapInv
<1>1. Init => HeapInv
  BY InitInv
<1>2. HeapInv /\ [Next]_vars => HeapInv'
  BY MutatorInv, CollectorInv, StutterInv DEF Next
<1>3. QED
  BY <1>1, <1>2, PTL DEF Spec

(***************************************************************************)
(* Every variable keeps its type; in particular no id is ever paired with  *)
(* a finalizer procedure or a guardian of the wrong sort.                  *)
(***************************************************************************)
THEOREM TypeCorrect == Spec => []TypeOK
<1>1. HeapInv => TypeOK
  BY DEF HeapInv
<1>2. QED
  BY <1>1, HeapInvariant, PTL

\* A set that holds the roots and is closed under the edges holds all that is
\* reachable.
LEMMA ReachableBound ==
  ASSUME NEW R, NEW edge, NEW S, S \subseteq DOMAIN edge, R \subseteq S, ClosedUnder(S, edge)
  PROVE  Reachable(R, edge) \subseteq S
  BY DEF Reachable

LEMMA HeapInvImpliesSafe == HeapInv => ReachableIsLive
<1> SUFFICES ASSUME HeapInv PROVE StrongReach \subseteq Live
  BY DEF ReachableIsLive
<1>1. DOMAIN Edge = Id /\ \A o \in Id : Edge[o] = VisitRefs(o) \cup FinEdge(o)
  BY DEF Edge
<1>2. Live \subseteq Id
  BY DEF Live
<1>3. CASE phase # "sweepGen"
  <2>1. StrongRoots \subseteq Live /\ \A o \in Id : Edge[o] \subseteq Live
    BY <1>1, <1>3 DEF HeapInv, HeapClosed, FinEdge
  <2>2. ClosedUnder(Live, Edge)
    BY <1>2, <2>1 DEF ClosedUnder
  <2>3. QED
    BY <1>1, <1>2, <2>1, <2>2, ReachableBound DEF StrongReach
<1>4. CASE phase = "sweepGen"
  <2>1. StrongRoots \subseteq marked /\ marked \subseteq Live /\ \A o \in marked : Edge[o] \subseteq marked
    BY <1>1, <1>2, <1>4 DEF HeapInv, SweepClosed, FinEdge
  <2>2. ClosedUnder(marked, Edge) /\ marked \subseteq Id
    BY <1>2, <2>1 DEF ClosedUnder
  <2>3. QED
    BY <1>1, <2>1, <2>2, ReachableBound DEF StrongReach
<1>5. QED
  BY <1>3, <1>4

(***************************************************************************)
(* The collector is safe: nothing reachable from the VM's roots, the       *)
(* finalizer queue and the procedures of live keys is ever freed.          *)
(***************************************************************************)
THEOREM Safety == Spec => []ReachableIsLive
  BY HeapInvariant, HeapInvImpliesSafe, PTL

-----------------------------------------------------------------------------
(* Reachability. *)

\* The least set that holds the roots and is closed under the edges.
LEMMA ReachableIsLeast ==
  ASSUME NEW R \in SUBSET Id, NEW edge \in [Id -> SUBSET Id]
  PROVE  /\ Reachable(R, edge) \subseteq Id
         /\ R \subseteq Reachable(R, edge)
         /\ \A x \in Reachable(R, edge) : edge[x] \subseteq Reachable(R, edge)
         /\ \A S \in SUBSET Id : R \subseteq S /\ (\A x \in S : edge[x] \subseteq S)
              => Reachable(R, edge) \subseteq S
<1>1. DOMAIN edge = Id
  OBVIOUS
<1>2. Reachable(R, edge) \subseteq Id /\ R \subseteq Reachable(R, edge)
  BY <1>1 DEF Reachable
<1>3. ASSUME NEW x \in Reachable(R, edge), NEW y \in edge[x] PROVE y \in Reachable(R, edge)
  <2>1. x \in Id /\ y \in Id
    BY <1>2, <1>3
  <2>2. ASSUME NEW S \in SUBSET Id, R \subseteq S, ClosedUnder(S, edge) PROVE y \in S
    <3>1. x \in S
      BY <1>1, <1>3, <2>2 DEF Reachable
    <3>2. QED
      BY <1>3, <2>2, <3>1 DEF ClosedUnder
  <2>3. QED
    BY <1>1, <2>1, <2>2 DEF Reachable
<1>4. \A S \in SUBSET Id : R \subseteq S /\ (\A x \in S : edge[x] \subseteq S)
        => Reachable(R, edge) \subseteq S
  BY <1>1 DEF Reachable, ClosedUnder
<1>5. QED
  BY <1>2, <1>3, <1>4

\* What the proofs use of the two reachable sets.
ProgramFacts ==
  /\ ProgramReach \subseteq Id
  /\ VmRoots \subseteq ProgramReach
  /\ \A x \in ProgramReach : VisitRefs(x) \subseteq ProgramReach
  /\ \A S \in SUBSET Id : VmRoots \subseteq S /\ (\A x \in S : VisitRefs(x) \subseteq S)
       => ProgramReach \subseteq S

StrongFacts ==
  /\ StrongReach \subseteq Id
  /\ StrongRoots \subseteq StrongReach
  /\ \A x \in StrongReach : VisitRefs(x) \subseteq StrongReach
  /\ \A x \in StrongReach : finTable[x] # NoProc => finTable[x] \in StrongReach
  /\ \A S \in SUBSET Id :
       /\ StrongRoots \subseteq S
       /\ \A x \in S : VisitRefs(x) \subseteq S /\ (finTable[x] # NoProc => finTable[x] \in S)
       => StrongReach \subseteq S

LEMMA VisitRefsInId == HeapInv => \A x \in Id : VisitRefs(x) \subseteq Id
<1> SUFFICES ASSUME HeapInv, NEW x \in Id PROVE VisitRefs(x) \subseteq Id
  OBVIOUS
<1>1. refs[x] \subseteq Id /\ ready[x] \in Seq(GenIds)
  BY DEF HeapInv, TypeOK
<1>2. QED
  BY <1>1, RangeInSet DEF VisitRefs, Id

LEMMA RootsInId == HeapInv => StrongRoots \subseteq Id /\ VmRoots \subseteq Id
<1> SUFFICES ASSUME HeapInv PROVE StrongRoots \subseteq Id
  BY DEF StrongRoots
<1>1. CASE phase # "sweepGen"
  BY <1>1 DEF HeapInv, HeapClosed, Live
<1>2. CASE phase = "sweepGen"
  BY <1>2 DEF HeapInv, SweepClosed, Live
<1>3. QED
  BY <1>1, <1>2

LEMMA ReachFacts == HeapInv => ProgramFacts /\ StrongFacts
<1> SUFFICES ASSUME HeapInv PROVE ProgramFacts /\ StrongFacts
  OBVIOUS
<1>1. ProgramFacts
  <2> DEFINE edge == [x \in Id |-> VisitRefs(x)]
  <2>1. edge \in [Id -> SUBSET Id] /\ \A x \in Id : edge[x] = VisitRefs(x)
    BY VisitRefsInId
  <2>2. VmRoots \in SUBSET Id
    BY RootsInId
  <2>3. ProgramReach = Reachable(VmRoots, edge)
    BY DEF ProgramReach
  <2> HIDE DEF edge
  <2>4. QED
    BY <2>1, <2>2, <2>3, ReachableIsLeast DEF ProgramFacts
<1>2. StrongFacts
  <2>1. /\ Edge \in [Id -> SUBSET Id]
        /\ \A x \in Id : Edge[x] = VisitRefs(x) \cup (IF finTable[x] = NoProc THEN {} ELSE {finTable[x]})
    BY VisitRefsInId DEF Edge, FinEdge, HeapInv, TypeOK
  <2>2. StrongRoots \in SUBSET Id
    BY RootsInId
  <2>3. /\ StrongReach \subseteq Id
        /\ StrongRoots \subseteq StrongReach
        /\ \A x \in StrongReach : Edge[x] \subseteq StrongReach
        /\ \A S \in SUBSET Id : StrongRoots \subseteq S /\ (\A x \in S : Edge[x] \subseteq S)
             => StrongReach \subseteq S
    BY <2>1, <2>2, ReachableIsLeast DEF StrongReach
  <2>4. QED
    BY <2>1, <2>3 DEF StrongFacts
<1>3. QED
  BY <1>1, <1>2

LEMMA ReachFactsNext == HeapInv' => ProgramFacts' /\ StrongFacts'
  BY ReachFacts, PTL

\* Once the work list is empty, and during the sweep, the program reaches
\* marked objects only.
LEMMA ReachIsMarked ==
  ASSUME HeapInv, (Marking /\ work = {}) \/ phase = "sweepGen"
  PROVE  ProgramReach \subseteq marked
<1>1. marked \in SUBSET Id
  BY DEF HeapInv, TypeOK
<1>2. VmRoots \subseteq marked /\ \A x \in marked : VisitRefs(x) \subseteq marked
  BY DEF HeapInv, Tricolour, SweepClosed, StrongRoots
<1>3. QED
  BY <1>1, <1>2, ReachFacts DEF ProgramFacts

LEMMA ReachIsLive == HeapInv => ProgramReach \subseteq Live
<1> SUFFICES ASSUME HeapInv PROVE ProgramReach \subseteq Live
  OBVIOUS
<1>1. Live \in SUBSET Id
  BY DEF Live
<1>2. CASE phase = "sweepGen"
  BY <1>2, ReachIsMarked DEF HeapInv, SweepClosed
<1>3. CASE phase # "sweepGen"
  <2>1. VmRoots \subseteq Live /\ \A x \in Live : VisitRefs(x) \subseteq Live
    BY <1>1, <1>3 DEF HeapInv, HeapClosed, StrongRoots
  <2>2. QED
    BY <1>1, <2>1, ReachFacts DEF ProgramFacts
<1>4. QED
  BY <1>2, <1>3

-----------------------------------------------------------------------------
(* What a step may change. *)

\* A mutator step runs between collections, keeps every object, adds tracking
\* pairs of rooted objects only, and starts a collection or does not.
LEMMA MutatorShape ==
  ASSUME HeapInv, Mutator
  PROVE  /\ phase = "idle" /\ phase' \in {"idle", "mark"}
         /\ Live \subseteq Live'
         /\ \A pair \in tracking' : pair \in tracking \/ (pair[1] \in roots /\ pair[2] \in roots)
         /\ tracking \subseteq tracking'
<1>1. ASSUME NEW req \in Wanted, Allocate(req) \/ AllocateCollecting(req)
      PROVE  /\ phase = "idle" /\ phase' \in {"idle", "mark"}
             /\ Live \subseteq Live' /\ tracking' = tracking
  <2>1. req.kind # "free"
    <3>1. req.kind \in NewKinds \cup {"cons"}
      BY DEF Wanted
    <3>2. QED
      BY <3>1, KindAssumption
  <2>2. CASE Allocate(req)
    <3>1. PICK o \in FreshIds(req) : Install(o, req)
      BY <2>2 DEF Allocate
    <3>2. QED
      BY <2>1, <2>2, <3>1 DEF Allocate, Mutating, Install, Live, gcVars, weakVars, HeapInv, TypeOK
  <2>3. CASE AllocateCollecting(req)
    BY <2>3 DEF AllocateCollecting, BeginCollect, Mutating, Live, heapVars, weakVars
  <2>4. QED
    BY <1>1, <2>2, <2>3
<1>2. CASE Collect
  BY <1>2 DEF Collect, BeginCollect, Mutating, Live, heapVars, weakVars
<1>3. CASE \E o, r \in Id : Load(o, r) \/ StoreRef(o, r) \/ ClearRef(o, r)
  BY <1>3 DEF Load, StoreRef, ClearRef, Mutating, Live, heapVars, weakVars, gcVars
<1>4. CASE \E o \in Id : Drop(o)
  BY <1>4 DEF Drop, Mutating, Live, heapVars, weakVars, gcVars
<1>5. CASE \E o, p \in GenIds : RegisterFinalizer(o, p) \/ GuardianTrack(o, p)
  BY <1>5 DEF RegisterFinalizer, GuardianTrack, Mutating, Live, heapVars, gcVars
<1>6. CASE \E o \in GenIds : UnregisterFinalizer(o) \/ GuardianCollect(o)
  BY <1>6 DEF UnregisterFinalizer, GuardianCollect, Mutating, Live, heapVars, gcVars
<1>7. CASE DrainStart \/ DrainEnd
  BY <1>7 DEF DrainStart, DrainEnd, Mutating, Live, heapVars, weakVars, gcVars
<1>8. QED
  BY <1>1, <1>2, <1>3, <1>4, <1>5, <1>6, <1>7 DEF Mutator

-----------------------------------------------------------------------------
(* The guardians' tracking pairs. *)

(***************************************************************************)
(* A pair names allocated objects.  Once the dead are known, the tracked   *)
(* object of a pair is marked or condemned; a pair enqueue_dead_guardians  *)
(* has dealt with and kept has both sides marked, and so has every pair    *)
(* when the sweep begins.                                                  *)
(***************************************************************************)
TrackInv ==
  /\ \A pair \in tracking : pair[1] \in Live /\ pair[2] \in Live
  /\ phase \in {"enqFin", "enqGuard"} =>
       \A pair \in tracking : pair[2] \in marked \cup deadObjs
  /\ phase = "enqGuard" =>
       \A pair \in tracking \ todo : pair[1] \in marked /\ pair[2] \in marked
  /\ phase \in {"pending2", "fix2", "sweepGen"} =>
       \A pair \in tracking : pair[1] \in marked /\ pair[2] \in marked

LEMMA TrackMutator == ASSUME HeapInv, TrackInv, Mutator PROVE TrackInv'
<1>1. roots \subseteq Live
  BY MutatorShape DEF HeapInv, HeapClosed, StrongRoots, VmRoots
<1>2. QED
  BY <1>1, MutatorShape DEF TrackInv

\* Marking and the fixpoint: tracking, todo and deadObjs stay, marks only grow.
LEMMA TrackMark ==
  ASSUME HeapInv, TrackInv, UNCHANGED <<kind, tracking, todo, deadObjs>>, marked \subseteq marked',
         \/ phase' = phase
         \/ phase' \notin {"enqFin", "enqGuard", "pending2", "fix2", "sweepGen"}
         \/ phase = "pending2" /\ phase' = "fix2"
  PROVE  TrackInv'
  BY DEF TrackInv, Live

LEMMA TrackCollector == ASSUME HeapInv, TrackInv, Collector PROVE TrackInv'
<1>1. CASE \E o \in Id : MarkOne(o) \/ FixpointStep(o)
  BY <1>1, TrackMark DEF MarkOne, FixpointStep, heapVars, weakVars
<1>2. CASE \E o \in GenIds : EnqueueDeadFinalizer(o)
  BY <1>2, TrackMark DEF EnqueueDeadFinalizer, heapVars
<1>3. ASSUME NEW o \in GenIds, Deallocate(o) PROVE TrackInv'
  <2>1. phase = "sweepGen" /\ phase' = "sweepGen" /\ marked' = marked /\ o \in garbage
    BY <1>3 DEF Deallocate
  <2>2. o \notin marked /\ marked \subseteq Live
    BY <2>1 DEF HeapInv, SweepClosed
  <2>3. \A x \in Live \ {o} : x \in Live'
    BY <1>3 DEF Deallocate, Live, HeapInv, TypeOK
  <2>4. \A pair \in tracking' : pair \in tracking
    BY <1>3 DEF Deallocate
  <2>5. QED
    BY <2>1, <2>2, <2>3, <2>4 DEF TrackInv
<1>4. ASSUME NEW g \in GenIds, NEW o \in GenIds, GuardianTurn(g, o) PROVE TrackInv'
  <2>1. /\ phase = "enqGuard" /\ phase' = "enqGuard" /\ UNCHANGED <<marked, deadObjs, Live>>
        /\ tracking' \subseteq tracking /\ todo' = todo \ {<<g, o>>}
        /\ <<g, o>> \notin tracking' \/ (g \in marked /\ o \notin deadObjs)
    BY <1>4 DEF GuardianTurn, heapVars, Live
  <2>2. <<g, o>> \in tracking' => g \in marked /\ o \in marked
    BY <2>1 DEF TrackInv
  <2>3. \A pair \in tracking' \ todo' : pair[1] \in marked /\ pair[2] \in marked
    <3>1. ASSUME NEW pair \in tracking' \ todo' PROVE pair[1] \in marked /\ pair[2] \in marked
      <4>1. CASE pair = <<g, o>>
        BY <2>2, <3>1, <4>1
      <4>2. CASE pair # <<g, o>>
        BY <2>1, <3>1, <4>2 DEF TrackInv
      <4>3. QED
        BY <4>1, <4>2
    <3>2. QED
      BY <3>1
  <2>4. QED
    BY <2>1, <2>3 DEF TrackInv
<1>5. CASE MarkPending
  <2>1. CASE phase = "mark"
    BY <1>5, <2>1, TrackMark DEF MarkPending, heapVars, weakVars
  <2>2. CASE phase = "enqGuard" /\ todo = {} /\ phase' = "pending2"
    BY <1>5, <2>2 DEF MarkPending, heapVars, weakVars, TrackInv, Live
  <2>3. QED
    BY <1>5, <2>1, <2>2 DEF MarkPending
<1>6. CASE BeginFixpoint
  BY <1>6, TrackMark DEF BeginFixpoint, heapVars, weakVars
<1>7. CASE SnapshotDead
  BY <1>7 DEF SnapshotDead, heapVars, weakVars, TrackInv, Live
<1>8. CASE BeginGuardians
  BY <1>8 DEF BeginGuardians, heapVars, weakVars, TrackInv, Live
<1>9. CASE SweepPool
  <2>1. /\ phase = "fix2" /\ phase' = "sweepGen" /\ UNCHANGED <<marked, tracking>>
        /\ \A x \in Live \cap marked : x \in Live'
    BY <1>9 DEF SweepPool, weakVars, Live
  <2>2. marked \subseteq Live
    BY <2>1 DEF HeapInv, Tricolour, Marking
  <2>3. QED
    BY <2>1, <2>2 DEF TrackInv
<1>10. CASE EndCollect
  BY <1>10, Zenon DEF EndCollect, heapVars, weakVars, TrackInv, Live
<1>11. CASE AllocateAfterCollect \/ RetryCons \/ AllocationFails
  <2>1. /\ phase' \in {"idle", "mark"} /\ tracking' = tracking
        /\ Live \subseteq Live'
    <3>1. CASE AllocateAfterCollect
      <4>1. request \in Requests
        BY <3>1 DEF AllocateAfterCollect, HeapInv, RequestRooted, TypeOK
      <4>2. request.kind # "free"
        BY <4>1 DEF Requests, Kinds
      <4>3. QED
        BY <3>1, <4>2 DEF AllocateAfterCollect, Install, Live, weakVars, HeapInv, TypeOK
    <3>2. CASE RetryCons \/ AllocationFails
      BY <3>2 DEF RetryCons, AllocationFails, BeginCollect, Live, heapVars, weakVars
    <3>3. QED
      BY <1>11, <3>1, <3>2
  <2>2. QED
    BY <2>1 DEF TrackInv
<1>12. QED
  BY <1>1, <1>2, <1>3, <1>4, <1>5, <1>6, <1>7, <1>8, <1>9, <1>10, <1>11 DEF Collector

LEMMA TrackStep == HeapInv /\ TrackInv /\ [Next]_vars => TrackInv'
<1>1. ASSUME HeapInv, TrackInv, UNCHANGED vars PROVE TrackInv'
  BY <1>1, TrackMark DEF vars, heapVars, weakVars, gcVars
<1>2. QED
  BY <1>1, TrackMutator, TrackCollector DEF Next

(***************************************************************************)
(* The tracking pairs are sound in every state of every collection: this   *)
(* invariant is what keeps Heap::deallocate from leaving a pair behind,    *)
(* although it erases the pairs of one side only.                          *)
(***************************************************************************)
THEOREM TrackingInvariant == Spec => []TrackInv
<1>1. Init => TrackInv
  BY DEF Init, TrackInv
<1>2. QED
  BY <1>1, HeapInvariant, TrackStep, PTL DEF Spec

(***************************************************************************)
(* Between collections the weak tables name allocated objects only         *)
(* (heap.cpp:326-338): a reused or stale id is never delivered.            *)
(***************************************************************************)
THEOREM WeakTables == Spec => []WeakTablesLive
<1>1. HeapInv /\ TrackInv => WeakTablesLive
  BY DEF HeapInv, HeapClosed, DeadEmpty, TrackInv, WeakTablesLive, TypeOK
<1>2. QED
  BY <1>1, HeapInvariant, TrackingInvariant, PTL

\* One step of GuardianReceives, the property of mark_sweep_gc.h:366.
Received ==
  \A pair \in tracking \ tracking' :
    pair[1] \notin ProgramReach \/ ready'[pair[1]] = Append(ready[pair[1]], pair[2])

LEMMA ReceivedStep == HeapInv /\ TrackInv /\ [Next]_vars => Received
<1> SUFFICES ASSUME HeapInv, TrackInv, [Next]_vars PROVE Received
  OBVIOUS
<1>1. ASSUME NEW g \in GenIds, NEW o \in GenIds, GuardianTurn(g, o) PROVE Received
  <2>1. /\ Marking /\ work = {} /\ g \in Id
        /\ tracking \ tracking' \subseteq {<<g, o>>}
    BY <1>1 DEF GuardianTurn, Marking, Id
  <2>2. g \in ProgramReach => g \in marked
    BY <2>1, ReachIsMarked
  <2>3. ASSUME <<g, o>> \in tracking \ tracking', g \in marked
        PROVE  ready'[g] = Append(ready[g], o)
    <3>1. o \in Live
      BY <2>3 DEF TrackInv
    <3>2. ready' = [ready EXCEPT ![g] = Append(@, o)]
      BY <1>1, <2>3, <3>1 DEF GuardianTurn
    <3>3. QED
      BY <2>1, <3>2 DEF HeapInv, TypeOK
  <2>4. QED
    BY <2>1, <2>2, <2>3 DEF Received
<1>2. ASSUME NEW o \in GenIds, Deallocate(o) PROVE Received
  <2>1. phase = "sweepGen" /\ o \notin marked
    BY <1>2 DEF Deallocate, HeapInv, SweepClosed
  <2>2. \A pair \in tracking : pair \in tracking'
    BY <1>2, <2>1 DEF Deallocate, TrackInv
  <2>3. QED
    BY <2>2 DEF Received
<1>3. CASE Mutator
  BY <1>3, MutatorShape DEF Received
<1>4. CASE UNCHANGED vars
  BY <1>4 DEF vars, weakVars, Received
<1>5. CASE Collector /\ UNCHANGED tracking
  BY <1>5 DEF Received
<1>6. Collector => UNCHANGED tracking \/ \E o \in GenIds : Deallocate(o)
                     \/ \E g \in GenIds : GuardianTurn(g, o)
  BY DEF Collector, MarkOne, FixpointStep, EnqueueDeadFinalizer, MarkPending, BeginFixpoint,
         SnapshotDead, BeginGuardians, SweepPool, EndCollect, AllocateAfterCollect, RetryCons,
         AllocationFails, weakVars
<1>7. QED
  BY <1>1, <1>2, <1>3, <1>4, <1>5, <1>6 DEF Next

(***************************************************************************)
(* A guardian the program can reach loses a tracked object only by         *)
(* receiving it in its queue, whatever order the pairs are visited in.     *)
(***************************************************************************)
THEOREM GuardiansReceive == Spec => GuardianReceives
<1>1. HeapInv /\ TrackInv /\ [Next]_vars => [Received]_vars
  BY ReceivedStep
<1>2. Spec => [][Received]_vars
  BY <1>1, HeapInvariant, TrackingInvariant, PTL DEF Spec
<1>3. QED
  BY <1>2 DEF GuardianReceives, Received

-----------------------------------------------------------------------------
(* The queue of finalizer calls. *)

OnePerObject(q) == \A i, j \in DOMAIN q : q[i].obj = q[j].obj => i = j

LEMMA AppendOnePerObject ==
  ASSUME NEW q \in Seq(Finalizers), NEW e \in Finalizers, OnePerObject(q),
         \A x \in Range(q) : x.obj # e.obj
  PROVE  OnePerObject(Append(q, e))
<1>1. /\ DOMAIN q = 1..Len(q) /\ Len(q) \in Nat
      /\ DOMAIN Append(q, e) = 1..(Len(q) + 1)
      /\ \A i \in 1..Len(q) : Append(q, e)[i] = q[i]
      /\ Append(q, e)[Len(q) + 1] = e
  OBVIOUS
<1>2. \A i \in 1..Len(q) : q[i].obj # e.obj
  BY <1>1 DEF Range
<1>3. QED
  BY <1>1, <1>2 DEF OnePerObject

LEMMA TailOnePerObject ==
  ASSUME NEW q \in Seq(Finalizers), q # <<>>, OnePerObject(q)
  PROVE  /\ OnePerObject(Tail(q))
         /\ \A x \in Range(Tail(q)) : x.obj # Head(q).obj
<1>1. /\ DOMAIN q = 1..Len(q) /\ Len(q) \in Nat \ {0} /\ Head(q) = q[1]
      /\ DOMAIN Tail(q) = 1..(Len(q) - 1)
      /\ \A i \in 1..(Len(q) - 1) : Tail(q)[i] = q[i + 1]
  OBVIOUS
<1>2. \A i \in 1..(Len(q) - 1) : i + 1 \in 1..Len(q) /\ i + 1 # 1
  BY <1>1
<1>3. OnePerObject(Tail(q))
  BY <1>1, <1>2 DEF OnePerObject
<1>4. \A i \in 1..(Len(q) - 1) : Tail(q)[i].obj # Head(q).obj
  BY <1>1, <1>2 DEF OnePerObject
<1>5. QED
  BY <1>1, <1>3, <1>4 DEF Range

LEMMA OnceByRange ==
  FinalizedOnce <=> /\ OnePerObject(pending)
                    /\ running # NoneRunning => \A e \in Range(pending) : e.obj # running.obj
  BY DEF FinalizedOnce, OnePerObject, Range

\* Phases in which every registered object is marked.
AfterFinalizers == {"enqGuard", "pending2", "fix2", "sweepGen"}

(***************************************************************************)
(* At most one call per object; the queue is marked before the dead keys   *)
(* are taken, so none of them is queued or running, nor within the         *)
(* program's reach; and a registered object that is not marked is a dead   *)
(* key.                                                                    *)
(***************************************************************************)
QueueInv ==
  /\ FinalizedOnce
  /\ phase \in {"pending1", "fix1"} => PendingVals \subseteq marked \cup work
  /\ phase = "enqFin" => \A o \in deadKeys : FinalizerStage(o) = "none"
  /\ phase = "enqFin" => Registered \subseteq marked \cup deadKeys
  /\ phase \in AfterFinalizers => Registered \subseteq marked
  /\ CondemnedIsUnreachable

\* The queue and the running call change only in these steps.
LEMMA QueueSteps ==
  ASSUME HeapInv, Next
  PROVE  \/ UNCHANGED <<pending, running>>
         \/ DrainStart \/ DrainEnd
         \/ \E o \in GenIds : EnqueueDeadFinalizer(o)
<1>1. ASSUME NEW o \in GenIds, Deallocate(o) PROVE UNCHANGED <<pending, running>>
  <2>1. o \notin marked /\ PendingVals \subseteq marked
    BY <1>1 DEF Deallocate, HeapInv, SweepClosed, StrongRoots
  <2>2. \A e \in Range(pending) : e.obj # o
    BY <2>1 DEF PendingVals
  <2>3. QED
    BY <1>1, <2>2, NoMatch DEF Deallocate, vmVars
<1>2. QED
  BY <1>1 DEF Next, Mutator, Collector, Load, StoreRef, ClearRef, Drop, Allocate,
     AllocateCollecting, Collect, RegisterFinalizer, GuardianTrack, UnregisterFinalizer,
     GuardianCollect, MarkOne, FixpointStep, GuardianTurn, MarkPending, BeginFixpoint,
     SnapshotDead, BeginGuardians, SweepPool, EndCollect, AllocateAfterCollect, RetryCons,
     AllocationFails, weakVars, vmVars

LEMMA EnqueueFacts ==
  ASSUME HeapInv, NEW o \in GenIds, EnqueueDeadFinalizer(o)
  PROVE  /\ phase = "enqFin" /\ phase' = "enqFin" /\ o \in Live /\ o \in Id
         /\ o \in deadKeys /\ deadKeys' = deadKeys \ {o}
         /\ finTable[o] \in Id
         /\ finTable'[o] = NoProc
         /\ \A x \in Id \ {o} : finTable'[x] = finTable[x]
         /\ [obj |-> o, proc |-> finTable[o]] \in Finalizers
         /\ pending' = Append(pending, [obj |-> o, proc |-> finTable[o]])
         /\ Range(pending') = Range(pending) \cup {[obj |-> o, proc |-> finTable[o]]}
         /\ work = {} /\ work' = {o, finTable[o]}
         /\ UNCHANGED <<kind, refs, ready, tracking, roots, running, marked, deadObjs>>
<1> USE DEF EnqueueDeadFinalizer
<1>1. phase = "enqFin" /\ o \in deadKeys /\ o \in Id
  BY DEF Id
<1>2. o \in Registered
  BY <1>1 DEF HeapInv
<1>3. o \in Live
  BY <1>1, <1>2 DEF HeapInv, DeadEmpty, Registered
<1>4. finTable[o] \in Id
  BY <1>1, <1>2 DEF HeapInv, TypeOK, Registered
<1>5. [obj |-> o, proc |-> finTable[o]] \in Finalizers
  BY <1>4 DEF Finalizers
<1>6. /\ pending' = Append(pending, [obj |-> o, proc |-> finTable[o]])
      /\ work = {} /\ work' = {o, finTable[o]}
  BY <1>3
<1>7. Range(pending') = Range(pending) \cup {[obj |-> o, proc |-> finTable[o]]}
  BY <1>5, <1>6, RangeOfAppend DEF HeapInv, TypeOK
<1>8. QED
  BY <1>1, <1>3, <1>4, <1>5, <1>6, <1>7 DEF HeapInv, TypeOK, heapVars, vmVars

LEMMA OnceStep == ASSUME HeapInv, QueueInv, Next PROVE FinalizedOnce'
<1>1. pending \in Seq(Finalizers) /\ OnePerObject(pending)
  BY OnceByRange DEF HeapInv, TypeOK, QueueInv
<1>2. CASE UNCHANGED <<pending, running>>
  BY <1>2 DEF QueueInv, FinalizedOnce
<1>3. CASE DrainStart
  <2>1. pending # <<>> /\ pending' = Tail(pending) /\ running' = Head(pending)
    BY <1>3 DEF DrainStart
  <2>2. /\ OnePerObject(Tail(pending))
        /\ \A e \in Range(Tail(pending)) : e.obj # Head(pending).obj
    BY <1>1, <2>1, TailOnePerObject
  <2>3. \A i \in DOMAIN Tail(pending) : Tail(pending)[i].obj # Head(pending).obj
    BY <2>2 DEF Range
  <2>4. QED
    BY <2>1, <2>2, <2>3 DEF FinalizedOnce, OnePerObject
<1>4. CASE DrainEnd
  BY <1>4 DEF DrainEnd, weakVars, QueueInv, FinalizedOnce
<1>5. ASSUME NEW o \in GenIds, EnqueueDeadFinalizer(o) PROVE FinalizedOnce'
  <2> DEFINE e == [obj |-> o, proc |-> finTable[o]]
  <2>1. /\ e \in Finalizers /\ e.obj = o /\ pending' = Append(pending, e)
        /\ Range(pending') = Range(pending) \cup {e}
        /\ running' = running /\ FinalizerStage(o) = "none"
    BY <1>5, EnqueueFacts DEF QueueInv
  <2> HIDE DEF e
  <2>2. /\ \A x \in Range(pending) : x.obj # o
        /\ running # NoneRunning => running.obj # o
    BY <2>1 DEF FinalizerStage
  <2>3. OnePerObject(pending')
    BY <1>1, <2>1, <2>2, AppendOnePerObject
  <2>4. running' # NoneRunning => \A x \in Range(pending') : x.obj # running'.obj
    BY <2>1, <2>2, OnceByRange DEF QueueInv
  <2>5. \A i \in DOMAIN pending' : pending'[i] \in Range(pending')
    BY DEF Range
  <2>6. QED
    BY <2>3, <2>4, <2>5 DEF FinalizedOnce, OnePerObject
<1>6. QED
  BY <1>2, <1>3, <1>4, <1>5, QueueSteps

\* The program's reach does not change while the objects, the queues of the
\* guardians and the VM's own references stay.
LEMMA ReachFrame ==
  ASSUME UNCHANGED <<refs, ready, roots, running>>
  PROVE  ProgramReach' = ProgramReach
  BY DEF ProgramReach, VmRoots, RunningVals, VisitRefs

LEMMA QueueCollector == ASSUME HeapInv, QueueInv, Collector PROVE QueueInv'
<1>1. FinalizedOnce'
  BY OnceStep DEF Next
<1>2. ASSUME NEW o \in Id, MarkOne(o) PROVE QueueInv'
  <2>1. /\ phase' = phase /\ marked \subseteq marked' /\ marked \cup work \subseteq marked' \cup work'
        /\ UNCHANGED <<Registered, deadKeys, deadObjs, PendingVals, ProgramReach>>
        /\ \A x \in Id : FinalizerStage(x)' = FinalizerStage(x)
    <3>1. marked \cup work \subseteq marked' \cup work'
      BY <1>2 DEF MarkOne, HeapInv, Tricolour
    <3>2. ProgramReach' = ProgramReach
      BY <1>2, ReachFrame DEF MarkOne, heapVars, weakVars, vmVars
    <3>3. QED
      BY <1>2, <3>1, <3>2 DEF MarkOne, heapVars, weakVars, vmVars, Registered, PendingVals, FinalizerStage
  <2>2. deadKeys \subseteq Id
    BY DEF HeapInv, TypeOK, Id
  <2>3. QED
    BY <1>1, <2>1, <2>2 DEF QueueInv, CondemnedIsUnreachable
<1>3. CASE \E o \in Id : FixpointStep(o)
  <2>1. /\ phase' = phase /\ phase \in {"fix1", "fix2"} /\ marked' = marked /\ work = {}
        /\ UNCHANGED <<Registered, PendingVals>>
    BY <1>3 DEF FixpointStep, heapVars, weakVars, vmVars, Registered, PendingVals
  <2>2. QED
    BY <1>1, <2>1 DEF QueueInv, CondemnedIsUnreachable
<1>4. ASSUME NEW o \in GenIds, EnqueueDeadFinalizer(o) PROVE QueueInv'
  <2>1. /\ phase = "enqFin" /\ phase' = "enqFin" /\ deadKeys' = deadKeys \ {o}
        /\ Range(pending') = Range(pending) \cup {[obj |-> o, proc |-> finTable[o]]}
        /\ UNCHANGED <<running, marked, deadObjs>>
        /\ finTable'[o] = NoProc
        /\ \A x \in Id \ {o} : finTable'[x] = finTable[x]
    BY <1>4, EnqueueFacts
  <2>2. ProgramReach' = ProgramReach
    BY <1>4, EnqueueFacts, ReachFrame
  <2>3. \A x \in deadKeys' : FinalizerStage(x)' = "none"
    BY <2>1 DEF QueueInv, FinalizerStage
  <2>4. Registered' \subseteq Registered \ {o}
    BY <2>1 DEF Registered
  <2>5. QED
    BY <1>1, <2>1, <2>2, <2>3, <2>4 DEF QueueInv, CondemnedIsUnreachable, AfterFinalizers
<1>5. ASSUME NEW o \in GenIds, Deallocate(o) PROVE QueueInv'
  <2>1. phase = "sweepGen" /\ phase' = "sweepGen" /\ marked' = marked
        /\ finTable' = [finTable EXCEPT ![o] = NoProc]
    BY <1>5 DEF Deallocate
  <2>2. Registered' \subseteq Registered
    BY <2>1 DEF Registered, HeapInv, TypeOK
  <2>3. QED
    BY <1>1, <2>1, <2>2 DEF QueueInv, CondemnedIsUnreachable
<1>6. ASSUME NEW g \in GenIds, NEW o \in GenIds, GuardianTurn(g, o) PROVE QueueInv'
  <2>1. /\ phase = "enqGuard" /\ phase' = "enqGuard" /\ marked' = marked
        /\ Registered' = Registered
    BY <1>6 DEF GuardianTurn, Registered
  <2>2. QED
    BY <1>1, <2>1 DEF QueueInv, CondemnedIsUnreachable
<1>7. CASE MarkPending
  <2>1. /\ phase' \in {"pending1", "pending2"} /\ marked' = marked /\ work' = PendingVals
        /\ phase' = "pending2" => phase = "enqGuard"
        /\ UNCHANGED <<Registered, PendingVals>>
    BY <1>7 DEF MarkPending, heapVars, weakVars, vmVars, Registered, PendingVals
  <2>2. QED
    BY <1>1, <2>1 DEF QueueInv, CondemnedIsUnreachable, AfterFinalizers
<1>8. CASE BeginFixpoint
  <2>1. /\ phase' \in {"fix1", "fix2"} /\ marked' = marked /\ work' = work
        /\ phase' = "fix2" => phase = "pending2"
        /\ phase' = "fix1" => phase = "pending1"
        /\ UNCHANGED <<Registered, PendingVals>>
    BY <1>8 DEF BeginFixpoint, heapVars, weakVars, vmVars, Registered, PendingVals
  <2>2. QED
    BY <1>1, <2>1 DEF QueueInv, CondemnedIsUnreachable, AfterFinalizers
<1>9. CASE SnapshotDead
  <2>1. /\ phase = "fix1" /\ phase' = "enqFin" /\ work = {} /\ marked' = marked
        /\ deadKeys' = {o \in GenIds : finTable[o] # NoProc} \ marked
        /\ deadObjs' \cap marked = {}
        /\ UNCHANGED <<finTable, pending, running, Registered>>
    BY <1>9 DEF SnapshotDead, heapVars, weakVars, vmVars, Registered
  <2>2. ProgramReach' = ProgramReach /\ ProgramReach \subseteq marked
    BY <1>9, <2>1, ReachFrame, ReachIsMarked DEF SnapshotDead, heapVars, weakVars, vmVars, Marking
  <2>3. PendingVals \subseteq marked /\ RunningVals \subseteq marked
    BY <2>1 DEF QueueInv, HeapInv, Tricolour, Marking, VmRoots
  <2>4. \A x \in deadKeys' : FinalizerStage(x)' = "none"
    <3>1. ASSUME NEW x \in deadKeys' PROVE FinalizerStage(x) = "none"
      <4>1. x \notin marked
        BY <2>1
      <4>2. \A e \in Range(pending) : e.obj # x
        BY <2>3, <4>1 DEF PendingVals
      <4>3. ~(running # NoneRunning /\ running.obj = x)
        BY <2>3, <4>1 DEF RunningVals
      <4>4. QED
        BY <4>2, <4>3 DEF FinalizerStage
    <3>2. QED
      BY <2>1, <3>1 DEF FinalizerStage
  <2>5. Registered' \subseteq marked \cup deadKeys'
    BY <2>1 DEF Registered, HeapInv, PoolPlain, Id
  <2>6. QED
    BY <1>1, <2>1, <2>2, <2>4, <2>5 DEF QueueInv, CondemnedIsUnreachable, AfterFinalizers
<1>10. CASE BeginGuardians
  <2>1. /\ phase = "enqFin" /\ phase' = "enqGuard" /\ deadKeys = {} /\ marked' = marked
        /\ Registered' = Registered
    BY <1>10 DEF BeginGuardians, weakVars, Registered
  <2>2. QED
    BY <1>1, <2>1 DEF QueueInv, CondemnedIsUnreachable
<1>11. CASE SweepPool
  <2>1. /\ phase = "fix2" /\ phase' = "sweepGen" /\ marked' = marked
        /\ Registered' = Registered
    BY <1>11 DEF SweepPool, weakVars, Registered
  <2>2. QED
    BY <1>1, <2>1 DEF QueueInv, CondemnedIsUnreachable, AfterFinalizers
<1>12. CASE EndCollect \/ AllocateAfterCollect \/ RetryCons \/ AllocationFails
  <2>1. phase' \in {"idle", "done", "mark"}
    BY <1>12 DEF EndCollect, AllocateAfterCollect, RetryCons, AllocationFails, BeginCollect
  <2>2. QED
    BY <1>1, <2>1 DEF QueueInv, CondemnedIsUnreachable, AfterFinalizers
<1>13. QED
  BY <1>2, <1>3, <1>4, <1>5, <1>6, <1>7, <1>8, <1>9, <1>10, <1>11, <1>12 DEF Collector

LEMMA QueueStep == HeapInv /\ QueueInv /\ [Next]_vars => QueueInv'
<1>1. ASSUME HeapInv, QueueInv, Mutator PROVE QueueInv'
  <2>1. FinalizedOnce' /\ phase' \in {"idle", "mark"}
    BY <1>1, OnceStep, MutatorShape DEF Next
  <2>2. QED
    BY <2>1 DEF QueueInv, CondemnedIsUnreachable, AfterFinalizers
<1>2. ASSUME HeapInv, QueueInv, UNCHANGED vars PROVE QueueInv'
  <2>1. UNCHANGED <<phase, marked, work, deadKeys, deadObjs, Registered, PendingVals, ProgramReach>>
    BY <1>2, ReachFrame DEF vars, heapVars, weakVars, vmVars, gcVars, Registered, PendingVals
  <2>2. FinalizedOnce' /\ \A x \in deadKeys : FinalizerStage(x)' = FinalizerStage(x)
    BY <1>2 DEF vars, weakVars, vmVars, QueueInv, FinalizedOnce, FinalizerStage
  <2>3. QED
    BY <1>2, <2>1, <2>2 DEF QueueInv, CondemnedIsUnreachable
<1>3. QED
  BY <1>1, <1>2, QueueCollector DEF Next

(***************************************************************************)
(* The finalizer queue is sound in every state of every collection.        *)
(***************************************************************************)
THEOREM QueueInvariant == Spec => []QueueInv
<1>1. Init => QueueInv
  BY DEF Init, QueueInv, FinalizedOnce, CondemnedIsUnreachable, AfterFinalizers
<1>2. QED
  BY <1>1, HeapInvariant, QueueStep, PTL DEF Spec

(***************************************************************************)
(* An object waits for at most one finalizer call, and none waits for the  *)
(* object whose finalizer runs (mark_sweep_gc.h:341).                      *)
(***************************************************************************)
THEOREM OneCallPerObject == Spec => []FinalizedOnce
<1>1. QueueInv => FinalizedOnce
  BY DEF QueueInv
<1>2. QED
  BY <1>1, QueueInvariant, PTL

(***************************************************************************)
(* What the collector condemns is out of the program's reach.              *)
(***************************************************************************)
THEOREM CondemnedUnreachable == Spec => []CondemnedIsUnreachable
<1>1. QueueInv => CondemnedIsUnreachable
  BY DEF QueueInv
<1>2. QED
  BY <1>1, QueueInvariant, PTL

-----------------------------------------------------------------------------
(* Nothing leaks. *)

\* The collector marks, and keeps on its work list, only what the strong roots
\* lead to.
MarkedReached ==
  Marking \/ phase = "sweepGen" => marked \cup work \subseteq StrongReach

\* StrongReach' holds StrongReach when it is closed under the old edges.
LEMMA StrongReachGrows ==
  ASSUME HeapInv, HeapInv', StrongRoots \subseteq StrongReach',
         \A x \in StrongReach' : /\ VisitRefs(x) \subseteq StrongReach'
                                 /\ finTable[x] # NoProc => finTable[x] \in StrongReach'
  PROVE  StrongReach \subseteq StrongReach'
<1>1. StrongReach' \in SUBSET Id
  BY ReachFactsNext DEF StrongFacts
<1>2. QED
  BY <1>1, ReachFacts DEF StrongFacts

LEMMA StrongReachFrame ==
  ASSUME UNCHANGED <<refs, ready, finTable, pending, roots, running>>
  PROVE  StrongReach' = StrongReach /\ PendingVals' = PendingVals /\ VmRoots' = VmRoots
BY DEF StrongReach, StrongRoots, VmRoots, RunningVals, PendingVals, Edge, VisitRefs, FinEdge

LEMMA FinEdgeReached ==
  ASSUME HeapInv, NEW o \in StrongReach, finTable[o] # NoProc
  PROVE  finTable[o] \in StrongReach
  BY ReachFacts DEF StrongFacts

LEMMA MarkedMarking ==
  ASSUME HeapInv, HeapInv', MarkedReached,
         \/ \E o \in Id : MarkOne(o) \/ FixpointStep(o)
         \/ MarkPending \/ BeginFixpoint \/ SnapshotDead \/ BeginGuardians
  PROVE  MarkedReached'
<1>1. StrongReach' = StrongReach /\ PendingVals' = PendingVals
  BY StrongReachFrame DEF MarkOne, FixpointStep, MarkPending, BeginFixpoint, SnapshotDead,
     BeginGuardians, heapVars, weakVars, vmVars
<1>2. Marking => marked \cup work \subseteq StrongReach
  BY DEF MarkedReached
<1>3. ASSUME NEW o \in Id, MarkOne(o) PROVE marked' \cup work' \subseteq StrongReach
  <2>1. o \in StrongReach
    BY <1>2, <1>3 DEF MarkOne
  <2>2. VisitRefs(o) \subseteq StrongReach
    BY <2>1, ReachFacts DEF StrongFacts
  <2>3. QED
    BY <1>2, <1>3, <2>1, <2>2 DEF MarkOne
<1>4. ASSUME NEW o \in Id, FixpointStep(o) PROVE marked' \cup work' \subseteq StrongReach
  <2>1. o \in marked /\ finTable[o] # NoProc /\ marked' = marked /\ work' = {finTable[o]} /\ Marking
    BY <1>4 DEF FixpointStep, UnmarkedProcs, Marking
  <2>2. QED
    BY <1>2, <2>1, FinEdgeReached
<1>5. CASE MarkPending
  <2>1. marked' = marked /\ work' = PendingVals /\ Marking
    BY <1>5 DEF MarkPending, Marking
  <2>2. PendingVals \subseteq StrongReach
    BY ReachFacts DEF StrongFacts, StrongRoots
  <2>3. QED
    BY <1>1, <1>2, <2>1, <2>2 DEF MarkedReached
<1>6. CASE BeginFixpoint \/ SnapshotDead \/ BeginGuardians
  <2>1. marked' = marked /\ work' = work /\ Marking
    BY <1>6 DEF BeginFixpoint, SnapshotDead, BeginGuardians, Marking
  <2>2. QED
    BY <1>1, <1>2, <2>1 DEF MarkedReached
<1>7. QED
  BY <1>1, <1>3, <1>4, <1>5, <1>6 DEF MarkedReached

LEMMA MarkedEnqueue ==
  ASSUME HeapInv, HeapInv', MarkedReached, NEW o \in GenIds, EnqueueDeadFinalizer(o)
  PROVE  MarkedReached'
<1>1. /\ o \in Id /\ finTable'[o] = NoProc
      /\ \A x \in Id \ {o} : finTable'[x] = finTable[x]
      /\ Range(pending') = Range(pending) \cup {[obj |-> o, proc |-> finTable[o]]}
      /\ work' = {o, finTable[o]} /\ marked' = marked /\ phase = "enqFin" /\ phase' = "enqFin"
      /\ UNCHANGED <<refs, ready, roots, running>>
  BY EnqueueFacts
<1>2. PendingVals \cup {o, finTable[o]} \subseteq PendingVals' /\ VmRoots' = VmRoots
  <2> DEFINE e == [obj |-> o, proc |-> finTable[o]]
  <2>1. e.obj = o /\ e.proc = finTable[o] /\ Range(pending') = Range(pending) \cup {e}
    BY <1>1
  <2> HIDE DEF e
  <2>2. {e.obj, e.proc} \subseteq PendingVals'
    BY <2>1 DEF PendingVals
  <2>3. PendingVals \subseteq PendingVals'
    BY <2>1 DEF PendingVals
  <2>4. VmRoots' = VmRoots
    BY <1>1 DEF VmRoots, RunningVals
  <2>5. QED
    BY <2>1, <2>2, <2>3, <2>4
<1>3. StrongFacts'
  BY ReachFactsNext
<1>4. \A x \in StrongReach' : VisitRefs(x) \subseteq StrongReach'
  BY <1>1, <1>3 DEF StrongFacts, VisitRefs
<1>5. StrongRoots \cup {o, finTable[o]} \subseteq StrongReach'
  BY <1>2, <1>3 DEF StrongRoots, StrongFacts
<1>6. \A x \in StrongReach' : finTable[x] # NoProc => finTable[x] \in StrongReach'
  BY <1>1, <1>3, <1>5 DEF StrongFacts
<1>7. StrongReach \subseteq StrongReach'
  BY <1>4, <1>5, <1>6, StrongReachGrows
<1>8. marked \subseteq StrongReach
  BY <1>1 DEF MarkedReached, Marking
<1>9. QED
  BY <1>1, <1>5, <1>7, <1>8 DEF MarkedReached

LEMMA MarkedGuardianTurn ==
  ASSUME HeapInv, HeapInv', MarkedReached, NEW g \in GenIds, NEW o \in GenIds, GuardianTurn(g, o)
  PROVE  MarkedReached'
<1>1. /\ phase = "enqGuard" /\ work = {} /\ marked' = marked
      /\ UNCHANGED <<refs, finTable, pending, roots, running>>
  BY DEF GuardianTurn, heapVars, vmVars
<1>2. marked \subseteq StrongReach
  BY <1>1 DEF MarkedReached, Marking
<1>3. CASE UNCHANGED <<ready, work>>
  BY <1>1, <1>2, <1>3, StrongReachFrame DEF MarkedReached
<1>4. CASE g \in marked /\ ready' = [ready EXCEPT ![g] = Append(@, o)] /\ work' = {o}
  <2>1. /\ ready[g] \in Seq(GenIds) /\ g \in Id /\ ready'[g] = Append(ready[g], o)
        /\ \A x \in Id \ {g} : ready'[x] = ready[x]
    BY <1>4 DEF HeapInv, TypeOK, Id
  <2>2. Range(ready'[g]) = Range(ready[g]) \cup {o}
    BY <2>1, RangeOfAppend
  <2>3. \A x \in Id : VisitRefs(x) \subseteq VisitRefs(x)'
    BY <1>1, <2>1, <2>2 DEF VisitRefs
  <2>4. o \in VisitRefs(g)'
    BY <2>2 DEF VisitRefs
  <2>5. StrongRoots' = StrongRoots
    BY <1>1 DEF StrongRoots, VmRoots, RunningVals, PendingVals
  <2>6. StrongReach \subseteq StrongReach'
    <3>1. StrongFacts'
      BY ReachFactsNext
    <3>2. QED
      BY <1>1, <2>3, <2>5, <3>1, StrongReachGrows DEF StrongFacts
  <2>7. o \in StrongReach'
    BY <1>2, <1>4, <2>4, <2>6, ReachFactsNext DEF StrongFacts
  <2>8. QED
    BY <1>1, <1>2, <1>4, <2>6, <2>7 DEF MarkedReached
<1>5. QED
  BY <1>3, <1>4 DEF GuardianTurn

LEMMA DeallocateFacts ==
  ASSUME HeapInv, NEW o \in GenIds, Deallocate(o)
  PROVE  /\ phase = "sweepGen" /\ phase' = "sweepGen" /\ o \notin marked /\ o \in Id /\ o \in garbage
         /\ UNCHANGED <<marked, work, pending, roots, running, request, used>>
         /\ \A x \in Id \ {o} : refs'[x] = refs[x] /\ ready'[x] = ready[x] /\ finTable'[x] = finTable[x]
         /\ refs'[o] = {} /\ ready'[o] = <<>> /\ finTable'[o] = NoProc
         /\ Live' = Live \ {o}
<1>1. phase = "sweepGen" /\ o \notin marked /\ PendingVals \subseteq marked /\ o \in Id
  BY DEF Deallocate, HeapInv, SweepClosed, StrongRoots, Id
<1>2. \A e \in Range(pending) : e.obj # o
  BY <1>1 DEF PendingVals
<1>3. pending' = pending
  BY <1>2, NoMatch DEF Deallocate
<1>4. QED
  BY <1>1, <1>3 DEF Deallocate, vmVars, HeapInv, TypeOK, Live

LEMMA SweepPoolFacts ==
  ASSUME HeapInv, SweepPool
  PROVE  /\ phase = "fix2" /\ phase' = "sweepGen" /\ work = {} /\ Marking
         /\ UNCHANGED <<finTable, pending, tracking, ready, roots, running, request, marked, work, used>>
         /\ \A x \in marked : refs'[x] = refs[x]
         /\ \A x \in Id : refs'[x] \subseteq refs[x]
         /\ Live' = Live \ (PoolIds \ marked)
  BY DEF SweepPool, weakVars, vmVars, Marking, HeapInv, TypeOK, Live

\* A sweep frees unmarked objects, and no strong root leads to one.
LEMMA SweepKeepsReach ==
  ASSUME HeapInv, HeapInv', phase' = "sweepGen",
         UNCHANGED <<pending, roots, running>>,
         \A x \in marked' : /\ VisitRefs(x) = VisitRefs(x)'
                            /\ finTable[x] = finTable'[x]
  PROVE  StrongReach \subseteq StrongReach'
<1>1. StrongRoots' = StrongRoots
  BY DEF StrongRoots, VmRoots, RunningVals, PendingVals
<1>2. StrongFacts' /\ marked' \in SUBSET Id
  BY ReachFactsNext DEF HeapInv, TypeOK
<1>3. StrongReach' \subseteq marked'
  BY <1>2 DEF HeapInv, SweepClosed, StrongFacts
<1>4. QED
  BY <1>1, <1>2, <1>3, StrongReachGrows DEF StrongFacts

LEMMA MarkedSweep ==
  ASSUME HeapInv, HeapInv', MarkedReached, SweepPool \/ \E o \in GenIds : Deallocate(o)
  PROVE  MarkedReached'
<1>1. /\ phase' = "sweepGen" /\ UNCHANGED <<marked, work, pending, roots, running>>
      /\ \A x \in marked : VisitRefs(x) = VisitRefs(x)' /\ finTable[x] = finTable'[x]
      /\ Marking \/ phase = "sweepGen"
  <2>1. CASE SweepPool
    BY <2>1, SweepPoolFacts DEF VisitRefs
  <2>2. CASE \E o \in GenIds : Deallocate(o)
    <3>1. marked \subseteq Id
      BY DEF HeapInv, TypeOK
    <3>2. QED
      BY <2>2, <3>1, DeallocateFacts DEF VisitRefs
  <2>3. QED
    BY <2>1, <2>2
<1>2. QED
  BY <1>1, SweepKeepsReach DEF MarkedReached

LEMMA MarkedStep == HeapInv /\ HeapInv' /\ MarkedReached /\ [Next]_vars => MarkedReached'
<1> SUFFICES ASSUME HeapInv, HeapInv', MarkedReached, [Next]_vars PROVE MarkedReached'
  OBVIOUS
<1>1. ASSUME BeginCollect PROVE MarkedReached' \/ ~UNCHANGED <<roots, running>>
  <2>1. marked' = {} /\ work' = VmRoots
    BY <1>1 DEF BeginCollect
  <2>2. UNCHANGED <<roots, running>> => VmRoots = VmRoots'
    BY DEF VmRoots, RunningVals
  <2>3. VmRoots' \subseteq StrongReach'
    BY ReachFactsNext DEF StrongFacts, StrongRoots
  <2>4. QED
    BY <2>1, <2>2, <2>3 DEF MarkedReached
<1>2. CASE Mutator
  <2>1. CASE phase' = "idle"
    BY <2>1 DEF MarkedReached, Marking
  <2>2. CASE phase' = "mark"
    <3>1. BeginCollect /\ UNCHANGED <<roots, running>>
      BY <1>2, <2>2 DEF Mutator, Load, StoreRef, ClearRef, Drop, Allocate, AllocateCollecting, Collect,
         RegisterFinalizer, GuardianTrack, UnregisterFinalizer, GuardianCollect, DrainStart, DrainEnd,
         Mutating, gcVars, vmVars
    <3>2. QED
      BY <1>1, <3>1
  <2>3. QED
    BY <1>2, <2>1, <2>2, MutatorShape
<1>3. CASE EndCollect \/ AllocateAfterCollect \/ AllocationFails
  BY <1>3 DEF EndCollect, AllocateAfterCollect, AllocationFails, MarkedReached, Marking
<1>4. CASE RetryCons
  BY <1>1, <1>4 DEF RetryCons
<1>5. CASE UNCHANGED vars
  BY <1>5, StrongReachFrame DEF vars, heapVars, weakVars, vmVars, gcVars, MarkedReached, Marking
<1>6. QED
  BY <1>2, <1>3, <1>4, <1>5, MarkedMarking, MarkedEnqueue, MarkedGuardianTurn, MarkedSweep
  DEF Next, Collector

(***************************************************************************)
(* A collection frees everything it may: when the sweep is over, the heap  *)
(* holds exactly what the strong roots lead to.                            *)
(***************************************************************************)
THEOREM CollectionIsComplete == Spec => []NothingLeaks
<1>1. Init => MarkedReached
  BY DEF Init, MarkedReached, Marking
<1>2. Spec => []MarkedReached
  BY <1>1, HeapInvariant, MarkedStep, PTL DEF Spec
<1>3. HeapInv /\ MarkedReached => NothingLeaks
  <2> SUFFICES ASSUME HeapInv, MarkedReached, phase = "sweepGen", garbage = {}
               PROVE  Live = StrongReach
    BY DEF NothingLeaks
  <2>1. Live = marked /\ marked \in SUBSET Id
    BY DEF HeapInv, SweepClosed, TypeOK
  <2>2. marked \subseteq StrongReach
    BY DEF MarkedReached
  <2>3. StrongReach \subseteq marked
    BY <2>1, ReachFacts DEF HeapInv, SweepClosed, StrongFacts
  <2>4. QED
    BY <2>1, <2>2, <2>3
<1>4. QED
  BY <1>2, <1>3, HeapInvariant, PTL

-----------------------------------------------------------------------------
(* The byte count. *)

LEMMA TimesMinus ==
  ASSUME NEW a \in Nat, NEW n \in Nat, NEW m \in Nat
  PROVE  a * (n - m) = a * n - a * m /\ a * (n + m) = a * n + a * m /\ a * n \in Nat /\ a * 1 = a
  OBVIOUS

Conses == {o \in Live : kind[o] = "cons"}

\* total_heap_bytes of a heap with these many conses and general objects.
Bytes(c, g) == ConsSize * c + ObjSize * g

LEMMA BytesMoves ==
  ASSUME NEW c \in Nat, NEW g \in Nat, NEW m \in Nat
  PROVE  /\ Bytes(c + 1, g) = Bytes(c, g) + ConsSize
         /\ Bytes(c, g + 1) = Bytes(c, g) + ObjSize
         /\ Bytes(c - 1, g) = Bytes(c, g) - ConsSize
         /\ Bytes(c, g - 1) = Bytes(c, g) - ObjSize
         /\ Bytes(c - m, g) = Bytes(c, g) - ConsSize * m
         /\ ConsSize * m \in Nat /\ Bytes(c, g) \in Nat
<1>1. ConsSize \in Nat /\ ObjSize \in Nat
  BY SizeAssumption
<1>2. /\ ConsSize * (c + 1) = ConsSize * c + ConsSize
      /\ ConsSize * (c - 1) = ConsSize * c - ConsSize
      /\ ConsSize * (c - m) = ConsSize * c - ConsSize * m
      /\ ConsSize * c \in Nat /\ ConsSize * m \in Nat
  BY <1>1, TimesMinus
<1>3. /\ ObjSize * (g + 1) = ObjSize * g + ObjSize
      /\ ObjSize * (g - 1) = ObjSize * g - ObjSize
      /\ ObjSize * g \in Nat
  BY <1>1, TimesMinus
<1>4. QED
  BY <1>1, <1>2, <1>3 DEF Bytes

(***************************************************************************)
(* The count is right.  What makes it stay right: the pool holds conses    *)
(* only, an id of the general heap that was never handed out names no      *)
(* object, and the sweep frees no id twice.                                *)
(***************************************************************************)
BytesInv ==
  /\ IsFiniteSet(Live)
  /\ \A c \in PoolIds : kind[c] \in {"cons", "free"}
  /\ Live \cap GenIds \subseteq used
  /\ phase = "sweepGen" => garbage \subseteq Live
  /\ BytesAccounted

LEMMA Counts ==
  ASSUME BytesInv
  PROVE  /\ IsFiniteSet(Conses) /\ IsFiniteSet(Live \ Conses)
         /\ Cardinality(Conses) \in Nat /\ Cardinality(Live \ Conses) \in Nat
         /\ total = Bytes(Cardinality(Conses), Cardinality(Live \ Conses))
         /\ total \in Nat /\ total <= SoftLimit
         /\ ConsSize \in Nat /\ ObjSize \in Nat /\ SoftLimit \in Nat
<1>1. IsFiniteSet(Conses) /\ IsFiniteSet(Live \ Conses)
  BY FS_Subset DEF BytesInv, Conses
<1>2. Cardinality(Conses) \in Nat /\ Cardinality(Live \ Conses) \in Nat
  BY <1>1, FS_CardinalityType
<1>3. /\ total = Bytes(Cardinality(Conses), Cardinality(Live \ Conses))
      /\ total <= SoftLimit
  BY DEF BytesInv, BytesAccounted, Conses, Bytes
<1>4. ConsSize \in Nat /\ ObjSize \in Nat /\ SoftLimit \in Nat
  BY SizeAssumption
<1>5. total \in Nat
  BY <1>2, <1>3, <1>4, TimesMinus DEF Bytes
<1>6. QED
  BY <1>1, <1>2, <1>3, <1>4, <1>5

LEMMA BytesInstall ==
  ASSUME HeapInv, BytesInv, NEW req \in Requests, Fits(req),
         NEW o \in FreshIds(req), Install(o, req), phase' # "sweepGen"
  PROVE  BytesInv'
<1>1. /\ o \in Id /\ o \notin Live /\ Live' = Live \cup {o}
      /\ o \in PoolIds => req.kind = "cons"
      /\ \A x \in Id \ {o} : kind'[x] = kind[x]
      /\ kind'[o] = req.kind /\ used' = used \cup ({o} \cap GenIds)
      /\ total' = total + SizeOf(req.kind)
  <2>1. req.kind \in Kinds /\ req.kind # "free"
    BY DEF Requests, Kinds
  <2>2. o \in Id /\ o \notin Live /\ (o \in PoolIds => req.kind = "cons")
    BY IdAssumption DEF FreshIds, BytesInv, Id, Live
  <2>3. QED
    BY <2>1, <2>2 DEF Install, Live, HeapInv, TypeOK
<1>2. PoolIds \subseteq Id /\ Live \subseteq Id
  BY DEF Id, Live
<1>3. IsFiniteSet(Live')
  BY <1>1, FS_AddElement DEF BytesInv
<1>4. \A c \in PoolIds : kind'[c] \in {"cons", "free"}
  BY <1>1, <1>2 DEF BytesInv
<1>5. Live' \cap GenIds \subseteq used'
  BY <1>1 DEF BytesInv
<1>6. total + SizeOf(req.kind) <= SoftLimit
  BY DEF Fits
<1>7. CASE req.kind = "cons"
  <2>1. Conses' = Conses \cup {o} /\ Live' \ Conses' = Live \ Conses /\ o \notin Conses
    BY <1>1, <1>2, <1>7 DEF Conses
  <2>2. /\ Cardinality(Conses') = Cardinality(Conses) + 1
        /\ Cardinality(Live' \ Conses') = Cardinality(Live \ Conses)
    BY <2>1, Counts, FS_AddElement
  <2>3. total' = Bytes(Cardinality(Conses'), Cardinality(Live' \ Conses'))
    BY <1>1, <1>7, <2>2, Counts, BytesMoves DEF SizeOf
  <2>4. QED
    BY <1>1, <1>3, <1>4, <1>5, <1>6, <2>3 DEF BytesInv, BytesAccounted, Bytes, Conses
<1>8. CASE req.kind # "cons"
  <2>1. Conses' = Conses /\ Live' \ Conses' = (Live \ Conses) \cup {o} /\ o \notin Live \ Conses
    BY <1>1, <1>2, <1>8 DEF Conses
  <2>2. /\ Cardinality(Live' \ Conses') = Cardinality(Live \ Conses) + 1
        /\ Cardinality(Conses') = Cardinality(Conses)
    BY <2>1, Counts, FS_AddElement
  <2>3. total' = Bytes(Cardinality(Conses'), Cardinality(Live' \ Conses'))
    BY <1>1, <1>8, <2>2, Counts, BytesMoves DEF SizeOf
  <2>4. QED
    BY <1>1, <1>3, <1>4, <1>5, <1>6, <2>3 DEF BytesInv, BytesAccounted, Bytes, Conses
<1>9. QED
  BY <1>7, <1>8

LEMMA BytesSweepPool == ASSUME HeapInv, BytesInv, SweepPool PROVE BytesInv'
<1> DEFINE freed == (PoolIds \cap Live) \ marked
<1>1. /\ kind' = [x \in Id |-> IF x \in freed THEN "free" ELSE kind[x]]
      /\ total' = total - ConsSize * Cardinality(freed)
      /\ used' = used
      /\ freed \subseteq Conses
  BY DEF SweepPool, Conses, BytesInv, Live
<1> HIDE DEF freed
<1>2. /\ Live' = Live \ freed /\ Conses' = Conses \ freed /\ Live' \ Conses' = Live \ Conses
      /\ \A c \in PoolIds : kind'[c] \in {"cons", "free"}
  BY <1>1 DEF Live, Conses, BytesInv, Id
<1>3. IsFiniteSet(Live')
  BY <1>2, FS_Difference DEF BytesInv
<1>4. /\ IsFiniteSet(freed) /\ Cardinality(freed) \in Nat
      /\ Cardinality(Conses') = Cardinality(Conses) - Cardinality(freed)
      /\ Cardinality(Live' \ Conses') = Cardinality(Live \ Conses)
  <2>1. IsFiniteSet(freed)
    BY <1>1, Counts, FS_Subset
  <2>2. Conses \cap freed = freed
    BY <1>1
  <2>3. Cardinality(Live' \ Conses') = Cardinality(Live \ Conses)
    BY <1>2, Zenon
  <2>4. QED
    BY <1>2, <2>1, <2>2, <2>3, Counts, FS_Difference, FS_CardinalityType
<1>5. total' = Bytes(Cardinality(Conses'), Cardinality(Live' \ Conses'))
  BY <1>1, <1>4, Counts, BytesMoves
<1>6. total' <= SoftLimit
  BY SMTT(30), <1>1, <1>4, Counts, BytesMoves
<1>7. Live' \cap GenIds \subseteq used'
  BY <1>1, <1>2 DEF BytesInv
<1>8. garbage' \subseteq Live'
  BY <1>2, IdAssumption DEF SweepPool, freed
<1>9. QED
  BY <1>2, <1>3, <1>5, <1>6, <1>7, <1>8 DEF BytesInv, BytesAccounted, Bytes, Conses

LEMMA BytesDeallocate ==
  ASSUME HeapInv, BytesInv, NEW o \in GenIds, Deallocate(o) PROVE BytesInv'
<1>1. /\ o \in Id /\ o \in Live /\ o \notin PoolIds
      /\ kind' = [kind EXCEPT ![o] = "free"] /\ used' = used
      /\ total' = total - SizeOf(kind[o]) /\ Live' = Live \ {o}
      /\ phase' = "sweepGen" /\ garbage' = garbage \ {o} /\ garbage \subseteq Live
  BY DeallocateFacts, IdAssumption DEF Deallocate, BytesInv
<1>2. /\ \A x \in Id \ {o} : kind'[x] = kind[x]
      /\ PoolIds \subseteq Id /\ Live \subseteq Id
  BY <1>1 DEF HeapInv, TypeOK, Id, Live
<1>3. IsFiniteSet(Live')
  BY <1>1, FS_RemoveElement DEF BytesInv
<1>4. \A c \in PoolIds : kind'[c] \in {"cons", "free"}
  BY <1>1, <1>2 DEF BytesInv
<1>5. Live' \cap GenIds \subseteq used' /\ garbage' \subseteq Live'
  BY <1>1 DEF BytesInv
<1>6. SizeOf(kind[o]) \in Nat
  BY SizeAssumption DEF SizeOf
<1>7. CASE kind[o] = "cons"
  <2>1. Conses' = Conses \ {o} /\ Live' \ Conses' = Live \ Conses /\ o \in Conses
    BY <1>1, <1>2, <1>7 DEF Conses
  <2>2. /\ Cardinality(Conses') = Cardinality(Conses) - 1
        /\ Cardinality(Live' \ Conses') = Cardinality(Live \ Conses)
    BY <2>1, Counts, FS_RemoveElement
  <2>3. total' = Bytes(Cardinality(Conses'), Cardinality(Live' \ Conses'))
    BY <1>1, <1>7, <2>2, Counts, BytesMoves DEF SizeOf
  <2>4. total' <= SoftLimit
    BY <1>1, <1>6, Counts
  <2>5. QED
    BY <1>1, <1>3, <1>4, <1>5, <2>3, <2>4 DEF BytesInv, BytesAccounted, Bytes, Conses
<1>8. CASE kind[o] # "cons"
  <2>1. Conses' = Conses /\ Live' \ Conses' = (Live \ Conses) \ {o} /\ o \in Live \ Conses
    BY <1>1, <1>2, <1>8 DEF Conses
  <2>2. /\ Cardinality(Live' \ Conses') = Cardinality(Live \ Conses) - 1
        /\ Cardinality(Conses') = Cardinality(Conses)
    BY <2>1, Counts, FS_RemoveElement
  <2>3. total' = Bytes(Cardinality(Conses'), Cardinality(Live' \ Conses'))
    BY <1>1, <1>8, <2>2, Counts, BytesMoves DEF SizeOf
  <2>4. total' <= SoftLimit
    BY <1>1, <1>6, Counts
  <2>5. QED
    BY <1>1, <1>3, <1>4, <1>5, <2>3, <2>4 DEF BytesInv, BytesAccounted, Bytes, Conses
<1>9. QED
  BY <1>7, <1>8

\* The steps that neither allocate nor free.
LEMMA BytesFrame ==
  ASSUME BytesInv, UNCHANGED <<kind, used, total>>,
         phase' = "sweepGen" => phase = "sweepGen" /\ garbage' = garbage
  PROVE  BytesInv'
BY DEF BytesInv, BytesAccounted, Live

\* What an allocation asks for is a request whose operands are on the stack.
LEMMA WantedIsRequest ==
  ASSUME HeapInv, NEW req \in Wanted
  PROVE  req \in Requests /\ req.refs \subseteq roots
<1>1. roots \subseteq Id /\ NewKinds \cup {"cons"} \subseteq Kinds
  BY KindAssumption DEF HeapInv, TypeOK, Kinds
<1>2. req.kind \in NewKinds \cup {"cons"} /\ req.refs \in SUBSET roots /\ req.attempt = 1
      /\ req = [kind |-> req.kind, refs |-> req.refs, attempt |-> req.attempt]
  BY DEF Wanted
<1>3. req.kind \in Kinds /\ req.refs \in SUBSET Id
  BY <1>1, <1>2
<1>4. QED
  BY <1>2, <1>3 DEF Requests

LEMMA BytesStep == HeapInv /\ BytesInv /\ [Next]_vars => BytesInv'
<1> SUFFICES ASSUME HeapInv, BytesInv, [Next]_vars PROVE BytesInv'
  OBVIOUS
<1>1. ASSUME NEW req \in Wanted, Allocate(req) PROVE BytesInv'
  <2>1. req \in Requests
    BY WantedIsRequest
  <2>2. phase' # "sweepGen"
    BY <1>1 DEF Allocate, Mutating, gcVars
  <2>3. QED
    BY <1>1, <2>1, <2>2, BytesInstall DEF Allocate
<1>2. ASSUME NEW req \in Wanted, AllocateCollecting(req) PROVE BytesInv'
  BY <1>2, BytesFrame DEF AllocateCollecting, BeginCollect, heapVars
<1>3. CASE Mutator /\ UNCHANGED heapVars
  BY <1>3, BytesFrame, MutatorShape DEF heapVars
<1>4. CASE \E o, r \in Id : StoreRef(o, r) \/ ClearRef(o, r)
  BY <1>4, BytesFrame DEF StoreRef, ClearRef, Mutating, gcVars
<1>5. CASE AllocateAfterCollect
  <2>1. request \in Requests
    BY <1>5 DEF AllocateAfterCollect, HeapInv, RequestRooted, TypeOK
  <2>2. QED
    BY <1>5, <2>1, BytesInstall DEF AllocateAfterCollect
<1>6. CASE RetryCons \/ AllocationFails
  BY <1>6, BytesFrame DEF RetryCons, AllocationFails, BeginCollect, heapVars
<1>7. CASE \/ \E o \in Id : MarkOne(o) \/ FixpointStep(o)
           \/ \E o \in GenIds : EnqueueDeadFinalizer(o)
           \/ \E g, o \in GenIds : GuardianTurn(g, o)
           \/ MarkPending \/ BeginFixpoint \/ SnapshotDead \/ BeginGuardians \/ EndCollect
  <2>1. UNCHANGED <<kind, used, total>> /\ phase' # "sweepGen"
    BY <1>7 DEF MarkOne, FixpointStep, EnqueueDeadFinalizer, GuardianTurn, MarkPending, BeginFixpoint,
       SnapshotDead, BeginGuardians, EndCollect, heapVars, Marking
  <2>2. QED
    BY <2>1, BytesFrame
<1>8. CASE UNCHANGED vars
  BY <1>8, BytesFrame DEF vars, heapVars, gcVars
<1>9. Mutator => \/ \E req \in Wanted : Allocate(req) \/ AllocateCollecting(req)
                 \/ \E o, r \in Id : StoreRef(o, r) \/ ClearRef(o, r)
                 \/ Mutator /\ UNCHANGED heapVars
  BY DEF Mutator, Load, Drop, Collect, RegisterFinalizer, GuardianTrack, UnregisterFinalizer,
     GuardianCollect, DrainStart, DrainEnd
<1>10. QED
  BY <1>1, <1>2, <1>3, <1>4, <1>5, <1>6, <1>7, <1>8, <1>9, BytesSweepPool, BytesDeallocate
  DEF Next, Collector

LEMMA BytesInvariant == Spec => []BytesInv
<1>1. Init => BytesInv
  <2> SUFFICES ASSUME Init PROVE BytesInv
    OBVIOUS
  <2>1. Live = {} /\ total = 0 /\ phase = "idle"
    BY DEF Init, Live
  <2>2. Cardinality({}) = 0 /\ IsFiniteSet({})
    BY FS_EmptySet
  <2>3. BytesAccounted
    <3>1. {o \in {} : kind[o] = "cons"} = {} /\ {} \ {} = {}
      OBVIOUS
    <3>2. ConsSize * 0 + ObjSize * 0 = 0 /\ 0 <= SoftLimit
      BY SizeAssumption
    <3>3. QED
      BY <2>1, <2>2, <3>1, <3>2 DEF BytesAccounted
  <2>4. \A c \in PoolIds : kind[c] = "free"
    BY DEF Init, Id
  <2>5. QED
    BY <2>1, <2>2, <2>3, <2>4 DEF BytesInv
<1>2. QED
  BY <1>1, HeapInvariant, BytesStep, PTL DEF Spec

(***************************************************************************)
(* total_heap_bytes is the size of the allocated objects and stays within  *)
(* the soft limit, for any sizes, limit and number of objects: the state   *)
(* space of this theorem is infinite.                                      *)
(***************************************************************************)
THEOREM BytesCounted == Spec => []BytesAccounted
<1>1. BytesInv => BytesAccounted
  BY DEF BytesInv
<1>2. QED
  BY <1>1, BytesInvariant, PTL

-----------------------------------------------------------------------------
(* FinalizerSpec: the mapping. *)

\* A step that reaches nothing new.
LEMMA ReachShrinks ==
  ASSUME HeapInv, HeapInv', VmRoots' \subseteq ProgramReach,
         \A x \in ProgramReach : VisitRefs(x)' \subseteq ProgramReach
  PROVE  ProgramReach' \subseteq ProgramReach
<1>1. ProgramReach \in SUBSET Id
  BY ReachFacts DEF ProgramFacts
<1>2. QED
  BY <1>1, ReachFactsNext DEF ProgramFacts

\* A step that loses nothing.
LEMMA ReachGrows ==
  ASSUME HeapInv, HeapInv', VmRoots \subseteq ProgramReach',
         \A x \in ProgramReach' : VisitRefs(x) \subseteq ProgramReach'
  PROVE  ProgramReach \subseteq ProgramReach'
<1>1. ProgramReach' \in SUBSET Id
  BY ReachFactsNext DEF ProgramFacts
<1>2. QED
  BY <1>1, ReachFacts DEF ProgramFacts

\* The program lets go of some objects, or nothing happens to it.
LEMMA AsLose ==
  ASSUME UNCHANGED <<Live, Registered, tracking, pending, running>>,
         ProgramReach' \subseteq ProgramReach
  PROVE  Promise!Next
BY DEF Promise!Next, Promise!Lose, FinalizerStage

LEMMA AsStutter ==
  ASSUME UNCHANGED <<Live, Registered, tracking, pending, running, ProgramReach>>
  PROVE  UNCHANGED Promise!vars
BY DEF Promise!vars, FinalizerStage

\* Objects that nothing needs disappear.
LEMMA AsReclaim ==
  ASSUME UNCHANGED <<Registered, tracking, pending, running, ProgramReach>>, Live' \subseteq Live,
         \A x \in Live \ Live' : /\ x \notin ProgramReach /\ x \notin Registered
                                 /\ FinalizerStage(x) = "none"
                                 /\ \A pair \in tracking : x # pair[1] /\ x # pair[2]
  PROVE  Promise!Next
<1>1. Live \subseteq Id
  BY DEF Live
<1>2. Promise!Reclaim
  BY <1>1 DEF Promise!Reclaim, FinalizerStage
<1>3. QED
  BY <1>2 DEF Promise!Next

-----------------------------------------------------------------------------
(* The mutator. *)

LEMMA PromiseLose ==
  ASSUME HeapInv, HeapInv', NEW o \in Id, NEW r \in Id,
         Load(o, r) \/ Drop(o) \/ StoreRef(o, r) \/ ClearRef(o, r)
  PROVE  Promise!Next
<1>1. ProgramFacts
  BY ReachFacts
<1>2. /\ UNCHANGED <<Live, Registered, tracking, pending, running, ready>>
      /\ VmRoots' \subseteq VmRoots \cup {r} /\ (VmRoots' \subseteq VmRoots \/ (o \in roots /\ r \in refs[o]))
      /\ \A x \in Id : refs'[x] \subseteq refs[x] \cup {r}
      /\ refs' = refs \/ r \in roots \/ (\A x \in Id : refs'[x] \subseteq refs[x])
  <2>1. CASE Load(o, r)
    BY <2>1 DEF Load, heapVars, weakVars, Live, Registered, VmRoots, RunningVals
  <2>2. CASE Drop(o)
    BY <2>2 DEF Drop, heapVars, weakVars, Live, Registered, VmRoots, RunningVals
  <2>3. CASE StoreRef(o, r)
    BY <2>3 DEF StoreRef, weakVars, vmVars, Live, Registered, VmRoots, RunningVals, HeapInv, TypeOK
  <2>4. CASE ClearRef(o, r)
    BY <2>4 DEF ClearRef, weakVars, vmVars, Live, Registered, VmRoots, RunningVals, HeapInv, TypeOK
  <2>5. QED
    BY <2>1, <2>2, <2>3, <2>4
<1>3. roots \subseteq ProgramReach
  BY <1>1 DEF ProgramFacts, VmRoots
<1>4. r \in ProgramReach \/ (VmRoots' \subseteq VmRoots /\ \A x \in Id : refs'[x] \subseteq refs[x])
  <2>1. o \in roots /\ r \in refs[o] => r \in ProgramReach
    BY <1>1, <1>3 DEF ProgramFacts, VisitRefs
  <2>2. QED
    BY <1>2, <1>3, <2>1
<1>5. VmRoots' \subseteq ProgramReach
  BY <1>1, <1>2, <1>4 DEF ProgramFacts
<1>6. \A x \in ProgramReach : VisitRefs(x)' \subseteq ProgramReach
  <2>1. \A x \in ProgramReach : x \in Id /\ refs[x] \subseteq ProgramReach /\ Range(ready[x]) \subseteq ProgramReach
    BY <1>1 DEF ProgramFacts, VisitRefs
  <2>2. QED
    BY <1>2, <1>4, <2>1 DEF VisitRefs
<1>7. QED
  BY <1>2, <1>5, <1>6, ReachShrinks, AsLose

LEMMA PromiseInstall ==
  ASSUME HeapInv, HeapInv', BytesInv, phase # "sweepGen", NEW req \in Requests, req.refs \subseteq roots,
         NEW o \in FreshIds(req), Install(o, req), UNCHANGED <<weakVars, running>>
  PROVE  Promise!Next
<1>1. /\ o \in Id \ Live /\ Live' = Live \cup {o}
      /\ roots' = roots \cup {o} /\ refs'[o] = req.refs
      /\ \A x \in Id \ {o} : refs'[x] = refs[x]
  <2>1. req.kind \in Kinds /\ req.kind # "free"
    BY DEF Requests, Kinds
  <2>2. o \in Id /\ o \notin Live
    BY DEF FreshIds, BytesInv, Id, Live
  <2>3. QED
    BY <2>1, <2>2 DEF Install, Live, HeapInv, TypeOK
<1>2. /\ UNCHANGED <<Registered, tracking, pending, running, ready>>
      /\ VmRoots' = VmRoots \cup {o}
  BY <1>1 DEF weakVars, Registered, VmRoots, RunningVals
<1>3. /\ \A x \in Id \ {o} : VisitRefs(x)' = VisitRefs(x)
      /\ VisitRefs(o) = {} /\ VisitRefs(o)' = req.refs
  <2>1. VisitRefs(o) = {}
    BY <1>1 DEF HeapInv, DeadEmpty
  <2>2. Range(ready[o]) = {}
    BY <2>1 DEF VisitRefs
  <2>3. QED
    BY <1>1, <1>2, <2>1, <2>2 DEF VisitRefs
<1>4. ProgramFacts /\ ProgramFacts'
  BY ReachFacts, ReachFactsNext
<1>5. ProgramReach' \subseteq ProgramReach \cup {o}
  <2>1. ProgramReach \cup {o} \in SUBSET Id
    BY <1>1, <1>4 DEF ProgramFacts
  <2>2. roots \subseteq ProgramReach
    BY <1>4 DEF ProgramFacts, VmRoots
  <2>3. \A x \in ProgramReach \cup {o} : VisitRefs(x)' \subseteq ProgramReach \cup {o}
    <3>1. \A x \in ProgramReach : x \in Id /\ VisitRefs(x) \subseteq ProgramReach
      BY <1>4 DEF ProgramFacts
    <3>2. QED
      BY <1>3, <2>2, <3>1
  <2>4. VmRoots' \subseteq ProgramReach \cup {o}
    BY <1>2, <1>4 DEF ProgramFacts
  <2> DEFINE S == ProgramReach \cup {o}
  <2>5. S \in SUBSET Id /\ VmRoots' \subseteq S /\ \A x \in S : VisitRefs(x)' \subseteq S
    BY <2>1, <2>3, <2>4
  <2> HIDE DEF S
  <2>6. ProgramReach' \subseteq S
    BY <1>4, <2>5 DEF ProgramFacts
  <2>7. QED
    BY <2>6 DEF S
<1>6. ProgramReach \subseteq ProgramReach'
  <2>1. \A x \in ProgramReach' : VisitRefs(x) \subseteq ProgramReach'
    BY <1>3, <1>4 DEF ProgramFacts
  <2>2. VmRoots \subseteq ProgramReach'
    BY <1>2, <1>4 DEF ProgramFacts
  <2>3. QED
    BY <2>1, <2>2, ReachGrows
<1>7. o \in ProgramReach'
  BY <1>2, <1>4 DEF ProgramFacts
<1>8. ProgramReach' = ProgramReach \cup {o}
  BY <1>5, <1>6, <1>7
<1>9. Promise!New(o)
  BY <1>1, <1>2, <1>8 DEF Promise!New, FinalizerStage
<1>10. QED
  BY <1>1, <1>9 DEF Promise!Next

\* The tables of finalizers change; the objects and the references stay.
LEMMA PromiseTables ==
  ASSUME HeapInv, NEW o \in GenIds, NEW p \in GenIds,
         RegisterFinalizer(o, p) \/ UnregisterFinalizer(o) \/ GuardianTrack(o, p)
  PROVE  Promise!Next \/ UNCHANGED Promise!vars
<1>1. /\ o \in Id /\ p # NoProc
      /\ roots \subseteq ProgramReach
      /\ finTable \in [Id -> Id \cup {NoProc}]
  BY ReachFacts, IdAssumption DEF Id, ProgramFacts, VmRoots, HeapInv, TypeOK
<1>2. UNCHANGED <<Live, ProgramReach, pending, running>>
  BY ReachFrame DEF RegisterFinalizer, UnregisterFinalizer, GuardianTrack, heapVars, vmVars, Live
<1>3. CASE RegisterFinalizer(o, p)
  <2>1. o \in roots /\ finTable' = [finTable EXCEPT ![o] = p] /\ tracking' = tracking
    BY <1>3 DEF RegisterFinalizer
  <2>2. Registered' = Registered \cup {o}
    BY <1>1, <2>1 DEF Registered
  <2>3. Promise!Register(o)
    BY <1>1, <1>2, <2>1, <2>2 DEF Promise!Register, FinalizerStage
  <2>4. QED
    BY <1>1, <2>3 DEF Promise!Next
<1>4. CASE UnregisterFinalizer(o)
  <2>1. o \in roots /\ finTable' = [finTable EXCEPT ![o] = NoProc] /\ tracking' = tracking
    BY <1>4 DEF UnregisterFinalizer
  <2>2. Registered' = Registered \ {o}
    BY <1>1, <2>1 DEF Registered
  <2>3. Promise!Unregister(o)
    BY <1>1, <1>2, <2>1, <2>2 DEF Promise!Unregister, FinalizerStage
  <2>4. QED
    BY <1>1, <2>3 DEF Promise!Next
<1>5. CASE GuardianTrack(o, p)
  <2>1. /\ o \in roots /\ p \in roots /\ p \in Id
        /\ tracking' = tracking \cup {<<o, p>>} /\ Registered' = Registered
    BY <1>5 DEF GuardianTrack, Registered, Id
  <2>2. Promise!Track(o, p)
    BY <1>1, <1>2, <2>1 DEF Promise!Track, FinalizerStage
  <2>3. QED
    BY <1>1, <2>1, <2>2 DEF Promise!Next
<1>6. QED
  BY <1>3, <1>4, <1>5

LEMMA PromiseGuardianCollect ==
  ASSUME HeapInv, HeapInv', NEW g \in GenIds, GuardianCollect(g)
  PROVE  Promise!Next
<1> USE DEF GuardianCollect
<1>1. /\ ready[g] \in Seq(GenIds) /\ ready[g] # <<>> /\ g \in Id /\ g \in roots
      /\ Head(ready[g]) \in Range(ready[g])
      /\ Range(Tail(ready[g])) \subseteq Range(ready[g])
  BY RangeOfTail DEF HeapInv, TypeOK, Id
<1>2. /\ UNCHANGED <<Live, Registered, tracking, pending, running, refs>>
      /\ VmRoots' = VmRoots \cup {Head(ready[g])}
      /\ ready' = [ready EXCEPT ![g] = Tail(@)]
  BY DEF heapVars, Live, Registered, VmRoots, RunningVals
<1>3. \A x \in Id : VisitRefs(x)' \subseteq VisitRefs(x)
  <2>1. \A x \in Id \ {g} : ready'[x] = ready[x]
    BY <1>2 DEF HeapInv, TypeOK
  <2>2. ready'[g] = Tail(ready[g])
    BY <1>1, <1>2 DEF HeapInv, TypeOK
  <2>3. QED
    BY <1>1, <1>2, <2>1, <2>2 DEF VisitRefs
<1>4. ProgramFacts /\ g \in ProgramReach
  BY <1>1, ReachFacts DEF ProgramFacts, VmRoots
<1>5. Head(ready[g]) \in ProgramReach
  BY <1>1, <1>4 DEF ProgramFacts, VisitRefs
<1>6. VmRoots' \subseteq ProgramReach /\ \A x \in ProgramReach : VisitRefs(x)' \subseteq ProgramReach
  BY <1>2, <1>3, <1>4, <1>5 DEF ProgramFacts
<1>7. QED
  BY <1>2, <1>6, ReachShrinks, AsLose

\* What comes back with an object is closed under the references.
LEMMA LeadsToFacts ==
  ASSUME HeapInv, NEW o \in Id
  PROVE  /\ LeadsTo(o) \subseteq Id /\ o \in LeadsTo(o)
         /\ \A e \in Range(pending) : e.obj = o => e.proc \in LeadsTo(o)
         /\ \A x \in LeadsTo(o) : VisitRefs(x) \subseteq LeadsTo(o)
<1> DEFINE edge == [x \in Id |-> VisitRefs(x)]
           R == {o} \cup {e.proc : e \in {f \in Range(pending) : f.obj = o}}
<1>1. edge \in [Id -> SUBSET Id] /\ \A x \in Id : edge[x] = VisitRefs(x)
  BY VisitRefsInId
<1>2. R \in SUBSET Id
  <2>1. \A f \in Range(pending) : f \in Finalizers
    BY RangeInSet DEF HeapInv, TypeOK
  <2>2. \A f \in Range(pending) : f.proc \in Id
    BY <2>1 DEF Finalizers
  <2>3. QED
    BY <2>2
<1>3. \A e \in Range(pending) : e.obj = o => e.proc \in R
  OBVIOUS
<1>4. LeadsTo(o) = Reachable(R, edge)
  BY DEF LeadsTo
<1>5. o \in R
  OBVIOUS
<1> HIDE DEF edge, R
<1>6. QED
  BY <1>1, <1>2, <1>3, <1>4, <1>5, ReachableIsLeast

LEMMA PromiseDrainStart ==
  ASSUME HeapInv, HeapInv', DrainStart
  PROVE  Promise!Next
<1> DEFINE e == Head(pending)
<1>1. /\ running = NoneRunning /\ running' = e /\ pending' = Tail(pending)
      /\ e \in Range(pending) /\ e \in Finalizers
      /\ UNCHANGED <<Live, Registered, tracking, refs, ready>>
      /\ roots' = roots \cup {e.obj}
  BY RangeOfTail, RangeInSet DEF DrainStart, heapVars, HeapInv, TypeOK, Live, Registered
<1>2. e.obj \in Id
  BY <1>1 DEF Finalizers, Id
<1>3. \A f \in Range(pending) : f \in Range(Tail(pending)) \/ f = e
  <2>1. pending \in Seq(Finalizers) /\ pending # <<>>
    BY DEF DrainStart, HeapInv, TypeOK
  <2>2. /\ DOMAIN pending = 1..Len(pending) /\ Len(pending) \in Nat /\ e = pending[1]
        /\ DOMAIN Tail(pending) = 1..(Len(pending) - 1)
        /\ \A i \in 1..(Len(pending) - 1) : Tail(pending)[i] = pending[i + 1]
    BY <2>1
  <2>3. ASSUME NEW i \in 1..Len(pending), i # 1 PROVE pending[i] = Tail(pending)[i - 1] /\ i - 1 \in DOMAIN Tail(pending)
    BY <2>2, <2>3
  <2>4. ASSUME NEW i \in 1..Len(pending) PROVE pending[i] = e \/ pending[i] \in Range(Tail(pending))
    BY <2>2, <2>3 DEF Range
  <2>5. QED
    BY <2>2, <2>3, <2>4 DEF Range
<1>4. Range(Tail(pending)) \subseteq Range(pending)
  BY RangeOfTail DEF DrainStart, HeapInv, TypeOK
<1> HIDE DEF e
<1>5. running' # NoneRunning /\ running'.obj = e.obj
  BY <1>1, IdAssumption DEF Finalizers
<1>6. VmRoots \subseteq VmRoots'
  BY <1>1 DEF VmRoots, RunningVals
<1>7. ProgramReach \subseteq ProgramReach'
  <2>1. ProgramFacts'
    BY ReachFactsNext
  <2>2. \A x \in Id : VisitRefs(x) = VisitRefs(x)'
    BY <1>1 DEF VisitRefs
  <2>3. QED
    BY <1>6, <2>1, <2>2, ReachGrows DEF ProgramFacts
<1>8. e.obj \in ProgramReach'
  BY <1>1, ReachFactsNext DEF ProgramFacts, VmRoots
<1>9. ProgramReach' \subseteq Live
  <2>1. HeapInv' => (ProgramReach \subseteq Live)'
    BY ReachIsLive, PTL
  <2>2. QED
    BY <1>1, <2>1
<1>10. PICK o \in Id : o = e.obj
  BY <1>2
<1>11. FinalizerStage(o) = "queued" /\ \A x \in Id : FinalizerStage(x) # "running"
  BY <1>1, <1>10 DEF FinalizerStage
<1>12. /\ FinalizerStage(o)' = "running"
       /\ \A x \in Id \ {o} : FinalizerStage(x)' = FinalizerStage(x)
  <2>1. \A x \in Id \ {o} : (\E f \in Range(pending') : f.obj = x) <=> (\E f \in Range(pending) : f.obj = x)
    BY <1>1, <1>3, <1>4, <1>10
  <2>2. FinalizerStage(o)' = "running"
    BY <1>5, <1>10 DEF FinalizerStage
  <2>3. QED
    BY <1>1, <1>5, <1>10, <2>1, <2>2 DEF FinalizerStage
<1>13. ProgramReach' \subseteq ProgramReach \cup LeadsTo(o)
  <2>1. ProgramFacts /\ ProgramFacts'
    BY ReachFacts, ReachFactsNext
  <2>2. /\ LeadsTo(o) \subseteq Id /\ e.obj \in LeadsTo(o) /\ e.proc \in LeadsTo(o)
        /\ \A x \in LeadsTo(o) : VisitRefs(x) \subseteq LeadsTo(o)
    BY <1>1, <1>10, LeadsToFacts
  <2> DEFINE S == ProgramReach \cup LeadsTo(o)
  <2>3. S \in SUBSET Id /\ VmRoots' \subseteq S
    BY <1>1, <2>1, <2>2 DEF VmRoots, RunningVals, ProgramFacts
  <2>4. \A x \in S : VisitRefs(x)' \subseteq S
    BY <1>1, <2>1, <2>2 DEF VisitRefs, ProgramFacts
  <2> HIDE DEF S
  <2>5. ProgramReach' \subseteq S
    BY <2>1, <2>3, <2>4 DEF ProgramFacts
  <2>6. QED
    BY <2>5 DEF S
<1>14. Promise!BackInUse(o)
  BY <1>1, <1>7, <1>8, <1>9, <1>10, <1>13 DEF Promise!BackInUse
<1>15. Promise!Call(o)
  BY <1>1, <1>10, <1>11, <1>12, <1>14 DEF Promise!Call
<1>16. QED
  BY <1>15 DEF Promise!Next

LEMMA PromiseDrainEnd ==
  ASSUME HeapInv, HeapInv', QueueInv, DrainEnd
  PROVE  Promise!Next
<1>1. /\ running \in Finalizers /\ running' = NoneRunning /\ running # NoneRunning
      /\ UNCHANGED <<Live, Registered, tracking, refs, ready, pending, roots>>
      /\ running.obj \in Id
  BY DEF DrainEnd, heapVars, weakVars, HeapInv, TypeOK, Live, Registered, Finalizers, Id
<1>2. \A f \in Range(pending) : f.obj # running.obj
  BY <1>1, OnceByRange DEF QueueInv
<1>3. ProgramReach' \subseteq ProgramReach
  <2>1. VmRoots' \subseteq VmRoots
    BY <1>1 DEF VmRoots, RunningVals
  <2>2. \A x \in Id : VisitRefs(x)' = VisitRefs(x)
    BY <1>1 DEF VisitRefs
  <2>3. QED
    BY <2>1, <2>2, ReachFacts, ReachShrinks DEF ProgramFacts
<1>4. PICK o \in Id : o = running.obj
  BY <1>1
<1>5. /\ FinalizerStage(o) = "running" /\ FinalizerStage(o)' = "none"
      /\ \A x \in Id \ {o} : FinalizerStage(x)' = FinalizerStage(x)
  BY <1>1, <1>2, <1>4 DEF FinalizerStage
<1>6. Promise!Return(o)
  BY <1>1, <1>3, <1>5 DEF Promise!Return
<1>7. QED
  BY <1>6 DEF Promise!Next

LEMMA PromiseMutator ==
  ASSUME HeapInv, HeapInv', QueueInv, BytesInv, Mutator
  PROVE  Promise!Next \/ UNCHANGED Promise!vars
<1>1. ASSUME NEW req \in Wanted, Allocate(req) PROVE Promise!Next
  <2>1. req \in Requests /\ req.refs \subseteq roots
    BY WantedIsRequest
  <2>2. PICK o \in FreshIds(req) : Install(o, req)
    BY <1>1 DEF Allocate
  <2>3. phase # "sweepGen" /\ UNCHANGED <<weakVars, running>>
    BY <1>1 DEF Allocate, Mutating
  <2>4. QED
    BY <2>1, <2>2, <2>3, PromiseInstall
<1>2. ASSUME NEW req \in Wanted, AllocateCollecting(req) PROVE UNCHANGED Promise!vars
  BY <1>2, AsStutter, ReachFrame DEF AllocateCollecting, heapVars, weakVars, Live, Registered
<1>3. CASE Collect
  BY <1>3, AsStutter, ReachFrame DEF Collect, heapVars, weakVars, vmVars, Live, Registered
<1>4. GenIds \subseteq Id
  BY DEF Id
<1>5. QED
  BY <1>1, <1>2, <1>3, <1>4, PromiseLose, PromiseTables, PromiseGuardianCollect, PromiseDrainStart,
     PromiseDrainEnd
  DEF Mutator

-----------------------------------------------------------------------------
(* The collector. *)

LEMMA PromiseFrame ==
  ASSUME UNCHANGED <<kind, refs, finTable, pending, tracking, ready, roots, running>>
  PROVE  UNCHANGED Promise!vars
<1>1. UNCHANGED <<Live, Registered, ProgramReach>>
  BY GraphFrame, ReachFrame
<1>2. QED
  BY <1>1, AsStutter

LEMMA PromiseEnqueue ==
  ASSUME HeapInv, QueueInv, NEW o \in GenIds, EnqueueDeadFinalizer(o)
  PROVE  Promise!Next
<1> DEFINE e == [obj |-> o, proc |-> finTable[o]]
<1>1. /\ phase = "enqFin" /\ o \in Id /\ o \in deadKeys /\ o \in Live
      /\ finTable'[o] = NoProc
      /\ \A x \in Id \ {o} : finTable'[x] = finTable[x]
      /\ e.obj = o /\ Range(pending') = Range(pending) \cup {e}
      /\ UNCHANGED <<kind, refs, ready, roots, running>>
  BY EnqueueFacts
<1> HIDE DEF e
<1>2. ProgramReach' = ProgramReach /\ Live' = Live /\ tracking' = tracking
  BY <1>1, ReachFrame DEF Live, EnqueueDeadFinalizer
<1>3. o \in Registered /\ o \notin ProgramReach /\ FinalizerStage(o) = "none"
  BY <1>1 DEF HeapInv, QueueInv, CondemnedIsUnreachable
<1>4. Registered' = Registered \ {o}
  BY <1>1 DEF Registered
<1>5. /\ FinalizerStage(o)' = "queued"
      /\ \A x \in Id \ {o} : FinalizerStage(x)' = FinalizerStage(x)
  <2>1. ~(running # NoneRunning /\ running.obj = o)
    BY <1>3 DEF FinalizerStage
  <2>2. \E f \in Range(pending') : f.obj = o
    BY <1>1
  <2>3. FinalizerStage(o)' = "queued"
    BY <1>1, <2>1, <2>2 DEF FinalizerStage
  <2>4. \A x \in Id \ {o} : (\E f \in Range(pending') : f.obj = x) <=> (\E f \in Range(pending) : f.obj = x)
    BY <1>1
  <2>5. QED
    BY <1>1, <2>3, <2>4 DEF FinalizerStage
<1>6. Promise!Enqueue(o)
  BY <1>1, <1>2, <1>3, <1>4, <1>5 DEF Promise!Enqueue
<1>7. QED
  BY <1>1, <1>6 DEF Promise!Next

\* enqueue_dead_guardians looks at pairs that are still tracked.
TodoTracked == phase = "enqGuard" => todo \subseteq tracking

LEMMA TodoStep == TodoTracked /\ [Next]_vars => TodoTracked'
<1> SUFFICES ASSUME TodoTracked, [Next]_vars PROVE TodoTracked'
  OBVIOUS
<1>1. ASSUME NEW g \in GenIds, NEW o \in GenIds, GuardianTurn(g, o) PROVE TodoTracked'
  BY <1>1 DEF GuardianTurn, TodoTracked
<1>2. CASE BeginGuardians
  BY <1>2 DEF BeginGuardians, TodoTracked, weakVars
<1>3. CASE Mutator
  <2>1. phase' \in {"idle", "mark"}
    BY <1>3 DEF Mutator, Load, StoreRef, ClearRef, Drop, Allocate, AllocateCollecting, Collect,
       BeginCollect, RegisterFinalizer, UnregisterFinalizer, GuardianTrack, GuardianCollect,
       DrainStart, DrainEnd, Mutating, gcVars
  <2>2. QED
    BY <2>1 DEF TodoTracked
<1>4. ASSUME NEW o \in Id, MarkOne(o) \/ FixpointStep(o) PROVE TodoTracked'
  BY <1>4 DEF MarkOne, FixpointStep, TodoTracked, weakVars
<1>5. ASSUME NEW o \in GenIds, EnqueueDeadFinalizer(o) \/ Deallocate(o) PROVE TodoTracked'
  BY <1>5 DEF EnqueueDeadFinalizer, Deallocate, TodoTracked
<1>6. CASE \/ MarkPending \/ BeginFixpoint \/ SnapshotDead \/ SweepPool \/ EndCollect
           \/ AllocateAfterCollect \/ RetryCons \/ AllocationFails
  BY <1>6 DEF MarkPending, BeginFixpoint, SnapshotDead, SweepPool, EndCollect,
     AllocateAfterCollect, RetryCons, AllocationFails, BeginCollect, TodoTracked, weakVars
<1>7. CASE UNCHANGED vars
  BY <1>7 DEF vars, weakVars, gcVars, TodoTracked
<1>8. QED
  BY <1>1, <1>2, <1>3, <1>4, <1>5, <1>6, <1>7 DEF Next, Collector

LEMMA TodoInvariant == Spec => []TodoTracked
<1>1. Init => TodoTracked
  BY DEF Init, TodoTracked
<1>2. QED
  BY <1>1, TodoStep, PTL DEF Spec

LEMMA PromiseGuardianTurn ==
  ASSUME HeapInv, HeapInv', TrackInv, TodoTracked, NEW g \in GenIds, NEW o \in GenIds,
         GuardianTurn(g, o)
  PROVE  Promise!Next \/ UNCHANGED Promise!vars
<1>1. /\ UNCHANGED <<kind, refs, finTable, pending, roots, running, Live, Registered>>
      /\ phase = "enqGuard" /\ work = {} /\ <<g, o>> \in tracking /\ o \in Live
      /\ g \in Id /\ o \in Id
  BY DEF GuardianTurn, heapVars, vmVars, Live, Registered, TodoTracked, TrackInv, Id
<1>2. ProgramReach \subseteq marked
  BY <1>1, ReachIsMarked DEF Marking
<1>3. ASSUME ProgramReach' = ProgramReach, g \notin ProgramReach, tracking' = tracking \ {<<g, o>>}
      PROVE  Promise!Next
  <2>1. Promise!Forget(g, o)
    BY <1>1, <1>3 DEF Promise!Forget, FinalizerStage
  <2>2. QED
    BY <1>1, <2>1 DEF Promise!Next
<1>4. CASE UNCHANGED <<ready, tracking>>
  BY <1>1, <1>4, PromiseFrame
<1>5. CASE g \notin marked /\ tracking' = tracking \ {<<g, o>>} /\ UNCHANGED ready
  BY <1>1, <1>2, <1>3, <1>5, ReachFrame
<1>6. CASE /\ tracking' = tracking \ {<<g, o>>}
           /\ ready' = [ready EXCEPT ![g] = Append(@, o)]
  <2>1. /\ ready[g] \in Seq(GenIds) /\ ready'[g] = Append(ready[g], o)
        /\ \A x \in Id \ {g} : ready'[x] = ready[x]
    BY <1>1, <1>6 DEF HeapInv, TypeOK
  <2>2. Range(ready'[g]) = Range(ready[g]) \cup {o}
    BY <2>1, RangeOfAppend
  <2>3. /\ \A x \in Id \ {g} : VisitRefs(x)' = VisitRefs(x)
        /\ VisitRefs(g)' = VisitRefs(g) \cup {o}
    BY <1>1, <2>1, <2>2 DEF VisitRefs
  <2>4. VmRoots' = VmRoots
    BY <1>1 DEF VmRoots, RunningVals
  <2>5. ProgramFacts /\ ProgramFacts'
    BY ReachFacts, ReachFactsNext
  <2>6. ProgramReach \subseteq ProgramReach'
    BY <2>3, <2>4, <2>5, ReachGrows DEF ProgramFacts
  <2>7. CASE g \notin ProgramReach
    <3>1. ProgramReach' \subseteq ProgramReach
      BY <2>3, <2>4, <2>5, <2>7, ReachShrinks DEF ProgramFacts
    <3>2. QED
      BY <1>3, <1>6, <2>6, <2>7, <3>1
  <2>8. CASE g \in ProgramReach
    <3>1. o \in ProgramReach'
      BY <2>3, <2>5, <2>6, <2>8 DEF ProgramFacts
    <3>2. ProgramReach' \subseteq Live
      <4>1. HeapInv' => (ProgramReach \subseteq Live)'
        BY ReachIsLive, PTL
      <4>2. QED
        BY <1>1, <4>1
    <3>3. ProgramReach' \subseteq ProgramReach \cup LeadsTo(o)
      <4>1. /\ LeadsTo(o) \subseteq Id /\ o \in LeadsTo(o)
            /\ \A x \in LeadsTo(o) : VisitRefs(x) \subseteq LeadsTo(o)
        BY <1>1, LeadsToFacts
      <4> DEFINE S == ProgramReach \cup LeadsTo(o)
      <4>2. S \in SUBSET Id /\ VmRoots' \subseteq S
        BY <2>4, <2>5, <4>1 DEF ProgramFacts
      <4>3. \A x \in S : x \in Id /\ VisitRefs(x) \subseteq S
        BY <2>5, <4>1 DEF ProgramFacts
      <4>4. \A x \in S : VisitRefs(x)' \subseteq S
        BY <2>3, <4>1, <4>3
      <4> HIDE DEF S
      <4>5. ProgramReach' \subseteq S
        BY <2>5, <4>2, <4>4 DEF ProgramFacts
      <4>6. QED
        BY <4>5 DEF S
    <3>4. Promise!BackInUse(o)
      BY <1>1, <2>6, <3>1, <3>2, <3>3 DEF Promise!BackInUse
    <3>5. Promise!Deliver(g, o)
      BY <1>1, <1>6, <2>8, <3>4 DEF Promise!Deliver, FinalizerStage
    <3>6. QED
      BY <1>1, <3>5 DEF Promise!Next
  <2>9. QED
    BY <2>7, <2>8
<1>7. QED
  BY <1>1, <1>4, <1>5, <1>6 DEF GuardianTurn

\* The sweep takes unmarked objects: they are out of reach, without a finalizer
\* and without a call.
LEMMA PromiseSweep ==
  ASSUME HeapInv, HeapInv', QueueInv, TrackInv, (phase = "fix2" /\ work = {}) \/ phase = "sweepGen",
         phase' = "sweepGen", UNCHANGED <<pending, tracking, roots, running, marked>>,
         \A x \in marked : /\ VisitRefs(x)' = VisitRefs(x)
                           /\ finTable'[x] = finTable[x],
         \A x \in Id \ marked : finTable'[x] # NoProc => finTable'[x] = finTable[x],
         Live' \subseteq Live, marked \subseteq Live'
  PROVE  Promise!Next
<1>1. /\ ProgramReach \subseteq marked /\ marked \subseteq Id
      /\ Registered \subseteq marked /\ PendingVals \subseteq marked /\ RunningVals \subseteq marked
  <2>1. ProgramReach \subseteq marked
    BY ReachIsMarked DEF Marking
  <2>2. Registered \subseteq marked
    BY DEF QueueInv, AfterFinalizers
  <2>3. PendingVals \subseteq marked /\ RunningVals \subseteq marked
    BY DEF HeapInv, Tricolour, Marking, SweepClosed, StrongRoots, VmRoots
  <2>4. QED
    BY <2>1, <2>2, <2>3 DEF HeapInv, TypeOK
<1>2. ProgramReach' = ProgramReach
  <2>1. VmRoots' = VmRoots
    BY DEF VmRoots, RunningVals
  <2>2. ProgramReach' \subseteq ProgramReach
    BY <1>1, <2>1, ReachFacts, ReachShrinks DEF ProgramFacts
  <2>3. ProgramReach' \subseteq marked
    BY <1>1, <2>2
  <2>4. ProgramReach \subseteq ProgramReach'
    BY <2>1, <2>3, ReachFactsNext, ReachGrows DEF ProgramFacts
  <2>5. QED
    BY <2>2, <2>4
<1>3. Registered' = Registered
  BY <1>1 DEF Registered
<1>4. ASSUME NEW x \in Live \ Live'
      PROVE  /\ x \notin ProgramReach /\ x \notin Registered /\ FinalizerStage(x) = "none"
             /\ \A pair \in tracking : x # pair[1] /\ x # pair[2]
  <2>1. x \notin marked /\ \A pair \in tracking : x # pair[1] /\ x # pair[2]
    BY DEF TrackInv
  <2>2. \A e \in Range(pending) : e.obj # x
    BY <1>1, <2>1 DEF PendingVals
  <2>3. ~(running # NoneRunning /\ running.obj = x)
    BY <1>1, <2>1 DEF RunningVals
  <2>4. QED
    BY <1>1, <2>1, <2>2, <2>3 DEF FinalizerStage
<1>5. QED
  BY <1>2, <1>3, <1>4, AsReclaim

LEMMA PromiseCollector ==
  ASSUME HeapInv, HeapInv', QueueInv, BytesInv, TrackInv, TodoTracked, Collector
  PROVE  Promise!Next \/ UNCHANGED Promise!vars
<1>1. CASE \/ \E o \in Id : MarkOne(o) \/ FixpointStep(o)
           \/ MarkPending \/ BeginFixpoint \/ SnapshotDead \/ BeginGuardians \/ EndCollect
           \/ RetryCons \/ AllocationFails
  <2>1. UNCHANGED <<kind, refs, finTable, pending, tracking, ready, roots, running>>
    BY <1>1 DEF MarkOne, FixpointStep, MarkPending, BeginFixpoint, SnapshotDead, BeginGuardians,
       EndCollect, RetryCons, AllocationFails, heapVars, weakVars, vmVars
  <2>2. QED
    BY <2>1, PromiseFrame
<1>2. CASE SweepPool
  <2>1. marked \subseteq Live'
    BY <1>2, SweepPoolFacts DEF HeapInv, Tricolour
  <2>2. tracking' = tracking
    BY <1>2 DEF SweepPool, weakVars
  <2>3. QED
    BY <1>2, <2>1, <2>2, SweepPoolFacts, PromiseSweep DEF VisitRefs
<1>3. ASSUME NEW o \in GenIds, Deallocate(o) PROVE Promise!Next
  <2>1. marked \subseteq Live' /\ marked \subseteq Id
    BY <1>3, DeallocateFacts DEF HeapInv, SweepClosed, TypeOK
  <2>2. phase = "sweepGen" /\ o \notin marked
    BY <1>3 DEF Deallocate, HeapInv, SweepClosed
  <2>3. tracking' = tracking
    BY <1>3, <2>2 DEF Deallocate, TrackInv
  <2>4. QED
    BY <1>3, <2>1, <2>3, DeallocateFacts, PromiseSweep DEF VisitRefs
<1>4. CASE AllocateAfterCollect
  <2>1. request \in Requests /\ request.refs \subseteq roots /\ phase = "done"
    BY <1>4 DEF AllocateAfterCollect, HeapInv, RequestRooted, TypeOK
  <2>2. PICK o \in FreshIds(request) : Install(o, request)
    BY <1>4 DEF AllocateAfterCollect
  <2>3. UNCHANGED <<weakVars, running>>
    BY <1>4 DEF AllocateAfterCollect
  <2>4. QED
    BY <2>1, <2>2, <2>3, PromiseInstall
<1>5. QED
  BY <1>1, <1>2, <1>3, <1>4, PromiseEnqueue, PromiseGuardianTurn DEF Collector

(***************************************************************************)
(* The heap keeps the promise: an object in use is never reclaimed, none   *)
(* with a registered finalizer is reclaimed before the call, each          *)
(* registration leads to one call at most, a guardian in use loses an      *)
(* object only by receiving it, and nothing the program has lost comes     *)
(* back but by a call or by the guardian it was given to                   *)
(* (mark_sweep_gc.h:151-178, vm.cpp:267-299).                              *)
(***************************************************************************)
THEOREM HeapKeepsPromise == Spec => KeepsPromise
<1>1. Init => Promise!Init
  <2> SUFFICES ASSUME Init PROVE Promise!Init
    OBVIOUS
  <2>1. HeapInv /\ Live = {} /\ Registered = {} /\ tracking = {}
    BY InitInv DEF Init, Live, Registered
  <2>2. ProgramReach = {}
    BY <2>1, ReachIsLive
  <2>3. \A x \in Id : FinalizerStage(x) = "none"
    BY RangeOfEmpty DEF Init, FinalizerStage
  <2>4. QED
    BY <2>1, <2>2, <2>3 DEF Promise!Init
<1>2. HeapInv /\ HeapInv' /\ QueueInv /\ BytesInv /\ TrackInv /\ TodoTracked /\ [Next]_vars => [Promise!Next]_(Promise!vars)
  <2>1. ASSUME UNCHANGED vars PROVE UNCHANGED Promise!vars
    BY <2>1, PromiseFrame DEF vars, heapVars, weakVars, vmVars
  <2>2. QED
    BY <2>1, PromiseMutator, PromiseCollector DEF Next
<1>3. QED
  BY <1>1, <1>2, HeapInvariant, QueueInvariant, BytesInvariant, TrackingInvariant, TodoInvariant, PTL
  DEF Spec, KeepsPromise, Promise!Spec
=============================================================================
