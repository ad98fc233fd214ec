--------------------------- MODULE FinalizerSpec ---------------------------
(***************************************************************************)
(* What the collector promises the program about the life of an object,    *)
(* without marks, work lists or queues: an object in use is never          *)
(* reclaimed; one with a registered finalizer is never reclaimed before    *)
(* the finalizer has been called; a finalizer is queued only for an object *)
(* out of use, and each registration leads to one call at most; a guardian *)
(* in use gives up an object it was given only by delivering it, once; and *)
(* nothing that went out of use comes back but by a call or a delivery,    *)
(* with what it leads to.  HeapGC implements this specification.           *)
(***************************************************************************)
CONSTANTS Object

VARIABLES
  alive,       \* objects that occupy memory
  inUse,       \* those the running program can reach
  registered,  \* those with a finalizer registered
  guarded,     \* pairs of a guardian and an object it was given
  stage,       \* where an object's finalizer call is: none, queued, running
  leads        \* an input: what an object leads to, its queued finalizer's
               \* procedure included; nothing is said about how it changes

vars == <<alive, inUse, registered, guarded, stage>>

TypeOK ==
  /\ inUse \subseteq alive /\ alive \subseteq Object
  /\ registered \subseteq alive
  /\ guarded \subseteq Object \X Object
  /\ stage \in [Object -> {"none", "queued", "running"}]

Init ==
  /\ alive = {} /\ inUse = {} /\ registered = {} /\ guarded = {}
  /\ stage = [o \in Object |-> "none"]

New(o) ==
  /\ o \in Object \ alive
  /\ alive' = alive \cup {o}
  /\ inUse' = inUse \cup {o}
  /\ UNCHANGED <<registered, guarded, stage>>

\* The program lets go of some objects.
Lose ==
  /\ inUse' \in SUBSET inUse
  /\ UNCHANGED <<alive, registered, guarded, stage>>

Register(o) ==
  /\ o \in inUse
  /\ registered' = registered \cup {o}
  /\ UNCHANGED <<alive, inUse, guarded, stage>>

Unregister(o) ==
  /\ o \in inUse
  /\ registered' = registered \ {o}
  /\ UNCHANGED <<alive, inUse, guarded, stage>>

\* The program gives an object to a guardian.
Track(g, o) ==
  /\ {g, o} \subseteq inUse
  /\ guarded' = guarded \cup {<<g, o>>}
  /\ UNCHANGED <<alive, inUse, registered, stage>>

\* The collector finds a registered object out of use.
Enqueue(o) ==
  /\ o \in registered \ inUse /\ stage[o] = "none"
  /\ registered' = registered \ {o}
  /\ stage' = [stage EXCEPT ![o] = "queued"]
  /\ UNCHANGED <<alive, inUse, guarded>>

\* The object comes back into use, with some of what it leads to and no more.
BackInUse(o) ==
  /\ inUse \cup {o} \subseteq inUse'
  /\ inUse' \subseteq (inUse \cup leads[o]) \cap alive

\* The call hands the object back to the program.
Call(o) ==
  /\ stage[o] = "queued"
  /\ \A p \in Object : stage[p] # "running"
  /\ stage' = [stage EXCEPT ![o] = "running"]
  /\ BackInUse(o)
  /\ UNCHANGED <<alive, registered, guarded>>

Return(o) ==
  /\ stage[o] = "running"
  /\ stage' = [stage EXCEPT ![o] = "none"]
  /\ inUse' \in SUBSET inUse
  /\ UNCHANGED <<alive, registered, guarded>>

\* A guardian in use receives an object it was given.
Deliver(g, o) ==
  /\ g \in inUse /\ <<g, o>> \in guarded
  /\ guarded' = guarded \ {<<g, o>>}
  /\ BackInUse(o)
  /\ UNCHANGED <<alive, registered, stage>>

\* A guardian out of use gives the object up, or keeps it out of use.
Forget(g, o) ==
  /\ g \notin inUse
  /\ guarded' = guarded \ {<<g, o>>}
  /\ UNCHANGED <<alive, inUse, registered, stage>>

Reclaim ==
  /\ alive' \in SUBSET alive
  /\ \A o \in alive \ alive' :
       /\ o \notin inUse \cup registered
       /\ stage[o] = "none"
       /\ \A pair \in guarded : o \notin {pair[1], pair[2]}
  /\ UNCHANGED <<inUse, registered, guarded, stage>>

Next ==
  \/ Lose \/ Reclaim
  \/ \E o \in Object : \/ New(o) \/ Register(o) \/ Unregister(o)
                       \/ Enqueue(o) \/ Call(o) \/ Return(o)
  \/ \E g, o \in Object : Track(g, o) \/ Deliver(g, o) \/ Forget(g, o)

Spec == Init /\ [][Next]_vars
=============================================================================
