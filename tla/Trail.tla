------------------------------- MODULE Trail -------------------------------
(***************************************************************************)
(* Unification in the virtual machine (runtime/vm/vm.cpp): logic variables *)
(* with a binding, a CLP domain and the propagators attached to them; the  *)
(* trail every write goes through, trail-mark and unwind-trail; and the    *)
(* propagation queue, which the outermost unify drains.  Terms are atomic: *)
(* unifying two compounds is a sequence of equations.                      *)
(***************************************************************************)
EXTENDS Integers, SequencesExt

CONSTANTS
  Var, Ground,    \* logic variables; values
  Thunk,          \* re-propagator closures
  Hooked,         \* variables with an attribute that has a synchronous hook
  Equations,      \* the pairs of terms programs unify
  MaxEquations,   \* bound: elements of a compound
  Unbound, NoDomain,
  MaxWrites,      \* bound: unifications and other writes of a program
  MaxMarks        \* bound: marks a program keeps

Term    == Var \cup Ground
Domains == (SUBSET Ground) \ {{}}

ASSUME TrailAssumption ==
  /\ Var \cap Ground = {} /\ Hooked \subseteq Var /\ Unbound \notin Term
  /\ \A d \in Domains : d # NoDomain
  /\ Equations \subseteq Term \X Term
  /\ {MaxEquations, MaxWrites, MaxMarks} \subseteq Nat

VARIABLES
  logic,    \* the variables, trail_stack_, prop_queue_, prop_queued_set_ and
            \* what the last unify_internal returned
  within,   \* what the VM is in: the program, drain_propagators, or a thunk
  origin,   \* the outermost unify: t_snap, and the variables at that moment
  marks,    \* what the program may unwind to, the variables at each
  writes,
  due       \* history: propagators to be run, for their variable was bound

unifier == <<logic, within, origin, marks, writes, due>>

-----------------------------------------------------------------------------
(* The trail.                                                              *)
Write(m, kind, x, value) ==
  [m EXCEPT !.var[x] = value,
            !.trail = Append(@, [kind |-> kind, x |-> x, prev |-> m.var[x]])]

Bind(m, x, t)      == Write(m, "Bind", x, [m.var[x] EXCEPT !.binding = t])
SetDomain(m, x, d) == Write(m, "Domain", x, [m.var[x] EXCEPT !.domain = d])
Attach(m, x, t)    == Write(m, "Attr", x, [m.var[x] EXCEPT !.props = <<t>> \o @])

\* Faulty variant: the domain before the first one is all it knows.
RollbackOneErasing(e, var) ==
  CASE e.kind = "Bind"   -> [var EXCEPT ![e.x].binding = Unbound]
    [] e.kind = "Domain" -> [var EXCEPT ![e.x].domain = NoDomain]
    [] e.kind = "Attr"   -> [var EXCEPT ![e.x].props = e.prev.props]

\* rollback_one restores the one field the entry is about.
RollbackOne(e, var) ==
  CASE e.kind = "Bind"   -> [var EXCEPT ![e.x].binding = Unbound]
    [] e.kind = "Domain" -> [var EXCEPT ![e.x].domain = e.prev.domain]
    [] e.kind = "Attr"   -> [var EXCEPT ![e.x].props = e.prev.props]

RollbackTo(m, depth) ==
  [m EXCEPT !.var = FoldRight(RollbackOne, SubSeq(m.trail, depth + 1, Len(m.trail)), @),
            !.trail = SubSeq(@, 1, depth)]

-----------------------------------------------------------------------------
(* unify_internal.                                                         *)
Deref(var, term) ==
  LET end[t \in Term] ==
        IF t \in Var /\ var[t].binding # Unbound THEN end[var[t].binding] ELSE t
  IN  end[term]

Enqueue(m, t) ==
  IF t \in m.queued THEN m
  ELSE [m EXCEPT !.queue = Append(@, t), !.queued = @ \cup {t}]

Fail(m) == [m EXCEPT !.ok = FALSE]

\* fire_attr_hooks: the attributes of x in an order of the hash map, so that
\* a hook which refuses does so before or after the propagators are queued.
FireHooks(m, x, hook) ==
  LET queued == FoldLeft(Enqueue, m, m.var[x].props)
  IN  IF x \notin Hooked THEN queued
      ELSE CASE hook = "accepts"    -> queued
             [] hook = "fails last"  -> Fail(queued)
             [] hook = "fails first" -> Fail(m)

\* Faulty variant: a domain is not handed on to a variable that has none.
IntersectionOfBoth(m, x, term) ==
  LET d == m.var[x].domain
      e == m.var[term].domain
  IN  IF term \in Ground \/ d = NoDomain \/ e = NoDomain THEN NoDomain ELSE d \cap e

\* The domain the surviving variable gets, NoDomain for a value.
Intersection(m, x, term) ==
  LET d == m.var[x].domain
      e == m.var[term].domain
  IN  IF term \in Ground THEN NoDomain
      ELSE IF d = NoDomain \/ e = NoDomain THEN d ELSE d \cap e

Admits(m, x, term) ==
  /\ term \in Ground /\ m.var[x].domain # NoDomain => term \in m.var[x].domain
  /\ Intersection(m, x, term) # {}

BindTo(m, x, term, hook) ==
  LET d == Intersection(m, x, term)
      fired == FireHooks(Bind(IF d = NoDomain THEN m ELSE SetDomain(m, term, d), x, term),
                         x, hook)
  IN  IF ~Admits(m, x, term) THEN Fail(m)
      ELSE IF fired.ok THEN fired ELSE RollbackTo(fired, Len(m.trail))

UnifyOne(m, equation, hook) ==
  LET a == Deref(m.var, equation[1])
      b == Deref(m.var, equation[2])
  IN  IF ~m.ok \/ a = b THEN m
      ELSE IF a \in Var THEN BindTo(m, a, b, hook)
      ELSE IF b \in Var THEN BindTo(m, b, a, hook)
      ELSE Fail(m)

UnifyInternal(m, equations, hook) ==
  FoldLeft(LAMBDA r, equation : UnifyOne(r, equation, hook), [m EXCEPT !.ok = TRUE], equations)

\* A failing outermost unify restores its snapshot and drops the queue.
GiveUp(m, depth) == [RollbackTo(m, depth) EXCEPT !.queue = <<>>, !.queued = {}, !.ok = FALSE]

BoundBy(m, n) == {x \in Var : m.var[x].binding = Unbound /\ n.var[x].binding # Unbound}
PropsOf(m, X) == UNION {ToSet(m.var[x].props) : x \in X}

-----------------------------------------------------------------------------
InitUnifier ==
  /\ logic = [var |-> [x \in Var |-> [binding |-> Unbound, domain |-> NoDomain, props |-> <<>>]],
              trail |-> <<>>, queue |-> <<>>, queued |-> {}, ok |-> TRUE]
  /\ within = "program"
  /\ origin = [depth |-> 0, var |-> logic.var]
  /\ marks = <<>> /\ writes = 0 /\ due = {}

Writes == writes < MaxWrites /\ writes' = writes + 1
Goals  == UNION {[1..n -> Equations] : n \in 1..MaxEquations}
Hooks  == {"accepts", "fails first", "fails last"}

\* The outermost unify, up to its drain.
Unify(goal, hook) ==
  /\ within = "program" /\ Writes
  /\ origin' = [depth |-> Len(logic.trail), var |-> logic.var]
  /\ LET m == UnifyInternal(logic, goal, hook)
     IN  IF m.ok
         THEN /\ logic' = m /\ within' = "drain"
              /\ due' = PropsOf(logic, BoundBy(logic, m))
         ELSE logic' = GiveUp(m, origin'.depth) /\ UNCHANGED <<within, due>>
  /\ UNCHANGED marks

\* Faulty variant: a thunk leaves the set when it is done.
DrainStillQueued ==
  /\ within = "drain" /\ logic.queue # <<>>
  /\ LET t == Head(logic.queue)
     IN  /\ logic' = [logic EXCEPT !.queue = Tail(@)]
         /\ due' = due \ {t}
  /\ within' = "thunk"
  /\ UNCHANGED <<origin, marks, writes>>

\* A thunk leaves the set before it runs, so that it may queue itself again.
Drain ==
  /\ within = "drain" /\ logic.queue # <<>>
  /\ LET t == Head(logic.queue)
     IN  /\ logic' = [logic EXCEPT !.queue = Tail(@), !.queued = @ \ {t}]
         /\ due' = due \ {t}
  /\ within' = "thunk"
  /\ UNCHANGED <<origin, marks, writes>>

Drained ==
  /\ within = "drain" /\ logic.queue = <<>>
  /\ within' = "program"
  /\ UNCHANGED <<logic, origin, marks, writes, due>>

\* A nested unify neither drains nor rolls back as a whole: of a compound
\* that does not unify, the elements before the mismatch stay bound.
ThunkUnify(goal, hook) ==
  /\ within = "thunk" /\ Writes
  /\ logic' = UnifyInternal(logic, goal, hook)
  /\ due' = due \cup PropsOf(logic, BoundBy(logic, logic'))
  /\ UNCHANGED <<within, origin, marks>>

ThunkReturns ==
  /\ within = "thunk" /\ within' = "drain"
  /\ UNCHANGED <<logic, origin, marks, writes, due>>

\* A propagator returns #f or raises.
ThunkFails ==
  /\ within = "thunk"
  /\ logic' = GiveUp(logic, origin.depth) /\ within' = "program" /\ due' = {}
  /\ UNCHANGED <<origin, marks, writes>>

\* A constraint narrows the variable at the end of the chain, in the program
\* or in a propagator.  Assumed: no program widens a domain it has set.
Narrow(x, d) ==
  /\ within \in {"program", "thunk"} /\ Writes
  /\ logic.var[x].binding = Unbound
  /\ logic.var[x].domain # NoDomain => d \subseteq logic.var[x].domain /\ d # logic.var[x].domain
  /\ logic' = SetDomain(logic, x, d)
  /\ UNCHANGED <<within, origin, marks, due>>

\* %clp-prop-attach!.
AttachPropagator(x, t) ==
  /\ within = "program" /\ Writes
  /\ Deref(logic.var, x) \in Var
  /\ logic' = Attach(logic, x, t)
  /\ UNCHANGED <<within, origin, marks, due>>

TrailMark ==
  /\ within = "program" /\ Len(marks) < MaxMarks
  /\ marks' = Append(marks, [depth |-> Len(logic.trail), var |-> logic.var])
  /\ UNCHANGED <<logic, within, origin, writes, due>>

\* A program unwinds to a mark it has not unwound past.
UnwindTrail(i) ==
  /\ within = "program"
  /\ logic' = RollbackTo(logic, marks[i].depth)
  /\ marks' = SubSeq(marks, 1, i)
  /\ UNCHANGED <<within, origin, writes, due>>

Idle == within = "program" /\ writes = MaxWrites /\ UNCHANGED unifier

UnifierNext ==
  \/ \E goal \in Goals, hook \in Hooks : Unify(goal, hook) \/ ThunkUnify(goal, hook)
  \/ Drain \/ Drained \/ ThunkReturns \/ ThunkFails
  \/ \E x \in Var, d \in Domains : Narrow(x, d)
  \/ \E x \in Var, t \in Thunk : AttachPropagator(x, t)
  \/ TrailMark \/ \E i \in DOMAIN marks : UnwindTrail(i)
  \/ Idle

-----------------------------------------------------------------------------
\* Unwinding to a mark the program kept, or to the start of the outermost
\* unify while it is under way, puts every binding, domain and attribute back
\* as it was then, however many unifications failed or succeeded since.
UnwindRestores ==
  /\ \A i \in DOMAIN marks : RollbackTo(logic, marks[i].depth).var = marks[i].var
  /\ within # "program" => RollbackTo(logic, origin.depth).var = origin.var

\* A propagator attached to a variable that was bound is still to be run, also
\* if it is running at that moment and bound the variable itself.
WakeupsKept == due \subseteq ToSet(logic.queue)

\* The value of a variable lies in the domain of every variable of its chain,
\* also when the chain was made before the value was known.
DomainHonoured ==
  \A x \in Var :
    LET value == Deref(logic.var, x)
    IN  value \in Ground /\ logic.var[x].domain # NoDomain => value \in logic.var[x].domain
=============================================================================
