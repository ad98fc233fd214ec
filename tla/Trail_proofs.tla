---------------------------- MODULE Trail_proofs ----------------------------
(***************************************************************************)
(* Undoing, waking propagators and honouring domains, for any terms, goals *)
(* and hooks, and trails and chains of any length.                         *)
(***************************************************************************)
EXTENDS MCVm, FiniteSetTheorems, WellFoundedInduction, TLAPS

-----------------------------------------------------------------------------
(* What the folds compute, one element at a time.                          *)

\* A non-empty set of numbers has a least element.
LEMMA Least ==
  ASSUME NEW S, S \subseteq Nat, S # {} PROVE \E n \in S : \A m \in S : n <= m
<1> DEFINE R == {p \in Nat \X Nat : p[1] < p[2]}
<1>1. IsWellFoundedOn(R, Nat)
  <2>1. OpToRel(<, Nat) = R
    BY DEF OpToRel
  <2>2. QED
    BY <2>1, NatLessThanWellFounded
<1> HIDE DEF R
<1>2. PICK n \in S : \A m \in S : ~(<<m, n>> \in R)
  BY <1>1, WFMin
<1>3. ASSUME NEW m \in S, m < n PROVE FALSE
  <2>1. <<m, n>> \in Nat \X Nat /\ <<m, n>>[1] < <<m, n>>[2]
    BY <1>3
  <2>2. QED
    BY <1>2, <2>1 DEF R
<1>4. \A m \in S : m \in Int /\ n \in Int
  OBVIOUS
<1>5. QED
  BY <1>3, <1>4

\* Induction up to a bound: what holds of 0 and of the next number holds of all.
LEMMA Climb ==
  ASSUME NEW n \in Nat, NEW P, 0 \in P, \A k \in 0..n : k \in P /\ k < n => k + 1 \in P
  PROVE  \A k \in 0..n : k \in P
<1> DEFINE S == {k \in 0..n : k \notin P}
<1>1. SUFFICES ASSUME S # {} PROVE FALSE
  OBVIOUS
<1>2. PICK k \in S : \A m \in S : k <= m
  <2>1. S \subseteq Nat
    OBVIOUS
  <2> HIDE DEF S
  <2>2. QED
    BY <1>1, <2>1, Least
<1>3. k # 0 /\ k \in 0..n
  BY <1>2
<1>4. k - 1 \in 0..n /\ k - 1 < n /\ k - 1 < k /\ (k - 1) + 1 = k
  BY <1>3
<1>5. k - 1 \in P
  BY <1>2, <1>4
<1>6. QED
  BY <1>2, <1>4, <1>5

\* The same downwards.
LEMMA Descend ==
  ASSUME NEW n \in Nat, NEW P, n \in P, \A k \in 0..n : k \in P /\ k > 0 => k - 1 \in P
  PROVE  \A k \in 0..n : k \in P
<1> DEFINE Q == {k \in 0..n : n - k \in P}
<1>1. 0 \in Q
  OBVIOUS
<1>2. ASSUME NEW k \in 0..n, k \in Q, k < n PROVE k + 1 \in Q
  <2>1. n - k \in 0..n /\ n - k > 0 /\ n - k \in P /\ (n - k) - 1 = n - (k + 1) /\ k + 1 \in 0..n
    BY <1>2
  <2>2. QED
    BY <2>1
<1>3. \A k \in 0..n : k \in Q
  <2> HIDE DEF Q
  <2>1. QED
    BY <1>1, <1>2, Climb
<1>4. ASSUME NEW k \in 0..n PROVE k \in P
  <2>1. n - k \in Q /\ n - (n - k) = k
    BY SMTT(40), <1>3
  <2>2. QED
    BY <2>1
<1>5. QED
  BY <1>4

\* The function behind a fold exists: op[x] is what the fold does with x, and
\* pick[s] the element of s it takes last.
Folds(f, T, base, pick, op) ==
  f = [s \in SUBSET T |-> IF s = {} THEN base ELSE op[pick[s]][f[s \ {pick[s]}]]]

LEMMA FoldExists ==
  ASSUME NEW T, IsFiniteSet(T), NEW U, NEW base \in U, NEW op \in [T -> [U -> U]],
         NEW pick, \A s \in SUBSET T : s # {} => pick[s] \in s
  PROVE  \E f \in [SUBSET T -> U] : Folds(f, T, base, pick, op)
<1> DEFINE Value(f, s) == IF s = {} THEN base ELSE op[pick[s]][f[s \ {pick[s]}]]
           Upto(f, k) == \A s \in SUBSET T : Cardinality(s) <= k => f[s] = Value(f, s)
           n == Cardinality(T)
           P == {k \in 0..n : \E f \in [SUBSET T -> U] : Upto(f, k)}
<1>1. /\ n \in Nat
      /\ \A s \in SUBSET T : /\ IsFiniteSet(s) /\ Cardinality(s) \in 0..n
                             /\ s # {} <=> Cardinality(s) > 0
  <2>1. \A s \in SUBSET T : IsFiniteSet(s) /\ Cardinality(s) <= n
    BY FS_Subset
  <2>2. \A s : IsFiniteSet(s) => Cardinality(s) \in Nat /\ (s = {} <=> Cardinality(s) = 0)
    BY FS_CardinalityType, FS_EmptySet
  <2>3. n \in Nat
    BY <2>2
  <2>4. ASSUME NEW s \in SUBSET T
        PROVE  /\ IsFiniteSet(s) /\ Cardinality(s) \in 0..n
               /\ s # {} <=> Cardinality(s) > 0
    <3>1. IsFiniteSet(s) /\ Cardinality(s) <= n /\ Cardinality(s) \in Nat /\ (s = {} <=> Cardinality(s) = 0)
      BY <2>1, <2>2
    <3> HIDE DEF n
    <3>2. QED
      BY <2>3, <3>1
  <2> HIDE DEF n
  <2>5. QED
    BY <2>3, <2>4
<1>2. \A s \in SUBSET T : s # {} =>
        /\ s \ {pick[s]} \in SUBSET T /\ pick[s] \in T
        /\ Cardinality(s \ {pick[s]}) = Cardinality(s) - 1
  <2>1. ASSUME NEW s \in SUBSET T, s # {}
        PROVE  Cardinality(s \ {pick[s]}) = Cardinality(s) - 1
    <3>1. IsFiniteSet(s) /\ pick[s] \in s
      BY <1>1, <2>1
    <3>2. QED
      BY <3>1, FS_RemoveElement
  <2>2. QED
    BY <2>1
<1>3. \A f \in [SUBSET T -> U], s \in SUBSET T : Value(f, s) \in U
  BY <1>2
<1> HIDE DEF n
<1>4. 0 \in P
  <2> DEFINE f == [s \in SUBSET T |-> base]
  <2>1. f \in [SUBSET T -> U] /\ \A s \in SUBSET T : f[s] = base
    OBVIOUS
  <2> HIDE DEF f
  <2>2. ASSUME NEW s \in SUBSET T, Cardinality(s) <= 0 PROVE s = {}
    BY <1>1, <2>2
  <2>3. Upto(f, 0)
    BY <2>1, <2>2
  <2>4. QED
    BY <1>1, <2>1, <2>3
<1>5. ASSUME NEW k \in 0..n, k \in P, k < n PROVE k + 1 \in P
  <2>1. PICK f \in [SUBSET T -> U] : Upto(f, k)
    BY <1>5
  <2> DEFINE g == [s \in SUBSET T |-> IF Cardinality(s) <= k THEN f[s] ELSE Value(f, s)]
  <2>2. g \in [SUBSET T -> U]
    BY <1>3
  <2>3. \A s \in SUBSET T : g[s] = IF Cardinality(s) <= k THEN f[s] ELSE Value(f, s)
    OBVIOUS
  <2> HIDE DEF g
  <2>4. ASSUME NEW s \in SUBSET T, Cardinality(s) <= k + 1 PROVE g[s] = Value(g, s)
    <3>1. g[s] = Value(f, s)
      BY <2>1, <2>3
    <3>2. CASE s = {}
      BY <3>1, <3>2
    <3>3. CASE s # {}
      <4>1. Cardinality(s \ {pick[s]}) <= k /\ s \ {pick[s]} \in SUBSET T
        BY <1>1, <1>2, <2>4, <3>3
      <4>2. g[s \ {pick[s]}] = f[s \ {pick[s]}]
        BY <2>3, <4>1
      <4>3. QED
        BY <3>1, <4>2
    <3>4. QED
      BY <3>2, <3>3
  <2>5. Upto(g, k + 1)
    BY <2>4
  <2>6. k + 1 \in 0..n
    BY <1>1, <1>5
  <2>7. QED
    BY <2>2, <2>5, <2>6
<1>6. n \in P
  <2>1. n \in 0..n
    BY <1>1
  <2>2. \A k \in 0..n : k \in P /\ k < n => k + 1 \in P
    BY <1>5
  <2> HIDE DEF P
  <2>3. \A k \in 0..n : k \in P
    BY <1>1, <1>4, <2>2, Climb
  <2>4. QED
    BY <2>1, <2>3
<1>7. PICK f \in [SUBSET T -> U] : Upto(f, n)
  BY <1>6
<1>8. \A s \in SUBSET T : f[s] = Value(f, s)
  <2>1. \A s \in SUBSET T : Cardinality(s) <= n
    BY <1>1
  <2> HIDE DEF Value
  <2>2. QED
    BY <1>7, <2>1
<1>9. f = [s \in SUBSET T |-> f[s]]
  BY <1>7
<1>10. f = [s \in SUBSET T |-> Value(f, s)]
  <2> HIDE DEF Value
  <2>1. QED
    BY <1>8, <1>9
<1>11. QED
  BY <1>7, <1>10 DEF Folds

LEMMA Extremes ==
  ASSUME NEW n \in Nat, NEW s \in SUBSET (1..n), s # {}
  PROVE  Max(s) \in s /\ (\A i \in s : i <= Max(s)) /\ Min(s) \in s /\ (\A i \in s : Min(s) <= i)
<1>1. \E i \in s : \A j \in s : i <= j
  <2>1. s \subseteq Nat
    OBVIOUS
  <2>2. QED
    BY <2>1, Least
<1>2. \E i \in s : \A j \in s : i >= j
  <2> DEFINE R == {n - i : i \in s}
  <2>1. R \subseteq Nat /\ R # {}
    <3>1. \A i \in s : n - i \in Nat
      OBVIOUS
    <3>2. PICK i \in s : TRUE
      OBVIOUS
    <3>3. n - i \in R
      BY <3>2
    <3>4. QED
      BY <3>1, <3>3
  <2>2. PICK k \in R : \A m \in R : k <= m
    <3> HIDE DEF R
    <3>1. QED
      BY <2>1, Least
  <2>3. PICK i \in s : k = n - i
    BY <2>2
  <2>4. \A j \in s : i >= j
    <3>1. ASSUME NEW j \in s PROVE i >= j
      <4>1. n - i <= n - j
        BY <2>2, <2>3
      <4>2. QED
        BY <4>1
    <3>2. QED
      BY <3>1
  <2>5. QED
    BY <2>4
<1>3. QED
  BY <1>1, <1>2 DEF Max, Min

LEMMA MinOfSegment ==
  ASSUME NEW n \in Nat, NEW i \in 1..n
  PROVE  (i..n) # {} /\ Min(i..n) = i /\ (i..n) \ {i} = (i + 1)..n
<1>1. Min(i..n) \in i..n /\ Min(i..n) <= i
  <2>1. i..n \in SUBSET (1..n) /\ i \in i..n
    OBVIOUS
  <2>2. QED
    BY <2>1, Extremes
<1>2. QED
  BY <1>1

LEMMA MaxOfSegment ==
  ASSUME NEW n \in Nat, NEW i \in 1..n
  PROVE  (1..i) # {} /\ Max(1..i) = i /\ (1..i) \ {i} = 1..(i - 1)
<1>1. Max(1..i) \in 1..i /\ Max(1..i) >= i
  <2>1. 1..i \in SUBSET (1..n) /\ i \in 1..i
    OBVIOUS
  <2>2. QED
    BY <2>1, Extremes
<1>2. QED
  BY <1>1

-----------------------------------------------------------------------------
(* The state of the logic variables, and what the trail takes it back to.  *)

Info    == [binding : Term \cup {Unbound}, domain : Domains \cup {NoDomain}, props : Seq(Thunk)]
Store   == [Var -> Info]
Entry   == [kind : {"Bind", "Domain", "Attr"}, x : Var, prev : Info]
Machine == [var : Store, trail : Seq(Entry), queue : Seq(Thunk), queued : SUBSET Thunk,
            ok : BOOLEAN]

LEMMA RollbackType == \A e \in Entry, var \in Store : RollbackOne(e, var) \in Store
<1>1. ASSUME NEW e \in Entry, NEW var \in Store PROVE RollbackOne(e, var) \in Store
  <2>1. /\ e.kind \in {"Bind", "Domain", "Attr"} /\ e.x \in Var
        /\ e.prev.domain \in Domains \cup {NoDomain} /\ e.prev.props \in Seq(Thunk)
        /\ var[e.x] \in Info
    BY DEF Entry, Info, Store
  <2>2. CASE e.kind = "Bind"
    <3>1. [var[e.x] EXCEPT !.binding = Unbound] \in Info
      BY <2>1 DEF Info
    <3>2. RollbackOne(e, var) = [var EXCEPT ![e.x] = [var[e.x] EXCEPT !.binding = Unbound]]
      BY <2>2 DEF RollbackOne
    <3>3. QED
      BY <3>1, <3>2 DEF Store
  <2>3. CASE e.kind = "Domain"
    <3>1. [var[e.x] EXCEPT !.domain = e.prev.domain] \in Info
      BY <2>1 DEF Info
    <3>2. RollbackOne(e, var) = [var EXCEPT ![e.x] = [var[e.x] EXCEPT !.domain = e.prev.domain]]
      BY <2>3 DEF RollbackOne
    <3>3. QED
      BY <3>1, <3>2 DEF Store
  <2>4. CASE e.kind = "Attr"
    <3>1. [var[e.x] EXCEPT !.props = e.prev.props] \in Info
      BY <2>1 DEF Info
    <3>2. RollbackOne(e, var) = [var EXCEPT ![e.x] = [var[e.x] EXCEPT !.props = e.prev.props]]
      BY <2>4 DEF RollbackOne
    <3>3. QED
      BY <3>1, <3>2 DEF Store
  <2>5. QED
    BY <2>1, <2>2, <2>3, <2>4
<1>2. QED
  BY <1>1

\* Rolling back a trail goes through it from its end, one entry at a time.
LEMMA RollbackTrace ==
  ASSUME NEW q \in Seq(Entry), NEW base \in Store
  PROVE  \E r : /\ r[Len(q)] = base /\ r[0] = FoldRight(RollbackOne, q, base)
                /\ \A i \in 1..Len(q) : r[i - 1] = RollbackOne(q[i], r[i])
<1> DEFINE n == Len(q)
           T == DOMAIN q
           Back1(f, s) == IF s = {} THEN base ELSE RollbackOne(q[Min(s)], f[s \ {Min(s)}])
           Rolls(f) == f = [s \in SUBSET T |-> Back1(f, s)]
<1>1. n \in Nat /\ T = 1..n /\ \A i \in T : q[i] \in Entry
  OBVIOUS
<1> HIDE DEF n
<1>2. \E f : Rolls(f)
  <2> DEFINE pick == [s \in SUBSET T |-> Min(s)]
             op == [i \in T |-> [var \in Store |-> RollbackOne(q[i], var)]]
  <2>1. IsFiniteSet(T)
    BY <1>1, FS_Interval
  <2>2. op \in [T -> [Store -> Store]]
    BY <1>1, RollbackType
  <2>3. \A s \in SUBSET T : pick[s] = Min(s) /\ (s # {} => pick[s] \in s)
    BY <1>1, Extremes
  <2>4. \A i \in T, var \in Store : op[i][var] = RollbackOne(q[i], var)
    OBVIOUS
  <2> HIDE DEF pick, op
  <2>5. PICK f \in [SUBSET T -> Store] : Folds(f, T, base, pick, op)
    <3> HIDE DEF T
    <3>1. QED
      BY <2>1, <2>2, <2>3, FoldExists
  <2>6. \A s \in SUBSET T : f[s] = Back1(f, s)
    <3>1. ASSUME NEW s \in SUBSET T PROVE f[s] = Back1(f, s)
      <4>1. f[s] = IF s = {} THEN base ELSE op[pick[s]][f[s \ {pick[s]}]]
        BY <2>5 DEF Folds
      <4>2. s # {} => Min(s) \in T /\ f[s \ {Min(s)}] \in Store
        BY <2>3, <2>5
      <4>3. QED
        BY <4>1, <4>2, <2>3, <2>4
    <3>2. QED
      BY <3>1
  <2>7. f = [s \in SUBSET T |-> f[s]]
    BY <2>5
  <2>8. Rolls(f)
    <3> HIDE DEF Back1
    <3>1. QED
      BY <2>6, <2>7
  <2>9. QED
    BY <2>8
<1> DEFINE F == CHOOSE f : Rolls(f)
<1>3. FoldRight(RollbackOne, q, base) = F[DOMAIN q]
  BY DEF FoldRight, MapThenFoldSet
<1>4. Rolls(F)
  <2> HIDE DEF Rolls
  <2>1. QED
    BY <1>2
<1>5. \A s \in SUBSET T : F[s] = Back1(F, s)
  <2> HIDE DEF F, Back1
  <2>1. QED
    BY <1>4
<1> HIDE DEF F, T
<1> DEFINE r == [i \in 0..n |-> F[(i + 1)..n]]
<1>6. r[n] = base
  <2>1. (n + 1)..n = {} /\ n \in 0..n
    BY <1>1
  <2>2. F[{}] = base
    BY <1>5
  <2>3. QED
    BY <2>1, <2>2
<1>7. r[0] = F[DOMAIN q]
  <2>1. 0 \in 0..n /\ (0 + 1)..n = T
    BY <1>1
  <2>2. QED
    BY <2>1 DEF T
<1>8. ASSUME NEW i \in 1..n PROVE r[i - 1] = RollbackOne(q[i], r[i])
  <2>1. r[i - 1] = F[i..n] /\ r[i] = F[(i + 1)..n]
    BY <1>1
  <2>2. F[i..n] = RollbackOne(q[i], F[(i + 1)..n])
    <3>1. (i..n) # {} /\ Min(i..n) = i /\ (i..n) \ {i} = (i + 1)..n
      BY <1>1, MinOfSegment
    <3>2. F[i..n] = Back1(F, i..n)
      <4>1. i..n \in SUBSET T
        BY <1>1
      <4> HIDE DEF Back1
      <4>2. QED
        BY <1>5, <4>1
    <3>3. QED
      BY <3>1, <3>2
  <2>3. QED
    BY <2>1, <2>2
<1>9. QED
  <2> HIDE DEF r
  <2>1. QED
    BY <1>3, <1>6, <1>7, <1>8 DEF n

\* The variables as they were when the trail of m had length d.
Back(m, d) == FoldRight(RollbackOne, SubSeq(m.trail, d + 1, Len(m.trail)), m.var)

LEMMA BackLaws ==
  ASSUME NEW m \in Machine
  PROVE  /\ Back(m, Len(m.trail)) = m.var
         /\ \A d \in 1..Len(m.trail) : Back(m, d - 1) = RollbackOne(m.trail[d], Back(m, d))
<1> DEFINE n == Len(m.trail)
<1>1. n \in Nat /\ m.trail \in Seq(Entry) /\ m.var \in Store
  BY DEF Machine
<1>2. \A d \in 0..n : LET q == SubSeq(m.trail, d + 1, n)
                      IN  q \in Seq(Entry) /\ Len(q) = n - d /\ \A i \in 1..Len(q) : q[i] = m.trail[d + i]
  BY <1>1
<1>3. Back(m, n) = m.var
  <2> DEFINE q == SubSeq(m.trail, n + 1, n)
  <2>1. q \in Seq(Entry) /\ Len(q) = 0
    BY <1>1, <1>2
  <2>2. Back(m, n) = FoldRight(RollbackOne, q, m.var)
    BY DEF Back
  <2> HIDE DEF q
  <2>3. PICK r : /\ r[Len(q)] = m.var /\ r[0] = FoldRight(RollbackOne, q, m.var)
                 /\ \A i \in 1..Len(q) : r[i - 1] = RollbackOne(q[i], r[i])
    BY <1>1, <2>1, RollbackTrace
  <2>4. QED
    BY <2>1, <2>2, <2>3
<1>4. ASSUME NEW d \in 1..n PROVE Back(m, d - 1) = RollbackOne(m.trail[d], Back(m, d))
  <2> DEFINE q == SubSeq(m.trail, (d - 1) + 1, n)
             p == SubSeq(m.trail, d + 1, n)
             k == n - d
  <2>1. /\ q \in Seq(Entry) /\ Len(q) = k + 1 /\ \A i \in 1..(k + 1) : q[i] = m.trail[d - 1 + i]
        /\ p \in Seq(Entry) /\ Len(p) = k /\ \A i \in 1..k : p[i] = m.trail[d + i]
        /\ k \in Nat
    <3>1. d \in 0..n /\ d - 1 \in 0..n /\ n - (d - 1) = k + 1 /\ k \in Nat
      BY <1>1
    <3> HIDE DEF n, k
    <3>2. QED
      BY <1>2, <3>1 DEF k
  <2>2. Back(m, d - 1) = FoldRight(RollbackOne, q, m.var) /\ Back(m, d) = FoldRight(RollbackOne, p, m.var)
    BY DEF Back
  <2> HIDE DEF q, p, k, n
  <2>3. PICK r : /\ r[Len(q)] = m.var /\ r[0] = FoldRight(RollbackOne, q, m.var)
                 /\ \A i \in 1..Len(q) : r[i - 1] = RollbackOne(q[i], r[i])
    BY <1>1, <2>1, RollbackTrace
  <2>4. PICK t : /\ t[Len(p)] = m.var /\ t[0] = FoldRight(RollbackOne, p, m.var)
                 /\ \A i \in 1..Len(p) : t[i - 1] = RollbackOne(p[i], t[i])
    BY <1>1, <2>1, RollbackTrace
  <2> DEFINE P == {j \in 0..k : r[j + 1] = t[j]}
  <2>5. k \in P
    BY <2>1, <2>3, <2>4
  <2>6. ASSUME NEW j \in 0..k, j \in P, j > 0 PROVE j - 1 \in P
    <3>1. j \in 1..k /\ j + 1 \in 1..(k + 1) /\ (j + 1) - 1 = j /\ d - 1 + (j + 1) = d + j /\ (j - 1) + 1 = j
      BY <1>1, <2>1, <2>6
    <3>2. r[j] = RollbackOne(q[j + 1], r[j + 1]) /\ t[j - 1] = RollbackOne(p[j], t[j])
      BY <2>1, <2>3, <2>4, <3>1
    <3>3. q[j + 1] = p[j]
      BY ZenonT(60), <2>1, <3>1
    <3>4. j - 1 \in 0..k
      BY <2>1, <3>1
    <3>5. QED
      BY <2>6, <3>1, <3>2, <3>3, <3>4
  <2>7. \A j \in 0..k : j \in P
    <3> HIDE DEF P
    <3>1. QED
      BY <2>1, <2>5, <2>6, Descend
  <2>8. r[1] = t[0]
    <3>1. 0 \in 0..k
      BY <2>1
    <3>2. QED
      BY <2>7, <3>1
  <2>9. r[0] = RollbackOne(m.trail[d], r[1])
    <3>1. 1 \in 1..(k + 1) /\ d - 1 + 1 = d /\ 1 - 1 = 0
      BY <1>1, <2>1
    <3>2. q[1] = m.trail[d]
      BY <2>1, <3>1
    <3>3. r[1 - 1] = RollbackOne(q[1], r[1])
      BY <2>1, <2>3, <3>1
    <3>4. QED
      BY <3>1, <3>2, <3>3
  <2>10. QED
    BY <2>2, <2>3, <2>4, <2>8, <2>9
<1>5. QED
  BY <1>3, <1>4

\* Machines whose trails agree up to a point, and take the variables back to
\* the same there, do so everywhere below it.
LEMMA BackAgrees ==
  ASSUME NEW m \in Machine, NEW n \in Machine, NEW D \in 0..Len(m.trail), D <= Len(n.trail),
         \A d \in 1..D : m.trail[d] = n.trail[d], Back(m, D) = Back(n, D)
  PROVE  \A d \in 0..D : Back(m, d) = Back(n, d)
<1> DEFINE P == {d \in 0..D : Back(m, d) = Back(n, d)}
<1>1. D \in Nat /\ Len(m.trail) \in Nat /\ Len(n.trail) \in Nat
  BY DEF Machine
<1>2. D \in P
  BY <1>1
<1>3. ASSUME NEW d \in 0..D, d \in P, d > 0 PROVE d - 1 \in P
  <2>1. d \in 1..D /\ d \in 1..Len(m.trail) /\ d \in 1..Len(n.trail) /\ d - 1 \in 0..D
    BY <1>1, <1>3
  <2>2. /\ Back(m, d - 1) = RollbackOne(m.trail[d], Back(m, d))
        /\ Back(n, d - 1) = RollbackOne(n.trail[d], Back(n, d))
    BY <2>1, BackLaws
  <2>3. QED
    BY <1>3, <2>1, <2>2
<1>4. \A d \in 0..D : d \in P
  <2> HIDE DEF P
  <2>1. QED
    BY <1>1, <1>2, <1>3, Descend
<1>5. QED
  BY <1>4

\* Undoing to d forgets what came after and changes nothing of what was before.
LEMMA RollbackToLaws ==
  ASSUME NEW m \in Machine, NEW d \in 0..Len(m.trail), Back(m, d) \in Store
  PROVE  /\ RollbackTo(m, d) \in Machine
         /\ RollbackTo(m, d).var = Back(m, d)
         /\ Len(RollbackTo(m, d).trail) = d
         /\ RollbackTo(m, d).queue = m.queue /\ RollbackTo(m, d).queued = m.queued
         /\ RollbackTo(m, d).ok = m.ok
         /\ \A c \in 0..d : Back(RollbackTo(m, d), c) = Back(m, c)
<1> DEFINE n == RollbackTo(m, d)
<1>1. d \in Nat /\ m.trail \in Seq(Entry) /\ Len(m.trail) \in Nat /\ d <= Len(m.trail)
  BY DEF Machine
<1>2. n = [m EXCEPT !.var = Back(m, d), !.trail = SubSeq(m.trail, 1, d)]
  BY DEF RollbackTo, Back
<1>3. SubSeq(m.trail, 1, d) \in Seq(Entry) /\ Len(SubSeq(m.trail, 1, d)) = d
      /\ \A i \in 1..d : SubSeq(m.trail, 1, d)[i] = m.trail[i]
  BY <1>1
<1> HIDE DEF n
<1>4. /\ n \in Machine /\ n.var = Back(m, d) /\ n.trail = SubSeq(m.trail, 1, d)
      /\ n.queue = m.queue /\ n.queued = m.queued /\ n.ok = m.ok
  BY <1>2, <1>3 DEF Machine
<1>5. Back(n, d) = Back(m, d)
  <2>1. Len(n.trail) = d
    BY <1>3, <1>4
  <2>2. Back(n, d) = n.var
    BY <1>4, <2>1, BackLaws
  <2>3. QED
    BY <1>4, <2>2
<1>6. \A c \in 0..d : Back(n, c) = Back(m, c)
  <2>1. d \in 0..Len(n.trail) /\ \A c \in 1..d : n.trail[c] = m.trail[c]
    BY <1>1, <1>3, <1>4
  <2>2. QED
    BY <1>1, <1>4, <1>5, <2>1, BackAgrees
<1>7. QED
  BY <1>3, <1>4, <1>6 DEF n

-----------------------------------------------------------------------------
(* Chains of bindings.                                                     *)

IsBound(var, t) == t \in Var /\ var[t].binding # Unbound

\* A chain goes down to a term that is not bound.
Ranked(var, rank) == \A x \in Var : IsBound(var, x) => rank[var[x].binding] < rank[x]
Acyclic(var) == \E top \in Nat : \E rank \in [Term -> 0..top] : Ranked(var, rank)

\* Along a chain domains only shrink, and a value is in the last of them.
Nested(var) ==
  \A x \in Var : IsBound(var, x) /\ var[x].domain # NoDomain =>
    LET t == var[x].binding
    IN  /\ t \in Var => var[t].domain # NoDomain /\ var[t].domain \subseteq var[x].domain
        /\ t \in Ground => t \in var[x].domain

Good(var) == var \in Store /\ Acyclic(var) /\ Nested(var)

LEMMA BindingType ==
  ASSUME NEW var \in Store
  PROVE  \A t \in Term : IsBound(var, t) => var[t].binding \in Term
BY DEF Store, Info, IsBound

\* deref exists on chains that end: it is the fixpoint that goes down a chain.
LEMMA DerefSteps ==
  ASSUME NEW var \in Store, Acyclic(var)
  PROVE  \A t \in Term : Deref(var, t) = IF IsBound(var, t) THEN Deref(var, var[t].binding) ELSE t
<1>1. PICK top \in Nat : \E rank \in [Term -> 0..top] : Ranked(var, rank)
  BY DEF Acyclic
<1>2. PICK rank \in [Term -> 0..top] : Ranked(var, rank)
  BY <1>1
<1> DEFINE Next1(f, t) == IF t \in Var /\ var[t].binding # Unbound THEN f[var[t].binding] ELSE t
           Ends(f) == f = [t \in Term |-> Next1(f, t)]
           P == {k \in 0..top : \E f : \A t \in Term : rank[t] <= k => f[t] = Next1(f, t)}
<1>3. \A t \in Term : t \in Var /\ var[t].binding # Unbound =>
        /\ var[t].binding \in Term /\ rank[var[t].binding] < rank[t]
        /\ rank[var[t].binding] \in 0..top
  BY <1>2, BindingType DEF Ranked, IsBound
<1>4. 0 \in P
  <2> DEFINE f == [t \in Term |-> t]
  <2>1. ASSUME NEW t \in Term, rank[t] <= 0 PROVE f[t] = Next1(f, t)
    <3>1. ~(t \in Var /\ var[t].binding # Unbound)
      BY <1>2, <1>3, <2>1
    <3>2. QED
      BY <3>1
  <2>2. 0 \in 0..top
    BY <1>1
  <2>3. QED
    BY <2>1, <2>2
<1>5. ASSUME NEW k \in 0..top, k \in P, k < top PROVE k + 1 \in P
  <2>1. PICK f : \A t \in Term : rank[t] <= k => f[t] = Next1(f, t)
    BY <1>5
  <2> DEFINE g == [t \in Term |-> IF rank[t] <= k THEN f[t] ELSE Next1(f, t)]
  <2>2. \A t \in Term : g[t] = IF rank[t] <= k THEN f[t] ELSE Next1(f, t)
    OBVIOUS
  <2> HIDE DEF g
  <2>3. ASSUME NEW t \in Term, rank[t] <= k + 1 PROVE g[t] = Next1(g, t)
    <3>1. g[t] = Next1(f, t)
      BY <2>1, <2>2
    <3>2. CASE ~(t \in Var /\ var[t].binding # Unbound)
      BY <3>1, <3>2
    <3>3. CASE t \in Var /\ var[t].binding # Unbound
      <4>1. rank[var[t].binding] <= k /\ var[t].binding \in Term
        BY <1>2, <1>3, <2>3, <3>3
      <4>2. g[var[t].binding] = f[var[t].binding]
        BY <2>2, <4>1
      <4>3. QED
        BY <3>1, <3>3, <4>2
    <3>4. QED
      BY <3>2, <3>3
  <2>4. k + 1 \in 0..top
    BY <1>1, <1>5
  <2>5. QED
    BY <2>3, <2>4
<1>6. \E f : Ends(f)
  <2>1. top \in P
    <3> HIDE DEF P
    <3>1. \A k \in 0..top : k \in P
      BY <1>1, <1>4, <1>5, Climb
    <3>2. QED
      BY <1>1, <3>1
  <2>2. PICK f : \A t \in Term : rank[t] <= top => f[t] = Next1(f, t)
    BY <2>1
  <2>3. \A t \in Term : rank[t] <= top
    BY <1>1, <1>2
  <2> DEFINE g == [t \in Term |-> f[t]]
  <2>4. \A t \in Term : g[t] = f[t]
    OBVIOUS
  <2>5. \A t \in Term : Next1(g, t) = Next1(f, t)
    BY <1>3, <2>4
  <2>6. g = [t \in Term |-> Next1(g, t)]
    <3>1. \A t \in Term : f[t] = Next1(g, t)
      <4> HIDE DEF Next1
      <4>1. QED
        BY <2>2, <2>3, <2>5
    <3> HIDE DEF Next1
    <3>2. QED
      BY <3>1
  <2>7. QED
    BY <2>6
<1> DEFINE end == CHOOSE f : Ends(f)
<1>7. \A t : Deref(var, t) = end[t]
  BY DEF Deref
<1>8. Ends(end)
  <2> HIDE DEF Ends
  <2>1. QED
    BY <1>6
<1> HIDE DEF end
<1>9. \A t \in Term : end[t] = Next1(end, t)
  <2> HIDE DEF Next1
  <2>1. QED
    BY <1>8
<1>10. QED
  BY <1>3, <1>7, <1>9 DEF IsBound

\* deref ends at a value or an unbound variable, and in the domain of every
\* variable it has passed.
LEMMA DerefLaws ==
  ASSUME NEW var \in Store, Acyclic(var)
  PROVE  \A t \in Term : /\ Deref(var, t) \in Term /\ ~IsBound(var, Deref(var, t))
                         /\ Nested(var) /\ t \in Var /\ var[t].domain # NoDomain
                              /\ Deref(var, t) \in Ground => Deref(var, t) \in var[t].domain
<1>1. PICK top \in Nat : \E rank \in [Term -> 0..top] : Ranked(var, rank)
  BY DEF Acyclic
<1>2. PICK rank \in [Term -> 0..top] : Ranked(var, rank)
  BY <1>1
<1> DEFINE Fits(t) == Nested(var) /\ t \in Var /\ var[t].domain # NoDomain
                        /\ Deref(var, t) \in Ground => Deref(var, t) \in var[t].domain
           Law(t) == Deref(var, t) \in Term /\ ~IsBound(var, Deref(var, t)) /\ Fits(t)
           S == {k \in 0..top : \E t \in Term : rank[t] = k /\ ~Law(t)}
<1>3. SUFFICES ASSUME S # {} PROVE FALSE
  <2>1. SUFFICES ASSUME NEW t \in Term, ~Law(t) PROVE FALSE
    OBVIOUS
  <2>2. rank[t] \in S
    BY <1>2, <2>1
  <2>3. QED
    BY <1>3, <2>2
<1>4. PICK k \in S : \A j \in S : k <= j
  <2>1. S \subseteq Nat
    OBVIOUS
  <2> HIDE DEF S
  <2>2. QED
    BY <1>3, <2>1, Least
<1>5. PICK t \in Term : rank[t] = k /\ ~Law(t)
  BY <1>4
<1>6. CASE ~IsBound(var, t)
  <2>1. Deref(var, t) = t
    BY <1>6, DerefSteps
  <2>2. t \in Var => t \notin Ground
    BY TrailAssumption
  <2>3. QED
    BY <1>5, <1>6, <2>1, <2>2
<1>7. CASE IsBound(var, t)
  <2> DEFINE u == var[t].binding
  <2>1. u \in Term /\ Deref(var, t) = Deref(var, u) /\ rank[u] < rank[t] /\ rank[u] \in 0..top
    BY <1>2, <1>7, DerefSteps, BindingType DEF Ranked, IsBound
  <2>2. Law(u)
    <3>1. CASE rank[u] \in S
      <4>1. k <= rank[u] /\ k \in 0..top
        BY <1>4, <3>1
      <4>2. QED
        BY <1>5, <2>1, <4>1
    <3>2. CASE rank[u] \notin S
      BY <2>1, <3>2
    <3>3. QED
      BY <3>1, <3>2
  <2>3. Fits(t)
    <3>1. SUFFICES ASSUME Nested(var), t \in Var, var[t].domain # NoDomain, Deref(var, t) \in Ground
                   PROVE  Deref(var, t) \in var[t].domain
      OBVIOUS
    <3>2. /\ u \in Var => var[u].domain # NoDomain /\ var[u].domain \subseteq var[t].domain
          /\ u \in Ground => u \in var[t].domain
      BY <1>7, <3>1 DEF Nested
    <3>3. CASE u \in Var
      BY <2>1, <2>2, <3>1, <3>2, <3>3
    <3>4. CASE u \in Ground
      <4>1. ~IsBound(var, u)
        BY <3>4, TrailAssumption DEF IsBound
      <4>2. Deref(var, u) = u
        BY <2>1, <4>1, DerefSteps
      <4>3. QED
        BY <2>1, <3>2, <3>4, <4>2
    <3>5. QED
      BY <2>1, <3>3, <3>4 DEF Term
  <2>4. QED
    BY <1>5, <2>1, <2>2, <2>3
<1>8. QED
  BY <1>6, <1>7

-----------------------------------------------------------------------------
(* What a write does to the chains.                                        *)

LEMMA BindAcyclic ==
  ASSUME NEW var \in Store, Acyclic(var), NEW x \in Var, ~IsBound(var, x),
         NEW t \in Term, ~IsBound(var, t), t # x,
         NEW new, new[x].binding = t, \A y \in Var : y # x => new[y].binding = var[y].binding
  PROVE  Acyclic(new)
<1>1. PICK top \in Nat : \E rank \in [Term -> 0..top] : Ranked(var, rank)
  BY DEF Acyclic
<1>2. PICK rank \in [Term -> 0..top] : Ranked(var, rank)
  BY <1>1
<1> DEFINE most == top + top + 1
           up == [u \in Term |-> IF Deref(var, u) = x THEN rank[u] + rank[t] + 1 ELSE rank[u]]
<1>3. up \in [Term -> 0..most] /\ most \in Nat
  <2>1. \A u \in Term : rank[u] \in 0..top /\ rank[t] \in 0..top
    BY <1>2
  <2>2. QED
    BY <1>1, <2>1
<1>4. \A u \in Term : up[u] = IF Deref(var, u) = x THEN rank[u] + rank[t] + 1 ELSE rank[u]
  OBVIOUS
<1> HIDE DEF up, most
<1>5. Deref(var, t) = t /\ Deref(var, x) = x /\ x \in Term
  BY DerefSteps DEF Term
<1>6. ASSUME NEW y \in Var, IsBound(new, y) PROVE up[new[y].binding] < up[y]
  <2>1. rank[y] \in 0..top /\ rank[t] \in 0..top /\ y \in Term
    BY <1>2 DEF Term
  <2>2. CASE y = x
    <3>1. up[t] = rank[t] /\ up[x] = rank[x] + rank[t] + 1
      BY <1>4, <1>5
    <3>2. QED
      BY <1>1, <2>1, <2>2, <3>1
  <2>3. CASE y # x
    <3>1. IsBound(var, y) /\ new[y].binding = var[y].binding
      BY <1>6, <2>3 DEF IsBound
    <3>2. var[y].binding \in Term /\ Deref(var, y) = Deref(var, var[y].binding)
      BY <2>1, <3>1, BindingType, DerefSteps
    <3>3. rank[var[y].binding] < rank[y] /\ rank[var[y].binding] \in 0..top
      BY <1>2, <3>1, <3>2 DEF Ranked
    <3>4. QED
      BY <1>1, <1>4, <2>1, <3>1, <3>2, <3>3
  <2>4. QED
    BY <2>2, <2>3
<1>7. QED
  BY <1>3, <1>6 DEF Acyclic, Ranked

LEMMA SameBindings ==
  ASSUME NEW var, NEW new, Acyclic(var), \A y \in Var : new[y].binding = var[y].binding
  PROVE  Acyclic(new)
BY DEF Acyclic, Ranked, IsBound

LEMMA GoodBind ==
  ASSUME NEW var, Good(var), NEW x \in Var, ~IsBound(var, x),
         NEW t \in Term, ~IsBound(var, t), t # x,
         var[x].domain # NoDomain =>
           /\ t \in Var => var[t].domain # NoDomain /\ var[t].domain \subseteq var[x].domain
           /\ t \in Ground => t \in var[x].domain
  PROVE  Good([var EXCEPT ![x] = [var[x] EXCEPT !.binding = t]])
<1> DEFINE new == [var EXCEPT ![x] = [var[x] EXCEPT !.binding = t]]
<1>1. var \in Store /\ Acyclic(var) /\ Nested(var)
  BY DEF Good
<1>2. var[x] \in Info /\ [var[x] EXCEPT !.binding = t] \in Info
  BY <1>1 DEF Store, Info
<1>3. new \in Store /\ new[x] = [var[x] EXCEPT !.binding = t] /\ \A y \in Var : y # x => new[y] = var[y]
  BY <1>1, <1>2 DEF Store
<1>4. /\ new[x].binding = t /\ \A y \in Var : new[y].domain = var[y].domain
      /\ \A y \in Var : y # x => new[y].binding = var[y].binding
  BY <1>2, <1>3 DEF Info
<1> HIDE DEF new
<1>5. Acyclic(new)
  BY <1>1, <1>4, BindAcyclic
<1>6. Nested(new)
  BY <1>1, <1>4 DEF Nested, IsBound
<1>7. QED
  BY <1>3, <1>5, <1>6 DEF Good, new

LEMMA GoodDomain ==
  ASSUME NEW var, Good(var), NEW x \in Var, ~IsBound(var, x), NEW d \in Domains,
         var[x].domain # NoDomain => d \subseteq var[x].domain
  PROVE  Good([var EXCEPT ![x] = [var[x] EXCEPT !.domain = d]])
<1> DEFINE new == [var EXCEPT ![x] = [var[x] EXCEPT !.domain = d]]
<1>1. var \in Store /\ Acyclic(var) /\ Nested(var) /\ d # NoDomain
  BY TrailAssumption DEF Good
<1>2. var[x] \in Info /\ [var[x] EXCEPT !.domain = d] \in Info
  BY <1>1 DEF Store, Info
<1>3. new \in Store /\ new[x] = [var[x] EXCEPT !.domain = d] /\ \A y \in Var : y # x => new[y] = var[y]
  BY <1>1, <1>2 DEF Store
<1>4. /\ new[x].domain = d /\ \A y \in Var : new[y].binding = var[y].binding
      /\ \A y \in Var : y # x => new[y].domain = var[y].domain
  BY <1>2, <1>3 DEF Info
<1> HIDE DEF new
<1>5. Acyclic(new)
  BY <1>1, <1>4, SameBindings
<1>6. Nested(new)
  BY <1>1, <1>4 DEF Nested, IsBound
<1>7. QED
  BY <1>3, <1>5, <1>6 DEF Good, new

LEMMA GoodProps ==
  ASSUME NEW var, Good(var), NEW x \in Var, NEW p \in Seq(Thunk)
  PROVE  Good([var EXCEPT ![x] = [var[x] EXCEPT !.props = p]])
<1> DEFINE new == [var EXCEPT ![x] = [var[x] EXCEPT !.props = p]]
<1>1. var \in Store /\ Acyclic(var) /\ Nested(var)
  BY DEF Good
<1>2. var[x] \in Info /\ [var[x] EXCEPT !.props = p] \in Info
  BY <1>1 DEF Store, Info
<1>3. new \in Store /\ new[x] = [var[x] EXCEPT !.props = p] /\ \A y \in Var : y # x => new[y] = var[y]
  BY <1>1, <1>2 DEF Store
<1>4. \A y \in Var : new[y].binding = var[y].binding /\ new[y].domain = var[y].domain
  BY <1>2, <1>3 DEF Info
<1> HIDE DEF new
<1>5. Acyclic(new)
  BY <1>1, <1>4, SameBindings
<1>6. Nested(new)
  BY <1>1, <1>4 DEF Nested, IsBound
<1>7. QED
  BY <1>3, <1>5, <1>6 DEF Good, new

-----------------------------------------------------------------------------
(* Machines that can be undone, and what a write adds.                     *)

Sane(m) == /\ m \in Machine /\ m.queued \subseteq ToSet(m.queue)
           /\ \A d \in 0..Len(m.trail) : Good(Back(m, d))

\* n can be taken back to whatever m could be taken back to.
Extends(n, m) == /\ Len(m.trail) <= Len(n.trail)
                 /\ \A d \in 0..Len(m.trail) : Back(n, d) = Back(m, d)

LEMMA SaneFacts ==
  ASSUME NEW m, Sane(m)
  PROVE  /\ m \in Machine /\ m.var \in Store /\ Good(m.var) /\ m.trail \in Seq(Entry)
         /\ Len(m.trail) \in Nat /\ Back(m, Len(m.trail)) = m.var
         /\ m.queue \in Seq(Thunk) /\ m.queued \subseteq ToSet(m.queue) /\ m.queued \subseteq Thunk
         /\ m.ok \in BOOLEAN
         /\ \A d \in 0..Len(m.trail) : Back(m, d) \in Store
<1>1. m \in Machine
  BY DEF Sane
<1>2. Len(m.trail) \in 0..Len(m.trail) /\ Len(m.trail) \in Nat
  BY <1>1 DEF Machine
<1>3. Back(m, Len(m.trail)) = m.var
  BY <1>1, BackLaws
<1>4. QED
  BY <1>1, <1>2, <1>3 DEF Sane, Machine, Good

LEMMA WriteLaws ==
  ASSUME NEW m, Sane(m), NEW x \in Var, NEW kind \in {"Bind", "Domain", "Attr"}, NEW v \in Info,
         Good([m.var EXCEPT ![x] = v]),
         kind = "Bind" => m.var[x].binding = Unbound /\ v = [m.var[x] EXCEPT !.binding = v.binding],
         kind = "Domain" => v = [m.var[x] EXCEPT !.domain = v.domain],
         kind = "Attr" => v = [m.var[x] EXCEPT !.props = v.props]
  PROVE  LET n == Write(m, kind, x, v)
         IN  /\ Sane(n) /\ Extends(n, m) /\ n.var = [m.var EXCEPT ![x] = v]
             /\ n.queue = m.queue /\ n.queued = m.queued /\ n.ok = m.ok
             /\ Len(n.trail) = Len(m.trail) + 1
<1> DEFINE e == [kind |-> kind, x |-> x, prev |-> m.var[x]]
           n == Write(m, kind, x, v)
           k == Len(m.trail)
<1>1. /\ m \in Machine /\ m.var \in Store /\ m.trail \in Seq(Entry) /\ k \in Nat
      /\ Back(m, k) = m.var
  BY SaneFacts
<1>2. e \in Entry /\ m.var[x] \in Info
  BY <1>1 DEF Entry, Store
<1>3. n = [m EXCEPT !.var = [m.var EXCEPT ![x] = v], !.trail = Append(m.trail, e)]
  BY <1>1 DEF Write, Machine
<1>4. [m.var EXCEPT ![x] = v] \in Store
  BY DEF Good
<1>5. /\ Append(m.trail, e) \in Seq(Entry) /\ Len(Append(m.trail, e)) = k + 1
      /\ Append(m.trail, e)[k + 1] = e /\ \A i \in 1..k : Append(m.trail, e)[i] = m.trail[i]
  BY <1>1, <1>2
<1>6. RollbackOne(e, [m.var EXCEPT ![x] = v]) = m.var
  <2> DEFINE w == [m.var EXCEPT ![x] = v]
  <2>1. w[x] = v /\ w \in Store /\ \A y \in Var : y # x => w[y] = m.var[y]
    BY <1>1, <1>4 DEF Store
  <2>2. ASSUME NEW u \in Info, u = m.var[x] PROVE [w EXCEPT ![x] = u] = m.var
    BY <1>1, <2>1, <2>2 DEF Store
  <2> HIDE DEF w
  <2>3. CASE kind = "Bind"
    <3>1. [v EXCEPT !.binding = Unbound] = m.var[x]
      BY <1>2, <2>3 DEF Info
    <3>2. RollbackOne(e, w) = [w EXCEPT ![x] = [v EXCEPT !.binding = Unbound]]
      BY <2>1, <2>3 DEF RollbackOne
    <3>3. QED
      BY <1>2, <2>2, <3>1, <3>2 DEF w
  <2>4. CASE kind = "Domain"
    <3>1. [v EXCEPT !.domain = m.var[x].domain] = m.var[x]
      BY <1>2, <2>4 DEF Info
    <3>2. RollbackOne(e, w) = [w EXCEPT ![x] = [v EXCEPT !.domain = m.var[x].domain]]
      BY <2>1, <2>4 DEF RollbackOne
    <3>3. QED
      BY <1>2, <2>2, <3>1, <3>2 DEF w
  <2>5. CASE kind = "Attr"
    <3>1. [v EXCEPT !.props = m.var[x].props] = m.var[x]
      BY <1>2, <2>5 DEF Info
    <3>2. RollbackOne(e, w) = [w EXCEPT ![x] = [v EXCEPT !.props = m.var[x].props]]
      BY <2>1, <2>5 DEF RollbackOne
    <3>3. QED
      BY <1>2, <2>2, <3>1, <3>2 DEF w
  <2>6. QED
    BY <2>3, <2>4, <2>5
<1> HIDE DEF n, e
<1>7. /\ n \in Machine /\ n.var = [m.var EXCEPT ![x] = v] /\ n.trail = Append(m.trail, e)
      /\ n.queue = m.queue /\ n.queued = m.queued /\ n.ok = m.ok
  BY <1>1, <1>3, <1>4, <1>5 DEF Machine
<1>8. Len(n.trail) = k + 1 /\ n.trail[k + 1] = e
  BY <1>5, <1>7
<1> HIDE DEF k
<1>9. Back(n, k + 1) = n.var /\ Back(n, k) = m.var
  <2>1. k + 1 \in 1..Len(n.trail) /\ (k + 1) - 1 = k
    BY <1>1, <1>8
  <2>2. Back(n, k + 1) = n.var
    BY <1>7, <1>8, BackLaws
  <2>3. Back(n, (k + 1) - 1) = RollbackOne(n.trail[k + 1], Back(n, k + 1))
    BY <1>7, <2>1, BackLaws
  <2>4. QED
    BY <1>6, <1>7, <1>8, <2>1, <2>2, <2>3
<1>10. \A d \in 0..k : Back(n, d) = Back(m, d)
  <2>1. k \in 0..Len(n.trail) /\ k <= Len(m.trail) /\ \A d \in 1..k : n.trail[d] = m.trail[d]
    BY <1>1, <1>5, <1>7, <1>8 DEF k
  <2>2. QED
    BY <1>1, <1>7, <1>9, <2>1, BackAgrees
<1>11. \A d \in 0..Len(n.trail) : Good(Back(n, d))
  <2>1. \A d \in 0..Len(n.trail) : d \in 0..k \/ d = k + 1
    BY <1>1, <1>8
  <2>2. \A d \in 0..k : Good(Back(m, d))
    BY DEF Sane, k
  <2>3. Good(Back(n, k + 1))
    BY <1>7, <1>9
  <2>4. QED
    BY <1>10, <2>1, <2>2, <2>3
<1>12. Sane(n)
  BY <1>7, <1>11 DEF Sane
<1>13. Extends(n, m)
  BY <1>1, <1>8, <1>10 DEF Extends, k
<1>14. QED
  BY <1>7, <1>8, <1>12, <1>13 DEF n, k

-----------------------------------------------------------------------------
(* Queueing propagators.                                                   *)

LEMMA EnqueueLaws ==
  ASSUME NEW m \in Machine, NEW t \in Thunk
  PROVE  LET n == Enqueue(m, t)
         IN  /\ n \in Machine /\ n.var = m.var /\ n.trail = m.trail /\ n.ok = m.ok
             /\ ToSet(m.queue) \subseteq ToSet(n.queue)
             /\ m.queued \subseteq ToSet(m.queue) =>
                  n.queued \subseteq ToSet(n.queue) /\ t \in ToSet(n.queue)
<1> DEFINE n == [m EXCEPT !.queue = Append(m.queue, t), !.queued = m.queued \cup {t}]
<1>1. m.queue \in Seq(Thunk) /\ m.queued \in SUBSET Thunk
  BY DEF Machine
<1>2. /\ Append(m.queue, t) \in Seq(Thunk) /\ Len(Append(m.queue, t)) = Len(m.queue) + 1
      /\ Append(m.queue, t)[Len(m.queue) + 1] = t
      /\ \A i \in 1..Len(m.queue) : Append(m.queue, t)[i] = m.queue[i]
  BY <1>1
<1>3. /\ n \in Machine /\ n.var = m.var /\ n.trail = m.trail /\ n.ok = m.ok
      /\ n.queue = Append(m.queue, t) /\ n.queued = m.queued \cup {t}
  BY <1>1, <1>2 DEF Machine
<1>4. Enqueue(m, t) = IF t \in m.queued THEN m ELSE n
  BY DEF Enqueue
<1> HIDE DEF n
<1>5. ToSet(m.queue) \subseteq ToSet(Append(m.queue, t)) /\ t \in ToSet(Append(m.queue, t))
  <2>1. DOMAIN m.queue = 1..Len(m.queue) /\ DOMAIN Append(m.queue, t) = 1..(Len(m.queue) + 1)
    BY <1>1, <1>2
  <2>2. Len(m.queue) \in Nat
    BY <1>1
  <2>3. QED
    BY <1>2, <2>1, <2>2 DEF ToSet
<1>6. QED
  BY <1>3, <1>4, <1>5

LEMMA EnqueueTrace ==
  ASSUME NEW q \in Seq(Thunk), NEW base \in Machine
  PROVE  \E r : /\ r[0] = base /\ r[Len(q)] = FoldLeft(Enqueue, base, q)
                /\ \A i \in 1..Len(q) : r[i] = Enqueue(r[i - 1], q[i])
<1> DEFINE n == Len(q)
           T == DOMAIN q
           Next1(f, s) == IF s = {} THEN base ELSE Enqueue(f[s \ {Max(s)}], q[Max(s)])
           Runs(f) == f = [s \in SUBSET T |-> Next1(f, s)]
<1>1. n \in Nat /\ T = 1..n /\ \A i \in T : q[i] \in Thunk
  OBVIOUS
<1> HIDE DEF n
<1>2. \E f : Runs(f)
  <2> DEFINE pick == [s \in SUBSET T |-> Max(s)]
             op == [i \in T |-> [m \in Machine |-> Enqueue(m, q[i])]]
  <2>1. IsFiniteSet(T)
    BY <1>1, FS_Interval
  <2>2. op \in [T -> [Machine -> Machine]]
    BY <1>1, EnqueueLaws
  <2>3. \A s \in SUBSET T : pick[s] = Max(s) /\ (s # {} => pick[s] \in s)
    BY <1>1, Extremes
  <2>4. \A i \in T, m \in Machine : op[i][m] = Enqueue(m, q[i])
    OBVIOUS
  <2> HIDE DEF pick, op
  <2>5. PICK f \in [SUBSET T -> Machine] : Folds(f, T, base, pick, op)
    <3> HIDE DEF T
    <3>1. QED
      BY <2>1, <2>2, <2>3, FoldExists
  <2>6. \A s \in SUBSET T : f[s] = Next1(f, s)
    <3>1. ASSUME NEW s \in SUBSET T PROVE f[s] = Next1(f, s)
      <4>1. f[s] = IF s = {} THEN base ELSE op[pick[s]][f[s \ {pick[s]}]]
        BY <2>5 DEF Folds
      <4>2. s # {} => Max(s) \in T /\ f[s \ {Max(s)}] \in Machine
        BY <2>3, <2>5
      <4>3. QED
        BY <4>1, <4>2, <2>3, <2>4
    <3>2. QED
      BY <3>1
  <2>7. f = [s \in SUBSET T |-> f[s]]
    BY <2>5
  <2>8. Runs(f)
    <3> HIDE DEF Next1
    <3>1. QED
      BY <2>6, <2>7
  <2>9. QED
    BY <2>8
<1> DEFINE F == CHOOSE f : Runs(f)
<1>3. FoldLeft(Enqueue, base, q) = F[DOMAIN q]
  BY DEF FoldLeft, MapThenFoldSet
<1>4. Runs(F)
  <2> HIDE DEF Runs
  <2>1. QED
    BY <1>2
<1>5. \A s \in SUBSET T : F[s] = Next1(F, s)
  <2> HIDE DEF F, Next1
  <2>1. QED
    BY <1>4
<1> HIDE DEF F, T
<1> DEFINE r == [i \in 0..n |-> F[1..i]]
<1>6. r[0] = base
  <2>1. 1..0 = {} /\ 0 \in 0..n
    BY <1>1
  <2>2. F[{}] = base
    BY <1>5
  <2>3. QED
    BY <2>1, <2>2
<1>7. r[n] = F[DOMAIN q]
  <2>1. n \in 0..n /\ 1..n = T
    BY <1>1
  <2>2. QED
    BY <2>1 DEF T
<1>8. ASSUME NEW i \in 1..n PROVE r[i] = Enqueue(r[i - 1], q[i])
  <2>1. r[i] = F[1..i] /\ r[i - 1] = F[1..(i - 1)]
    BY <1>1
  <2>2. F[1..i] = Enqueue(F[1..(i - 1)], q[i])
    <3>1. (1..i) # {} /\ Max(1..i) = i /\ (1..i) \ {i} = 1..(i - 1)
      BY <1>1, MaxOfSegment
    <3>2. F[1..i] = Next1(F, 1..i)
      <4>1. 1..i \in SUBSET T
        BY <1>1
      <4> HIDE DEF Next1
      <4>2. QED
        BY <1>5, <4>1
    <3>3. QED
      BY <3>1, <3>2
  <2>3. QED
    BY <2>1, <2>2
<1>9. QED
  <2> HIDE DEF r
  <2>1. QED
    BY <1>3, <1>6, <1>7, <1>8 DEF n

\* All of them are in the queue afterwards, and nothing else changes.
LEMMA EnqueueAll ==
  ASSUME NEW m \in Machine, m.queued \subseteq ToSet(m.queue), NEW q \in Seq(Thunk)
  PROVE  LET n == FoldLeft(Enqueue, m, q)
         IN  /\ n \in Machine /\ n.var = m.var /\ n.trail = m.trail /\ n.ok = m.ok
             /\ ToSet(m.queue) \subseteq ToSet(n.queue) /\ ToSet(q) \subseteq ToSet(n.queue)
             /\ n.queued \subseteq ToSet(n.queue)
<1>1. PICK r : /\ r[0] = m /\ r[Len(q)] = FoldLeft(Enqueue, m, q)
               /\ \A i \in 1..Len(q) : r[i] = Enqueue(r[i - 1], q[i])
  BY EnqueueTrace
<1> DEFINE Done(n, k) == /\ n \in Machine /\ n.var = m.var /\ n.trail = m.trail /\ n.ok = m.ok
                         /\ ToSet(m.queue) \subseteq ToSet(n.queue)
                         /\ n.queued \subseteq ToSet(n.queue)
                         /\ \A i \in 1..k : q[i] \in ToSet(n.queue)
           P == {k \in 0..Len(q) : Done(r[k], k)}
<1>2. Len(q) \in Nat /\ \A i \in 1..Len(q) : q[i] \in Thunk
  OBVIOUS
<1>3. 0 \in P
  BY <1>1, <1>2
<1>4. ASSUME NEW k \in 0..Len(q), k \in P, k < Len(q) PROVE k + 1 \in P
  <2>1. k + 1 \in 1..Len(q) /\ k + 1 \in 0..Len(q) /\ (k + 1) - 1 = k /\ q[k + 1] \in Thunk
    BY <1>2, <1>4
  <2>2. r[k + 1] = Enqueue(r[k], q[k + 1])
    BY <1>1, <2>1
  <2>3. Done(r[k], k)
    BY <1>4
  <2> DEFINE n == r[k + 1]
             p == r[k]
             t == q[k + 1]
  <2>4. n = Enqueue(p, t) /\ t \in Thunk /\ p \in Machine /\ p.queued \subseteq ToSet(p.queue)
    BY <2>1, <2>2, <2>3
  <2> HIDE DEF n, p, t
  <2>5. /\ n \in Machine /\ n.var = p.var /\ n.trail = p.trail /\ n.ok = p.ok
        /\ ToSet(p.queue) \subseteq ToSet(n.queue)
        /\ n.queued \subseteq ToSet(n.queue) /\ t \in ToSet(n.queue)
    BY <2>4, EnqueueLaws
  <2>6. /\ n \in Machine /\ n.var = r[k].var /\ n.trail = r[k].trail /\ n.ok = r[k].ok
        /\ ToSet(r[k].queue) \subseteq ToSet(n.queue)
        /\ n.queued \subseteq ToSet(n.queue) /\ q[k + 1] \in ToSet(n.queue)
    BY <2>5 DEF p, t
  <2>7. \A i \in 1..(k + 1) : q[i] \in ToSet(n.queue)
    <3>1. \A i \in 1..(k + 1) : i \in 1..k \/ i = k + 1
      OBVIOUS
    <3>2. QED
      BY <2>3, <2>6, <3>1
  <2>8. Done(n, k + 1)
    BY <2>3, <2>6, <2>7
  <2>9. QED
    BY <2>1, <2>8 DEF n
<1>5. \A k \in 0..Len(q) : k \in P
  <2> HIDE DEF P
  <2>1. QED
    BY <1>2, <1>3, <1>4, Climb
<1>6. Done(r[Len(q)], Len(q))
  <2>1. Len(q) \in P
    BY <1>2, <1>5
  <2>2. QED
    BY <2>1
<1>7. \A n : (\A i \in 1..Len(q) : q[i] \in ToSet(n.queue)) => ToSet(q) \subseteq ToSet(n.queue)
  BY DEF ToSet
<1>8. QED
  BY <1>1, <1>6, <1>7

-----------------------------------------------------------------------------
(* A unification: what it may have changed.                                *)

\* m is unified to n: n can be taken back to whatever m could be; no
\* propagator is detached or taken from the queue; those of a variable that
\* was bound are in the queue.
Unifies(m, n) ==
  /\ Sane(n) /\ Extends(n, m)
  /\ ToSet(m.queue) \subseteq ToSet(n.queue)
  /\ \A x \in Var : n.var[x].props = m.var[x].props
  /\ \A x \in Var : m.var[x].binding = Unbound /\ n.var[x].binding # Unbound =>
                      ToSet(m.var[x].props) \subseteq ToSet(n.queue)

LEMMA UnifiesTransitive ==
  ASSUME NEW m, NEW n, NEW k, Sane(m), Unifies(m, n), Unifies(n, k)
  PROVE  Unifies(m, k)
<1>1. Len(m.trail) \in Nat /\ Len(n.trail) \in Nat /\ Len(k.trail) \in Nat
  BY SaneFacts DEF Unifies
<1>2. Extends(k, m)
  <2>1. \A d \in 0..Len(m.trail) : d \in 0..Len(n.trail)
    BY <1>1 DEF Unifies, Extends
  <2>2. QED
    BY <1>1, <2>1 DEF Unifies, Extends
<1>3. QED
  BY <1>2 DEF Unifies

LEMMA SameTrail ==
  ASSUME NEW m, Sane(m), NEW n \in Machine, n.var = m.var, n.trail = m.trail,
         n.queued \subseteq ToSet(n.queue)
  PROVE  Sane(n) /\ Extends(n, m)
<1>1. \A d : Back(n, d) = Back(m, d)
  BY DEF Back
<1>2. Len(m.trail) \in Nat
  BY SaneFacts
<1>3. QED
  BY <1>1, <1>2 DEF Sane, Extends

LEMMA FailLaws ==
  ASSUME NEW m, Sane(m)
  PROVE  Unifies(m, Fail(m)) /\ ~Fail(m).ok /\ Fail(m).trail = m.trail /\ Fail(m).queue = m.queue
<1>1. /\ Fail(m) \in Machine /\ Fail(m).var = m.var /\ Fail(m).trail = m.trail
      /\ Fail(m).queue = m.queue /\ Fail(m).queued = m.queued /\ Fail(m).ok = FALSE
  BY SaneFacts DEF Fail, Machine
<1>2. QED
  BY <1>1, SaneFacts, SameTrail DEF Unifies

LEMMA SaneRollback ==
  ASSUME NEW m, Sane(m), NEW d \in 0..Len(m.trail)
  PROVE  LET n == RollbackTo(m, d)
         IN  /\ Sane(n) /\ n.var = Back(m, d) /\ Len(n.trail) = d
             /\ n.queue = m.queue /\ n.queued = m.queued
             /\ \A c \in 0..d : Back(n, c) = Back(m, c)
<1>1. m \in Machine /\ Back(m, d) \in Store /\ Len(m.trail) \in Nat /\ m.queued \subseteq ToSet(m.queue)
  BY SaneFacts
<1> DEFINE n == RollbackTo(m, d)
<1>2. /\ n \in Machine /\ n.var = Back(m, d) /\ Len(n.trail) = d
      /\ n.queue = m.queue /\ n.queued = m.queued
      /\ \A c \in 0..d : Back(n, c) = Back(m, c)
  BY <1>1, RollbackToLaws
<1> HIDE DEF n
<1>3. \A c \in 0..d : c \in 0..Len(m.trail)
  BY <1>1
<1>4. Sane(n)
  BY <1>1, <1>2, <1>3 DEF Sane
<1>5. QED
  BY <1>2, <1>4 DEF n

\* bind_var_to_term binds, and gives the variable at the end the narrower
\* domain, or undoes what it did.
LEMMA BindToLaws ==
  ASSUME NEW m, Sane(m), NEW x \in Var, ~IsBound(m.var, x),
         NEW t \in Term, ~IsBound(m.var, t), t # x, NEW hook \in Hooks
  PROVE  Unifies(m, BindTo(m, x, t, hook))
<1> DEFINE d == Intersection(m, x, t)
           m1 == IF d = NoDomain THEN m ELSE SetDomain(m, t, d)
           m2 == Bind(m1, x, t)
           queued == FoldLeft(Enqueue, m2, m2.var[x].props)
           fired == FireHooks(m2, x, hook)
<1>1. /\ m \in Machine /\ m.var \in Store /\ Good(m.var) /\ Len(m.trail) \in Nat
      /\ Back(m, Len(m.trail)) = m.var /\ m.queued \subseteq ToSet(m.queue)
  BY SaneFacts
<1>2. m.var[x].binding = Unbound /\ m.var[x] \in Info /\ (t \in Var => m.var[t].binding = Unbound /\ m.var[t] \in Info)
  BY <1>1 DEF IsBound, Store
<1>3. BindTo(m, x, t, hook) =
        IF ~Admits(m, x, t) THEN Fail(m)
        ELSE IF fired.ok THEN fired ELSE RollbackTo(fired, Len(m.trail))
  BY DEF BindTo
<1>4. SUFFICES ASSUME Admits(m, x, t)
               PROVE  Unifies(m, IF fired.ok THEN fired ELSE RollbackTo(fired, Len(m.trail)))
  BY <1>3, FailLaws
\* The domain.
<1>5. /\ d # NoDomain => /\ t \in Var /\ d \in Domains /\ m.var[x].domain # NoDomain
                         /\ d \subseteq m.var[x].domain
                         /\ m.var[t].domain # NoDomain => d \subseteq m.var[t].domain
      /\ t \in Var /\ d = NoDomain => m.var[x].domain = NoDomain
      /\ t \in Ground /\ m.var[x].domain # NoDomain => t \in m.var[x].domain
  <2>1. d # {} /\ (t \in Ground /\ m.var[x].domain # NoDomain => t \in m.var[x].domain)
    BY <1>4 DEF Admits
  <2>2. t \in Var \/ t \in Ground
    BY DEF Term
  <2>3. t \in Var => t \notin Ground
    BY TrailAssumption
  <2>4. m.var[x].domain \in Domains \cup {NoDomain} /\ (t \in Var => m.var[t].domain \in Domains \cup {NoDomain})
    BY <1>2 DEF Info
  <2>5. d = IF t \in Ground THEN NoDomain
            ELSE IF m.var[x].domain = NoDomain \/ m.var[t].domain = NoDomain THEN m.var[x].domain
            ELSE m.var[x].domain \cap m.var[t].domain
    BY DEF Intersection
  <2> HIDE DEF d
  <2>6. \A e \in Domains : e # NoDomain
    BY TrailAssumption
  <2>7. ASSUME t \in Var, m.var[x].domain # NoDomain, m.var[t].domain # NoDomain
        PROVE  d \in Domains /\ d \subseteq m.var[x].domain /\ d \subseteq m.var[t].domain
    <3>1. d = m.var[x].domain \cap m.var[t].domain
      BY <2>3, <2>5, <2>7
    <3>2. m.var[x].domain \in SUBSET Ground
      BY <2>4, <2>7 DEF Domains
    <3>3. QED
      BY <2>1, <3>1, <3>2 DEF Domains
  <2>8. QED
    BY <2>1, <2>2, <2>3, <2>4, <2>5, <2>6, <2>7
<1> HIDE DEF d
<1>6. /\ Sane(m1) /\ Extends(m1, m) /\ m1.queue = m.queue /\ m1.queued = m.queued
      /\ m1.var \in Store /\ \A y \in Var : /\ m1.var[y].binding = m.var[y].binding
                                            /\ m1.var[y].props = m.var[y].props
      /\ m1.var[x].domain # NoDomain =>
           /\ t \in Var => m1.var[t].domain # NoDomain /\ m1.var[t].domain \subseteq m1.var[x].domain
           /\ t \in Ground => t \in m1.var[x].domain
  <2>1. CASE d = NoDomain
    <3>1. m1 = m
      BY <2>1
    <3>2. Extends(m, m)
      BY <1>1 DEF Extends
    <3>3. QED
      BY <1>1, <1>5, <2>1, <3>1, <3>2, TrailAssumption
  <2>2. CASE d # NoDomain
    <3> DEFINE v == [m.var[t] EXCEPT !.domain = d]
    <3>1. t \in Var /\ d \in Domains /\ m1 = Write(m, "Domain", t, v) /\ m.var[t] \in Info
      BY <1>2, <1>5, <2>2 DEF SetDomain
    <3>2. v \in Info /\ v.domain = d /\ v.binding = m.var[t].binding /\ v.props = m.var[t].props
          /\ v = [m.var[t] EXCEPT !.domain = v.domain]
      BY <3>1 DEF Info
    <3>3. Good([m.var EXCEPT ![t] = v])
      BY <1>1, <1>5, <2>2, <3>1, GoodDomain
    <3> HIDE DEF v
    <3>4. /\ Sane(m1) /\ Extends(m1, m) /\ m1.var = [m.var EXCEPT ![t] = v]
          /\ m1.queue = m.queue /\ m1.queued = m.queued
      BY <3>1, <3>2, <3>3, WriteLaws
    <3>5. m1.var \in Store /\ m1.var[t] = v /\ \A y \in Var : y # t => m1.var[y] = m.var[y]
      BY <1>1, <3>1, <3>3, <3>4 DEF Good, Store
    <3>6. QED
      BY <1>5, <2>2, <3>1, <3>2, <3>4, <3>5, TrailAssumption
  <2>3. QED
    BY <2>1, <2>2
\* The binding.
<1> HIDE DEF m1
<1>7. /\ Sane(m2) /\ Extends(m2, m1) /\ m2.queue = m.queue
      /\ \A y \in Var : m2.var[y].props = m.var[y].props
      /\ \A y \in Var : y # x => m2.var[y].binding = m.var[y].binding
  <2> DEFINE v == [m1.var[x] EXCEPT !.binding = t]
  <2>1. m1.var[x] \in Info /\ m1.var[x].binding = Unbound /\ ~IsBound(m1.var, x) /\ ~IsBound(m1.var, t)
        /\ Good(m1.var)
    BY <1>2, <1>6, SaneFacts DEF IsBound, Store
  <2>2. v \in Info /\ v.binding = t /\ v.domain = m1.var[x].domain /\ v.props = m1.var[x].props
        /\ v = [m1.var[x] EXCEPT !.binding = v.binding]
    BY <2>1 DEF Info
  <2>3. Good([m1.var EXCEPT ![x] = v])
    BY <1>6, <2>1, GoodBind
  <2>4. m2 = Write(m1, "Bind", x, v)
    BY DEF Bind
  <2> HIDE DEF v
  <2>5. /\ Sane(m2) /\ Extends(m2, m1) /\ m2.var = [m1.var EXCEPT ![x] = v]
        /\ m2.queue = m1.queue
    BY <1>6, <2>1, <2>2, <2>3, <2>4, WriteLaws
  <2>6. m2.var[x] = v /\ \A y \in Var : y # x => m2.var[y] = m1.var[y]
    BY <1>6, <2>3, <2>5 DEF Good, Store
  <2>7. QED
    BY <1>6, <2>2, <2>5, <2>6
<1> HIDE DEF m2
\* The propagators and the hook.
<1>8. m2.var[x].props \in Seq(Thunk) /\ m2 \in Machine /\ m2.queued \subseteq ToSet(m2.queue)
  BY <1>7, SaneFacts DEF Store, Info
<1>9. /\ queued \in Machine /\ queued.var = m2.var /\ queued.trail = m2.trail /\ queued.ok = m2.ok
      /\ ToSet(m2.queue) \subseteq ToSet(queued.queue)
      /\ ToSet(m2.var[x].props) \subseteq ToSet(queued.queue)
      /\ queued.queued \subseteq ToSet(queued.queue)
  BY <1>8, EnqueueAll
<1>10. fired \in {queued, Fail(queued), Fail(m2)}
  <2>1. hook \in {"accepts", "fails first", "fails last"}
    BY DEF Hooks
  <2>2. QED
    BY <2>1 DEF FireHooks
<1> HIDE DEF queued, fired
<1>11. Sane(queued) /\ Extends(queued, m2)
  BY <1>7, <1>9, SameTrail
<1>12. Len(m.trail) \in Nat /\ Len(m1.trail) \in Nat /\ Len(m2.trail) \in Nat /\ Len(queued.trail) \in Nat
  BY <1>1, <1>6, <1>7, <1>11, SaneFacts
<1>13. Extends(m2, m) /\ Extends(queued, m)
  <2>1. \A c \in 0..Len(m.trail) : c \in 0..Len(m1.trail) /\ c \in 0..Len(m2.trail)
    BY <1>6, <1>7, <1>12 DEF Extends
  <2>2. QED
    BY <1>6, <1>7, <1>11, <1>12, <2>1 DEF Extends
<1>14. CASE fired.ok
  <2>1. fired = queued
    BY <1>7, <1>10, <1>11, <1>14, FailLaws
  <2>2. \A y \in Var : m.var[y].binding = Unbound /\ queued.var[y].binding # Unbound => y = x
    BY <1>7, <1>9
  <2>3. QED
    BY <1>7, <1>9, <1>11, <1>13, <1>14, <2>1, <2>2 DEF Unifies
<1>15. CASE ~fired.ok
  <2>1. Sane(fired) /\ Extends(fired, m) /\ ToSet(m.queue) \subseteq ToSet(fired.queue)
    <3>1. Unifies(queued, Fail(queued)) /\ Unifies(m2, Fail(m2)) /\ Fail(queued).queue = queued.queue
          /\ Fail(m2).queue = m2.queue /\ Fail(queued).trail = queued.trail /\ Fail(m2).trail = m2.trail
      BY <1>7, <1>11, FailLaws
    <3>2. Extends(Fail(queued), m) /\ Extends(Fail(m2), m)
      <4>1. \A c \in 0..Len(m.trail) : c \in 0..Len(queued.trail) /\ c \in 0..Len(m2.trail)
        BY <1>12, <1>13 DEF Extends
      <4>2. QED
        BY <1>12, <1>13, <3>1, <4>1 DEF Unifies, Extends
    <3>3. QED
      BY <1>7, <1>9, <1>10, <1>11, <1>13, <3>1, <3>2 DEF Unifies
  <2> DEFINE n == RollbackTo(fired, Len(m.trail))
  <2>2. Len(m.trail) \in 0..Len(fired.trail) /\ Len(m.trail) \in 0..Len(m.trail)
    <3>1. Len(fired.trail) \in Nat
      BY <2>1, SaneFacts
    <3>2. QED
      BY <1>1, <2>1, <3>1 DEF Extends
  <2>3. /\ Sane(n) /\ n.var = Back(fired, Len(m.trail)) /\ Len(n.trail) = Len(m.trail)
        /\ n.queue = fired.queue /\ \A c \in 0..Len(m.trail) : Back(n, c) = Back(fired, c)
    BY <2>1, <2>2, SaneRollback
  <2>4. n.var = m.var /\ Extends(n, m)
    BY <1>1, <2>1, <2>2, <2>3 DEF Extends
  <2> HIDE DEF n
  <2>5. Unifies(m, n)
    BY <2>1, <2>3, <2>4 DEF Unifies
  <2>6. QED
    BY <1>15, <2>5 DEF n
<1>16. QED
  BY <1>14, <1>15

LEMMA UnifiesSelf == ASSUME NEW m, Sane(m) PROVE Unifies(m, m)
<1>1. Len(m.trail) \in Nat
  BY SaneFacts
<1>2. QED
  BY <1>1 DEF Unifies, Extends

LEMMA UnifyOneLaws ==
  ASSUME NEW m, Sane(m), NEW equation \in Term \X Term, NEW hook \in Hooks
  PROVE  Unifies(m, UnifyOne(m, equation, hook))
<1> DEFINE a == Deref(m.var, equation[1])
           b == Deref(m.var, equation[2])
<1>1. m.var \in Store /\ Acyclic(m.var) /\ equation[1] \in Term /\ equation[2] \in Term
  BY SaneFacts DEF Good
<1>2. a \in Term /\ ~IsBound(m.var, a) /\ b \in Term /\ ~IsBound(m.var, b)
  BY <1>1, DerefLaws
<1>3. UnifyOne(m, equation, hook) = IF ~m.ok \/ a = b THEN m
                                    ELSE IF a \in Var THEN BindTo(m, a, b, hook)
                                    ELSE IF b \in Var THEN BindTo(m, b, a, hook)
                                    ELSE Fail(m)
  BY DEF UnifyOne
<1> HIDE DEF a, b
<1>4. QED
  BY <1>2, <1>3, UnifiesSelf, FailLaws, BindToLaws

\* A compound is unified from its first element to its last.
UnifyAll(base, q, hook) ==
  FoldLeft(LAMBDA r, equation : UnifyOne(r, equation, hook), base, q)

SaneMachine == {m \in Machine : Sane(m)}

LEMMA UnifyTrace ==
  ASSUME NEW q \in Seq(Term \X Term), NEW base \in SaneMachine, NEW hook \in Hooks
  PROVE  \E r : /\ r[0] = base
                /\ r[Len(q)] = UnifyAll(base, q, hook)
                /\ \A i \in 1..Len(q) : r[i] = UnifyOne(r[i - 1], q[i], hook)
<1> DEFINE n == Len(q)
           T == DOMAIN q
           Next1(f, s) == IF s = {} THEN base ELSE UnifyOne(f[s \ {Max(s)}], q[Max(s)], hook)
           Runs(f) == f = [s \in SUBSET T |-> Next1(f, s)]
<1>1. n \in Nat /\ T = 1..n /\ \A i \in T : q[i] \in Term \X Term
  OBVIOUS
<1> HIDE DEF n
<1>2. \E f : Runs(f)
  <2> DEFINE pick == [s \in SUBSET T |-> Max(s)]
             op == [i \in T |-> [m \in SaneMachine |-> UnifyOne(m, q[i], hook)]]
  <2>1. IsFiniteSet(T)
    BY <1>1, FS_Interval
  <2>2. op \in [T -> [SaneMachine -> SaneMachine]]
    <3>1. \A m \in SaneMachine, i \in T : UnifyOne(m, q[i], hook) \in SaneMachine
      BY <1>1, UnifyOneLaws, SaneFacts DEF SaneMachine, Unifies
    <3>2. QED
      BY <3>1
  <2>3. \A s \in SUBSET T : pick[s] = Max(s) /\ (s # {} => pick[s] \in s)
    BY <1>1, Extremes
  <2>4. \A i \in T, m \in SaneMachine : op[i][m] = UnifyOne(m, q[i], hook)
    OBVIOUS
  <2> HIDE DEF pick, op
  <2>5. PICK f \in [SUBSET T -> SaneMachine] : Folds(f, T, base, pick, op)
    <3> HIDE DEF T
    <3>1. QED
      BY <2>1, <2>2, <2>3, FoldExists
  <2>6. \A s \in SUBSET T : f[s] = Next1(f, s)
    <3>1. ASSUME NEW s \in SUBSET T PROVE f[s] = Next1(f, s)
      <4>1. f[s] = IF s = {} THEN base ELSE op[pick[s]][f[s \ {pick[s]}]]
        BY <2>5 DEF Folds
      <4>2. s # {} => Max(s) \in T /\ f[s \ {Max(s)}] \in SaneMachine
        BY <2>3, <2>5
      <4>3. QED
        BY <4>1, <4>2, <2>3, <2>4
    <3>2. QED
      BY <3>1
  <2>7. f = [s \in SUBSET T |-> f[s]]
    BY <2>5
  <2>8. Runs(f)
    <3> HIDE DEF Next1
    <3>1. QED
      BY <2>6, <2>7
  <2>9. QED
    BY <2>8
<1> DEFINE F == CHOOSE f : Runs(f)
<1>3. UnifyAll(base, q, hook) = F[DOMAIN q]
  BY DEF UnifyAll, FoldLeft, MapThenFoldSet
<1>4. Runs(F)
  <2> HIDE DEF Runs
  <2>1. QED
    BY <1>2
<1>5. \A s \in SUBSET T : F[s] = Next1(F, s)
  <2> HIDE DEF F, Next1
  <2>1. QED
    BY <1>4
<1> HIDE DEF F, T
<1> DEFINE r == [i \in 0..n |-> F[1..i]]
<1>6. r[0] = base
  <2>1. 1..0 = {} /\ 0 \in 0..n
    BY <1>1
  <2>2. F[{}] = base
    BY <1>5
  <2>3. QED
    BY <2>1, <2>2
<1>7. r[n] = F[DOMAIN q]
  <2>1. n \in 0..n /\ 1..n = T
    BY <1>1
  <2>2. QED
    BY <2>1 DEF T
<1>8. ASSUME NEW i \in 1..n PROVE r[i] = UnifyOne(r[i - 1], q[i], hook)
  <2>1. r[i] = F[1..i] /\ r[i - 1] = F[1..(i - 1)]
    BY <1>1
  <2>2. F[1..i] = UnifyOne(F[1..(i - 1)], q[i], hook)
    <3>1. (1..i) # {} /\ Max(1..i) = i /\ (1..i) \ {i} = 1..(i - 1)
      BY <1>1, MaxOfSegment
    <3>2. F[1..i] = Next1(F, 1..i)
      <4>1. 1..i \in SUBSET T
        BY <1>1
      <4> HIDE DEF Next1
      <4>2. QED
        BY <1>5, <4>1
    <3>3. QED
      BY <3>1, <3>2
  <2>3. QED
    BY <2>1, <2>2
<1>9. QED
  <2> HIDE DEF r
  <2>1. QED
    BY <1>3, <1>6, <1>7, <1>8 DEF n

LEMMA UnifyInternalLaws ==
  ASSUME NEW m, Sane(m), NEW goal \in Seq(Term \X Term), NEW hook \in Hooks
  PROVE  Unifies(m, UnifyInternal(m, goal, hook))
<1> DEFINE base == [m EXCEPT !.ok = TRUE]
<1>1. /\ base \in Machine /\ base.var = m.var /\ base.trail = m.trail /\ base.queue = m.queue
      /\ base.queued = m.queued
  BY SaneFacts DEF Machine
<1>2. UnifyInternal(m, goal, hook) = UnifyAll(base, goal, hook)
  BY DEF UnifyInternal, UnifyAll
<1> HIDE DEF base
<1>3. Sane(base) /\ Unifies(m, base)
  BY <1>1, SameTrail, SaneFacts DEF Unifies
<1>4. PICK r : /\ r[0] = base
               /\ r[Len(goal)] = UnifyAll(base, goal, hook)
               /\ \A i \in 1..Len(goal) : r[i] = UnifyOne(r[i - 1], goal[i], hook)
  BY <1>1, <1>3, UnifyTrace DEF SaneMachine
<1> DEFINE P == {k \in 0..Len(goal) : Unifies(m, r[k])}
<1>5. Len(goal) \in Nat /\ \A i \in 1..Len(goal) : goal[i] \in Term \X Term
  OBVIOUS
<1>6. 0 \in P
  <2>1. 0 \in 0..Len(goal) /\ Unifies(m, r[0])
    BY <1>3, <1>4, <1>5
  <2>2. QED
    BY <2>1
<1>7. ASSUME NEW k \in 0..Len(goal), k \in P, k < Len(goal) PROVE k + 1 \in P
  <2>1. k + 1 \in 1..Len(goal) /\ k + 1 \in 0..Len(goal) /\ (k + 1) - 1 = k
    BY <1>5, <1>7
  <2>2. r[k + 1] = UnifyOne(r[k], goal[k + 1], hook)
    BY <1>4, <2>1
  <2>3. Unifies(m, r[k]) /\ Sane(r[k])
    BY <1>7 DEF Unifies
  <2>4. Unifies(r[k], r[k + 1])
    BY <1>5, <2>1, <2>2, <2>3, UnifyOneLaws
  <2>5. Unifies(m, r[k + 1])
    BY <2>3, <2>4, UnifiesTransitive
  <2>6. QED
    BY <2>1, <2>5
<1>8. \A k \in 0..Len(goal) : k \in P
  <2> HIDE DEF P
  <2>1. QED
    BY <1>5, <1>6, <1>7, Climb
<1>9. Unifies(m, r[Len(goal)])
  <2>1. Len(goal) \in P
    BY <1>5, <1>8
  <2>2. QED
    BY <2>1
<1>10. QED
  BY <1>2, <1>4, <1>9

-----------------------------------------------------------------------------
(* The invariant.                                                          *)

Marks == [depth : Nat, var : Store]

\* m can be taken back to a mark, and then has the variables of the mark.
Restores(m, mark) == mark.depth <= Len(m.trail) /\ Back(m, mark.depth) = mark.var

\* The marks in the order in which they were made, then the start of the
\* unification under way, lie on the trail.
MarksKept ==
  /\ marks \in Seq(Marks)
  /\ \A i \in DOMAIN marks : Restores(logic, marks[i])
  /\ \A i, j \in DOMAIN marks : i <= j => marks[i].depth <= marks[j].depth
OriginKept ==
  /\ origin \in Marks
  /\ within # "program" =>
       Restores(logic, origin) /\ \A i \in DOMAIN marks : marks[i].depth <= origin.depth
DueKept == WakeupsKept /\ (within = "program" => due = {})

TrailInv == Sane(logic) /\ MarksKept /\ OriginKept /\ DueKept

LEMMA ExtendsRestores ==
  ASSUME NEW m, Sane(m), NEW n, Sane(n), Extends(n, m), NEW mark \in Marks, Restores(m, mark)
  PROVE  Restores(n, mark)
<1>1. Len(m.trail) \in Nat /\ Len(n.trail) \in Nat /\ mark.depth \in Nat
  BY SaneFacts DEF Marks
<1>2. QED
  BY <1>1 DEF Extends, Restores

\* A step in which the trail only grows keeps the marks, and the origin if it
\* stays where it is.
LEMMA GrowKeepsMarks ==
  ASSUME TrailInv, Sane(logic'), Extends(logic', logic), marks' = marks
  PROVE  /\ MarksKept'
         /\ (origin' = origin /\ (within' # "program" => within # "program")) => OriginKept'
<1>1. Sane(logic) /\ marks \in Seq(Marks) /\ origin \in Marks
  BY DEF TrailInv, MarksKept, OriginKept
<1>2. \A i \in DOMAIN marks : marks[i] \in Marks
  BY <1>1
<1>3. \A i \in DOMAIN marks : Restores(logic', marks[i])
  BY <1>1, <1>2, ExtendsRestores DEF TrailInv, MarksKept
<1>4. MarksKept'
  BY <1>1, <1>3 DEF TrailInv, MarksKept, Restores
<1>5. ASSUME origin' = origin, within' # "program" => within # "program" PROVE OriginKept'
  <2>1. within # "program" => Restores(logic', origin)
    BY <1>1, ExtendsRestores DEF TrailInv, OriginKept
  <2>2. QED
    BY <1>1, <1>5, <2>1 DEF TrailInv, OriginKept, Restores
<1>6. QED
  BY <1>4, <1>5

LEMMA GiveUpLaws ==
  ASSUME NEW m, Sane(m), NEW d \in 0..Len(m.trail)
  PROVE  LET n == GiveUp(m, d)
         IN  /\ Sane(n) /\ n.var = Back(m, d) /\ Len(n.trail) = d /\ n.queue = <<>>
             /\ \A c \in 0..d : Back(n, c) = Back(m, c)
<1> DEFINE k == RollbackTo(m, d)
           n == [k EXCEPT !.queue = <<>>, !.queued = {}, !.ok = FALSE]
<1>1. /\ Sane(k) /\ k.var = Back(m, d) /\ Len(k.trail) = d
      /\ \A c \in 0..d : Back(k, c) = Back(m, c)
  BY SaneRollback
<1> HIDE DEF k
<1>2. k \in Machine /\ d \in Nat
  BY <1>1, SaneFacts
<1>3. /\ n \in Machine /\ n.var = k.var /\ n.trail = k.trail /\ n.queue = <<>> /\ n.queued = {}
  <2>1. <<>> \in Seq(Thunk) /\ {} \in SUBSET Thunk /\ FALSE \in BOOLEAN
    OBVIOUS
  <2>2. QED
    BY <1>2, <2>1 DEF Machine
<1> HIDE DEF n
<1>4. Sane(n) /\ Extends(n, k)
  BY <1>1, <1>3, SameTrail
<1>5. GiveUp(m, d) = n
  BY DEF GiveUp, k, n
<1>6. QED
  BY <1>1, <1>3, <1>4, <1>5 DEF Extends

LEMMA GoalTypes == \A goal \in Goals : goal \in Seq(Term \X Term)
<1>1. ASSUME NEW goal \in Goals PROVE goal \in Seq(Term \X Term)
  <2>1. PICK n \in 1..MaxEquations : goal \in [1..n -> Equations]
    BY <1>1 DEF Goals
  <2>2. n \in Nat /\ Equations \subseteq Term \X Term
    BY TrailAssumption
  <2>3. goal \in [1..n -> Term \X Term]
    BY <2>1, <2>2
  <2>4. QED
    BY <2>2, <2>3
<1>2. QED
  BY <1>1

\* What was bound by a unification has its propagators in the queue.
LEMMA WokenQueued ==
  ASSUME NEW m, NEW n, Unifies(m, n)
  PROVE  PropsOf(m, BoundBy(m, n)) \subseteq ToSet(n.queue)
BY DEF Unifies, PropsOf, BoundBy

LEMMA UnifyKeeps ==
  ASSUME TrailInv, NEW goal \in Goals, NEW hook \in Hooks, Unify(goal, hook)
  PROVE  TrailInv'
<1> DEFINE m == UnifyInternal(logic, goal, hook)
<1>1. Sane(logic) /\ within = "program" /\ due = {}
  BY DEF TrailInv, DueKept, Unify
<1>2. /\ origin' = [depth |-> Len(logic.trail), var |-> logic.var] /\ marks' = marks
      /\ m.ok => /\ logic' = m /\ within' = "drain"
                 /\ due' = PropsOf(logic, BoundBy(logic, m))
      /\ ~m.ok => logic' = GiveUp(m, origin'.depth) /\ within' = within /\ due' = due
  BY DEF Unify
<1>3. Unifies(logic, m)
  BY <1>1, GoalTypes, UnifyInternalLaws
<1> HIDE DEF m
<1>4. /\ Len(logic.trail) \in Nat /\ logic.var \in Store /\ Back(logic, Len(logic.trail)) = logic.var
      /\ Len(m.trail) \in Nat /\ Len(logic.trail) <= Len(m.trail)
  BY <1>1, <1>3, SaneFacts DEF Unifies, Extends
<1>5. origin' \in Marks /\ origin'.depth = Len(logic.trail) /\ origin'.var = logic.var
  BY <1>2, <1>4 DEF Marks
<1>6. \A i \in DOMAIN marks : marks[i].depth <= Len(logic.trail)
  BY DEF TrailInv, MarksKept, Restores
<1>7. CASE m.ok
  <2>1. Sane(logic') /\ Extends(logic', logic)
    BY <1>2, <1>3, <1>7 DEF Unifies
  <2>2. Restores(logic', origin')
    BY <1>4, <1>5, <2>1 DEF Restores, Extends
  <2>3. MarksKept'
    BY <1>2, <2>1, GrowKeepsMarks
  <2>4. OriginKept'
    BY <1>2, <1>5, <1>6, <2>2 DEF OriginKept
  <2>5. DueKept'
    BY <1>2, <1>3, <1>7, WokenQueued DEF DueKept, WakeupsKept
  <2>6. QED
    BY <2>1, <2>3, <2>4, <2>5 DEF TrailInv
<1>8. CASE ~m.ok
  <2>1. logic' = GiveUp(m, Len(logic.trail)) /\ Len(logic.trail) \in 0..Len(m.trail)
    BY <1>2, <1>4, <1>5, <1>8
  <2>2. /\ Sane(logic') /\ Len(logic'.trail) = Len(logic.trail)
        /\ \A c \in 0..Len(logic.trail) : Back(logic', c) = Back(m, c)
    BY <1>3, <2>1, GiveUpLaws DEF Unifies
  <2>3. Extends(logic', logic)
    BY <1>3, <1>4, <2>2 DEF Unifies, Extends
  <2>4. MarksKept'
    BY <1>2, <2>2, <2>3, GrowKeepsMarks
  <2>5. OriginKept' /\ DueKept'
    BY <1>1, <1>2, <1>5, <1>8 DEF OriginKept, DueKept, WakeupsKept
  <2>6. QED
    BY <2>2, <2>4, <2>5 DEF TrailInv
<1>9. QED
  BY <1>7, <1>8

LEMMA ThunkUnifyKeeps ==
  ASSUME TrailInv, NEW goal \in Goals, NEW hook \in Hooks, ThunkUnify(goal, hook)
  PROVE  TrailInv'
<1>1. /\ logic' = UnifyInternal(logic, goal, hook) /\ within = "thunk" /\ within' = within
      /\ due' = due \cup PropsOf(logic, BoundBy(logic, logic'))
      /\ origin' = origin /\ marks' = marks
  BY DEF ThunkUnify
<1>2. Unifies(logic, logic')
  BY <1>1, GoalTypes, UnifyInternalLaws DEF TrailInv
<1>3. MarksKept' /\ OriginKept'
  BY <1>1, <1>2, GrowKeepsMarks DEF Unifies
<1>4. DueKept'
  BY <1>1, <1>2, WokenQueued DEF TrailInv, DueKept, WakeupsKept, Unifies
<1>5. QED
  BY <1>2, <1>3, <1>4 DEF TrailInv, Unifies

LEMMA DrainKeeps == ASSUME TrailInv, Drain PROVE TrailInv'
<1> DEFINE t == Head(logic.queue)
<1>1. /\ within = "drain" /\ logic.queue # <<>> /\ within' = "thunk"
      /\ logic' = [logic EXCEPT !.queue = Tail(logic.queue), !.queued = logic.queued \ {t}]
      /\ due' = due \ {t} /\ origin' = origin /\ marks' = marks
  BY SaneFacts DEF Drain, TrailInv, Machine
<1>2. /\ Sane(logic) /\ logic \in Machine /\ logic.queue \in Seq(Thunk)
      /\ logic.queued \subseteq ToSet(logic.queue)
  BY SaneFacts DEF TrailInv
<1>3. /\ Tail(logic.queue) \in Seq(Thunk)
      /\ ToSet(logic.queue) \ {t} \subseteq ToSet(Tail(logic.queue))
  <2> DEFINE q == logic.queue
             n == Len(q)
  <2>1. /\ q \in Seq(Thunk) /\ n \in Nat /\ n >= 1 /\ t = q[1] /\ DOMAIN q = 1..n
        /\ Tail(q) \in Seq(Thunk) /\ DOMAIN Tail(q) = 1..(n - 1)
        /\ \A i \in 1..(n - 1) : Tail(q)[i] = q[i + 1]
    BY <1>1, <1>2
  <2> HIDE DEF q, n, t
  <2>2. ASSUME NEW u \in ToSet(q), u # t PROVE u \in ToSet(Tail(q))
    <3>1. PICK i \in 1..n : u = q[i]
      BY <2>1, <2>2 DEF ToSet
    <3>2. i # 1
      BY <2>1, <2>2, <3>1
    <3>3. i - 1 \in 1..(n - 1) /\ (i - 1) + 1 = i
      BY <2>1, <3>1, <3>2
    <3>4. Tail(q)[i - 1] = u
      BY <2>1, <3>1, <3>3
    <3>5. QED
      BY <2>1, <3>3, <3>4 DEF ToSet
  <2>3. QED
    BY <2>1, <2>2 DEF q
<1> HIDE DEF t
<1>4. /\ logic' \in Machine /\ logic'.var = logic.var /\ logic'.trail = logic.trail
      /\ logic'.queue = Tail(logic.queue) /\ logic'.queued = logic.queued \ {t}
  BY <1>1, <1>2, <1>3 DEF Machine
<1>5. Sane(logic') /\ Extends(logic', logic)
  BY <1>2, <1>3, <1>4, SameTrail
<1>6. MarksKept' /\ OriginKept'
  BY <1>1, <1>5, GrowKeepsMarks
<1>7. DueKept'
  BY <1>1, <1>3, <1>4 DEF TrailInv, DueKept, WakeupsKept
<1>8. QED
  BY <1>5, <1>6, <1>7 DEF TrailInv

LEMMA DrainedKeeps == ASSUME TrailInv, Drained \/ ThunkReturns PROVE TrailInv'
<1>1. /\ UNCHANGED <<logic, origin, marks, due>> /\ within # "program"
      /\ within' = "program" => logic.queue = <<>>
  BY DEF Drained, ThunkReturns
<1>2. ToSet(<<>>) = {}
  BY DEF ToSet
<1>3. DueKept'
  BY <1>1, <1>2 DEF TrailInv, DueKept, WakeupsKept
<1>4. MarksKept' /\ OriginKept' /\ Sane(logic')
  BY <1>1 DEF TrailInv, MarksKept, OriginKept
<1>5. QED
  BY <1>3, <1>4 DEF TrailInv

LEMMA ThunkFailsKeeps == ASSUME TrailInv, ThunkFails PROVE TrailInv'
<1>1. /\ logic' = GiveUp(logic, origin.depth) /\ within = "thunk" /\ within' = "program" /\ due' = {}
      /\ origin' = origin /\ marks' = marks
  BY DEF ThunkFails
<1>2. /\ Sane(logic) /\ marks \in Seq(Marks) /\ origin \in Marks /\ Restores(logic, origin)
      /\ \A i \in DOMAIN marks : marks[i].depth <= origin.depth /\ Restores(logic, marks[i])
  BY <1>1 DEF TrailInv, MarksKept, OriginKept
<1>3. origin.depth \in 0..Len(logic.trail) /\ origin.depth \in Nat
      /\ \A i \in DOMAIN marks : marks[i].depth \in 0..origin.depth
  <2>1. Len(logic.trail) \in Nat
    BY <1>2, SaneFacts
  <2>2. origin.depth \in Nat /\ \A i \in DOMAIN marks : marks[i].depth \in Nat
    <3>1. \A i \in DOMAIN marks : marks[i] \in Marks
      BY <1>2
    <3>2. \A mark \in Marks : mark.depth \in Nat
      BY DEF Marks
    <3>3. QED
      BY <1>2, <3>1, <3>2
  <2>3. QED
    BY <1>2, <2>1, <2>2 DEF Restores
<1>4. /\ Sane(logic') /\ Len(logic'.trail) = origin.depth /\ logic'.queue = <<>>
      /\ \A c \in 0..origin.depth : Back(logic', c) = Back(logic, c)
  BY <1>1, <1>2, <1>3, GiveUpLaws
<1>5. \A i \in DOMAIN marks : Restores(logic', marks[i])
  BY <1>2, <1>3, <1>4 DEF Restores
<1>6. MarksKept'
  BY <1>1, <1>2, <1>5 DEF TrailInv, MarksKept, Restores
<1>7. OriginKept' /\ DueKept'
  BY <1>1, <1>2 DEF OriginKept, DueKept, WakeupsKept
<1>8. QED
  BY <1>4, <1>6, <1>7 DEF TrailInv

\* A write by the program or a propagator.
LEMMA WriteKeeps ==
  ASSUME TrailInv, Sane(logic'), Extends(logic', logic), logic'.queue = logic.queue,
         UNCHANGED <<within, origin, marks, due>>
  PROVE  TrailInv'
<1>1. MarksKept' /\ OriginKept'
  BY GrowKeepsMarks
<1>2. DueKept'
  BY DEF TrailInv, DueKept, WakeupsKept
<1>3. QED
  BY <1>1, <1>2 DEF TrailInv

LEMMA NarrowKeeps ==
  ASSUME TrailInv, NEW x \in Var, NEW d \in Domains, Narrow(x, d) PROVE TrailInv'
<1> DEFINE v == [logic.var[x] EXCEPT !.domain = d]
<1>1. /\ Sane(logic) /\ Good(logic.var) /\ logic.var[x] \in Info
  BY SaneFacts DEF TrailInv, Store
<1>2. /\ ~IsBound(logic.var, x) /\ (logic.var[x].domain # NoDomain => d \subseteq logic.var[x].domain)
      /\ logic' = Write(logic, "Domain", x, v) /\ UNCHANGED <<within, origin, marks, due>>
  BY DEF Narrow, SetDomain, IsBound
<1>3. v \in Info /\ v = [logic.var[x] EXCEPT !.domain = v.domain]
  BY <1>1 DEF Info
<1>4. Good([logic.var EXCEPT ![x] = v])
  BY <1>1, <1>2, GoodDomain
<1> HIDE DEF v
<1>5. Sane(logic') /\ Extends(logic', logic) /\ logic'.queue = logic.queue
  BY <1>1, <1>2, <1>3, <1>4, WriteLaws
<1>6. QED
  BY <1>2, <1>5, WriteKeeps

LEMMA AttachKeeps ==
  ASSUME TrailInv, NEW x \in Var, NEW t \in Thunk, AttachPropagator(x, t) PROVE TrailInv'
<1> DEFINE p == <<t>> \o logic.var[x].props
           v == [logic.var[x] EXCEPT !.props = p]
<1>1. /\ Sane(logic) /\ Good(logic.var) /\ logic.var[x] \in Info
  BY SaneFacts DEF TrailInv, Store
<1>2. /\ logic' = Write(logic, "Attr", x, v) /\ UNCHANGED <<within, origin, marks, due>>
  BY DEF AttachPropagator, Attach
<1>3. p \in Seq(Thunk)
  BY <1>1 DEF Info
<1> HIDE DEF p
<1>4. v \in Info /\ v = [logic.var[x] EXCEPT !.props = v.props]
  BY <1>1, <1>3 DEF Info
<1>5. Good([logic.var EXCEPT ![x] = v])
  BY <1>1, <1>3, GoodProps
<1> HIDE DEF v
<1>6. Sane(logic') /\ Extends(logic', logic) /\ logic'.queue = logic.queue
  BY <1>1, <1>2, <1>4, <1>5, WriteLaws
<1>7. QED
  BY <1>2, <1>6, WriteKeeps

LEMMA MarkKeeps == ASSUME TrailInv, TrailMark PROVE TrailInv'
<1> DEFINE mark == [depth |-> Len(logic.trail), var |-> logic.var]
<1>1. /\ within = "program" /\ marks' = Append(marks, mark) /\ UNCHANGED <<logic, within, origin, due>>
  BY DEF TrailMark
<1>2. /\ Sane(logic) /\ marks \in Seq(Marks) /\ Len(marks) \in Nat
      /\ Len(logic.trail) \in Nat /\ logic.var \in Store /\ Back(logic, Len(logic.trail)) = logic.var
  BY SaneFacts DEF TrailInv, MarksKept
<1>3. mark \in Marks /\ Restores(logic, mark) /\ mark.depth = Len(logic.trail)
  BY <1>2 DEF Marks, Restores
<1> HIDE DEF mark
<1>4. /\ marks' \in Seq(Marks) /\ DOMAIN marks' = 1..(Len(marks) + 1)
      /\ marks'[Len(marks) + 1] = mark /\ \A i \in 1..Len(marks) : marks'[i] = marks[i]
      /\ DOMAIN marks = 1..Len(marks)
  BY <1>1, <1>2, <1>3
<1>5. \A i \in DOMAIN marks' : i \in DOMAIN marks \/ i = Len(marks) + 1
  BY <1>2, <1>4
<1>6. \A i \in DOMAIN marks' : Restores(logic, marks'[i])
  BY <1>3, <1>4, <1>5 DEF TrailInv, MarksKept
<1>7. ASSUME NEW i \in DOMAIN marks', NEW j \in DOMAIN marks', i <= j
      PROVE  marks'[i].depth <= marks'[j].depth
  <2>1. CASE j = Len(marks) + 1
    BY <1>3, <1>4, <1>6, <2>1 DEF Restores
  <2>2. CASE j # Len(marks) + 1
    <3>1. i \in 1..Len(marks) /\ j \in 1..Len(marks)
      BY <1>2, <1>4, <1>7, <2>2
    <3>2. QED
      BY <1>4, <1>7, <3>1 DEF TrailInv, MarksKept
  <2>3. QED
    BY <2>1, <2>2
<1>8. MarksKept'
  BY <1>1, <1>4, <1>6, <1>7 DEF MarksKept, Restores
<1>9. OriginKept' /\ DueKept' /\ Sane(logic')
  BY <1>1, <1>2 DEF TrailInv, OriginKept, DueKept, WakeupsKept
<1>10. QED
  BY <1>8, <1>9 DEF TrailInv

LEMMA UnwindKeeps ==
  ASSUME TrailInv, NEW i \in DOMAIN marks, UnwindTrail(i) PROVE TrailInv'
<1> DEFINE k == marks[i].depth
<1>1. /\ within = "program" /\ logic' = RollbackTo(logic, k) /\ marks' = SubSeq(marks, 1, i)
      /\ UNCHANGED <<within, origin, due>>
  BY DEF UnwindTrail
<1>2. /\ Sane(logic) /\ marks \in Seq(Marks) /\ Len(logic.trail) \in Nat
      /\ \A j \in DOMAIN marks : marks[j] \in Marks /\ marks[j].depth \in Nat /\ Restores(logic, marks[j])
      /\ \A j, l \in DOMAIN marks : j <= l => marks[j].depth <= marks[l].depth
  <2>1. Sane(logic) /\ marks \in Seq(Marks) /\ Len(logic.trail) \in Nat
    BY SaneFacts DEF TrailInv, MarksKept
  <2>2. \A j \in DOMAIN marks : marks[j] \in Marks /\ marks[j].depth \in Nat
    <3>1. \A j \in DOMAIN marks : marks[j] \in Marks
      BY <2>1
    <3>2. \A mark \in Marks : mark.depth \in Nat
      BY DEF Marks
    <3>3. QED
      BY <3>1, <3>2
  <2>3. QED
    BY <2>1, <2>2 DEF TrailInv, MarksKept
<1>3. /\ k \in Nat /\ k \in 0..Len(logic.trail)
  BY <1>2 DEF Restores
<1> HIDE DEF k
<1>4. /\ Sane(logic') /\ Len(logic'.trail) = k /\ logic'.queue = logic.queue
      /\ \A c \in 0..k : Back(logic', c) = Back(logic, c)
  BY <1>1, <1>2, <1>3, SaneRollback
<1>5. /\ marks' \in Seq(Marks) /\ DOMAIN marks' = 1..i /\ DOMAIN marks = 1..Len(marks) /\ i \in 1..Len(marks)
      /\ \A j \in 1..i : marks'[j] = marks[j]
  BY <1>1, <1>2
<1>6. \A j \in 1..i : j \in DOMAIN marks /\ j <= i
  BY <1>5
<1>7. \A j \in 1..i : marks[j].depth \in 0..k
  BY <1>2, <1>3, <1>6 DEF k
<1>8. \A j \in 1..i : Restores(logic', marks[j])
  BY <1>2, <1>3, <1>4, <1>6, <1>7 DEF Restores
<1>9. MarksKept'
  BY <1>2, <1>5, <1>6, <1>8 DEF MarksKept, Restores
<1>10. OriginKept' /\ DueKept'
  BY <1>1, <1>4 DEF TrailInv, OriginKept, DueKept, WakeupsKept
<1>11. QED
  BY <1>4, <1>9, <1>10 DEF TrailInv

LEMMA UnifierKeeps == ASSUME TrailInv, UnifierNext \/ UNCHANGED unifier PROVE TrailInv'
<1>1. ASSUME UNCHANGED unifier PROVE TrailInv'
  BY <1>1 DEF unifier, TrailInv, MarksKept, OriginKept, DueKept, WakeupsKept
<1>2. ASSUME UnifierNext PROVE TrailInv'
  BY <1>1, <1>2, UnifyKeeps, ThunkUnifyKeeps, DrainKeeps, DrainedKeeps, ThunkFailsKeeps, NarrowKeeps,
     AttachKeeps, MarkKeeps, UnwindKeeps DEF UnifierNext, Idle
<1>3. QED
  BY <1>1, <1>2

LEMMA InitTrail == InitUnifier => TrailInv
<1>1. SUFFICES ASSUME InitUnifier PROVE TrailInv
  OBVIOUS
<1> DEFINE fresh == [x \in Var |-> [binding |-> Unbound, domain |-> NoDomain, props |-> <<>>]]
<1>2. /\ logic = [var |-> fresh, trail |-> <<>>, queue |-> <<>>, queued |-> {}, ok |-> TRUE]
      /\ within = "program" /\ origin = [depth |-> 0, var |-> fresh] /\ marks = <<>> /\ due = {}
  BY <1>1 DEF InitUnifier
<1>3. fresh \in Store /\ \A x \in Var : fresh[x].binding = Unbound
  BY DEF Store, Info
<1> HIDE DEF fresh
<1>4. logic \in Machine /\ logic.var = fresh /\ Len(logic.trail) = 0
  BY <1>2, <1>3 DEF Machine
<1>5. Good(fresh)
  <2> DEFINE rank == [t \in Term |-> 0]
  <2>1. rank \in [Term -> 0..0] /\ 0 \in Nat
    OBVIOUS
  <2>2. Ranked(fresh, rank) /\ Nested(fresh)
    BY <1>3 DEF Ranked, Nested, IsBound
  <2> HIDE DEF rank
  <2>3. QED
    BY <1>3, <2>1, <2>2 DEF Good, Acyclic
<1>6. Sane(logic)
  <2>1. Back(logic, 0) = fresh
    BY <1>4, BackLaws
  <2>2. \A d \in 0..Len(logic.trail) : d = 0
    BY <1>4
  <2>3. QED
    BY <1>2, <1>4, <1>5, <2>1, <2>2 DEF Sane
<1>7. MarksKept /\ OriginKept /\ DueKept
  BY <1>2, <1>3 DEF MarksKept, OriginKept, DueKept, WakeupsKept, Marks
<1>8. QED
  BY <1>6, <1>7 DEF TrailInv

\* In every reachable state: undoing to any point of the trail gives variables
\* whose chains end and whose domains shrink along them; what was marked, and
\* what the unification under way began with, is on the trail; and the queue
\* holds what is due (rollback_to, unify_internal, drain_propagators).
THEOREM TrailInvariant == VmSpec => []TrailInv
<1>1. VmInit => TrailInv
  BY InitTrail DEF VmInit
<1>2. TrailInv /\ [VmNext]_vmVars => TrailInv'
  <2>1. ASSUME [VmNext]_vmVars PROVE UnifierNext \/ UNCHANGED unifier
    BY <2>1 DEF VmNext, VmControlNext, VmUnifierNext, vmVars
  <2>2. QED
    BY <2>1, UnifierKeeps
<1>3. QED
  BY <1>1, <1>2, PTL DEF VmSpec

\* Unwinding to a mark, or to the start of the unification under way, puts every
\* binding, domain and attribute back as it was (rollback_to, vm.cpp).
THEOREM UnwindingRestores == VmSpec => []UnwindRestores
<1>1. ASSUME TrailInv PROVE UnwindRestores
  <2>1. Sane(logic) /\ marks \in Seq(Marks) /\ origin \in Marks /\ Len(logic.trail) \in Nat
    BY <1>1, SaneFacts DEF TrailInv, MarksKept, OriginKept
  <2>2. ASSUME NEW mark \in Marks, Restores(logic, mark)
        PROVE  RollbackTo(logic, mark.depth).var = mark.var
    <3>1. mark.depth \in 0..Len(logic.trail)
      BY <2>1, <2>2 DEF Marks, Restores
    <3>2. QED
      BY <2>1, <2>2, <3>1, SaneRollback DEF Restores
  <2>3. \A i \in DOMAIN marks : marks[i] \in Marks
    BY <2>1
  <2>4. QED
    BY <1>1, <2>1, <2>2, <2>3 DEF TrailInv, MarksKept, OriginKept, UnwindRestores
<1>2. QED
  BY <1>1, TrailInvariant, PTL

\* A propagator of a variable that was bound stays in the queue until it is
\* taken to be run (fire_attr_hooks, drain_propagators).
THEOREM WakeupsAreKept == VmSpec => []WakeupsKept
<1>1. TrailInv => WakeupsKept
  BY DEF TrailInv, DueKept
<1>2. QED
  BY <1>1, TrailInvariant, PTL

\* The value a chain ends in lies in the domain of every variable on it
\* (bind_var_to_term).
THEOREM DomainsAreHonoured == VmSpec => []DomainHonoured
<1>1. ASSUME TrailInv PROVE DomainHonoured
  <2>1. logic.var \in Store /\ Acyclic(logic.var) /\ Nested(logic.var)
    BY <1>1, SaneFacts DEF TrailInv, Good
  <2>2. \A x \in Var : x \in Term
    BY DEF Term
  <2>3. QED
    BY <2>1, <2>2, DerefLaws DEF DomainHonoured
<1>2. QED
  BY <1>1, TrailInvariant, PTL
=============================================================================
