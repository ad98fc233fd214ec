---------------------------- MODULE Session_proofs ----------------------------
(***************************************************************************)
(* Sessions with any library, submissions and bounds: what a failed or     *)
(* finished submission leaves behind, and the order modules run in.        *)
(***************************************************************************)
EXTENDS Session, SequenceTheorems, FiniteSetTheorems, WellFoundedInduction, TLAPS

-----------------------------------------------------------------------------
(* Sequences of any elements.                                              *)

IsSeq(s) == s \in Seq(ToSet(s))

LEMMA SeqShape ==
  ASSUME NEW s, IsSeq(s)
  PROVE  /\ Len(s) \in Nat /\ DOMAIN s = 1..Len(s) /\ (s # <<>> => Len(s) >= 1)
         /\ (Len(s) = 0 => s = <<>>) /\ \A i \in 1..Len(s) : s[i] \in ToSet(s)
<1>1. s \in Seq(ToSet(s))
  BY DEF IsSeq
<1>2. Len(s) \in Nat /\ DOMAIN s = 1..Len(s) /\ \A i \in 1..Len(s) : s[i] \in ToSet(s)
  <2> DEFINE X == ToSet(s)
  <2>1. s \in Seq(X)
    BY <1>1
  <2> HIDE DEF X
  <2>2. Len(s) \in Nat /\ DOMAIN s = 1..Len(s) /\ \A i \in 1..Len(s) : s[i] \in X
    BY <2>1, LenProperties, ElementOfSeq
  <2>3. QED
    BY <2>2 DEF X
<1>3. s # <<>> => Len(s) \in Nat \ {0}
  BY <1>1, EmptySeq
<1>4. QED
  BY <1>2, <1>3, EmptySeq

LEMMA SeqFrom ==
  ASSUME NEW X, NEW s \in Seq(X) PROVE IsSeq(s)
<1>1. s \in Seq(Range(s))
  BY SeqOfRange
<1>2. Range(s) = ToSet(s)
  BY DEF Range, ToSet
<1>3. QED
  BY <1>1, <1>2 DEF IsSeq

LEMMA EmptyIsSeq == IsSeq(<<>>) /\ Len(<<>>) = 0
<1>1. <<>> \in Seq({})
  BY EmptySeq
<1>2. QED
  BY <1>1, SeqFrom, EmptySeq

LEMMA SingleSeq ==
  ASSUME NEW e PROVE IsSeq(<<e>>) /\ Len(<<e>>) = 1 /\ <<e>>[1] = e /\ DOMAIN <<e>> = 1..1
<1>1. <<e>> \in Seq({e}) /\ Len(<<e>>) = 1 /\ <<e>>[1] = e /\ DOMAIN <<e>> = 1..1
  OBVIOUS
<1>2. QED
  BY <1>1, SeqFrom

LEMMA Appended ==
  ASSUME NEW s, IsSeq(s), NEW e
  PROVE  /\ IsSeq(Append(s, e)) /\ Len(Append(s, e)) = Len(s) + 1
         /\ \A i \in 1..Len(s) : Append(s, e)[i] = s[i]
         /\ Append(s, e)[Len(s) + 1] = e
<1> DEFINE X == ToSet(s) \cup {e}
<1>1. s \in Seq(X) /\ e \in X
  BY SeqMonotonic DEF IsSeq
<1> HIDE DEF X
<1>2. /\ Append(s, e) \in Seq(X) /\ Len(Append(s, e)) = Len(s) + 1
      /\ \A i \in 1..Len(s) : Append(s, e)[i] = s[i]
      /\ Append(s, e)[Len(s) + 1] = e
  BY <1>1, AppendProperties
<1>3. QED
  BY <1>2, SeqFrom

LEMMA Joined ==
  ASSUME NEW s, IsSeq(s), NEW t, IsSeq(t)
  PROVE  /\ IsSeq(s \o t) /\ Len(s \o t) = Len(s) + Len(t)
         /\ \A i \in 1..Len(s) : (s \o t)[i] = s[i]
         /\ \A i \in 1..Len(t) : (s \o t)[Len(s) + i] = t[i]
<1> DEFINE X == ToSet(s) \cup ToSet(t)
           u == s \o t
<1>1. s \in Seq(X) /\ t \in Seq(X)
  BY SeqMonotonic DEF IsSeq
<1> HIDE DEF X
<1>2. /\ u \in Seq(X) /\ Len(u) = Len(s) + Len(t)
      /\ \A i \in 1..(Len(s) + Len(t)) : u[i] = IF i <= Len(s) THEN s[i] ELSE t[i - Len(s)]
  BY <1>1, ConcatProperties
<1> HIDE DEF u
<1>3. Len(s) \in Nat /\ Len(t) \in Nat
  BY SeqShape
<1>4. \A i \in 1..Len(s) : u[i] = s[i]
  BY <1>2, <1>3
<1>5. ASSUME NEW i \in 1..Len(t) PROVE u[Len(s) + i] = t[i]
  <2>1. Len(s) + i \in 1..(Len(s) + Len(t)) /\ ~(Len(s) + i <= Len(s)) /\ (Len(s) + i) - Len(s) = i
    BY <1>3
  <2>2. QED
    BY <1>2, <2>1
<1>6. QED
  BY <1>2, <1>4, <1>5, SeqFrom DEF u

\* A part of a sequence.
LEMMA Slice ==
  ASSUME NEW s, IsSeq(s), NEW a \in 1..(Len(s) + 1), NEW b \in (a - 1)..Len(s)
  PROVE  /\ IsSeq(SubSeq(s, a, b)) /\ Len(SubSeq(s, a, b)) = b - a + 1
         /\ \A i \in 1..(b - a + 1) : SubSeq(s, a, b)[i] = s[a + i - 1]
<1> DEFINE X == ToSet(s)
           u == SubSeq(s, a, b)
<1>1. Len(s) \in Nat /\ \A i \in 1..Len(s) : s[i] \in X
  BY SeqShape
<1>2. a \in Int /\ b \in Int /\ \A i \in a..b : s[i] \in X
  BY <1>1
<1> HIDE DEF X
<1>3. /\ u \in Seq(X)
      /\ Len(u) = IF a <= b THEN b - a + 1 ELSE 0
      /\ \A i \in 1..(b - a + 1) : u[i] = s[a + i - 1]
  BY <1>2, SubSeqProperties
<1>4. ~(a <= b) => b - a + 1 = 0
  BY <1>1
<1> HIDE DEF u
<1>5. IsSeq(u)
  BY <1>3, SeqFrom
<1>6. QED
  BY <1>3, <1>4, <1>5 DEF u

\* The first elements of a sequence.
LEMMA Cut ==
  ASSUME NEW s, IsSeq(s), NEW n \in 0..Len(s)
  PROVE  /\ IsSeq(SubSeq(s, 1, n)) /\ Len(SubSeq(s, 1, n)) = n
         /\ \A i \in 1..n : SubSeq(s, 1, n)[i] = s[i]
<1>1. Len(s) \in Nat
  BY SeqShape
<1>2. 1 \in 1..(Len(s) + 1) /\ n \in (1 - 1)..Len(s) /\ n - 1 + 1 = n /\ \A i \in 1..n : 1 + i - 1 = i
  BY <1>1
<1>3. /\ IsSeq(SubSeq(s, 1, n)) /\ Len(SubSeq(s, 1, n)) = n - 1 + 1
      /\ \A i \in 1..(n - 1 + 1) : SubSeq(s, 1, n)[i] = s[1 + i - 1]
  BY <1>2, Slice
<1>4. QED
  BY <1>2, <1>3

\* The last elements of a sequence, and the last but one.
LEMMA Dropped ==
  ASSUME NEW s, IsSeq(s), NEW i \in 1..Len(s)
  PROVE  /\ IsSeq(SubSeq(s, i, Len(s))) /\ Len(SubSeq(s, i, Len(s))) = Len(s) - i + 1
         /\ \A k \in 1..(Len(s) - i + 1) : SubSeq(s, i, Len(s))[k] = s[i + k - 1]
<1>1. Len(s) \in Nat
  BY SeqShape
<1>2. i \in 1..(Len(s) + 1) /\ Len(s) \in (i - 1)..Len(s)
  BY <1>1
<1>3. QED
  BY <1>2, Slice

LEMMA Tailed ==
  ASSUME NEW s, IsSeq(s), s # <<>>
  PROVE  /\ IsSeq(Tail(s)) /\ Len(Tail(s)) = Len(s) - 1 /\ Head(s) = s[1]
         /\ \A i \in 1..(Len(s) - 1) : Tail(s)[i] = s[i + 1]
<1> DEFINE X == ToSet(s)
<1>1. s \in Seq(X)
  BY DEF IsSeq
<1> HIDE DEF X
<1>2. /\ Tail(s) \in Seq(X) /\ Len(Tail(s)) = Len(s) - 1
      /\ \A i \in 1..Len(Tail(s)) : Tail(s)[i] = s[i + 1]
  BY <1>1, HeadTailProperties
<1>3. Head(s) = s[1]
  BY <1>1
<1>4. QED
  BY <1>2, <1>3, SeqFrom

LEMMA Replaced ==
  ASSUME NEW s, IsSeq(s), s # <<>>, NEW e
  PROVE  LET t == Append(Front(s), e)
         IN  /\ IsSeq(t) /\ Len(t) = Len(s) /\ t[Len(s)] = e /\ DOMAIN t = 1..Len(s)
             /\ \A i \in 1..Len(s) : i # Len(s) => t[i] = s[i]
<1> DEFINE f == SubSeq(s, 1, Len(s) - 1)
           t == Append(Front(s), e)
<1>1. Len(s) \in Nat /\ Len(s) >= 1
  BY SeqShape
<1>2. Len(s) - 1 \in 0..Len(s)
  BY <1>1
<1>3. IsSeq(f) /\ Len(f) = Len(s) - 1 /\ \A i \in 1..(Len(s) - 1) : f[i] = s[i]
  BY <1>2, Cut
<1>4. t = Append(f, e)
  BY DEF Front
<1> HIDE DEF f
<1>5. /\ IsSeq(t) /\ Len(t) = Len(f) + 1 /\ \A i \in 1..Len(f) : t[i] = f[i]
      /\ t[Len(f) + 1] = e
  <2> HIDE DEF t
  <2>1. QED
    BY <1>3, <1>4, Appended
<1> HIDE DEF t
<1>6. DOMAIN t = 1..Len(t)
  BY <1>5, SeqShape
<1>7. IsSeq(t) /\ Len(t) = Len(s) /\ t[Len(s)] = e /\ \A i \in 1..Len(s) : i # Len(s) => t[i] = s[i]
  BY <1>1, <1>3, <1>5
<1>8. DOMAIN t = 1..Len(s)
  BY <1>6, <1>7
<1>9. QED
  BY <1>7, <1>8 DEF t

LEMMA FrontOf ==
  ASSUME NEW s, IsSeq(s), s # <<>>
  PROVE  /\ IsSeq(Front(s)) /\ Len(Front(s)) = Len(s) - 1
         /\ \A i \in 1..(Len(s) - 1) : Front(s)[i] = s[i]
<1>1. Len(s) \in Nat /\ Len(s) >= 1
  BY SeqShape
<1>2. Len(s) - 1 \in 0..Len(s)
  BY <1>1
<1>3. QED
  BY <1>2, Cut DEF Front

-----------------------------------------------------------------------------
(* Induction.                                                              *)

\* A non-empty set of numbers has a least element.
LEMMA Least ==
  ASSUME NEW S, S \subseteq Nat, S # {} PROVE \E n \in S : \A m \in S : n <= m
<1> DEFINE R == {p \in Nat \X Nat : p[1] < p[2]}
<1>1. IsWellFoundedOn(R, Nat)
  <2>1. OpToRel(<, Nat) = R
    BY DEF OpToRel
  <2>2. QED
    BY <2>1, NatLessThanWellFounded
<1> HIDE DEF R
<1>2. PICK n \in S : \A m \in S : ~(<<m, n>> \in R)
  BY <1>1, WFMin
<1>3. ASSUME NEW m \in S, m < n PROVE FALSE
  <2>1. <<m, n>> \in Nat \X Nat /\ <<m, n>>[1] < <<m, n>>[2]
    BY <1>3
  <2>2. QED
    BY <1>2, <2>1 DEF R
<1>4. \A m \in S : m \in Int /\ n \in Int
  OBVIOUS
<1>5. QED
  BY <1>3, <1>4

\* Induction up to a bound: what holds of 0 and of the next number holds of all.
LEMMA Climb ==
  ASSUME NEW n \in Nat, NEW P, 0 \in P, \A k \in 0..n : k \in P /\ k < n => k + 1 \in P
  PROVE  \A k \in 0..n : k \in P
<1> DEFINE S == {k \in 0..n : k \notin P}
<1>1. SUFFICES ASSUME S # {} PROVE FALSE
  OBVIOUS
<1>2. PICK k \in S : \A m \in S : k <= m
  <2>1. S \subseteq Nat
    OBVIOUS
  <2> HIDE DEF S
  <2>2. QED
    BY <1>1, <2>1, Least
<1>3. k # 0 /\ k \in 0..n
  BY <1>2
<1>4. k - 1 \in 0..n /\ k - 1 < n /\ k - 1 < k /\ (k - 1) + 1 = k
  BY <1>3
<1>5. k - 1 \in P
  BY <1>2, <1>4
<1>6. QED
  BY <1>2, <1>4, <1>5

\* The function behind a fold exists: op[x] is what the fold does with x, and
\* pick[s] the element of s it takes last.
Folds(f, T, base, pick, op) ==
  f = [s \in SUBSET T |-> IF s = {} THEN base ELSE op[pick[s]][f[s \ {pick[s]}]]]

LEMMA FoldExists ==
  ASSUME NEW T, IsFiniteSet(T), NEW U, NEW base \in U, NEW op \in [T -> [U -> U]],
         NEW pick, \A s \in SUBSET T : s # {} => pick[s] \in s
  PROVE  \E f \in [SUBSET T -> U] : Folds(f, T, base, pick, op)
<1> DEFINE Value(f, s) == IF s = {} THEN base ELSE op[pick[s]][f[s \ {pick[s]}]]
           Upto(f, k) == \A s \in SUBSET T : Cardinality(s) <= k => f[s] = Value(f, s)
           n == Cardinality(T)
           P == {k \in 0..n : \E f \in [SUBSET T -> U] : Upto(f, k)}
<1>1. /\ n \in Nat
      /\ \A s \in SUBSET T : /\ IsFiniteSet(s) /\ Cardinality(s) \in 0..n
                             /\ s # {} <=> Cardinality(s) > 0
  <2>1. \A s \in SUBSET T : IsFiniteSet(s) /\ Cardinality(s) <= n
    BY FS_Subset
  <2>2. \A s : IsFiniteSet(s) => Cardinality(s) \in Nat /\ (s = {} <=> Cardinality(s) = 0)
    BY FS_CardinalityType, FS_EmptySet
  <2>3. n \in Nat
    BY <2>2
  <2>4. ASSUME NEW s \in SUBSET T
        PROVE  /\ IsFiniteSet(s) /\ Cardinality(s) \in 0..n
               /\ s # {} <=> Cardinality(s) > 0
    <3>1. IsFiniteSet(s) /\ Cardinality(s) <= n /\ Cardinality(s) \in Nat /\ (s = {} <=> Cardinality(s) = 0)
      BY <2>1, <2>2
    <3> HIDE DEF n
    <3>2. QED
      BY <2>3, <3>1
  <2> HIDE DEF n
  <2>5. QED
    BY <2>3, <2>4
<1>2. \A s \in SUBSET T : s # {} =>
        /\ s \ {pick[s]} \in SUBSET T /\ pick[s] \in T
        /\ Cardinality(s \ {pick[s]}) = Cardinality(s) - 1
  <2>1. ASSUME NEW s \in SUBSET T, s # {}
        PROVE  Cardinality(s \ {pick[s]}) = Cardinality(s) - 1
    <3>1. IsFiniteSet(s) /\ pick[s] \in s
      BY <1>1, <2>1
    <3>2. QED
      BY <3>1, FS_RemoveElement
  <2>2. QED
    BY <2>1
<1>3. \A f \in [SUBSET T -> U], s \in SUBSET T : Value(f, s) \in U
  BY <1>2
<1> HIDE DEF n
<1>4. 0 \in P
  <2> DEFINE f == [s \in SUBSET T |-> base]
  <2>1. f \in [SUBSET T -> U] /\ \A s \in SUBSET T : f[s] = base
    OBVIOUS
  <2> HIDE DEF f
  <2>2. ASSUME NEW s \in SUBSET T, Cardinality(s) <= 0 PROVE s = {}
    BY <1>1, <2>2
  <2>3. Upto(f, 0)
    BY <2>1, <2>2
  <2>4. QED
    BY <1>1, <2>1, <2>3
<1>5. ASSUME NEW k \in 0..n, k \in P, k < n PROVE k + 1 \in P
  <2>1. PICK f \in [SUBSET T -> U] : Upto(f, k)
    BY <1>5
  <2> DEFINE g == [s \in SUBSET T |-> IF Cardinality(s) <= k THEN f[s] ELSE Value(f, s)]
  <2>2. g \in [SUBSET T -> U]
    BY <1>3
  <2>3. \A s \in SUBSET T : g[s] = IF Cardinality(s) <= k THEN f[s] ELSE Value(f, s)
    OBVIOUS
  <2> HIDE DEF g
  <2>4. ASSUME NEW s \in SUBSET T, Cardinality(s) <= k + 1 PROVE g[s] = Value(g, s)
    <3>1. g[s] = Value(f, s)
      BY <2>1, <2>3
    <3>2. CASE s = {}
      BY <3>1, <3>2
    <3>3. CASE s # {}
      <4>1. Cardinality(s \ {pick[s]}) <= k /\ s \ {pick[s]} \in SUBSET T
        BY <1>1, <1>2, <2>4, <3>3
      <4>2. g[s \ {pick[s]}] = f[s \ {pick[s]}]
        BY <2>3, <4>1
      <4>3. QED
        BY <3>1, <4>2
    <3>4. QED
      BY <3>2, <3>3
  <2>5. Upto(g, k + 1)
    BY <2>4
  <2>6. k + 1 \in 0..n
    BY <1>1, <1>5
  <2>7. QED
    BY <2>2, <2>5, <2>6
<1>6. n \in P
  <2>1. n \in 0..n
    BY <1>1
  <2>2. \A k \in 0..n : k \in P /\ k < n => k + 1 \in P
    BY <1>5
  <2> HIDE DEF P
  <2>3. \A k \in 0..n : k \in P
    BY <1>1, <1>4, <2>2, Climb
  <2>4. QED
    BY <2>1, <2>3
<1>7. PICK f \in [SUBSET T -> U] : Upto(f, n)
  BY <1>6
<1>8. \A s \in SUBSET T : f[s] = Value(f, s)
  <2>1. \A s \in SUBSET T : Cardinality(s) <= n
    BY <1>1
  <2> HIDE DEF Value
  <2>2. QED
    BY <1>7, <2>1
<1>9. f = [s \in SUBSET T |-> f[s]]
  BY <1>7
<1>10. f = [s \in SUBSET T |-> Value(f, s)]
  <2> HIDE DEF Value
  <2>1. QED
    BY <1>8, <1>9
<1>11. QED
  BY <1>7, <1>10 DEF Folds

LEMMA Extremes ==
  ASSUME NEW n \in Nat, NEW s \in SUBSET (1..n), s # {}
  PROVE  Max(s) \in s /\ (\A i \in s : i <= Max(s)) /\ Min(s) \in s /\ (\A i \in s : Min(s) <= i)
<1>1. \E i \in s : \A j \in s : i <= j
  <2>1. s \subseteq Nat
    OBVIOUS
  <2>2. QED
    BY <2>1, Least
<1>2. \E i \in s : \A j \in s : i >= j
  <2> DEFINE R == {n - i : i \in s}
  <2>1. R \subseteq Nat /\ R # {}
    <3>1. \A i \in s : n - i \in Nat
      OBVIOUS
    <3>2. PICK i \in s : TRUE
      OBVIOUS
    <3>3. n - i \in R
      BY <3>2
    <3>4. QED
      BY <3>1, <3>3
  <2>2. PICK k \in R : \A m \in R : k <= m
    <3> HIDE DEF R
    <3>1. QED
      BY <2>1, Least
  <2>3. PICK i \in s : k = n - i
    BY <2>2
  <2>4. \A j \in s : i >= j
    <3>1. ASSUME NEW j \in s PROVE i >= j
      <4>1. n - i <= n - j
        BY <2>2, <2>3
      <4>2. QED
        BY <4>1
    <3>2. QED
      BY <3>1
  <2>5. QED
    BY <2>4
<1>3. QED
  BY <1>1, <1>2 DEF Max, Min

LEMMA MaxOfSegment ==
  ASSUME NEW n \in Nat, NEW i \in 1..n
  PROVE  (1..i) # {} /\ Max(1..i) = i /\ (1..i) \ {i} = 1..(i - 1)
<1>1. Max(1..i) \in 1..i /\ Max(1..i) >= i
  <2>1. 1..i \in SUBSET (1..n) /\ i \in 1..i
    OBVIOUS
  <2>2. QED
    BY <2>1, Extremes
<1>2. QED
  BY <1>1

LEMMA AppendedNames ==
  ASSUME NEW s, IsSeq(s), NEW e PROVE NamesOf(Append(s, e)) = NamesOf(s) \cup {e.name}
<1> DEFINE t == Append(s, e)
<1>1. Len(s) \in Nat /\ DOMAIN s = 1..Len(s)
  BY SeqShape
<1>2. /\ IsSeq(t) /\ Len(t) = Len(s) + 1 /\ t[Len(s) + 1] = e /\ \A i \in 1..Len(s) : t[i] = s[i]
  BY Appended
<1> HIDE DEF t
<1>3. DOMAIN t = 1..(Len(s) + 1)
  BY <1>2, SeqShape
<1>4. ASSUME NEW x \in NamesOf(t) PROVE x \in NamesOf(s) \cup {e.name}
  <2>1. PICK i \in 1..(Len(s) + 1) : t[i].name = x
    BY <1>3, <1>4 DEF NamesOf
  <2>2. CASE i = Len(s) + 1
    BY <1>2, <2>1, <2>2
  <2>3. CASE i # Len(s) + 1
    <3>1. i \in 1..Len(s)
      BY <1>1, <2>3
    <3>2. QED
      BY <1>1, <1>2, <2>1, <3>1 DEF NamesOf
  <2>4. QED
    BY <2>2, <2>3
<1>5. ASSUME NEW x \in NamesOf(s) PROVE x \in NamesOf(t)
  <2>1. PICK i \in 1..Len(s) : s[i].name = x
    BY <1>1, <1>5 DEF NamesOf
  <2>2. t[i] = s[i] /\ i \in 1..(Len(s) + 1)
    BY <1>1, <1>2
  <2>3. QED
    BY <1>3, <2>1, <2>2 DEF NamesOf
<1>6. e.name \in NamesOf(t)
  <2>1. Len(s) + 1 \in 1..(Len(s) + 1)
    BY <1>1
  <2>2. QED
    BY <1>2, <1>3, <2>1 DEF NamesOf
<1>7. QED
  BY <1>4, <1>5, <1>6 DEF t

-----------------------------------------------------------------------------
(* The invariant.                                                          *)

\* The forms of a frame are accumulated, at the places behind its base.
Started(f) == f.kind = "source" /\ f.pc # "load"
Within(f, x) == f.base < x /\ x <= f.base + Len(f.new)

\* What counts as executed because it was, not because an eval passes it over.
Guards == UNION {calls[j].guard : j \in DOMAIN calls}
Real   == executed \ Guards

FrameOf(f) == [kind |-> f.kind, via |-> f.via, key |-> f.key, new |-> f.new, todo |-> f.todo,
               pc |-> f.pc, base |-> f.base, sem |-> f.sem, guard |-> f.guard]

EvalForm(n) == Form(EvalName(n), {<<"__eta_eval_fn_">>}, {}, <<>>)
FrameOK(f) ==
  /\ f = FrameOf(f) /\ f.kind \in {"source", "etac"} /\ f.base \in Nat
  /\ f.pc \in {"load", "run", "init", "defined", "main"}
  /\ f.via \in {"user", "eval", "auto", "hydrate", "required"}
  /\ f.via \in {"user", "eval"} => f.kind = "source"
  /\ f.via = "hydrate" => f.kind = "source"
  /\ f.via \notin {"user", "eval"} => f.key \in DOMAIN Disk /\ f.new = <<Disk[f.key].form>>
  /\ f.via # "eval" => f.guard = {}
  /\ f.via = "eval" => f.todo = <<>> /\ \E n \in 0 .. MaxEvals : f.new = <<EvalForm(n)>>
  /\ RunsProgram(f) => f.sem # <<>>
  /\ IsSeq(f.sem) /\ IsSeq(f.new)

\* Loads wait below one frame that runs; evals only are above it.
StackOK ==
  /\ IsSeq(calls) /\ \A i \in DOMAIN calls : FrameOK(calls[i])
  /\ \A i \in DOMAIN calls : i = 1 <=> calls[i].via = "user"
  /\ \A i, j \in DOMAIN calls : i < j /\ calls[j].via # "eval" => calls[i].pc = "load" /\ calls[i].via # "eval"
  /\ \A i, j \in DOMAIN calls : i + 1 = j /\ calls[j].via = "eval" => RunsProgram(calls[i])

\* Where the forms of the frames are, one frame behind the other.
FormsOK ==
  /\ IsSeq(forms)
  /\ \A j \in DOMAIN calls : Started(calls[j]) =>
       /\ calls[j].base + Len(calls[j].new) <= Len(forms)
       /\ \A i \in 1 .. Len(calls[j].new) : forms[calls[j].base + i] = calls[j].new[i]
       /\ \A i \in DOMAIN calls[j].sem : \E x \in DOMAIN forms :
            forms[x].name = calls[j].sem[i].name /\ x <= calls[j].base + Len(calls[j].new)
  /\ \A j, k \in DOMAIN calls : j < k /\ Started(calls[j]) /\ Started(calls[k])
       => calls[j].base + Len(calls[j].new) <= calls[k].base

\* A form's module was executed or is still to be, by the call that added it.
CoveredBy(j, x) ==
  Started(calls[j]) /\ Within(calls[j], x) /\ forms[x].name \in NamesOf(calls[j].sem)
Covered ==
  \A x \in DOMAIN forms : forms[x].name \in Real \/ \E j \in DOMAIN calls : CoveredBy(j, x)

\* An eval passes over modules that are accumulated and of no later call.
GuardsOK ==
  /\ \A j \in DOMAIN calls : calls[j].guard \subseteq executed
  /\ \A i, j \in DOMAIN calls : i # j => calls[i].guard \cap calls[j].guard = {}
  /\ \A j \in DOMAIN calls : \A g \in calls[j].guard :
       \E y \in DOMAIN forms : forms[y].name = g /\ (calls[j].pc # "load" => y <= calls[j].base)
  /\ \A j, k \in DOMAIN calls : Started(calls[j]) /\ k <= j =>
       NamesOf(calls[j].new) \cap calls[k].guard = {}

KeysVia(via) == {calls[j].key : j \in {i \in DOMAIN calls : calls[i].via = via}}
LoadsOK ==
  /\ loading = KeysVia("auto") /\ KeysVia("hydrate") \subseteq indexed
  /\ \A i, j \in DOMAIN calls : i # j /\ calls[i].via = calls[j].via /\ calls[i].via \in {"auto", "hydrate"}
       => calls[i].key # calls[j].key

Counters == [submits : Nat, evals : Nat, failures : Nat, reserves : Nat]
Reserves == {ReserveName(n) : n \in 0 .. MaxReserves}
Placed(m) ==
  \E x \in DOMAIN forms : forms[x].name = m /\ \A j \in DOMAIN calls : Started(calls[j]) => x <= calls[j].base
IndexOK ==
  /\ indexed \subseteq DOMAIN Disk /\ spent \in Counters
  /\ \A m \in DOMAIN reserved : reserved[m] \subseteq Reserves
  /\ \A m \in indexed : m \in KeysVia("hydrate") \/ Placed(m)
  /\ executed \subseteq DOMAIN home \cup Guards \cup UNION {reserved[m] : m \in DOMAIN reserved}

\* The module running is passed over by the evals above it until it counts as executed.
HeadName(f) == f.sem[1].name
HeadsOK ==
  \A j \in DOMAIN calls : calls[j].kind = "source" =>
    /\ calls[j].pc \in {"init", "defined"} =>
         IF j = Len(calls) THEN HeadName(calls[j]) \notin executed
                           ELSE HeadName(calls[j]) \in calls[j + 1].guard
    /\ calls[j].pc = "main" => HeadName(calls[j]) \in Real

Core == StackOK /\ FormsOK /\ Covered /\ GuardsOK /\ LoadsOK /\ IndexOK /\ HeadsOK

-----------------------------------------------------------------------------
(* The order modules run in: the invariant.                                *)

\* A layer for every module: it imports none above its own, an artifact none
\* in its own.
Layers(layer) ==
  \A m \in DOMAIN Disk : \A k \in ImportsOf(Disk[m].form) \cap DOMAIN Disk :
    layer[k] <= layer[m] /\ (Disk[m].artifact => layer[k] < layer[m])
Layer == CHOOSE layer \in [DOMAIN Disk -> 1 .. Cardinality(DOMAIN Disk)] : Layers(layer)

NoKey == ""
Keyed(f) == f.via \notin {"user", "eval"}
Fine(f) == IsSeq(f.imports) /\ ImportsOf(f) \cap Reserves = {}

\* What the first b forms import ran, or is among them.
Met(fs, b, real) == \A x \in 1 .. b : \A m \in ImportsOf(fs[x]) : m \in real \/ \E y \in 1 .. b : fs[y].name = m

\* An artifact loads what it imports before it runs, and is no form itself.
EtacFits(f, names, real) ==
  /\ Disk[f.key].artifact /\ f.key \notin names
  /\ \A m \in ImportsOf(Disk[f.key].form) : m \in real \/ (f.pc = "load" /\ m \in ToSet(f.todo))
  /\ f.pc # "load" => NamesOf(f.sem) \subseteq {f.key}
  /\ f.pc = "main" \/ (f.pc # "load" /\ f.sem = <<>>) => f.key \in real

FrameFits(f, fs, real) ==
  /\ \A i \in DOMAIN f.new : Fine(f.new[i])
  /\ Started(f) => Met(fs, f.base, real)
  /\ f.kind = "etac" => EtacFits(f, NamesOf(fs), real)
  /\ Keyed(f) => IsSeq(f.todo) /\ ToSet(f.todo) \subseteq ImportsOf(Disk[f.key].form)
  /\ ~Keyed(f) => f.key = NoKey

\* A load goes down the layers; modules that run are different ones.
PairFits(f, h) ==
  /\ Keyed(f) /\ Keyed(h) => Layer[h.key] <= Layer[f.key] /\ (f.kind = "etac" => Layer[h.key] < Layer[f.key])
  /\ RunsProgram(f) /\ RunsProgram(h) => HeadName(f) # HeadName(h)

StackFits(cs, fs, real) ==
  /\ \A j \in DOMAIN cs : FrameFits(cs[j], fs, real)
  /\ \A i, j \in DOMAIN cs : i < j => PairFits(cs[i], cs[j])
  /\ \A i, j \in DOMAIN cs : i + 1 = j /\ cs[j].via = "required" => cs[i].kind = "etac"
FormsFit(fs, real, known) ==
  /\ \A x \in DOMAIN fs : Fine(fs[x])
  /\ Met(fs, Len(fs), real)
  /\ DOMAIN known \subseteq real \cap DOMAIN Disk
Ordered == StackFits(calls, forms, Real) /\ FormsFit(forms, Real, compiled)

-----------------------------------------------------------------------------
(* A frame is a record of nine fields.                                     *)

LEMMA FrameFacts ==
  ASSUME StackOK
  PROVE  /\ Len(calls) \in Nat /\ DOMAIN calls = 1..Len(calls) /\ IsSeq(calls)
         /\ (calls # <<>> => Len(calls) \in 1..Len(calls))
         /\ \A i \in 1..Len(calls) : FrameOK(calls[i])
         /\ \A i \in 1..Len(calls) : i = 1 <=> calls[i].via = "user"
         /\ \A i, j \in 1..Len(calls) : i < j /\ calls[j].via # "eval" => calls[i].pc = "load" /\ calls[i].via # "eval"
         /\ \A i, j \in 1..Len(calls) : i + 1 = j /\ calls[j].via = "eval" => RunsProgram(calls[i])
<1>1. IsSeq(calls) /\ Len(calls) \in Nat /\ DOMAIN calls = 1..Len(calls)
  BY SeqShape DEF StackOK
<1>2. calls # <<>> => Len(calls) >= 1
  BY <1>1, SeqShape
<1>3. calls # <<>> => Len(calls) \in 1..Len(calls)
  BY <1>1, <1>2
<1>4. /\ \A i \in 1..Len(calls) : FrameOK(calls[i])
      /\ \A i \in 1..Len(calls) : i = 1 <=> calls[i].via = "user"
      /\ \A i, j \in 1..Len(calls) : i < j /\ calls[j].via # "eval" => calls[i].pc = "load" /\ calls[i].via # "eval"
      /\ \A i, j \in 1..Len(calls) : i + 1 = j /\ calls[j].via = "eval" => RunsProgram(calls[i])
  BY <1>1 DEF StackOK
<1>5. QED
  BY <1>1, <1>3, <1>4

\* What the innermost call has loaded and run when it goes on as g.
Advances(g) ==
  /\ g.todo = Top.todo \/ ( /\ Top.todo # <<>> /\ g.todo = Tail(Top.todo) /\ g.pc = "load"
                            /\ (g.kind = "etac" => Head(Top.todo) \in executed))
  /\ RunsProgram(g) => (RunsProgram(Top) /\ HeadName(g) = HeadName(Top)) \/ HeadName(g) \notin executed
  /\ g.pc = "main" \/ (g.pc # "load" /\ g.sem = <<>>)
       => Top.pc = "main" \/ Top.sem = <<>> \/ HeadName(Top) \in executed'

\* The innermost call goes on; what it has done by then counts as executed.
TopStep(g) ==
  /\ calls # <<>> /\ calls' = Append(Front(calls), g) /\ FrameOK(g)
  /\ g.kind = Top.kind /\ g.via = Top.via /\ g.key = Top.key /\ g.new = Top.new
  /\ g.guard = Top.guard /\ g.base = Top.base /\ (g.pc = "load" <=> Top.pc = "load")
  /\ forms' = forms /\ reserved' = reserved /\ loading' = loading /\ indexed' = indexed /\ spent' = spent
  /\ executed \subseteq executed' /\ executed' \ executed \subseteq DOMAIN home' /\ DOMAIN home \subseteq DOMAIN home'
  /\ NamesOf(g.sem) \subseteq NamesOf(Top.sem)
  /\ Started(g) => NamesOf(Top.sem) \ NamesOf(g.sem) \subseteq executed'
  /\ g.kind = "source" /\ g.pc \in {"init", "defined"} => HeadName(g) \notin executed'
  /\ g.kind = "source" /\ g.pc = "main" => HeadName(g) \in executed' \ Guards
  /\ compiled' = compiled /\ Advances(g)

LEMMA TopCalls ==
  ASSUME StackOK, NEW g, TopStep(g)
  PROVE  LET n == Len(calls)
         IN  /\ n \in Nat /\ n \in 1..n /\ IsSeq(calls') /\ DOMAIN calls = 1..n /\ DOMAIN calls' = 1..n
             /\ Len(calls') = n /\ calls'[n] = g /\ Top = calls[n]
             /\ \A i \in 1..n : i # n => calls'[i] = calls[i]
             /\ \A i \in 1..n : /\ calls'[i].kind = calls[i].kind /\ calls'[i].via = calls[i].via
                                /\ calls'[i].key = calls[i].key /\ calls'[i].new = calls[i].new
                                /\ calls'[i].guard = calls[i].guard /\ calls'[i].base = calls[i].base
                                /\ calls'[i].pc = "load" <=> calls[i].pc = "load"
                                /\ NamesOf(calls'[i].sem) \subseteq NamesOf(calls[i].sem)
<1> DEFINE n == Len(calls)
<1>1. n \in Nat /\ n \in 1..n /\ IsSeq(calls) /\ DOMAIN calls = 1..n
  BY FrameFacts DEF TopStep
<1>2. calls # <<>>
  BY DEF TopStep
<1>3. calls' = Append(Front(calls), g)
  BY DEF TopStep
<1> DEFINE t == calls'
<1>4. /\ IsSeq(t) /\ Len(t) = n /\ t[n] = g /\ \A i \in 1..n : i # n => t[i] = calls[i]
      /\ DOMAIN t = 1..n
  <2> DEFINE u == Append(Front(calls), g)
  <2>1. IsSeq(u) /\ Len(u) = n /\ u[n] = g /\ DOMAIN u = 1..n /\ \A i \in 1..n : i # n => u[i] = calls[i]
    BY <1>1, <1>2, Replaced
  <2>2. t = u
    BY <1>3
  <2> HIDE DEF t, u, n
  <2>3. QED
    BY <2>1, <2>2
<1>6. /\ g.kind = calls[n].kind /\ g.via = calls[n].via /\ g.key = calls[n].key /\ g.new = calls[n].new
      /\ g.guard = calls[n].guard /\ g.base = calls[n].base /\ (g.pc = "load" <=> calls[n].pc = "load")
      /\ NamesOf(g.sem) \subseteq NamesOf(calls[n].sem) /\ Top = calls[n]
  BY DEF TopStep, Top
<1> HIDE DEF n, t
<1>7. ASSUME NEW i \in 1..n
      PROVE  /\ t[i].kind = calls[i].kind /\ t[i].via = calls[i].via
             /\ t[i].key = calls[i].key /\ t[i].new = calls[i].new
             /\ t[i].guard = calls[i].guard /\ t[i].base = calls[i].base
             /\ t[i].pc = "load" <=> calls[i].pc = "load"
             /\ NamesOf(t[i].sem) \subseteq NamesOf(calls[i].sem)
  BY <1>4, <1>6
<1>8. /\ n \in Nat /\ n \in 1..n /\ IsSeq(t) /\ DOMAIN calls = 1..n /\ DOMAIN t = 1..n
      /\ Len(t) = n /\ t[n] = g /\ Top = calls[n]
      /\ \A i \in 1..n : i # n => t[i] = calls[i]
  BY <1>1, <1>4, <1>6
<1>9. QED
  BY <1>7, <1>8 DEF n, t

LEMMA TopStackOK ==
  ASSUME StackOK, NEW g, TopStep(g) PROVE StackOK'
<1> DEFINE n == Len(calls)
<1>1. /\ n \in Nat /\ n \in 1..n /\ IsSeq(calls') /\ DOMAIN calls' = 1..n
      /\ calls'[n] = g /\ \A i \in 1..n : i # n => calls'[i] = calls[i]
      /\ \A i \in 1..n : calls'[i].via = calls[i].via /\ (calls'[i].pc = "load" <=> calls[i].pc = "load")
  BY TopCalls
<1>2. /\ \A i \in 1..n : FrameOK(calls[i])
      /\ \A i \in 1..n : i = 1 <=> calls[i].via = "user"
      /\ \A i, j \in 1..n : i < j /\ calls[j].via # "eval" => calls[i].pc = "load" /\ calls[i].via # "eval"
      /\ \A i, j \in 1..n : i + 1 = j /\ calls[j].via = "eval" => RunsProgram(calls[i])
  BY FrameFacts
<1>3. FrameOK(g)
  BY DEF TopStep
<1> HIDE DEF n
<1>4. \A i \in 1..n : FrameOK(calls'[i])
  BY <1>1, <1>2, <1>3
<1>5. \A i, j \in 1..n : i + 1 = j /\ calls'[j].via = "eval" => RunsProgram(calls'[i])
  BY <1>1, <1>2
<1>6. QED
  BY <1>1, <1>2, <1>4, <1>5 DEF StackOK

LEMMA TopFormsOK ==
  ASSUME StackOK, FormsOK, NEW g, TopStep(g) PROVE FormsOK'
<1> DEFINE n == Len(calls)
<1>1. /\ n \in Nat /\ DOMAIN calls = 1..n /\ DOMAIN calls' = 1..n
      /\ \A i \in 1..n : /\ calls'[i].kind = calls[i].kind /\ calls'[i].new = calls[i].new
                         /\ calls'[i].base = calls[i].base
                         /\ calls'[i].pc = "load" <=> calls[i].pc = "load"
                         /\ NamesOf(calls'[i].sem) \subseteq NamesOf(calls[i].sem)
  BY TopCalls
<1>2. forms' = forms
  BY DEF TopStep
<1> HIDE DEF n
<1>3. \A i \in 1..n : Started(calls'[i]) <=> Started(calls[i])
  BY <1>1 DEF Started
<1>4. ASSUME NEW j \in 1..n, Started(calls[j]), NEW i \in DOMAIN calls'[j].sem
      PROVE  \E x \in DOMAIN forms : forms[x].name = calls'[j].sem[i].name /\ x <= calls[j].base + Len(calls[j].new)
  <2>1. calls'[j].sem[i].name \in NamesOf(calls[j].sem)
    BY <1>1 DEF NamesOf
  <2>2. PICK k \in DOMAIN calls[j].sem : calls[j].sem[k].name = calls'[j].sem[i].name
    BY <2>1 DEF NamesOf
  <2>3. QED
    BY <1>1, <1>4, <2>2 DEF FormsOK
<1>5. QED
  BY <1>1, <1>2, <1>3, <1>4 DEF FormsOK

LEMMA TopReal ==
  ASSUME StackOK, GuardsOK, NEW g, TopStep(g)
  PROVE  Guards' = Guards /\ Guards \subseteq executed /\ Real \subseteq Real'
<1>1. DOMAIN calls' = DOMAIN calls /\ \A j \in DOMAIN calls : calls'[j].guard = calls[j].guard
  BY TopCalls
<1>2. {calls'[j].guard : j \in DOMAIN calls'} = {calls[j].guard : j \in DOMAIN calls}
  BY <1>1
<1>3. Guards' = Guards
  BY <1>2 DEF Guards
<1>4. Guards \subseteq executed
  BY DEF Guards, GuardsOK
<1>5. executed \subseteq executed'
  BY DEF TopStep
<1>6. QED
  BY <1>3, <1>4, <1>5 DEF Real

\* What is in the window of a call is no module of a guard below it.
LEMMA WindowFacts ==
  ASSUME StackOK, FormsOK, NEW j \in 1..Len(calls), Started(calls[j]), NEW x \in DOMAIN forms, Within(calls[j], x)
  PROVE  /\ x - calls[j].base \in 1..Len(calls[j].new) /\ forms[x] = calls[j].new[x - calls[j].base]
         /\ forms[x].name \in NamesOf(calls[j].new)
<1>1. /\ DOMAIN calls = 1..Len(calls) /\ FrameOK(calls[j])
  BY FrameFacts
<1>2. calls[j].base \in Nat /\ IsSeq(calls[j].new)
  BY <1>1 DEF FrameOK
<1>3. Len(calls[j].new) \in Nat /\ DOMAIN calls[j].new = 1..Len(calls[j].new)
  BY <1>2, SeqShape
<1>4. x \in Int
  BY SeqShape DEF FormsOK
<1>5. x - calls[j].base \in 1..Len(calls[j].new) /\ calls[j].base + (x - calls[j].base) = x
  BY <1>2, <1>3, <1>4 DEF Within
<1>6. \A i \in 1..Len(calls[j].new) : forms[calls[j].base + i] = calls[j].new[i]
  BY <1>1 DEF FormsOK
<1>7. forms[x] = calls[j].new[x - calls[j].base]
  BY <1>5, <1>6
<1>8. QED
  BY <1>3, <1>5, <1>7 DEF NamesOf

LEMMA WindowUnguarded ==
  ASSUME StackOK, FormsOK, GuardsOK, calls # <<>>, Started(Top), NEW x \in DOMAIN forms, Within(Top, x)
  PROVE  forms[x].name \notin Guards
<1> DEFINE n == Len(calls)
<1>1. n \in 1..n /\ DOMAIN calls = 1..n /\ n \in Nat
  BY FrameFacts
<1>2. Started(calls[n]) /\ Within(calls[n], x)
  BY DEF Top
<1>3. forms[x].name \in NamesOf(calls[n].new)
  BY <1>1, <1>2, WindowFacts
<1>4. \A k \in 1..n : k <= n => NamesOf(calls[n].new) \cap calls[k].guard = {}
  <2> HIDE DEF n
  <2>1. QED
    BY <1>1, <1>2 DEF GuardsOK
<1>5. \A k \in 1..n : forms[x].name \notin calls[k].guard
  <2> HIDE DEF n
  <2>1. QED
    BY <1>1, <1>3, <1>4
<1>6. QED
  <2> HIDE DEF n
  <2>1. QED
    BY <1>1, <1>5 DEF Guards

LEMMA TopCovered ==
  ASSUME StackOK, FormsOK, Covered, GuardsOK, NEW g, TopStep(g) PROVE Covered'
<1> DEFINE n == Len(calls)
<1>1. /\ n \in 1..n /\ DOMAIN calls = 1..n /\ DOMAIN calls' = 1..n /\ calls'[n] = g /\ Top = calls[n]
      /\ \A i \in 1..n : i # n => calls'[i] = calls[i]
  BY TopCalls
<1>2. /\ forms' = forms /\ calls # <<>> /\ g.kind = Top.kind /\ g.base = Top.base /\ g.new = Top.new
      /\ (g.pc = "load" <=> Top.pc = "load")
      /\ (Started(g) => NamesOf(Top.sem) \ NamesOf(g.sem) \subseteq executed')
  BY DEF TopStep
<1>3. Guards' = Guards /\ Real \subseteq Real' /\ Real' = executed' \ Guards'
  BY TopReal DEF Real
<1> HIDE DEF n
<1>4. ASSUME NEW x \in DOMAIN forms, NEW j \in 1..n, CoveredBy(j, x), forms[x].name \notin Real'
      PROVE  CoveredBy(j, x)'
  <2>1. CASE j # n
    BY <1>1, <1>2, <1>4, <2>1 DEF CoveredBy
  <2>2. CASE j = n
    <3>1. Started(Top) /\ Within(Top, x) /\ forms[x].name \in NamesOf(Top.sem)
      BY <1>1, <1>4, <2>2 DEF CoveredBy
    <3>2. Started(g) /\ Within(g, x)
      BY <1>2, <3>1 DEF Started, Within
    <3>3. forms[x].name \notin Guards
      BY <1>2, <3>1, WindowUnguarded
    <3>4. forms[x].name \in NamesOf(g.sem)
      BY <1>2, <1>3, <1>4, <3>1, <3>2, <3>3
    <3>5. QED
      BY <1>1, <1>2, <2>2, <3>2, <3>4 DEF CoveredBy
  <2>3. QED
    BY <2>1, <2>2
<1>5. QED
  BY <1>1, <1>2, <1>3, <1>4 DEF Covered

LEMMA TopGuardsOK ==
  ASSUME StackOK, GuardsOK, NEW g, TopStep(g) PROVE GuardsOK'
<1>1. /\ DOMAIN calls' = DOMAIN calls
      /\ \A i \in DOMAIN calls : /\ calls'[i].kind = calls[i].kind /\ calls'[i].new = calls[i].new
                                 /\ calls'[i].guard = calls[i].guard /\ calls'[i].base = calls[i].base
                                 /\ calls'[i].pc = "load" <=> calls[i].pc = "load"
  BY TopCalls
<1>2. forms' = forms /\ executed \subseteq executed'
  BY DEF TopStep
<1>3. \A i \in DOMAIN calls : Started(calls'[i]) <=> Started(calls[i])
  BY <1>1 DEF Started
<1>4. \A j \in DOMAIN calls' : calls'[j].guard \subseteq executed'
  BY <1>1, <1>2 DEF GuardsOK
<1>5. \A i, j \in DOMAIN calls' : i # j => calls'[i].guard \cap calls'[j].guard = {}
  BY <1>1 DEF GuardsOK
<1>6. \A j \in DOMAIN calls' : \A m \in calls'[j].guard :
        \E y \in DOMAIN forms' : forms'[y].name = m /\ (calls'[j].pc # "load" => y <= calls'[j].base)
  BY <1>1, <1>2 DEF GuardsOK
<1>7. \A j, k \in DOMAIN calls' : Started(calls'[j]) /\ k <= j => NamesOf(calls'[j].new) \cap calls'[k].guard = {}
  BY <1>1, <1>3 DEF GuardsOK
<1>8. QED
  BY <1>4, <1>5, <1>6, <1>7 DEF GuardsOK

LEMMA TopKeys ==
  ASSUME StackOK, NEW g, TopStep(g), NEW via PROVE KeysVia(via)' = KeysVia(via)
<1>1. /\ DOMAIN calls' = DOMAIN calls
      /\ \A i \in DOMAIN calls : calls'[i].via = calls[i].via /\ calls'[i].key = calls[i].key
  BY TopCalls
<1>2. QED
  BY <1>1 DEF KeysVia

LEMMA TopLoadsOK ==
  ASSUME StackOK, LoadsOK, NEW g, TopStep(g) PROVE LoadsOK'
<1>1. /\ DOMAIN calls' = DOMAIN calls
      /\ \A i \in DOMAIN calls : calls'[i].via = calls[i].via /\ calls'[i].key = calls[i].key
  BY TopCalls
<1>2. loading' = loading /\ indexed' = indexed
  BY DEF TopStep
<1>3. KeysVia("auto")' = KeysVia("auto") /\ KeysVia("hydrate")' = KeysVia("hydrate")
  BY TopKeys
<1>4. \A i, j \in DOMAIN calls' : i # j /\ calls'[i].via = calls'[j].via /\ calls'[i].via \in {"auto", "hydrate"}
        => calls'[i].key # calls'[j].key
  BY <1>1 DEF LoadsOK
<1>5. QED
  BY <1>2, <1>3, <1>4 DEF LoadsOK

LEMMA TopIndexOK ==
  ASSUME StackOK, GuardsOK, IndexOK, NEW g, TopStep(g) PROVE IndexOK'
<1>1. /\ DOMAIN calls' = DOMAIN calls
      /\ \A i \in DOMAIN calls : /\ calls'[i].kind = calls[i].kind /\ calls'[i].base = calls[i].base
                                 /\ calls'[i].pc = "load" <=> calls[i].pc = "load"
  BY TopCalls
<1>2. /\ forms' = forms /\ reserved' = reserved /\ indexed' = indexed /\ spent' = spent
      /\ executed' \ executed \subseteq DOMAIN home' /\ DOMAIN home \subseteq DOMAIN home'
  BY DEF TopStep
<1>3. KeysVia("hydrate")' = KeysVia("hydrate") /\ Guards' = Guards
  BY TopKeys, TopReal
<1>4. \A i \in DOMAIN calls : Started(calls'[i]) <=> Started(calls[i])
  BY <1>1 DEF Started
<1>5. ASSUME NEW m, Placed(m) PROVE Placed(m)'
  BY <1>1, <1>2, <1>4, <1>5 DEF Placed
<1>6. executed' \subseteq DOMAIN home' \cup Guards' \cup UNION {reserved'[m] : m \in DOMAIN reserved'}
  BY <1>2, <1>3 DEF IndexOK
<1>7. QED
  BY <1>2, <1>3, <1>5, <1>6 DEF IndexOK

LEMMA TopHeadsOK ==
  ASSUME StackOK, GuardsOK, HeadsOK, NEW g, TopStep(g) PROVE HeadsOK'
<1> DEFINE n == Len(calls)
<1>1. /\ n \in Nat /\ n \in 1..n /\ DOMAIN calls = 1..n /\ DOMAIN calls' = 1..n /\ Len(calls') = n
      /\ calls'[n] = g /\ \A i \in 1..n : i # n => calls'[i] = calls[i]
      /\ \A i \in 1..n : calls'[i].guard = calls[i].guard
  BY TopCalls
<1>2. /\ g.kind = "source" /\ g.pc \in {"init", "defined"} => HeadName(g) \notin executed'
      /\ g.kind = "source" /\ g.pc = "main" => HeadName(g) \in executed' \ Guards
  BY DEF TopStep
<1>3. Guards' = Guards /\ Real \subseteq Real' /\ Real' = executed' \ Guards'
  BY TopReal DEF Real
<1>4. \A j \in 1..n : calls[j].kind = "source" =>
         /\ calls[j].pc \in {"init", "defined"} => IF j = n THEN HeadName(calls[j]) \notin executed
                                                   ELSE HeadName(calls[j]) \in calls[j + 1].guard
         /\ calls[j].pc = "main" => HeadName(calls[j]) \in Real
  BY <1>1 DEF HeadsOK
<1> HIDE DEF n
<1>5. ASSUME NEW j \in 1..n, calls'[j].kind = "source", calls'[j].pc \in {"init", "defined"}
      PROVE  IF j = n THEN HeadName(calls'[j]) \notin executed' ELSE HeadName(calls'[j]) \in calls'[j + 1].guard
  <2>1. CASE j = n
    BY <1>1, <1>2, <1>5, <2>1
  <2>2. CASE j # n
    <3>1. j + 1 \in 1..n /\ calls'[j] = calls[j]
      BY <1>1, <2>2
    <3>2. HeadName(calls[j]) \in calls[j + 1].guard
      BY <1>4, <1>5, <2>2, <3>1
    <3>3. QED
      BY <1>1, <2>2, <3>1, <3>2
  <2>3. QED
    BY <2>1, <2>2
<1>6. ASSUME NEW j \in 1..n, calls'[j].kind = "source", calls'[j].pc = "main"
      PROVE  HeadName(calls'[j]) \in Real'
  <2>1. CASE j = n
    BY <1>1, <1>2, <1>3, <1>6, <2>1
  <2>2. CASE j # n
    BY <1>1, <1>3, <1>4, <1>6, <2>2
  <2>3. QED
    BY <2>1, <2>2
<1>7. QED
  BY <1>1, <1>5, <1>6 DEF HeadsOK, HeadName

LEMMA TopKeeps ==
  ASSUME Core, NEW g, TopStep(g) PROVE Core'
<1>1. StackOK /\ FormsOK /\ Covered /\ GuardsOK /\ LoadsOK /\ IndexOK /\ HeadsOK
  BY DEF Core
<1>2. StackOK' /\ FormsOK'
  BY <1>1, TopStackOK, TopFormsOK
<1>3. Covered' /\ GuardsOK'
  BY <1>1, TopCovered, TopGuardsOK
<1>4. LoadsOK' /\ IndexOK' /\ HeadsOK'
  BY <1>1, TopLoadsOK, TopIndexOK, TopHeadsOK
<1>5. QED
  BY <1>2, <1>3, <1>4 DEF Core

-----------------------------------------------------------------------------
(* A call starts, with modules to pass over if it is an eval.              *)

\* What a call has before it has loaded anything; one for a file has that file's
\* imports to load, and is for the import its caller looks at.
Fresh(f) ==
  /\ \A i \in DOMAIN f.new : Fine(f.new[i])
  /\ ~Keyed(f) => f.key = NoKey
  /\ Keyed(f) => /\ calls # <<>> /\ Top.todo # <<>> /\ f.key = Head(Top.todo)
                 /\ IsSeq(f.todo) /\ ToSet(f.todo) = ImportsOf(Disk[f.key].form)
  /\ f.kind = "etac" => f.key \notin executed /\ Disk[f.key].artifact
  /\ f.via = "required" => Top.kind = "etac"

PushStep(f) ==
  /\ compiled' = compiled /\ Fresh(f)
  /\ calls' = Append(calls, f) /\ FrameOK(f) /\ f.pc = "load" /\ f.via # "hydrate"
  /\ (calls = <<>> <=> f.via = "user")
  /\ f.via = "eval" => RunsProgram(Top)
  /\ f.via \notin {"user", "eval"} => Top.pc = "load" /\ Top.via # "eval"
  /\ forms' = forms /\ reserved' = reserved /\ indexed' = indexed /\ home' = home /\ spent' \in Counters
  /\ executed' = executed \cup f.guard /\ f.guard \cap executed = {} /\ f.guard \subseteq NamesOf(forms)
  /\ loading' = loading \cup (IF f.via = "auto" THEN {f.key} ELSE {}) /\ (f.via = "auto" => f.key \notin loading)
  /\ calls # <<>> /\ Top.kind = "source" /\ Top.pc \in {"init", "defined"} => HeadName(Top) \in f.guard

LEMMA PushCalls ==
  ASSUME StackOK, NEW f, calls' = Append(calls, f)
  PROVE  LET n == Len(calls)
         IN  /\ n \in Nat /\ DOMAIN calls = 1..n /\ DOMAIN calls' = 1..(n + 1) /\ IsSeq(calls') /\ Len(calls') = n + 1
             /\ calls'[n + 1] = f /\ \A i \in 1..n : calls'[i] = calls[i]
             /\ \A i \in 1..(n + 1) : (i \in 1..n /\ calls'[i] = calls[i]) \/ (i = n + 1 /\ calls'[i] = f)
<1> DEFINE n == Len(calls)
           t == calls'
           u == Append(calls, f)
<1>1. n \in Nat /\ DOMAIN calls = 1..n /\ IsSeq(calls)
  BY FrameFacts
<1>2. IsSeq(u) /\ Len(u) = n + 1 /\ u[n + 1] = f /\ \A i \in 1..n : u[i] = calls[i]
  BY <1>1, Appended
<1>3. t = u
  OBVIOUS
<1> HIDE DEF t, u, n
<1>4. IsSeq(t) /\ Len(t) = n + 1 /\ t[n + 1] = f /\ \A i \in 1..n : t[i] = calls[i]
  BY <1>2, <1>3
<1>5. DOMAIN t = 1..(n + 1)
  BY <1>4, SeqShape
<1>6. \A i \in 1..(n + 1) : i \in 1..n \/ i = n + 1
  BY <1>1
<1>7. \A i \in 1..(n + 1) : (i \in 1..n /\ t[i] = calls[i]) \/ (i = n + 1 /\ t[i] = f)
  <2>1. t[n + 1] = f /\ \A i \in 1..n : t[i] = calls[i]
    BY <1>4
  <2>2. ASSUME NEW i \in 1..(n + 1) PROVE (i \in 1..n /\ t[i] = calls[i]) \/ (i = n + 1 /\ t[i] = f)
    <3>1. CASE i \in 1..n
      BY <2>1, <3>1
    <3>2. CASE i = n + 1
      BY <1>1, <2>1, <3>2
    <3>3. QED
      BY <1>6, <3>1, <3>2
  <2>3. QED
    BY <2>2
<1>8. QED
  BY <1>1, <1>4, <1>5, <1>7 DEF n, t

LEMMA PushStackOK ==
  ASSUME StackOK, NEW f, calls' = Append(calls, f), FrameOK(f), calls = <<>> <=> f.via = "user",
         f.via = "eval" => RunsProgram(Top),
         f.via \notin {"user", "eval"} => Top.pc = "load" /\ Top.via # "eval"
  PROVE  StackOK'
<1> DEFINE n == Len(calls)
<1>1. /\ n \in Nat /\ DOMAIN calls = 1..n /\ DOMAIN calls' = 1..(n + 1) /\ IsSeq(calls')
      /\ calls'[n + 1] = f /\ \A i \in 1..n : calls'[i] = calls[i]
  BY PushCalls
<1>2. /\ \A i \in 1..n : FrameOK(calls[i])
      /\ \A i \in 1..n : i = 1 <=> calls[i].via = "user"
      /\ \A i, j \in 1..n : i < j /\ calls[j].via # "eval" => calls[i].pc = "load" /\ calls[i].via # "eval"
      /\ \A i, j \in 1..n : i + 1 = j /\ calls[j].via = "eval" => RunsProgram(calls[i])
  BY FrameFacts
<1>3. (n = 0 <=> f.via = "user") /\ Top = calls[n]
  BY SeqShape, EmptyIsSeq DEF Top, StackOK
<1> HIDE DEF n
<1>4. \A i \in 1..(n + 1) : FrameOK(calls'[i])
  BY <1>1, <1>2
<1>5. \A i \in 1..(n + 1) : i = 1 <=> calls'[i].via = "user"
  <2>1. calls'[n + 1].via = "user" <=> n + 1 = 1
    BY <1>1, <1>3
  <2>2. QED
    BY <1>1, <1>2, <2>1
<1>6. ASSUME NEW i \in 1..(n + 1), NEW j \in 1..(n + 1), i < j, calls'[j].via # "eval"
      PROVE  calls'[i].pc = "load" /\ calls'[i].via # "eval"
  <2>1. i \in 1..n /\ calls'[i] = calls[i]
    BY <1>1, <1>6
  <2>2. CASE j = n + 1
    <3>1. calls[n].pc = "load" /\ calls[n].via # "eval"
      BY <1>1, <1>3, <1>6, <2>1, <2>2
    <3>2. i = n \/ i < n
      BY <1>1, <2>1
    <3>3. n \in 1..n
      BY <1>1, <2>1
    <3>4. QED
      BY <1>2, <2>1, <3>1, <3>2, <3>3
  <2>3. CASE j # n + 1
    <3>1. j \in 1..n
      BY <1>1, <2>3
    <3>2. QED
      BY <1>1, <1>2, <1>6, <2>1, <3>1
  <2>4. QED
    BY <2>2, <2>3
<1>7. ASSUME NEW i \in 1..(n + 1), NEW j \in 1..(n + 1), i + 1 = j, calls'[j].via = "eval"
      PROVE  RunsProgram(calls'[i])
  <2>1. i \in 1..n /\ calls'[i] = calls[i]
    BY <1>1, <1>7
  <2>2. CASE j = n + 1
    <3>1. i = n /\ f.via = "eval"
      BY <1>1, <1>7, <2>1, <2>2
    <3>2. QED
      BY <1>3, <2>1, <3>1
  <2>3. CASE j # n + 1
    <3>1. j \in 1..n
      BY <1>1, <2>3
    <3>2. QED
      BY <1>1, <1>2, <1>7, <2>1, <3>1
  <2>4. QED
    BY <2>2, <2>3
<1>8. QED
  BY <1>1, <1>4, <1>5, <1>6, <1>7 DEF StackOK

\* A call that has started nothing adds nothing to the parts that speak of started ones.
LEMMA PushFormsOK ==
  ASSUME StackOK, FormsOK, NEW f, calls' = Append(calls, f), f.pc = "load", forms' = forms PROVE FormsOK'
<1> DEFINE n == Len(calls)
<1>1. /\ n \in Nat /\ DOMAIN calls = 1..n /\ DOMAIN calls' = 1..(n + 1)
      /\ calls'[n + 1] = f /\ \A i \in 1..n : calls'[i] = calls[i]
  BY PushCalls
<1> HIDE DEF n
<1>2. \A j \in 1..(n + 1) : Started(calls'[j]) => j \in 1..n /\ calls'[j] = calls[j]
  BY <1>1 DEF Started
<1>3. QED
  BY <1>1, <1>2 DEF FormsOK

LEMMA PushGuards ==
  ASSUME StackOK, NEW f, calls' = Append(calls, f) PROVE Guards' = Guards \cup f.guard
<1> DEFINE n == Len(calls)
<1>1. /\ n \in Nat /\ DOMAIN calls = 1..n /\ DOMAIN calls' = 1..(n + 1)
      /\ calls'[n + 1] = f /\ \A i \in 1..n : calls'[i] = calls[i]
  BY PushCalls
<1> HIDE DEF n
<1>2. 1..(n + 1) = (1..n) \cup {n + 1}
  BY <1>1
<1>3. \A x : x \in Guards' <=> \E i \in 1..(n + 1) : x \in calls'[i].guard
  BY <1>1 DEF Guards
<1>4. \A x : x \in Guards <=> \E i \in 1..n : x \in calls[i].guard
  BY <1>1 DEF Guards
<1>5. QED
  BY <1>1, <1>2, <1>3, <1>4

LEMMA PushCovered ==
  ASSUME StackOK, FormsOK, Covered, GuardsOK, NEW f, PushStep(f) PROVE Covered' /\ Real' = Real
<1> DEFINE n == Len(calls)
<1>1. calls' = Append(calls, f) /\ forms' = forms /\ executed' = executed \cup f.guard /\ f.guard \cap executed = {}
  BY DEF PushStep
<1>2. /\ n \in Nat /\ DOMAIN calls = 1..n /\ DOMAIN calls' = 1..(n + 1)
      /\ calls'[n + 1] = f /\ \A i \in 1..n : calls'[i] = calls[i]
  BY <1>1, PushCalls
<1>3. Guards' = Guards \cup f.guard /\ Guards \subseteq executed
  BY <1>1, PushGuards DEF Guards, GuardsOK
<1>4. Real' = Real
  BY <1>1, <1>3 DEF Real
<1> HIDE DEF n
<1>5. \A j \in 1..n : j \in 1..(n + 1) /\ calls'[j] = calls[j]
  BY <1>2
<1>6. QED
  BY <1>1, <1>2, <1>4, <1>5 DEF Covered, CoveredBy

LEMMA PushGuardsOK ==
  ASSUME StackOK, GuardsOK, NEW f, PushStep(f) PROVE GuardsOK'
<1> DEFINE n == Len(calls)
<1>4. \A j \in 1..(n + 1) : (j \in 1..n /\ calls'[j] = calls[j]) \/ (j = n + 1 /\ calls'[j] = f)
  BY PushCalls DEF PushStep
<1>1. /\ calls' = Append(calls, f) /\ forms' = forms /\ executed' = executed \cup f.guard
      /\ f.guard \cap executed = {} /\ f.guard \subseteq NamesOf(forms) /\ f.pc = "load"
  BY DEF PushStep
<1>2. /\ n \in Nat /\ DOMAIN calls = 1..n /\ DOMAIN calls' = 1..(n + 1)
      /\ calls'[n + 1] = f /\ \A i \in 1..n : calls'[i] = calls[i]
  BY <1>1, PushCalls
<1>3. /\ \A j \in 1..n : calls[j].guard \subseteq executed
      /\ \A i, j \in 1..n : i # j => calls[i].guard \cap calls[j].guard = {}
      /\ \A j \in 1..n : \A g \in calls[j].guard :
           \E y \in DOMAIN forms : forms[y].name = g /\ (calls[j].pc # "load" => y <= calls[j].base)
      /\ \A j, k \in 1..n : Started(calls[j]) /\ k <= j => NamesOf(calls[j].new) \cap calls[k].guard = {}
  BY <1>2 DEF GuardsOK
<1> HIDE DEF n
<1>5. \A j \in 1..(n + 1) : calls'[j].guard \subseteq executed'
  BY <1>1, <1>3, <1>4
<1>6. \A i, j \in 1..(n + 1) : i # j => calls'[i].guard \cap calls'[j].guard = {}
  <2>1. ASSUME NEW i \in 1..(n + 1), NEW j \in 1..(n + 1), i # j PROVE calls'[i].guard \cap calls'[j].guard = {}
    <3>1. CASE i \in 1..n /\ j \in 1..n
      BY <1>2, <1>3, <2>1, <3>1
    <3>2. CASE i = n + 1
      BY <1>1, <1>3, <1>4, <2>1, <3>2
    <3>3. CASE j = n + 1
      BY <1>1, <1>3, <1>4, <2>1, <3>3
    <3>4. QED
      BY <1>4, <3>1, <3>2, <3>3
  <2>2. QED
    BY <2>1
<1>7. ASSUME NEW j \in 1..(n + 1), NEW g \in calls'[j].guard
      PROVE  \E y \in DOMAIN forms : forms[y].name = g /\ (calls'[j].pc # "load" => y <= calls'[j].base)
  <2>1. CASE j \in 1..n /\ calls'[j] = calls[j]
    BY <1>3, <2>1
  <2>2. CASE calls'[j] = f
    <3>1. g \in NamesOf(forms) /\ calls'[j].pc = "load"
      BY <1>1, <2>2
    <3>2. QED
      BY <3>1 DEF NamesOf
  <2>3. QED
    BY <1>4, <2>1, <2>2
<1>8. ASSUME NEW j \in 1..(n + 1), NEW k \in 1..(n + 1), Started(calls'[j]), k <= j
      PROVE  NamesOf(calls'[j].new) \cap calls'[k].guard = {}
  <2>1. j \in 1..n /\ calls'[j] = calls[j]
    BY <1>1, <1>4, <1>8 DEF Started
  <2>2. k \in 1..n /\ calls'[k] = calls[k]
    BY <1>2, <1>8, <2>1
  <2>3. QED
    BY <1>3, <1>8, <2>1, <2>2
<1>9. QED
  BY <1>1, <1>2, <1>5, <1>6, <1>7, <1>8 DEF GuardsOK

LEMMA PushKeys ==
  ASSUME StackOK, NEW f, calls' = Append(calls, f), NEW via
  PROVE  KeysVia(via)' = KeysVia(via) \cup (IF f.via = via THEN {f.key} ELSE {})
<1> DEFINE n == Len(calls)
<1>1. /\ n \in Nat /\ DOMAIN calls = 1..n /\ DOMAIN calls' = 1..(n + 1)
      /\ calls'[n + 1] = f /\ \A i \in 1..n : calls'[i] = calls[i]
      /\ \A i \in 1..(n + 1) : (i \in 1..n /\ calls'[i] = calls[i]) \/ (i = n + 1 /\ calls'[i] = f)
  BY PushCalls
<1> HIDE DEF n
<1>2. ASSUME NEW x, x \in KeysVia(via)' PROVE x \in KeysVia(via) \cup (IF f.via = via THEN {f.key} ELSE {})
  <2>1. PICK i \in 1..(n + 1) : calls'[i].via = via /\ x = calls'[i].key
    BY <1>1, <1>2 DEF KeysVia
  <2>2. CASE i \in 1..n /\ calls'[i] = calls[i]
    BY <1>1, <2>1, <2>2 DEF KeysVia
  <2>3. CASE calls'[i] = f
    BY <2>1, <2>3
  <2>4. QED
    BY <1>1, <2>2, <2>3
<1>3. ASSUME NEW x \in KeysVia(via) PROVE x \in KeysVia(via)'
  <2>1. PICK i \in 1..n : calls[i].via = via /\ x = calls[i].key
    BY <1>1 DEF KeysVia
  <2>2. i \in 1..(n + 1) /\ calls'[i] = calls[i]
    BY <1>1
  <2>3. QED
    BY <1>1, <2>1, <2>2 DEF KeysVia
<1>4. f.via = via => f.key \in KeysVia(via)'
  <2>1. n + 1 \in 1..(n + 1)
    BY <1>1
  <2>2. QED
    BY <1>1, <2>1 DEF KeysVia
<1>5. QED
  BY <1>2, <1>3, <1>4

LEMMA PushDistinct ==
  ASSUME StackOK, LoadsOK, NEW f, calls' = Append(calls, f),
         f.via \in {"auto", "hydrate"} => f.key \notin KeysVia(f.via)
  PROVE  \A i, j \in DOMAIN calls' : i # j /\ calls'[i].via = calls'[j].via /\ calls'[i].via \in {"auto", "hydrate"}
           => calls'[i].key # calls'[j].key
<1> DEFINE n == Len(calls)
<1>1. /\ n \in Nat /\ DOMAIN calls = 1..n /\ DOMAIN calls' = 1..(n + 1)
      /\ calls'[n + 1] = f /\ \A i \in 1..n : calls'[i] = calls[i]
  BY PushCalls
<1>2. \A j \in 1..(n + 1) : (j \in 1..n /\ calls'[j] = calls[j]) \/ (j = n + 1 /\ calls'[j] = f)
  BY PushCalls
<1> HIDE DEF n
<1>3. \A i \in 1..n : calls[i].key \in KeysVia(calls[i].via)
  BY <1>1 DEF KeysVia
<1>4. \A i, j \in 1..n : i # j /\ calls[i].via = calls[j].via /\ calls[i].via \in {"auto", "hydrate"}
        => calls[i].key # calls[j].key
  BY <1>1 DEF LoadsOK
<1>5. ASSUME NEW i \in 1..(n + 1), NEW j \in 1..(n + 1), i # j, calls'[i].via = calls'[j].via,
             calls'[i].via \in {"auto", "hydrate"}
      PROVE  calls'[i].key # calls'[j].key
  <2>1. CASE i \in 1..n /\ j \in 1..n
    BY <1>1, <1>4, <1>5, <2>1
  <2>2. CASE i = n + 1 /\ j \in 1..n
    BY <1>1, <1>3, <1>5, <2>2
  <2>3. CASE j = n + 1 /\ i \in 1..n
    BY <1>1, <1>3, <1>5, <2>3
  <2>4. QED
    BY <1>2, <1>5, <2>1, <2>2, <2>3
<1>6. QED
  BY <1>1, <1>5

LEMMA PushLoadsOK ==
  ASSUME StackOK, LoadsOK, NEW f, PushStep(f) PROVE LoadsOK'
<1>1. /\ calls' = Append(calls, f) /\ f.via # "hydrate" /\ indexed' = indexed
      /\ loading' = loading \cup (IF f.via = "auto" THEN {f.key} ELSE {}) /\ (f.via = "auto" => f.key \notin loading)
  BY DEF PushStep
<1>2. loading = KeysVia("auto") /\ KeysVia("hydrate") \subseteq indexed
  BY DEF LoadsOK
<1>3. /\ KeysVia("auto")' = KeysVia("auto") \cup (IF f.via = "auto" THEN {f.key} ELSE {})
      /\ KeysVia("hydrate")' = KeysVia("hydrate") \cup (IF f.via = "hydrate" THEN {f.key} ELSE {})
  BY <1>1, PushKeys
<1>4. f.via \in {"auto", "hydrate"} => f.key \notin KeysVia(f.via)
  BY <1>1, <1>2
<1>5. \A i, j \in DOMAIN calls' : i # j /\ calls'[i].via = calls'[j].via /\ calls'[i].via \in {"auto", "hydrate"}
        => calls'[i].key # calls'[j].key
  BY <1>1, <1>4, PushDistinct
<1>6. QED
  BY <1>1, <1>2, <1>3, <1>5 DEF LoadsOK

LEMMA PushPlaced ==
  ASSUME StackOK, NEW f, calls' = Append(calls, f), f.pc = "load", forms' = forms, NEW m, Placed(m) PROVE Placed(m)'
<1> DEFINE n == Len(calls)
<1>1. /\ n \in Nat /\ DOMAIN calls = 1..n /\ DOMAIN calls' = 1..(n + 1)
      /\ calls'[n + 1] = f /\ \A i \in 1..n : calls'[i] = calls[i]
  BY PushCalls
<1> HIDE DEF n
<1>2. \A j \in 1..(n + 1) : Started(calls'[j]) => j \in 1..n /\ calls'[j] = calls[j]
  BY <1>1 DEF Started
<1>3. QED
  BY <1>1, <1>2 DEF Placed

LEMMA PushIndexOK ==
  ASSUME StackOK, IndexOK, NEW f, PushStep(f) PROVE IndexOK'
<1>1. /\ calls' = Append(calls, f) /\ f.pc = "load" /\ forms' = forms /\ reserved' = reserved /\ indexed' = indexed
      /\ home' = home /\ spent' \in Counters /\ executed' = executed \cup f.guard
  BY DEF PushStep
<1>2. Guards' = Guards \cup f.guard /\ KeysVia("hydrate") \subseteq KeysVia("hydrate")'
  BY <1>1, PushGuards, PushKeys
<1>3. \A m : Placed(m) => Placed(m)'
  BY <1>1, PushPlaced
<1>4. \A m \in indexed : m \in KeysVia("hydrate") \/ Placed(m)
  BY DEF IndexOK
<1>5. \A m \in indexed' : m \in KeysVia("hydrate")' \/ Placed(m)'
  BY <1>1, <1>2, <1>3, <1>4
<1>6. executed' \subseteq DOMAIN home' \cup Guards' \cup UNION {reserved'[m] : m \in DOMAIN reserved'}
  BY <1>1, <1>2 DEF IndexOK
<1>7. QED
  BY <1>1, <1>5, <1>6 DEF IndexOK

LEMMA PushHeadsOK ==
  ASSUME StackOK, FormsOK, Covered, GuardsOK, HeadsOK, NEW f, PushStep(f) PROVE HeadsOK'
<1> DEFINE n == Len(calls)
<1>1. /\ calls' = Append(calls, f) /\ f.pc = "load"
      /\ (calls # <<>> /\ Top.kind = "source" /\ Top.pc \in {"init", "defined"} => HeadName(Top) \in f.guard)
  BY DEF PushStep
<1>2. /\ n \in Nat /\ DOMAIN calls = 1..n /\ DOMAIN calls' = 1..(n + 1) /\ Len(calls') = n + 1
      /\ calls'[n + 1] = f /\ \A i \in 1..n : calls'[i] = calls[i]
  BY <1>1, PushCalls
<1>3. Real' = Real /\ Top = calls[n] /\ (n # 0 => calls # <<>>)
  BY PushCovered, EmptyIsSeq DEF Top
<1>4. \A j \in 1..n : calls[j].kind = "source" =>
         /\ calls[j].pc \in {"init", "defined"} => IF j = n THEN HeadName(calls[j]) \notin executed
                                                   ELSE HeadName(calls[j]) \in calls[j + 1].guard
         /\ calls[j].pc = "main" => HeadName(calls[j]) \in Real
  BY <1>2 DEF HeadsOK
<1> HIDE DEF n
<1>5. ASSUME NEW j \in 1..(n + 1), calls'[j].kind = "source", calls'[j].pc \in {"init", "defined"}
      PROVE  j # n + 1 /\ HeadName(calls'[j]) \in calls'[j + 1].guard
  <2>1. j # n + 1
    BY <1>1, <1>2, <1>5
  <2>2. j \in 1..n /\ calls'[j] = calls[j]
    BY <1>2, <2>1
  <2>3. CASE j = n
    BY <1>1, <1>2, <1>3, <1>5, <2>2, <2>3
  <2>4. CASE j # n
    <3>1. j + 1 \in 1..n /\ calls'[j + 1] = calls[j + 1]
      BY <1>2, <2>2, <2>4
    <3>2. HeadName(calls[j]) \in calls[j + 1].guard
      BY <1>4, <1>5, <2>2, <2>4
    <3>3. QED
      BY <2>1, <2>2, <3>1, <3>2
  <2>5. QED
    BY <2>3, <2>4
<1>6. ASSUME NEW j \in 1..(n + 1), calls'[j].kind = "source", calls'[j].pc = "main"
      PROVE  HeadName(calls'[j]) \in Real'
  <2>1. j # n + 1
    BY <1>1, <1>2, <1>6
  <2>2. j \in 1..n /\ calls'[j] = calls[j]
    BY <1>2, <2>1
  <2>3. QED
    BY <1>3, <1>4, <1>6, <2>2
<1>7. QED
  BY <1>2, <1>5, <1>6 DEF HeadsOK, HeadName

LEMMA PushKeeps ==
  ASSUME Core, NEW f, PushStep(f) PROVE Core'
<1>1. StackOK /\ FormsOK /\ Covered /\ GuardsOK /\ LoadsOK /\ IndexOK /\ HeadsOK
  BY DEF Core
<1>2. StackOK'
  <2>1. /\ calls' = Append(calls, f) /\ FrameOK(f) /\ (calls = <<>> <=> f.via = "user")
        /\ (f.via = "eval" => RunsProgram(Top))
        /\ (f.via \notin {"user", "eval"} => Top.pc = "load" /\ Top.via # "eval")
    BY DEF PushStep
  <2>2. QED
    BY <1>1, <2>1, PushStackOK
<1>3. FormsOK'
  <2>1. calls' = Append(calls, f) /\ f.pc = "load" /\ forms' = forms
    BY DEF PushStep
  <2>2. QED
    BY <1>1, <2>1, PushFormsOK
<1>4. Covered' /\ GuardsOK'
  BY <1>1, PushCovered, PushGuardsOK
<1>5. LoadsOK' /\ IndexOK' /\ HeadsOK'
  BY <1>1, PushLoadsOK, PushIndexOK, PushHeadsOK
<1>6. QED
  BY <1>2, <1>3, <1>4, <1>5 DEF Core

-----------------------------------------------------------------------------
(* A call ends, and with it those it waits for: calls k and above.         *)

\* An artifact with nothing left to run.
Finished(f) == f.kind = "etac" /\ f.pc # "load" /\ Pending(f.sem) = {}

PopStep(k, b) ==
  /\ b = Len(forms) \/ \E j \in DOMAIN calls : Started(calls[j]) /\ b = calls[j].base
  /\ DOMAIN compiled' \subseteq DOMAIN compiled \cup {calls[j].key : j \in {i \in DOMAIN calls : Finished(calls[i])}}
  /\ k \in DOMAIN calls /\ calls' = SubSeq(calls, 1, k - 1) /\ b \in 0 .. Len(forms)
  /\ forms' = SubSeq(forms, 1, b) /\ reserved' = reserved /\ home' = home /\ spent' \in Counters
  /\ executed' = executed \ calls[k].guard /\ \A j \in DOMAIN calls : k < j => calls[j].guard = {}
  /\ loading' = loading \ {calls[j].key : j \in {i \in DOMAIN calls : k <= i /\ calls[i].via = "auto"}}
  /\ indexed' \subseteq indexed /\ \A j \in DOMAIN calls : j < k /\ calls[j].via = "hydrate" => calls[j].key \in indexed'
  /\ \A x \in 1 .. b : forms[x].name \in Real \/ \E j \in DOMAIN calls : j < k /\ CoveredBy(j, x)
  /\ \A j \in DOMAIN calls : j < k /\ Started(calls[j]) => calls[j].base + Len(calls[j].new) <= b
  /\ \A m \in indexed' : \/ \E j \in DOMAIN calls : j < k /\ calls[j].via = "hydrate" /\ calls[j].key = m
                         \/ \E x \in 1 .. b : /\ forms[x].name = m
                                              /\ \A j \in DOMAIN calls : j < k /\ Started(calls[j]) => x <= calls[j].base

LEMMA PopCalls ==
  ASSUME StackOK, NEW k \in DOMAIN calls, calls' = SubSeq(calls, 1, k - 1)
  PROVE  LET n == Len(calls)
         IN  /\ n \in Nat /\ k \in 1..n /\ DOMAIN calls = 1..n /\ DOMAIN calls' = 1..(k - 1) /\ IsSeq(calls')
             /\ Len(calls') = k - 1 /\ \A i \in 1..(k - 1) : calls'[i] = calls[i]
             /\ \A i \in 1..(k - 1) : i \in 1..n /\ i < k
             /\ \A i \in 1..n : i < k => i \in 1..(k - 1)
<1> DEFINE n == Len(calls)
           t == calls'
           u == SubSeq(calls, 1, k - 1)
<1>1. n \in Nat /\ DOMAIN calls = 1..n /\ IsSeq(calls)
  BY FrameFacts
<1>2. k \in 1..n /\ k - 1 \in 0..n
  BY <1>1
<1>3. IsSeq(u) /\ Len(u) = k - 1 /\ \A i \in 1..(k - 1) : u[i] = calls[i]
  BY <1>1, <1>2, Cut
<1>4. t = u
  OBVIOUS
<1> HIDE DEF t, u, n
<1>5. IsSeq(t) /\ Len(t) = k - 1 /\ \A i \in 1..(k - 1) : t[i] = calls[i]
  BY <1>3, <1>4
<1>6. DOMAIN t = 1..(k - 1)
  BY <1>5, SeqShape
<1>7. (\A i \in 1..(k - 1) : i \in 1..n /\ i < k) /\ \A i \in 1..n : i < k => i \in 1..(k - 1)
  BY <1>1, <1>2
<1>8. QED
  BY <1>1, <1>2, <1>5, <1>6, <1>7 DEF n, t

LEMMA PopForms ==
  ASSUME FormsOK, NEW b \in 0..Len(forms), forms' = SubSeq(forms, 1, b)
  PROVE  /\ IsSeq(forms') /\ Len(forms') = b /\ DOMAIN forms' = 1..b /\ Len(forms) \in Nat
         /\ 1..b \subseteq DOMAIN forms /\ \A x \in 1..b : forms'[x] = forms[x]
<1> DEFINE t == forms'
           u == SubSeq(forms, 1, b)
<1>1. IsSeq(forms) /\ Len(forms) \in Nat /\ DOMAIN forms = 1..Len(forms)
  BY SeqShape DEF FormsOK
<1>2. IsSeq(u) /\ Len(u) = b /\ \A i \in 1..b : u[i] = forms[i]
  BY <1>1, Cut
<1>3. t = u
  OBVIOUS
<1> HIDE DEF t, u
<1>4. IsSeq(t) /\ Len(t) = b /\ \A i \in 1..b : t[i] = forms[i]
  BY <1>2, <1>3
<1>5. DOMAIN t = 1..b
  BY <1>4, SeqShape
<1>6. 1..b \subseteq DOMAIN forms
  BY <1>1
<1>7. QED
  BY <1>1, <1>4, <1>5, <1>6 DEF t

LEMMA PopStackOK ==
  ASSUME StackOK, NEW k \in DOMAIN calls, calls' = SubSeq(calls, 1, k - 1)
  PROVE  StackOK'
<1> DEFINE n == Len(calls)
<1>1. /\ DOMAIN calls' = 1..(k - 1) /\ IsSeq(calls') /\ \A i \in 1..(k - 1) : calls'[i] = calls[i]
      /\ \A i \in 1..(k - 1) : i \in 1..n
  BY PopCalls
<1>2. /\ \A i \in 1..n : FrameOK(calls[i])
      /\ \A i \in 1..n : i = 1 <=> calls[i].via = "user"
      /\ \A i, j \in 1..n : i < j /\ calls[j].via # "eval" => calls[i].pc = "load" /\ calls[i].via # "eval"
      /\ \A i, j \in 1..n : i + 1 = j /\ calls[j].via = "eval" => RunsProgram(calls[i])
  BY FrameFacts
<1> HIDE DEF n
<1>3. /\ \A i \in 1..(k - 1) : FrameOK(calls'[i])
      /\ \A i \in 1..(k - 1) : i = 1 <=> calls'[i].via = "user"
      /\ \A i, j \in 1..(k - 1) : i < j /\ calls'[j].via # "eval" => calls'[i].pc = "load" /\ calls'[i].via # "eval"
      /\ \A i, j \in 1..(k - 1) : i + 1 = j /\ calls'[j].via = "eval" => RunsProgram(calls'[i])
  BY <1>1, <1>2
<1>4. QED
  BY <1>1, <1>3 DEF StackOK

LEMMA PopFormsOK ==
  ASSUME StackOK, FormsOK, NEW k, NEW b, PopStep(k, b) PROVE FormsOK'
<1> DEFINE n == Len(calls)
<1>1. /\ k \in DOMAIN calls /\ calls' = SubSeq(calls, 1, k - 1) /\ b \in 0 .. Len(forms) /\ forms' = SubSeq(forms, 1, b)
      /\ \A j \in DOMAIN calls : j < k /\ Started(calls[j]) => calls[j].base + Len(calls[j].new) <= b
  BY DEF PopStep
<1>2. /\ DOMAIN calls = 1..n /\ DOMAIN calls' = 1..(k - 1) /\ \A i \in 1..(k - 1) : calls'[i] = calls[i]
      /\ \A i \in 1..(k - 1) : i \in 1..n /\ i < k
  BY <1>1, PopCalls
<1>3. IsSeq(forms') /\ Len(forms') = b /\ DOMAIN forms' = 1..b /\ 1..b \subseteq DOMAIN forms /\ \A x \in 1..b : forms'[x] = forms[x]
  BY <1>1, PopForms
<1>4. \A i \in 1..n : FrameOK(calls[i])
  BY FrameFacts
<1>5. Len(forms) \in Nat /\ DOMAIN forms = 1..Len(forms)
  BY SeqShape DEF FormsOK
<1> HIDE DEF n
<1>6. ASSUME NEW j \in 1..(k - 1), Started(calls[j])
      PROVE  /\ calls[j].base + Len(calls[j].new) <= b
             /\ \A i \in 1..Len(calls[j].new) : forms'[calls[j].base + i] = calls[j].new[i]
             /\ \A i \in DOMAIN calls[j].sem : \E x \in 1..b :
                  forms'[x].name = calls[j].sem[i].name /\ x <= calls[j].base + Len(calls[j].new)
  <2>1. /\ j \in 1..n /\ j < k
        /\ calls[j].base \in Nat /\ IsSeq(calls[j].new)
    BY <1>2, <1>4 DEF FrameOK
  <2>2. Len(calls[j].new) \in Nat
    BY <2>1, SeqShape
  <2>3. calls[j].base + Len(calls[j].new) <= b
    BY <1>1, <1>2, <1>6, <2>1
  <2>4. /\ \A i \in 1..Len(calls[j].new) : forms[calls[j].base + i] = calls[j].new[i]
        /\ \A i \in DOMAIN calls[j].sem : \E x \in DOMAIN forms :
             forms[x].name = calls[j].sem[i].name /\ x <= calls[j].base + Len(calls[j].new)
    BY <1>2, <1>6, <2>1 DEF FormsOK
  <2>5. b \in Nat
    BY <1>1, <1>5
  <2>6. ASSUME NEW i \in 1..Len(calls[j].new) PROVE forms'[calls[j].base + i] = calls[j].new[i]
    <3>1. calls[j].base + i \in 1..b
      BY <2>1, <2>2, <2>3, <2>5, SMTT(30)
    <3>2. QED
      BY <1>3, <2>4, <3>1
  <2>7. ASSUME NEW i \in DOMAIN calls[j].sem
        PROVE  \E x \in 1..b : forms'[x].name = calls[j].sem[i].name /\ x <= calls[j].base + Len(calls[j].new)
    <3>1. PICK x \in DOMAIN forms : forms[x].name = calls[j].sem[i].name /\ x <= calls[j].base + Len(calls[j].new)
      BY <2>4
    <3>2. x \in 1..b
      BY <1>5, <2>1, <2>2, <2>3, <2>5, <3>1
    <3>3. QED
      BY <1>3, <3>1, <3>2
  <2>8. QED
    BY <2>3, <2>6, <2>7
<1>7. ASSUME NEW i \in 1..(k - 1), NEW j \in 1..(k - 1), i < j, Started(calls[i]), Started(calls[j])
      PROVE  calls[i].base + Len(calls[i].new) <= calls[j].base
  BY <1>2, <1>7 DEF FormsOK
<1>8. QED
  BY SMTT(30), <1>2, <1>3, <1>6, <1>7 DEF FormsOK

LEMMA PopGuards ==
  ASSUME StackOK, GuardsOK, NEW k \in DOMAIN calls, calls' = SubSeq(calls, 1, k - 1),
         executed' = executed \ calls[k].guard, \A j \in DOMAIN calls : k < j => calls[j].guard = {}
  PROVE  Guards = Guards' \cup calls[k].guard /\ Guards' \cap calls[k].guard = {} /\ Real' = Real
<1> DEFINE n == Len(calls)
<1>1. /\ DOMAIN calls = 1..n /\ DOMAIN calls' = 1..(k - 1) /\ \A i \in 1..(k - 1) : calls'[i] = calls[i]
      /\ \A i \in 1..(k - 1) : i \in 1..n /\ i < k
      /\ \A i \in 1..n : i < k => i \in 1..(k - 1)
      /\ k \in 1..n /\ n \in Nat
  BY PopCalls
<1>2. \A i, j \in DOMAIN calls : i # j => calls[i].guard \cap calls[j].guard = {}
  BY DEF GuardsOK
<1> HIDE DEF n
<1>3. ASSUME NEW x, x \in Guards PROVE x \in Guards' \cup calls[k].guard
  <2>1. PICK j \in 1..n : x \in calls[j].guard
    BY <1>1, <1>3 DEF Guards
  <2>2. j < k \/ j = k \/ k < j
    BY <1>1
  <2>3. CASE j < k
    <3>1. j \in DOMAIN calls' /\ calls'[j] = calls[j]
      BY <1>1, <2>3
    <3>2. QED
      BY <2>1, <3>1 DEF Guards
  <2>4. CASE j = k
    BY <2>1, <2>4
  <2>5. CASE k < j
    BY <1>1, <2>1, <2>5
  <2>6. QED
    BY <2>2, <2>3, <2>4, <2>5
<1>4. ASSUME NEW x, x \in Guards' PROVE x \in Guards /\ x \notin calls[k].guard
  <2>1. PICK j \in 1..(k - 1) : x \in calls'[j].guard
    BY <1>1, <1>4 DEF Guards
  <2>2. x \in calls[j].guard /\ j \in DOMAIN calls /\ j # k
    BY <1>1, <2>1
  <2>3. QED
    BY <1>2, <2>2 DEF Guards
<1>5. calls[k].guard \subseteq Guards
  BY DEF Guards
<1>6. QED
  BY <1>3, <1>4, <1>5 DEF Real

LEMMA PopCovered ==
  ASSUME StackOK, FormsOK, GuardsOK, NEW k, NEW b, PopStep(k, b) PROVE Covered'
<1> DEFINE n == Len(calls)
<1>1. /\ k \in DOMAIN calls /\ calls' = SubSeq(calls, 1, k - 1) /\ b \in 0 .. Len(forms) /\ forms' = SubSeq(forms, 1, b)
      /\ executed' = executed \ calls[k].guard /\ \A j \in DOMAIN calls : k < j => calls[j].guard = {}
  BY DEF PopStep
<1>2. \A x \in 1 .. b : forms[x].name \in Real \/ \E j \in DOMAIN calls : j < k /\ CoveredBy(j, x)
  BY DEF PopStep
<1>3. /\ DOMAIN calls = 1..n /\ DOMAIN calls' = 1..(k - 1) /\ \A i \in 1..(k - 1) : calls'[i] = calls[i]
      /\ \A i \in 1..n : i < k => i \in 1..(k - 1)
  BY <1>1, PopCalls
<1>4. DOMAIN forms' = 1..b /\ \A x \in 1..b : forms'[x] = forms[x]
  BY <1>1, PopForms
<1>5. Real' = Real
  BY <1>1, PopGuards
<1> HIDE DEF n
<1>6. ASSUME NEW x \in 1..b, NEW j \in 1..n, j < k, CoveredBy(j, x) PROVE j \in 1..(k - 1) /\ CoveredBy(j, x)'
  <2>1. j \in 1..(k - 1) /\ calls'[j] = calls[j] /\ forms'[x] = forms[x]
    BY <1>3, <1>4, <1>6
  <2>2. QED
    BY <1>6, <2>1 DEF CoveredBy
<1>7. QED
  BY <1>2, <1>3, <1>4, <1>5, <1>6 DEF Covered

\* Below an eval everything runs, and what an eval passes over stays accumulated.
LEMMA GuardPlaces ==
  ASSUME StackOK, FormsOK, GuardsOK, NEW j \in DOMAIN calls, NEW k \in DOMAIN calls, j < k, NEW g \in calls[j].guard
  PROVE  /\ Started(calls[j])
         /\ \E y \in DOMAIN forms : forms[y].name = g /\ y <= calls[j].base
<1> DEFINE n == Len(calls)
<1>1. /\ n \in Nat /\ DOMAIN calls = 1..n /\ \A i \in 1..n : FrameOK(calls[i])
      /\ \A i, m \in 1..n : i < m /\ calls[m].via # "eval" => calls[i].pc = "load" /\ calls[i].via # "eval"
      /\ \A i, m \in 1..n : i + 1 = m /\ calls[m].via = "eval" => RunsProgram(calls[i])
  BY FrameFacts
<1> HIDE DEF n
<1>2. FrameOK(calls[j])
  BY <1>1
<1>3. calls[j].via = "eval" /\ calls[j].kind = "source"
  BY <1>2 DEF FrameOK
<1>4. j + 1 \in 1..n /\ j < j + 1
  BY <1>1
<1>5. calls[j + 1].via = "eval"
  BY <1>1, <1>3, <1>4
<1>6. RunsProgram(calls[j])
  BY <1>1, <1>4, <1>5
<1>7. Started(calls[j])
  BY <1>3, <1>6 DEF Started, RunsProgram
<1>8. QED
  BY <1>7 DEF GuardsOK, Started

LEMMA PopGuardsOK ==
  ASSUME StackOK, FormsOK, GuardsOK, NEW k, NEW b, PopStep(k, b) PROVE GuardsOK'
<1> DEFINE n == Len(calls)
<1>1. /\ k \in DOMAIN calls /\ calls' = SubSeq(calls, 1, k - 1) /\ b \in 0 .. Len(forms) /\ forms' = SubSeq(forms, 1, b)
      /\ executed' = executed \ calls[k].guard
      /\ \A j \in DOMAIN calls : j < k /\ Started(calls[j]) => calls[j].base + Len(calls[j].new) <= b
  BY DEF PopStep
<1>2. /\ n \in Nat /\ k \in 1..n /\ DOMAIN calls = 1..n /\ DOMAIN calls' = 1..(k - 1)
      /\ \A i \in 1..(k - 1) : calls'[i] = calls[i]
      /\ \A i \in 1..(k - 1) : i \in 1..n /\ i < k
  BY <1>1, PopCalls
<1>3. DOMAIN forms' = 1..b /\ \A x \in 1..b : forms'[x] = forms[x]
  BY <1>1, PopForms
<1>4. DOMAIN forms = 1..Len(forms) /\ Len(forms) \in Nat
  BY SeqShape DEF FormsOK
<1>5. \A i \in 1..n : FrameOK(calls[i])
  BY FrameFacts
<1>6. /\ \A j \in 1..n : calls[j].guard \subseteq executed
      /\ \A i, j \in 1..n : i # j => calls[i].guard \cap calls[j].guard = {}
      /\ \A i, j \in 1..n : Started(calls[i]) /\ j <= i => NamesOf(calls[i].new) \cap calls[j].guard = {}
  BY <1>2 DEF GuardsOK
<1> HIDE DEF n
<1>7. \A j \in 1..(k - 1) : j # k /\ j \in 1..n
  BY <1>2
<1>8. \A j \in 1..(k - 1) : calls'[j].guard \subseteq executed'
  BY <1>1, <1>2, <1>6, <1>7
<1>9. \A i, j \in 1..(k - 1) : i # j => calls'[i].guard \cap calls'[j].guard = {}
  BY <1>2, <1>6
<1>10. ASSUME NEW j \in 1..(k - 1), NEW g \in calls'[j].guard
       PROVE  \E y \in 1..b : forms'[y].name = g /\ (calls'[j].pc # "load" => y <= calls'[j].base)
  <2>1. j \in DOMAIN calls /\ j < k /\ g \in calls[j].guard /\ calls'[j] = calls[j]
    BY <1>2
  <2>2. Started(calls[j]) /\ \E y \in DOMAIN forms : forms[y].name = g /\ y <= calls[j].base
    BY <1>1, <2>1, GuardPlaces
  <2>3. PICK y \in DOMAIN forms : forms[y].name = g /\ y <= calls[j].base
    BY <2>2
  <2>4. calls[j].base + Len(calls[j].new) <= b
    BY <1>1, <2>1, <2>2
  <2>5. calls[j].base \in Nat /\ Len(calls[j].new) \in Nat
    BY <1>2, <1>5, SeqShape DEF FrameOK
  <2>6. y \in 1..b
    BY <1>1, <1>4, <2>3, <2>4, <2>5
  <2>7. QED
    BY <1>3, <2>1, <2>3, <2>6
<1>11. \A i, j \in 1..(k - 1) : Started(calls'[i]) /\ j <= i => NamesOf(calls'[i].new) \cap calls'[j].guard = {}
  BY <1>2, <1>6
<1>12. QED
  BY <1>2, <1>3, <1>8, <1>9, <1>10, <1>11 DEF GuardsOK

LEMMA PopLoadsOK ==
  ASSUME StackOK, LoadsOK, NEW k, NEW b, PopStep(k, b) PROVE LoadsOK'
<1> DEFINE n == Len(calls)
<1>1. /\ k \in DOMAIN calls /\ calls' = SubSeq(calls, 1, k - 1)
      /\ loading' = loading \ {calls[j].key : j \in {i \in DOMAIN calls : k <= i /\ calls[i].via = "auto"}}
      /\ \A j \in DOMAIN calls : j < k /\ calls[j].via = "hydrate" => calls[j].key \in indexed'
  BY DEF PopStep
<1>2. /\ DOMAIN calls = 1..n /\ DOMAIN calls' = 1..(k - 1) /\ \A i \in 1..(k - 1) : calls'[i] = calls[i]
      /\ \A i \in 1..(k - 1) : i \in 1..n /\ i < k
      /\ \A i \in 1..n : i < k => i \in 1..(k - 1)
      /\ k \in 1..n /\ n \in Nat
  BY <1>1, PopCalls
<1>3. loading = KeysVia("auto")
  BY DEF LoadsOK
<1>4. \A i, j \in 1..n : i # j /\ calls[i].via = calls[j].via /\ calls[i].via \in {"auto", "hydrate"}
        => calls[i].key # calls[j].key
  BY <1>2 DEF LoadsOK
<1> HIDE DEF n
<1>5. \A i, j \in 1..(k - 1) : i # j /\ calls'[i].via = calls'[j].via /\ calls'[i].via \in {"auto", "hydrate"}
        => calls'[i].key # calls'[j].key
  BY <1>2, <1>4
<1>6. KeysVia("hydrate")' \subseteq indexed'
  BY <1>1, <1>2 DEF KeysVia
<1>7. ASSUME NEW m, m \in loading' PROVE m \in KeysVia("auto")'
  <2>1. PICK j \in 1..n : calls[j].via = "auto" /\ m = calls[j].key
    BY <1>1, <1>2, <1>3, <1>7 DEF KeysVia
  <2>2. ~(k <= j)
    BY <1>1, <1>2, <1>7, <2>1
  <2>3. j < k
    BY <1>2, <2>2
  <2>4. j \in 1..(k - 1) /\ calls'[j] = calls[j]
    BY <1>2, <2>3
  <2>5. QED
    BY <1>2, <2>1, <2>4 DEF KeysVia
<1>8. ASSUME NEW m, m \in KeysVia("auto")' PROVE m \in loading'
  <2>1. PICK j \in 1..(k - 1) : calls'[j].via = "auto" /\ m = calls'[j].key
    BY <1>2, <1>8 DEF KeysVia
  <2>2. j \in 1..n /\ j < k /\ calls[j].via = "auto" /\ m = calls[j].key
    BY <1>2, <2>1
  <2>3. m \in loading
    BY <1>2, <1>3, <2>2 DEF KeysVia
  <2>4. ASSUME NEW i \in 1..n, k <= i, calls[i].via = "auto" PROVE calls[i].key # m
    <3>1. i # j
      BY <1>2, <2>2, <2>4
    <3>2. QED
      BY <1>4, <2>2, <2>4, <3>1
  <2>5. QED
    BY <1>1, <1>2, <2>3, <2>4
<1>9. loading' = KeysVia("auto")'
  BY <1>7, <1>8
<1>10. QED
  BY <1>2, <1>5, <1>6, <1>9 DEF LoadsOK

LEMMA PopIndexOK ==
  ASSUME StackOK, FormsOK, GuardsOK, IndexOK, NEW k, NEW b, PopStep(k, b) PROVE IndexOK'
<1> DEFINE n == Len(calls)
<1>1. /\ k \in DOMAIN calls /\ calls' = SubSeq(calls, 1, k - 1) /\ b \in 0 .. Len(forms) /\ forms' = SubSeq(forms, 1, b)
      /\ reserved' = reserved /\ home' = home /\ spent' \in Counters /\ indexed' \subseteq indexed
      /\ executed' = executed \ calls[k].guard /\ \A j \in DOMAIN calls : k < j => calls[j].guard = {}
  BY DEF PopStep
<1>2. \A m \in indexed' : \/ \E j \in DOMAIN calls : j < k /\ calls[j].via = "hydrate" /\ calls[j].key = m
                          \/ \E x \in 1 .. b : /\ forms[x].name = m
                                               /\ \A j \in DOMAIN calls : j < k /\ Started(calls[j]) => x <= calls[j].base
  BY DEF PopStep
<1>3. /\ DOMAIN calls = 1..n /\ DOMAIN calls' = 1..(k - 1) /\ \A i \in 1..(k - 1) : calls'[i] = calls[i]
      /\ \A i \in 1..n : i < k => i \in 1..(k - 1)
      /\ \A i \in 1..(k - 1) : i \in 1..n /\ i < k
  BY <1>1, PopCalls
<1>4. DOMAIN forms' = 1..b /\ \A x \in 1..b : forms'[x] = forms[x]
  BY <1>1, PopForms
<1>5. Guards = Guards' \cup calls[k].guard
  BY <1>1, PopGuards
<1> HIDE DEF n
<1>6. ASSUME NEW m \in indexed' PROVE m \in KeysVia("hydrate")' \/ Placed(m)'
  <2>1. CASE \E j \in DOMAIN calls : j < k /\ calls[j].via = "hydrate" /\ calls[j].key = m
    BY <1>3, <2>1 DEF KeysVia
  <2>2. CASE \E x \in 1 .. b : /\ forms[x].name = m
                               /\ \A j \in DOMAIN calls : j < k /\ Started(calls[j]) => x <= calls[j].base
    BY <1>3, <1>4, <2>2 DEF Placed
  <2>3. QED
    BY <1>2, <2>1, <2>2
<1>7. executed' \subseteq DOMAIN home' \cup Guards' \cup UNION {reserved'[m] : m \in DOMAIN reserved'}
  BY <1>1, <1>5 DEF IndexOK
<1>8. QED
  BY <1>1, <1>6, <1>7 DEF IndexOK

LEMMA PopHeadsOK ==
  ASSUME StackOK, GuardsOK, HeadsOK, NEW k, NEW b, PopStep(k, b) PROVE HeadsOK'
<1> DEFINE n == Len(calls)
<1>1. /\ k \in DOMAIN calls /\ calls' = SubSeq(calls, 1, k - 1)
      /\ executed' = executed \ calls[k].guard /\ \A j \in DOMAIN calls : k < j => calls[j].guard = {}
  BY DEF PopStep
<1>2. /\ DOMAIN calls = 1..n /\ DOMAIN calls' = 1..(k - 1) /\ Len(calls') = k - 1
      /\ \A i \in 1..(k - 1) : calls'[i] = calls[i]
      /\ \A i \in 1..(k - 1) : i \in 1..n /\ i < k
      /\ k \in 1..n /\ n \in Nat
  BY <1>1, PopCalls
<1>3. Real' = Real
  BY <1>1, PopGuards
<1>4. \A j \in 1..n : calls[j].kind = "source" =>
         /\ calls[j].pc \in {"init", "defined"} => IF j = n THEN HeadName(calls[j]) \notin executed
                                                   ELSE HeadName(calls[j]) \in calls[j + 1].guard
         /\ calls[j].pc = "main" => HeadName(calls[j]) \in Real
  BY <1>2 DEF HeadsOK
<1> HIDE DEF n
<1>5. ASSUME NEW j \in 1..(k - 1), calls'[j].kind = "source", calls'[j].pc \in {"init", "defined"}
      PROVE  IF j = k - 1 THEN HeadName(calls'[j]) \notin executed' ELSE HeadName(calls'[j]) \in calls'[j + 1].guard
  <2>1. calls'[j] = calls[j] /\ j \in 1..n /\ j # n
    BY <1>2
  <2>2. HeadName(calls[j]) \in calls[j + 1].guard
    BY <1>4, <1>5, <2>1
  <2>3. CASE j = k - 1
    <3>1. j + 1 = k
      BY <1>2, <2>3
    <3>2. QED
      BY <1>1, <2>1, <2>2, <2>3, <3>1
  <2>4. CASE j # k - 1
    <3>1. j + 1 \in 1..(k - 1)
      BY <1>2, <2>4
    <3>2. QED
      BY <1>2, <2>1, <2>2, <2>4, <3>1
  <2>5. QED
    BY <2>3, <2>4
<1>6. ASSUME NEW j \in 1..(k - 1), calls'[j].kind = "source", calls'[j].pc = "main"
      PROVE  HeadName(calls'[j]) \in Real'
  BY <1>2, <1>3, <1>4, <1>6
<1>7. QED
  BY <1>2, <1>5, <1>6 DEF HeadsOK, HeadName

LEMMA PopKeeps ==
  ASSUME Core, NEW k, NEW b, PopStep(k, b) PROVE Core'
<1>1. StackOK /\ FormsOK /\ Covered /\ GuardsOK /\ LoadsOK /\ IndexOK /\ HeadsOK
  BY DEF Core
<1>2. StackOK'
  <2>1. k \in DOMAIN calls /\ calls' = SubSeq(calls, 1, k - 1)
    BY DEF PopStep
  <2>2. QED
    BY <1>1, <2>1, PopStackOK
<1>3. FormsOK' /\ Covered' /\ GuardsOK'
  BY <1>1, PopFormsOK, PopCovered, PopGuardsOK
<1>4. LoadsOK' /\ IndexOK' /\ HeadsOK'
  BY <1>1, PopLoadsOK, PopIndexOK, PopHeadsOK
<1>5. QED
  BY <1>2, <1>3, <1>4 DEF Core

-----------------------------------------------------------------------------
(* What the actions do to the innermost call.                              *)

SameLinks(g, f) ==
  /\ g.kind = f.kind /\ g.via = f.via /\ g.key = f.key /\ g.new = f.new /\ g.guard = f.guard

LEMMA WithTodo ==
  ASSUME NEW f, f = FrameOf(f), NEW t
  PROVE  LET g == [f EXCEPT !.todo = t]
         IN  /\ g = FrameOf(g) /\ SameLinks(g, f) /\ g.todo = t /\ g.pc = f.pc /\ g.base = f.base /\ g.sem = f.sem
<1> DEFINE r == [kind |-> f.kind, via |-> f.via, key |-> f.key, new |-> f.new, todo |-> f.todo,
                 pc |-> f.pc, base |-> f.base, sem |-> f.sem, guard |-> f.guard]
           q == [kind |-> f.kind, via |-> f.via, key |-> f.key, new |-> f.new, todo |-> t,
                 pc |-> f.pc, base |-> f.base, sem |-> f.sem, guard |-> f.guard]
<1>1. f = r
  BY DEF FrameOf
<1>2. [r EXCEPT !.todo = t] = q
  OBVIOUS
<1>3. /\ q = FrameOf(q) /\ SameLinks(q, f) /\ q.todo = t /\ q.pc = f.pc /\ q.base = f.base /\ q.sem = f.sem
  BY DEF FrameOf, SameLinks
<1>4. [f EXCEPT !.todo = t] = q
  <2> HIDE DEF r, q
  <2>1. QED
    BY <1>1, <1>2
<1> HIDE DEF q
<1>5. QED
  BY <1>3, <1>4

LEMMA WithPc ==
  ASSUME NEW f, f = FrameOf(f), NEW p
  PROVE  LET g == [f EXCEPT !.pc = p]
         IN  /\ g = FrameOf(g) /\ SameLinks(g, f) /\ g.todo = f.todo /\ g.pc = p /\ g.base = f.base /\ g.sem = f.sem
<1> DEFINE r == [kind |-> f.kind, via |-> f.via, key |-> f.key, new |-> f.new, todo |-> f.todo,
                 pc |-> f.pc, base |-> f.base, sem |-> f.sem, guard |-> f.guard]
           q == [kind |-> f.kind, via |-> f.via, key |-> f.key, new |-> f.new, todo |-> f.todo,
                 pc |-> p, base |-> f.base, sem |-> f.sem, guard |-> f.guard]
<1>1. f = r
  BY DEF FrameOf
<1>2. [r EXCEPT !.pc = p] = q
  OBVIOUS
<1>3. /\ q = FrameOf(q) /\ SameLinks(q, f) /\ q.todo = f.todo /\ q.pc = p /\ q.base = f.base /\ q.sem = f.sem
  BY DEF FrameOf, SameLinks
<1>4. [f EXCEPT !.pc = p] = q
  <2> HIDE DEF r, q
  <2>1. QED
    BY <1>1, <1>2
<1> HIDE DEF q
<1>5. QED
  BY <1>3, <1>4

Moved(f, p, s) == [f EXCEPT !.pc = p, !.sem = s]
Based(f, p, b, s) == [f EXCEPT !.pc = p, !.base = b, !.sem = s]

LEMMA WithSem ==
  ASSUME NEW f, f = FrameOf(f), NEW p, NEW s
  PROVE  LET g == Moved(f, p, s)
         IN  /\ g = FrameOf(g) /\ SameLinks(g, f) /\ g.todo = f.todo /\ g.pc = p /\ g.base = f.base /\ g.sem = s
<1> DEFINE T == [kind : {f.kind}, via : {f.via}, key : {f.key}, new : {f.new}, todo : {f.todo},
                 pc : {f.pc, p}, base : {f.base}, sem : {f.sem, s}, guard : {f.guard}]
           g == [f EXCEPT !.pc = p, !.sem = s]
<1>1. f \in T
  BY DEF FrameOf
<1>2. g \in T /\ g.pc = p /\ g.base = f.base /\ g.sem = s
  BY <1>1
<1>3. g.kind = f.kind /\ g.via = f.via /\ g.key = f.key /\ g.new = f.new /\ g.todo = f.todo /\ g.guard = f.guard
  BY <1>1
<1> HIDE DEF g
<1>4. g = FrameOf(g)
  BY <1>2 DEF FrameOf
<1>5. QED
  BY <1>2, <1>3, <1>4 DEF g, SameLinks, Moved

LEMMA WithForms ==
  ASSUME NEW f, f = FrameOf(f), NEW p, NEW b, NEW s
  PROVE  LET g == Based(f, p, b, s)
         IN  /\ g = FrameOf(g) /\ SameLinks(g, f) /\ g.todo = f.todo /\ g.pc = p /\ g.base = b /\ g.sem = s
<1> DEFINE T == [kind : {f.kind}, via : {f.via}, key : {f.key}, new : {f.new}, todo : {f.todo},
                 pc : {f.pc, p}, base : {f.base, b}, sem : {f.sem, s}, guard : {f.guard}]
           g == [f EXCEPT !.pc = p, !.base = b, !.sem = s]
<1>1. f \in T
  BY DEF FrameOf
<1>2. g \in T /\ g.pc = p /\ g.base = b /\ g.sem = s
  BY <1>1
<1>3. g.kind = f.kind /\ g.via = f.via /\ g.key = f.key /\ g.new = f.new /\ g.todo = f.todo /\ g.guard = f.guard
  BY <1>1
<1> HIDE DEF g
<1>4. g = FrameOf(g)
  BY <1>2 DEF FrameOf
<1>5. QED
  BY <1>2, <1>3, <1>4 DEF g, SameLinks, Based

\* A frame stays one when its program counter moves and it has modules to run.
LEMMA FrameMoves ==
  ASSUME NEW f, FrameOK(f), NEW g, g = FrameOf(g), SameLinks(g, f), g.base \in Nat, IsSeq(g.sem),
         g.pc \in {"load", "run", "init", "defined", "main"}, RunsProgram(g) => g.sem # <<>>,
         f.via = "eval" => g.todo = f.todo
  PROVE  FrameOK(g)
BY ZenonT(30) DEF FrameOK, SameLinks

\* A step that only moves the innermost call.
LEMMA TopMoves ==
  ASSUME Core, calls # <<>>, NEW g, calls' = Append(Front(calls), g), FrameOK(g), SameLinks(g, Top), g.base = Top.base,
         g.pc = "load" <=> Top.pc = "load",
         NamesOf(g.sem) \subseteq NamesOf(Top.sem),
         Started(g) => NamesOf(Top.sem) \ NamesOf(g.sem) \subseteq executed,
         g.kind = "source" /\ g.pc \in {"init", "defined"} => HeadName(g) \notin executed,
         g.kind = "source" /\ g.pc = "main" => HeadName(g) \in executed \ Guards,
         forms' = forms, reserved' = reserved, loading' = loading, indexed' = indexed, spent' = spent,
         executed' = executed, home' = home, compiled' = compiled, Advances(g)
  PROVE  TopStep(g)
BY DEF TopStep, SameLinks

LEMMA TopFacts ==
  ASSUME Core, calls # <<>>
  PROVE  /\ Len(calls) \in Nat /\ Len(calls) \in 1..Len(calls) /\ DOMAIN calls = 1..Len(calls) /\ Top = calls[Len(calls)]
         /\ FrameOK(Top) /\ Top = FrameOf(Top) /\ IsSeq(Top.sem) /\ IsSeq(Top.new) /\ Top.base \in Nat
         /\ (RunsProgram(Top) => Top.sem # <<>>)
<1>1. StackOK
  BY DEF Core
<1>2. /\ Len(calls) \in Nat /\ Len(calls) \in 1..Len(calls) /\ DOMAIN calls = 1..Len(calls) /\ Top = calls[Len(calls)]
      /\ FrameOK(Top)
  BY <1>1, FrameFacts DEF Top
<1>3. QED
  BY <1>2 DEF FrameOK

LEMMA Skipped ==
  ASSUME Core, calls # <<>>, Top.pc = "load", Top.via # "eval", Top.todo # <<>>, NEW t, t = Tail(Top.todo),
         Top.kind = "etac" => Head(Top.todo) \in executed, calls' = Append(Front(calls), [Top EXCEPT !.todo = t]),
         forms' = forms, reserved' = reserved, loading' = loading, indexed' = indexed, spent' = spent,
         executed' = executed, home' = home, compiled' = compiled
  PROVE  \E g : TopStep(g)
<1> DEFINE f == Top
           g == [f EXCEPT !.todo = t]
<1>1. FrameOK(f) /\ f = FrameOf(f) /\ IsSeq(f.sem) /\ f.base \in Nat /\ f.pc = "load" /\ f.via # "eval"
  BY TopFacts
<1>2. calls' = Append(Front(calls), g)
  OBVIOUS
<1>3. g = FrameOf(g) /\ SameLinks(g, f) /\ g.pc = f.pc /\ g.base = f.base /\ g.sem = f.sem /\ g.todo = t
  <2> HIDE DEF f
  <2>1. f = FrameOf(f)
    BY <1>1
  <2>2. QED
    BY ONLY <2>1, WithTodo
<1> HIDE DEF g
<1>4. FrameOK(g)
  <2> HIDE DEF f
  <2>1. ~RunsProgram(g)
    BY <1>1, <1>3 DEF RunsProgram
  <2>2. QED
    BY <1>1, <1>3, <2>1, FrameMoves
<1>5. ~Started(g)
  BY <1>1, <1>3 DEF Started
<1>6. Advances(g)
  BY <1>1, <1>3 DEF Advances, RunsProgram, SameLinks
<1>7. TopStep(g)
  BY <1>1, <1>2, <1>3, <1>4, <1>5, <1>6, TopMoves
<1>8. QED
  BY <1>7

LEMMA SkipImportSteps == Core /\ SkipImport => \E g : TopStep(g)
<1> SUFFICES ASSUME Core, SkipImport PROVE \E g : TopStep(g)
  OBVIOUS
<1>1. /\ calls # <<>> /\ Top.pc = "load" /\ Top.todo # <<>> /\ calls' = Append(Front(calls), [Top EXCEPT !.todo = Tail(Top.todo)])
      /\ forms' = forms /\ reserved' = reserved /\ loading' = loading /\ indexed' = indexed /\ spent' = spent
      /\ executed' = executed /\ home' = home /\ compiled' = compiled /\ Top.kind = "source"
  BY DEF SkipImport, Imports, Replace, linking, caches
<1>2. Top.via # "eval"
  BY <1>1, TopFacts DEF FrameOK
<1>3. QED
  BY <1>1, <1>2, Skipped

LEMMA DroppedNames ==
  ASSUME NEW s, IsSeq(s), NEW i \in 1..Len(s)
  PROVE  LET t == SubSeq(s, i, Len(s))
         IN  /\ IsSeq(t) /\ t # <<>> /\ t[1] = s[i] /\ NamesOf(t) \subseteq NamesOf(s)
             /\ \A m \in NamesOf(s) \ NamesOf(t) : \E j \in DOMAIN s : j < i /\ s[j].name = m
<1> DEFINE t == SubSeq(s, i, Len(s))
<1>1. Len(s) \in Nat /\ DOMAIN s = 1..Len(s) /\ i \in Nat
  BY SeqShape
<1>2. IsSeq(t) /\ Len(t) = Len(s) - i + 1 /\ \A k \in 1..(Len(s) - i + 1) : t[k] = s[i + k - 1]
  BY Dropped
<1> HIDE DEF t
<1>3. DOMAIN t = 1..(Len(s) - i + 1)
  BY <1>2, SeqShape
<1>4. 1 \in 1..(Len(s) - i + 1) /\ i + 1 - 1 = i
  BY <1>1
<1>5. t[1] = s[i] /\ t # <<>>
  <2>1. Len(t) # 0
    BY <1>1, <1>2
  <2>2. QED
    BY <1>2, <1>4, <2>1, EmptyIsSeq
<1>6. ASSUME NEW m \in NamesOf(t) PROVE m \in NamesOf(s)
  <2>1. PICK k \in 1..(Len(s) - i + 1) : t[k].name = m
    BY <1>3, <1>6 DEF NamesOf
  <2>2. i + k - 1 \in DOMAIN s /\ t[k] = s[i + k - 1]
    BY <1>1, <1>2
  <2>3. QED
    BY <2>1, <2>2 DEF NamesOf
<1>7. ASSUME NEW m \in NamesOf(s) \ NamesOf(t) PROVE \E j \in DOMAIN s : j < i /\ s[j].name = m
  <2>1. PICK j \in DOMAIN s : s[j].name = m
    BY <1>7 DEF NamesOf
  <2>2. ASSUME ~(j < i) PROVE FALSE
    <3>1. j - i + 1 \in 1..(Len(s) - i + 1) /\ i + (j - i + 1) - 1 = j
      BY <1>1, <2>2
    <3>2. t[j - i + 1] = s[j]
      BY <1>2, <3>1
    <3>3. QED
      BY <1>3, <1>7, <2>1, <3>1, <3>2 DEF NamesOf
  <2>3. QED
    BY <2>1, <2>2
<1>8. QED
  BY <1>2, <1>5, <1>6, <1>7 DEF t

LEMMA TailNames ==
  ASSUME NEW s, IsSeq(s), s # <<>>
  PROVE  IsSeq(Tail(s)) /\ NamesOf(Tail(s)) \subseteq NamesOf(s) /\ NamesOf(s) \ NamesOf(Tail(s)) \subseteq {s[1].name}
<1> DEFINE t == Tail(s)
<1>1. Len(s) \in Nat /\ DOMAIN s = 1..Len(s) /\ Len(s) >= 1
  BY SeqShape
<1>2. IsSeq(t) /\ Len(t) = Len(s) - 1 /\ \A i \in 1..(Len(s) - 1) : t[i] = s[i + 1]
  BY Tailed
<1> HIDE DEF t
<1>3. DOMAIN t = 1..(Len(s) - 1)
  BY <1>2, SeqShape
<1>4. ASSUME NEW m \in NamesOf(t) PROVE m \in NamesOf(s)
  <2>1. PICK k \in 1..(Len(s) - 1) : t[k].name = m
    BY <1>3, <1>4 DEF NamesOf
  <2>2. k + 1 \in DOMAIN s /\ t[k] = s[k + 1]
    BY <1>1, <1>2
  <2>3. QED
    BY <2>1, <2>2 DEF NamesOf
<1>5. ASSUME NEW m \in NamesOf(s) \ NamesOf(t) PROVE m = s[1].name
  <2>1. PICK j \in DOMAIN s : s[j].name = m
    BY <1>5 DEF NamesOf
  <2>2. ASSUME j # 1 PROVE FALSE
    <3>1. j - 1 \in 1..(Len(s) - 1) /\ (j - 1) + 1 = j
      BY <1>1, <2>2
    <3>2. t[j - 1] = s[j]
      BY <1>2, <3>1
    <3>3. QED
      BY <1>3, <1>5, <2>1, <3>1, <3>2 DEF NamesOf
  <2>3. QED
    BY <2>1, <2>2
<1>6. QED
  BY <1>2, <1>4, <1>5 DEF t

LEMMA StartModuleSteps == Core /\ StartModule => \E g : TopStep(g)
<1> SUFFICES ASSUME Core, StartModule PROVE \E g : TopStep(g)
  OBVIOUS
<1> DEFINE f == Top
           s == f.sem
           first == CHOOSE i \in Pending(s) : \A j \in Pending(s) : i <= j
           t == SubSeq(s, first, Len(s))
           g == [f EXCEPT !.pc = "init", !.sem = t]
<1>1. /\ calls # <<>> /\ f.pc = "run" /\ Pending(s) # {} /\ calls' = Append(Front(calls), g)
      /\ forms' = forms /\ reserved' = reserved /\ loading' = loading /\ indexed' = indexed /\ spent' = spent
      /\ executed' = executed /\ home' = home /\ compiled' = compiled
  BY DEF StartModule, Replace, linking, caches
<1>2. FrameOK(f) /\ f = FrameOf(f) /\ IsSeq(s) /\ f.base \in Nat
  BY <1>1, TopFacts
<1>3. first \in Pending(s) /\ \A j \in Pending(s) : first <= j
  <2>1. Pending(s) \subseteq Nat
    BY <1>2, SeqShape DEF Pending
  <2>2. \E i \in Pending(s) : \A j \in Pending(s) : i <= j
    BY <1>1, <2>1, Least
  <2>3. QED
    BY <2>2
<1>4. Pending(s) = {i \in DOMAIN s : s[i].name \notin executed}
  BY DEF Pending
<1> HIDE DEF f, s, first
<1>5. first \in 1..Len(s) /\ s[first].name \notin executed /\ DOMAIN s = 1..Len(s) /\ Len(s) \in Nat
  BY <1>2, <1>3, <1>4, SeqShape
<1>6. /\ IsSeq(t) /\ t # <<>> /\ t[1] = s[first] /\ NamesOf(t) \subseteq NamesOf(s)
      /\ \A m \in NamesOf(s) \ NamesOf(t) : \E j \in DOMAIN s : j < first /\ s[j].name = m
  <2>1. IsSeq(s) /\ first \in 1..Len(s)
    BY <1>2, <1>5
  <2>2. QED
    BY ONLY <2>1, DroppedNames
<1> HIDE DEF t
<1>7. /\ g = FrameOf(g) /\ SameLinks(g, f) /\ g.todo = f.todo /\ g.pc = "init" /\ g.base = f.base /\ g.sem = t
  <2>1. f = FrameOf(f)
    BY <1>2
  <2>2. g = Moved(f, "init", t)
    BY DEF Moved
  <2> HIDE DEF g
  <2>3. QED
    BY ONLY <2>1, <2>2, WithSem
<1> HIDE DEF g
<1>8. FrameOK(g)
  BY <1>2, <1>6, <1>7, FrameMoves
<1>9. ASSUME NEW m \in NamesOf(s) \ NamesOf(t) PROVE m \in executed
  <2>1. PICK j \in DOMAIN s : j < first /\ s[j].name = m
    BY <1>6
  <2>2. j \notin Pending(s)
    BY <1>3, <1>5, <2>1
  <2>3. QED
    BY <1>4, <2>1, <2>2
<1>10. HeadName(g) \notin executed
  BY <1>5, <1>6, <1>7 DEF HeadName
<1>11. /\ SameLinks(g, Top) /\ g.base = Top.base /\ g.pc = "init" /\ Top.pc = "run" /\ NamesOf(g.sem) \subseteq NamesOf(Top.sem)
       /\ NamesOf(Top.sem) \ NamesOf(g.sem) \subseteq executed
  BY <1>1, <1>6, <1>7, <1>9 DEF f, s
<1>12. /\ (g.pc = "load" <=> Top.pc = "load") /\ g.pc # "main"
  BY <1>11
<1>13. Advances(g)
  <2>1. g.sem # <<>> /\ g.todo = Top.todo
    BY <1>6, <1>7 DEF f
  <2>2. QED
    BY <1>10, <1>11, <2>1 DEF Advances
<1>14. TopStep(g)
  BY <1>1, <1>8, <1>10, <1>11, <1>12, <1>13, TopMoves
<1>15. QED
  BY <1>14

LEMMA DefineSteps == Core /\ Define => \E g : TopStep(g)
<1> SUFFICES ASSUME Core, Define PROVE \E g : TopStep(g)
  OBVIOUS
<1> DEFINE f == Top
           g == [f EXCEPT !.pc = "defined"]
<1>1. /\ calls # <<>> /\ f.pc = "init" /\ calls' = Append(Front(calls), g)
      /\ forms' = forms /\ reserved' = reserved /\ loading' = loading /\ indexed' = indexed /\ spent' = spent
      /\ executed' = executed /\ home' = home /\ compiled' = compiled
  BY DEF Define, Replace, linking, caches
<1>2. FrameOK(f) /\ f = FrameOf(f) /\ IsSeq(f.sem) /\ f.base \in Nat /\ (RunsProgram(f) => f.sem # <<>>)
      /\ f = calls[Len(calls)] /\ Len(calls) \in DOMAIN calls
  BY <1>1, TopFacts
<1>3. f.kind = "source" => HeadName(f) \notin executed
  BY <1>1, <1>2 DEF Core, HeadsOK
<1> HIDE DEF f
<1>4. /\ g = FrameOf(g) /\ SameLinks(g, f) /\ g.todo = f.todo /\ g.pc = "defined" /\ g.base = f.base /\ g.sem = f.sem
  <2>1. f = FrameOf(f)
    BY <1>2
  <2>2. QED
    BY ONLY <2>1, WithPc
<1> HIDE DEF g
<1>5. f.sem # <<>>
  BY <1>1, <1>2 DEF RunsProgram
<1>6. FrameOK(g)
  BY <1>2, <1>4, <1>5, FrameMoves
<1>7. g.kind = "source" => HeadName(g) \notin executed
  BY <1>3, <1>4 DEF HeadName, SameLinks
<1>8. /\ SameLinks(g, Top) /\ g.base = Top.base /\ g.pc = "defined" /\ Top.pc = "init" /\ g.sem = Top.sem
      /\ g.todo = Top.todo /\ Top.sem # <<>>
  BY <1>1, <1>4, <1>5 DEF f
<1>9. /\ (g.pc = "load" <=> Top.pc = "load") /\ g.pc # "main" /\ NamesOf(g.sem) \subseteq NamesOf(Top.sem)
      /\ NamesOf(Top.sem) \ NamesOf(g.sem) \subseteq executed
  BY <1>8
<1>10. Advances(g)
  BY <1>8 DEF Advances, RunsProgram, HeadName
<1>11. TopStep(g)
  BY <1>1, <1>6, <1>7, <1>8, <1>9, <1>10, TopMoves
<1>12. QED
  BY <1>11

LEMMA MainReturnsSteps == Core /\ MainReturns => \E g : TopStep(g)
<1> SUFFICES ASSUME Core, MainReturns PROVE \E g : TopStep(g)
  OBVIOUS
<1> DEFINE f == Top
           t == Tail(f.sem)
           g == [f EXCEPT !.pc = "run", !.sem = t]
<1>1. /\ calls # <<>> /\ f.pc = "main" /\ calls' = Append(Front(calls), g)
      /\ forms' = forms /\ reserved' = reserved /\ loading' = loading /\ indexed' = indexed /\ spent' = spent
      /\ executed' = executed /\ home' = home /\ compiled' = compiled
  BY DEF MainReturns, Replace, linking, caches
<1>2. FrameOK(f) /\ f = FrameOf(f) /\ IsSeq(f.sem) /\ f.base \in Nat /\ (RunsProgram(f) => f.sem # <<>>)
      /\ f = calls[Len(calls)] /\ Len(calls) \in DOMAIN calls
  BY <1>1, TopFacts
<1>3. f.kind = "source" => HeadName(f) \in Real
  BY <1>1, <1>2 DEF Core, HeadsOK
<1> HIDE DEF f
<1>4. f.sem # <<>>
  BY <1>1, <1>2 DEF RunsProgram
<1>5. IsSeq(t) /\ NamesOf(t) \subseteq NamesOf(f.sem) /\ NamesOf(f.sem) \ NamesOf(t) \subseteq {HeadName(f)}
  BY <1>2, <1>4, TailNames DEF HeadName
<1> HIDE DEF t
<1>6. /\ g = FrameOf(g) /\ SameLinks(g, f) /\ g.todo = f.todo /\ g.pc = "run" /\ g.base = f.base /\ g.sem = t
  <2>1. f = FrameOf(f)
    BY <1>2
  <2>2. g = Moved(f, "run", t)
    BY DEF Moved
  <2> HIDE DEF g
  <2>3. QED
    BY ONLY <2>1, <2>2, WithSem
<1> HIDE DEF g
<1>7. FrameOK(g)
  <2>1. ~RunsProgram(g)
    BY <1>6 DEF RunsProgram
  <2>2. QED
    BY <1>2, <1>5, <1>6, <2>1, FrameMoves
<1>8. Started(g) => NamesOf(f.sem) \ NamesOf(g.sem) \subseteq executed
  BY <1>3, <1>5, <1>6 DEF Started, SameLinks, Real
<1>9. /\ SameLinks(g, Top) /\ g.base = Top.base /\ g.pc = "run" /\ Top.pc = "main" /\ NamesOf(g.sem) \subseteq NamesOf(Top.sem)
      /\ (Started(g) => NamesOf(Top.sem) \ NamesOf(g.sem) \subseteq executed)
  BY <1>1, <1>5, <1>6, <1>8 DEF f
<1>10. (g.pc = "load" <=> Top.pc = "load") /\ g.pc # "main" /\ g.pc \notin {"init", "defined"}
  BY <1>9
<1>11. Advances(g)
  <2>1. g.todo = Top.todo
    BY <1>6 DEF f
  <2>2. QED
    BY <1>9, <2>1 DEF Advances, RunsProgram
<1>12. TopStep(g)
  BY <1>1, <1>7, <1>9, <1>10, <1>11, TopMoves
<1>13. QED
  BY <1>12

LEMMA FinishInitSteps == Core /\ FinishInit => \E g : TopStep(g)
<1> SUFFICES ASSUME Core, FinishInit PROVE \E g : TopStep(g)
  OBVIOUS
<1> DEFINE f == Top
           t == Tail(f.sem)
           main == [f EXCEPT !.pc = "main"]
           past == [f EXCEPT !.pc = "run", !.sem = t]
           g == IF <<"main">> \in Running.own THEN main ELSE past
<1>1. /\ calls # <<>> /\ f.pc = "defined" /\ calls' = Append(Front(calls), g)
      /\ forms' = forms /\ reserved' = reserved /\ loading' = loading /\ indexed' = indexed /\ spent' = spent
      /\ compiled' = compiled
  BY DEF FinishInit, Replace
<1>2. executed' = executed \cup {Running.name}
  BY DEF FinishInit
<1>3. home' = Updated(home, Running.name, Restriction(Running.slots, Running.own))
  BY DEF FinishInit
<1>4. DOMAIN home' = {Running.name} \cup DOMAIN home
  BY <1>3 DEF Updated
<1>5. FrameOK(f) /\ f = FrameOf(f) /\ IsSeq(f.sem) /\ f.base \in Nat /\ (RunsProgram(f) => f.sem # <<>>)
      /\ f = calls[Len(calls)] /\ Len(calls) \in DOMAIN calls
  BY <1>1, TopFacts
<1>6. f.sem # <<>>
  BY <1>1, <1>5 DEF RunsProgram
<1>7. Running.name = HeadName(f)
  BY <1>5, <1>6, Tailed DEF Running, HeadName
<1>8. f.kind = "source" => HeadName(f) \notin executed
  BY <1>1, <1>5 DEF Core, HeadsOK
<1>9. Guards \subseteq executed
  BY DEF Core, GuardsOK, Guards
<1> HIDE DEF f
<1>10. IsSeq(t) /\ NamesOf(t) \subseteq NamesOf(f.sem) /\ NamesOf(f.sem) \ NamesOf(t) \subseteq {HeadName(f)}
  BY <1>5, <1>6, TailNames DEF HeadName
<1> HIDE DEF t
<1>11. /\ main = FrameOf(main) /\ SameLinks(main, f) /\ main.todo = f.todo /\ main.pc = "main" /\ main.base = f.base /\ main.sem = f.sem
  <2>1. f = FrameOf(f)
    BY <1>5
  <2>2. QED
    BY ONLY <2>1, WithPc
<1>12. /\ past = FrameOf(past) /\ SameLinks(past, f) /\ past.todo = f.todo /\ past.pc = "run" /\ past.base = f.base /\ past.sem = t
  <2>1. f = FrameOf(f)
    BY <1>5
  <2>2. past = Moved(f, "run", t)
    BY DEF Moved
  <2> HIDE DEF past
  <2>3. QED
    BY ONLY <2>1, <2>2, WithSem
<1> HIDE DEF main, past
<1>13. /\ g = FrameOf(g) /\ SameLinks(g, f) /\ g.todo = f.todo /\ g.base = f.base
       /\ (g.pc = "main" /\ g.sem = f.sem) \/ (g.pc = "run" /\ g.sem = t)
  BY <1>11, <1>12
<1> HIDE DEF g
<1>14. FrameOK(g)
  <2>1. g.pc \in {"load", "run", "init", "defined", "main"} /\ IsSeq(g.sem) /\ (RunsProgram(g) => g.sem # <<>>)
    BY <1>5, <1>6, <1>10, <1>13 DEF RunsProgram
  <2>2. QED
    BY <1>5, <1>13, <2>1, FrameMoves
<1>15. NamesOf(g.sem) \subseteq NamesOf(f.sem) /\ NamesOf(f.sem) \ NamesOf(g.sem) \subseteq {HeadName(f)}
  BY <1>10, <1>13
<1>16. g.kind = "source" /\ g.pc = "main" => HeadName(g) \in executed' \ Guards
  BY <1>2, <1>7, <1>8, <1>9, <1>10, <1>13 DEF HeadName, SameLinks
<1>17. /\ SameLinks(g, Top) /\ g.base = Top.base /\ g.pc \in {"main", "run"} /\ Top.pc = "defined"
       /\ NamesOf(g.sem) \subseteq NamesOf(Top.sem) /\ NamesOf(Top.sem) \ NamesOf(g.sem) \subseteq executed'
  BY <1>1, <1>2, <1>7, <1>13, <1>15 DEF f
<1>18. /\ (g.pc = "load" <=> Top.pc = "load") /\ g.pc \notin {"init", "defined"}
       /\ executed \subseteq executed' /\ executed' \ executed \subseteq DOMAIN home' /\ DOMAIN home \subseteq DOMAIN home'
  BY <1>2, <1>4, <1>17
<1>19. Advances(g)
  <2>1. g.todo = Top.todo /\ HeadName(Top) \in executed' /\ RunsProgram(Top)
    BY <1>1, <1>2, <1>7, <1>13 DEF f, RunsProgram
  <2>2. RunsProgram(g) => HeadName(g) = HeadName(Top)
    BY <1>13 DEF RunsProgram, HeadName, f
  <2>3. QED
    BY <2>1, <2>2 DEF Advances
<1>20. TopStep(g)
  BY <1>1, <1>14, <1>16, <1>17, <1>18, <1>19 DEF TopStep, SameLinks
<1>21. QED
  BY <1>20

-----------------------------------------------------------------------------
(* Calls that start.                                                       *)

LEMMA NewFrame ==
  ASSUME NEW kind, NEW via, NEW key, NEW new, NEW guard
  PROVE  LET f == Frame(kind, via, key, new, guard)
         IN  /\ f = FrameOf(f) /\ f.kind = kind /\ f.via = via /\ f.key = key /\ f.new = new /\ f.guard = guard
             /\ f.todo = ImportedBy(new) /\ f.pc = "load" /\ f.base = 0 /\ f.sem = <<>> /\ ~RunsProgram(f)
BY DEF Frame, FrameOf, RunsProgram

\* The imports of one form, in their order.
LEMMA OneForm ==
  ASSUME NEW f PROVE ImportedBy(<<f>>) = [j \in DOMAIN f.imports |-> f.imports[j].module]
<1> DEFINE one == <<f>>
           named == [j \in DOMAIN f.imports |-> f.imports[j].module]
           mods == [i \in DOMAIN one |-> [j \in DOMAIN one[i].imports |-> one[i].imports[j].module]]
           Flats(g) == g = [i \in 1..Len(mods) |-> IF i = 1 THEN mods[i] ELSE g[i - 1] \o mods[i]]
           flat == CHOOSE g : Flats(g)
<1>1. DOMAIN one = 1..1 /\ one[1] = f
  BY SingleSeq
<1>2. mods = [i \in 1..1 |-> named]
  <2>1. \A i \in 1..1 : [j \in DOMAIN one[i].imports |-> one[i].imports[j].module] = named
    BY <1>1
  <2> HIDE DEF one, named
  <2>2. QED
    BY <1>1, <2>1
<1> HIDE DEF named
<1>3. Len(mods) = 1 /\ mods[1] = named
  BY <1>2
<1>4. ImportedBy(one) = flat[Len(mods)]
  <2>1. ImportedBy(one) = FlattenSeq(mods)
    BY DEF ImportedBy
  <2> HIDE DEF mods
  <2>2. FlattenSeq(mods) = flat[Len(mods)]
    BY <1>3 DEF FlattenSeq
  <2>3. QED
    BY <2>1, <2>2
<1> HIDE DEF mods
<1>5. Flats([i \in 1..1 |-> mods[1]])
  BY <1>3
<1>6. Flats(flat)
  <2> HIDE DEF Flats
  <2>1. QED
    BY <1>5
<1> HIDE DEF flat
<1>7. flat[1] = mods[1]
  BY <1>3, <1>6
<1>8. QED
  BY <1>3, <1>4, <1>7 DEF named

\* A form without imports waits for none.
LEMMA NothingImported ==
  ASSUME NEW f, f.imports = <<>> PROVE ImportedBy(<<f>>) = <<>>
<1>1. DOMAIN <<>> = {}
  BY EmptyIsSeq, SeqShape
<1>2. [j \in DOMAIN f.imports |-> f.imports[j].module] = <<>>
  BY <1>1
<1>3. QED
  BY <1>2, OneForm

LEMMA OneFormImports ==
  ASSUME NEW f, IsSeq(f.imports)
  PROVE  IsSeq(ImportedBy(<<f>>)) /\ ToSet(ImportedBy(<<f>>)) = ImportsOf(f)
<1> DEFINE t == ImportedBy(<<f>>)
           X == ImportsOf(f)
<1>1. DOMAIN f.imports = 1..Len(f.imports) /\ Len(f.imports) \in Nat
  BY SeqShape
<1>2. t = [j \in 1..Len(f.imports) |-> f.imports[j].module]
  BY <1>1, OneForm
<1>3. \A j \in 1..Len(f.imports) : f.imports[j].module \in X
  BY <1>1 DEF ImportsOf
<1>4. ToSet(t) = X
  BY <1>1, <1>2 DEF ToSet, ImportsOf
<1> HIDE DEF t, X
<1>5. t \in Seq(X)
  BY <1>1, <1>2, <1>3
<1>6. IsSeq(t)
  BY <1>5, SeqFrom
<1>7. QED
  BY <1>4, <1>6 DEF t, X

LEMMA FormsAreFine == \A f \in ProgramForms : Fine(f)
<1>1. ASSUME NEW f \in ProgramForms PROVE Fine(f)
  <2>1. IsSeq(f.imports)
    BY SessionAssumption DEF SessionAssumption, IsSeq
  <2>2. ImportsOf(f) \cap Reserves = {}
    BY NamesAssumption DEF NamesAssumption, Reserves
  <2>3. QED
    BY <2>1, <2>2 DEF Fine
<1>2. QED
  BY <1>1

LEMMA FileFormIsFine == ASSUME NEW m \in DOMAIN Disk PROVE Fine(Disk[m].form)
BY FormsAreFine DEF ProgramForms

\* The frame of a module that is loaded from a file.
LEMMA ModuleFrame ==
  ASSUME NEW m \in DOMAIN Disk, NEW kind \in {"source", "etac"}, NEW via \in {"auto", "hydrate", "required"},
         via = "hydrate" => kind = "source"
  PROVE  LET f == Frame(kind, via, m, <<Disk[m].form>>, {})
         IN  /\ FrameOK(f) /\ f.pc = "load" /\ f.via = via /\ f.key = m /\ f.guard = {} /\ f.kind = kind
             /\ f.new = <<Disk[m].form>> /\ IsSeq(f.todo) /\ ToSet(f.todo) = ImportsOf(Disk[m].form)
             /\ \A i \in DOMAIN f.new : Fine(f.new[i])
<1> DEFINE new == <<Disk[m].form>>
           f == Frame(kind, via, m, new, {})
<1>1. IsSeq(new) /\ \A i \in DOMAIN new : Fine(new[i])
  BY SingleSeq, FileFormIsFine
<1>2. new = <<Disk[m].form>>
  OBVIOUS
<1>7. IsSeq(ImportedBy(new)) /\ ToSet(ImportedBy(new)) = ImportsOf(Disk[m].form)
  <2>1. IsSeq(Disk[m].form.imports)
    BY FileFormIsFine DEF Fine
  <2>2. QED
    BY <2>1, OneFormImports
<1> HIDE DEF new
<1>3. /\ f = FrameOf(f) /\ f.kind = kind /\ f.via = via /\ f.key = m /\ f.new = new /\ f.guard = {}
      /\ f.todo = ImportedBy(new) /\ f.pc = "load" /\ f.base = 0 /\ f.sem = <<>> /\ ~RunsProgram(f)
  BY NewFrame
<1> HIDE DEF f
<1>4. IsSeq(f.sem) /\ IsSeq(f.new) /\ f.base \in Nat
  BY <1>1, <1>3, EmptyIsSeq
<1>5. FrameOK(f)
  BY <1>2, <1>3, <1>4 DEF FrameOK
<1>6. QED
  BY <1>1, <1>2, <1>3, <1>5, <1>7 DEF f, new

LEMMA SubmitSteps == ASSUME Core, NEW fs \in Submissions, Submit(fs) PROVE \E f : PushStep(f)
<1> DEFINE key == ""
           f == Frame("source", "user", key, fs, {})
<1>1. /\ calls = <<>> /\ calls' = Append(calls, f) /\ forms' = forms /\ executed' = executed /\ reserved' = reserved
      /\ loading' = loading /\ indexed' = indexed /\ home' = home /\ spent' = [spent EXCEPT !.submits = @ + 1]
      /\ compiled' = compiled
  BY DEF Submit, Push, linking, caches
<1>2. spent' \in Counters
  <2>1. spent \in Counters
    BY DEF Core, IndexOK
  <2>2. spent' = [spent EXCEPT !.submits = @ + 1]
    BY <1>1
  <2>3. QED
    BY ONLY <2>1, <2>2 DEF Counters
<1>3. IsSeq(fs)
  BY SessionAssumption, SeqFrom DEF SessionAssumption
<1>8. \A i \in DOMAIN fs : Fine(fs[i])
  <2>1. fs \in Seq(ProgramForms)
    BY SessionAssumption DEF SessionAssumption
  <2>2. \A i \in 1..Len(fs) : fs[i] \in ProgramForms
    BY <2>1, ElementOfSeq
  <2>3. QED
    BY <1>3, <2>2, SeqShape, FormsAreFine
<1>9. key = NoKey
  BY DEF NoKey
<1> HIDE DEF key
<1>4. /\ f = FrameOf(f) /\ f.kind = "source" /\ f.via = "user" /\ f.key = key /\ f.new = fs /\ f.guard = {}
      /\ f.todo = ImportedBy(fs) /\ f.pc = "load" /\ f.base = 0 /\ f.sem = <<>> /\ ~RunsProgram(f)
  BY NewFrame
<1> HIDE DEF f
<1>5. FrameOK(f)
  <2>1. IsSeq(f.sem) /\ IsSeq(f.new) /\ f.base \in Nat
    BY <1>3, <1>4, EmptyIsSeq
  <2>2. QED
    BY <1>4, <2>1 DEF FrameOK
<1>10. Fresh(f)
  BY <1>4, <1>8, <1>9 DEF Fresh, Keyed
<1>6. PushStep(f)
  BY <1>1, <1>2, <1>4, <1>5, <1>10 DEF PushStep
<1>7. QED
  BY <1>6

LEMMA FileFrameOK ==
  ASSUME NEW m \in DOMAIN Disk, NEW via \in {"auto", "required"}
  PROVE  LET f == FileFrame(m, via)
         IN  /\ FrameOK(f) /\ f.pc = "load" /\ f.via = via /\ f.key = m /\ f.guard = {}
             /\ f.kind = "etac" => Disk[m].artifact
             /\ IsSeq(f.todo) /\ ToSet(f.todo) = ImportsOf(Disk[m].form) /\ \A i \in DOMAIN f.new : Fine(f.new[i])
<1> DEFINE kind == IF Disk[m].artifact THEN "etac" ELSE "source"
<1>1. kind \in {"source", "etac"} /\ (kind = "etac" => Disk[m].artifact)
  OBVIOUS
<1>2. FileFrame(m, via) = Frame(kind, via, m, <<Disk[m].form>>, {})
  BY DEF FileFrame
<1> HIDE DEF kind
<1>3. LET f == Frame(kind, via, m, <<Disk[m].form>>, {})
      IN  /\ FrameOK(f) /\ f.pc = "load" /\ f.via = via /\ f.key = m /\ f.guard = {} /\ f.kind = kind
          /\ IsSeq(f.todo) /\ ToSet(f.todo) = ImportsOf(Disk[m].form) /\ \A i \in DOMAIN f.new : Fine(f.new[i])
  BY <1>1, ModuleFrame
<1>4. QED
  BY <1>1, <1>2, <1>3

LEMMA LoadImportSteps == Core /\ LoadImport => \E f : PushStep(f)
<1> SUFFICES ASSUME Core, LoadImport PROVE \E f : PushStep(f)
  OBVIOUS
<1> DEFINE f == FileFrame(Next1, "auto")
<1>1. /\ calls # <<>> /\ Top.kind = "source" /\ Top.pc = "load" /\ Top.todo # <<>> /\ Next1 \notin loading
      /\ Next1 \in DOMAIN Disk /\ loading' = loading \cup {Next1} /\ calls' = Append(calls, f)
      /\ forms' = forms /\ executed' = executed /\ reserved' = reserved /\ indexed' = indexed /\ home' = home
      /\ spent' = spent /\ compiled' = compiled /\ Next1 \notin executed
  BY DEF LoadImport, Imports, Loadable, MarkLoading, Push, linking
<1>2. /\ FrameOK(f) /\ f.pc = "load" /\ f.via = "auto" /\ f.key = Next1 /\ f.guard = {}
      /\ f.kind = "etac" => Disk[Next1].artifact
      /\ IsSeq(f.todo) /\ ToSet(f.todo) = ImportsOf(Disk[Next1].form) /\ \A i \in DOMAIN f.new : Fine(f.new[i])
  BY <1>1, FileFrameOK
<1>3. Top.via # "eval" /\ spent \in Counters
  BY <1>1, TopFacts DEF FrameOK, Core, IndexOK
<1> HIDE DEF f
<1>6. Fresh(f)
  BY <1>1, <1>2 DEF Fresh, Keyed, Next1
<1>4. PushStep(f)
  BY <1>1, <1>2, <1>3, <1>6 DEF PushStep
<1>5. QED
  BY <1>4

LEMMA LoadRequiredSteps == Core /\ LoadRequired => (\E g : TopStep(g)) \/ \E f : PushStep(f)
<1> SUFFICES ASSUME Core, LoadRequired PROVE (\E g : TopStep(g)) \/ \E f : PushStep(f)
  OBVIOUS
<1> DEFINE f == FileFrame(Next1, "required")
<1>1. /\ calls # <<>> /\ Top.kind = "etac" /\ Top.pc = "load" /\ Top.todo # <<>> /\ compiled' = compiled
      /\ forms' = forms /\ executed' = executed /\ reserved' = reserved /\ loading' = loading /\ indexed' = indexed
      /\ home' = home /\ spent' = spent
  BY DEF LoadRequired, Imports, linking, caches
<1>2. \/ Head(Top.todo) \in executed /\ calls' = Append(Front(calls), [Top EXCEPT !.todo = Tail(Top.todo)])
      \/ Next1 \notin executed /\ Next1 \in DOMAIN Disk /\ calls' = Append(calls, f)
  BY DEF LoadRequired, Replace, Push, Next1
<1>3. Top.via # "eval" /\ spent \in Counters
  BY <1>1, TopFacts DEF FrameOK, Core, IndexOK
<1>4. CASE Head(Top.todo) \in executed /\ calls' = Append(Front(calls), [Top EXCEPT !.todo = Tail(Top.todo)])
  BY <1>1, <1>3, <1>4, Skipped
<1>5. CASE Next1 \notin executed /\ Next1 \in DOMAIN Disk /\ calls' = Append(calls, f)
  <2>1. /\ FrameOK(f) /\ f.pc = "load" /\ f.via = "required" /\ f.key = Next1 /\ f.guard = {}
        /\ f.kind = "etac" => Disk[Next1].artifact
        /\ IsSeq(f.todo) /\ ToSet(f.todo) = ImportsOf(Disk[Next1].form) /\ \A i \in DOMAIN f.new : Fine(f.new[i])
    BY <1>5, FileFrameOK
  <2>2. calls' = Append(calls, f)
    BY <1>5
  <2> HIDE DEF f
  <2>5. Fresh(f)
    BY <1>1, <1>5, <2>1 DEF Fresh, Keyed, Next1
  <2>3. PushStep(f)
    BY <1>1, <1>3, <2>1, <2>2, <2>5 DEF PushStep
  <2>4. QED
    BY <2>3
<1>6. QED
  BY <1>2, <1>4, <1>5

\* Guarded: the modules whose program runs and that do not count as executed.
LEMMA GuardedNames == ASSUME Core PROVE Guarded \cap executed = {} /\ Guarded \subseteq NamesOf(forms)
<1>1. ASSUME NEW g \in Guarded PROVE g \in NamesOf(forms) \ executed
  <2>1. PICK i \in DOMAIN calls : calls[i].kind = "source" /\ RunsProgram(calls[i]) /\ g = Head(calls[i].sem).name /\ g \notin executed
    BY <1>1 DEF Guarded, Active
  <2>2. IsSeq(calls[i].sem) /\ calls[i].sem # <<>>
    BY <2>1 DEF Core, StackOK, FrameOK
  <2>3. Head(calls[i].sem) = calls[i].sem[1] /\ 1 \in DOMAIN calls[i].sem
    <3>1. DOMAIN calls[i].sem = 1..Len(calls[i].sem) /\ Len(calls[i].sem) \in Nat /\ Len(calls[i].sem) >= 1
      BY <2>2, SeqShape
    <3>2. Head(calls[i].sem) = calls[i].sem[1]
      BY <2>2, Tailed
    <3>3. QED
      BY <3>1, <3>2
  <2>4. Started(calls[i])
    BY <2>1 DEF Started, RunsProgram
  <2>5. PICK x \in DOMAIN forms : forms[x].name = calls[i].sem[1].name
    BY <2>3, <2>4 DEF Core, FormsOK
  <2>6. QED
    BY <2>1, <2>3, <2>5 DEF NamesOf
<1>2. QED
  BY <1>1

LEMMA EvalSteps == Core /\ Eval => \E f : PushStep(f)
<1> SUFFICES ASSUME Core, Eval PROVE \E f : PushStep(f)
  OBVIOUS
<1> DEFINE new == <<EvalForm(spent.evals)>>
           guard == Guarded
           key == ""
           f == Frame("source", "eval", key, new, guard)
<1>1. /\ calls # <<>> /\ RunsProgram(Top) /\ spent.evals < MaxEvals /\ executed' = executed \cup guard
      /\ spent' = [spent EXCEPT !.evals = @ + 1]
      /\ forms' = forms /\ reserved' = reserved /\ loading' = loading /\ indexed' = indexed /\ home' = home
      /\ compiled' = compiled
  BY DEF Eval, Programs, caches
<1>2. calls' = Append(calls, f)
  BY DEF Eval, Push, EvalForm
<1>3. guard \cap executed = {} /\ guard \subseteq NamesOf(forms)
  BY GuardedNames
<1>4. Top.kind = "source" /\ Top.pc \in {"init", "defined"} => HeadName(Top) \in guard
  <2>1. ASSUME Top.kind = "source", Top.pc \in {"init", "defined"} PROVE HeadName(Top) \in guard
    <3>1. /\ Len(calls) \in DOMAIN calls /\ Top = calls[Len(calls)] /\ IsSeq(Top.sem) /\ Top.sem # <<>>
      BY <1>1, TopFacts
    <3>2. HeadName(Top) \notin executed
      BY <2>1, <3>1 DEF Core, HeadsOK
    <3>3. Head(Top.sem).name = HeadName(Top)
      BY <3>1, Tailed DEF HeadName
    <3>4. HeadName(Top) \in Active
      BY <1>1, <2>1, <3>1, <3>3 DEF Active
    <3>5. QED
      BY <3>2, <3>4 DEF Guarded
  <2>2. QED
    BY <2>1
<1>5. ImportedBy(new) = <<>> /\ IsSeq(new) /\ \A i \in DOMAIN new : Fine(new[i])
  <2>1. EvalForm(spent.evals).imports = <<>>
    BY DEF EvalForm, Form
  <2>2. Fine(EvalForm(spent.evals))
    BY <2>1, EmptyIsSeq, SeqShape DEF Fine, ImportsOf
  <2>3. QED
    BY <2>1, <2>2, NothingImported, SingleSeq
<1>12. key = NoKey
  BY DEF NoKey
<1>6. spent.evals \in 0 .. MaxEvals /\ spent' \in Counters
  <2>1. spent \in Counters /\ MaxEvals \in Nat
    BY SessionAssumption DEF Core, IndexOK, SessionAssumption
  <2>2. QED
    BY <1>1, <2>1 DEF Counters
<1>7. \E n \in 0 .. MaxEvals : new = <<EvalForm(n)>>
  BY <1>6
<1> HIDE DEF new, guard, key
<1>8. /\ f = FrameOf(f) /\ f.kind = "source" /\ f.via = "eval" /\ f.key = key /\ f.new = new /\ f.guard = guard
      /\ f.todo = ImportedBy(new) /\ f.pc = "load" /\ f.base = 0 /\ f.sem = <<>> /\ ~RunsProgram(f)
  BY NewFrame
<1> HIDE DEF f
<1>9. FrameOK(f)
  <2>1. IsSeq(f.sem) /\ IsSeq(f.new) /\ f.base \in Nat /\ f.todo = <<>>
    BY <1>5, <1>8, EmptyIsSeq
  <2>2. QED
    BY <1>7, <1>8, <2>1 DEF FrameOK
<1>13. Fresh(f)
  BY <1>5, <1>8, <1>12 DEF Fresh, Keyed
<1>10. PushStep(f)
  BY <1>1, <1>2, <1>3, <1>4, <1>6, <1>8, <1>9, <1>13 DEF PushStep
<1>11. QED
  BY <1>10

-----------------------------------------------------------------------------
(* Calls that end, and calls that fail.                                    *)

LEMMA WholeForms == ASSUME Core PROVE SubSeq(forms, 1, Len(forms)) = forms /\ Len(forms) \in 0 .. Len(forms) /\ DOMAIN forms = 1..Len(forms)
<1> DEFINE X == ToSet(forms)
<1>1. forms \in Seq(X)
  BY DEF Core, FormsOK, IsSeq
<1> HIDE DEF X
<1>2. QED
  BY <1>1, SubSeqFull, LenProperties

LEMMA ReturnSteps == Core /\ Return => \E k, b : PopStep(k, b)
<1> SUFFICES ASSUME Core, Return PROVE \E k, b : PopStep(k, b)
  OBVIOUS
<1> DEFINE n == Len(calls)
           b == Len(forms)
<1>1. /\ calls # <<>> /\ Top.pc = "run" /\ Pending(Top.sem) = {} /\ calls' = Front(calls) /\ executed' = executed \ Top.guard
      /\ loading' = (IF Top.via = "auto" THEN loading \ {Top.key} ELSE loading)
      /\ forms' = forms /\ reserved' = reserved /\ indexed' = indexed /\ home' = home /\ spent' = spent
  BY DEF Return
<1>2. /\ n \in Nat /\ n \in 1..n /\ DOMAIN calls = 1..n /\ Top = calls[n] /\ FrameOK(Top)
  BY <1>1, TopFacts
<1>3. forms' = SubSeq(forms, 1, b) /\ b \in 0..b /\ DOMAIN forms = 1..b
  BY <1>1, WholeForms
<1>4. StackOK /\ FormsOK /\ Covered /\ GuardsOK /\ LoadsOK /\ IndexOK
  BY DEF Core
<1>5. spent' \in Counters
  BY <1>1, <1>4 DEF IndexOK
<1>6. calls' = SubSeq(calls, 1, n - 1)
  BY <1>1 DEF Front
<1>7. loading' = loading \ {calls[j].key : j \in {i \in DOMAIN calls : n <= i /\ calls[i].via = "auto"}}
  <2>1. {i \in DOMAIN calls : n <= i /\ calls[i].via = "auto"} = IF Top.via = "auto" THEN {n} ELSE {}
    BY <1>2
  <2>2. QED
    BY <1>1, <1>2, <2>1
<1>8. ASSUME NEW x \in 1..b PROVE forms[x].name \in Real \/ \E j \in DOMAIN calls : j < n /\ CoveredBy(j, x)
  <2>1. SUFFICES ASSUME CoveredBy(n, x) PROVE forms[x].name \in Real
    <3>1. forms[x].name \in Real \/ \E j \in DOMAIN calls : CoveredBy(j, x)
      BY <1>3, <1>4 DEF Covered
    <3>2. \A j \in DOMAIN calls : j = n \/ j < n
      BY <1>2
    <3>3. QED
      BY <2>1, <3>1, <3>2
  <2>2. Started(Top) /\ Within(Top, x) /\ forms[x].name \in NamesOf(Top.sem)
    BY <1>2, <2>1 DEF CoveredBy
  <2>3. forms[x].name \in executed
    BY <1>1, <2>2 DEF NamesOf, Pending
  <2>4. forms[x].name \notin Guards
    BY <1>1, <1>3, <1>4, <2>2, WindowUnguarded
  <2>5. QED
    BY <2>3, <2>4 DEF Real
<1>9. \A j \in DOMAIN calls : j < n /\ Started(calls[j]) => calls[j].base + Len(calls[j].new) <= b
  BY <1>4 DEF FormsOK
<1>10. ASSUME NEW m \in indexed
       PROVE  \/ \E j \in DOMAIN calls : j < n /\ calls[j].via = "hydrate" /\ calls[j].key = m
              \/ \E x \in 1..b : forms[x].name = m /\ \A j \in DOMAIN calls : j < n /\ Started(calls[j]) => x <= calls[j].base
  <2>1. CASE Placed(m)
    BY <1>3, <2>1 DEF Placed
  <2>2. CASE m \in KeysVia("hydrate")
    <3>1. PICK j \in DOMAIN calls : calls[j].via = "hydrate" /\ calls[j].key = m
      BY <2>2 DEF KeysVia
    <3>2. SUFFICES ASSUME j = n PROVE \E x \in 1..b : forms[x].name = m /\ \A i \in DOMAIN calls : i < n /\ Started(calls[i]) => x <= calls[i].base
      BY <1>2, <3>1
    <3>3. \A i \in DOMAIN calls : i < n => ~Started(calls[i])
      BY <1>2, <1>4, <3>1, <3>2 DEF StackOK, Started
    <3>4. Top.new = <<Disk[m].form>> /\ Disk[m].form.name = m /\ Started(Top) /\ Top.base \in Nat
      BY <1>1, <1>2, <3>1, <3>2, SessionAssumption DEF FrameOK, Started, SessionAssumption
    <3>5. Len(Top.new) = 1 /\ Top.new[1] = Disk[m].form
      BY <3>4, SingleSeq
    <3>6. Top.base + 1 <= b /\ forms[Top.base + 1] = Top.new[1]
      <4>1. /\ Top.base + Len(Top.new) <= Len(forms)
            /\ \A i \in 1..Len(Top.new) : forms[Top.base + i] = Top.new[i]
        BY <1>2, <1>4, <3>4 DEF FormsOK
      <4>2. 1 \in 1..Len(Top.new)
        BY <3>5
      <4>3. QED
        BY <3>5, <4>1, <4>2
    <3>7. Top.base + 1 \in 1..b
      BY <1>3, <3>4, <3>6
    <3>8. QED
      BY <3>3, <3>4, <3>5, <3>6, <3>7
  <2>3. QED
    BY <1>4, <2>1, <2>2 DEF IndexOK
<1>11. \A j \in DOMAIN calls : j < n /\ calls[j].via = "hydrate" => calls[j].key \in indexed'
  BY <1>1, <1>4 DEF LoadsOK, KeysVia
<1>12. /\ n \in DOMAIN calls /\ executed' = executed \ calls[n].guard /\ \A j \in DOMAIN calls : n < j => calls[j].guard = {}
  BY <1>1, <1>2
<1>15. DOMAIN compiled' \subseteq DOMAIN compiled \cup {calls[j].key : j \in {i \in DOMAIN calls : Finished(calls[i])}}
  <2>1. CASE Top.kind = "etac"
    <3>1. compiled' = Updated(compiled, Top.new[1].name, Top.new[1].exports)
      BY <2>1 DEF Return
    <3>2. DOMAIN compiled' = DOMAIN compiled \cup {Top.new[1].name}
      BY <3>1 DEF Updated
    <3>3. Top.key \in DOMAIN Disk /\ Top.new = <<Disk[Top.key].form>>
      BY <1>2, <2>1 DEF FrameOK
    <3>4. Top.new[1].name = Top.key
      BY <3>3, SingleSeq, SessionAssumption DEF SessionAssumption
    <3>5. Finished(Top)
      BY <1>1, <2>1 DEF Finished
    <3>6. QED
      BY <1>2, <3>2, <3>4, <3>5
  <2>2. CASE Top.kind # "etac"
    BY <2>2 DEF Return
  <2>3. QED
    BY <2>1, <2>2
<1>16. b = Len(forms)
  OBVIOUS
<1>13. PopStep(n, b)
  BY <1>1, <1>3, <1>5, <1>6, <1>7, <1>8, <1>9, <1>10, <1>11, <1>12, <1>15, <1>16 DEF PopStep
<1>14. QED
  BY <1>13

\* A failure ends the innermost call, or it and all below when none of those runs.
LEMMA AbortEnds ==
  ASSUME StackOK, calls # <<>>, NEW fs, Abort(fs)
  PROVE  \E k \in DOMAIN calls :
           /\ calls[k].via \in {"user", "eval"} /\ \A j \in DOMAIN calls : k < j => calls[j].via \notin {"user", "eval"}
           /\ k = Len(calls) \/ \A j \in DOMAIN calls : j < Len(calls) => calls[j].pc = "load"
           /\ k # Len(calls) => k = 1
           /\ forms' = fs /\ executed' = executed \ calls[k].guard /\ calls' = SubSeq(calls, 1, k - 1)
           /\ loading' = loading \ {calls[j].key : j \in {i \in DOMAIN calls : k <= i /\ calls[i].via = "auto"}}
           /\ indexed' = indexed \ {calls[j].key : j \in {i \in DOMAIN calls : k <= i /\ calls[i].via = "hydrate"}}
           /\ reserved' = reserved /\ home' = home /\ compiled' = compiled
<1> DEFINE n == Len(calls)
           Ends(i) == /\ calls[i].via \in {"user", "eval"}
                      /\ \A j \in i + 1 .. Len(calls) : calls[j].via \notin {"user", "eval"}
           k == CHOOSE i \in DOMAIN calls : Ends(i)
<1>1. /\ n \in Nat /\ DOMAIN calls = 1..n /\ n \in 1..n
      /\ \A i \in 1..n : i = 1 <=> calls[i].via = "user"
      /\ \A i, j \in 1..n : i < j /\ calls[j].via # "eval" => calls[i].pc = "load" /\ calls[i].via # "eval"
  BY FrameFacts
<1>2. /\ forms' = fs /\ executed' = executed \ calls[k].guard /\ calls' = SubSeq(calls, 1, k - 1)
      /\ loading' = loading \ {calls[j].key : j \in {i \in k .. n : calls[i].via = "auto"}}
      /\ indexed' = indexed \ {calls[j].key : j \in {i \in k .. n : calls[i].via = "hydrate"}}
      /\ reserved' = reserved /\ home' = home /\ compiled' = compiled
  BY DEF Abort
<1> HIDE DEF n
<1>3. \E i \in DOMAIN calls : Ends(i)
  <2>1. CASE calls[n].via = "eval"
    <3>1. n + 1 .. n = {}
      BY <1>1
    <3>2. Ends(n)
      BY <2>1, <3>1 DEF n
    <3>3. QED
      BY <1>1, <3>2
  <2>2. CASE calls[n].via # "eval"
    <3>1. 1 \in 1..n /\ \A j \in 1 + 1 .. n : j \in 1..n /\ j # 1 /\ (j = n \/ j < n)
      BY <1>1
    <3>2. calls[1].via = "user"
      BY <1>1, <3>1
    <3>3. \A j \in 1 + 1 .. n : calls[j].via \notin {"user", "eval"}
      BY <1>1, <2>2, <3>1
    <3>4. Ends(1)
      BY <3>2, <3>3 DEF n
    <3>5. QED
      BY <1>1, <3>1, <3>4
  <2>3. QED
    BY <2>1, <2>2
<1>4. k \in DOMAIN calls /\ Ends(k)
  <2> HIDE DEF Ends
  <2>1. QED
    BY <1>3
<1> HIDE DEF k
<1>5. calls[k].via \in {"user", "eval"} /\ \A j \in k + 1 .. n : calls[j].via \notin {"user", "eval"}
  BY <1>4 DEF n
<1>6. \A j \in DOMAIN calls : k < j => j \in k + 1 .. n
  BY <1>1, <1>4
<1>7. \A i : i \in k .. n <=> i \in DOMAIN calls /\ k <= i
  BY <1>1, <1>4
<1>8. CASE k = n
  BY <1>2, <1>4, <1>5, <1>6, <1>7, <1>8 DEF n
<1>9. CASE k # n
  <2>1. k < n
    BY <1>1, <1>4, <1>9
  <2>2. calls[n].via # "eval"
    BY <1>1, <1>5, <1>6, <2>1
  <2>3. \A j \in DOMAIN calls : j < n => calls[j].pc = "load"
    BY <1>1, <2>2
  <2>4. calls[k].via # "eval"
    BY <1>1, <1>4, <2>1, <2>2
  <2>5. k = 1
    BY <1>1, <1>4, <1>5, <2>4
  <2>6. QED
    BY <1>2, <1>4, <1>5, <1>6, <1>7, <2>3, <2>5 DEF n
<1>10. QED
  BY <1>8, <1>9

LEMMA AbortSteps ==
  ASSUME Core, calls # <<>>, spent' \in Counters, NEW b \in 0..Len(forms), Abort(SubSeq(forms, 1, b)),
         \A x \in 1..b : forms[x].name \in Real \/ \E j \in DOMAIN calls : j < Len(calls) /\ CoveredBy(j, x),
         \A j \in DOMAIN calls : j < Len(calls) /\ Started(calls[j]) => calls[j].base + Len(calls[j].new) <= b,
         \A m \in indexed : Placed(m) =>
           \E x \in 1..b : forms[x].name = m /\ \A j \in DOMAIN calls : j < Len(calls) /\ Started(calls[j]) => x <= calls[j].base,
         b = Len(forms) \/ \E j \in DOMAIN calls : Started(calls[j]) /\ b = calls[j].base
  PROVE  \E k, c : PopStep(k, c)
<1> DEFINE n == Len(calls)
<1>1. StackOK /\ FormsOK /\ Covered /\ GuardsOK /\ LoadsOK /\ IndexOK
  BY DEF Core
<1>2. PICK k \in DOMAIN calls :
        /\ calls[k].via \in {"user", "eval"} /\ \A j \in DOMAIN calls : k < j => calls[j].via \notin {"user", "eval"}
        /\ k = Len(calls) \/ \A j \in DOMAIN calls : j < Len(calls) => calls[j].pc = "load"
        /\ k # Len(calls) => k = 1
        /\ forms' = SubSeq(forms, 1, b) /\ executed' = executed \ calls[k].guard /\ calls' = SubSeq(calls, 1, k - 1)
        /\ loading' = loading \ {calls[j].key : j \in {i \in DOMAIN calls : k <= i /\ calls[i].via = "auto"}}
        /\ indexed' = indexed \ {calls[j].key : j \in {i \in DOMAIN calls : k <= i /\ calls[i].via = "hydrate"}}
        /\ reserved' = reserved /\ home' = home /\ compiled' = compiled
  BY <1>1, AbortEnds
<1>3. n \in Nat /\ DOMAIN calls = 1..n /\ k \in 1..n /\ \A i \in 1..n : FrameOK(calls[i])
  BY <1>1, FrameFacts
<1>4. \A j \in DOMAIN calls : j < k => j < n
  BY <1>3
<1>5. \A j \in DOMAIN calls : j < n /\ Started(calls[j]) => k = n
  BY <1>2 DEF Started
<1>6. \A x \in 1..b : forms[x].name \in Real \/ \E j \in DOMAIN calls : j < k /\ CoveredBy(j, x)
  BY <1>5 DEF CoveredBy
<1>7. \A j \in DOMAIN calls : j < k /\ Started(calls[j]) => calls[j].base + Len(calls[j].new) <= b
  BY <1>4
<1>8. \A j \in DOMAIN calls : k < j => calls[j].guard = {}
  BY <1>2, <1>3 DEF FrameOK
<1>9. indexed' \subseteq indexed
  BY <1>2
<1>10. ASSUME NEW j \in DOMAIN calls, j < k, calls[j].via = "hydrate" PROVE calls[j].key \in indexed'
  <2>1. calls[j].key \in indexed
    BY <1>1, <1>10 DEF LoadsOK, KeysVia
  <2>2. \A i \in DOMAIN calls : k <= i => i # j
    BY <1>3, <1>10
  <2>3. \A i \in DOMAIN calls : k <= i /\ calls[i].via = "hydrate" => calls[i].key # calls[j].key
    BY <1>1, <1>10, <2>2 DEF LoadsOK
  <2>4. QED
    BY <1>2, <2>1, <2>3
<1>11. ASSUME NEW m \in indexed'
       PROVE  \/ \E j \in DOMAIN calls : j < k /\ calls[j].via = "hydrate" /\ calls[j].key = m
              \/ \E x \in 1..b : forms[x].name = m /\ \A j \in DOMAIN calls : j < k /\ Started(calls[j]) => x <= calls[j].base
  <2>1. m \in indexed /\ m \notin {calls[j].key : j \in {i \in DOMAIN calls : k <= i /\ calls[i].via = "hydrate"}}
    BY <1>2
  <2>2. CASE Placed(m)
    BY <1>4, <2>1, <2>2
  <2>3. CASE m \in KeysVia("hydrate")
    <3>1. PICK j \in DOMAIN calls : calls[j].via = "hydrate" /\ calls[j].key = m
      BY <2>3 DEF KeysVia
    <3>2. ~(k <= j)
      BY <2>1, <3>1
    <3>3. j < k
      BY <1>3, <3>2
    <3>4. QED
      BY <3>1, <3>3
  <2>4. QED
    BY <1>1, <2>1, <2>2, <2>3 DEF IndexOK
<1>12. PopStep(k, b)
  BY <1>2, <1>6, <1>7, <1>8, <1>9, <1>10, <1>11 DEF PopStep
<1>13. QED
  BY <1>12

\* No form is the failing call's own.
LEMMA LoadFails ==
  ASSUME Core, calls # <<>>, spent' \in Counters, ~Started(Top), Abort(forms) PROVE \E k, c : PopStep(k, c)
<1> DEFINE n == Len(calls)
           b == Len(forms)
<1>1. SubSeq(forms, 1, b) = forms /\ b \in 0..b /\ DOMAIN forms = 1..b
  BY WholeForms
<1>2. n \in Nat /\ DOMAIN calls = 1..n /\ Top = calls[n]
  BY TopFacts
<1>3. Abort(SubSeq(forms, 1, b))
  BY <1>1
<1>4. \A j \in DOMAIN calls : j = n \/ j < n
  BY <1>2
<1>5. \A x \in 1..b : forms[x].name \in Real \/ \E j \in DOMAIN calls : j < n /\ CoveredBy(j, x)
  BY <1>1, <1>2, <1>4 DEF Core, Covered, CoveredBy
<1>6. \A j \in DOMAIN calls : j < n /\ Started(calls[j]) => calls[j].base + Len(calls[j].new) <= b
  BY DEF Core, FormsOK
<1>7. \A m \in indexed : Placed(m) =>
        \E x \in 1..b : forms[x].name = m /\ \A j \in DOMAIN calls : j < n /\ Started(calls[j]) => x <= calls[j].base
  BY <1>1 DEF Placed
<1>8. b = Len(forms)
  OBVIOUS
<1>9. QED
  BY <1>1, <1>3, <1>5, <1>6, <1>7, <1>8, AbortSteps

LEMMA ImportCycleSteps == Core /\ ImportCycle => \E k, b : PopStep(k, b)
<1> SUFFICES ASSUME Core, ImportCycle PROVE \E k, b : PopStep(k, b)
  OBVIOUS
<1>1. calls # <<>> /\ Top.pc = "load" /\ Abort(forms) /\ spent' = spent
  BY DEF ImportCycle, Imports
<1>2. ~Started(Top) /\ spent' \in Counters
  BY <1>1 DEF Started, Core, IndexOK
<1>3. QED
  BY <1>1, <1>2, LoadFails

LEMMA RequiredMissingSteps == Core /\ RequiredMissing => \E k, b : PopStep(k, b)
<1> SUFFICES ASSUME Core, RequiredMissing PROVE \E k, b : PopStep(k, b)
  OBVIOUS
<1>1. calls # <<>> /\ Top.pc = "load" /\ Abort(forms) /\ spent' = spent
  BY DEF RequiredMissing, Imports
<1>2. ~Started(Top) /\ spent' \in Counters
  BY <1>1 DEF Started, Core, IndexOK
<1>3. QED
  BY <1>1, <1>2, LoadFails

LEMMA ProgramFailsSteps == Core /\ ProgramFails => \E k, b : PopStep(k, b)
<1> SUFFICES ASSUME Core, ProgramFails PROVE \E k, b : PopStep(k, b)
  OBVIOUS
<1> DEFINE n == Len(calls)
<1>1. Abort(RolledBack)
  BY DEF ProgramFails
<1>2. calls # <<>> /\ RunsProgram(Top) /\ spent' = [spent EXCEPT !.failures = @ + 1]
  BY DEF ProgramFails, Programs
<1>3. spent' \in Counters
  <2>1. spent \in Counters
    BY DEF Core, IndexOK
  <2>2. QED
    BY <1>2, <2>1 DEF Counters
<1>4. n \in Nat /\ n \in DOMAIN calls /\ DOMAIN calls = 1..n /\ Top = calls[n] /\ Top.base \in Nat /\ FrameOK(Top)
  BY <1>2, TopFacts
<1>5. CASE Top.kind = "source"
  <2> DEFINE b == Top.base
  <2>1. Started(Top)
    BY <1>2, <1>5 DEF Started, RunsProgram
  <2>2. DOMAIN forms = 1..Len(forms) /\ Len(forms) \in Nat /\ IsSeq(Top.new) /\ Len(Top.new) \in Nat
    BY <1>4, SeqShape DEF Core, FormsOK, FrameOK
  <2>3. b + Len(Top.new) <= Len(forms)
    BY <1>4, <2>1 DEF Core, FormsOK
  <2>4. b \in 0..Len(forms) /\ Abort(SubSeq(forms, 1, b))
    BY <1>1, <1>4, <1>5, <2>2, <2>3 DEF RolledBack
  <2>5. \A j \in DOMAIN calls : j = n \/ j < n
    BY <1>4
  <2>6. \A x \in 1..b : ~CoveredBy(n, x) /\ x \in DOMAIN forms
    <3>1. \A x \in 1..b : ~(b < x) /\ x \in 1..Len(forms)
      BY <1>4, <2>2, <2>4
    <3>2. QED
      BY <1>4, <2>2, <3>1 DEF CoveredBy, Within
  <2>7. \A x \in 1..b : forms[x].name \in Real \/ \E j \in DOMAIN calls : j < n /\ CoveredBy(j, x)
    BY <2>5, <2>6 DEF Core, Covered
  <2>8. \A j \in DOMAIN calls : j < n /\ Started(calls[j]) => calls[j].base + Len(calls[j].new) <= b
    BY <1>4, <2>1 DEF Core, FormsOK
  <2>9. \A m \in indexed : Placed(m) =>
          \E x \in 1..b : forms[x].name = m /\ \A j \in DOMAIN calls : j < n /\ Started(calls[j]) => x <= calls[j].base
    <3>1. ASSUME NEW m \in indexed, Placed(m)
          PROVE  \E x \in 1..b : forms[x].name = m /\ \A j \in DOMAIN calls : j < n /\ Started(calls[j]) => x <= calls[j].base
      <4>1. PICK x \in DOMAIN forms : forms[x].name = m /\ \A j \in DOMAIN calls : Started(calls[j]) => x <= calls[j].base
        BY <3>1 DEF Placed
      <4>2. x <= b
        BY <1>4, <2>1, <4>1
      <4>3. x \in 1..b
        BY <1>4, <2>2, <4>2
      <4>4. QED
        BY <4>1, <4>3
    <3>2. QED
      BY <3>1
  <2>11. Started(calls[n]) /\ b = calls[n].base
    BY <1>4, <2>1
  <2>10. QED
    BY <1>2, <1>3, <1>4, <2>4, <2>7, <2>8, <2>9, <2>11, AbortSteps
<1>6. CASE Top.kind # "source"
  <2>1. ~Started(Top) /\ Abort(forms)
    BY <1>1, <1>6 DEF Started, RolledBack
  <2>2. QED
    BY <1>2, <1>3, <2>1, LoadFails
<1>7. QED
  BY <1>5, <1>6

-----------------------------------------------------------------------------
(* Imports that are hydrated.                                              *)

\* Without: what is left of the forms.
LEMMA WithoutForms ==
  ASSUME IsSeq(forms), NEW names
  PROVE  /\ IsSeq(Without(names)) /\ NamesOf(Without(names)) = NamesOf(forms) \ names
         /\ Without(names) \in Seq(ToSet(forms))
<1> DEFINE n == Len(forms)
           X == ToSet(forms)
           U == Seq(X)
           Op(s, f) == Keep(names, s, f)
           op == [i \in DOMAIN forms |-> [s \in U |-> Op(s, forms[i])]]
           pick == [s \in SUBSET DOMAIN forms |-> Max(s)]
           Value(f, s) == IF s = {} THEN <<>> ELSE Op(f[s \ {Max(s)}], forms[Max(s)])
           Kept(f) == f = [s \in SUBSET DOMAIN forms |-> Value(f, s)]
           F == CHOOSE f : Kept(f)
<1>1. n \in Nat /\ DOMAIN forms = 1..n /\ \A i \in 1..n : forms[i] \in X
  BY SeqShape
<1>2. <<>> \in U
  OBVIOUS
<1>3. \A i \in 1..n, s \in U : Op(s, forms[i]) \in U
  BY <1>1 DEF Keep
<1> HIDE DEF n, X, Op
<1>4. \E f : Kept(f)
  <2>1. IsFiniteSet(DOMAIN forms)
    BY <1>1, FS_Interval
  <2>2. op \in [DOMAIN forms -> [U -> U]]
    BY <1>1, <1>3
  <2>3. \A s \in SUBSET DOMAIN forms : pick[s] = Max(s) /\ (s # {} => pick[s] \in s)
    BY <1>1, Extremes
  <2>4. \A i \in DOMAIN forms, s \in U : op[i][s] = Op(s, forms[i])
    OBVIOUS
  <2> HIDE DEF pick, op, U
  <2>5. PICK f \in [SUBSET DOMAIN forms -> U] : Folds(f, DOMAIN forms, <<>>, pick, op)
    BY <1>2, <2>1, <2>2, <2>3, FoldExists
  <2>6. ASSUME NEW s \in SUBSET DOMAIN forms PROVE f[s] = Value(f, s)
    <3>1. f[s] = IF s = {} THEN <<>> ELSE op[pick[s]][f[s \ {pick[s]}]]
      BY <2>5 DEF Folds
    <3>2. s # {} => Max(s) \in DOMAIN forms /\ f[s \ {Max(s)}] \in U
      BY <2>3, <2>5
    <3>3. QED
      BY <2>3, <2>4, <3>1, <3>2
  <2>7. f = [s \in SUBSET DOMAIN forms |-> f[s]]
    BY <2>5
  <2> HIDE DEF Value
  <2>8. Kept(f)
    BY <2>6, <2>7
  <2>9. QED
    BY <2>8
<1>5. Without(names) = F[DOMAIN forms]
  BY DEF Without, FoldLeft, MapThenFoldSet, Op
<1>6. Kept(F)
  <2> HIDE DEF Kept
  <2>1. QED
    BY <1>4
<1>7. \A s \in SUBSET DOMAIN forms : F[s] = Value(F, s)
  <2> HIDE DEF F, Value
  <2>1. QED
    BY <1>6
<1> HIDE DEF F
<1> DEFINE P == {i \in 0..n : F[1..i] \in U /\ NamesOf(F[1..i]) = {forms[x].name : x \in 1..i} \ names}
<1>8. 0 \in P
  <2>1. F[{}] = <<>>
    <3>1. F[{}] = Value(F, {})
      <4> HIDE DEF Value
      <4>1. {} \in SUBSET DOMAIN forms
        OBVIOUS
      <4>2. QED
        BY <1>7, <4>1
    <3>2. QED
      BY <3>1
  <2>2. 1..0 = {} /\ 0 \in 0..n
    BY <1>1
  <2>3. NamesOf(<<>>) = {}
    BY DEF NamesOf
  <2>4. {forms[x].name : x \in 1..0} = {}
    BY <2>2
  <2>5. F[1..0] = <<>>
    BY <2>1, <2>2
  <2>6. QED
    BY <1>2, <2>2, <2>3, <2>4, <2>5
<1>9. ASSUME NEW i \in 0..n, i \in P, i < n PROVE i + 1 \in P
  <2> DEFINE s == F[1..i]
             e == forms[i + 1]
             t == F[1..(i + 1)]
  <2>1. s \in U /\ NamesOf(s) = {forms[x].name : x \in 1..i} \ names
    BY <1>9
  <2>2. i + 1 \in 1..n /\ i + 1 \in 0..n /\ 1..(i + 1) = (1..i) \cup {i + 1} /\ (i + 1) - 1 = i
    BY <1>1, <1>9
  <2>3. t = Op(s, e)
    <3>1. 1..(i + 1) # {} /\ Max(1..(i + 1)) = i + 1 /\ (1..(i + 1)) \ {i + 1} = 1..i
      BY <1>1, <2>2, MaxOfSegment
    <3>2. 1..(i + 1) \in SUBSET DOMAIN forms
      BY <1>1, <2>2
    <3>3. t = Value(F, 1..(i + 1))
      <4> HIDE DEF Value
      <4>1. QED
        BY <1>7, <3>2
    <3>4. QED
      BY <3>1, <3>3
  <2>4. t \in U
    BY <1>3, <2>1, <2>2, <2>3
  <2>5. {forms[x].name : x \in 1..(i + 1)} = {forms[x].name : x \in 1..i} \cup {e.name}
    BY <2>2
  <2> HIDE DEF s, e
  <2>6. NamesOf(t) = {forms[x].name : x \in 1..(i + 1)} \ names
    <3>1. CASE e.name \in names
      BY <2>1, <2>3, <2>5, <3>1 DEF Op, Keep
    <3>2. CASE e.name \notin names
      <4>1. t = Append(s, e)
        BY <2>3, <3>2 DEF Op, Keep
      <4>2. NamesOf(Append(s, e)) = NamesOf(s) \cup {e.name}
        BY <2>1, SeqFrom, AppendedNames
      <4>3. QED
        BY <2>1, <2>5, <3>2, <4>1, <4>2
    <3>3. QED
      BY <3>1, <3>2
  <2>7. QED
    BY <2>2, <2>4, <2>6
<1>10. n \in P
  <2>1. \A i \in 0..n : i \in P /\ i < n => i + 1 \in P
    BY <1>9
  <2>2. n \in 0..n
    BY <1>1
  <2> HIDE DEF P
  <2>3. QED
    BY <1>1, <1>8, <2>1, <2>2, Climb
<1>11. Without(names) \in U /\ NamesOf(Without(names)) = {forms[x].name : x \in 1..n} \ names
  BY <1>1, <1>5, <1>10
<1>12. QED
  BY <1>1, <1>11, SeqFrom DEF NamesOf, X

\* While a load waits, nothing runs below it.
Quiet ==
  /\ IsSeq(forms) /\ NamesOf(forms) \subseteq executed
  /\ \A i \in DOMAIN calls : calls[i].guard = {} /\ (calls[i].kind = "source" => calls[i].pc = "load")

LEMMA QuietBelow ==
  ASSUME Core, calls # <<>>, Top.pc = "load", Top.via # "eval"
  PROVE  Quiet /\ Guards = {} /\ \A i \in DOMAIN calls : ~Started(calls[i])
<1> DEFINE n == Len(calls)
<1>1. /\ n \in Nat /\ DOMAIN calls = 1..n /\ n \in 1..n /\ Top = calls[n]
      /\ \A i \in 1..n : FrameOK(calls[i])
      /\ \A i, j \in 1..n : i < j /\ calls[j].via # "eval" => calls[i].pc = "load" /\ calls[i].via # "eval"
  <2>1. StackOK
    BY DEF Core
  <2>2. QED
    BY <2>1, FrameFacts DEF Top
<1> HIDE DEF n
<1>2. \A i \in 1..n : i = n \/ i < n
  <2>1. n \in Nat
    BY <1>1
  <2>2. QED
    BY ONLY <2>1
<1>3. \A i \in 1..n : calls[i].pc = "load" /\ calls[i].via # "eval"
  BY <1>1, <1>2
<1>4. \A i \in 1..n : calls[i].guard = {} /\ ~Started(calls[i])
  BY <1>1, <1>3 DEF FrameOK, Started
<1>5. Guards = {}
  BY <1>1, <1>4 DEF Guards
<1>6. NamesOf(forms) \subseteq executed
  <2>1. \A x \in DOMAIN forms : forms[x].name \in Real
    BY <1>1, <1>4 DEF Core, Covered, CoveredBy
  <2>2. QED
    BY <2>1 DEF NamesOf, Real
<1>7. QED
  BY <1>1, <1>3, <1>4, <1>5, <1>6 DEF Quiet, Core, FormsOK

LEMMA QuietCore == StackOK /\ Quiet /\ LoadsOK /\ IndexOK => Core
<1> SUFFICES ASSUME StackOK, Quiet, LoadsOK, IndexOK PROVE Core
  OBVIOUS
<1>1. \A i \in DOMAIN calls : ~Started(calls[i]) /\ calls[i].guard = {}
  BY DEF Quiet, Started
<1>2. Guards = {}
  BY <1>1 DEF Guards
<1>3. FormsOK /\ GuardsOK
  BY <1>1 DEF FormsOK, GuardsOK, Quiet
<1>4. Covered
  <2>1. \A x \in DOMAIN forms : forms[x].name \in executed
    BY DEF Quiet, NamesOf
  <2>2. QED
    BY <1>2, <2>1 DEF Covered, Real
<1>5. HeadsOK
  BY DEF HeadsOK, Quiet
<1>6. QED
  BY <1>3, <1>4, <1>5 DEF Core

\* An import is hydrated: what stood for its slots goes, and its source is loaded.
HydrateStep(f) ==
  /\ calls # <<>> /\ Top.kind = "source" /\ Top.pc = "load" /\ Top.via # "eval"
  /\ Next1 \in DOMAIN Disk /\ Next1 \notin indexed /\ indexed' = indexed \cup {Next1}
  /\ calls' = Append(calls, f) /\ loading' = loading /\ home' = home /\ spent' = spent
  /\ forms' = Without(ReservedFor(Next1)) /\ executed' = executed \ ReservedFor(Next1)
  /\ reserved' = [x \in DOMAIN reserved \ {Next1} |-> reserved[x]]
  /\ FrameOK(f) /\ f.pc = "load" /\ f.via = "hydrate" /\ f.key = Next1 /\ f.guard = {} /\ f.kind = "source"
  /\ compiled' = compiled /\ Fresh(f)

LEMMA HydrateImportSteps == Core /\ HydrateImport => \E f : HydrateStep(f)
<1> SUFFICES ASSUME Core, HydrateImport PROVE \E f : HydrateStep(f)
  OBVIOUS
<1> DEFINE m == Next1
           names == ReservedFor(m)
           f == Frame("source", "hydrate", m, <<Disk[m].form>>, {})
<1>1. /\ calls # <<>> /\ Top.kind = "source" /\ Top.pc = "load" /\ Top.todo # <<>>
      /\ m \in DOMAIN Disk /\ m \notin indexed /\ indexed' = indexed \cup {m} /\ calls' = Append(calls, f)
      /\ loading' = loading /\ home' = home /\ spent' = spent /\ compiled' = compiled
  BY DEF HydrateImport, Imports, Hydratable, Push
<1>2. /\ forms' = Without(names) /\ executed' = executed \ names
      /\ reserved' = [x \in DOMAIN reserved \ {m} |-> reserved[x]]
  BY DEF HydrateImport, Release
<1>3. Top.via # "eval"
  BY <1>1, TopFacts DEF FrameOK
<1>4. /\ FrameOK(f) /\ f.pc = "load" /\ f.via = "hydrate" /\ f.key = m /\ f.guard = {} /\ f.kind = "source"
      /\ IsSeq(f.todo) /\ ToSet(f.todo) = ImportsOf(Disk[m].form) /\ \A i \in DOMAIN f.new : Fine(f.new[i])
  BY <1>1, ModuleFrame
<1> HIDE DEF f
<1>5. Fresh(f)
  BY <1>1, <1>4 DEF Fresh, Keyed, Next1
<1>6. HydrateStep(f)
  BY <1>1, <1>2, <1>3, <1>4, <1>5 DEF HydrateStep
<1>7. QED
  BY <1>6

LEMMA HydrateKeeps == ASSUME Core, NEW f, HydrateStep(f) PROVE Core'
<1> DEFINE m == Next1
           names == ReservedFor(m)
<1>1. /\ calls # <<>> /\ Top.kind = "source" /\ Top.pc = "load"
      /\ m \in DOMAIN Disk /\ m \notin indexed /\ indexed' = indexed \cup {m} /\ calls' = Append(calls, f)
      /\ loading' = loading /\ home' = home /\ spent' = spent
  BY DEF HydrateStep
<1>2. /\ forms' = Without(names) /\ executed' = executed \ names
      /\ reserved' = [x \in DOMAIN reserved \ {m} |-> reserved[x]]
  BY DEF HydrateStep
<1>3. Top.via # "eval"
  BY DEF HydrateStep
<1>4. Quiet /\ Guards = {} /\ \A i \in DOMAIN calls : ~Started(calls[i])
  BY <1>1, <1>3, QuietBelow
<1>5. StackOK /\ LoadsOK /\ IndexOK
  BY DEF Core
<1>6. FrameOK(f) /\ f.pc = "load" /\ f.via = "hydrate" /\ f.key = m /\ f.guard = {} /\ f.kind = "source"
  BY DEF HydrateStep
<1>7. /\ DOMAIN calls = 1..Len(calls) /\ Len(calls) \in Nat /\ DOMAIN calls' = 1..(Len(calls) + 1)
      /\ \A i \in 1..(Len(calls) + 1) : (i \in 1..Len(calls) /\ calls'[i] = calls[i]) \/ (i = Len(calls) + 1 /\ calls'[i] = f)
  BY <1>1, <1>5, PushCalls
<1>8. StackOK'
  BY <1>1, <1>3, <1>5, <1>6, PushStackOK
<1>9. \A i \in DOMAIN calls' : calls'[i].guard = {} /\ (calls'[i].kind = "source" => calls'[i].pc = "load")
  BY <1>4, <1>6, <1>7 DEF Quiet
<1>10. IsSeq(forms') /\ NamesOf(forms') = NamesOf(forms) \ names
  BY <1>2, <1>4, WithoutForms DEF Quiet
<1>11. Quiet'
  <2>1. NamesOf(forms') \subseteq executed'
    BY <1>2, <1>4, <1>10 DEF Quiet
  <2>2. QED
    BY <1>9, <1>10, <2>1 DEF Quiet
<1>12. /\ KeysVia("auto")' = KeysVia("auto")
       /\ KeysVia("hydrate")' = KeysVia("hydrate") \cup {m}
  <2>1. \A via : KeysVia(via)' = KeysVia(via) \cup (IF f.via = via THEN {f.key} ELSE {})
    BY <1>1, <1>5, PushKeys
  <2>2. KeysVia("auto")' = KeysVia("auto") \cup (IF f.via = "auto" THEN {f.key} ELSE {})
    BY <2>1
  <2>3. KeysVia("hydrate")' = KeysVia("hydrate") \cup (IF f.via = "hydrate" THEN {f.key} ELSE {})
    BY <2>1
  <2>4. f.via # "auto" /\ f.via = "hydrate" /\ f.key = m
    BY <1>6
  <2> HIDE DEF m
  <2>5. QED
    BY <2>2, <2>3, <2>4
<1>13. LoadsOK'
  <2>1. f.via \in {"auto", "hydrate"} => f.key \notin KeysVia(f.via)
    BY <1>1, <1>5, <1>6 DEF LoadsOK
  <2>2. \A i, j \in DOMAIN calls' : i # j /\ calls'[i].via = calls'[j].via /\ calls'[i].via \in {"auto", "hydrate"}
           => calls'[i].key # calls'[j].key
    BY <1>1, <1>5, <2>1, PushDistinct
  <2>3. loading' = KeysVia("auto")' /\ KeysVia("hydrate")' \subseteq indexed'
    BY <1>1, <1>5, <1>12 DEF LoadsOK
  <2>4. QED
    BY <2>2, <2>3 DEF LoadsOK
<1>14. Guards' = {}
  BY <1>9 DEF Guards
<1>15. \A i \in DOMAIN calls' : ~Started(calls'[i])
  BY <1>9 DEF Started
<1>16. IndexOK'
  <2>1. /\ indexed \subseteq DOMAIN Disk /\ spent \in Counters /\ \A x \in DOMAIN reserved : reserved[x] \subseteq Reserves
        /\ \A x \in indexed : x \in KeysVia("hydrate") \/ Placed(x)
        /\ executed \subseteq DOMAIN home \cup UNION {reserved[x] : x \in DOMAIN reserved}
    BY <1>4, <1>5 DEF IndexOK
  <2>2. names \subseteq Reserves
    BY <2>1 DEF ReservedFor
  <2>3. DOMAIN Disk \cap Reserves = {}
    BY NamesAssumption DEF NamesAssumption, Reserves
  <2>4. ASSUME NEW x \in indexed, Placed(x) PROVE Placed(x)'
    <3>1. x \in NamesOf(forms)
      BY <2>4 DEF Placed, NamesOf
    <3>2. x \in NamesOf(forms')
      BY <1>10, <2>1, <2>2, <2>3, <2>4, <3>1
    <3>3. QED
      BY <1>15, <3>2 DEF Placed, NamesOf
  <2>5. \A x \in DOMAIN reserved' : x \in DOMAIN reserved /\ reserved'[x] = reserved[x]
    BY <1>2
  <2>6. \A x \in DOMAIN reserved : x # m => x \in DOMAIN reserved'
    BY <1>2
  <2>7. ASSUME NEW x \in executed' PROVE x \in DOMAIN home \cup UNION {reserved'[y] : y \in DOMAIN reserved'}
    <3>1. x \in executed /\ x \notin names
      BY <1>2
    <3>2. CASE x \in DOMAIN home
      BY <3>2
    <3>3. CASE x \in UNION {reserved[y] : y \in DOMAIN reserved}
      <4>1. PICK y \in DOMAIN reserved : x \in reserved[y]
        BY <3>3
      <4>2. y # m
        BY <3>1, <4>1 DEF ReservedFor
      <4>3. y \in DOMAIN reserved' /\ x \in reserved'[y]
        BY <2>5, <2>6, <4>1, <4>2
      <4>4. QED
        BY <4>3
    <3>4. QED
      BY <2>1, <3>1, <3>2, <3>3
  <2>8. \A x \in DOMAIN reserved' : reserved'[x] \subseteq Reserves
    BY <2>1, <2>5
  <2>9. \A x \in indexed' : x \in KeysVia("hydrate")' \/ Placed(x)'
    BY <1>1, <1>12, <2>1, <2>4
  <2>10. indexed' \subseteq DOMAIN Disk /\ spent' \in Counters
    BY <1>1, <2>1
  <2>11. executed' \subseteq DOMAIN home' \cup Guards' \cup UNION {reserved'[y] : y \in DOMAIN reserved'}
    BY <1>1, <2>7
  <2>12. QED
    BY <2>8, <2>9, <2>10, <2>11 DEF IndexOK, Counters, Reserves
<1>17. QED
  BY <1>8, <1>11, <1>13, <1>16, QuietCore, PTL

\* The form that stands for the slots of an artifact.
RelocateStep(g, r, m) ==
  /\ calls # <<>> /\ Top.kind = "etac" /\ Top.pc = "load" /\ Top.todo = <<>>
  /\ calls' = Append(Front(calls), g) /\ FrameOK(g) /\ SameLinks(g, Top)
  /\ g.todo = <<>> /\ g.pc = "run" /\ g.sem # <<>> /\ NamesOf(g.sem) = {Top.key}
  /\ spent.reserves < MaxReserves /\ r.name = ReserveName(spent.reserves) /\ r.imports = <<>>
  /\ forms' = Append(forms, r) /\ executed' = executed \cup {r.name}
  /\ reserved' = Updated(reserved, m, ReservedFor(m) \cup {r.name})
  /\ spent' = [spent EXCEPT !.reserves = @ + 1] /\ home' = home
  /\ loading' = loading /\ indexed' = indexed /\ compiled' = compiled

LEMMA RelocateSteps == Core /\ Relocate => (\E k, b : PopStep(k, b)) \/ \E g, r, m : RelocateStep(g, r, m)
<1> SUFFICES ASSUME Core, Relocate PROVE (\E k, b : PopStep(k, b)) \/ \E g, r, m : RelocateStep(g, r, m)
  OBVIOUS
<1>1. calls # <<>> /\ Top.kind = "etac" /\ Top.pc = "load" /\ Top.todo = <<>> /\ spent \in Counters
  BY DEF Relocate, Loaded, Core, IndexOK
<1>2. (\E bindings : Relocated(Disk[Top.key].form, bindings)) \/ (Abort(forms) /\ spent' = spent)
  BY DEF Relocate, RelocateFile
<1>3. CASE Abort(forms) /\ spent' = spent
  <2>1. ~Started(Top)
    BY <1>1 DEF Started
  <2>2. QED
    BY <1>1, <1>3, <2>1, LoadFails
<1>4. ASSUME NEW bindings, Relocated(Disk[Top.key].form, bindings) PROVE \E g, r, m : RelocateStep(g, r, m)
  <2> DEFINE f == Disk[Top.key].form
             m == f.name
             r == Reservation(spent.reserves, Cardinality(f.defined))
             q == Top
  <2>1. /\ spent.reserves < MaxReserves /\ forms' = Append(forms, r) /\ executed' = executed \cup {r.name}
        /\ reserved' = Updated(reserved, m, ReservedFor(m) \cup {r.name})
        /\ spent' = [spent EXCEPT !.reserves = @ + 1] /\ home' = home
        /\ loading' = loading /\ indexed' = indexed /\ compiled' = compiled
    BY <1>4 DEF Relocated, Reserve, caches
  <2>2. PICK slots : calls' = Append(Front(calls), [q EXCEPT !.pc = "run", !.sem = <<Module(f, slots)>>])
    BY <1>4 DEF Relocated, Replace
  <2> DEFINE one == <<Module(f, slots)>>
             g == Moved(q, "run", one)
  <2>3. calls' = Append(Front(calls), g)
    BY <2>2 DEF Moved
  <2>4. FrameOK(q) /\ q = FrameOf(q) /\ q.kind = "etac" /\ q.base \in Nat /\ q.via # "eval" /\ q.key \in DOMAIN Disk
    BY <1>1, TopFacts DEF FrameOK
  <2>5. IsSeq(one) /\ one # <<>> /\ NamesOf(one) = {m}
    <3> DEFINE e == Module(f, slots)
    <3>1. e.name = m
      BY DEF Module
    <3> HIDE DEF e
    <3>2. IsSeq(<<e>>) /\ <<e>> # <<>> /\ NamesOf(<<e>>) = {e.name}
      BY SingleSeq DEF NamesOf
    <3>3. QED
      BY <3>1, <3>2 DEF e
  <2>6. m = q.key
    BY <2>4, SessionAssumption DEF SessionAssumption
  <2>7. r.name = ReserveName(spent.reserves) /\ r.imports = <<>>
    BY DEF Reservation, Form
  <2> HIDE DEF q, one, r, m
  <2>8. g = FrameOf(g) /\ SameLinks(g, q) /\ g.todo = q.todo /\ g.pc = "run" /\ g.base = q.base /\ g.sem = one
    <3>1. q = FrameOf(q)
      BY <2>4
    <3>2. QED
      BY ONLY <3>1, WithSem
  <2> HIDE DEF g
  <2>9. FrameOK(g)
    BY <2>4, <2>5, <2>8, FrameMoves
  <2>10. RelocateStep(g, r, m)
    BY <1>1, <2>1, <2>3, <2>5, <2>6, <2>7, <2>8, <2>9 DEF RelocateStep, q
  <2>11. QED
    BY <2>10
<1>5. QED
  BY <1>2, <1>3, <1>4

LEMMA RelocateKeeps == ASSUME Core, NEW g, NEW r, NEW m, RelocateStep(g, r, m) PROVE Core'
<1>1. calls # <<>> /\ Top.kind = "etac" /\ Top.pc = "load" /\ spent \in Counters
  BY DEF RelocateStep, Core, IndexOK
<1>4. Core'
  <2> DEFINE q == Top
  <2>1. /\ spent.reserves < MaxReserves /\ forms' = Append(forms, r) /\ executed' = executed \cup {r.name}
        /\ reserved' = Updated(reserved, m, ReservedFor(m) \cup {r.name})
        /\ spent' = [spent EXCEPT !.reserves = @ + 1] /\ home' = home
        /\ loading' = loading /\ indexed' = indexed
    BY DEF RelocateStep
  <2>3. calls' = Append(Front(calls), g)
    BY DEF RelocateStep
  <2>4. FrameOK(q) /\ q.kind = "etac" /\ q = calls[Len(calls)] /\ q.via # "eval"
    BY <1>1, TopFacts DEF FrameOK
  <2>6. SameLinks(g, q) /\ g.pc = "run" /\ r.name = ReserveName(spent.reserves)
    BY DEF RelocateStep
  <2> HIDE DEF q
  <2>7. FrameOK(g)
    BY DEF RelocateStep
  <2>8. Quiet /\ Guards = {} /\ \A i \in DOMAIN calls : ~Started(calls[i])
    BY <1>1, <2>4, QuietBelow DEF q
  <2>9. StackOK /\ LoadsOK /\ IndexOK
    BY DEF Core
  <2> DEFINE n == Len(calls)
  <2>10. n \in Nat /\ n \in 1..n /\ DOMAIN calls = 1..n /\ IsSeq(calls)
    BY <1>1, <2>9, FrameFacts
  <2>11. DOMAIN calls' = 1..n /\ IsSeq(calls') /\ calls'[n] = g /\ \A i \in 1..n : i # n => calls'[i] = calls[i]
    <3> DEFINE u == Append(Front(calls), g)
    <3>1. IsSeq(u) /\ Len(u) = n /\ u[n] = g /\ DOMAIN u = 1..n /\ \A i \in 1..n : i # n => u[i] = calls[i]
      BY <1>1, <2>10, Replaced
    <3>2. calls' = u
      BY <2>3
    <3> HIDE DEF u, n
    <3>3. QED
      BY <3>1, <3>2
  <2>12. g.kind = "etac" /\ g.via = q.via /\ g.key = q.key /\ g.guard = q.guard
    BY <2>4, <2>6 DEF SameLinks
  <2>13. \A i \in 1..n : calls'[i].via = calls[i].via /\ calls'[i].key = calls[i].key /\ calls'[i].guard = calls[i].guard
                         /\ (i # n => calls'[i].pc = calls[i].pc) /\ FrameOK(calls'[i])
    <3>1. \A i \in 1..n : FrameOK(calls[i])
      BY <2>9, FrameFacts
    <3> HIDE DEF n
    <3>2. q = calls[n]
      BY <2>4 DEF n
    <3>3. QED
      BY <2>7, <2>11, <2>12, <3>1, <3>2
  <2>14. StackOK'
    <3>1. /\ \A i \in 1..n : i = 1 <=> calls[i].via = "user"
          /\ \A i, j \in 1..n : i < j /\ calls[j].via # "eval" => calls[i].pc = "load" /\ calls[i].via # "eval"
          /\ \A i, j \in 1..n : i + 1 = j /\ calls[j].via = "eval" => RunsProgram(calls[i])
      BY <2>9, FrameFacts
    <3> HIDE DEF n
    <3>2. \A i \in 1..n : calls'[i].via # "eval"
      <4>1. \A i \in 1..n : i = n \/ i < n
        BY <2>10
      <4>2. \A i \in 1..n : calls[i].via # "eval"
        BY <2>4, <2>10, <3>1, <4>1 DEF n
      <4>3. QED
        BY <2>13, <4>2
    <3>3. \A i, j \in 1..n : i < j => calls'[i].pc = "load"
      <4>1. \A i, j \in 1..n : i < j => i # n
        BY <2>10
      <4>2. QED
        BY <2>13, <3>1, <3>2, <4>1
    <3>4. QED
      BY <2>11, <2>13, <3>1, <3>2, <3>3 DEF StackOK
  <2>15. \A i \in DOMAIN calls' : calls'[i].guard = {} /\ (calls'[i].kind = "source" => calls'[i].pc = "load")
    <3> HIDE DEF n
    <3>1. QED
      BY <2>8, <2>10, <2>11, <2>12, <2>13 DEF Quiet
  <2>16. IsSeq(forms') /\ NamesOf(forms') = NamesOf(forms) \cup {r.name} /\ DOMAIN forms \subseteq DOMAIN forms'
         /\ \A x \in DOMAIN forms : forms'[x] = forms[x]
    <3>1. IsSeq(forms)
      BY <2>8 DEF Quiet
    <3> DEFINE u == Append(forms, r)
    <3>2. /\ IsSeq(u) /\ Len(u) = Len(forms) + 1 /\ NamesOf(u) = NamesOf(forms) \cup {r.name}
          /\ \A x \in 1..Len(forms) : u[x] = forms[x]
      BY <3>1, Appended, AppendedNames
    <3> HIDE DEF u
    <3>3. DOMAIN u = 1..(Len(forms) + 1) /\ DOMAIN forms = 1..Len(forms) /\ Len(forms) \in Nat
      BY <3>1, <3>2, SeqShape
    <3>4. forms' = u
      BY <2>1 DEF u
    <3>5. QED
      BY <3>2, <3>3, <3>4
  <2>17. Quiet'
    BY <2>1, <2>8, <2>15, <2>16 DEF Quiet
  <2>18. /\ DOMAIN calls = 1..n /\ DOMAIN calls' = 1..n
         /\ \A i \in 1..n : calls'[i].via = calls[i].via /\ calls'[i].key = calls[i].key
    BY <2>10, <2>11, <2>13
  <2> HIDE DEF n
  <2>19. KeysVia("auto")' = KeysVia("auto") /\ KeysVia("hydrate")' = KeysVia("hydrate")
    BY ONLY <2>18 DEF KeysVia
  <2>20. LoadsOK'
    <3>1. \A i, j \in DOMAIN calls' : i # j /\ calls'[i].via = calls'[j].via /\ calls'[i].via \in {"auto", "hydrate"}
            => calls'[i].key # calls'[j].key
      <4>1. \A i, j \in 1..n : i # j /\ calls[i].via = calls[j].via /\ calls[i].via \in {"auto", "hydrate"}
              => calls[i].key # calls[j].key
        BY <2>9, <2>18 DEF LoadsOK
      <4>2. QED
        BY ONLY <2>18, <4>1
    <3>2. QED
      BY <2>1, <2>9, <2>19, <3>1 DEF LoadsOK
  <2>21. IndexOK'
    <3>1. /\ indexed \subseteq DOMAIN Disk /\ spent \in Counters /\ \A x \in DOMAIN reserved : reserved[x] \subseteq Reserves
          /\ \A x \in indexed : x \in KeysVia("hydrate") \/ Placed(x)
          /\ executed \subseteq DOMAIN home \cup UNION {reserved[x] : x \in DOMAIN reserved}
      BY <2>8, <2>9 DEF IndexOK
    <3>2. spent.reserves \in 0 .. MaxReserves /\ spent' \in Counters
      BY <2>1, <3>1, SessionAssumption DEF SessionAssumption, Counters
    <3>3. r.name \in Reserves
      BY <2>6, <3>2 DEF Reserves
    <3>4. DOMAIN reserved' = DOMAIN reserved \cup {m}
      BY <2>1 DEF Updated
    <3>5. \A x \in DOMAIN reserved' : reserved'[x] = IF x = m THEN ReservedFor(m) \cup {r.name} ELSE reserved[x]
      BY <2>1, <3>4 DEF Updated
    <3>6. \A x \in DOMAIN reserved : reserved[x] \subseteq reserved'[x] /\ x \in DOMAIN reserved'
      BY <3>4, <3>5 DEF ReservedFor
    <3>7. ReservedFor(m) \subseteq Reserves
      BY <3>1 DEF ReservedFor
    <3>8. \A x \in DOMAIN reserved' : reserved'[x] \subseteq Reserves
      BY <3>1, <3>3, <3>4, <3>5, <3>7
    <3>9. r.name \in reserved'[m] /\ m \in DOMAIN reserved'
      BY <3>4, <3>5
    <3>10. \A i \in DOMAIN calls' : ~Started(calls'[i])
      BY <2>15 DEF Started
    <3>11. ASSUME NEW x \in indexed, Placed(x) PROVE Placed(x)'
      BY <2>16, <3>10, <3>11 DEF Placed
    <3>12. \A x \in indexed' : x \in KeysVia("hydrate")' \/ Placed(x)'
      BY <2>1, <2>19, <3>1, <3>11
    <3>13. ASSUME NEW x \in executed' PROVE x \in DOMAIN home \cup UNION {reserved'[y] : y \in DOMAIN reserved'}
      <4>1. CASE x = r.name
        BY <3>9, <4>1
      <4>2. CASE x \in DOMAIN home
        BY <4>2
      <4>3. CASE x \in UNION {reserved[y] : y \in DOMAIN reserved}
        BY <3>6, <4>3
      <4>4. QED
        BY <2>1, <3>1, <4>1, <4>2, <4>3
    <3>14. executed' \subseteq DOMAIN home' \cup Guards' \cup UNION {reserved'[y] : y \in DOMAIN reserved'}
      BY <2>1, <3>13
    <3>15. indexed' \subseteq DOMAIN Disk
      BY <2>1, <3>1
    <3>16. QED
      BY <3>2, <3>8, <3>12, <3>14, <3>15 DEF IndexOK, Counters, Reserves
  <2>22. QED
    BY <2>14, <2>17, <2>20, <2>21, QuietCore, PTL
<1>5. QED
  BY <1>4

-----------------------------------------------------------------------------
(* What link() has seen when it finds no error.                            *)

LEMMA DistinctNames ==
  ASSUME NEW u, IsSeq(u), ~Duplicates(u), NEW a \in DOMAIN u, NEW b \in DOMAIN u, u[a].name = u[b].name
  PROVE  a = b
<1> DEFINE N == Len(u)
           X == 1..N
           T == NamesOf(u)
           R == X \ {b}
           f == [x \in R |-> u[x].name]
<1>1. SUFFICES ASSUME a # b PROVE FALSE
  OBVIOUS
<1>2. N \in Nat /\ DOMAIN u = X
  BY SeqShape
<1>3. ~(Cardinality(T) < N)
  BY DEF Duplicates
<1>4. IsFiniteSet(X) /\ Cardinality(X) = N
  <2>1. IsFiniteSet(1..N) /\ Cardinality(1..N) = IF 1 > N THEN 0 ELSE N - 1 + 1
    BY <1>2, FS_Interval
  <2> HIDE DEF N
  <2>2. QED
    BY <1>2, <2>1
<1> HIDE DEF X, N
<1>5. IsFiniteSet(R) /\ Cardinality(R) = N - 1
  BY <1>2, <1>4, FS_RemoveElement
<1>6. f \in Surjection(R, T)
  <2>1. f \in [R -> T]
    BY <1>2 DEF NamesOf
  <2>2. ASSUME NEW y \in T PROVE \E x \in R : f[x] = y
    <3>1. PICK x \in X : u[x].name = y
      BY <1>2 DEF NamesOf
    <3>2. CASE x # b
      BY <3>1, <3>2
    <3>3. CASE x = b
      BY <1>1, <1>2, <3>1, <3>3
    <3>4. QED
      BY <3>2, <3>3
  <2> HIDE DEF f, R, T
  <2>3. QED
    BY <2>1, <2>2 DEF Surjection
<1> HIDE DEF f, R, T
<1>7. IsFiniteSet(T) /\ Cardinality(T) <= N - 1
  BY <1>5, <1>6, FS_Surjection
<1>8. Cardinality(T) \in Nat
  BY <1>7, FS_CardinalityType
<1>9. QED
  BY ONLY <1>2, <1>3, <1>7, <1>8

\* Every module has its place in the order when the order is long enough.
InOrder(tables, order) ==
  /\ order \in Seq(DOMAIN tables)
  /\ \A i, j \in 1..Len(order) : order[i] = order[j] => i = j

LEMMA PlacedInOrder ==
  ASSUME NEW tables, NEW order, InOrder(tables, order)
  PROVE  InOrder(tables, PlaceNext(tables, order))
<1> DEFINE D == DOMAIN tables
           ready == {m \in D \ ToSet(order) : ImportsOf(tables[m]) \cap D \subseteq ToSet(order)}
           e == CHOOSE m \in ready : TRUE
<1>1. order \in Seq(D) /\ \A i, j \in 1..Len(order) : order[i] = order[j] => i = j
  BY DEF InOrder
<1>2. CASE ready = {}
  BY <1>2 DEF PlaceNext
<1>3. CASE ready # {}
  <2>1. e \in D /\ e \notin ToSet(order)
    BY <1>3
  <2>2. PlaceNext(tables, order) = Append(order, e)
    BY <1>3 DEF PlaceNext
  <2> HIDE DEF e, D
  <2>3. \A i \in 1..Len(order) : order[i] # e
    BY <1>1, <2>1 DEF ToSet
  <2>4. /\ Append(order, e) \in Seq(D) /\ Len(Append(order, e)) = Len(order) + 1
        /\ \A i \in 1..Len(order) : Append(order, e)[i] = order[i]
        /\ Append(order, e)[Len(order) + 1] = e
    BY <1>1, <2>1, AppendProperties
  <2>5. Len(order) \in Nat
    BY <1>1
  <2> DEFINE t == Append(order, e)
             n == Len(order)
  <2> HIDE DEF t, n
  <2>6. ASSUME NEW i \in 1..(n + 1), NEW j \in 1..(n + 1), t[i] = t[j] PROVE i = j
    <3>1. /\ n \in Nat /\ (\A k \in 1..n : t[k] = order[k] /\ t[k] # e) /\ t[n + 1] = e
          /\ \A k, l \in 1..n : order[k] = order[l] => k = l
      BY <1>1, <2>3, <2>4, <2>5 DEF t, n
    <3>2. (i \in 1..n \/ i = n + 1) /\ (j \in 1..n \/ j = n + 1)
      BY <3>1
    <3>3. QED
      BY <2>6, <3>1, <3>2
  <2>7. InOrder(tables, t)
    BY <2>4, <2>6 DEF InOrder, t, n, D
  <2>8. QED
    BY <2>2, <2>7 DEF t
<1>4. QED
  BY <1>2, <1>3

LEMMA OrderIsInjective ==
  ASSUME NEW tables, IsFiniteSet(DOMAIN tables) PROVE InOrder(tables, TopoOrder(tables))
<1> DEFINE n == Cardinality(DOMAIN tables)
           T == 1..n
           places == [i \in 1..n |-> i]
           U == {order \in Seq(DOMAIN tables) : InOrder(tables, order)}
           Op(s) == PlaceNext(tables, s)
           op == [i \in T |-> [s \in U |-> Op(s)]]
           pick == [s \in SUBSET T |-> Max(s)]
           Value(f, s) == IF s = {} THEN <<>> ELSE Op(f[s \ {Max(s)}])
           Folded(f) == f = [s \in SUBSET T |-> Value(f, s)]
           F == CHOOSE f : Folded(f)
<1>1. n \in Nat
  BY FS_CardinalityType
<1> HIDE DEF n
<1>2. DOMAIN places = T
  OBVIOUS
<1>3. <<>> \in U
  BY DEF InOrder
<1>4. \A s \in U : Op(s) \in U
  <2>1. ASSUME NEW s \in U PROVE Op(s) \in U
    <3>1. InOrder(tables, PlaceNext(tables, s))
      BY PlacedInOrder
    <3>2. QED
      BY <3>1 DEF InOrder
  <2>2. QED
    BY <2>1
<1> HIDE DEF Op
<1>5. \E f \in [SUBSET T -> U] : Folded(f)
  <2>1. IsFiniteSet(T)
    BY <1>1, FS_Interval
  <2>2. op \in [T -> [U -> U]]
    BY <1>4
  <2>3. \A s \in SUBSET T : pick[s] = Max(s) /\ (s # {} => pick[s] \in s)
    BY <1>1, Extremes
  <2>4. \A i \in T, s \in U : op[i][s] = Op(s)
    OBVIOUS
  <2> HIDE DEF pick, op, U, T
  <2>5. PICK f \in [SUBSET T -> U] : Folds(f, T, <<>>, pick, op)
    BY <1>3, <2>1, <2>2, <2>3, FoldExists
  <2>6. ASSUME NEW s \in SUBSET T PROVE f[s] = Value(f, s)
    <3>1. f[s] = IF s = {} THEN <<>> ELSE op[pick[s]][f[s \ {pick[s]}]]
      BY <2>5 DEF Folds
    <3>2. s # {} => Max(s) \in T /\ f[s \ {Max(s)}] \in U
      BY <2>3, <2>5
    <3>3. QED
      BY <2>3, <2>4, <3>1, <3>2
  <2>7. f = [s \in SUBSET T |-> f[s]]
    BY <2>5
  <2> HIDE DEF Value
  <2>8. Folded(f)
    BY <2>6, <2>7
  <2>9. QED
    BY <2>5, <2>8
<1>6. TopoOrder(tables) = F[T]
  BY <1>2 DEF TopoOrder, FoldLeft, MapThenFoldSet, Op, n
<1>7. Folded(F)
  <2> HIDE DEF Folded
  <2>1. QED
    BY <1>5
<1>8. \A s \in SUBSET T : F[s] = Value(F, s)
  <2> HIDE DEF F, Value
  <2>1. QED
    BY <1>7
<1> HIDE DEF F, U
<1> DEFINE P == {i \in 0..n : F[1..i] \in U}
<1>9. 0 \in P
  <2>1. F[{}] = <<>>
    <3>1. F[{}] = Value(F, {})
      <4> HIDE DEF Value
      <4>1. {} \in SUBSET T
        OBVIOUS
      <4>2. QED
        BY <1>8, <4>1
    <3>2. QED
      BY <3>1
  <2>2. 1..0 = {} /\ 0 \in 0..n
    BY <1>1
  <2>3. F[1..0] = <<>>
    BY <2>1, <2>2
  <2>4. QED
    BY <1>3, <2>2, <2>3
<1>10. ASSUME NEW i \in 0..n, i \in P, i < n PROVE i + 1 \in P
  <2>1. i + 1 \in 1..n /\ i + 1 \in 0..n /\ (i + 1) - 1 = i
    BY <1>1, <1>10
  <2>2. 1..(i + 1) # {} /\ Max(1..(i + 1)) = i + 1 /\ (1..(i + 1)) \ {i + 1} = 1..i
    BY <1>1, <2>1, MaxOfSegment
  <2>3. 1..(i + 1) \in SUBSET T
    BY <1>1, <2>1
  <2>4. F[1..(i + 1)] = Value(F, 1..(i + 1))
    <3> HIDE DEF Value
    <3>1. QED
      BY <1>8, <2>3
  <2>5. F[1..(i + 1)] = Op(F[1..i])
    BY <2>2, <2>4
  <2>6. F[1..i] \in U
    BY <1>10
  <2>7. QED
    BY <1>4, <2>1, <2>5, <2>6
<1>11. n \in P
  <2>1. \A i \in 0..n : i \in P /\ i < n => i + 1 \in P
    BY <1>10
  <2>2. n \in 0..n
    BY <1>1
  <2> HIDE DEF P
  <2>3. QED
    BY <1>1, <1>9, <2>1, <2>2, Climb
<1>12. TopoOrder(tables) \in U
  BY <1>6, <1>11
<1>13. QED
  BY <1>12 DEF U

LEMMA WholeOrder ==
  ASSUME NEW tables, IsFiniteSet(DOMAIN tables), NEW order, InOrder(tables, order),
         ~(Len(order) < Cardinality(DOMAIN tables))
  PROVE  \A m \in DOMAIN tables : \E i \in DOMAIN order : order[i] = m
<1> DEFINE D == DOMAIN tables
           n == Len(order)
           X == 1..n
           f == [i \in X |-> order[i]]
<1>1. order \in Seq(D) /\ n \in Nat /\ DOMAIN order = X /\ \A i \in X : order[i] \in D
  BY DEF InOrder
<1>2. \A i, j \in X : order[i] = order[j] => i = j
  BY DEF InOrder
<1>3. f \in Injection(X, D)
  BY <1>1, <1>2 DEF Injection, IsInjective
<1>4. Cardinality(X) = n
  <2>1. Cardinality(1..n) = IF 1 > n THEN 0 ELSE n - 1 + 1
    BY <1>1, FS_Interval
  <2> HIDE DEF n
  <2>2. QED
    BY <1>1, <2>1
<1> HIDE DEF D, X, f, n
<1>5. IsFiniteSet(D) /\ Cardinality(X) <= Cardinality(D) /\ (Cardinality(X) = Cardinality(D) <=> f \in Surjection(X, D))
  <2>1. IsFiniteSet(D)
    BY DEF D
  <2>2. QED
    BY <1>3, <2>1, FS_Injection
<1>6. Cardinality(D) \in Nat /\ ~(n < Cardinality(D))
  <2>1. Cardinality(D) \in Nat
    BY <1>5, FS_CardinalityType
  <2>2. QED
    BY <2>1 DEF D, n
<1>7. Cardinality(X) = Cardinality(D)
  BY ONLY <1>1, <1>4, <1>5, <1>6
<1>8. f \in Surjection(X, D)
  BY <1>5, <1>7
<1>9. \A m \in D : \E i \in X : f[i] = m
  BY <1>8 DEF Surjection
<1>10. QED
  BY <1>1, <1>9 DEF D, f

\* The folds of the linker: over a module's imports (of t), or over the modules.
LinkStep(kind, t, e, q) == IF kind = "module" THEN LinkModule(q, e) ELSE CommitImport(t, q, e)
LinkValue(kind, t, s, base, f, S) ==
  IF S = {} THEN base ELSE LinkStep(kind, t, s[Max(S)], f[S \ {Max(S)}])
LinkFolded(kind, t, s, n, base, f) == f = [S \in SUBSET (1..n) |-> LinkValue(kind, t, s, base, f, S)]

LEMMA LinkFoldExists ==
  ASSUME NEW kind, NEW t, NEW n \in Nat, NEW s, NEW base
  PROVE  \E f : LinkFolded(kind, t, s, n, base, f)
<1> DEFINE T == 1..n
           Value(f, S) == LinkValue(kind, t, s, base, f, S)
           Upto(f, k) == \A S \in SUBSET T : Cardinality(S) <= k => f[S] = Value(f, S)
           P == {k \in 0..n : \E f : Upto(f, k)}
<1>1. IsFiniteSet(T) /\ Cardinality(T) = n
  <2>1. IsFiniteSet(1..n) /\ Cardinality(1..n) = IF 1 > n THEN 0 ELSE n - 1 + 1
    BY FS_Interval
  <2>2. QED
    BY <2>1
<1>2. \A S \in SUBSET T : Cardinality(S) \in 0..n /\ (S # {} <=> Cardinality(S) > 0)
  <2>1. ASSUME NEW S \in SUBSET T PROVE Cardinality(S) \in 0..n /\ (S # {} <=> Cardinality(S) > 0)
    <3>1. IsFiniteSet(S) /\ Cardinality(S) <= n
      BY <1>1, FS_Subset
    <3>2. Cardinality(S) \in Nat /\ (S = {} <=> Cardinality(S) = 0)
      BY <3>1, FS_CardinalityType, FS_EmptySet
    <3>3. Cardinality(S) \in 0..n
      BY ONLY <3>1, <3>2, n \in Nat
    <3>4. Cardinality(S) > 0 <=> Cardinality(S) # 0
      BY ONLY <3>2
    <3>5. QED
      BY <3>2, <3>3, <3>4
  <2>2. QED
    BY <2>1
<1>3. \A S \in SUBSET T : S # {} =>
        S \ {Max(S)} \in SUBSET T /\ Cardinality(S \ {Max(S)}) = Cardinality(S) - 1
  <2>1. ASSUME NEW S \in SUBSET T, S # {} PROVE Cardinality(S \ {Max(S)}) = Cardinality(S) - 1
    <3>1. IsFiniteSet(S) /\ Max(S) \in S
      BY <1>1, <2>1, FS_Subset, Extremes
    <3>2. QED
      BY <3>1, FS_RemoveElement
  <2>2. QED
    BY <2>1
<1>4. ASSUME NEW f, NEW g, NEW S \in SUBSET T, S # {} => f[S \ {Max(S)}] = g[S \ {Max(S)}]
      PROVE  Value(f, S) = Value(g, S)
  BY <1>4 DEF LinkValue
<1> HIDE DEF T, Value
<1>5. 0 \in P
  <2> DEFINE f == [S \in SUBSET T |-> Value(<<>>, S)]
  <2>1. \A S \in SUBSET T : f[S] = Value(<<>>, S)
    OBVIOUS
  <2> HIDE DEF f
  <2>2. ASSUME NEW S \in SUBSET T, Cardinality(S) <= 0 PROVE f[S] = Value(f, S)
    <3>1. S = {}
      BY <1>2, <2>2
    <3>2. Value(f, S) = Value(<<>>, S)
      BY <1>4, <3>1
    <3>3. QED
      BY <2>1, <3>2
  <2>3. Upto(f, 0)
    BY <2>2
  <2>4. 0 \in 0..n
    OBVIOUS
  <2>5. QED
    BY <2>3, <2>4
<1>6. ASSUME NEW k \in 0..n, k \in P, k < n PROVE k + 1 \in P
  <2>1. PICK f : Upto(f, k)
    BY <1>6
  <2> DEFINE g == [S \in SUBSET T |-> IF Cardinality(S) <= k THEN f[S] ELSE Value(f, S)]
  <2>2. \A S \in SUBSET T : g[S] = IF Cardinality(S) <= k THEN f[S] ELSE Value(f, S)
    OBVIOUS
  <2> HIDE DEF g
  <2>3. ASSUME NEW S \in SUBSET T, Cardinality(S) <= k + 1 PROVE g[S] = Value(g, S)
    <3>1. g[S] = Value(f, S)
      BY <2>1, <2>2
    <3>2. S # {} => g[S \ {Max(S)}] = f[S \ {Max(S)}]
      BY <1>2, <1>3, <2>2, <2>3
    <3>3. Value(f, S) = Value(g, S)
      BY <1>4, <3>2
    <3>4. QED
      BY <3>1, <3>3
  <2>4. Upto(g, k + 1)
    BY <2>3
  <2>5. k + 1 \in 0..n
    BY <1>6
  <2>6. QED
    BY <2>4, <2>5
<1>7. n \in P
  <2>1. \A k \in 0..n : k \in P /\ k < n => k + 1 \in P
    BY <1>6
  <2>2. n \in 0..n
    OBVIOUS
  <2> HIDE DEF P
  <2>3. QED
    BY <1>5, <2>1, <2>2, Climb
<1>8. PICK f : Upto(f, n)
  BY <1>7
<1>9. \A S \in SUBSET T : f[S] = Value(f, S)
  BY <1>2, <1>8
<1> DEFINE g == [S \in SUBSET T |-> f[S]]
<1>10. \A S \in SUBSET T : g[S] = f[S]
  OBVIOUS
<1>11. g = [S \in SUBSET T |-> g[S]]
  OBVIOUS
<1> HIDE DEF g
<1>12. \A S \in SUBSET T : g[S] = Value(g, S)
  <2>1. ASSUME NEW S \in SUBSET T PROVE g[S] = Value(g, S)
    <3>1. Value(g, S) = Value(f, S)
      BY <1>3, <1>4, <1>10
    <3>2. QED
      BY <1>9, <1>10, <3>1
  <2>2. QED
    BY <2>1
<1>13. g = [S \in SUBSET T |-> Value(g, S)]
  BY <1>11, <1>12
<1>14. QED
  BY <1>13 DEF LinkFolded, T, Value

\* Both folds as the values they take one after the other.
Traces(kind, t, s, n, base, F) ==
  /\ F[{}] = base
  /\ \A i \in 0..n : i < n => F[1..(i + 1)] = LinkStep(kind, t, s[i + 1], F[1..i])

LEMMA FoldTraces ==
  ASSUME NEW kind, NEW t, NEW s, NEW n \in Nat, NEW base, NEW F,
         LinkFolded(kind, t, s, n, base, F)
  PROVE  Traces(kind, t, s, n, base, F)
<1>1. \A S \in SUBSET (1..n) : F[S] = LinkValue(kind, t, s, base, F, S)
  <2> DEFINE Value(S) == LinkValue(kind, t, s, base, F, S)
  <2>1. F = [S \in SUBSET (1..n) |-> Value(S)]
    BY DEF LinkFolded
  <2> HIDE DEF Value
  <2>2. \A S \in SUBSET (1..n) : F[S] = Value(S)
    BY <2>1
  <2>3. QED
    BY <2>2 DEF Value
<1>2. F[{}] = base
  BY <1>1 DEF LinkValue
<1>3. ASSUME NEW i \in 0..n, i < n PROVE F[1..(i + 1)] = LinkStep(kind, t, s[i + 1], F[1..i])
  <2>1. i + 1 \in 1..n /\ (i + 1) - 1 = i
    BY <1>3
  <2>2. 1..(i + 1) # {} /\ Max(1..(i + 1)) = i + 1 /\ (1..(i + 1)) \ {i + 1} = 1..i
    BY <2>1, MaxOfSegment
  <2>3. 1..(i + 1) \in SUBSET (1..n)
    BY <2>1
  <2>4. F[1..(i + 1)] = LinkValue(kind, t, s, base, F, 1..(i + 1))
    BY <1>1, <2>3
  <2>5. QED
    BY <2>2, <2>4 DEF LinkValue
<1>4. QED
  BY <1>2, <1>3 DEF Traces

ImportsFolded(t, r, cs) == FoldLeft(LAMBDA q, c : CommitImport(t, q, c), r, cs)

LEMMA ImportsTrace ==
  ASSUME NEW t, NEW cs, IsSeq(cs), NEW r
  PROVE  \E F : Traces("import", t, cs, Len(cs), r, F) /\ ImportsFolded(t, r, cs) = F[1..Len(cs)]
<1> DEFINE n == Len(cs)
           Folded(f) == f = [S \in SUBSET DOMAIN cs |-> IF S = {} THEN r ELSE CommitImport(t, f[S \ {Max(S)}], cs[Max(S)])]
           F == CHOOSE f : Folded(f)
<1>1. n \in Nat /\ DOMAIN cs = 1..n
  BY SeqShape
<1>2. \A f, S : LinkValue("import", t, cs, r, f, S) = IF S = {} THEN r ELSE CommitImport(t, f[S \ {Max(S)}], cs[Max(S)])
  BY DEF LinkValue, LinkStep
<1>3. \A f : Folded(f) <=> LinkFolded("import", t, cs, n, r, f)
  BY <1>1, <1>2 DEF LinkFolded
<1>4. \E f : LinkFolded("import", t, cs, n, r, f)
  BY <1>1, LinkFoldExists
<1>5. ImportsFolded(t, r, cs) = F[DOMAIN cs]
  BY DEF ImportsFolded, FoldLeft, MapThenFoldSet
<1>6. Folded(F)
  <2> HIDE DEF Folded
  <2>1. QED
    BY <1>3, <1>4
<1> HIDE DEF F, Folded
<1>7. LinkFolded("import", t, cs, n, r, F)
  BY <1>3, <1>6
<1>8. Traces("import", t, cs, n, r, F)
  BY <1>1, <1>7, FoldTraces
<1>9. QED
  BY <1>1, <1>5, <1>8

LEMMA ModulesTrace ==
  ASSUME NEW order, IsSeq(order), NEW r
  PROVE  \E F : Traces("module", r, order, Len(order), r, F) /\ FoldLeft(LinkModule, r, order) = F[1..Len(order)]
<1> DEFINE n == Len(order)
           Folded(f) == f = [S \in SUBSET DOMAIN order |-> IF S = {} THEN r ELSE LinkModule(f[S \ {Max(S)}], order[Max(S)])]
           F == CHOOSE f : Folded(f)
<1>1. n \in Nat /\ DOMAIN order = 1..n
  BY SeqShape
<1>2. \A f, S : LinkValue("module", r, order, r, f, S) = IF S = {} THEN r ELSE LinkModule(f[S \ {Max(S)}], order[Max(S)])
  BY DEF LinkValue, LinkStep
<1>3. \A f : Folded(f) <=> LinkFolded("module", r, order, n, r, f)
  BY <1>1, <1>2 DEF LinkFolded
<1>4. \E f : LinkFolded("module", r, order, n, r, f)
  BY <1>1, LinkFoldExists
<1>5. FoldLeft(LinkModule, r, order) = F[DOMAIN order]
  BY DEF FoldLeft, MapThenFoldSet
<1>6. Folded(F)
  <2> HIDE DEF Folded
  <2>1. QED
    BY <1>3, <1>4
<1> HIDE DEF F, Folded
<1>7. LinkFolded("module", r, order, n, r, F)
  BY <1>3, <1>6
<1>8. Traces("module", r, order, n, r, F)
  BY <1>1, <1>7, FoldTraces
<1>9. QED
  BY <1>1, <1>5, <1>8

\* The linker's state has one shape, and it never changes what a module imports.
TableOf(x) == [name |-> x.name, defined |-> x.defined, exports |-> x.exports, imports |-> x.imports,
               visible |-> x.visible, origins |-> x.origins, source |-> x.source]
Shaped(r) ==
  /\ r = [error |-> r.error, tables |-> r.tables]
  /\ r.tables = [m \in DOMAIN r.tables |-> r.tables[m]]
  /\ \A m \in DOMAIN r.tables : r.tables[m] = TableOf(r.tables[m])
SameImports(r, q) ==
  /\ Shaped(q) /\ DOMAIN q.tables = DOMAIN r.tables
  /\ \A m \in DOMAIN r.tables : q.tables[m].imports = r.tables[m].imports

LEMMA SameSelf == ASSUME NEW r, Shaped(r) PROVE SameImports(r, r)
  BY DEF SameImports

LEMMA SameTwice == ASSUME NEW r, NEW q, NEW p, SameImports(r, q), SameImports(q, p) PROVE SameImports(r, p)
  BY DEF SameImports

LEMMA FailedSame ==
  ASSUME NEW r, Shaped(r), NEW kind PROVE SameImports(r, Failed(kind, r)) /\ Failed(kind, r).error = kind
<1> DEFINE q == Failed(kind, r)
<1>1. q = [error |-> kind, tables |-> r.tables]
  BY DEF Failed, Shaped
<1> HIDE DEF q
<1>2. q.error = kind /\ q.tables = r.tables
  BY <1>1
<1>3. q = [error |-> q.error, tables |-> q.tables]
  BY <1>1, <1>2
<1>4. QED
  BY <1>2, <1>3 DEF SameImports, Shaped, q

LEMMA TableSame ==
  ASSUME NEW r, Shaped(r), NEW t \in DOMAIN r.tables, NEW x, x = TableOf(x), x.imports = r.tables[t].imports
  PROVE  LET q == [error |-> r.error, tables |-> [r.tables EXCEPT ![t] = x]]
         IN  SameImports(r, q) /\ q.error = r.error
<1> DEFINE u == [r.tables EXCEPT ![t] = x]
           q == [error |-> r.error, tables |-> u]
<1>1. /\ DOMAIN u = DOMAIN r.tables /\ u = [m \in DOMAIN r.tables |-> u[m]]
      /\ \A m \in DOMAIN r.tables : u[m] = IF m = t THEN x ELSE r.tables[m]
  BY DEF Shaped
<1> HIDE DEF u
<1>2. q.error = r.error /\ q.tables = u /\ q = [error |-> q.error, tables |-> q.tables]
  OBVIOUS
<1> HIDE DEF q
<1>3. \A m \in DOMAIN r.tables : u[m] = TableOf(u[m]) /\ u[m].imports = r.tables[m].imports
  <2>1. ASSUME NEW m \in DOMAIN r.tables PROVE u[m] = TableOf(u[m]) /\ u[m].imports = r.tables[m].imports
    <3>1. CASE m = t
      BY <1>1, <3>1
    <3>2. CASE m # t
      <4>1. u[m] = r.tables[m]
        BY <1>1, <3>2
      <4>2. QED
        BY <4>1 DEF Shaped
    <3>3. QED
      BY <3>1, <3>2
  <2>2. QED
    BY <2>1
<1>4. Shaped(q)
  BY <1>1, <1>2, <1>3 DEF Shaped
<1>5. QED
  BY <1>1, <1>2, <1>3, <1>4 DEF SameImports, q, u

LEMMA WireSame ==
  ASSUME NEW r, Shaped(r), NEW t \in DOMAIN r.tables, NEW tgt, NEW origin
  PROVE  /\ SameImports(r, Wire(t, r, tgt, origin))
         /\ Wire(t, r, tgt, origin).error = "none" => r.error = "none"
<1> DEFINE q == Wire(t, r, tgt, origin)
           o == [l \in DOMAIN origin \cup DOMAIN tgt.origins |->
                   IF l \in DOMAIN origin THEN origin[l] ELSE tgt.origins[l]]
           x == [r.tables[t] EXCEPT !.origins = o]
           p == [error |-> r.error, tables |-> [r.tables EXCEPT ![t] = x]]
<1>1. q = Failed("ConflictingImport", r) \/ q = [r EXCEPT !.tables[t].origins = o]
  BY DEF Wire
<1> HIDE DEF q, o
<1>2. CASE q = Failed("ConflictingImport", r)
  BY <1>2, FailedSame DEF q
<1>3. CASE q = [r EXCEPT !.tables[t].origins = o]
  <2>1. r.tables[t] = TableOf(r.tables[t])
    BY DEF Shaped
  <2>2. x = TableOf(x) /\ x.imports = r.tables[t].imports
    BY <2>1 DEF TableOf
  <2>3. q = p
    BY <1>3 DEF Shaped
  <2> HIDE DEF x
  <2>4. SameImports(r, p) /\ p.error = r.error
    BY <2>2, TableSame
  <2>5. QED
    BY <2>3, <2>4 DEF q
<1>4. QED
  BY <1>1, <1>2, <1>3

LEMMA CommitSame ==
  ASSUME NEW r, Shaped(r), NEW t \in DOMAIN r.tables, NEW c
  PROVE  /\ SameImports(r, CommitImport(t, r, c))
         /\ CommitImport(t, r, c).error = "none" => r.error = "none" /\ c.module \in DOMAIN r.tables
<1>1. CASE r.error # "none"
  <2>1. CommitImport(t, r, c) = r \/ CommitImport(t, r, c) = Failed("UnknownModule", r)
    BY <1>1 DEF CommitImport
  <2>2. QED
    BY <1>1, <2>1, SameSelf, FailedSame
<1>2. CASE r.error = "none" /\ c.module \notin DOMAIN r.tables
  <2>1. CommitImport(t, r, c) = Failed("UnknownModule", r)
    BY <1>2 DEF CommitImport
  <2>2. QED
    BY <2>1, FailedSame
<1>3. CASE r.error = "none" /\ c.module \in DOMAIN r.tables
  <2> DEFINE src == r.tables[c.module]
             im == ImportMap(c, src.exports)
             origin == [l \in DOMAIN im.map |-> OriginIn(src, im.map[l])]
  <2>1. CommitImport(t, r, c) = Bring(t, r, src, im)
    BY <1>3 DEF CommitImport
  <2> HIDE DEF src, im
  <2>2. Bring(t, r, src, im) = Failed(im.error, r) \/ Bring(t, r, src, im) = Wire(t, r, r.tables[t], origin)
    BY DEF Bring
  <2> HIDE DEF origin
  <2>3. SameImports(r, CommitImport(t, r, c))
    BY <2>1, <2>2, FailedSame, WireSame
  <2>4. QED
    BY <1>3, <2>3
<1>4. QED
  BY <1>1, <1>2, <1>3

LEMMA ImportsCommitted ==
  ASSUME NEW r, Shaped(r), NEW t \in DOMAIN r.tables, NEW cs, IsSeq(cs)
  PROVE  LET q == ImportsFolded(t, r, cs)
         IN  /\ SameImports(r, q)
             /\ q.error = "none" => r.error = "none" /\ \A i \in DOMAIN cs : cs[i].module \in DOMAIN r.tables
<1> DEFINE n == Len(cs)
<1>1. PICK F : Traces("import", t, cs, n, r, F) /\ ImportsFolded(t, r, cs) = F[1..n]
  BY ImportsTrace
<1>2. n \in Nat /\ DOMAIN cs = 1..n
  BY SeqShape
<1> HIDE DEF n
<1> DEFINE Good(i) == /\ SameImports(r, F[1..i])
                      /\ F[1..i].error = "none" => r.error = "none" /\ \A k \in 1..i : cs[k].module \in DOMAIN r.tables
           P == {i \in 0..n : Good(i)}
<1>3. 0 \in P
  <2>1. F[1..0] = r
    <3>1. 1..0 = {}
      OBVIOUS
    <3>2. QED
      BY <1>1, <3>1 DEF Traces
  <2>2. 0 \in 0..n
    BY <1>2
  <2>3. QED
    BY <2>1, <2>2, SameSelf
<1>4. ASSUME NEW i \in 0..n, i \in P, i < n PROVE i + 1 \in P
  <2> DEFINE q == F[1..i]
             p == F[1..(i + 1)]
  <2>1. p = CommitImport(t, q, cs[i + 1])
    BY <1>1, <1>4 DEF Traces, LinkStep
  <2>2. i + 1 \in 0..n /\ \A k \in 1..(i + 1) : k \in 1..i \/ k = i + 1
    BY <1>2, <1>4
  <2>3. /\ SameImports(r, q)
        /\ q.error = "none" => r.error = "none" /\ \A k \in 1..i : cs[k].module \in DOMAIN r.tables
    BY <1>4
  <2> HIDE DEF q, p
  <2>4. Shaped(q) /\ DOMAIN q.tables = DOMAIN r.tables
    BY <2>3 DEF SameImports
  <2>5. /\ SameImports(q, p)
        /\ p.error = "none" => q.error = "none" /\ cs[i + 1].module \in DOMAIN r.tables
    BY <2>1, <2>4, CommitSame
  <2>6. SameImports(r, p)
    BY <2>3, <2>5, SameTwice
  <2>7. Good(i + 1)
    BY <2>2, <2>3, <2>5, <2>6 DEF p
  <2>8. QED
    BY <2>2, <2>7
<1>5. n \in P
  <2>1. \A i \in 0..n : i \in P /\ i < n => i + 1 \in P
    BY <1>4
  <2>2. n \in 0..n
    BY <1>2
  <2> HIDE DEF P
  <2>3. QED
    BY <1>2, <1>3, <2>1, <2>2, Climb
<1>6. QED
  BY <1>1, <1>2, <1>5

LEMMA ModuleLinked ==
  ASSUME NEW r, Shaped(r), NEW t \in DOMAIN r.tables, IsSeq(r.tables[t].imports)
  PROVE  /\ SameImports(r, LinkModule(r, t))
         /\ LinkModule(r, t).error = "none" => r.error = "none" /\ ImportsOf(r.tables[t]) \subseteq DOMAIN r.tables
<1> DEFINE cs == r.tables[t].imports
           q == ImportsFolded(t, r, cs)
           v == q.tables[t].defined \cup DOMAIN q.tables[t].origins
           x == [q.tables[t] EXCEPT !.visible = v]
           p == [error |-> q.error, tables |-> [q.tables EXCEPT ![t] = x]]
<1>1. /\ SameImports(r, q)
      /\ q.error = "none" => r.error = "none" /\ \A i \in DOMAIN cs : cs[i].module \in DOMAIN r.tables
  <2> HIDE DEF cs
  <2>1. IsSeq(cs)
    BY DEF cs
  <2>2. QED
    BY <2>1, ImportsCommitted
<1>2. LinkModule(r, t) = [q EXCEPT !.tables[t].visible = v]
  BY DEF LinkModule, MakeVisible, ImportsFolded
<1> HIDE DEF q, v
<1>3. Shaped(q) /\ t \in DOMAIN q.tables
  BY <1>1 DEF SameImports
<1>4. LinkModule(r, t) = p
  BY <1>2, <1>3 DEF Shaped
<1>5. x = TableOf(x) /\ x.imports = q.tables[t].imports
  <2>1. q.tables[t] = TableOf(q.tables[t])
    BY <1>3 DEF Shaped
  <2>2. QED
    BY <2>1 DEF TableOf
<1> HIDE DEF x
<1>6. SameImports(q, p) /\ p.error = q.error
  BY <1>3, <1>5, TableSame
<1> HIDE DEF p
<1>7. SameImports(r, p)
  BY <1>1, <1>6, SameTwice
<1>8. QED
  BY <1>1, <1>4, <1>6, <1>7 DEF ImportsOf

LEMMA ModulesLinked ==
  ASSUME NEW r, Shaped(r), NEW order, IsSeq(order), \A i \in DOMAIN order : order[i] \in DOMAIN r.tables,
         \A m \in DOMAIN r.tables : IsSeq(r.tables[m].imports)
  PROVE  FoldLeft(LinkModule, r, order).error = "none"
           => \A i \in DOMAIN order : ImportsOf(r.tables[order[i]]) \subseteq DOMAIN r.tables
<1> DEFINE n == Len(order)
<1>1. PICK F : Traces("module", r, order, n, r, F) /\ FoldLeft(LinkModule, r, order) = F[1..n]
  <2> HIDE DEF n
  <2>1. \E F : Traces("module", r, order, Len(order), r, F) /\ FoldLeft(LinkModule, r, order) = F[1..Len(order)]
    BY ModulesTrace
  <2>2. QED
    BY <2>1 DEF n
<1>2. n \in Nat /\ DOMAIN order = 1..n
  BY SeqShape
<1> HIDE DEF n
<1> DEFINE Good(i) == /\ SameImports(r, F[1..i])
                      /\ F[1..i].error = "none" => \A k \in 1..i : ImportsOf(r.tables[order[k]]) \subseteq DOMAIN r.tables
           P == {i \in 0..n : Good(i)}
<1>3. 0 \in P
  <2>1. F[1..0] = r
    <3>1. 1..0 = {}
      OBVIOUS
    <3>2. QED
      BY <1>1, <3>1 DEF Traces
  <2>2. 0 \in 0..n /\ \A k \in 1..0 : FALSE
    BY <1>2
  <2>3. QED
    BY <2>1, <2>2, SameSelf
<1>4. ASSUME NEW i \in 0..n, i \in P, i < n PROVE i + 1 \in P
  <2> DEFINE q == F[1..i]
             p == F[1..(i + 1)]
             t == order[i + 1]
  <2>1. p = LinkModule(q, t)
    BY <1>1, <1>4 DEF Traces, LinkStep
  <2>2. i + 1 \in 0..n /\ i + 1 \in 1..n /\ \A k \in 1..(i + 1) : k \in 1..i \/ k = i + 1
    BY <1>2, <1>4
  <2>3. /\ SameImports(r, q)
        /\ q.error = "none" => \A k \in 1..i : ImportsOf(r.tables[order[k]]) \subseteq DOMAIN r.tables
    BY <1>4
  <2>4. t \in DOMAIN r.tables
    BY <1>2, <2>2
  <2> HIDE DEF q, p, t
  <2>5. /\ Shaped(q) /\ DOMAIN q.tables = DOMAIN r.tables /\ q.tables[t].imports = r.tables[t].imports
        /\ IsSeq(q.tables[t].imports) /\ ImportsOf(q.tables[t]) = ImportsOf(r.tables[t])
    BY <2>3, <2>4 DEF SameImports, ImportsOf
  <2>6. /\ SameImports(q, p)
        /\ p.error = "none" => q.error = "none" /\ ImportsOf(q.tables[t]) \subseteq DOMAIN q.tables
    BY <2>1, <2>4, <2>5, ModuleLinked
  <2>7. SameImports(r, p)
    BY <2>3, <2>6, SameTwice
  <2>8. Good(i + 1)
    BY <2>2, <2>3, <2>5, <2>6, <2>7 DEF p, t
  <2>9. QED
    BY <2>2, <2>8
<1>5. n \in P
  <2>1. \A i \in 0..n : i \in P /\ i < n => i + 1 \in P
    BY <1>4
  <2>2. n \in 0..n
    BY <1>2
  <2> HIDE DEF P
  <2>3. QED
    BY <1>2, <1>3, <2>1, <2>2, Climb
<1>6. QED
  BY <1>1, <1>2, <1>5

\* link(): no error, and every import is of a module it knows.
LEMMA LinkFindsImports ==
  ASSUME NEW fs, IsSeq(fs), \A x \in DOMAIN fs : IsSeq(fs[x].imports), NEW known, IsFiniteSet(DOMAIN known),
         Link(fs, known).error = "none"
  PROVE  /\ ~Duplicates(fs)
         /\ \A x \in DOMAIN fs : ImportsOf(fs[x]) \subseteq NamesOf(fs) \cup DOMAIN known
<1> DEFINE tables == Index(fs, known)
           D == NamesOf(fs) \cup DOMAIN known
           r == [error |-> "none", tables |-> tables]
           order == TopoOrder(tables)
           q == FoldLeft(LinkModule, r, order)
<1>1. ~Duplicates(fs)
  BY DEF Link
<1>2. LinkInOrder(r, order).error = "none"
  BY <1>1 DEF Link, LinkTables
<1>3. /\ DOMAIN tables = D /\ tables = [m \in D |-> tables[m]]
      /\ \A m \in D : \/ m \in NamesOf(fs) /\ tables[m] = Table(fs[CHOOSE i \in DOMAIN fs : fs[i].name = m])
                      \/ tables[m] = CompiledTable(m, known[m])
      /\ \A m \in NamesOf(fs) : tables[m] = Table(fs[CHOOSE i \in DOMAIN fs : fs[i].name = m])
  BY DEF Index
<1> HIDE DEF tables
<1>4. \A m \in D : tables[m] = TableOf(tables[m]) /\ IsSeq(tables[m].imports)
  <2>1. ASSUME NEW m \in D PROVE tables[m] = TableOf(tables[m]) /\ IsSeq(tables[m].imports)
    <3>1. CASE m \in NamesOf(fs) /\ tables[m] = Table(fs[CHOOSE i \in DOMAIN fs : fs[i].name = m])
      <4>1. PICK i \in DOMAIN fs : tables[m] = Table(fs[i])
        BY <3>1 DEF NamesOf
      <4>2. QED
        BY <4>1 DEF Table, TableOf
    <3>2. CASE tables[m] = CompiledTable(m, known[m])
      <4>1. tables[m].imports = <<>> /\ tables[m] = TableOf(tables[m])
        BY <3>2 DEF CompiledTable, TableOf
      <4>2. QED
        BY <4>1, EmptyIsSeq
    <3>3. QED
      <4>1. \/ m \in NamesOf(fs) /\ tables[m] = Table(fs[CHOOSE i \in DOMAIN fs : fs[i].name = m])
            \/ tables[m] = CompiledTable(m, known[m])
        BY <1>3
      <4>2. QED
        BY <3>1, <3>2, <4>1
  <2>2. QED
    BY <2>1
<1>5. Shaped(r) /\ r.tables = tables
  BY <1>3, <1>4 DEF Shaped
<1>6. IsFiniteSet(DOMAIN tables)
  <2>1. IsFiniteSet(NamesOf(fs))
    <3> DEFINE f == [i \in DOMAIN fs |-> fs[i].name]
    <3>1. IsFiniteSet(DOMAIN fs)
      <4>1. DOMAIN fs = 1..Len(fs) /\ Len(fs) \in Nat
        BY SeqShape
      <4>2. 1 \in Int /\ Len(fs) \in Int
        BY <4>1
      <4>3. IsFiniteSet(1..Len(fs))
        BY ONLY <4>2, FS_Interval
      <4>4. QED
        BY ONLY <4>1, <4>3
    <3>2. f \in Surjection(DOMAIN fs, NamesOf(fs))
      <4>1. f \in [DOMAIN fs -> NamesOf(fs)] /\ \A i \in DOMAIN fs : f[i] = fs[i].name
        BY DEF NamesOf
      <4> HIDE DEF f
      <4>2. \A y \in NamesOf(fs) : \E i \in DOMAIN fs : f[i] = y
        BY <4>1 DEF NamesOf
      <4>3. QED
        BY ONLY <4>1, <4>2 DEF Surjection
    <3>3. QED
      BY <3>1, <3>2, FS_Surjection
  <2>2. IsFiniteSet(NamesOf(fs) \cup DOMAIN known)
    BY <2>1, FS_Union
  <2>3. QED
    BY <1>3, <2>2
<1>7. InOrder(tables, order)
  BY <1>6, OrderIsInjective
<1> HIDE DEF order, r
<1>8. ~(Len(order) < Cardinality(DOMAIN tables)) /\ CheckExports(q).error = "none"
  BY <1>2, <1>5 DEF LinkInOrder, Failed, Shaped
<1>9. q.error = "none"
  <2> HIDE DEF q
  <2>1. CASE q.error # "none"
    <3>1. CheckExports(q) = q
      BY <2>1 DEF CheckExports
    <3>2. QED
      BY <1>8, <2>1, <3>1
  <2>2. QED
    BY <2>1
<1>10. \A m \in DOMAIN tables : \E i \in DOMAIN order : order[i] = m
  BY <1>6, <1>7, <1>8, WholeOrder
<1>11. IsSeq(order) /\ \A i \in DOMAIN order : order[i] \in DOMAIN tables
  BY <1>7, SeqFrom DEF InOrder
<1>12. \A i \in DOMAIN order : ImportsOf(tables[order[i]]) \subseteq DOMAIN tables
  BY <1>3, <1>4, <1>5, <1>9, <1>11, ModulesLinked
<1>13. ASSUME NEW x \in DOMAIN fs PROVE ImportsOf(fs[x]) \subseteq D
  <2> DEFINE m == fs[x].name
             y == CHOOSE i \in DOMAIN fs : fs[i].name = m
  <2>1. m \in D
    BY DEF NamesOf
  <2>2. y \in DOMAIN fs /\ fs[y].name = fs[x].name
    OBVIOUS
  <2>3. y = x
    BY <1>1, <2>2, DistinctNames
  <2>4. tables[m].imports = fs[x].imports
    <3>1. m \in NamesOf(fs)
      BY DEF NamesOf
    <3>2. tables[m] = Table(fs[y])
      BY <1>3, <3>1
    <3> HIDE DEF m, y
    <3>3. tables[m] = Table(fs[x])
      BY <2>3, <3>2
    <3>4. QED
      BY <3>3 DEF Table
  <2> HIDE DEF m, y
  <2>5. ImportsOf(tables[m]) \subseteq DOMAIN tables
    BY <1>3, <1>10, <1>12, <2>1
  <2>6. QED
    BY <1>3, <2>4, <2>5 DEF ImportsOf
<1>14. QED
  BY <1>1, <1>13

-----------------------------------------------------------------------------
(* The compilation of a submission, an eval or a file.                     *)

\* Without duplicates, the forms behind have names of their own.
LEMMA NamesApart ==
  ASSUME NEW s, IsSeq(s), NEW t, IsSeq(t), ~Duplicates(s \o t)
  PROVE  NamesOf(s) \cap NamesOf(t) = {}
<1> DEFINE u == s \o t
           n == Len(s)
           N == Len(s) + Len(t)
           X == 1..N
           T == NamesOf(u)
<1>1. n \in Nat /\ Len(t) \in Nat /\ DOMAIN s = 1..n /\ DOMAIN t = 1..Len(t)
  BY SeqShape
<1>2. /\ IsSeq(u) /\ Len(u) = N /\ (\A i \in 1..n : u[i] = s[i]) /\ \A i \in 1..Len(t) : u[n + i] = t[i]
  BY Joined
<1>3. ~(Cardinality(NamesOf(u)) < Len(u))
  BY DEF Duplicates
<1> HIDE DEF u, n
<1>4. DOMAIN u = X /\ N \in Nat
  <2>1. DOMAIN u = 1..Len(u)
    BY <1>2, SeqShape
  <2>2. QED
    BY <1>1, <1>2, <2>1 DEF n
<1>5. SUFFICES ASSUME NEW i \in 1..n, NEW j \in 1..Len(t), s[i].name = t[j].name PROVE FALSE
  BY <1>1 DEF NamesOf
<1> DEFINE b == n + j
           R == X \ {b}
           f == [x \in R |-> u[x].name]
<1>6. i \in X /\ b \in X /\ i # b /\ u[i].name = u[b].name
  <2>1. i \in X /\ b \in X /\ i # b
    BY <1>1 DEF n
  <2>2. QED
    BY <1>2, <1>5, <2>1
<1>7. IsFiniteSet(X) /\ Cardinality(X) = N
  <2>1. IsFiniteSet(1..N) /\ Cardinality(1..N) = IF 1 > N THEN 0 ELSE N - 1 + 1
    BY <1>4, FS_Interval
  <2> HIDE DEF N
  <2>2. QED
    BY <1>4, <2>1
<1> HIDE DEF X, b, N
<1>8. IsFiniteSet(R) /\ Cardinality(R) = N - 1
  BY <1>6, <1>7, FS_RemoveElement
<1>9. f \in Surjection(R, T)
  <2>1. f \in [R -> T]
    BY <1>4 DEF NamesOf
  <2>2. ASSUME NEW y \in T PROVE \E x \in R : f[x] = y
    <3>1. PICK x \in X : u[x].name = y
      BY <1>4 DEF NamesOf
    <3>2. CASE x # b
      BY <3>1, <3>2
    <3>3. CASE x = b
      BY <1>6, <3>1, <3>3
    <3>4. QED
      BY <3>2, <3>3
  <2> HIDE DEF f, R, T
  <2>3. QED
    BY <2>1, <2>2 DEF Surjection
<1> HIDE DEF f, R, T
<1>10. IsFiniteSet(T) /\ Cardinality(T) <= N - 1
  BY <1>8, <1>9, FS_Surjection
<1>11. Cardinality(T) \in Nat
  BY <1>10, FS_CardinalityType
<1>12. ~(Cardinality(T) < N)
  BY <1>2, <1>3 DEF T
<1>13. QED
  BY <1>4, <1>10, <1>11, <1>12

\* What the linker has seen to.
Linked(fs, known) ==
  (\A x \in DOMAIN fs : IsSeq(fs[x].imports)) /\ IsFiniteSet(DOMAIN known)
    => \A x \in DOMAIN fs : ImportsOf(fs[x]) \subseteq NamesOf(fs) \cup DOMAIN known

\* The step of a compilation that succeeds.
CompileStep(g) ==
  /\ calls # <<>> /\ Top.kind = "source" /\ Top.pc = "load" /\ calls' = Append(Front(calls), g) /\ FrameOK(g)
  /\ SameLinks(g, Top) /\ g.pc = "run" /\ g.base = Len(forms) /\ forms' = forms \o Top.new
  /\ DOMAIN g.sem = DOMAIN forms' /\ \A i \in DOMAIN forms' : g.sem[i].name = forms'[i].name
  /\ NamesOf(forms) \cap NamesOf(Top.new) = {}
  /\ executed' = executed /\ reserved' = reserved /\ loading' = loading /\ indexed' = indexed
  /\ spent' = spent /\ home' = home
  /\ g.todo = Top.todo /\ Top.todo = <<>> /\ compiled' = compiled /\ Linked(forms', compiled)

LEMMA CompileCalls ==
  ASSUME Core, NEW g, CompileStep(g)
  PROVE  LET n == Len(calls)
             N == Len(forms)
         IN  /\ n \in Nat /\ n \in 1..n /\ DOMAIN calls = 1..n /\ DOMAIN calls' = 1..n /\ IsSeq(calls') /\ calls'[n] = g
             /\ Len(calls') = n /\ Top = calls[n]
             /\ \A i \in 1..n : i # n => calls'[i] = calls[i]
             /\ \A i \in 1..n : /\ FrameOK(calls[i]) /\ FrameOK(calls'[i]) /\ calls'[i].kind = calls[i].kind
                                /\ calls'[i].via = calls[i].via /\ calls'[i].key = calls[i].key
                                /\ calls'[i].new = calls[i].new /\ calls'[i].guard = calls[i].guard
             /\ Started(g) /\ ~Started(calls[n]) /\ g.base = N /\ g.new = calls[n].new
             /\ N \in Nat /\ Len(g.new) \in Nat /\ DOMAIN forms = 1..N /\ IsSeq(forms') /\ Len(forms') = N + Len(g.new)
             /\ DOMAIN forms' = 1..(N + Len(g.new)) /\ (\A x \in 1..N : forms'[x] = forms[x])
             /\ \A i \in 1..Len(g.new) : forms'[N + i] = g.new[i]
             /\ 1..N \subseteq 1..(N + Len(g.new))
<1> DEFINE n == Len(calls)
           N == Len(forms)
           u == Append(Front(calls), g)
           w == forms \o Top.new
<1>1. calls # <<>> /\ FrameOK(g) /\ SameLinks(g, Top) /\ g.pc = "run" /\ g.base = N /\ Top.kind = "source" /\ Top.pc = "load"
  BY DEF CompileStep
<1>2. /\ n \in Nat /\ n \in 1..n /\ DOMAIN calls = 1..n /\ IsSeq(calls) /\ \A i \in 1..n : FrameOK(calls[i])
  BY <1>1, FrameFacts DEF Core
<1>3. IsSeq(forms) /\ IsSeq(Top.new) /\ IsSeq(g.new) /\ Top = calls[n] /\ g.new = Top.new
  BY <1>1, <1>2 DEF Core, FormsOK, FrameOK, Top, SameLinks
<1>4. IsSeq(u) /\ Len(u) = n /\ u[n] = g /\ DOMAIN u = 1..n /\ \A i \in 1..n : i # n => u[i] = calls[i]
  BY <1>1, <1>2, Replaced
<1>5. /\ IsSeq(w) /\ Len(w) = N + Len(Top.new) /\ (\A x \in 1..N : w[x] = forms[x])
      /\ \A i \in 1..Len(Top.new) : w[N + i] = Top.new[i]
  BY <1>3, Joined
<1>6. calls' = u /\ forms' = w
  BY DEF CompileStep
<1> HIDE DEF u, w
<1>7. N \in Nat /\ DOMAIN forms = 1..N /\ Len(g.new) \in Nat /\ DOMAIN w = 1..(N + Len(g.new))
  <2>1. DOMAIN w = 1..Len(w)
    BY <1>5, SeqShape
  <2>2. QED
    BY <1>3, <1>5, <2>1, SeqShape
<1> HIDE DEF n, N
<1>8. Started(g) /\ ~Started(calls[n])
  BY <1>1, <1>3 DEF Started, SameLinks
<1>9. ASSUME NEW i \in 1..n
      PROVE  /\ FrameOK(u[i]) /\ u[i].kind = calls[i].kind /\ u[i].via = calls[i].via /\ u[i].key = calls[i].key
             /\ u[i].new = calls[i].new /\ u[i].guard = calls[i].guard
  <2>1. CASE i = n
    BY <1>1, <1>3, <1>4, <2>1 DEF SameLinks
  <2>2. CASE i # n
    BY <1>2, <1>4, <2>2
  <2>3. QED
    BY <2>1, <2>2
<1>10. 1..N \subseteq 1..(N + Len(g.new))
  BY <1>7
<1>11. QED
  BY <1>1, <1>2, <1>3, <1>4, <1>5, <1>6, <1>7, <1>8, <1>9, <1>10 DEF n, N

LEMMA CompileStackOK == ASSUME Core, NEW g, CompileStep(g) PROVE StackOK'
<1> DEFINE n == Len(calls)
<1>1. /\ n \in Nat /\ DOMAIN calls' = 1..n /\ IsSeq(calls') /\ (\A i \in 1..n : i # n => calls'[i] = calls[i])
      /\ \A i \in 1..n : FrameOK(calls'[i]) /\ calls'[i].via = calls[i].via
  BY CompileCalls
<1>2. /\ \A i \in 1..n : i = 1 <=> calls[i].via = "user"
      /\ \A i, j \in 1..n : i < j /\ calls[j].via # "eval" => calls[i].pc = "load" /\ calls[i].via # "eval"
      /\ \A i, j \in 1..n : i + 1 = j /\ calls[j].via = "eval" => RunsProgram(calls[i])
  BY FrameFacts DEF Core
<1> HIDE DEF n
<1>3. \A i, j \in 1..n : i < j \/ i + 1 = j => i # n
  BY <1>1
<1>4. \A i, j \in 1..n : i < j /\ calls'[j].via # "eval" => calls'[i].pc = "load" /\ calls'[i].via # "eval"
  BY <1>1, <1>2, <1>3
<1>5. \A i, j \in 1..n : i + 1 = j /\ calls'[j].via = "eval" => RunsProgram(calls'[i])
  BY <1>1, <1>2, <1>3
<1>6. QED
  BY <1>1, <1>2, <1>4, <1>5 DEF StackOK

LEMMA CompileFormsOK == ASSUME Core, NEW g, CompileStep(g) PROVE FormsOK'
<1> DEFINE n == Len(calls)
           N == Len(forms)
<1>1. /\ n \in Nat /\ n \in 1..n /\ DOMAIN calls = 1..n /\ DOMAIN calls' = 1..n /\ calls'[n] = g
      /\ \A i \in 1..n : i # n => calls'[i] = calls[i]
  BY CompileCalls
<1>2. /\ g.base = N /\ N \in Nat /\ Len(g.new) \in Nat /\ DOMAIN forms = 1..N /\ IsSeq(forms')
      /\ Len(forms') = N + Len(g.new) /\ DOMAIN forms' = 1..(N + Len(g.new)) /\ (\A x \in 1..N : forms'[x] = forms[x])
      /\ (\A i \in 1..Len(g.new) : forms'[N + i] = g.new[i]) /\ 1..N \subseteq 1..(N + Len(g.new))
  BY CompileCalls
<1>3. DOMAIN g.sem = DOMAIN forms' /\ \A i \in DOMAIN forms' : g.sem[i].name = forms'[i].name
  BY DEF CompileStep
<1>4. /\ \A j \in 1..n : Started(calls[j]) =>
           /\ calls[j].base + Len(calls[j].new) <= N
           /\ \A i \in 1 .. Len(calls[j].new) : forms[calls[j].base + i] = calls[j].new[i]
           /\ \A i \in DOMAIN calls[j].sem : \E x \in DOMAIN forms :
                forms[x].name = calls[j].sem[i].name /\ x <= calls[j].base + Len(calls[j].new)
      /\ \A j, k \in 1..n : j < k /\ Started(calls[j]) /\ Started(calls[k])
           => calls[j].base + Len(calls[j].new) <= calls[k].base
  BY <1>1 DEF Core, FormsOK
<1>5. \A j \in 1..n : FrameOK(calls[j])
  BY FrameFacts DEF Core
<1> HIDE DEF n, N
<1>6. ASSUME NEW j \in 1..n, j # n, Started(calls'[j])
      PROVE  /\ calls'[j].base + Len(calls'[j].new) <= Len(forms')
             /\ \A i \in 1 .. Len(calls'[j].new) : forms'[calls'[j].base + i] = calls'[j].new[i]
             /\ \A i \in DOMAIN calls'[j].sem : \E x \in DOMAIN forms' :
                  forms'[x].name = calls'[j].sem[i].name /\ x <= calls'[j].base + Len(calls'[j].new)
  <2> DEFINE c == calls[j]
  <2>1. c = calls'[j] /\ Started(c)
    BY <1>1, <1>6
  <2>2. /\ c.base + Len(c.new) <= N
        /\ \A i \in 1 .. Len(c.new) : forms[c.base + i] = c.new[i]
        /\ \A i \in DOMAIN c.sem : \E x \in DOMAIN forms : forms[x].name = c.sem[i].name /\ x <= c.base + Len(c.new)
    BY <1>4, <2>1
  <2>3. c.base \in Nat /\ Len(c.new) \in Nat
    BY <1>5, SeqShape DEF FrameOK
  <2> HIDE DEF c
  <2>4. c.base + Len(c.new) <= Len(forms')
    BY <1>2, <2>2, <2>3
  <2>5. ASSUME NEW i \in 1..Len(c.new) PROVE forms'[c.base + i] = c.new[i]
    <3>1. c.base + i \in 1..N
      BY <1>2, <2>2, <2>3
    <3>2. QED
      BY <1>2, <2>2, <3>1
  <2>6. \A i \in DOMAIN c.sem : \E x \in DOMAIN forms' : forms'[x].name = c.sem[i].name /\ x <= c.base + Len(c.new)
    BY <1>2, <2>2
  <2>7. QED
    BY <2>1, <2>4, <2>5, <2>6
<1>7. /\ g.base + Len(g.new) <= Len(forms')
      /\ \A i \in 1 .. Len(g.new) : forms'[g.base + i] = g.new[i]
      /\ \A i \in DOMAIN g.sem : \E x \in DOMAIN forms' : forms'[x].name = g.sem[i].name /\ x <= g.base + Len(g.new)
  <2>1. g.base + Len(g.new) <= Len(forms') /\ \A i \in 1 .. Len(g.new) : forms'[g.base + i] = g.new[i]
    BY <1>2
  <2>2. \A x \in DOMAIN forms' : x <= g.base + Len(g.new)
    BY <1>2
  <2>3. QED
    BY <1>3, <2>1, <2>2
<1>8. ASSUME NEW j \in 1..n, NEW k \in 1..n, j < k, Started(calls'[j]), Started(calls'[k])
      PROVE  calls'[j].base + Len(calls'[j].new) <= calls'[k].base
  <2>1. j # n
    BY <1>1, <1>8
  <2>2. CASE k = n
    BY <1>1, <1>2, <1>4, <1>8, <2>1, <2>2
  <2>3. CASE k # n
    BY <1>1, <1>4, <1>8, <2>1, <2>3
  <2>4. QED
    BY <2>2, <2>3
<1>9. \A j \in DOMAIN calls' : Started(calls'[j]) =>
           /\ calls'[j].base + Len(calls'[j].new) <= Len(forms')
           /\ \A i \in 1 .. Len(calls'[j].new) : forms'[calls'[j].base + i] = calls'[j].new[i]
           /\ \A i \in DOMAIN calls'[j].sem : \E x \in DOMAIN forms' :
                forms'[x].name = calls'[j].sem[i].name /\ x <= calls'[j].base + Len(calls'[j].new)
  <2>1. SUFFICES ASSUME NEW j \in 1..n, Started(calls'[j])
                 PROVE  /\ calls'[j].base + Len(calls'[j].new) <= Len(forms')
                        /\ \A i \in 1 .. Len(calls'[j].new) : forms'[calls'[j].base + i] = calls'[j].new[i]
                        /\ \A i \in DOMAIN calls'[j].sem : \E x \in DOMAIN forms' :
                             forms'[x].name = calls'[j].sem[i].name /\ x <= calls'[j].base + Len(calls'[j].new)
    BY <1>1
  <2>2. CASE j = n
    BY <1>1, <1>7, <2>2
  <2>3. CASE j # n
    BY <1>6, <2>1, <2>3
  <2>4. QED
    BY <2>2, <2>3
<1>10. \A j, k \in DOMAIN calls' : j < k /\ Started(calls'[j]) /\ Started(calls'[k])
         => calls'[j].base + Len(calls'[j].new) <= calls'[k].base
  BY <1>1, <1>8
<1>11. QED
  BY <1>2, <1>9, <1>10 DEF FormsOK

LEMMA CompileReal == ASSUME Core, NEW g, CompileStep(g) PROVE Guards' = Guards /\ Real' = Real
<1>1. /\ DOMAIN calls' = DOMAIN calls /\ \A i \in DOMAIN calls : calls'[i].guard = calls[i].guard
  BY CompileCalls
<1>2. Guards' = Guards
  BY <1>1 DEF Guards
<1>3. executed' = executed
  BY DEF CompileStep
<1>4. QED
  BY <1>2, <1>3 DEF Real

LEMMA CompileCovered == ASSUME Core, NEW g, CompileStep(g) PROVE Covered'
<1> DEFINE n == Len(calls)
           N == Len(forms)
<1>1. /\ n \in 1..n /\ DOMAIN calls = 1..n /\ DOMAIN calls' = 1..n /\ calls'[n] = g
      /\ Started(g) /\ ~Started(calls[n]) /\ \A i \in 1..n : i # n => calls'[i] = calls[i]
  BY CompileCalls
<1>2. /\ g.base = N /\ N \in Nat /\ Len(g.new) \in Nat /\ DOMAIN forms = 1..N
      /\ DOMAIN forms' = 1..(N + Len(g.new)) /\ (\A x \in 1..N : forms'[x] = forms[x])
  BY CompileCalls
<1>3. DOMAIN g.sem = DOMAIN forms' /\ \A i \in DOMAIN forms' : g.sem[i].name = forms'[i].name
  BY DEF CompileStep
<1>4. Real' = Real
  BY CompileReal
<1> HIDE DEF n, N
<1>5. ASSUME NEW x \in DOMAIN forms' PROVE forms'[x].name \in Real' \/ \E j \in DOMAIN calls' : CoveredBy(j, x)'
  <2>1. CASE x <= N
    <3>1. x \in DOMAIN forms /\ forms'[x] = forms[x]
      BY <1>2, <2>1
    <3>2. CASE forms[x].name \in Real
      BY <1>4, <3>1, <3>2
    <3>3. ASSUME NEW j \in DOMAIN calls, CoveredBy(j, x) PROVE CoveredBy(j, x)'
      <4>1. j # n
        BY <1>1, <3>3 DEF CoveredBy
      <4>2. calls'[j] = calls[j]
        BY <1>1, <4>1
      <4>3. QED
        BY <3>1, <3>3, <4>2 DEF CoveredBy
    <3>4. QED
      BY <1>1, <3>1, <3>2, <3>3 DEF Core, Covered
  <2>2. CASE ~(x <= N)
    <3>1. Within(g, x)
      BY <1>2, <2>2 DEF Within
    <3>2. forms'[x].name \in NamesOf(g.sem)
      BY <1>3 DEF NamesOf
    <3>3. PICK k \in DOMAIN calls' : calls'[k] = g
      BY <1>1
    <3>4. CoveredBy(k, x)'
      BY <1>1, <3>1, <3>2, <3>3 DEF CoveredBy
    <3>5. QED
      BY <3>4
  <2>3. QED
    BY <2>1, <2>2
<1>6. QED
  BY <1>5 DEF Covered

LEMMA CompileGuardsOK == ASSUME Core, NEW g, CompileStep(g) PROVE GuardsOK'
<1> DEFINE n == Len(calls)
           N == Len(forms)
<1>1. /\ n \in Nat /\ n \in 1..n /\ DOMAIN calls = 1..n /\ DOMAIN calls' = 1..n /\ calls'[n] = g
      /\ Started(g) /\ ~Started(calls[n]) /\ g.new = calls[n].new /\ Top = calls[n]
      /\ (\A i \in 1..n : i # n => calls'[i] = calls[i])
      /\ \A i \in 1..n : calls'[i].guard = calls[i].guard
  BY CompileCalls
<1>2. /\ g.base = N /\ N \in Nat /\ DOMAIN forms = 1..N /\ DOMAIN forms' = 1..(N + Len(g.new))
      /\ (\A x \in 1..N : forms'[x] = forms[x]) /\ 1..N \subseteq 1..(N + Len(g.new))
  BY CompileCalls
<1>3. executed' = executed /\ NamesOf(forms) \cap NamesOf(g.new) = {}
  BY <1>1 DEF CompileStep, SameLinks
<1>4. /\ \A j \in 1..n : calls[j].guard \subseteq executed
      /\ \A i, j \in 1..n : i # j => calls[i].guard \cap calls[j].guard = {}
      /\ \A j \in 1..n : \A h \in calls[j].guard :
           \E y \in DOMAIN forms : forms[y].name = h /\ (calls[j].pc # "load" => y <= calls[j].base)
      /\ \A j, k \in 1..n : Started(calls[j]) /\ k <= j => NamesOf(calls[j].new) \cap calls[k].guard = {}
  BY <1>1 DEF Core, GuardsOK
<1> HIDE DEF n, N
<1>5. ASSUME NEW j \in 1..n, NEW h \in calls'[j].guard
      PROVE  \E y \in DOMAIN forms' : forms'[y].name = h /\ (calls'[j].pc # "load" => y <= calls'[j].base)
  <2>1. PICK y \in DOMAIN forms : forms[y].name = h /\ (calls[j].pc # "load" => y <= calls[j].base)
    BY <1>1, <1>4
  <2>2. y \in DOMAIN forms' /\ forms'[y].name = h /\ y <= N
    BY <1>2, <2>1
  <2>3. calls'[j].pc # "load" => y <= calls'[j].base
    BY <1>1, <1>2, <2>1, <2>2
  <2>4. QED
    BY <2>2, <2>3
<1>6. ASSUME NEW j \in 1..n, NEW k \in 1..n, Started(calls'[j]), k <= j
      PROVE  NamesOf(calls'[j].new) \cap calls'[k].guard = {}
  <2>1. CASE j = n
    <3>1. calls[k].guard \subseteq NamesOf(forms)
      BY <1>4 DEF NamesOf
    <3>2. QED
      BY <1>1, <1>3, <2>1, <3>1
  <2>2. CASE j # n
    BY <1>1, <1>4, <1>6, <2>2
  <2>3. QED
    BY <2>1, <2>2
<1>7. /\ \A j \in 1..n : calls'[j].guard \subseteq executed'
      /\ \A i, j \in 1..n : i # j => calls'[i].guard \cap calls'[j].guard = {}
  BY <1>1, <1>3, <1>4
<1>8. QED
  BY <1>1, <1>5, <1>6, <1>7 DEF GuardsOK

LEMMA CompileKeys ==
  ASSUME Core, NEW g, CompileStep(g)
  PROVE  LoadsOK' /\ KeysVia("hydrate")' = KeysVia("hydrate")
<1>1. /\ DOMAIN calls' = DOMAIN calls
      /\ \A i \in DOMAIN calls : calls'[i].via = calls[i].via /\ calls'[i].key = calls[i].key
  BY CompileCalls
<1>2. KeysVia("auto")' = KeysVia("auto") /\ KeysVia("hydrate")' = KeysVia("hydrate")
  BY ONLY <1>1 DEF KeysVia
<1>3. loading' = loading /\ indexed' = indexed
  BY DEF CompileStep
<1>4. LoadsOK
  BY DEF Core
<1>5. \A i, j \in DOMAIN calls' : i # j /\ calls'[i].via = calls'[j].via /\ calls'[i].via \in {"auto", "hydrate"}
        => calls'[i].key # calls'[j].key
  BY <1>1, <1>4 DEF LoadsOK
<1>6. QED
  BY <1>2, <1>3, <1>4, <1>5 DEF LoadsOK

LEMMA CompileIndexOK == ASSUME Core, NEW g, CompileStep(g) PROVE IndexOK'
<1> DEFINE n == Len(calls)
           N == Len(forms)
<1>1. /\ DOMAIN calls = 1..n /\ DOMAIN calls' = 1..n /\ calls'[n] = g /\ \A i \in 1..n : i # n => calls'[i] = calls[i]
  BY CompileCalls
<1>2. /\ g.base = N /\ N \in Nat /\ DOMAIN forms = 1..N /\ DOMAIN forms' = 1..(N + Len(g.new))
      /\ (\A x \in 1..N : forms'[x] = forms[x]) /\ 1..N \subseteq 1..(N + Len(g.new))
  BY CompileCalls
<1>3. executed' = executed /\ reserved' = reserved /\ indexed' = indexed /\ home' = home /\ spent' = spent
  BY DEF CompileStep
<1>4. Guards' = Guards /\ KeysVia("hydrate")' = KeysVia("hydrate")
  BY CompileReal, CompileKeys
<1>5. IndexOK
  BY DEF Core
<1> HIDE DEF n, N
<1>6. ASSUME NEW m \in indexed, Placed(m) PROVE Placed(m)'
  <2>1. PICK x \in DOMAIN forms : forms[x].name = m /\ \A j \in DOMAIN calls : Started(calls[j]) => x <= calls[j].base
    BY <1>6 DEF Placed
  <2>2. x \in DOMAIN forms' /\ forms'[x].name = m /\ x <= N
    BY <1>2, <2>1
  <2>3. \A j \in DOMAIN calls' : Started(calls'[j]) => x <= calls'[j].base
    BY <1>1, <1>2, <2>1, <2>2
  <2>4. QED
    BY <2>2, <2>3 DEF Placed
<1>7. QED
  BY <1>3, <1>4, <1>5, <1>6 DEF IndexOK, Counters, Reserves

LEMMA CompileHeadsOK == ASSUME Core, NEW g, CompileStep(g) PROVE HeadsOK'
<1> DEFINE n == Len(calls)
<1>1. /\ n \in Nat /\ DOMAIN calls = 1..n /\ DOMAIN calls' = 1..n /\ calls'[n] = g /\ Len(calls') = n
      /\ (\A i \in 1..n : i # n => calls'[i] = calls[i])
      /\ \A i \in 1..n : calls'[i].guard = calls[i].guard
  BY CompileCalls
<1>2. g.pc = "run" /\ executed' = executed /\ Real' = Real
  BY CompileReal DEF CompileStep
<1>3. \A j \in 1..n : calls[j].kind = "source" =>
        /\ calls[j].pc \in {"init", "defined"} =>
             IF j = n THEN HeadName(calls[j]) \notin executed ELSE HeadName(calls[j]) \in calls[j + 1].guard
        /\ calls[j].pc = "main" => HeadName(calls[j]) \in Real
  BY <1>1 DEF Core, HeadsOK
<1> HIDE DEF n
<1>4. \A j \in 1..n : j # n => j + 1 \in 1..n
  BY <1>1
<1>5. \A j \in 1..n : calls'[j].kind = "source" =>
        /\ calls'[j].pc \in {"init", "defined"} =>
             IF j = n THEN HeadName(calls'[j]) \notin executed' ELSE HeadName(calls'[j]) \in calls'[j + 1].guard
        /\ calls'[j].pc = "main" => HeadName(calls'[j]) \in Real'
  <2>1. SUFFICES ASSUME NEW j \in 1..n, calls'[j].kind = "source"
                 PROVE /\ calls'[j].pc \in {"init", "defined"} =>
                            IF j = n THEN HeadName(calls'[j]) \notin executed' ELSE HeadName(calls'[j]) \in calls'[j + 1].guard
                       /\ calls'[j].pc = "main" => HeadName(calls'[j]) \in Real'
    OBVIOUS
  <2>2. CASE j = n
    BY <1>1, <1>2, <2>2
  <2>3. CASE j # n
    BY <1>1, <1>2, <1>3, <1>4, <2>1, <2>3
  <2>4. QED
    BY <2>2, <2>3
<1>6. QED
  BY <1>1, <1>5 DEF HeadsOK

LEMMA CompileStepKeeps == ASSUME Core, NEW g, CompileStep(g) PROVE Core'
BY CompileStackOK, CompileFormsOK, CompileCovered, CompileGuardsOK, CompileKeys, CompileIndexOK, CompileHeadsOK DEF Core

LEMMA CompileSteps == Core /\ Compile => (\E k, b : PopStep(k, b)) \/ \E g : CompileStep(g)
<1> SUFFICES ASSUME Core, Compile PROVE (\E k, b : PopStep(k, b)) \/ \E g : CompileStep(g)
  OBVIOUS
<1> DEFINE all == forms \o Top.new
           linked == Link(all, compiled)
           layout == Layout(all, linked.tables)
           sem == [i \in DOMAIN all |-> Module(all[i], layout.slots[i])]
           q == Top
           g == Based(q, "run", Len(forms), sem)
<1>1. calls # <<>> /\ Top.kind = "source" /\ Top.pc = "load" /\ Top.todo = <<>> /\ spent \in Counters
  BY DEF Compile, Loaded, Core, IndexOK
<1>2. IF linked.error = "none" THEN Compiled(all, layout) ELSE Abort(forms) /\ spent' = spent
  BY DEF Compile, CompileAll, CompileLinked
<1>3. CASE linked.error # "none"
  <2>1. ~Started(Top)
    BY <1>1 DEF Started
  <2>2. Abort(forms) /\ spent' = spent
    BY <1>2, <1>3
  <2>3. QED
    BY <1>1, <2>1, <2>2, LoadFails
<1>4. CASE linked.error = "none"
  <2>1. ~Duplicates(all)
    <3>1. Duplicates(all) => linked.error = "DuplicateModule"
      BY DEF Link
    <3> HIDE DEF linked, all
    <3>2. QED
      BY <1>4, <3>1
  <2>2. Compiled(all, layout)
    BY <1>2, <1>4
  <2>3. FrameOK(q) /\ q = FrameOf(q) /\ IsSeq(q.new) /\ IsSeq(forms) /\ Len(forms) \in Nat
    BY <1>1, TopFacts, SeqShape DEF Core, FormsOK
  <2>4. NamesOf(forms) \cap NamesOf(Top.new) = {}
    BY <2>1, <2>3, NamesApart
  <2>5. IsSeq(all)
    BY <2>3, Joined
  <2>6. /\ forms' = all /\ executed' = executed /\ reserved' = reserved /\ loading' = loading /\ indexed' = indexed
        /\ spent' = spent /\ home' = home /\ compiled' = compiled
    BY <2>2 DEF Compiled, caches
  <2>7. calls' = Append(Front(calls), g)
    BY <2>2 DEF Compiled, Replace, Based
  <2>13. Linked(all, compiled)
    <3>1. Link(all, compiled).error = "none"
      BY <1>4
    <3> HIDE DEF all
    <3>2. QED
      BY <2>5, <3>1, LinkFindsImports DEF Linked
  <2> HIDE DEF all, layout, q
  <2>8. IsSeq(sem) /\ DOMAIN sem = DOMAIN all /\ \A i \in DOMAIN all : sem[i].name = all[i].name
    <3>1. DOMAIN all = 1..Len(all) /\ Len(all) \in Nat
      BY <2>5, SeqShape
    <3> DEFINE M(i) == Module(all[i], layout.slots[i])
               K == {M(i) : i \in 1..Len(all)}
    <3>2. sem = [i \in 1..Len(all) |-> M(i)] /\ \A i \in 1..Len(all) : M(i) \in K
      BY <3>1
    <3> HIDE DEF M, K, sem
    <3>3. IsSeq(sem)
      <4>1. sem \in Seq(K)
        BY <3>1, <3>2
      <4>2. QED
        BY <4>1, SeqFrom
    <3>4. \A i \in DOMAIN all : sem[i].name = all[i].name
      BY <3>1, <3>2 DEF M, Module
    <3>5. QED
      BY <3>1, <3>2, <3>3, <3>4
  <2> HIDE DEF sem
  <2>9. g = FrameOf(g) /\ SameLinks(g, q) /\ g.todo = q.todo /\ g.pc = "run" /\ g.base = Len(forms) /\ g.sem = sem
    BY <2>3, WithForms
  <2> HIDE DEF g
  <2>10. FrameOK(g)
    <3>1. ~RunsProgram(g)
      BY <2>9 DEF RunsProgram
    <3>2. QED
      BY <2>3, <2>8, <2>9, <3>1, FrameMoves
  <2>11. CompileStep(g)
    BY <1>1, <2>4, <2>6, <2>7, <2>8, <2>9, <2>10, <2>13 DEF CompileStep, q, all
  <2>12. QED
    BY <2>11
<1>5. QED
  BY <1>3, <1>4

-----------------------------------------------------------------------------
(* The order modules run in: what every step needs.                        *)

LEMMA LayerFacts ==
  ASSUME Layered
  PROVE  /\ \A m \in DOMAIN Disk : Layer[m] \in Int
         /\ \A m \in DOMAIN Disk : \A k \in ImportsOf(Disk[m].form) \cap DOMAIN Disk :
              Layer[k] <= Layer[m] /\ (Disk[m].artifact => Layer[k] < Layer[m])
<1> DEFINE N == Cardinality(DOMAIN Disk)
           S == [DOMAIN Disk -> 1 .. N]
<1>1. \E layer \in S : Layers(layer)
  BY DEF Layered, Layers
<1>2. Layer = CHOOSE layer \in S : Layers(layer)
  BY DEF Layer
<1>3. Layer \in S /\ Layers(Layer)
  <2> HIDE DEF S
  <2>1. QED
    BY <1>1, <1>2
<1>4. QED
  BY <1>3 DEF Layers

LEMMA DiskNames ==
  /\ DOMAIN Disk \cap Reserves = {}
  /\ \A n \in 0 .. MaxEvals : EvalName(n) \notin DOMAIN Disk
  /\ \A m \in DOMAIN Disk : Disk[m].form.name = m
BY NamesAssumption, SessionAssumption DEF NamesAssumption, SessionAssumption, Reserves

LEMMA FirstOf ==
  ASSUME NEW s, IsSeq(s), s # <<>>
  PROVE  /\ Head(s) \in ToSet(s) /\ ToSet(Tail(s)) \subseteq ToSet(s) /\ s[1].name \in NamesOf(s)
         /\ \A m \in ToSet(s) : m = Head(s) \/ m \in ToSet(Tail(s))
<1>1. DOMAIN s = 1..Len(s) /\ Len(s) \in Nat /\ Len(s) >= 1
  BY SeqShape
<1>2. IsSeq(Tail(s)) /\ Len(Tail(s)) = Len(s) - 1 /\ Head(s) = s[1] /\ \A i \in 1..(Len(s) - 1) : Tail(s)[i] = s[i + 1]
  BY Tailed
<1> DEFINE t == Tail(s)
<1>3. DOMAIN t = 1..(Len(s) - 1)
  BY <1>2, SeqShape
<1> HIDE DEF t
<1>4. Head(s) \in ToSet(s) /\ s[1].name \in NamesOf(s)
  BY <1>1, <1>2 DEF ToSet, NamesOf
<1>5. ASSUME NEW m \in ToSet(t) PROVE m \in ToSet(s)
  <2>1. PICK i \in 1..(Len(s) - 1) : t[i] = m
    BY <1>3 DEF ToSet
  <2>2. i + 1 \in DOMAIN s /\ s[i + 1] = m
    BY <1>1, <1>2, <2>1 DEF t
  <2>3. QED
    BY <2>2 DEF ToSet
<1>6. ASSUME NEW m \in ToSet(s) PROVE m = Head(s) \/ m \in ToSet(t)
  <2>1. PICK i \in 1..Len(s) : s[i] = m
    BY <1>1 DEF ToSet
  <2>2. CASE i = 1
    BY <1>2, <2>1, <2>2
  <2>3. CASE i # 1
    <3>1. i - 1 \in 1..(Len(s) - 1) /\ (i - 1) + 1 = i
      BY <1>1, <2>3
    <3>2. t[i - 1] = m
      BY <1>2, <2>1, <3>1 DEF t
    <3>3. QED
      BY <1>3, <3>1, <3>2 DEF ToSet
  <2>4. QED
    BY <2>2, <2>3
<1>7. QED
  BY <1>4, <1>5, <1>6 DEF t

\* What is met stays so while only placeholders cease to count as executed.
LEMMA MetStays ==
  ASSUME NEW fs, NEW fs1, NEW b, NEW real, NEW real1, Met(fs, b, real), \A x \in 1..b : fs1[x] = fs[x] /\ Fine(fs[x]),
         real \ Reserves \subseteq real1
  PROVE  Met(fs1, b, real1)
<1> SUFFICES ASSUME NEW x \in 1..b, NEW m \in ImportsOf(fs1[x]) PROVE m \in real1 \/ \E y \in 1..b : fs1[y].name = m
  BY DEF Met
<1>1. fs1[x] = fs[x] /\ m \notin Reserves
  BY DEF Fine
<1>2. m \in real \/ \E y \in 1..b : fs[y].name = m
  BY <1>1 DEF Met
<1>3. QED
  BY <1>1, <1>2

LEMMA FrameStays ==
  ASSUME NEW f, FrameOK(f), NEW fs, NEW fs1, NEW real, NEW real1, FrameFits(f, fs, real),
         real \ Reserves \subseteq real1,
         Started(f) => \A x \in 1..f.base : fs1[x] = fs[x] /\ Fine(fs[x]),
         f.kind = "etac" => f.key \notin NamesOf(fs1)
  PROVE  FrameFits(f, fs1, real1)
<1>1. Started(f) => Met(fs1, f.base, real1)
  <2>1. SUFFICES ASSUME Started(f) PROVE Met(fs1, f.base, real1)
    OBVIOUS
  <2>2. Met(fs, f.base, real)
    BY <2>1 DEF FrameFits
  <2>3. QED
    BY <2>1, <2>2, MetStays
<1>2. f.kind = "etac" => EtacFits(f, NamesOf(fs1), real1)
  <2>1. SUFFICES ASSUME f.kind = "etac" PROVE EtacFits(f, NamesOf(fs1), real1)
    OBVIOUS
  <2>2. EtacFits(f, NamesOf(fs), real)
    BY <2>1 DEF FrameFits
  <2>3. f.key \in DOMAIN Disk
    BY <2>1 DEF FrameOK
  <2>4. f.key \notin Reserves /\ ImportsOf(Disk[f.key].form) \cap Reserves = {}
    BY <2>3, DiskNames, FileFormIsFine DEF Fine
  <2>5. QED
    BY <2>1, <2>2, <2>4 DEF EtacFits
<1>3. QED
  BY <1>1, <1>2 DEF FrameFits

\* A call for an import goes down the layers.
LEMMA GoesDown ==
  ASSUME Layered, StackOK, NEW f, FrameOK(f), Keyed(f), calls # <<>>, Top.todo # <<>>, f.key = Head(Top.todo),
         NEW fs, NEW real, StackFits(calls, fs, real), f.pc = "load", Top.via # "eval",
         NEW i \in DOMAIN calls
  PROVE  PairFits(calls[i], f)
<1> DEFINE n == Len(calls)
<1>1. /\ n \in Nat /\ n \in 1..n /\ DOMAIN calls = 1..n /\ \A j \in 1..n : FrameOK(calls[j])
      /\ \A j \in 1..n : j = 1 <=> calls[j].via = "user"
  BY FrameFacts
<1>2. Top = calls[n]
  BY DEF Top
<1>3. /\ FrameFits(Top, fs, real)
      /\ \A j, k \in 1..n : j < k => PairFits(calls[j], calls[k])
  BY <1>1, <1>2 DEF StackFits
<1>4. ~RunsProgram(f)
  BY DEF RunsProgram
<1> HIDE DEF n
<1>5. CASE ~Keyed(Top)
  <2>1. Top.via = "user"
    BY <1>5 DEF Keyed
  <2>2. n = 1
    BY <1>1, <1>2, <2>1
  <2>3. i = n
    BY <1>1, <2>2
  <2>4. ~Keyed(calls[i])
    BY <1>2, <1>5, <2>3
  <2>5. QED
    BY <1>4, <2>4 DEF PairFits
<1>6. CASE Keyed(Top)
  <2>1. /\ IsSeq(Top.todo) /\ ToSet(Top.todo) \subseteq ImportsOf(Disk[Top.key].form)
        /\ Top.kind = "etac" => Disk[Top.key].artifact
    BY <1>3, <1>6 DEF FrameFits, EtacFits
  <2>2. f.key \in ImportsOf(Disk[Top.key].form)
    BY <2>1, FirstOf
  <2>3. FrameOK(Top)
    BY <1>1, <1>2
  <2>4. Top.key \in DOMAIN Disk /\ f.key \in DOMAIN Disk
    BY <1>6, <2>3 DEF FrameOK, Keyed
  <2>5. Layer[f.key] <= Layer[Top.key] /\ (Top.kind = "etac" => Layer[f.key] < Layer[Top.key])
    BY <2>1, <2>2, <2>4, LayerFacts
  <2>6. Layer[f.key] \in Int /\ Layer[Top.key] \in Int
    BY <2>4, LayerFacts
  <2>7. CASE i = n
    BY <1>2, <1>4, <2>5, <2>7 DEF PairFits
  <2>8. CASE i # n
    <3>1. i < n
      BY <1>1, <2>8
    <3>2. PairFits(calls[i], Top)
      BY <1>1, <1>2, <1>3, <3>1
    <3>3. ASSUME Keyed(calls[i])
          PROVE  Layer[f.key] <= Layer[calls[i].key] /\ (calls[i].kind = "etac" => Layer[f.key] < Layer[calls[i].key])
      <4>1. Layer[Top.key] <= Layer[calls[i].key] /\ (calls[i].kind = "etac" => Layer[Top.key] < Layer[calls[i].key])
        BY <1>6, <3>2, <3>3 DEF PairFits
      <4>2. calls[i].key \in DOMAIN Disk
        BY <1>1, <3>3 DEF FrameOK, Keyed
      <4>3. Layer[calls[i].key] \in Int
        BY <4>2, LayerFacts
      <4>4. QED
        BY ONLY <2>5, <2>6, <4>1, <4>3
    <3>4. QED
      BY <1>4, <3>3 DEF PairFits
  <2>9. QED
    BY <2>7, <2>8
<1>7. QED
  BY <1>5, <1>6

LEMMA GuardsAreForms == ASSUME GuardsOK PROVE Guards \subseteq executed /\ Guards \subseteq NamesOf(forms)
<1>1. ASSUME NEW g \in Guards PROVE g \in executed /\ g \in NamesOf(forms)
  <2>1. PICK j \in DOMAIN calls : g \in calls[j].guard
    BY DEF Guards
  <2>2. PICK y \in DOMAIN forms : forms[y].name = g
    BY <2>1 DEF GuardsOK
  <2>3. QED
    BY <2>1, <2>2 DEF GuardsOK, NamesOf
<1>2. QED
  BY <1>1

-----------------------------------------------------------------------------
(* The order modules run in: the innermost call goes on.                   *)

\* What runs below the innermost call counts as executed, or is an artifact.
LEMMA RunsBelow ==
  ASSUME Core, Ordered, calls # <<>>, NEW i \in DOMAIN calls, i < Len(calls), RunsProgram(calls[i]),
         NEW m \in NamesOf(Top.sem), m \notin executed, Top.pc # "load"
  PROVE  HeadName(calls[i]) # m
<1> DEFINE n == Len(calls)
           c == calls[i]
<1>1. /\ n \in Nat /\ n \in 1..n /\ DOMAIN calls = 1..n /\ Top = calls[n] /\ FrameOK(c)
      /\ \A k, j \in 1..n : k < j /\ calls[j].via # "eval" => calls[k].pc = "load" /\ calls[k].via # "eval"
  BY FrameFacts DEF Core, Top
<1>2. IsSeq(c.sem) /\ c.sem # <<>> /\ c.kind \in {"source", "etac"} /\ c.pc \in {"init", "defined", "main"}
  BY <1>1 DEF FrameOK, RunsProgram
<1>3. CASE c.kind = "source"
  <2>1. c.pc \in {"init", "defined"} => HeadName(c) \in calls[i + 1].guard /\ i + 1 \in DOMAIN calls
    <3>1. i + 1 \in 1..n /\ i # n
      BY <1>1
    <3>2. QED
      BY <1>1, <1>3, <3>1 DEF Core, HeadsOK
  <2>2. c.pc = "main" => HeadName(c) \in Real
    BY <1>3 DEF Core, HeadsOK
  <2>3. HeadName(c) \in executed
    BY <1>2, <2>1, <2>2 DEF Core, GuardsOK, Real
  <2>4. QED
    BY <2>3
<1>4. CASE c.kind = "etac"
  <2>1. EtacFits(c, NamesOf(forms), Real)
    BY <1>4 DEF Ordered, StackFits, FrameFits
  <2>2. HeadName(c) = c.key
    BY <1>2, <2>1, FirstOf DEF EtacFits, HeadName
  <2>3. Top.via = "eval"
    BY <1>1, <1>2
  <2>4. Top.kind = "source"
    BY <1>1, <2>3 DEF Core, StackOK, FrameOK
  <2>5. Started(Top)
    BY <2>4 DEF Started
  <2>6. m \in NamesOf(forms)
    <3>1. PICK k \in DOMAIN Top.sem : Top.sem[k].name = m
      BY DEF NamesOf
    <3>2. \E x \in DOMAIN forms : forms[x].name = m
      BY <1>1, <2>5, <3>1 DEF Core, FormsOK
    <3>3. QED
      BY <3>2 DEF NamesOf
  <2>7. QED
    BY <2>1, <2>2, <2>6 DEF EtacFits
<1>5. QED
  BY <1>2, <1>3, <1>4

LEMMA TopFrameFits ==
  ASSUME Core, Ordered, NEW g, TopStep(g) PROVE FrameFits(g, forms, Real')
<1> DEFINE n == Len(calls)
<1>1. /\ n \in 1..n /\ DOMAIN calls = 1..n /\ Top = calls[n] /\ FrameOK(Top) /\ IsSeq(Top.sem)
  BY TopFacts DEF TopStep
<1>2. /\ g.kind = Top.kind /\ g.via = Top.via /\ g.key = Top.key /\ g.new = Top.new /\ g.base = Top.base
      /\ (g.pc = "load" <=> Top.pc = "load") /\ NamesOf(g.sem) \subseteq NamesOf(Top.sem) /\ Advances(g)
      /\ calls # <<>>
  BY DEF TopStep
<1>3. Guards' = Guards /\ Guards \subseteq executed /\ Real \subseteq Real'
  BY TopReal DEF Core
<1>4. FrameFits(Top, forms, Real)
  BY <1>1 DEF Ordered, StackFits
<1>5. Started(g) => Met(forms, g.base, Real')
  <2>1. SUFFICES ASSUME Started(g) PROVE Met(forms, g.base, Real')
    OBVIOUS
  <2>2. Met(forms, g.base, Real)
    BY <1>2, <1>4, <2>1 DEF Started, FrameFits
  <2>3. QED
    BY <1>3, <2>2 DEF Met
<1>6. g.todo = Top.todo \/ (Top.todo # <<>> /\ g.todo = Tail(Top.todo) /\ g.pc = "load" /\ (g.kind = "etac" => Head(Top.todo) \in executed))
  BY <1>2 DEF Advances
<1>7. Keyed(g) => IsSeq(g.todo) /\ ToSet(g.todo) \subseteq ImportsOf(Disk[g.key].form)
  <2>1. SUFFICES ASSUME Keyed(Top) PROVE IsSeq(g.todo) /\ ToSet(g.todo) \subseteq ImportsOf(Disk[g.key].form)
    BY <1>2 DEF Keyed
  <2>2. IsSeq(Top.todo) /\ ToSet(Top.todo) \subseteq ImportsOf(Disk[g.key].form)
    BY <1>2, <1>4, <2>1 DEF FrameFits
  <2>3. Top.todo # <<>> => IsSeq(Tail(Top.todo)) /\ ToSet(Tail(Top.todo)) \subseteq ToSet(Top.todo)
    BY <2>2, Tailed, FirstOf
  <2>4. QED
    BY <1>6, <2>2, <2>3
<1>8. ASSUME g.kind = "etac" PROVE EtacFits(g, NamesOf(forms), Real')
  <2>1. EtacFits(Top, NamesOf(forms), Real)
    BY <1>2, <1>4, <1>8 DEF FrameFits
  <2>2. Top.via # "eval" /\ Keyed(Top)
    BY <1>1, <1>2, <1>8 DEF FrameOK, Keyed
  <2>3. ASSUME NEW m \in ImportsOf(Disk[g.key].form) PROVE m \in Real' \/ (g.pc = "load" /\ m \in ToSet(g.todo))
    <3>1. m \in Real \/ (g.pc = "load" /\ m \in ToSet(Top.todo))
      BY <1>2, <2>1 DEF EtacFits
    <3>2. SUFFICES ASSUME g.pc = "load", m \in ToSet(Top.todo), g.todo # Top.todo PROVE m \in Real' \/ m \in ToSet(g.todo)
      BY <1>3, <3>1
    <3>3. Top.todo # <<>> /\ g.todo = Tail(Top.todo) /\ Head(Top.todo) \in executed
      BY <1>6, <1>8, <3>2
    <3>4. m = Head(Top.todo) \/ m \in ToSet(g.todo)
      BY <1>4, <2>2, <3>2, <3>3, FirstOf DEF FrameFits
    <3>5. Guards = {}
      BY <1>2, <2>2, <3>2, QuietBelow
    <3>6. Head(Top.todo) \in Real
      BY <3>3, <3>5 DEF Real
    <3>7. QED
      BY <1>3, <3>4, <3>6
  <2>4. ASSUME g.pc = "main" \/ (g.pc # "load" /\ g.sem = <<>>) PROVE g.key \in Real'
    <3>1. Top.pc = "main" \/ Top.sem = <<>> \/ HeadName(Top) \in executed'
      BY <1>2, <2>4 DEF Advances
    <3>2. Top.pc # "load"
      BY <1>2, <2>4
    <3>3. CASE Top.pc = "main" \/ Top.sem = <<>>
      BY <1>2, <1>3, <2>1, <3>2, <3>3 DEF EtacFits
    <3>4. CASE HeadName(Top) \in executed' /\ Top.sem # <<>>
      <4>1. HeadName(Top) = Top.key
        BY <1>1, <2>1, <3>2, <3>4, FirstOf DEF EtacFits, HeadName
      <4>2. Top.key \notin Guards'
        BY <1>3, <2>1, GuardsAreForms DEF Core, EtacFits
      <4>3. QED
        BY <1>2, <3>4, <4>1, <4>2 DEF Real
    <3>5. QED
      BY <3>1, <3>3, <3>4
  <2>5. QED
    BY <1>2, <2>1, <2>3, <2>4 DEF EtacFits
<1>9. QED
  BY <1>2, <1>4, <1>5, <1>7, <1>8 DEF FrameFits, Keyed

LEMMA TopOrdered ==
  ASSUME Core, Ordered, NEW g, TopStep(g) PROVE Ordered'
<1> DEFINE n == Len(calls)
<1>1. /\ n \in Nat /\ n \in 1..n /\ DOMAIN calls = 1..n /\ DOMAIN calls' = 1..n /\ calls'[n] = g /\ Top = calls[n]
      /\ \A i \in 1..n : i # n => calls'[i] = calls[i]
      /\ \A i \in 1..n : calls'[i].via = calls[i].via /\ calls'[i].kind = calls[i].kind /\ calls'[i].key = calls[i].key
  BY TopCalls DEF Core
<1>2. forms' = forms /\ compiled' = compiled /\ calls # <<>> /\ Advances(g) /\ FrameOK(g)
      /\ NamesOf(g.sem) \subseteq NamesOf(Top.sem) /\ (g.pc = "load" <=> Top.pc = "load")
  BY DEF TopStep
<1>3. Real \subseteq Real' /\ FrameFits(g, forms, Real')
  BY TopReal, TopFrameFits DEF Core
<1>4. StackFits(calls, forms, Real) /\ FormsFit(forms, Real, compiled)
  BY DEF Ordered
<1>5. \A j \in 1..n : FrameOK(calls[j])
  BY FrameFacts DEF Core
<1>6. ASSUME NEW i \in 1..n, i # n PROVE FrameFits(calls[i], forms, Real')
  <2>1. FrameFits(calls[i], forms, Real)
    BY <1>1, <1>4 DEF StackFits
  <2>2. Started(calls[i]) => \A x \in 1..calls[i].base : forms[x] = forms[x] /\ Fine(forms[x])
    <3>1. SUFFICES ASSUME Started(calls[i]), NEW x \in 1..calls[i].base PROVE Fine(forms[x])
      OBVIOUS
    <3>2. calls[i].base + Len(calls[i].new) <= Len(forms)
      BY <1>1, <3>1 DEF Core, FormsOK
    <3>3. /\ DOMAIN forms = 1..Len(forms) /\ Len(forms) \in Nat /\ Len(calls[i].new) \in Nat /\ calls[i].base \in Nat
      BY <1>5, SeqShape DEF Core, FormsOK, FrameOK
    <3>4. x \in DOMAIN forms
      BY <3>2, <3>3
    <3>5. QED
      BY <1>4, <3>4 DEF FormsFit
  <2>3. calls[i].kind = "etac" => calls[i].key \notin NamesOf(forms)
    BY <2>1 DEF FrameFits, EtacFits
  <2>4. Real \ Reserves \subseteq Real'
    BY <1>3
  <2>5. QED
    BY <1>5, <2>1, <2>2, <2>3, <2>4, FrameStays
<1>14. \A i \in 1..n : i # n => i < n
  <2>1. n \in Nat
    BY <1>1
  <2> HIDE DEF n
  <2>2. QED
    BY ONLY <2>1
<1>7. ASSUME NEW i \in 1..n, i # n PROVE PairFits(calls[i], g)
  <2>1. i < n
    BY <1>7, <1>14
  <2>2. PairFits(calls[i], calls[n])
    BY <1>1, <1>4, <2>1 DEF StackFits
  <2>3. ASSUME RunsProgram(calls[i]), RunsProgram(g) PROVE HeadName(calls[i]) # HeadName(g)
    <3>1. CASE RunsProgram(Top) /\ HeadName(g) = HeadName(Top)
      BY <1>1, <2>2, <2>3, <3>1 DEF PairFits
    <3>2. CASE HeadName(g) \notin executed
      <4>1. IsSeq(g.sem) /\ g.sem # <<>>
        BY <1>2, <2>3 DEF FrameOK
      <4>2. HeadName(g) \in NamesOf(Top.sem) /\ Top.pc # "load"
        BY <1>2, <2>3, <4>1, FirstOf DEF HeadName, RunsProgram
      <4>3. QED
        BY <1>1, <1>2, <2>1, <2>3, <3>2, <4>2, RunsBelow
    <3>3. QED
      BY <1>2, <2>3, <3>1, <3>2 DEF Advances
  <2>4. Keyed(calls[i]) /\ Keyed(g)
          => Layer[g.key] <= Layer[calls[i].key] /\ (calls[i].kind = "etac" => Layer[g.key] < Layer[calls[i].key])
    BY <1>1, <2>2 DEF PairFits, Keyed
  <2>5. QED
    BY <2>3, <2>4 DEF PairFits
<1> HIDE DEF n
<1>8. \A j \in 1..n : FrameFits(calls'[j], forms, Real')
  BY <1>1, <1>3, <1>6
<1>9. \A i, j \in 1..n : i < j => PairFits(calls'[i], calls'[j])
  <2>1. SUFFICES ASSUME NEW i \in 1..n, NEW j \in 1..n, i < j PROVE PairFits(calls'[i], calls'[j])
    OBVIOUS
  <2>2. i # n /\ calls'[i] = calls[i]
    BY <1>1, <2>1
  <2>3. CASE j = n
    BY <1>1, <1>7, <2>2, <2>3
  <2>4. CASE j # n
    <3>1. PairFits(calls[i], calls[j])
      BY <1>1, <1>4, <2>1 DEF StackFits
    <3>2. QED
      BY <1>1, <2>2, <2>4, <3>1
  <2>5. QED
    BY <2>3, <2>4
<1>10. \A i, j \in 1..n : i + 1 = j /\ calls'[j].via = "required" => calls'[i].kind = "etac"
  BY <1>1, <1>4 DEF StackFits
<1>11. StackFits(calls', forms', Real')
  BY <1>1, <1>2, <1>8, <1>9, <1>10 DEF StackFits
<1>12. FormsFit(forms', Real', compiled')
  <2>1. Met(forms, Len(forms), Real')
    BY <1>3, <1>4 DEF FormsFit, Met
  <2>2. QED
    BY <1>2, <1>3, <1>4, <2>1 DEF FormsFit
<1>13. QED
  BY <1>11, <1>12 DEF Ordered

-----------------------------------------------------------------------------
(* The order modules run in: calls that start.                             *)

\* The forms before a call's own stay as they are.
LEMMA FormsBefore ==
  ASSUME FormsOK, StackOK, NEW known, NEW real, FormsFit(forms, real, known), NEW j \in DOMAIN calls, Started(calls[j])
  PROVE  \A x \in 1..calls[j].base : x \in DOMAIN forms /\ Fine(forms[x])
<1>1. calls[j].base + Len(calls[j].new) <= Len(forms)
  BY DEF FormsOK
<1>2. DOMAIN forms = 1..Len(forms) /\ Len(forms) \in Nat /\ Len(calls[j].new) \in Nat /\ calls[j].base \in Nat
  BY SeqShape DEF FormsOK, StackOK, FrameOK
<1> DEFINE b == calls[j].base
           k == Len(calls[j].new)
           N == Len(forms)
<1>3. \A x \in 1..b : x \in 1..N
  <2>1. b \in Nat /\ k \in Nat /\ N \in Nat /\ b + k <= N
    BY <1>1, <1>2
  <2> HIDE DEF b, k, N
  <2>2. QED
    BY ONLY <2>1
<1>4. \A x \in DOMAIN forms : Fine(forms[x])
  BY DEF FormsFit
<1>5. QED
  BY <1>2, <1>3, <1>4

LEMMA FreshFits ==
  ASSUME Core, NEW f, FrameOK(f), Fresh(f), f.pc = "load", Keyed(f) => Top.pc = "load" /\ Top.via # "eval"
  PROVE  FrameFits(f, forms, Real)
<1>1. ~Started(f) /\ (\A i \in DOMAIN f.new : Fine(f.new[i])) /\ (~Keyed(f) => f.key = NoKey)
  BY DEF Started, Fresh
<1>2. Keyed(f) => IsSeq(f.todo) /\ ToSet(f.todo) = ImportsOf(Disk[f.key].form) /\ calls # <<>>
  BY DEF Fresh
<1>3. ASSUME f.kind = "etac" PROVE EtacFits(f, NamesOf(forms), Real)
  <2>1. Keyed(f)
    BY <1>3 DEF FrameOK, Keyed
  <2>2. Quiet
    BY <1>2, <2>1, QuietBelow
  <2>3. f.key \notin NamesOf(forms) /\ Disk[f.key].artifact
    BY <1>3, <2>2 DEF Quiet, Fresh
  <2>4. QED
    BY <1>2, <2>1, <2>3 DEF EtacFits
<1>4. QED
  BY <1>1, <1>2, <1>3 DEF FrameFits

\* A call that starts fits on a stack that does.
LEMMA PushFits ==
  ASSUME Layered, StackOK, NEW f, FrameOK(f), Fresh(f), f.pc = "load", calls' = Append(calls, f),
         Keyed(f) => Top.pc = "load" /\ Top.via # "eval", NEW fs, NEW real, NEW fs1, NEW real1, StackFits(calls, fs, real),
         \A j \in DOMAIN calls : FrameFits(calls[j], fs1, real1), FrameFits(f, fs1, real1)
  PROVE  StackFits(calls', fs1, real1)
<1> DEFINE n == Len(calls)
<1>1. /\ n \in Nat /\ DOMAIN calls = 1..n /\ DOMAIN calls' = 1..(n + 1)
      /\ calls'[n + 1] = f /\ \A i \in 1..n : calls'[i] = calls[i]
      /\ \A i \in 1..(n + 1) : (i \in 1..n /\ calls'[i] = calls[i]) \/ (i = n + 1 /\ calls'[i] = f)
  BY PushCalls
<1>2. Top = calls[n] /\ (n # 0 => calls # <<>>)
  BY EmptyIsSeq DEF Top
<1>3. ASSUME NEW i \in 1..n PROVE PairFits(calls[i], f)
  <2>1. CASE Keyed(f)
    <3>1. calls # <<>> /\ Top.todo # <<>> /\ f.key = Head(Top.todo)
      BY <2>1 DEF Fresh
    <3>2. i \in DOMAIN calls /\ Top.via # "eval"
      BY <1>1, <2>1
    <3>3. QED
      BY <2>1, <3>1, <3>2, GoesDown
  <2>2. CASE ~Keyed(f)
    BY <2>2 DEF PairFits, RunsProgram
  <2>3. QED
    BY <2>1, <2>2
<1> DEFINE t == calls'
<1>4. \A j \in 1..(n + 1) : FrameFits(t[j], fs1, real1)
  BY <1>1
<1>5. /\ \A i, j \in 1..n : i < j => PairFits(calls[i], calls[j])
      /\ \A i, j \in 1..n : i + 1 = j /\ calls[j].via = "required" => calls[i].kind = "etac"
  BY <1>1 DEF StackFits
<1>6. f.via = "required" => Top.kind = "etac"
  BY DEF Fresh
<1> HIDE DEF n, t
<1>7. ASSUME NEW i \in 1..(n + 1), NEW j \in 1..(n + 1), i < j \/ i + 1 = j
      PROVE  i \in 1..n /\ t[i] = calls[i] /\ (j \in 1..n \/ (j = n + 1 /\ (i + 1 = j => i = n)))
  <2>1. i \in 1..n /\ (j \in 1..n \/ (j = n + 1 /\ (i + 1 = j => i = n)))
    <3>1. n \in Nat
      BY <1>1
    <3>2. QED
      BY ONLY <1>7, <3>1
  <2>2. QED
    BY <1>1, <2>1 DEF t
<1>8. ASSUME NEW i \in 1..(n + 1), NEW j \in 1..(n + 1), i < j PROVE PairFits(t[i], t[j])
  <2>1. i \in 1..n /\ t[i] = calls[i] /\ (j \in 1..n \/ j = n + 1)
    BY <1>7, <1>8
  <2>2. QED
    BY <1>1, <1>3, <1>5, <1>8, <2>1 DEF t
<1>9. ASSUME NEW i \in 1..(n + 1), NEW j \in 1..(n + 1), i + 1 = j, t[j].via = "required" PROVE t[i].kind = "etac"
  <2>1. i \in 1..n /\ t[i] = calls[i] /\ (j \in 1..n \/ (j = n + 1 /\ i = n))
    BY <1>7, <1>9
  <2>2. QED
    BY <1>1, <1>2, <1>5, <1>6, <1>9, <2>1 DEF t
<1>10. DOMAIN t = 1..(n + 1)
  BY <1>1 DEF t
<1>11. StackFits(t, fs1, real1)
  BY <1>4, <1>8, <1>9, <1>10 DEF StackFits
<1>12. QED
  BY <1>11 DEF t

LEMMA PushOrdered ==
  ASSUME Layered, Core, Ordered, NEW f, PushStep(f) PROVE Ordered'
<1>1. /\ calls' = Append(calls, f) /\ FrameOK(f) /\ f.pc = "load" /\ Fresh(f) /\ forms' = forms /\ compiled' = compiled
      /\ f.via \notin {"user", "eval"} => Top.pc = "load" /\ Top.via # "eval"
  BY DEF PushStep
<1>2. Real' = Real
  BY PushCovered DEF Core
<1>3. Keyed(f) => Top.pc = "load" /\ Top.via # "eval"
  BY <1>1 DEF Keyed
<1>4. FrameFits(f, forms, Real)
  BY <1>1, <1>3, FreshFits
<1>5. StackFits(calls, forms, Real) /\ FormsFit(forms, Real, compiled)
  BY DEF Ordered
<1>6. \A j \in DOMAIN calls : FrameFits(calls[j], forms, Real)
  BY <1>5 DEF StackFits
<1>7. StackFits(calls', forms, Real)
  BY <1>1, <1>3, <1>4, <1>5, <1>6, PushFits DEF Core
<1>8. QED
  BY <1>1, <1>2, <1>5, <1>7 DEF Ordered

LEMMA HydrateOrdered ==
  ASSUME Layered, Core, Ordered, NEW f, HydrateStep(f) PROVE Ordered'
<1> DEFINE names == ReservedFor(Next1)
           left == Without(names)
<1>1. /\ calls' = Append(calls, f) /\ FrameOK(f) /\ f.pc = "load" /\ Fresh(f) /\ compiled' = compiled
      /\ calls # <<>> /\ Top.pc = "load" /\ Top.via # "eval" /\ f.kind = "source" /\ f.guard = {}
      /\ forms' = left /\ executed' = executed \ names
  BY DEF HydrateStep
<1>2. Quiet /\ Guards = {} /\ \A i \in DOMAIN calls : ~Started(calls[i])
  BY <1>1, QuietBelow
<1>3. Guards' = {}
  BY <1>1, <1>2, PushGuards DEF Core
<1>4. Real = executed /\ Real' = executed \ names /\ names \subseteq Reserves
  BY <1>1, <1>2, <1>3 DEF Real, ReservedFor, Core, IndexOK
<1>5. IsSeq(left) /\ NamesOf(left) = NamesOf(forms) \ names /\ left \in Seq(ToSet(forms))
  BY <1>2, WithoutForms DEF Quiet
<1>6. StackFits(calls, forms, Real) /\ FormsFit(forms, Real, compiled) /\ Real \ Reserves \subseteq Real'
  BY <1>4 DEF Ordered
<1> HIDE DEF left, names
<1>7. ASSUME NEW j \in DOMAIN calls PROVE FrameFits(calls[j], left, Real')
  <2>1. FrameOK(calls[j]) /\ FrameFits(calls[j], forms, Real) /\ ~Started(calls[j])
    BY <1>2, <1>6 DEF StackFits, Core, StackOK
  <2>2. calls[j].kind = "etac" => calls[j].key \notin NamesOf(left)
    BY <1>5, <2>1 DEF FrameFits, EtacFits
  <2>3. QED
    BY <1>6, <2>1, <2>2, FrameStays
<1>8. FrameFits(f, left, Real')
  <2>1. FrameFits(f, forms, Real)
    BY <1>1, FreshFits
  <2>2. QED
    BY <1>1, <2>1 DEF FrameFits, Started
<1>9. StackFits(calls', left, Real')
  BY <1>1, <1>6, <1>7, <1>8, PushFits DEF Core
<1>10. DOMAIN left = 1..Len(left) /\ \A x \in 1..Len(left) : left[x] \in ToSet(forms)
  BY <1>5, SeqShape, ElementOfSeq
<1>11. \A x \in DOMAIN left : Fine(left[x])
  BY <1>6, <1>10 DEF FormsFit, ToSet
<1>12. Met(left, Len(left), Real')
  <2>1. SUFFICES ASSUME NEW x \in 1..Len(left), NEW m \in ImportsOf(left[x]) PROVE m \in Real'
    BY DEF Met
  <2>2. PICK y \in DOMAIN forms : forms[y] = left[x]
    BY <1>10 DEF ToSet
  <2>3. DOMAIN forms = 1..Len(forms)
    BY <1>2, SeqShape DEF Quiet
  <2>4. m \in Real \/ \E z \in 1..Len(forms) : forms[z].name = m
    BY <1>6, <2>2, <2>3 DEF FormsFit, Met
  <2>5. m \in executed
    BY <1>2, <1>4, <2>3, <2>4 DEF Quiet, NamesOf
  <2>6. m \notin Reserves
    BY <1>10, <1>11 DEF Fine
  <2>7. QED
    BY <1>4, <2>5, <2>6
<1>13. DOMAIN compiled \subseteq Real' \cap DOMAIN Disk
  BY <1>6, DiskNames DEF FormsFit
<1>14. QED
  BY <1>1, <1>9, <1>11, <1>12, <1>13 DEF Ordered, FormsFit

-----------------------------------------------------------------------------
(* The order modules run in: the innermost call has its code.              *)

\* A stack whose innermost call has its code fits if the one that waited did.
LEMMA ReadyFits ==
  ASSUME StackOK, calls # <<>>, NEW g, calls' = Append(Front(calls), g), SameLinks(g, Top), g.pc = "run",
         NEW fs, NEW real, NEW fs1, NEW real1, StackFits(calls, fs, real),
         \A j \in DOMAIN calls : j # Len(calls) => FrameFits(calls[j], fs1, real1), FrameFits(g, fs1, real1)
  PROVE  StackFits(calls', fs1, real1)
<1> DEFINE n == Len(calls)
           t == calls'
<1>1. n \in Nat /\ n \in 1..n /\ DOMAIN calls = 1..n /\ IsSeq(calls) /\ Top = calls[n]
  BY FrameFacts DEF Top
<1>2. DOMAIN t = 1..n /\ t[n] = g /\ \A i \in 1..n : i # n => t[i] = calls[i]
  <2> DEFINE u == Append(Front(calls), g)
  <2>1. IsSeq(u) /\ Len(u) = n /\ u[n] = g /\ DOMAIN u = 1..n /\ \A i \in 1..n : i # n => u[i] = calls[i]
    BY <1>1, Replaced
  <2>2. t = u
    OBVIOUS
  <2> HIDE DEF t, u, n
  <2>3. QED
    BY <2>1, <2>2
<1>3. g.kind = Top.kind /\ g.via = Top.via /\ g.key = Top.key /\ ~RunsProgram(g)
  BY DEF SameLinks, RunsProgram
<1>4. /\ \A i, j \in 1..n : i < j => PairFits(calls[i], calls[j])
      /\ \A i, j \in 1..n : i + 1 = j /\ calls[j].via = "required" => calls[i].kind = "etac"
  BY <1>1 DEF StackFits
<1>8. \A j \in 1..n : j # n => FrameFits(calls[j], fs1, real1)
  BY <1>1
<1> HIDE DEF n, t
<1>5. \A j \in 1..n : FrameFits(t[j], fs1, real1)
  BY <1>2, <1>8
<1>6. ASSUME NEW i \in 1..n, NEW j \in 1..n, i < j PROVE PairFits(t[i], t[j])
  <2>1. i # n
    <3>1. n \in Nat
      BY <1>1
    <3>2. QED
      BY ONLY <1>6, <3>1
  <2>2. PairFits(calls[i], calls[j]) /\ t[i] = calls[i]
    BY <1>2, <1>4, <1>6, <2>1
  <2>3. CASE j = n
    BY <1>1, <1>2, <1>3, <2>2, <2>3 DEF PairFits, Keyed
  <2>4. CASE j # n
    BY <1>2, <2>2, <2>4
  <2>5. QED
    BY <2>3, <2>4
<1>7. \A i, j \in 1..n : i + 1 = j /\ t[j].via = "required" => t[i].kind = "etac"
  <2>1. \A i \in 1..n : t[i].via = calls[i].via /\ t[i].kind = calls[i].kind
    BY <1>1, <1>2, <1>3
  <2>2. QED
    BY <1>4, <2>1
<1>9. StackFits(t, fs1, real1)
  BY <1>2, <1>5, <1>6, <1>7 DEF StackFits
<1>10. QED
  BY <1>9 DEF t

LEMMA RelocateOrdered ==
  ASSUME Core, Ordered, NEW g, NEW r, NEW m, RelocateStep(g, r, m) PROVE Ordered'
<1>1. /\ calls' = Append(Front(calls), g) /\ FrameOK(g) /\ SameLinks(g, Top) /\ compiled' = compiled
      /\ calls # <<>> /\ Top.kind = "etac" /\ Top.pc = "load" /\ Top.todo = <<>>
      /\ g.todo = <<>> /\ g.pc = "run" /\ g.sem # <<>> /\ NamesOf(g.sem) = {Top.key}
      /\ spent.reserves < MaxReserves /\ r.name = ReserveName(spent.reserves) /\ r.imports = <<>>
      /\ forms' = Append(forms, r) /\ executed' = executed \cup {r.name}
  BY DEF RelocateStep
<1> DEFINE n == Len(calls)
           added == Append(forms, r)
           N == Len(forms)
<1>2. /\ n \in Nat /\ n \in 1..n /\ DOMAIN calls = 1..n /\ Top = calls[n] /\ FrameOK(Top)
  BY <1>1, TopFacts
<1>3. Top.via # "eval" /\ Keyed(Top) /\ Top.key \in DOMAIN Disk
  BY <1>1, <1>2 DEF FrameOK, Keyed
<1>4. Quiet /\ Guards = {} /\ \A i \in DOMAIN calls : ~Started(calls[i])
  BY <1>1, <1>3, QuietBelow
<1>5. \A j \in 1..n : FrameOK(calls[j])
  BY FrameFacts DEF Core
<1>6. Guards' = {}
  <2>1. /\ DOMAIN calls' = 1..n /\ calls'[n] = g /\ \A i \in 1..n : i # n => calls'[i] = calls[i]
    <3> DEFINE u == Append(Front(calls), g)
    <3>1. Len(u) = n /\ u[n] = g /\ DOMAIN u = 1..n /\ \A i \in 1..n : i # n => u[i] = calls[i]
      BY <1>1, Replaced DEF Core, StackOK
    <3>2. calls' = u
      BY <1>1
    <3> HIDE DEF u, n
    <3>3. QED
      BY <3>1, <3>2
  <2>2. g.guard = {}
    BY <1>1, <1>2, <1>4 DEF SameLinks, Quiet
  <2> HIDE DEF n
  <2>3. \A i \in 1..n : calls'[i].guard = {}
    BY <1>2, <1>4, <2>1, <2>2 DEF Quiet
  <2>4. QED
    BY <2>1, <2>3 DEF Guards
<1>7. r.name \in Reserves
  <2>1. spent \in Counters
    BY DEF Core, IndexOK
  <2>2. spent.reserves \in 0 .. MaxReserves
    BY <1>1, <2>1, SessionAssumption DEF SessionAssumption, Counters
  <2>3. QED
    BY <1>1, <2>2 DEF Reserves
<1>8. Real = executed /\ Real' = executed \cup {r.name}
  BY <1>1, <1>4, <1>6 DEF Real
<1>9. StackFits(calls, forms, Real) /\ FormsFit(forms, Real, compiled) /\ Real \ Reserves \subseteq Real' /\ Real \subseteq Real'
  BY <1>8 DEF Ordered
<1>10. /\ NamesOf(added) = NamesOf(forms) \cup {r.name} /\ N \in Nat /\ DOMAIN forms = 1..N
       /\ Len(added) = N + 1 /\ DOMAIN added = 1..(N + 1) /\ (\A x \in 1..N : added[x] = forms[x]) /\ added[N + 1] = r
  <2>1. IsSeq(forms)
    BY <1>4 DEF Quiet
  <2>2. /\ IsSeq(added) /\ Len(added) = N + 1 /\ NamesOf(added) = NamesOf(forms) \cup {r.name}
        /\ (\A x \in 1..N : added[x] = forms[x]) /\ added[N + 1] = r
    BY <2>1, Appended, AppendedNames
  <2> HIDE DEF added
  <2>3. QED
    BY <2>1, <2>2, SeqShape
<1>11. \A k \in DOMAIN Disk : k # r.name
  BY <1>7, DiskNames
<1>19. \A j \in 1..n : FrameFits(calls[j], forms, Real)
  BY <1>2, <1>9 DEF StackFits
<1> HIDE DEF added
<1>12. ASSUME NEW j \in 1..n PROVE FrameFits(calls[j], added, Real')
  <2>1. FrameOK(calls[j]) /\ FrameFits(calls[j], forms, Real) /\ ~Started(calls[j])
    BY <1>2, <1>4, <1>5, <1>19
  <2>2. calls[j].kind = "etac" => calls[j].key \notin NamesOf(added)
    BY <1>10, <1>11, <2>1 DEF FrameFits, EtacFits, FrameOK
  <2>3. QED
    BY <1>9, <2>1, <2>2, FrameStays
<1>13. FrameFits(g, added, Real')
  <2>1. FrameFits(Top, added, Real')
    BY <1>2, <1>12
  <2>2. EtacFits(Top, NamesOf(added), Real')
    BY <1>1, <2>1 DEF FrameFits
  <2>3. ToSet(Top.todo) = {} /\ ToSet(g.todo) = {} /\ IsSeq(g.todo)
    BY <1>1, EmptyIsSeq, SeqShape DEF ToSet
  <2>4. g.kind = "etac" /\ g.key = Top.key /\ g.via = Top.via /\ g.new = Top.new
    BY <1>1 DEF SameLinks
  <2>5. EtacFits(g, NamesOf(added), Real')
    BY <1>1, <2>2, <2>3, <2>4 DEF EtacFits
  <2>6. ~Started(g) /\ Keyed(g)
    BY <1>3, <2>4 DEF Started, Keyed
  <2>7. \A i \in DOMAIN g.new : Fine(g.new[i])
    BY <2>1, <2>4 DEF FrameFits
  <2>8. QED
    BY <2>3, <2>5, <2>6, <2>7 DEF FrameFits
<1>14. StackFits(calls', added, Real')
  <2>1. \A j \in DOMAIN calls : j # Len(calls) => FrameFits(calls[j], added, Real')
    BY <1>2, <1>12
  <2>2. QED
    BY <1>1, <1>9, <1>13, <2>1, ReadyFits DEF Core
<1> HIDE DEF N
<1>15. \A x \in DOMAIN added : x \in 1..N \/ x = N + 1
  <2>1. N \in Nat
    BY <1>10
  <2>2. \A x \in 1..(N + 1) : x \in 1..N \/ x = N + 1
    BY ONLY <2>1
  <2>3. QED
    BY <1>10, <2>2
<1>16. DOMAIN r.imports = {}
  BY <1>1, EmptyIsSeq, SeqShape
<1>17. \A x \in DOMAIN added : Fine(added[x])
  <2>1. Fine(r)
    BY <1>1, <1>16, EmptyIsSeq DEF Fine, ImportsOf
  <2>2. \A x \in 1..N : Fine(forms[x])
    BY <1>9, <1>10 DEF FormsFit
  <2>3. QED
    BY <1>10, <1>15, <2>1, <2>2
<1>18. Met(added, Len(added), Real')
  <2>1. SUFFICES ASSUME NEW x \in DOMAIN added, NEW k \in ImportsOf(added[x])
                 PROVE k \in Real' \/ \E y \in DOMAIN added : added[y].name = k
    BY <1>10 DEF Met
  <2>2. x \in 1..N /\ added[x] = forms[x]
    BY <1>10, <1>15, <1>16, <2>1 DEF ImportsOf
  <2>3. Met(forms, N, Real)
    BY <1>9 DEF FormsFit, N
  <2>4. k \in Real \/ \E y \in 1..N : forms[y].name = k
    BY <2>2, <2>3 DEF Met
  <2>5. \A y \in 1..N : y \in DOMAIN added
    <3>1. N \in Nat
      BY <1>10
    <3>2. 1..N \subseteq 1..(N + 1)
      BY ONLY <3>1
    <3>3. QED
      BY <1>10, <3>2
  <2>6. QED
    BY <1>9, <1>10, <2>4, <2>5
<1>20. DOMAIN compiled \subseteq Real' \cap DOMAIN Disk
  BY <1>9 DEF FormsFit
<1>21. forms' = added
  BY <1>1 DEF added
<1>22. QED
  BY <1>1, <1>14, <1>17, <1>18, <1>20, <1>21 DEF Ordered, FormsFit

-----------------------------------------------------------------------------
(* The order modules run in: calls that end.                               *)

\* What an artifact ran is compiled from now on, and counts as executed.
LEMMA FinishedRan ==
  ASSUME Core, Ordered, NEW j \in DOMAIN calls, Finished(calls[j]) PROVE calls[j].key \in Real \cap DOMAIN Disk
<1> DEFINE f == calls[j]
<1>1. f.kind = "etac" /\ f.pc # "load" /\ Pending(f.sem) = {} /\ FrameOK(f)
  BY DEF Finished, Core, StackOK
<1>2. EtacFits(f, NamesOf(forms), Real)
  BY <1>1 DEF Ordered, StackFits, FrameFits
<1>3. f.key \in DOMAIN Disk /\ IsSeq(f.sem)
  BY <1>1 DEF FrameOK
<1>4. CASE f.sem = <<>>
  BY <1>1, <1>2, <1>3, <1>4 DEF EtacFits
<1>5. CASE f.sem # <<>>
  <2>1. DOMAIN f.sem = 1..Len(f.sem) /\ Len(f.sem) \in Nat /\ Len(f.sem) >= 1
    BY <1>3, <1>5, SeqShape
  <2>2. f.sem[1].name \in executed
    BY <1>1, <2>1 DEF Pending
  <2>3. f.sem[1].name = f.key
    BY <1>1, <1>2, <1>3, <1>5, FirstOf DEF EtacFits
  <2>4. f.key \notin Guards
    BY <1>2, GuardsAreForms DEF EtacFits, Core
  <2>5. QED
    BY <1>3, <2>2, <2>3, <2>4 DEF Real
<1>6. QED
  BY <1>4, <1>5

LEMMA PopOrdered ==
  ASSUME Core, Ordered, NEW k, NEW b, PopStep(k, b) PROVE Ordered'
<1> DEFINE n == Len(calls)
           t == calls'
           left == forms'
<1>1. /\ k \in DOMAIN calls /\ calls' = SubSeq(calls, 1, k - 1) /\ b \in 0 .. Len(forms) /\ forms' = SubSeq(forms, 1, b)
      /\ executed' = executed \ calls[k].guard /\ \A j \in DOMAIN calls : k < j => calls[j].guard = {}
      /\ \A j \in DOMAIN calls : j < k /\ Started(calls[j]) => calls[j].base + Len(calls[j].new) <= b
      /\ b = Len(forms) \/ \E j \in DOMAIN calls : Started(calls[j]) /\ b = calls[j].base
      /\ DOMAIN compiled' \subseteq DOMAIN compiled \cup {calls[j].key : j \in {i \in DOMAIN calls : Finished(calls[i])}}
  BY DEF PopStep
<1>2. /\ n \in Nat /\ k \in 1..n /\ DOMAIN calls = 1..n /\ DOMAIN t = 1..(k - 1)
      /\ (\A i \in 1..(k - 1) : t[i] = calls[i])
      /\ \A i \in 1..(k - 1) : i \in 1..n /\ i < k
  BY <1>1, PopCalls DEF Core
<1>3. Real' = Real
  BY <1>1, PopGuards DEF Core
<1>4. /\ Len(left) = b /\ DOMAIN left = 1..b /\ Len(forms) \in Nat
      /\ 1..b \subseteq DOMAIN forms /\ \A x \in 1..b : left[x] = forms[x]
  BY <1>1, PopForms DEF Core
<1>5. StackFits(calls, forms, Real) /\ FormsFit(forms, Real, compiled)
  BY DEF Ordered
<1>6. \A j \in 1..n : FrameOK(calls[j])
  BY FrameFacts DEF Core
<1> HIDE DEF n, t, left
<1>7. NamesOf(left) \subseteq NamesOf(forms) /\ \A x \in 1..b : Fine(forms[x])
  BY <1>4, <1>5 DEF NamesOf, FormsFit
<1>8. ASSUME NEW j \in 1..n, j < k PROVE FrameFits(calls[j], left, Real)
  <2>1. FrameFits(calls[j], forms, Real) /\ FrameOK(calls[j])
    BY <1>2, <1>5, <1>6 DEF StackFits
  <2>2. Started(calls[j]) => \A x \in 1..calls[j].base : left[x] = forms[x] /\ Fine(forms[x])
    <3>1. SUFFICES ASSUME Started(calls[j]) PROVE \A x \in 1..calls[j].base : left[x] = forms[x] /\ Fine(forms[x])
      OBVIOUS
    <3>2. calls[j].base + Len(calls[j].new) <= b /\ calls[j].base \in Nat /\ Len(calls[j].new) \in Nat
      BY <1>1, <1>2, <1>8, <2>1, <3>1, SeqShape DEF FrameOK
    <3> DEFINE c == calls[j].base
               l == Len(calls[j].new)
    <3>3. \A x \in 1..c : x \in 1..b
      <4>1. c \in Nat /\ l \in Nat /\ c + l <= b /\ b \in Int
        BY <1>1, <1>4, <3>2
      <4> HIDE DEF c, l
      <4>2. QED
        BY ONLY <4>1
    <3>4. QED
      BY <1>4, <1>7, <3>3
  <2>3. calls[j].kind = "etac" => calls[j].key \notin NamesOf(left)
    BY <1>7, <2>1 DEF FrameFits, EtacFits
  <2>4. Real \ Reserves \subseteq Real
    OBVIOUS
  <2>5. QED
    BY <2>1, <2>2, <2>3, <2>4, FrameStays
<1>9. StackFits(t, left, Real)
  <2>1. \A j \in DOMAIN t : FrameFits(t[j], left, Real)
    BY <1>2, <1>8
  <2>2. \A i, j \in DOMAIN t : i < j => PairFits(t[i], t[j])
    BY <1>2, <1>5 DEF StackFits
  <2>3. \A i, j \in DOMAIN t : i + 1 = j /\ t[j].via = "required" => t[i].kind = "etac"
    BY <1>2, <1>5 DEF StackFits
  <2>4. QED
    BY <2>1, <2>2, <2>3 DEF StackFits
<1>10. Met(forms, b, Real)
  <2>1. CASE b = Len(forms)
    BY <1>5, <2>1 DEF FormsFit
  <2>2. ASSUME NEW j \in DOMAIN calls, Started(calls[j]), b = calls[j].base PROVE Met(forms, b, Real)
    BY <1>5, <2>2 DEF StackFits, FrameFits
  <2>3. QED
    BY <1>1, <2>1, <2>2
<1>11. Met(left, b, Real)
  <2>1. \A x \in 1..b : left[x] = forms[x] /\ Fine(forms[x])
    BY <1>4, <1>7
  <2>2. Real \ Reserves \subseteq Real
    OBVIOUS
  <2>3. QED
    BY <1>10, <2>1, <2>2, MetStays
<1>12. DOMAIN compiled' \subseteq Real \cap DOMAIN Disk
  <2>1. \A j \in DOMAIN calls : Finished(calls[j]) => calls[j].key \in Real \cap DOMAIN Disk
    BY FinishedRan
  <2>2. QED
    BY <1>1, <1>5, <2>1 DEF FormsFit
<1>13. FormsFit(left, Real, compiled')
  BY <1>4, <1>7, <1>11, <1>12 DEF FormsFit
<1>14. QED
  BY <1>3, <1>9, <1>13 DEF Ordered, t, left

-----------------------------------------------------------------------------
(* The order modules run in: the call that is compiled.                    *)

LEMMA NameOfSingle == ASSUME NEW e PROVE NamesOf(<<e>>) = {e.name}
<1> DEFINE s == <<e>>
<1>1. DOMAIN s = 1..1 /\ s[1] = e
  BY SingleSeq
<1> HIDE DEF s
<1>2. \A i \in 1..1 : i = 1
  OBVIOUS
<1>3. 1 \in 1..1
  OBVIOUS
<1>4. NamesOf(s) = {e.name}
  BY <1>1, <1>2, <1>3 DEF NamesOf
<1>5. QED
  BY <1>4 DEF s

\* No module is compiled that an artifact below waits for, or is.
LEMMA NoneOfArtifacts ==
  ASSUME Layered, Core, Ordered, calls # <<>>, Top.kind = "source", NEW i \in DOMAIN calls, i # Len(calls), calls[i].kind = "etac"
  PROVE  calls[i].key \notin NamesOf(Top.new)
<1> DEFINE n == Len(calls)
           c == calls[i]
<1>1. n \in Nat /\ n \in 1..n /\ DOMAIN calls = 1..n /\ Top = calls[n] /\ FrameOK(Top)
  BY TopFacts
<1>2. (\A j \in 1..n : FrameOK(calls[j])) /\ \A j \in 1..n : j = 1 <=> calls[j].via = "user"
  BY FrameFacts DEF Core
<1>3. FrameOK(c) /\ c.via \notin {"user", "eval"} /\ c.key \in DOMAIN Disk
  <2>1. FrameOK(c)
    BY <1>1, <1>2
  <2>2. QED
    BY <2>1 DEF FrameOK
<1>4. PairFits(c, Top)
  <2>1. i \in 1..n /\ i # n /\ n \in Nat
    BY <1>1
  <2>2. \A j, k \in 1..n : j < k => PairFits(calls[j], calls[k])
    BY <1>1 DEF Ordered, StackFits
  <2> HIDE DEF n
  <2>3. i < n
    BY ONLY <2>1
  <2>4. QED
    BY <1>1, <2>1, <2>2, <2>3
<1>5. Top.via # "user"
  <2> HIDE DEF n
  <2>1. n # 1
    BY <1>1
  <2>2. QED
    BY <1>1, <1>2, <2>1
<1>6. CASE Top.via = "eval"
  <2>1. PICK k \in 0 .. MaxEvals : Top.new = <<EvalForm(k)>>
    BY <1>1, <1>6 DEF FrameOK
  <2>2. NamesOf(Top.new) = {EvalForm(k).name}
    BY <2>1, NameOfSingle
  <2>3. EvalForm(k).name = EvalName(k)
    BY DEF EvalForm, Form
  <2>4. QED
    BY <1>3, <2>2, <2>3, DiskNames
<1>7. CASE Top.via # "eval"
  <2>1. Top.key \in DOMAIN Disk /\ Top.new = <<Disk[Top.key].form>>
    BY <1>1, <1>5, <1>7 DEF FrameOK
  <2>2. NamesOf(Top.new) = {Disk[Top.key].form.name}
    BY <2>1, NameOfSingle
  <2>3. NamesOf(Top.new) = {Top.key}
    BY <2>1, <2>2, DiskNames
  <2>4. Layer[Top.key] < Layer[c.key]
    BY <1>3, <1>4, <1>5, <1>7 DEF PairFits, Keyed
  <2>5. Layer[Top.key] \in Int /\ Layer[c.key] \in Int
    BY <1>3, <2>1, LayerFacts
  <2>6. Top.key # c.key
    BY <2>4, <2>5
  <2>7. QED
    BY <2>3, <2>6
<1>8. QED
  BY <1>6, <1>7

LEMMA CompileOrdered ==
  ASSUME Layered, Core, Ordered, NEW g, CompileStep(g) PROVE Ordered'
<1> DEFINE n == Len(calls)
           N == Len(forms)
           L == Len(g.new)
           all == forms'
<1>1. /\ calls # <<>> /\ Top.kind = "source" /\ Top.pc = "load" /\ calls' = Append(Front(calls), g) /\ FrameOK(g)
      /\ SameLinks(g, Top) /\ g.pc = "run" /\ g.base = N /\ g.todo = Top.todo /\ Top.todo = <<>>
      /\ compiled' = compiled /\ Linked(all, compiled)
  BY DEF CompileStep
<1>2. /\ n \in Nat /\ n \in 1..n /\ DOMAIN calls = 1..n /\ Top = calls[n] /\ g.new = Top.new
      /\ (\A i \in 1..n : FrameOK(calls[i])) /\ Started(g)
  BY CompileCalls
<1>3. /\ N \in Nat /\ L \in Nat /\ DOMAIN forms = 1..N /\ IsSeq(all) /\ Len(all) = N + L
      /\ DOMAIN all = 1..(N + L) /\ (\A x \in 1..N : all[x] = forms[x])
      /\ (\A i \in 1..L : all[N + i] = g.new[i]) /\ 1..N \subseteq 1..(N + L)
  BY CompileCalls
<1>4. Real' = Real
  BY CompileReal
<1>5. /\ StackFits(calls, forms, Real) /\ FormsFit(forms, Real, compiled)
      /\ (\A j \in 1..n : FrameFits(calls[j], forms, Real)) /\ Real \ Reserves \subseteq Real
  BY <1>2 DEF Ordered, StackFits
<1>6. IsSeq(Top.new) /\ DOMAIN g.new = 1..L
  BY <1>1, <1>2, TopFacts, SeqShape
<1> HIDE DEF n, N, L, all
<1>7. \A x \in DOMAIN all : x \in 1..N \/ \E i \in 1..L : x = N + i
  <2>1. ASSUME NEW x \in 1..(N + L) PROVE x \in 1..N \/ \E i \in 1..L : x = N + i
    <3>1. CASE x <= N
      BY <1>3, <3>1
    <3>2. CASE x > N
      <4>1. x - N \in 1..L /\ x = N + (x - N)
        BY <1>3, <3>2
      <4>2. QED
        BY <4>1
    <3>3. QED
      BY <1>3, <3>1, <3>2
  <2>2. QED
    BY <1>3, <2>1
<1>8. NamesOf(all) \subseteq NamesOf(forms) \cup NamesOf(Top.new)
  <2>1. SUFFICES ASSUME NEW x \in DOMAIN all PROVE all[x].name \in NamesOf(forms) \cup NamesOf(Top.new)
    BY DEF NamesOf
  <2>2. CASE x \in 1..N
    <3>1. x \in DOMAIN forms /\ all[x].name = forms[x].name
      BY <1>3, <2>2
    <3>2. QED
      BY <3>1 DEF NamesOf
  <2>3. ASSUME NEW i \in 1..L, x = N + i PROVE all[x].name \in NamesOf(Top.new)
    <3>1. i \in DOMAIN Top.new /\ all[x].name = Top.new[i].name
      BY <1>2, <1>3, <1>6, <2>3
    <3>2. QED
      BY <3>1 DEF NamesOf
  <2>4. QED
    BY <1>7, <2>2, <2>3
<1>9. \A x \in DOMAIN all : Fine(all[x])
  <2>1. \A x \in 1..N : Fine(forms[x])
    BY <1>3, <1>5 DEF FormsFit
  <2>2. \A i \in 1..L : Fine(g.new[i])
    BY <1>2, <1>5, <1>6 DEF FrameFits
  <2>3. QED
    BY <1>3, <1>7, <2>1, <2>2
<1>10. IsFiniteSet(DOMAIN compiled)
  <2>1. DOMAIN compiled \subseteq DOMAIN Disk /\ IsFiniteSet(DOMAIN Disk)
    BY <1>5, SessionAssumption DEF FormsFit, SessionAssumption
  <2>2. QED
    BY <2>1, FS_Subset
<1>11. \A x \in DOMAIN all : ImportsOf(all[x]) \subseteq NamesOf(all) \cup DOMAIN compiled
  BY <1>1, <1>9, <1>10 DEF Linked, Fine
<1>12. Met(all, Len(all), Real)
  <2>1. DOMAIN all = 1..Len(all) /\ DOMAIN compiled \subseteq Real
    BY <1>3, <1>5 DEF FormsFit
  <2>2. QED
    BY <1>11, <2>1 DEF Met, NamesOf
<1>13. FormsFit(all, Real, compiled)
  BY <1>5, <1>9, <1>12 DEF FormsFit
<1>14. Met(all, N, Real)
  <2>1. Met(forms, N, Real)
    BY <1>5 DEF FormsFit, N
  <2>2. \A x \in 1..N : all[x] = forms[x] /\ Fine(forms[x])
    BY <1>3, <1>5 DEF FormsFit
  <2>3. QED
    BY <1>5, <2>1, <2>2, MetStays
<1>15. ASSUME NEW j \in 1..n, j # n PROVE FrameFits(calls[j], all, Real)
  <2>1. FrameFits(calls[j], forms, Real) /\ FrameOK(calls[j])
    BY <1>2, <1>5
  <2>2. Started(calls[j]) => \A x \in 1..calls[j].base : all[x] = forms[x] /\ Fine(forms[x])
    <3>1. SUFFICES ASSUME Started(calls[j]) PROVE \A x \in 1..calls[j].base : all[x] = forms[x] /\ Fine(forms[x])
      OBVIOUS
    <3>2. \A x \in 1..calls[j].base : x \in DOMAIN forms /\ Fine(forms[x])
      BY <1>2, <1>5, <3>1, FormsBefore DEF Core
    <3>3. QED
      BY <1>3, <3>2
  <2>3. calls[j].kind = "etac" => calls[j].key \notin NamesOf(all)
    <3>1. SUFFICES ASSUME calls[j].kind = "etac" PROVE calls[j].key \notin NamesOf(all)
      OBVIOUS
    <3>2. calls[j].key \notin NamesOf(Top.new)
      BY <1>1, <1>2, <1>15, <3>1, NoneOfArtifacts DEF n
    <3>3. calls[j].key \notin NamesOf(forms)
      BY <2>1, <3>1 DEF FrameFits, EtacFits
    <3>4. QED
      BY <1>8, <3>2, <3>3
  <2>4. QED
    BY <1>5, <2>1, <2>2, <2>3, FrameStays
<1>16. FrameFits(g, all, Real)
  <2>1. FrameFits(Top, forms, Real)
    BY <1>2, <1>5
  <2>2. g.kind = Top.kind /\ g.via = Top.via /\ g.key = Top.key /\ g.kind = "source"
    BY <1>1 DEF SameLinks
  <2>3. Met(all, g.base, Real)
    BY <1>1, <1>14
  <2>4. (Keyed(g) => Keyed(Top)) /\ (~Keyed(g) => ~Keyed(Top))
    BY <2>2 DEF Keyed
  <2>5. QED
    BY <1>1, <1>2, <2>1, <2>2, <2>3, <2>4 DEF FrameFits
<1>17. StackFits(calls', all, Real)
  <2>1. \A j \in DOMAIN calls : j # Len(calls) => FrameFits(calls[j], all, Real)
    BY <1>2, <1>15 DEF n
  <2>2. QED
    BY <1>1, <1>5, <1>16, <2>1, ReadyFits DEF Core
<1>18. QED
  BY <1>1, <1>4, <1>13, <1>17 DEF Ordered, all

-----------------------------------------------------------------------------
(* What every step does.                                                   *)

\* Every step of the driver is one of six.
AStep ==
  \/ \E g : TopStep(g) \/ CompileStep(g)
  \/ \E f : PushStep(f) \/ HydrateStep(f)
  \/ \E k, b : PopStep(k, b)
  \/ \E g, r, m : RelocateStep(g, r, m)

LEMMA NextSteps == Core /\ Next => AStep
<1> SUFFICES ASSUME Core, Next PROVE AStep
  OBVIOUS
<1>1. ASSUME NEW fs \in Submissions, Submit(fs) PROVE AStep
  <2>1. \E f : PushStep(f)
    BY <1>1, SubmitSteps
  <2>2. QED
    BY <2>1 DEF AStep
<1>2. CASE Loads
  <2>1. CASE SkipImport
    BY <2>1, SkipImportSteps DEF AStep
  <2>2. CASE HydrateImport
    BY <2>2, HydrateImportSteps DEF AStep
  <2>3. CASE ImportCycle
    BY <2>3, ImportCycleSteps DEF AStep
  <2>4. CASE LoadImport
    BY <2>4, LoadImportSteps DEF AStep
  <2>5. CASE LoadRequired
    BY <2>5, LoadRequiredSteps DEF AStep
  <2>6. CASE RequiredMissing
    BY <2>6, RequiredMissingSteps DEF AStep
  <2>7. QED
    BY <1>2, <2>1, <2>2, <2>3, <2>4, <2>5, <2>6 DEF Loads
<1>3. CASE Compile
  BY <1>3, CompileSteps DEF AStep
<1>4. CASE Relocate
  BY <1>4, RelocateSteps DEF AStep
<1>5. CASE Runs
  <2>1. CASE StartModule
    BY <2>1, StartModuleSteps DEF AStep
  <2>2. CASE Define
    BY <2>2, DefineSteps DEF AStep
  <2>3. CASE FinishInit
    BY <2>3, FinishInitSteps DEF AStep
  <2>4. CASE MainReturns
    BY <2>4, MainReturnsSteps DEF AStep
  <2>5. CASE ProgramFails
    BY <2>5, ProgramFailsSteps DEF AStep
  <2>6. CASE Eval
    BY <2>6, EvalSteps DEF AStep
  <2>7. CASE Return
    BY <2>7, ReturnSteps DEF AStep
  <2>8. QED
    BY <1>5, <2>1, <2>2, <2>3, <2>4, <2>5, <2>6, <2>7 DEF Runs
<1>6. QED
  BY <1>1, <1>2, <1>3, <1>4, <1>5 DEF Next

-----------------------------------------------------------------------------
(* What a submission leaves behind.                                        *)

LEMMA CoreInit == Init => Core
<1> SUFFICES ASSUME Init PROVE Core
  OBVIOUS
<1>1. /\ calls = <<>> /\ forms = <<>> /\ executed = {} /\ loading = {} /\ indexed = {} /\ DOMAIN reserved = {}
      /\ spent = [submits |-> 0, evals |-> 0, failures |-> 0, reserves |-> 0]
  BY DEF Init
<1>2. DOMAIN calls = {} /\ DOMAIN forms = {} /\ IsSeq(calls) /\ IsSeq(forms)
  BY <1>1, EmptyIsSeq
<1>3. \A via : KeysVia(via) = {}
  BY <1>2 DEF KeysVia
<1>4. StackOK /\ Quiet
  BY <1>2 DEF StackOK, Quiet, NamesOf
<1>5. LoadsOK
  BY <1>1, <1>2, <1>3 DEF LoadsOK
<1>6. IndexOK
  <2>1. spent \in Counters
    BY <1>1 DEF Counters
  <2>2. QED
    BY <1>1, <2>1 DEF IndexOK
<1>7. QED
  BY <1>4, <1>5, <1>6, QuietCore

LEMMA CoreNext == Core /\ [Next]_session => Core'
<1> SUFFICES ASSUME Core, [Next]_session PROVE Core'
  OBVIOUS
<1>1. CASE Next
  <2>1. AStep
    BY <1>1, NextSteps
  <2>2. QED
    BY <2>1, TopKeeps, CompileStepKeeps, PushKeeps, HydrateKeeps, PopKeeps, RelocateKeeps DEF AStep
<1>2. CASE UNCHANGED session
  BY <1>2 DEF session, linking, caches, Core, StackOK, FormsOK, Covered, GuardsOK, LoadsOK, IndexOK, HeadsOK,
              CoveredBy, Real, Guards, KeysVia, Placed
<1>3. QED
  BY <1>1, <1>2

\* The loads and evals under way, and what is accumulated, fit together in every
\* reachable state (session/driver.h, run_source_impl and what it calls).
THEOREM CoreInvariant == Spec => []Core
<1>1. Init => Core
  BY CoreInit
<1>2. Core /\ [Next]_session => Core'
  BY CoreNext
<1>3. QED
  BY <1>1, <1>2, PTL DEF Spec

\* However a submission ends, nothing of it is left that is not executed: no form
\* the next compilation would execute, no mark of a load under way, no module
\* that counts as executed and neither ran nor stands for slots (session/driver.h,
\* rollback_accumulated_forms and the guards of run_source_impl).
THEOREM LeavesNothingHalfLoaded == Spec => []NothingHalfLoaded
<1>1. Core => NothingHalfLoaded
  <2> SUFFICES ASSUME Core, calls = <<>>
               PROVE  /\ NamesOf(forms) \subseteq executed
                      /\ loading = {} /\ indexed \subseteq NamesOf(forms)
                      /\ executed \subseteq DOMAIN home \cup UNION {reserved[m] : m \in DOMAIN reserved}
    BY DEF NothingHalfLoaded
  <2>1. DOMAIN calls = {}
    OBVIOUS
  <2>2. KeysVia("auto") = {} /\ KeysVia("hydrate") = {} /\ Guards = {}
    BY <2>1 DEF KeysVia, Guards
  <2>3. NamesOf(forms) \subseteq executed
    BY <2>1 DEF Core, Covered, Real, NamesOf
  <2>4. loading = {} /\ indexed \subseteq NamesOf(forms)
    BY <2>2 DEF Core, LoadsOK, IndexOK, Placed, NamesOf
  <2>5. executed \subseteq DOMAIN home \cup UNION {reserved[m] : m \in DOMAIN reserved}
    BY <2>2 DEF Core, IndexOK
  <2>6. QED
    BY <2>3, <2>4, <2>5
<1>2. QED
  BY <1>1, CoreInvariant, PTL

-----------------------------------------------------------------------------
(* The order modules run in.                                               *)

LEMMA OrderedInit == Init => Ordered
<1> SUFFICES ASSUME Init PROVE Ordered
  OBVIOUS
<1>1. calls = <<>> /\ forms = <<>> /\ compiled = <<>>
  BY DEF Init
<1>2. DOMAIN calls = {} /\ DOMAIN forms = {} /\ DOMAIN compiled = {} /\ Len(forms) = 0
  BY <1>1, EmptyIsSeq
<1>3. StackFits(calls, forms, Real)
  BY <1>2 DEF StackFits
<1>4. FormsFit(forms, Real, compiled)
  <2>1. 1..0 = {}
    OBVIOUS
  <2>2. QED
    BY <1>2, <2>1 DEF FormsFit, Met
<1>5. QED
  BY <1>3, <1>4 DEF Ordered

LEMMA OrderedNext == ASSUME Layered, Core, Ordered, [Next]_session PROVE Ordered'
<1>1. CASE Next
  <2>1. AStep
    BY <1>1, NextSteps
  <2>2. QED
    BY <2>1, TopOrdered, CompileOrdered, PushOrdered, HydrateOrdered, PopOrdered, RelocateOrdered DEF AStep
<1>2. CASE UNCHANGED session
  <2>1. calls' = calls /\ forms' = forms /\ executed' = executed /\ compiled' = compiled
    BY <1>2 DEF session, linking, caches
  <2>2. Real' = Real
    BY <2>1 DEF Real, Guards
  <2>3. QED
    BY <2>1, <2>2 DEF Ordered
<1>3. QED
  BY <1>1, <1>2

\* What the module running imports was executed, or is being.
LEMMA ImportsAreMet ==
  ASSUME Core, Ordered, calls # <<>>, Top.pc = "init" PROVE ImportsOf(RunningForm) \subseteq executed \cup BeingRun
<1>1. Top \in {calls[i] : i \in DOMAIN calls} /\ FrameOK(Top) /\ IsSeq(Top.sem) /\ Top.sem # <<>> /\ FrameFits(Top, forms, Real)
  <2>1. Len(calls) \in DOMAIN calls /\ Top = calls[Len(calls)] /\ FrameOK(Top) /\ IsSeq(Top.sem) /\ Top.sem # <<>>
    BY TopFacts DEF RunsProgram
  <2>2. QED
    BY <2>1 DEF Ordered, StackFits
<1>2. Real \subseteq executed
  BY DEF Real
<1>3. CASE Top.kind = "etac"
  <2>1. Top.new = <<Disk[Top.key].form>>
    BY <1>1, <1>3 DEF FrameOK
  <2>2. RunningForm = Disk[Top.key].form
    BY <1>3, <2>1, SingleSeq DEF RunningForm
  <2>3. ImportsOf(Disk[Top.key].form) \subseteq Real
    BY <1>1, <1>3 DEF FrameFits, EtacFits
  <2>4. QED
    BY <1>2, <2>2, <2>3
<1>4. CASE Top.kind # "etac"
  <2>1. Running.name \in NamesOf(forms)
    <3>1. Started(Top)
      BY <1>1, <1>4 DEF FrameOK, Started
    <3>2. 1 \in DOMAIN Top.sem /\ Running = Top.sem[1]
      <4>1. DOMAIN Top.sem = 1..Len(Top.sem) /\ Len(Top.sem) \in Nat /\ Len(Top.sem) >= 1
        BY <1>1, SeqShape
      <4>2. Head(Top.sem) = Top.sem[1]
        BY <1>1, Tailed
      <4>3. QED
        BY <4>1, <4>2 DEF Running
    <3>3. PICK i \in DOMAIN calls : calls[i] = Top
      BY <1>1
    <3>4. \E x \in DOMAIN forms : forms[x].name = Top.sem[1].name
      BY <3>1, <3>2, <3>3 DEF Core, FormsOK
    <3>5. QED
      BY <3>2, <3>4 DEF NamesOf
  <2>2. RunningForm \in ToSet(forms)
    <3>1. \E f \in ToSet(forms) : f.name = Running.name
      BY <2>1 DEF NamesOf, ToSet
    <3>2. RunningForm = CHOOSE f \in ToSet(forms) : f.name = Running.name
      BY <1>4 DEF RunningForm
    <3>3. QED
      BY <3>1, <3>2
  <2>3. PICK x \in DOMAIN forms : forms[x] = RunningForm
    BY <2>2 DEF ToSet
  <2>4. DOMAIN forms = 1..Len(forms)
    BY SeqShape DEF Core, FormsOK
  <2>5. \A m \in ImportsOf(RunningForm) : m \in Real \/ \E y \in DOMAIN forms : forms[y].name = m
    BY <2>3, <2>4 DEF Ordered, FormsFit, Met
  <2>6. ASSUME NEW y \in DOMAIN forms, NEW j \in DOMAIN calls, CoveredBy(j, y) PROVE forms[y].name \in BeingRun
    <3>1. j \in 1..Len(calls) /\ Started(calls[j]) /\ Within(calls[j], y)
      BY <2>6, FrameFacts DEF CoveredBy, Core
    <3>2. forms[y].name \in NamesOf(calls[j].new)
      BY <3>1, WindowFacts DEF Core
    <3>3. calls[j].pc # "load"
      BY <2>6 DEF CoveredBy, Started
    <3>4. QED
      BY <3>2, <3>3 DEF BeingRun
  <2>7. QED
    BY <1>2, <2>5, <2>6 DEF Core, Covered
<1>5. QED
  BY <1>3, <1>4

\* No file is loaded inside its own load.
LEMMA LoadsDiffer ==
  ASSUME Layered, Core, Ordered, NEW i \in DOMAIN calls, NEW j \in DOMAIN calls, i < j, calls[i].key # NoKey
  PROVE  calls[i].key # calls[j].key \/ calls[i].via # calls[j].via
<1> DEFINE n == Len(calls)
           c == calls[i]
           d == calls[j]
<1>1. SUFFICES ASSUME c.key = d.key, c.via = d.via PROVE FALSE
  OBVIOUS
<1>2. n \in Nat /\ DOMAIN calls = 1..n /\ (\A k \in 1..n : FrameOK(calls[k]))
  BY FrameFacts DEF Core
<1>3. /\ \A k \in 1..n : FrameFits(calls[k], forms, Real)
      /\ \A k, l \in 1..n : k < l => PairFits(calls[k], calls[l])
      /\ \A k, l \in 1..n : k + 1 = l /\ calls[l].via = "required" => calls[k].kind = "etac"
  BY <1>2 DEF Ordered, StackFits
<1>4. Keyed(c) /\ Keyed(d)
  <2>1. Keyed(c)
    BY <1>2, <1>3 DEF FrameFits
  <2>2. QED
    BY <1>1, <2>1 DEF Keyed
<1>5. c.via \in {"auto", "hydrate", "required"} /\ c.key \in DOMAIN Disk
  BY <1>2, <1>4 DEF FrameOK, Keyed
<1>6. i # j
  BY <1>2
<1>7. CASE c.via # "required"
  BY <1>1, <1>5, <1>6, <1>7 DEF Core, LoadsOK
<1>8. CASE c.via = "required"
  <2> DEFINE p == j - 1
             e == calls[p]
  <2>1. p \in 1..n /\ p + 1 = j /\ p < j /\ (i < p \/ i = p) /\ i \in 1..n /\ j \in 1..n
    <3>1. n \in Nat /\ i \in 1..n /\ j \in 1..n
      BY <1>2
    <3> HIDE DEF n
    <3>2. QED
      BY ONLY <3>1, i < j
  <2> HIDE DEF p, n
  <2>2. e.kind = "etac" /\ FrameOK(e)
    BY <1>1, <1>2, <1>3, <1>8, <2>1
  <2>3. Keyed(e) /\ e.key \in DOMAIN Disk
    BY <2>2 DEF FrameOK, Keyed
  <2>4. Layer[d.key] < Layer[e.key]
    <3>1. PairFits(e, d)
      BY <1>3, <2>1
    <3>2. QED
      BY <1>4, <2>2, <2>3, <3>1 DEF PairFits
  <2>5. i < p => Layer[e.key] <= Layer[c.key]
    <3>1. i < p => PairFits(c, e)
      BY <1>3, <2>1
    <3>2. QED
      BY <1>4, <2>3, <3>1 DEF PairFits
  <2>6. Layer[c.key] \in Int /\ Layer[e.key] \in Int
    BY <1>5, <2>3, LayerFacts
  <2>7. CASE i = p
    <3>1. Layer[c.key] < Layer[c.key]
      BY <1>1, <2>4, <2>7
    <3>2. QED
      BY <2>6, <3>1
  <2>8. CASE i < p
    <3>1. Layer[c.key] < Layer[e.key] /\ Layer[e.key] <= Layer[c.key]
      BY <1>1, <2>4, <2>5, <2>8
    <3>2. QED
      BY <2>6, <3>1
  <2>9. QED
    BY <2>1, <2>7, <2>8
<1>9. QED
  BY <1>7, <1>8

\* If no module of the library imports itself through an artifact, which the code
\* checks for sources only, then a module's code runs after the modules it imports,
\* those of the submissions being run excepted; no file is loaded inside its own
\* load, and no module is initialised inside its own initialisation
\* (session/driver.h, auto_load_imports, execute_deserialized_etac and the loop of
\* run_source_impl; reader/module_linker.cpp).
THEOREM InitialisesInOrder == Layered => (Spec => []InitialisedInOrder)
<1> SUFFICES ASSUME Layered PROVE Spec => []InitialisedInOrder
  OBVIOUS
<1>1. Spec => []Ordered
  <2>1. Init => Ordered
    BY OrderedInit
  <2>2. Core /\ Ordered /\ [Next]_session => Ordered'
    BY OrderedNext
  <2>3. Spec => []Core
    BY CoreInvariant
  <2>4. QED
    BY <2>1, <2>2, <2>3, PTL DEF Spec
<1>2. Core /\ Ordered => InitialisedInOrder
  <2> SUFFICES ASSUME Core, Ordered PROVE InitialisedInOrder
    OBVIOUS
  <2>1. calls # <<>> /\ Top.pc = "init" => ImportsOf(RunningForm) \subseteq executed \cup BeingRun
    BY ImportsAreMet
  <2>2. ASSUME NEW i \in DOMAIN calls, NEW j \in DOMAIN calls, i < j, calls[i].key # NoKey
        PROVE  <<calls[i].key, calls[i].via>> # <<calls[j].key, calls[j].via>>
    <3>1. calls[i].key # calls[j].key \/ calls[i].via # calls[j].via
      BY <2>2, LoadsDiffer
    <3>2. QED
      BY <3>1
  <2>3. ASSUME NEW i \in DOMAIN calls, NEW j \in DOMAIN calls, i < j, RunsProgram(calls[i]), RunsProgram(calls[j])
        PROVE  Head(calls[i].sem).name # Head(calls[j].sem).name
    <3>1. PairFits(calls[i], calls[j])
      BY <2>3 DEF Ordered, StackFits
    <3>2. HeadName(calls[i]) # HeadName(calls[j])
      BY <2>3, <3>1 DEF PairFits
    <3>3. IsSeq(calls[i].sem) /\ calls[i].sem # <<>> /\ IsSeq(calls[j].sem) /\ calls[j].sem # <<>>
      BY <2>3 DEF Core, StackOK, FrameOK
    <3>4. Head(calls[i].sem) = calls[i].sem[1] /\ Head(calls[j].sem) = calls[j].sem[1]
      BY <3>3, Tailed
    <3>5. QED
      BY <3>2, <3>4 DEF HeadName
  <2>4. QED
    BY <2>1, <2>2, <2>3 DEF InitialisedInOrder, NoKey
<1>3. QED
  BY <1>1, <1>2, CoreInvariant, PTL
=============================================================================
