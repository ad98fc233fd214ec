---------------------------- MODULE VmControl_proofs ----------------------------
(***************************************************************************)
(* VmControl, of any height.  First its stacks: sequences flattened and    *)
(* cut, frames and what runs above them, catch forms by their level; and   *)
(* what pushing, popping, landing and restoring keep of their order.  Then *)
(* that the frame stack, the winding stack, the catch stack and the        *)
(* extents entered agree, whatever an orderly program calls, raises,       *)
(* catches and jumps to.                                                   *)
(***************************************************************************)
EXTENDS Trail_proofs, SequenceTheorems

-----------------------------------------------------------------------------
(* Sequences.                                                              *)

\* A part of a sequence, element by element.
LEMMA Slice ==
  ASSUME NEW X, NEW s \in Seq(X), NEW a \in 1..(Len(s) + 1), NEW b \in (a - 1)..Len(s)
  PROVE  /\ SubSeq(s, a, b) \in Seq(X) /\ Len(SubSeq(s, a, b)) = b - a + 1
         /\ \A i \in 1..(b - a + 1) : SubSeq(s, a, b)[i] = s[a + i - 1]
<1>1. Len(s) \in Nat /\ a \in Int /\ b \in Int /\ \A i \in a..b : s[i] \in X
  BY LenProperties
<1>2. /\ SubSeq(s, a, b) \in Seq(X)
      /\ Len(SubSeq(s, a, b)) = IF a <= b THEN b - a + 1 ELSE 0
      /\ \A i \in 1..(b - a + 1) : SubSeq(s, a, b)[i] = s[a + i - 1]
  BY <1>1, SubSeqProperties
<1>3. ~(a <= b) => b - a + 1 = 0
  BY <1>1
<1>4. QED
  BY <1>2, <1>3

\* The last element and what is before it.
LEMMA FrontLast ==
  ASSUME NEW X, NEW s \in Seq(X), s # <<>>
  PROVE  /\ Front(s) \in Seq(X) /\ Last(s) \in X /\ Len(s) \in Nat \ {0}
         /\ Len(Front(s)) = Len(s) - 1 /\ \A i \in 1..(Len(s) - 1) : Front(s)[i] = s[i]
         /\ s = Append(Front(s), Last(s))
<1>1. Len(s) \in Nat \ {0}
  BY EmptySeq
<1>2. /\ Front(s) \in Seq(X) /\ Len(Front(s)) = Len(s) - 1
      /\ \A i \in 1..(Len(s) - 1) : Front(s)[i] = s[i]
  <2>1. 1 \in 1..(Len(s) + 1) /\ Len(s) - 1 \in (1 - 1)..Len(s) /\ (Len(s) - 1) - 1 + 1 = Len(s) - 1
    BY <1>1
  <2>2. /\ SubSeq(s, 1, Len(s) - 1) \in Seq(X) /\ Len(SubSeq(s, 1, Len(s) - 1)) = Len(s) - 1
        /\ \A i \in 1..(Len(s) - 1) : SubSeq(s, 1, Len(s) - 1)[i] = s[1 + i - 1]
    BY <2>1, Slice
  <2>3. \A i \in 1..(Len(s) - 1) : 1 + i - 1 = i
    BY <1>1
  <2>4. QED
    BY <2>2, <2>3 DEF Front
<1>3. Last(s) \in X
  BY <1>1, ElementOfSeq DEF Last
<1>4. s = Append(Front(s), Last(s))
  <2>1. /\ Append(Front(s), Last(s)) \in Seq(X) /\ Len(Append(Front(s), Last(s))) = (Len(s) - 1) + 1
        /\ \A i \in 1..(Len(s) - 1) : Append(Front(s), Last(s))[i] = Front(s)[i]
        /\ Append(Front(s), Last(s))[(Len(s) - 1) + 1] = Last(s)
    BY <1>2, <1>3, AppendProperties
  <2>2. \A i \in 1..Len(s) : Append(Front(s), Last(s))[i] = s[i]
    BY <1>1, <1>2, <2>1 DEF Last
  <2>3. Len(Append(Front(s), Last(s))) = Len(s) /\ Append(Front(s), Last(s)) \in Seq(X)
    BY <1>1, <2>1
  <2> DEFINE t == Append(Front(s), Last(s))
  <2>4. t \in Seq(X) /\ s \in Seq(X) /\ Len(s) = Len(t) /\ \A i \in 1..Len(s) : s[i] = t[i]
    BY <2>2, <2>3
  <2>5. s = t
    <3> HIDE DEF t
    <3>1. QED
      BY SMTT(40), <2>4, SeqEqual
  <2>6. QED
    BY <2>5
<1>5. QED
  BY <1>1, <1>2, <1>3, <1>4

\* A sequence cut in two.
LEMMA Cut ==
  ASSUME NEW A, NEW s \in Seq(A), NEW n \in 0..Len(s)
  PROVE  /\ SubSeq(s, 1, n) \in Seq(A) /\ SubSeq(s, n + 1, Len(s)) \in Seq(A)
         /\ Len(SubSeq(s, 1, n)) = n /\ Len(SubSeq(s, n + 1, Len(s))) = Len(s) - n
         /\ \A i \in 1..n : SubSeq(s, 1, n)[i] = s[i]
         /\ \A i \in 1..(Len(s) - n) : SubSeq(s, n + 1, Len(s))[i] = s[n + i]
         /\ s = SubSeq(s, 1, n) \o SubSeq(s, n + 1, Len(s))
<1>1. Len(s) \in Nat
  BY LenProperties
<1>2. /\ 1 \in 1..(Len(s) + 1) /\ n \in (1 - 1)..Len(s) /\ n - 1 + 1 = n
      /\ n + 1 \in 1..(Len(s) + 1) /\ Len(s) \in ((n + 1) - 1)..Len(s) /\ Len(s) - (n + 1) + 1 = Len(s) - n
      /\ Len(s) \in n..Len(s)
  BY <1>1
<1>3. /\ SubSeq(s, 1, n) \in Seq(A) /\ Len(SubSeq(s, 1, n)) = n
      /\ \A i \in 1..n : SubSeq(s, 1, n)[i] = s[1 + i - 1]
  BY SMTT(40), <1>2, Slice
<1>4. /\ SubSeq(s, n + 1, Len(s)) \in Seq(A) /\ Len(SubSeq(s, n + 1, Len(s))) = Len(s) - n
      /\ \A i \in 1..(Len(s) - n) : SubSeq(s, n + 1, Len(s))[i] = s[(n + 1) + i - 1]
  <2> DEFINE m == n + 1
             l == Len(s)
  <2>1. m \in 1..(Len(s) + 1) /\ l \in (m - 1)..Len(s) /\ l - m + 1 = l - n
    BY <1>2
  <2> HIDE DEF m, l
  <2>2. /\ SubSeq(s, m, l) \in Seq(A) /\ Len(SubSeq(s, m, l)) = l - m + 1
        /\ \A i \in 1..(l - m + 1) : SubSeq(s, m, l)[i] = s[m + i - 1]
    BY SMTT(40), <2>1, Slice
  <2>3. QED
    BY <2>1, <2>2 DEF m, l
<1>5. SubSeq(s, 1, n) \o SubSeq(s, n + 1, Len(s)) = SubSeq(s, 1, Len(s))
  BY <1>2, ConcatAdjacentSubSeq
<1>6. SubSeq(s, 1, Len(s)) = s
  BY SubSeqFull
<1>7. (\A i \in 1..n : 1 + i - 1 = i) /\ \A i \in 1..(Len(s) - n) : (n + 1) + i - 1 = n + i
  BY <1>1
<1>8. QED
  BY <1>3, <1>4, <1>5, <1>6, <1>7

\* What comes first of two sequences put together.
LEMMA ConcatCut ==
  ASSUME NEW X, NEW s \in Seq(X), NEW t \in Seq(X)
  PROVE  /\ \A n \in 0..Len(s) : SubSeq(s \o t, 1, n) = SubSeq(s, 1, n)
         /\ \A k \in 0..Len(t) : SubSeq(s \o t, 1, Len(s) + k) = s \o SubSeq(t, 1, k)
<1> DEFINE u == s \o t
<1>1. /\ u \in Seq(X) /\ Len(u) = Len(s) + Len(t) /\ Len(s) \in Nat /\ Len(t) \in Nat
      /\ \A i \in 1..(Len(s) + Len(t)) : u[i] = IF i <= Len(s) THEN s[i] ELSE t[i - Len(s)]
  BY ConcatProperties, LenProperties
<1> HIDE DEF u
<1>2. ASSUME NEW n \in 0..Len(s) PROVE SubSeq(u, 1, n) = SubSeq(s, 1, n)
  <2> DEFINE a == SubSeq(u, 1, n)
             b == SubSeq(s, 1, n)
  <2>1. n \in 0..Len(u)
    BY <1>1
  <2>2. /\ a \in Seq(X) /\ b \in Seq(X) /\ Len(a) = n /\ Len(b) = n
        /\ \A i \in 1..n : a[i] = u[i] /\ b[i] = s[i]
    BY <1>1, <2>1, Cut
  <2>3. \A i \in 1..n : u[i] = s[i]
    BY <1>1
  <2> HIDE DEF a, b
  <2>4. a = b
    BY <2>2, <2>3, SeqEqual
  <2>5. QED
    BY <2>4 DEF a, b
<1>3. ASSUME NEW k \in 0..Len(t) PROVE SubSeq(u, 1, Len(s) + k) = s \o SubSeq(t, 1, k)
  <2> DEFINE n == Len(s) + k
             a == SubSeq(u, 1, n)
             p == SubSeq(t, 1, k)
             b == s \o p
  <2>1. n \in 0..Len(u) /\ n \in Nat /\ k \in Nat
    BY <1>1
  <2>2. a \in Seq(X) /\ Len(a) = n /\ \A i \in 1..n : a[i] = u[i]
    <3> HIDE DEF n
    <3>1. QED
      BY <1>1, <2>1, Cut
  <2>3. p \in Seq(X) /\ Len(p) = k /\ \A i \in 1..k : p[i] = t[i]
    BY Cut
  <2> HIDE DEF a, p
  <2>4. /\ b \in Seq(X) /\ Len(b) = n
        /\ \A i \in 1..n : b[i] = IF i <= Len(s) THEN s[i] ELSE p[i - Len(s)]
    BY <2>3, ConcatProperties
  <2> HIDE DEF b
  <2>5. ASSUME NEW i \in 1..n PROVE a[i] = b[i]
    <3>1. i \in 1..(Len(s) + Len(t))
      BY <1>1, <2>1
    <3>2. CASE i <= Len(s)
      BY <1>1, <2>2, <2>4, <3>1, <3>2
    <3>3. CASE i > Len(s)
      <4> DEFINE j == i - Len(s)
      <4>1. j \in 1..k /\ ~(i <= Len(s))
        BY <1>1, <2>1, <3>3
      <4>2. a[i] = t[j] /\ b[i] = p[j]
        BY <1>1, <2>2, <2>4, <3>1, <4>1
      <4> HIDE DEF j
      <4>3. QED
        BY <2>3, <4>1, <4>2
    <3>4. QED
      BY <1>1, <3>2, <3>3
  <2>6. a = b
    <3> HIDE DEF n
    <3>1. QED
      BY <2>2, <2>4, <2>5, SeqEqual
  <2>7. QED
    BY <2>6 DEF a, b, p
<1>4. QED
  BY <1>2, <1>3 DEF u

\* Append goes inside a concatenation.
LEMMA ConcatAppend ==
  ASSUME NEW X, NEW s \in Seq(X), NEW t \in Seq(X), NEW e \in X
  PROVE  s \o Append(t, e) = Append(s \o t, e)
<1>1. <<e>> \in Seq(X) /\ s \o t \in Seq(X)
  BY ConcatProperties
<1>2. Append(t, e) = t \o <<e>> /\ Append(s \o t, e) = (s \o t) \o <<e>>
  BY <1>1, AppendIsConcat
<1>3. (s \o t) \o <<e>> = s \o (t \o <<e>>)
  BY <1>1, ConcatAssociative
<1>4. QED
  BY <1>2, <1>3

\* Concatenation of sequences of numbers (extents), with everything quantified: the form
\* in which the lemmas on winds cite it.
LEMMA NatConcat ==
  /\ \A s, t \in Seq(Nat) : s \o t \in Seq(Nat) /\ Len(s \o t) = Len(s) + Len(t)
  /\ \A s, t, u \in Seq(Nat) : (s \o t) \o u = s \o (t \o u)
  /\ \A s, t \in Seq(Nat), e \in Nat : s \o Append(t, e) = Append(s \o t, e)
<1>1. ASSUME NEW s \in Seq(Nat), NEW t \in Seq(Nat)
      PROVE  s \o t \in Seq(Nat) /\ Len(s \o t) = Len(s) + Len(t)
  BY ConcatProperties
<1>2. ASSUME NEW s \in Seq(Nat), NEW t \in Seq(Nat), NEW u \in Seq(Nat)
      PROVE  (s \o t) \o u = s \o (t \o u)
  BY SMTT(30), ConcatAssociative
<1>3. ASSUME NEW s \in Seq(Nat), NEW t \in Seq(Nat), NEW e \in Nat
      PROVE  s \o Append(t, e) = Append(s \o t, e)
  BY SMTT(30), ConcatAppend
<1>4. QED
  BY <1>1, <1>2, <1>3

\* What FlattenSeq goes through.
LEMMA FlatTrace ==
  ASSUME NEW X, NEW s \in Seq(Seq(X)), s # <<>>
  PROVE  \E f \in [1..Len(s) -> Seq(X)] :
           /\ FlattenSeq(s) = f[Len(s)] /\ f[1] = s[1]
           /\ \A i \in 2..Len(s) : f[i] = f[i - 1] \o s[i]
<1> DEFINE n == Len(s)
           Flat1(f, i) == IF i = 1 THEN s[i] ELSE f[i - 1] \o s[i]
           Upto(f, k) == \A i \in 1..k : f[i] = Flat1(f, i)
           P == {k \in 0..n : \E f \in [1..n -> Seq(X)] : Upto(f, k)}
<1>1. n \in Nat \ {0} /\ \A i \in 1..n : s[i] \in Seq(X)
  BY EmptySeq, ElementOfSeq
<1> HIDE DEF n
<1>2. \A f \in [1..n -> Seq(X)], i \in 1..n : Flat1(f, i) \in Seq(X)
  <2>1. ASSUME NEW f \in [1..n -> Seq(X)], NEW i \in 1..n PROVE Flat1(f, i) \in Seq(X)
    <3>1. CASE i = 1
      BY <1>1, <3>1
    <3>2. CASE i # 1
      <4>1. f[i - 1] \in Seq(X) /\ s[i] \in Seq(X)
        BY <1>1, <3>2
      <4>2. QED
        BY <3>2, <4>1, ConcatProperties
    <3>3. QED
      BY <3>1, <3>2
  <2>2. QED
    BY <2>1
<1>3. 0 \in P
  <2>1. [i \in 1..n |-> <<>>] \in [1..n -> Seq(X)]
    BY EmptySeq
  <2>2. Upto([i \in 1..n |-> <<>>], 0)
    OBVIOUS
  <2> HIDE DEF Upto
  <2>3. \E f \in [1..n -> Seq(X)] : Upto(f, 0)
    BY <2>1, <2>2
  <2>4. 0 \in 0..n
    BY <1>1
  <2>5. QED
    BY <2>3, <2>4
<1>4. ASSUME NEW k \in 0..n, k \in P, k < n PROVE k + 1 \in P
  <2>1. PICK f \in [1..n -> Seq(X)] : Upto(f, k)
    BY <1>4
  <2> DEFINE g == [f EXCEPT ![k + 1] = Flat1(f, k + 1)]
  <2>2. k + 1 \in 1..n
    BY <1>1, <1>4
  <2>3. g \in [1..n -> Seq(X)] /\ g[k + 1] = Flat1(f, k + 1) /\ \A i \in 1..k : g[i] = f[i]
    <3>1. Flat1(f, k + 1) \in Seq(X)
      BY <1>2, <2>2
    <3> HIDE DEF Flat1
    <3>2. QED
      BY <1>1, <2>2, <3>1
  <2> HIDE DEF g
  <2>4. ASSUME NEW i \in 1..(k + 1) PROVE g[i] = Flat1(g, i)
    <3>1. i # 1 => i - 1 \in 1..k /\ g[i - 1] = f[i - 1]
      BY <1>1, <2>3
    <3>2. Flat1(g, i) = Flat1(f, i)
      BY <3>1
    <3>3. i \in 1..k \/ i = k + 1
      BY <1>1
    <3> HIDE DEF Flat1
    <3>4. QED
      BY <2>1, <2>3, <3>2, <3>3
  <2>5. Upto(g, k + 1) /\ k + 1 \in 0..n
    BY <2>2, <2>4
  <2> HIDE DEF Upto
  <2>6. QED
    BY <2>3, <2>5
<1>5. n \in P
  <2> HIDE DEF P
  <2>1. \A k \in 0..n : k \in P
    BY <1>1, <1>3, <1>4, Climb
  <2>2. QED
    BY <1>1, <2>1
<1>6. PICK f \in [1..n -> Seq(X)] : Upto(f, n)
  BY <1>5
<1>7. f = [i \in 1..n |-> Flat1(f, i)]
  <2>1. f = [i \in 1..n |-> f[i]]
    BY <1>6
  <2> HIDE DEF Flat1
  <2>2. QED
    BY <1>6, <2>1
<1> DEFINE Flats(g) == g = [i \in 1..n |-> Flat1(g, i)]
           F == CHOOSE g : Flats(g)
<1>8. FlattenSeq(s) = F[n]
  <2>1. Len(s) # 0
    BY <1>1 DEF n
  <2>2. QED
    BY <2>1 DEF FlattenSeq, n
<1>9. Flats(F)
  <2>1. Flats(f)
    BY <1>7
  <2> HIDE DEF Flats
  <2>2. QED
    BY <2>1
<1>10. \A i \in 1..n : F[i] = Flat1(F, i)
  <2> HIDE DEF F, Flat1
  <2>1. QED
    BY <1>9
<1> HIDE DEF F
<1> DEFINE Q == {k \in 0..n : \A i \in 1..k : F[i] = f[i]}
<1>11. 0 \in Q
  BY <1>1
<1>12. ASSUME NEW k \in 0..n, k \in Q, k < n PROVE k + 1 \in Q
  <2>1. k + 1 \in 1..n /\ (k + 1 # 1 => (k + 1) - 1 \in 1..k)
    BY <1>1, <1>12
  <2>2. Flat1(F, k + 1) = Flat1(f, k + 1)
    BY <1>12, <2>1
  <2>3. F[k + 1] = f[k + 1]
    <3> HIDE DEF Flat1
    <3>1. QED
      BY <1>6, <1>10, <2>1, <2>2
  <2>4. \A i \in 1..(k + 1) : i \in 1..k \/ i = k + 1
    BY <1>1
  <2>5. k + 1 \in 0..n
    BY <2>1
  <2>6. QED
    BY <1>12, <2>3, <2>4, <2>5
<1>13. \A k \in 0..n : k \in Q
  <2> HIDE DEF Q
  <2>1. QED
    BY <1>1, <1>11, <1>12, Climb
<1>14. F[n] = f[n]
  <2>1. n \in Q /\ n \in 1..n
    <3> HIDE DEF Q
    <3>1. QED
      BY <1>1, <1>13
  <2>2. QED
    BY <2>1
<1>15. f[1] = s[1] /\ \A i \in 2..n : f[i] = f[i - 1] \o s[i]
  <2>1. 1 \in 1..n /\ \A i \in 2..n : i \in 1..n /\ i # 1
    BY <1>1
  <2>2. QED
    BY <1>6, <2>1
<1>16. QED
  BY <1>6, <1>8, <1>14, <1>15 DEF n

\* FlattenSeq of nothing, its type, and of one sequence more.
LEMMA FlatLaws ==
  ASSUME NEW X
  PROVE  /\ FlattenSeq(<<>>) = <<>>
         /\ \A s \in Seq(Seq(X)) : FlattenSeq(s) \in Seq(X)
         /\ \A s \in Seq(Seq(X)), x \in Seq(X) : FlattenSeq(Append(s, x)) = FlattenSeq(s) \o x
<1>1. FlattenSeq(<<>>) = <<>>
  BY DEF FlattenSeq
<1>2. ASSUME NEW s \in Seq(Seq(X)) PROVE FlattenSeq(s) \in Seq(X)
  <2>1. CASE s = <<>>
    BY <1>1, <2>1, EmptySeq
  <2>2. CASE s # <<>>
    <3>1. PICK f \in [1..Len(s) -> Seq(X)] : FlattenSeq(s) = f[Len(s)]
      BY <2>2, FlatTrace
    <3>2. Len(s) \in 1..Len(s)
      <4>1. Len(s) \in Nat \ {0}
        BY <2>2, EmptySeq
      <4>2. QED
        BY <4>1
    <3>3. QED
      BY <3>1, <3>2
  <2>3. QED
    BY <2>1, <2>2
<1>3. ASSUME NEW s \in Seq(Seq(X)), NEW x \in Seq(X)
      PROVE  FlattenSeq(Append(s, x)) = FlattenSeq(s) \o x
  <2> DEFINE t == Append(s, x)
             n == Len(s)
  <2>1. /\ t \in Seq(Seq(X)) /\ t # <<>> /\ Len(t) = n + 1 /\ n \in Nat
        /\ \A i \in 1..n : t[i] = s[i]
        /\ t[n + 1] = x
    BY AppendProperties, LenProperties
  <2> HIDE DEF t
  <2>2. PICK g \in [1..Len(t) -> Seq(X)] :
          /\ FlattenSeq(t) = g[Len(t)] /\ g[1] = t[1]
          /\ \A i \in 2..Len(t) : g[i] = g[i - 1] \o t[i]
    <3>1. t \in Seq(Seq(X)) /\ t # <<>>
      BY <2>1
    <3> HIDE DEF n
    <3>2. QED
      BY <3>1, FlatTrace
  <2>3. CASE s = <<>>
    <3>1. n = 0 /\ FlattenSeq(t) = x
      BY <2>1, <2>2, <2>3
    <3>2. <<>> \o x = x
      BY ConcatEmptySeq
    <3>3. QED
      BY <1>1, <2>3, <3>1, <3>2 DEF t
  <2>4. CASE s # <<>>
    <3>1. PICK f \in [1..Len(s) -> Seq(X)] :
            /\ FlattenSeq(s) = f[Len(s)] /\ f[1] = s[1]
            /\ \A i \in 2..Len(s) : f[i] = f[i - 1] \o s[i]
      BY <2>4, FlatTrace
    <3>2. n \in Nat \ {0}
      BY <2>4, EmptySeq
    <3> HIDE DEF n
    <3> DEFINE P == {k \in 0..n : k = 0 \/ g[k] = f[k]}
    <3>3. 0 \in P
      BY <3>2
    <3>4. ASSUME NEW k \in 0..n, k \in P, k < n PROVE k + 1 \in P
      <4>1. k + 1 \in 0..n /\ k + 1 \in 1..n /\ (k = 0 \/ k + 1 \in 2..n) /\ (k + 1) - 1 = k
            /\ k + 1 \in 1..(n + 1) /\ (k = 0 \/ k + 1 \in 2..(n + 1))
        BY <3>2, <3>4
      <4>2. g[k + 1] = f[k + 1]
        <5>1. CASE k = 0
          BY <2>1, <2>2, <3>1, <4>1, <5>1
        <5>2. CASE k # 0
          <6>1. g[k + 1] = g[k] \o t[k + 1]
            BY <2>1, <2>2, <4>1, <5>2
          <6>2. f[k + 1] = f[k] \o s[k + 1]
            BY <3>1, <4>1, <5>2 DEF n
          <6>3. QED
            BY <2>1, <3>4, <4>1, <5>2, <6>1, <6>2
        <5>3. QED
          BY <5>1, <5>2
      <4>3. QED
        BY <4>1, <4>2
    <3>5. \A k \in 0..n : k \in P
      <4> HIDE DEF P
      <4>1. QED
        BY <3>2, <3>3, <3>4, Climb
    <3>6. n \in P /\ n # 0
      BY <3>2, <3>5
    <3>7. n + 1 \in 2..(n + 1) /\ (n + 1) - 1 = n
      BY <3>2
    <3>8. g[n + 1] = g[n] \o t[n + 1]
      BY <2>1, <2>2, <3>7
    <3>9. QED
      BY <2>1, <2>2, <3>1, <3>6, <3>8 DEF n, t
  <2>5. QED
    BY <2>3, <2>4
<1>4. QED
  BY <1>1, <1>2, <1>3

\* Sequences are put together in the way their elements' images are.
FlatMap(w, s) == FlattenSeq([i \in DOMAIN s |-> w[s[i]]])

\* The same when each element is first mapped to a sequence.
LEMMA MapAppend ==
  ASSUME NEW A, NEW X, NEW w \in [A -> Seq(X)]
  PROVE  /\ FlatMap(w, <<>>) = <<>>
         /\ \A s \in Seq(A) : FlatMap(w, s) \in Seq(X)
         /\ \A s \in Seq(A), a \in A : FlatMap(w, Append(s, a)) = FlatMap(w, s) \o w[a]
<1> DEFINE Map(s) == [i \in DOMAIN s |-> w[s[i]]]
<1>1. \A s \in Seq(A) : Map(s) \in Seq(Seq(X)) /\ Len(Map(s)) = Len(s) /\ \A i \in 1..Len(s) : Map(s)[i] = w[s[i]]
  <2>1. ASSUME NEW s \in Seq(A)
        PROVE  /\ Map(s) \in Seq(Seq(X)) /\ Len(Map(s)) = Len(s)
               /\ \A i \in 1..Len(s) : Map(s)[i] = w[s[i]]
    <3>1. Len(s) \in Nat /\ DOMAIN s = 1..Len(s) /\ \A i \in 1..Len(s) : s[i] \in A
      BY LenProperties, ElementOfSeq
    <3>2. \A i \in 1..Len(s) : w[s[i]] \in Seq(X)
      BY <3>1
    <3>3. QED
      BY <3>1, <3>2
  <2>2. QED
    BY <2>1
<1>2. FlatMap(w, <<>>) = <<>>
  <2>1. Map(<<>>) = <<>>
    <3>1. Map(<<>>) \in Seq(Seq(X)) /\ Len(Map(<<>>)) = 0
      <4>1. <<>> \in Seq(A) /\ Len(<<>>) = 0
        BY EmptySeq
      <4> HIDE DEF Map
      <4>2. QED
        BY <1>1, <4>1
    <3> HIDE DEF Map
    <3>2. QED
      BY <3>1, EmptySeq
  <2>2. QED
    BY <2>1, FlatLaws DEF FlatMap
<1>3. ASSUME NEW s \in Seq(A) PROVE FlatMap(w, s) \in Seq(X)
  <2>1. Map(s) \in Seq(Seq(X))
    BY <1>1
  <2>2. FlatMap(w, s) = FlattenSeq(Map(s))
    BY DEF FlatMap
  <2> HIDE DEF Map
  <2>3. QED
    BY <2>1, <2>2, FlatLaws
<1>4. ASSUME NEW s \in Seq(A), NEW a \in A
      PROVE  FlatMap(w, Append(s, a)) = FlatMap(w, s) \o w[a]
  <2> DEFINE t == Append(s, a)
             m == Map(s)
             k == Map(t)
             l == Append(m, w[a])
             n == Len(s)
  <2>1. /\ t \in Seq(A) /\ Len(t) = n + 1 /\ n \in Nat
        /\ \A i \in 1..n : t[i] = s[i]
        /\ t[n + 1] = a
    BY AppendProperties, LenProperties
  <2>2. FlatMap(w, t) = FlattenSeq(k) /\ FlatMap(w, s) = FlattenSeq(m)
    BY DEF FlatMap
  <2>3. /\ m \in Seq(Seq(X)) /\ Len(m) = n /\ \A i \in 1..n : m[i] = w[s[i]]
    BY <1>1
  <2>4. /\ k \in Seq(Seq(X)) /\ Len(k) = n + 1 /\ \A i \in 1..(n + 1) : k[i] = w[t[i]]
    <3> HIDE DEF Map, t
    <3>1. QED
      BY <1>1, <2>1
  <2>5. w[a] \in Seq(X)
    OBVIOUS
  <2> HIDE DEF m, k, t
  <2>6. /\ l \in Seq(Seq(X)) /\ Len(l) = n + 1 /\ \A i \in 1..n : l[i] = m[i]
        /\ l[n + 1] = w[a]
    BY <2>3, <2>5, AppendProperties
  <2> HIDE DEF l
  <2>7. k = l
    <3>1. ASSUME NEW i \in 1..(n + 1) PROVE k[i] = l[i]
      <4>1. i \in 1..n \/ i = n + 1
        BY <2>1
      <4>2. QED
        BY <2>1, <2>3, <2>4, <2>6, <4>1
    <3>2. QED
      BY <2>4, <2>6, <3>1, SeqEqual
  <2>8. FlattenSeq(l) = FlattenSeq(m) \o w[a]
    BY <2>3, <2>5, FlatLaws DEF l
  <2>9. QED
    BY <2>2, <2>7, <2>8 DEF t
<1>5. QED
  BY <1>2, <1>3, <1>4

\* Flattening distributes over concatenation.
LEMMA MapConcat ==
  ASSUME NEW A, NEW X, NEW w \in [A -> Seq(X)], NEW s \in Seq(A), NEW t \in Seq(A)
  PROVE  FlatMap(w, s \o t) = FlatMap(w, s) \o FlatMap(w, t)
<1> DEFINE n == Len(t)
           Joins(p) == FlatMap(w, s \o p) = FlatMap(w, s) \o FlatMap(w, p)
           P == {k \in 0..n : Joins(SubSeq(t, 1, k))}
<1>1. n \in Nat /\ FlatMap(w, s) \in Seq(X)
  BY LenProperties, MapAppend
<1>2. Joins(<<>>)
  <2>1. s \o <<>> = s /\ FlatMap(w, <<>>) = <<>>
    BY MapAppend, ConcatEmptySeq
  <2>2. FlatMap(w, s) \o <<>> = FlatMap(w, s)
    BY <1>1, ConcatEmptySeq
  <2>3. QED
    BY <2>1, <2>2
<1>3. ASSUME NEW p \in Seq(A), NEW x \in A, Joins(p) PROVE Joins(Append(p, x))
  <2> DEFINE q == Append(p, x)
             b == FlatMap(w, s)
             c == FlatMap(w, p)
             d == w[x]
  <2>0. /\ \A r \in Seq(A) : FlatMap(w, r) \in Seq(X)
        /\ \A r \in Seq(A), a \in A : FlatMap(w, Append(r, a)) = FlatMap(w, r) \o w[a]
    BY MapAppend
  <2>1. b \in Seq(X) /\ c \in Seq(X) /\ d \in Seq(X)
    BY <2>0
  <2>2. FlatMap(w, q) = c \o d
    BY <2>0
  <2>3. s \o Append(p, x) = Append(s \o p, x)
    BY ConcatAppend
  <2>4. FlatMap(w, s \o q) = (b \o c) \o d
    <3>1. s \o p \in Seq(A)
      BY ConcatProperties
    <3>2. FlatMap(w, Append(s \o p, x)) = FlatMap(w, s \o p) \o d
      BY <2>0, <3>1
    <3>3. FlatMap(w, s \o p) = b \o c
      BY <1>3
    <3>4. QED
      BY <2>3, <3>2, <3>3
  <2> HIDE DEF b, c, d, q
  <2>5. (b \o c) \o d = b \o (c \o d)
    <3>1. b \in Seq(X)
      BY <2>1
    <3>2. c \in Seq(X)
      BY <2>1
    <3>3. d \in Seq(X)
      BY <2>1
    <3>4. QED
      BY SMTT(30), <3>1, <3>2, <3>3, ConcatAssociative
  <2>6. FlatMap(w, s \o q) = b \o FlatMap(w, q)
    BY <2>2, <2>4, <2>5
  <2>7. QED
    BY <2>6 DEF q, b
<1> HIDE DEF Joins
<1>4. 0 \in P
  <2>1. SubSeq(t, 1, 0) = <<>>
    BY SubSeqEmpty
  <2>2. 0 \in 0..n
    BY <1>1
  <2>3. QED
    BY <1>2, <2>1, <2>2
<1>5. ASSUME NEW k \in 0..n, k \in P, k < n PROVE k + 1 \in P
  <2> DEFINE p == SubSeq(t, 1, k)
             q == SubSeq(t, 1, k + 1)
             x == t[k + 1]
  <2>1. k + 1 \in 0..n /\ k + 1 \in 1..n /\ 1 \in 1..n /\ (k + 1) - 1 = k /\ 1 \in 1..(n + 1)
        /\ k \in (1 - 1)..n
    BY <1>1, <1>5
  <2>2. x \in A /\ p \in Seq(A)
    BY <2>1, ElementOfSeq, Slice
  <2>3. q = p \o <<x>>
    <3>1. SubSeq(t, 1, k + 1) = SubSeq(t, 1, (k + 1) - 1) \o <<t[k + 1]>>
      BY <2>1, SubSeqRecursiveSecond
    <3>2. QED
      BY <2>1, <3>1
  <2>4. Joins(p)
    BY <1>5
  <2> HIDE DEF p, x
  <2>5. q = Append(p, x) /\ Joins(Append(p, x))
    BY <1>3, <2>2, <2>3, <2>4, AppendIsConcat
  <2>6. QED
    BY <2>1, <2>5
<1>6. n \in P
  <2> HIDE DEF P
  <2>1. \A k \in 0..n : k \in P
    BY <1>1, <1>4, <1>5, Climb
  <2>2. QED
    BY <1>1, <2>1
<1>7. SubSeq(t, 1, n) = t
  BY SubSeqFull
<1>8. QED
  BY <1>6, <1>7 DEF Joins

Vanishes(w, s) == \A i \in 1..Len(s) : w[s[i]] = <<>>

\* Elements that contribute nothing flatten to nothing.
LEMMA MapEmpty ==
  ASSUME NEW A, NEW X, NEW w \in [A -> Seq(X)], NEW s \in Seq(A), Vanishes(w, s)
  PROVE  FlatMap(w, s) = <<>>
<1> DEFINE n == Len(s)
           P == {k \in 0..n : FlatMap(w, SubSeq(s, 1, k)) = <<>>}
<1>1. n \in Nat
  BY LenProperties
<1>2. 0 \in P
  <2>1. SubSeq(s, 1, 0) = <<>> /\ FlatMap(w, <<>>) = <<>> /\ 0 \in 0..n
    BY <1>1, SubSeqEmpty, MapAppend
  <2>2. QED
    BY <2>1
<1>3. ASSUME NEW p \in Seq(A), NEW x \in A, FlatMap(w, p) = <<>>, w[x] = <<>>
      PROVE  FlatMap(w, Append(p, x)) = <<>>
  <2>0. \A r \in Seq(A), a \in A : FlatMap(w, Append(r, a)) = FlatMap(w, r) \o w[a]
    BY MapAppend
  <2>1. FlatMap(w, Append(p, x)) = FlatMap(w, p) \o w[x]
    BY <2>0
  <2> DEFINE y == w[x]
  <2>2. y \in Seq(X)
    OBVIOUS
  <2> HIDE DEF y
  <2>3. <<>> \o y = y
    BY <2>2, ConcatEmptySeq
  <2>4. QED
    BY <1>3, <2>1, <2>3 DEF y
<1>4. ASSUME NEW k \in 0..n, k \in P, k < n PROVE k + 1 \in P
  <2> DEFINE p == SubSeq(s, 1, k)
             q == SubSeq(s, 1, k + 1)
             x == s[k + 1]
  <2>1. k + 1 \in 0..n /\ k + 1 \in 1..n /\ 1 \in 1..n /\ (k + 1) - 1 = k /\ 1 \in 1..(n + 1)
        /\ k \in (1 - 1)..n
    BY <1>1, <1>4
  <2>2. x \in A /\ p \in Seq(A) /\ w[x] = <<>>
    BY <2>1, ElementOfSeq, Slice DEF Vanishes
  <2>3. q = p \o <<x>>
    <3>1. SubSeq(s, 1, k + 1) = SubSeq(s, 1, (k + 1) - 1) \o <<s[k + 1]>>
      BY <2>1, SubSeqRecursiveSecond
    <3>2. QED
      BY <2>1, <3>1
  <2>4. FlatMap(w, p) = <<>>
    BY <1>4
  <2> HIDE DEF p, x
  <2>5. q = Append(p, x)
    BY <2>2, <2>3, AppendIsConcat
  <2>6. FlatMap(w, q) = <<>>
    BY <1>3, <2>2, <2>4, <2>5
  <2>7. QED
    BY <2>1, <2>6
<1>5. n \in P
  <2> HIDE DEF P
  <2>1. \A k \in 0..n : k \in P
    BY <1>1, <1>2, <1>4, Climb
  <2>2. QED
    BY <1>1, <2>1
<1>6. SubSeq(s, 1, n) = s
  BY SubSeqFull
<1>7. QED
  BY <1>5, <1>6

-----------------------------------------------------------------------------
(* The state of the machine.                                               *)

PlainKinds == WindKinds \cup {"Sentinel", "Normal", "CallWithValuesConsumer", "ExceptionUnwind"}
PlainFrame == [kind : PlainKinds, regs : Regs, extra : Nat]
Cont       == [frames : Seq(PlainFrame), winds : Seq(Nat)]
Jump       == [target : Cont, thunks : Seq(Regs)]
JumpFrame  == [kind : {"ContinuationJump"}, regs : Regs, extra : Jump]
Frames     == PlainFrame \cup JumpFrame

VM == [regs : Regs, frames : Seq(Frames), winds : Seq(Nat), catches : Seq(CatchFrame),
       transfer : Transfer \cup {NoTransfer}, status : {"running", "failed", "internal error"}]

-----------------------------------------------------------------------------
(* Frames and what runs above them.                                        *)

\* What runs, or waits, above the first i frames of s.
Above(s, top, i) == IF i = Len(s) THEN top ELSE s[i + 1].regs

Fits(f, above) ==
  /\ f.kind = "Sentinel" => f.regs = NoRun /\ above.role \in {"none", "main"}
  /\ f.kind \in {"Normal", "CallWithValuesConsumer"} => above.role = "lambda"
  /\ f.kind = "DynamicWindBody" => above.role = "before" /\ above.extent = f.extra
  /\ f.kind = "DynamicWindAfter" => above.role = "body"
  /\ f.kind = "DynamicWindCleanup" => above.role = "after" /\ above.extent = f.extra
  /\ f.kind = "ExceptionUnwind" => above.role = "after"
  /\ f.kind = "ContinuationJump" => above.role \in ThunkKinds

\* Every frame fits what runs above it; sentinels are at the bottom only.
Chain(s, top) ==
  /\ \A i \in DOMAIN s : Fits(s[i], Above(s, top, i))
  /\ \A i \in DOMAIN s : s[i].kind = "Sentinel" => \A j \in 1..i : s[j].kind = "Sentinel"
  /\ IF s = <<>> THEN top.role = "none" ELSE s[1].kind = "Sentinel"

Winds(s) == FlattenSeq([i \in DOMAIN s |-> WindOf(s[i])])

EnterOf(f) ==
  IF f.kind \in {"DynamicWindAfter", "DynamicWindCleanup"} THEN <<f.extra>> ELSE <<>>
Enters(s) == FlattenSeq([i \in DOMAIN s |-> EnterOf(s[i])])

WindFun  == [f \in Frames |-> WindOf(f)]
EnterFun == [f \in Frames |-> EnterOf(f)]

\* The parts of a frame, and the extents it accounts for.
LEMMA FrameFacts ==
  /\ WindFun \in [Frames -> Seq(Nat)] /\ EnterFun \in [Frames -> Seq(Nat)]
  /\ \A f \in Frames : /\ WindFun[f] = WindOf(f) /\ EnterFun[f] = EnterOf(f)
                       /\ f.regs \in Regs
                       /\ f.kind # "ContinuationJump" => f \in PlainFrame /\ f.extra \in Nat
                       /\ f.kind = "ContinuationJump" => f.extra \in Jump
<1>1. ASSUME NEW f \in Frames
      PROVE  /\ f.regs \in Regs
             /\ f.kind # "ContinuationJump" => f \in PlainFrame /\ f.extra \in Nat
             /\ f.kind = "ContinuationJump" => f.extra \in Jump
             /\ WindOf(f) \in Seq(Nat) /\ EnterOf(f) \in Seq(Nat)
  <2>1. CASE f \in PlainFrame
    <3>1. f.regs \in Regs /\ f.extra \in Nat /\ f.kind \in PlainKinds
      BY <2>1 DEF PlainFrame
    <3>2. f.kind # "ContinuationJump"
      BY <3>1 DEF PlainKinds, WindKinds
    <3>3. <<f.extra>> \in Seq(Nat) /\ <<>> \in Seq(Nat)
      BY <3>1
    <3>4. WindOf(f) \in Seq(Nat) /\ EnterOf(f) \in Seq(Nat)
      BY <3>3 DEF WindOf, EnterOf
    <3>5. QED
      BY <2>1, <3>1, <3>2, <3>4
  <2>2. CASE f \in JumpFrame
    <3>1. f.regs \in Regs /\ f.extra \in Jump /\ f.kind = "ContinuationJump"
      BY <2>2 DEF JumpFrame
    <3>2. WindOf(f) = <<>> /\ EnterOf(f) = <<>>
      BY <3>1 DEF WindOf, EnterOf, WindKinds
    <3>3. <<>> \in Seq(Nat)
      BY EmptySeq
    <3>4. QED
      BY <3>1, <3>2, <3>3
  <2>3. QED
    BY <2>1, <2>2 DEF Frames
<1>2. QED
  BY <1>1 DEF WindFun, EnterFun

\* Winds and Enters are flattenings.
LEMMA FlattenedFrames ==
  \A s \in Seq(Frames) : Winds(s) = FlatMap(WindFun, s) /\ Enters(s) = FlatMap(EnterFun, s)
<1>1. ASSUME NEW s \in Seq(Frames)
      PROVE  Winds(s) = FlatMap(WindFun, s) /\ Enters(s) = FlatMap(EnterFun, s)
  <2>1. DOMAIN s = 1..Len(s) /\ \A i \in 1..Len(s) : s[i] \in Frames
    BY LenProperties, ElementOfSeq
  <2>2. \A i \in DOMAIN s : WindFun[s[i]] = WindOf(s[i]) /\ EnterFun[s[i]] = EnterOf(s[i])
    BY <2>1, FrameFacts
  <2>3. [i \in DOMAIN s |-> WindFun[s[i]]] = [i \in DOMAIN s |-> WindOf(s[i])]
    BY <2>2
  <2>4. [i \in DOMAIN s |-> EnterFun[s[i]]] = [i \in DOMAIN s |-> EnterOf(s[i])]
    BY <2>2
  <2>5. QED
    BY <2>3, <2>4 DEF FlatMap, Winds, Enters
<1>2. QED
  BY <1>1

\* The extents of a frame stack, and those entered.
LEMMA WindsLaws ==
  /\ Winds(<<>>) = <<>> /\ Enters(<<>>) = <<>>
  /\ \A s \in Seq(Frames) : Winds(s) \in Seq(Nat) /\ Enters(s) \in Seq(Nat)
  /\ \A s \in Seq(Frames), f \in Frames :
       Winds(Append(s, f)) = Winds(s) \o WindOf(f) /\ Enters(Append(s, f)) = Enters(s) \o EnterOf(f)
  /\ \A s, t \in Seq(Frames) :
       Winds(s \o t) = Winds(s) \o Winds(t) /\ Enters(s \o t) = Enters(s) \o Enters(t)
<1>a. WindFun \in [Frames -> Seq(Nat)]
  BY FrameFacts
<1>b. EnterFun \in [Frames -> Seq(Nat)]
  BY FrameFacts
<1>1. Winds(<<>>) = <<>> /\ Enters(<<>>) = <<>>
  <2>1. <<>> \in Seq(Frames)
    BY EmptySeq
  <2>2. FlatMap(WindFun, <<>>) = <<>> /\ FlatMap(EnterFun, <<>>) = <<>>
    BY FrameFacts, MapAppend
  <2>3. QED
    BY <2>1, <2>2, FlattenedFrames
<1>2. ASSUME NEW s \in Seq(Frames) PROVE Winds(s) \in Seq(Nat) /\ Enters(s) \in Seq(Nat)
  <2>1. FlatMap(WindFun, s) \in Seq(Nat) /\ FlatMap(EnterFun, s) \in Seq(Nat)
    BY FrameFacts, MapAppend
  <2>2. QED
    BY <2>1, FlattenedFrames
<1>3. ASSUME NEW s \in Seq(Frames), NEW f \in Frames
      PROVE  /\ Winds(Append(s, f)) = Winds(s) \o WindOf(f)
             /\ Enters(Append(s, f)) = Enters(s) \o EnterOf(f)
  <2>1. /\ FlatMap(WindFun, Append(s, f)) = FlatMap(WindFun, s) \o WindFun[f]
        /\ FlatMap(EnterFun, Append(s, f)) = FlatMap(EnterFun, s) \o EnterFun[f]
    <3>1. FlatMap(WindFun, Append(s, f)) = FlatMap(WindFun, s) \o WindFun[f]
      <4>1. \A r \in Seq(Frames), a \in Frames : FlatMap(WindFun, Append(r, a)) = FlatMap(WindFun, r) \o WindFun[a]
        BY ZenonT(60), <1>a, MapAppend
      <4>2. QED
        BY <4>1
    <3>2. FlatMap(EnterFun, Append(s, f)) = FlatMap(EnterFun, s) \o EnterFun[f]
      <4>1. \A r \in Seq(Frames), a \in Frames : FlatMap(EnterFun, Append(r, a)) = FlatMap(EnterFun, r) \o EnterFun[a]
        BY ZenonT(60), <1>b, MapAppend
      <4>2. QED
        BY <4>1
    <3>3. QED
      BY <3>1, <3>2
  <2>2. Append(s, f) \in Seq(Frames)
    BY AppendProperties
  <2>3. QED
    BY <2>1, <2>2, FlattenedFrames, FrameFacts
<1>4. ASSUME NEW s \in Seq(Frames), NEW t \in Seq(Frames)
      PROVE  Winds(s \o t) = Winds(s) \o Winds(t) /\ Enters(s \o t) = Enters(s) \o Enters(t)
  <2>1. /\ FlatMap(WindFun, s \o t) = FlatMap(WindFun, s) \o FlatMap(WindFun, t)
        /\ FlatMap(EnterFun, s \o t) = FlatMap(EnterFun, s) \o FlatMap(EnterFun, t)
    <3>1. FlatMap(WindFun, s \o t) = FlatMap(WindFun, s) \o FlatMap(WindFun, t)
      BY <1>a, MapConcat
    <3>2. FlatMap(EnterFun, s \o t) = FlatMap(EnterFun, s) \o FlatMap(EnterFun, t)
      BY <1>b, MapConcat
    <3>3. QED
      BY <3>1, <3>2
  <2>2. s \o t \in Seq(Frames)
    BY ConcatProperties
  <2>3. QED
    BY <2>1, <2>2, FlattenedFrames
<1>5. QED
  BY <1>1, <1>2, <1>3, <1>4

\* The extents of a stack are those of its two parts.
LEMMA WindsSplit ==
  ASSUME NEW s \in Seq(Frames), NEW n \in 0..Len(s)
  PROVE  /\ Winds(s) = Winds(SubSeq(s, 1, n)) \o Winds(SubSeq(s, n + 1, Len(s)))
         /\ Enters(s) = Enters(SubSeq(s, 1, n)) \o Enters(SubSeq(s, n + 1, Len(s)))
<1> DEFINE a == SubSeq(s, 1, n)
           b == SubSeq(s, n + 1, Len(s))
<1>1. a \in Seq(Frames) /\ b \in Seq(Frames) /\ s = a \o b
  BY Cut
<1> HIDE DEF a, b
<1>2. Winds(a \o b) = Winds(a) \o Winds(b) /\ Enters(a \o b) = Enters(a) \o Enters(b)
  BY <1>1, WindsLaws
<1>3. QED
  BY <1>1, <1>2 DEF a, b

\* Only the extents whose before is running are not entered yet.
LEMMA AllEntered ==
  ASSUME NEW s \in Seq(Frames), \A i \in 1..Len(s) : s[i].kind # "DynamicWindBody"
  PROVE  Enters(s) = Winds(s)
<1>1. DOMAIN s = 1..Len(s)
  BY LenProperties
<1>2. \A i \in DOMAIN s : EnterOf(s[i]) = WindOf(s[i])
  BY <1>1 DEF EnterOf, WindOf, WindKinds
<1>3. [i \in DOMAIN s |-> EnterOf(s[i])] = [i \in DOMAIN s |-> WindOf(s[i])]
  BY <1>2
<1>4. QED
  BY <1>3 DEF Enters, Winds

\* Without winding frames there are no extents.
LEMMA NoExtents ==
  ASSUME NEW s \in Seq(Frames), \A i \in 1..Len(s) : s[i].kind \notin WindKinds
  PROVE  Winds(s) = <<>> /\ Enters(s) = <<>>
<1>1. \A i \in 1..Len(s) : s[i] \in Frames /\ WindOf(s[i]) = <<>> /\ EnterOf(s[i]) = <<>>
  BY ElementOfSeq DEF WindOf, EnterOf, WindKinds
<1>2. \A i \in 1..Len(s) : WindFun[s[i]] = <<>> /\ EnterFun[s[i]] = <<>>
  BY <1>1, FrameFacts
<1>3. FlatMap(WindFun, s) = <<>> /\ FlatMap(EnterFun, s) = <<>>
  <2>1. WindFun \in [Frames -> Seq(Nat)] /\ Vanishes(WindFun, s)
    BY <1>2, FrameFacts DEF Vanishes
  <2>2. EnterFun \in [Frames -> Seq(Nat)] /\ Vanishes(EnterFun, s)
    BY <1>2, FrameFacts DEF Vanishes
  <2>3. FlatMap(WindFun, s) = <<>>
    BY <2>1, MapEmpty
  <2>4. FlatMap(EnterFun, s) = <<>>
    BY <2>2, MapEmpty
  <2>5. QED
    BY <2>3, <2>4
<1>4. QED
  BY <1>3, FlattenedFrames

\* The two cases of Above.
LEMMA AboveLaws ==
  ASSUME NEW s, NEW top, NEW i
  PROVE  /\ i = Len(s) => Above(s, top, i) = top
         /\ i # Len(s) => Above(s, top, i) = s[i + 1].regs
<1>1. QED
  BY DEF Above

\* Calling.
LEMMA PushChain ==
  ASSUME NEW s \in Seq(Frames), NEW f \in Frames, NEW top, Chain(s, f.regs), Fits(f, top),
         s # <<>>, f.kind # "Sentinel"
  PROVE  /\ Chain(Append(s, f), top)
         /\ \A i \in 0..Len(s) : Above(Append(s, f), top, i) = Above(s, f.regs, i)
         /\ Above(Append(s, f), top, Len(s) + 1) = top
<1> DEFINE t == Append(s, f)
           n == Len(s)
<1>1. /\ n \in Nat \ {0} /\ t \in Seq(Frames) /\ Len(t) = n + 1 /\ t # <<>> /\ t[n + 1] = f
      /\ \A i \in 1..n : t[i] = s[i]
      /\ DOMAIN t = 1..(n + 1) /\ DOMAIN s = 1..n
  BY AppendProperties, LenProperties, EmptySeq
<1> HIDE DEF t, n
<1>2. ASSUME NEW i \in 0..n PROVE Above(t, top, i) = Above(s, f.regs, i)
  <2>1. CASE i = n
    <3>1. i + 1 = n + 1 /\ i # n + 1
      BY SMTT(40), <1>1, <2>1
    <3>2. Above(t, top, i) = t[i + 1].regs /\ Above(s, f.regs, i) = f.regs
      BY ZenonT(60), <1>1, <2>1, <3>1 DEF Above, n
    <3>3. QED
      BY <1>1, <3>1, <3>2
  <2>2. CASE i # n
    <3>1. i + 1 \in 1..n /\ i # n + 1
      BY <1>1, <2>2
    <3>2. QED
      BY <1>1, <2>2, <3>1 DEF Above, n
  <2>3. QED
    BY <2>1, <2>2
<1>3. Above(t, top, n + 1) = top
  BY <1>1 DEF Above
<1>4. ASSUME NEW i \in 1..(n + 1) PROVE Fits(t[i], Above(t, top, i))
  <2>1. CASE i = n + 1
    BY <1>1, <1>3, <2>1
  <2>2. CASE i # n + 1
    <3>1. i \in 1..n /\ i \in 0..n
      BY <1>1, <2>2
    <3>2. Fits(s[i], Above(s, f.regs, i))
      BY <1>1, <3>1 DEF Chain
    <3>3. QED
      BY <1>1, <1>2, <3>1, <3>2
  <2>3. QED
    BY <2>1, <2>2
<1>5. ASSUME NEW i \in 1..(n + 1), t[i].kind = "Sentinel", NEW j \in 1..i PROVE t[j].kind = "Sentinel"
  <2>1. i \in 1..n /\ j \in 1..n
    BY <1>1, <1>5
  <2>2. s[i].kind = "Sentinel"
    BY <1>1, <1>5, <2>1
  <2>3. s[j].kind = "Sentinel"
    BY <1>1, <2>1, <2>2 DEF Chain
  <2>4. QED
    BY <1>1, <2>1, <2>3
<1>6. t[1].kind = "Sentinel"
  <2>1. s[1].kind = "Sentinel" /\ 1 \in 1..n
    BY <1>1 DEF Chain
  <2>2. QED
    BY <1>1, <2>1
<1>7. Chain(t, top)
  BY <1>1, <1>4, <1>5, <1>6 DEF Chain
<1>8. QED
  BY <1>2, <1>3, <1>7 DEF t, n

\* Going back to what waits above the first n frames.
LEMMA CutChain ==
  ASSUME NEW s \in Seq(Frames), NEW top, Chain(s, top), NEW n \in 0..Len(s), NEW r,
         r.role = Above(s, top, n).role, r.extent = Above(s, top, n).extent
  PROVE  /\ Chain(SubSeq(s, 1, n), r)
         /\ \A i \in 0..n : Above(SubSeq(s, 1, n), r, i) = IF i = n THEN r ELSE Above(s, top, i)
<1> DEFINE t == SubSeq(s, 1, n)
<1>1. /\ Len(s) \in Nat /\ t \in Seq(Frames) /\ Len(t) = n /\ \A i \in 1..n : t[i] = s[i]
      /\ DOMAIN t = 1..n /\ DOMAIN s = 1..Len(s)
  BY SMTT(30), Cut, LenProperties
<1> HIDE DEF t
<1>2. ASSUME NEW i \in 0..n PROVE Above(t, r, i) = IF i = n THEN r ELSE Above(s, top, i)
  <2>1. CASE i = n
    <3>1. Above(t, r, n) = r
      BY <1>1 DEF Above
    <3>2. QED
      BY <2>1, <3>1
  <2>2. CASE i # n
    <3>0. n \in Nat /\ n <= Len(s) /\ Len(s) \in Nat /\ Len(t) = n
      BY <1>1
    <3>1. i + 1 \in 1..n /\ i # Len(s) /\ i # Len(t)
      BY <2>2, <3>0
    <3>2. Above(t, r, i) = t[i + 1].regs
      BY <3>1, AboveLaws
    <3>3. Above(s, top, i) = s[i + 1].regs
      BY <3>1, AboveLaws
    <3>4. QED
      BY <1>1, <2>2, <3>1, <3>2, <3>3
  <2>3. QED
    BY <2>1, <2>2
<1>3. ASSUME NEW i \in 1..n PROVE Fits(t[i], Above(t, r, i))
  <2>1. i \in 1..Len(s) /\ i \in 0..n
    BY <1>1
  <2>2. Fits(s[i], Above(s, top, i))
    BY <1>1, <2>1 DEF Chain
  <2>3. Above(t, r, i).role = Above(s, top, i).role /\ Above(t, r, i).extent = Above(s, top, i).extent
    BY <1>2, <2>1
  <2>4. QED
    BY <1>1, <2>2, <2>3 DEF Fits
<1>4. ASSUME NEW i \in 1..n, t[i].kind = "Sentinel", NEW j \in 1..i PROVE t[j].kind = "Sentinel"
  <2>1. i \in 1..Len(s) /\ j \in 1..n
    BY <1>1
  <2>2. s[i].kind = "Sentinel"
    BY <1>1, <1>4
  <2>3. s[j].kind = "Sentinel"
    BY <1>1, <2>1, <2>2 DEF Chain
  <2>4. QED
    BY <1>1, <2>1, <2>3
<1>5. CASE n = 0
  <2>1. t = <<>>
    BY <1>1, <1>5, EmptySeq
  <2>2. r.role = "none"
    <3>1. CASE s = <<>>
      BY <1>5, <3>1 DEF Above, Chain
    <3>2. CASE s # <<>>
      <4>1. Len(s) # 0 /\ 1 \in DOMAIN s
        BY <1>1, <3>2, EmptySeq
      <4>2. s[1].kind = "Sentinel" /\ Fits(s[1], Above(s, top, 1))
        BY <3>2, <4>1 DEF Chain
      <4>3. s[1].regs = NoRun
        BY <4>2 DEF Fits
      <4>4. Above(s, top, 0) = s[1].regs
        BY <4>1 DEF Above
      <4>5. QED
        BY <1>5, <4>3, <4>4 DEF NoRun, Run
    <3>3. QED
      BY <3>1, <3>2
  <2>3. QED
    BY <1>1, <1>2, <1>3, <1>4, <2>1, <2>2 DEF Chain, t
<1>6. CASE n # 0
  <2>1. t # <<>> /\ s # <<>> /\ 1 \in 1..n
    BY <1>1, <1>6, EmptySeq
  <2>2. t[1].kind = "Sentinel"
    BY <1>1, <2>1 DEF Chain
  <2>3. Chain(t, r)
    BY <1>1, <1>3, <1>4, <2>1, <2>2 DEF Chain
  <2>4. QED
    BY <1>2, <2>3 DEF t
<1>7. QED
  BY <1>5, <1>6

\* A captured stack above the sentinels at the bottom of another.
LEMMA JoinChain ==
  ASSUME NEW p \in Seq(Frames), NEW t \in Seq(Frames), NEW r, Chain(t, r), t # <<>>,
         \A i \in 1..Len(p) : p[i].kind = "Sentinel" /\ p[i].regs = NoRun
  PROVE  /\ Chain(p \o t, r)
         /\ \A i \in 0..Len(p) + Len(t) :
              Above(p \o t, r, i) = IF i < Len(p) THEN NoRun ELSE Above(t, r, i - Len(p))
<1> DEFINE s == p \o t
           n == Len(p)
           k == Len(t)
<1>1. /\ n \in Nat /\ k \in Nat \ {0} /\ s \in Seq(Frames) /\ Len(s) = n + k
      /\ DOMAIN s = 1..(n + k) /\ DOMAIN t = 1..k
  BY ConcatProperties, LenProperties, EmptySeq
<1>2. \A i \in 1..(n + k) : s[i] = IF i <= n THEN p[i] ELSE t[i - n]
  BY ConcatProperties
<1> HIDE DEF s, n, k
<1>3. t[1].kind = "Sentinel" /\ t[1].regs = NoRun /\ 1 \in 1..k
  <2>1. t[1].kind = "Sentinel" /\ 1 \in DOMAIN t
    BY <1>1 DEF Chain
  <2>2. Fits(t[1], Above(t, r, 1))
    BY <2>1 DEF Chain
  <2>3. QED
    BY <1>1, <2>1, <2>2 DEF Fits
<1>4. ASSUME NEW i \in 0..n + k PROVE Above(s, r, i) = IF i < n THEN NoRun ELSE Above(t, r, i - n)
  <2>1. CASE i < n
    <3>1. i + 1 \in 1..(n + k) /\ i + 1 <= n /\ i # n + k /\ i + 1 \in 1..n
      BY <1>1, <2>1
    <3>2. Above(s, r, i) = p[i + 1].regs
      BY <1>1, <1>2, <3>1 DEF Above
    <3>3. QED
      BY <2>1, <3>1, <3>2 DEF n
  <2>2. CASE i = n + k
    <3>1. i - n = k /\ ~(i < n)
      BY <1>1, <2>2
    <3>2. QED
      BY <1>1, <2>2, <3>1 DEF Above, k
  <2>3. CASE n <= i /\ i < n + k
    <3>1. i + 1 \in 1..(n + k) /\ ~(i + 1 <= n) /\ (i + 1) - n = (i - n) + 1 /\ i # n + k /\ i - n # k
      BY <1>1, <2>3
    <3>2. Above(s, r, i) = t[(i + 1) - n].regs
      BY <1>1, <1>2, <3>1 DEF Above
    <3>3. Above(t, r, i - n) = t[(i - n) + 1].regs
      BY <3>1 DEF Above, k
    <3>4. QED
      BY <1>1, <2>3, <3>1, <3>2, <3>3
  <2>4. QED
    BY <1>1, <2>1, <2>2, <2>3
<1>f. \A f, a : f.kind = "Sentinel" /\ f.regs = NoRun /\ a.role = "none" => Fits(f, a)
  BY DEF Fits
<1>5. ASSUME NEW i \in 1..(n + k) PROVE Fits(s[i], Above(s, r, i))
  <2>1. CASE i <= n
    <3>1. s[i].kind = "Sentinel" /\ s[i].regs = NoRun
      BY SMTT(40), <1>1, <1>2, <2>1 DEF n
    <3>2. Above(s, r, i).role = "none"
      <4>1. CASE i < n
        <5>1. Above(s, r, i) = NoRun
          BY <1>1, <1>4, <4>1
        <5>2. QED
          BY <5>1 DEF NoRun, Run
      <4>2. CASE i = n
        <5>1. Above(s, r, i) = Above(t, r, 0) /\ 0 # k
          BY <1>1, <1>4, <4>2
        <5>2. Above(t, r, 0) = t[1].regs
          BY <5>1 DEF Above, k
        <5>3. QED
          BY <1>3, <5>1, <5>2 DEF NoRun, Run
      <4>3. QED
        BY <1>1, <2>1, <4>1, <4>2
    <3>3. QED
      BY <1>f, <3>1, <3>2
  <2>2. CASE i > n
    <3>1. i - n \in 1..k /\ ~(i <= n) /\ ~(i < n) /\ i \in 0..n + k
      BY <1>1, <2>2
    <3>2. s[i] = t[i - n] /\ Above(s, r, i) = Above(t, r, i - n)
      BY <1>2, <1>4, <3>1
    <3>3. Fits(t[i - n], Above(t, r, i - n))
      BY <1>1, <3>1 DEF Chain
    <3>4. QED
      BY <3>2, <3>3
  <2>3. QED
    BY <1>1, <2>1, <2>2
<1>6. ASSUME NEW i \in 1..(n + k), s[i].kind = "Sentinel", NEW j \in 1..i PROVE s[j].kind = "Sentinel"
  <2>1. CASE j <= n
    <3>1. j \in 1..n /\ j \in 1..(n + k)
      BY <1>1, <2>1
    <3>2. QED
      BY <1>2, <2>1, <3>1 DEF n
  <2>2. CASE j > n
    <3>1. /\ i - n \in 1..k /\ j - n \in 1..(i - n) /\ ~(i <= n) /\ ~(j <= n) /\ j \in 1..(n + k)
      BY <1>1, <2>2
    <3>2. s[i] = t[i - n] /\ s[j] = t[j - n]
      BY <1>2, <3>1
    <3>3. t[j - n].kind = "Sentinel"
      BY <1>1, <1>6, <3>1, <3>2 DEF Chain
    <3>4. QED
      BY <3>2, <3>3
  <2>3. QED
    BY <1>1, <2>1, <2>2
<1>7. s # <<>> /\ s[1].kind = "Sentinel"
  <2>1. 1 \in 1..(n + k) /\ n + k # 0
    BY <1>1
  <2>2. s # <<>>
    BY <1>1, <2>1, EmptySeq
  <2>3. CASE n = 0
    <3>1. s[1] = t[1]
      BY <1>1, <1>2, <2>1, <2>3
    <3>2. QED
      BY <1>3, <2>2, <3>1
  <2>4. CASE n # 0
    <3>1. 1 \in 1..n /\ 1 <= n
      BY <1>1, <2>4
    <3>2. QED
      BY <1>2, <2>1, <2>2, <3>1 DEF n
  <2>5. QED
    BY <2>3, <2>4
<1>8. Chain(s, r)
  BY <1>1, <1>5, <1>6, <1>7 DEF Chain
<1>9. QED
  BY <1>4, <1>8 DEF s, n, k

-----------------------------------------------------------------------------
(* Catch forms.                                                            *)

LandsIn(cf, s, top) ==
  /\ cf.frame_count <= Len(s)
  /\ cf.wind_count = Len(Winds(SubSeq(s, 1, cf.frame_count)))
  /\ cf.regs.role = Above(s, top, cf.frame_count).role
  /\ cf.regs.extent = Above(s, top, cf.frame_count).extent

Landings(m) == [i \in DOMAIN m.catches |-> <<m.catches[i].frame_count, m.catches[i].regs.depth>>]

Level(i, n) == [d \in 1..n |-> <<i - 1, d - 1>>]
Levels(ds) == FlattenSeq([i \in DOMAIN ds |-> Level(i, ds[i])])

\* The catch forms open above each frame.  During a transfer those between its
\* target and the thunk, called from frame u, are closed already.
Masked(m, u) ==
  [j \in 1..(Len(m.frames) + 1) |->
     IF m.transfer # NoTransfer /\ m.transfer.target.frame_count < j /\ j <= u
     THEN IF j = m.transfer.target.frame_count + 1 THEN m.transfer.target.regs.depth ELSE 0
     ELSE Above(m.frames, m.regs, j - 1).depth]

\* The catches open in one activation.
LEMMA LevelLaws ==
  ASSUME NEW i \in Nat \ {0}, NEW n \in Nat
  PROVE  /\ Level(i, n) \in Seq(Nat \X Nat) /\ Len(Level(i, n)) = n
         /\ \A d \in 1..n : Level(i, n)[d] = <<i - 1, d - 1>>
         /\ Level(i, 0) = <<>>
         /\ Level(i, n + 1) = Append(Level(i, n), <<i - 1, n>>)
<1>1. \A k \in Nat : /\ Level(i, k) \in Seq(Nat \X Nat) /\ Len(Level(i, k)) = k
                     /\ \A d \in 1..k : Level(i, k)[d] = <<i - 1, d - 1>>
  BY DEF Level
<1>2. Level(i, 0) = <<>>
  BY <1>1, EmptySeq
<1> DEFINE a == Level(i, n + 1)
           b == Level(i, n)
           e == <<i - 1, n>>
           c == Append(b, e)
<1>3. /\ a \in Seq(Nat \X Nat) /\ Len(a) = n + 1 /\ \A d \in 1..(n + 1) : a[d] = <<i - 1, d - 1>>
      /\ b \in Seq(Nat \X Nat) /\ Len(b) = n /\ \A d \in 1..n : b[d] = <<i - 1, d - 1>>
      /\ e \in Nat \X Nat
  <2>1. n + 1 \in Nat /\ e \in Nat \X Nat
    OBVIOUS
  <2>2. /\ a \in Seq(Nat \X Nat) /\ Len(a) = n + 1
        /\ \A d \in 1..(n + 1) : a[d] = <<i - 1, d - 1>>
    BY <1>1, <2>1
  <2>3. b \in Seq(Nat \X Nat) /\ Len(b) = n /\ \A d \in 1..n : b[d] = <<i - 1, d - 1>>
    BY <1>1
  <2> HIDE DEF a, b, e
  <2>4. QED
    BY <2>1, <2>2, <2>3
<1> HIDE DEF a, b
<1>4. /\ c \in Seq(Nat \X Nat) /\ Len(c) = n + 1 /\ \A d \in 1..n : c[d] = b[d]
      /\ c[n + 1] = e
  BY <1>3, AppendProperties
<1> HIDE DEF c
<1>5. ASSUME NEW d \in 1..(n + 1) PROVE a[d] = c[d]
  <2>1. d \in 1..n \/ d = n + 1
    OBVIOUS
  <2>2. n + 1 - 1 = n /\ n + 1 \in 1..(n + 1)
    OBVIOUS
  <2>3. QED
    BY SMTT(30), <1>3, <1>4, <2>1, <2>2
<1>6. a = c
  BY <1>3, <1>4, <1>5, SeqEqual
<1>7. QED
  BY <1>1, <1>2, <1>6 DEF a, b, c

\* The catches open in one activation more.
LEMMA LevelsLaws ==
  /\ Levels(<<>>) = <<>>
  /\ \A ds \in Seq(Nat) : Levels(ds) \in Seq(Nat \X Nat)
  /\ \A ds \in Seq(Nat), n \in Nat : Levels(Append(ds, n)) = Levels(ds) \o Level(Len(ds) + 1, n)
<1> DEFINE Each(ds) == [i \in DOMAIN ds |-> Level(i, ds[i])]
<1>1. ASSUME NEW ds \in Seq(Nat)
      PROVE  /\ Each(ds) \in Seq(Seq(Nat \X Nat)) /\ Len(Each(ds)) = Len(ds)
             /\ \A i \in 1..Len(ds) : Each(ds)[i] = Level(i, ds[i])
  <2>1. Len(ds) \in Nat /\ DOMAIN ds = 1..Len(ds) /\ \A i \in 1..Len(ds) : ds[i] \in Nat
    BY LenProperties, ElementOfSeq
  <2>2. ASSUME NEW i \in 1..Len(ds) PROVE Level(i, ds[i]) \in Seq(Nat \X Nat)
    <3>1. i \in Nat \ {0} /\ ds[i] \in Nat
      BY <2>1
    <3>2. QED
      BY <3>1, LevelLaws
  <2>3. QED
    BY <2>1, <2>2
<1>2. Levels(<<>>) = <<>>
  <2> DEFINE e == Each(<<>>)
  <2>1. <<>> \in Seq(Nat) /\ Len(<<>>) = 0
    BY EmptySeq
  <2>2. e \in Seq(Seq(Nat \X Nat)) /\ Len(e) = 0
    <3> HIDE DEF Each
    <3>1. QED
      BY <1>1, <2>1
  <2>3. Levels(<<>>) = FlattenSeq(e)
    BY DEF Levels
  <2> HIDE DEF e
  <2>4. e = <<>>
    BY <2>2, EmptySeq
  <2>5. QED
    BY <2>3, <2>4, FlatLaws
<1>3. ASSUME NEW ds \in Seq(Nat) PROVE Levels(ds) \in Seq(Nat \X Nat)
  <2>1. Levels(ds) = FlattenSeq(Each(ds))
    BY DEF Levels
  <2> HIDE DEF Each
  <2>2. Each(ds) \in Seq(Seq(Nat \X Nat))
    BY <1>1
  <2>3. QED
    BY <2>1, <2>2, FlatLaws
<1>4. ASSUME NEW ds \in Seq(Nat), NEW n \in Nat
      PROVE  Levels(Append(ds, n)) = Levels(ds) \o Level(Len(ds) + 1, n)
  <2> DEFINE es == Append(ds, n)
             k == Len(ds)
             a == Each(es)
             b == Each(ds)
             x == Level(k + 1, n)
             c == Append(b, x)
  <2>1. /\ es \in Seq(Nat) /\ Len(es) = k + 1 /\ k \in Nat
        /\ \A i \in 1..k : es[i] = ds[i]
        /\ es[k + 1] = n
    BY AppendProperties, LenProperties
  <2>2. Levels(es) = FlattenSeq(a) /\ Levels(ds) = FlattenSeq(b)
    BY DEF Levels
  <2>3. b \in Seq(Seq(Nat \X Nat)) /\ Len(b) = k /\ \A i \in 1..k : b[i] = Level(i, ds[i])
    BY <1>1
  <2>4. a \in Seq(Seq(Nat \X Nat)) /\ Len(a) = k + 1 /\ \A i \in 1..(k + 1) : a[i] = Level(i, es[i])
    <3> HIDE DEF Each, es
    <3>1. QED
      BY <1>1, <2>1
  <2>5. x \in Seq(Nat \X Nat)
    <3>1. k + 1 \in Nat \ {0}
      BY <2>1
    <3>2. QED
      BY <3>1, LevelLaws
  <2> HIDE DEF a, b, es, k, x
  <2>6. /\ c \in Seq(Seq(Nat \X Nat)) /\ Len(c) = k + 1 /\ \A i \in 1..k : c[i] = b[i]
        /\ c[k + 1] = x
    BY <2>3, <2>5, AppendProperties
  <2> HIDE DEF c
  <2>7. ASSUME NEW i \in 1..(k + 1) PROVE a[i] = c[i]
    <3>1. i \in 1..k \/ i = k + 1
      BY <2>1
    <3>2. QED
      BY <2>1, <2>3, <2>4, <2>6, <3>1 DEF x
  <2>8. a = c
    BY <2>4, <2>6, <2>7, SeqEqual
  <2>9. FlattenSeq(c) = FlattenSeq(b) \o x
    BY <2>3, <2>5, FlatLaws DEF c
  <2>10. QED
    BY <2>2, <2>8, <2>9 DEF es, x, k
<1>5. QED
  BY <1>2, <1>3, <1>4

\* One more form open in the last.
LEMMA LevelsOpen ==
  ASSUME NEW p \in Seq(Nat), NEW d \in Nat
  PROVE  Levels(Append(p, d + 1)) = Append(Levels(Append(p, d)), <<Len(p), d>>)
<1> DEFINE l == Len(p)
           e == <<l, d>>
           q == Levels(p)
           v == Level(l + 1, d)
           w == Level(l + 1, d + 1)
           X == Nat \X Nat
<1>1. l \in Nat /\ l + 1 \in Nat \ {0} /\ d + 1 \in Nat /\ (l + 1) - 1 = l /\ e \in X
  BY LenProperties
<1>2. v \in Seq(X) /\ w = Append(v, <<(l + 1) - 1, d>>)
  BY <1>1, LevelLaws
<1>3. Levels(Append(p, d)) = q \o v /\ Levels(Append(p, d + 1)) = q \o w /\ q \in Seq(X)
  BY <1>1, LevelsLaws
<1>4. w = Append(v, e)
  BY <1>1, <1>2
<1> HIDE DEF q, v, w, e, X
<1>5. q \o Append(v, e) = Append(q \o v, e)
  BY SMTT(30), <1>1, <1>2, <1>3, ConcatAppend
<1>6. QED
  BY <1>3, <1>4, <1>5 DEF e, l

\* Zeros at the end make no difference.
LEMMA LevelsZero == \A ds \in Seq(Nat) : Levels(Append(ds, 0)) = Levels(ds)
<1>1. ASSUME NEW ds \in Seq(Nat) PROVE Levels(Append(ds, 0)) = Levels(ds)
  <2>1. Levels(Append(ds, 0)) = Levels(ds) \o Level(Len(ds) + 1, 0) /\ Levels(ds) \in Seq(Nat \X Nat)
    BY LevelsLaws
  <2>2. Level(Len(ds) + 1, 0) = <<>>
    <3>1. Len(ds) + 1 \in Nat \ {0}
      BY LenProperties
    <3>2. QED
      BY <3>1, LevelLaws
  <2>3. Levels(ds) \o <<>> = Levels(ds)
    BY <2>1, ConcatEmptySeq
  <2>4. QED
    BY <2>1, <2>2, <2>3
<1>2. QED
  BY <1>1

\* Activations without catches above n change nothing.
LEMMA LevelsZeros ==
  ASSUME NEW ds \in Seq(Nat), NEW n \in 0..Len(ds), \A i \in (n + 1)..Len(ds) : ds[i] = 0
  PROVE  Levels(ds) = Levels(SubSeq(ds, 1, n))
<1> DEFINE m == Len(ds) - n
           P == {k \in 0..m : Levels(SubSeq(ds, 1, n + k)) = Levels(SubSeq(ds, 1, n))}
<1>1. Len(ds) \in Nat /\ n \in Nat /\ n <= Len(ds) /\ m \in Nat /\ n + m = Len(ds) /\ n + 0 = n
  BY LenProperties
<1> HIDE DEF m
<1>2. 0 \in P
  BY <1>1
<1>3. ASSUME NEW k \in 0..m, k \in P, k < m PROVE k + 1 \in P
  <2> DEFINE j == n + k
             p == SubSeq(ds, 1, j)
             q == SubSeq(ds, 1, j + 1)
  <2>1. /\ j \in Nat /\ j + 1 \in 1..Len(ds) /\ 1 \in 1..Len(ds) /\ (j + 1) - 1 = j /\ j + 1 \in (n + 1)..Len(ds)
        /\ 1 \in 1..(Len(ds) + 1) /\ j \in (1 - 1)..Len(ds) /\ n + (k + 1) = j + 1 /\ k + 1 \in 0..m
        /\ j + 1 \in 1..Len(ds) /\ j - 1 + 1 = j
    BY <1>1, <1>3
  <2> HIDE DEF j
  <2>2. p \in Seq(Nat) /\ Len(p) = j
    BY ZenonT(60), <2>1, Slice
  <2>3. q = p \o <<0>>
    <3>1. q = SubSeq(ds, 1, (j + 1) - 1) \o <<ds[j + 1]>>
      BY <2>1, SubSeqRecursiveSecond
    <3>2. ds[j + 1] = 0
      BY <2>1
    <3>3. QED
      BY <2>1, <3>1, <3>2
  <2> HIDE DEF p, q
  <2>4. q = Append(p, 0)
    BY <2>2, <2>3, AppendIsConcat
  <2>5. Levels(q) = Levels(p) \o <<>> /\ Levels(p) \in Seq(Nat \X Nat)
    <3>1. Levels(Append(p, 0)) = Levels(p) \o Level(Len(p) + 1, 0)
      BY <2>2, LevelsLaws
    <3>2. Level(Len(p) + 1, 0) = <<>>
      <4>1. Len(p) + 1 \in Nat \ {0}
        BY <2>1, <2>2
      <4>2. QED
        BY <4>1, LevelLaws
    <3>3. QED
      BY <2>2, <2>4, <3>1, <3>2, LevelsLaws
  <2>6. Levels(q) = Levels(p)
    BY <2>5, ConcatEmptySeq
  <2>7. QED
    BY <1>3, <2>1, <2>6 DEF p, q, j
<1>4. m \in P
  <2> HIDE DEF P
  <2>1. \A k \in 0..m : k \in P
    BY <1>1, <1>2, <1>3, Climb
  <2>2. QED
    BY <1>1, <2>1
<1>5. SubSeq(ds, 1, Len(ds)) = ds
  BY SubSeqFull
<1>6. QED
  BY <1>1, <1>4, <1>5

\* ConcatCut for the landings of catch forms, with everything quantified.
LEMMA PairCut ==
  \A s, t \in Seq(Nat \X Nat) :
    /\ \A n \in 0..Len(s) : SubSeq(s \o t, 1, n) = SubSeq(s, 1, n)
    /\ \A k \in 0..Len(t) : SubSeq(s \o t, 1, Len(s) + k) = s \o SubSeq(t, 1, k)
<1> DEFINE X == Nat \X Nat
<1> HIDE DEF X
<1>1. ASSUME NEW s \in Seq(X), NEW t \in Seq(X)
      PROVE  /\ \A n \in 0..Len(s) : SubSeq(s \o t, 1, n) = SubSeq(s, 1, n)
             /\ \A k \in 0..Len(t) : SubSeq(s \o t, 1, Len(s) + k) = s \o SubSeq(t, 1, k)
  BY ConcatCut
<1>2. QED
  BY <1>1 DEF X

\* The i-th catch form open: where it is, and what is open before it.
CutAt(ds, i) ==
  LET e == Levels(ds)[i]
  IN  /\ e \in Nat \X Nat /\ e[1] < Len(ds) /\ e[2] < ds[e[1] + 1]
      /\ SubSeq(Levels(ds), 1, i - 1) = Levels(Append(SubSeq(ds, 1, e[1]), e[2]))

\* CutAt holds with one activation more,
LEMMA CutGrows ==
  ASSUME NEW ds \in Seq(Nat), NEW x \in Nat, \A i \in 1..Len(Levels(ds)) : CutAt(ds, i)
  PROVE  \A i \in 1..Len(Levels(Append(ds, x))) : CutAt(Append(ds, x), i)
<1> DEFINE n == Len(ds)
           es == Append(ds, x)
           L == Levels(ds)
           v == Level(n + 1, x)
           M == Levels(es)
<1>1. /\ n \in Nat /\ es \in Seq(Nat) /\ Len(es) = n + 1 /\ es[n + 1] = x
      /\ \A i \in 1..n : es[i] = ds[i]
  BY LenProperties, AppendProperties
<1>2. /\ v \in Seq(Nat \X Nat) /\ Len(v) = x /\ \A d \in 1..x : v[d] = <<n, d - 1>>
  <2>1. n + 1 \in Nat \ {0} /\ (n + 1) - 1 = n
    BY <1>1
  <2>2. /\ v \in Seq(Nat \X Nat) /\ Len(v) = x /\ \A d \in 1..x : v[d] = <<(n + 1) - 1, d - 1>>
    BY <2>1, LevelLaws
  <2>3. QED
    BY <2>1, <2>2
<1>3. L \in Seq(Nat \X Nat) /\ Len(L) \in Nat
  BY LevelsLaws, LenProperties
<1>4. M = L \o v
  BY LevelsLaws
<1> HIDE DEF L, v, M
<1>5. /\ M \in Seq(Nat \X Nat) /\ Len(M) = Len(L) + x
      /\ \A i \in 1..(Len(L) + x) : M[i] = IF i <= Len(L) THEN L[i] ELSE v[i - Len(L)]
  BY <1>2, <1>3, <1>4, ConcatProperties
<1>6. SubSeq(es, 1, n) = ds /\ \A p \in 0..n : SubSeq(es, 1, p) = SubSeq(ds, 1, p)
  <2>1. <<x>> \in Seq(Nat) /\ es = ds \o <<x>>
    BY AppendIsConcat
  <2>2. \A p \in 0..n : SubSeq(ds \o <<x>>, 1, p) = SubSeq(ds, 1, p)
    BY <2>1, ConcatCut
  <2>3. SubSeq(ds, 1, n) = ds /\ n \in 0..n
    BY <1>1, SubSeqFull
  <2> HIDE DEF es, n
  <2>4. QED
    BY <2>1, <2>2, <2>3
<1>7. ASSUME NEW i \in 1..Len(M) PROVE CutAt(es, i)
  <2>1. CASE i <= Len(L)
    <3>1. M[i] = L[i] /\ i \in 1..Len(L) /\ i - 1 \in 0..Len(L)
      BY <1>3, <1>5, <2>1
    <3> DEFINE e == L[i]
    <3>2. /\ e \in Nat \X Nat /\ e[1] < n /\ e[2] < ds[e[1] + 1]
          /\ SubSeq(L, 1, i - 1) = Levels(Append(SubSeq(ds, 1, e[1]), e[2]))
      <4>1. CutAt(ds, i)
        BY <3>1 DEF L
      <4>2. QED
        BY <4>1 DEF CutAt, L
    <3> HIDE DEF e
    <3>3. e[1] \in Nat /\ e[1] + 1 \in 1..n /\ e[1] \in 0..n /\ e[1] < Len(es)
      BY SMTT(40), <1>1, <3>2
    <3>4. es[e[1] + 1] = ds[e[1] + 1] /\ SubSeq(es, 1, e[1]) = SubSeq(ds, 1, e[1])
      BY <1>1, <1>6, <3>3
    <3>5. SubSeq(M, 1, i - 1) = SubSeq(L, 1, i - 1)
      <4>1. v \in Seq(Nat \X Nat)
        BY <1>2
      <4>2. L \in Seq(Nat \X Nat)
        BY <1>3
      <4>3. \A k \in 0..Len(L) : SubSeq(L \o v, 1, k) = SubSeq(L, 1, k)
        BY <4>1, <4>2, PairCut
      <4>4. QED
        BY <1>4, <3>1, <4>3
    <3>6. M[i] = e
      BY <3>1 DEF e
    <3> HIDE DEF es, n
    <3>7. QED
      BY <3>2, <3>3, <3>4, <3>5, <3>6 DEF CutAt, M
  <2>2. CASE i > Len(L)
    <3> DEFINE d == i - Len(L)
               e == <<n, d - 1>>
    <3>1. d \in 1..x /\ d - 1 \in Nat /\ d - 1 \in 0..x /\ d - 1 < x /\ i - 1 = Len(L) + (d - 1)
      BY SMTT(30), <1>3, <1>5, <2>2
    <3>2. M[i] = e
      <4>1. ~(i <= Len(L)) /\ i \in 1..(Len(L) + x)
        BY <1>3, <1>5, <2>2
      <4>2. M[i] = v[d]
        BY <1>5, <4>1
      <4> HIDE DEF d
      <4>3. v[d] = <<n, d - 1>>
        BY <1>2, <3>1
      <4>4. QED
        BY <4>2, <4>3
    <3> HIDE DEF d
    <3>3. e \in Nat \X Nat /\ e[1] = n /\ e[2] = d - 1 /\ n < Len(es) /\ d - 1 < es[n + 1]
      BY <1>1, <3>1
    <3>4. SubSeq(M, 1, i - 1) = L \o SubSeq(v, 1, d - 1)
      <4>1. SubSeq(L \o v, 1, Len(L) + (d - 1)) = L \o SubSeq(v, 1, d - 1)
        <5>1. v \in Seq(Nat \X Nat)
          BY <1>2
        <5>2. L \in Seq(Nat \X Nat)
          BY <1>3
        <5>3. \A k \in 0..Len(v) : SubSeq(L \o v, 1, Len(L) + k) = L \o SubSeq(v, 1, k)
          BY <5>1, <5>2, PairCut
        <5>4. d - 1 \in 0..Len(v)
          BY <1>2, <3>1
        <5>5. QED
          BY <5>3, <5>4
      <4>2. QED
        BY <1>4, <3>1, <4>1
    <3>5. SubSeq(v, 1, d - 1) = Level(n + 1, d - 1)
      <4> DEFINE a == SubSeq(v, 1, d - 1)
                 b == Level(n + 1, d - 1)
                 k == d - 1
      <4>1. n + 1 \in Nat \ {0} /\ (n + 1) - 1 = n /\ k \in 0..Len(v) /\ k \in Nat
        BY <1>1, <1>2, <3>1
      <4>2. /\ a \in Seq(Nat \X Nat) /\ Len(a) = k /\ \A j \in 1..k : a[j] = v[j]
        BY SMTT(30), <1>2, <4>1, Cut
      <4>3. /\ b \in Seq(Nat \X Nat) /\ Len(b) = k /\ \A j \in 1..k : b[j] = <<(n + 1) - 1, j - 1>>
        BY <4>1, LevelLaws
      <4>4. \A j \in 1..k : v[j] = <<n, j - 1>>
        BY SMTT(40), <1>2, <3>1
      <4> HIDE DEF a, b, k, n
      <4>5. a = b
        BY <4>1, <4>2, <4>3, <4>4, SeqEqual
      <4>6. QED
        BY <4>5 DEF a, b
    <3>6. Levels(Append(ds, d - 1)) = L \o Level(n + 1, d - 1)
      BY <3>1, LevelsLaws DEF L
    <3>7. Levels(Append(SubSeq(es, 1, n), d - 1)) = SubSeq(M, 1, i - 1)
      BY <1>6, <3>4, <3>5, <3>6
    <3> HIDE DEF es, e, n
    <3>8. QED
      BY <3>2, <3>3, <3>7 DEF CutAt, M
  <2>3. QED
    BY <1>3, <1>5, <2>1, <2>2
<1>8. QED
  BY <1>7 DEF M

\* and so for every catch of every stack: closing it and those inside leaves the levels below.
LEMMA LevelsCut ==
  ASSUME NEW ds \in Seq(Nat)
  PROVE  \A i \in 1..Len(Levels(ds)) : CutAt(ds, i)
<1> DEFINE n == Len(ds)
           Cuts(p) == \A i \in 1..Len(Levels(p)) : CutAt(p, i)
           P == {k \in 0..n : Cuts(SubSeq(ds, 1, k))}
<1>1. n \in Nat
  BY LenProperties
<1>2. \A p \in Seq(Nat), x \in Nat : Cuts(p) => Cuts(Append(p, x))
  BY CutGrows
<1>3. Cuts(<<>>)
  <2>1. Len(Levels(<<>>)) = 0
    BY LevelsLaws, EmptySeq
  <2>2. QED
    BY <2>1
<1> HIDE DEF Cuts
<1>4. 0 \in P
  <2>1. SubSeq(ds, 1, 0) = <<>> /\ 0 \in 0..n
    BY <1>1, SubSeqEmpty
  <2>2. QED
    BY <1>3, <2>1
<1>5. ASSUME NEW k \in 0..n, k \in P, k < n PROVE k + 1 \in P
  <2> DEFINE p == SubSeq(ds, 1, k)
             q == SubSeq(ds, 1, k + 1)
             x == ds[k + 1]
  <2>1. k + 1 \in 0..n /\ k + 1 \in 1..n /\ 1 \in 1..n /\ (k + 1) - 1 = k /\ 1 \in 1..(n + 1)
        /\ k \in (1 - 1)..n
    BY <1>1, <1>5
  <2>2. x \in Nat /\ p \in Seq(Nat)
    BY <2>1, ElementOfSeq, Slice
  <2>3. q = p \o <<x>>
    <3>1. SubSeq(ds, 1, k + 1) = SubSeq(ds, 1, (k + 1) - 1) \o <<ds[k + 1]>>
      BY <2>1, SubSeqRecursiveSecond
    <3>2. QED
      BY <2>1, <3>1
  <2>4. Cuts(p)
    BY <1>5
  <2> HIDE DEF p, x
  <2>5. q = Append(p, x)
    BY <2>2, <2>3, AppendIsConcat
  <2>6. Cuts(q)
    BY <1>2, <2>2, <2>4, <2>5
  <2>7. QED
    BY <2>1, <2>6
<1>6. n \in P
  <2> HIDE DEF P
  <2>1. \A k \in 0..n : k \in P
    BY <1>1, <1>4, <1>5, Climb
  <2>2. QED
    BY <1>1, <2>1
<1>7. SubSeq(ds, 1, n) = ds
  BY SubSeqFull
<1>8. QED
  BY <1>6, <1>7 DEF Cuts

-----------------------------------------------------------------------------
(* The invariant.                                                          *)

Pending == {"ExceptionUnwind", "ContinuationJump"}

\* u is the frame a transfer or a jump has called its thunk from, if there is
\* one, or the place where the next one comes.
TransferOK(m, u) ==
  IF m.transfer = NoTransfer THEN \A i \in DOMAIN m.frames : m.frames[i].kind # "ExceptionUnwind"
  ELSE /\ u >= 1 /\ (u <= Len(m.frames) => m.frames[u].kind = "ExceptionUnwind")
       /\ LandsIn(m.transfer.target, m.frames, m.regs) /\ m.transfer.target.frame_count < u

Stacks(m, u) ==
  /\ m \in VM
  /\ Chain(m.frames, m.regs)
  /\ m.winds = Winds(m.frames)
  /\ \A i \in DOMAIN m.frames : m.frames[i].kind \in Pending <=> i = u
  /\ TransferOK(m, u)
  /\ \A i \in DOMAIN m.catches : LandsIn(m.catches[i], m.frames, m.regs)
  /\ Landings(m) = Levels(Masked(m, u))

ContOK(c) ==
  /\ c \in Cont /\ c.frames # <<>> /\ Front(c.frames) # <<>>
  /\ LET F == Front(c.frames)
         r == Last(c.frames).regs
     IN  /\ Chain(F, r) /\ c.winds = Winds(F)
         /\ \A i \in 0..Len(F) : Above(F, r, i).role \notin ThunkKinds /\ Above(F, r, i).depth = 0

JumpOK(j) ==
  /\ ContOK(j.target)
  /\ \A i \in DOMAIN j.thunks : j.thunks[i].role \in ThunkKinds /\ j.thunks[i].depth = 0

JumpsOK(m) ==
  \A i \in DOMAIN m.frames : m.frames[i].kind = "ContinuationJump" => JumpOK(m.frames[i].extra)

NoCatches(m) ==
  /\ m.transfer = NoTransfer /\ m.catches = <<>>
  /\ \A i \in 0..Len(m.frames) : Above(m.frames, m.regs, i).depth = 0

\* list takes the extents D to those of the target, w.
Leads(D, list, w) ==
  \E p \in 0..Len(D) :
    /\ p <= Len(w) /\ SubSeq(D, 1, p) = SubSeq(w, 1, p)
    /\ Len(list) = (Len(D) - p) + (Len(w) - p)
    /\ \A i \in 1..(Len(D) - p) : list[i] = Run("after", D[Len(D) + 1 - i])
    /\ \A i \in 1..(Len(w) - p) : list[Len(D) - p + i] = Run("before", w[p + i])

\* The extents entered when what frame u has called was called.
Base(m, u, D) ==
  \/ u = 0 /\ D = <<>>
  \/ /\ u \in DOMAIN m.frames /\ m.frames[u].kind = "ExceptionUnwind"
     /\ D = Append(Enters(SubSeq(m.frames, 1, m.transfer.target.frame_count))
                     \o Reverse(m.transfer.thunks),
                   Above(m.frames, m.regs, u).extent)
  \/ /\ u \in DOMAIN m.frames /\ m.frames[u].kind = "ContinuationJump"
     /\ LET now == Above(m.frames, m.regs, u)
        IN  Leads(D, <<Run(now.role, now.extent)>> \o m.frames[u].extra.thunks,
                  m.frames[u].extra.target.winds)

EnteredOK(m, u, e) ==
  \E D \in Seq(Nat) :
    /\ Base(m, u, D)
    /\ e = D \o Enters(SubSeq(m.frames, u + 1, Len(m.frames)))

-----------------------------------------------------------------------------
(* Calling and returning.                                                  *)

\* The parts of the machine.
LEMMA Parts ==
  ASSUME NEW m \in VM
  PROVE  /\ m.regs \in Regs /\ m.frames \in Seq(Frames) /\ m.winds \in Seq(Nat)
         /\ m.catches \in Seq(CatchFrame) /\ m.transfer \in Transfer \cup {NoTransfer}
         /\ Len(m.frames) \in Nat /\ DOMAIN m.frames = 1..Len(m.frames)
         /\ Len(m.catches) \in Nat /\ DOMAIN m.catches = 1..Len(m.catches)
<1>1. /\ m.regs \in Regs /\ m.frames \in Seq(Frames) /\ m.winds \in Seq(Nat)
      /\ m.catches \in Seq(CatchFrame) /\ m.transfer \in Transfer \cup {NoTransfer}
  BY DEF VM
<1>2. /\ Len(m.frames) \in Nat /\ DOMAIN m.frames = 1..Len(m.frames)
  BY <1>1, LenProperties
<1>3. Len(m.catches) \in Nat /\ DOMAIN m.catches = 1..Len(m.catches)
  BY <1>1, LenProperties
<1>4. QED
  BY <1>1, <1>2, <1>3

\* What runs above a frame is a set of registers.
LEMMA AboveType ==
  ASSUME NEW s \in Seq(Frames), NEW top \in Regs, NEW i \in 0..Len(s)
  PROVE  Above(s, top, i) \in Regs
<1>1. CASE i = Len(s)
  BY <1>1, AboveLaws
<1>2. CASE i # Len(s)
  <2>1. Len(s) \in Nat
    BY LenProperties
  <2>2. i + 1 \in 1..Len(s)
    BY <1>2, <2>1
  <2>3. s[i + 1] \in Frames
    BY <2>2, ElementOfSeq
  <2>4. s[i + 1].regs \in Regs
    BY <2>3, FrameFacts
  <2>5. QED
    BY <1>2, <2>4, AboveLaws
<1>3. QED
  BY <1>1, <1>2

\* Masked has a level for each frame and one for what runs.
LEMMA MaskedType ==
  ASSUME NEW m \in VM, NEW u
  PROVE  /\ Masked(m, u) \in Seq(Nat) /\ Len(Masked(m, u)) = Len(m.frames) + 1
         /\ \A j \in 1..(Len(m.frames) + 1) :
              Masked(m, u)[j] =
                IF m.transfer # NoTransfer /\ m.transfer.target.frame_count < j /\ j <= u
                THEN IF j = m.transfer.target.frame_count + 1
                     THEN m.transfer.target.regs.depth ELSE 0
                ELSE Above(m.frames, m.regs, j - 1).depth
<1>1. ASSUME NEW j \in 1..(Len(m.frames) + 1)
      PROVE  Above(m.frames, m.regs, j - 1).depth \in Nat
  <2>1. m.frames \in Seq(Frames) /\ m.regs \in Regs /\ j - 1 \in 0..Len(m.frames)
    BY Parts
  <2>2. Above(m.frames, m.regs, j - 1) \in Regs
    BY <2>1, AboveType
  <2>3. QED
    BY <2>2 DEF Regs
<1>2. m.transfer # NoTransfer => m.transfer.target.regs.depth \in Nat
  BY Parts DEF Transfer, CatchFrame, Regs
<1>3. \A j \in 1..(Len(m.frames) + 1) :
        (IF m.transfer # NoTransfer /\ m.transfer.target.frame_count < j /\ j <= u
         THEN IF j = m.transfer.target.frame_count + 1
              THEN m.transfer.target.regs.depth ELSE 0
         ELSE Above(m.frames, m.regs, j - 1).depth) \in Nat
  BY <1>1, <1>2
<1>4. Len(m.frames) + 1 \in Nat
  BY Parts
<1>5. QED
  BY <1>3, <1>4 DEF Masked

\* A frame more does not move where a catch lands.
LEMMA LandsPush ==
  ASSUME NEW s \in Seq(Frames), NEW f \in Frames, NEW top, NEW cf \in CatchFrame,
         LandsIn(cf, s, f.regs)
  PROVE  LandsIn(cf, Append(s, f), top)
<1> DEFINE t == Append(s, f)
           k == cf.frame_count
<1>1. /\ Len(s) \in Nat /\ t \in Seq(Frames) /\ Len(t) = Len(s) + 1
      /\ t[Len(s) + 1] = f /\ \A i \in 1..Len(s) : t[i] = s[i]
  BY AppendProperties, LenProperties
<1>2. k \in Nat /\ k <= Len(s)
  BY DEF LandsIn, CatchFrame
<1>3. SubSeq(t, 1, k) = SubSeq(s, 1, k)
  <2>1. <<f>> \in Seq(Frames) /\ t = s \o <<f>> /\ k \in 0..Len(s)
    BY <1>1, <1>2, AppendIsConcat
  <2> HIDE DEF t, k
  <2>2. SubSeq(s \o <<f>>, 1, k) = SubSeq(s, 1, k)
    BY <2>1, ConcatCut
  <2>3. QED
    BY <2>1, <2>2
<1> HIDE DEF t
<1>4. Above(t, top, k) = Above(s, f.regs, k)
  <2>1. CASE k = Len(s)
    <3>1. Above(s, f.regs, k) = f.regs
      BY <2>1, AboveLaws
    <3>2. k # Len(t) /\ k + 1 = Len(s) + 1
      BY <1>1, <2>1
    <3>3. Above(t, top, k) = t[k + 1].regs
      BY <3>2, AboveLaws
    <3>4. QED
      BY <1>1, <3>1, <3>2, <3>3
  <2>2. CASE k # Len(s)
    <3>1. k # Len(t) /\ k + 1 \in 1..Len(s)
      BY <1>1, <1>2, <2>2
    <3>2. Above(s, f.regs, k) = s[k + 1].regs /\ Above(t, top, k) = t[k + 1].regs
      BY <2>2, <3>1, AboveLaws
    <3>3. QED
      BY <1>1, <3>1, <3>2
  <2>3. QED
    BY <2>1, <2>2
<1>5. k <= Len(t)
  BY <1>1, <1>2
<1>6. QED
  BY <1>3, <1>4, <1>5 DEF LandsIn, t

\* Back to what waits above frame n: r, but for the forms open in it.
LEMMA LandsCut ==
  ASSUME NEW s \in Seq(Frames), NEW top, NEW n \in 0..Len(s), NEW r,
         r.role = Above(s, top, n).role, r.extent = Above(s, top, n).extent,
         NEW cf \in CatchFrame, LandsIn(cf, s, top), cf.frame_count <= n
  PROVE  LandsIn(cf, SubSeq(s, 1, n), r)
<1> DEFINE t == SubSeq(s, 1, n)
           k == cf.frame_count
<1>1. Len(s) \in Nat /\ t \in Seq(Frames) /\ Len(t) = n /\ \A i \in 1..n : t[i] = s[i]
  BY Cut, LenProperties
<1>2. k \in Nat /\ k <= n /\ n \in Nat /\ k \in 0..n
  BY <1>1 DEF CatchFrame
<1>3. SubSeq(t, 1, k) = SubSeq(s, 1, k)
  <2> DEFINE a == SubSeq(t, 1, k)
             b == SubSeq(s, 1, k)
  <2>0. k \in 0..Len(t) /\ k \in 0..Len(s)
    BY <1>1, <1>2
  <2>1. a \in Seq(Frames) /\ Len(a) = k /\ \A i \in 1..k : a[i] = t[i]
    <3> HIDE DEF t, k
    <3>1. QED
      BY <1>1, <2>0, Cut
  <2>2. b \in Seq(Frames) /\ Len(b) = k /\ \A i \in 1..k : b[i] = s[i]
    <3> HIDE DEF k
    <3>1. QED
      BY <2>0, Cut
  <2>3. \A i \in 1..k : t[i] = s[i]
    BY <1>1, <1>2
  <2> HIDE DEF a, b, t, k
  <2>4. a = b
    BY <2>1, <2>2, <2>3, SeqEqual
  <2>5. QED
    BY <2>4 DEF a, b
<1> HIDE DEF t
<1>4. /\ Above(t, r, k).role = Above(s, top, k).role
      /\ Above(t, r, k).extent = Above(s, top, k).extent
  <2>1. CASE k = n
    <3>1. Above(t, r, k) = r
      BY <1>1, <2>1, AboveLaws
    <3>2. QED
      BY <2>1, <3>1
  <2>2. CASE k # n
    <3>1. k # Len(t) /\ k # Len(s) /\ k + 1 \in 1..n
      BY <1>1, <1>2, <2>2
    <3>2. Above(s, top, k) = s[k + 1].regs /\ Above(t, r, k) = t[k + 1].regs
      BY <3>1, AboveLaws
    <3>3. QED
      BY <1>1, <3>1, <3>2
  <2>3. QED
    BY <2>1, <2>2
<1>5. QED
  BY <1>1, <1>2, <1>3, <1>4 DEF LandsIn, t

\* n is m with frame f pushed; u is where a pending frame is or comes.
Pushes(m, u, f, n) ==
  /\ n \in VM /\ m.frames # <<>> /\ n.frames = Append(m.frames, f) /\ f.regs = m.regs
  /\ f.kind # "Sentinel" /\ Fits(f, n.regs) /\ n.regs.depth = 0
  /\ n.winds = m.winds \o WindOf(f) /\ n.catches = m.catches
  /\ n.transfer = NoTransfer <=> m.transfer = NoTransfer
  /\ m.transfer # NoTransfer => n.transfer.target = m.transfer.target
  /\ u \in 0..(Len(m.frames) + 1)
  /\ f.kind \in Pending <=> u = Len(m.frames) + 1
  /\ u = Len(m.frames) + 1 => (f.kind = "ExceptionUnwind" <=> m.transfer # NoTransfer)

\* Calls keep the stacks in order,
LEMMA PushKeeps ==
  ASSUME NEW m, NEW u \in Nat, NEW f \in Frames, NEW n, Stacks(m, u), Pushes(m, u, f, n)
  PROVE  Stacks(n, u)
<1> DEFINE s == m.frames
           t == n.frames
           k == Len(s)
<1>1. m \in VM /\ n \in VM
  BY DEF Stacks, Pushes
<1>2. /\ m.regs \in Regs /\ s \in Seq(Frames) /\ k \in Nat /\ DOMAIN s = 1..k
      /\ m.transfer \in Transfer \cup {NoTransfer}
      /\ m.catches \in Seq(CatchFrame) /\ DOMAIN m.catches = 1..Len(m.catches)
  BY <1>1, Parts
<1>3. /\ t = Append(s, f) /\ Len(t) = k + 1 /\ DOMAIN t = 1..(k + 1) /\ t[k + 1] = f
      /\ \A i \in 1..k : t[i] = s[i]
  <2>1. t = Append(s, f)
    BY DEF Pushes
  <2>2. Len(t) = k + 1 /\ t[k + 1] = f /\ \A i \in 1..k : t[i] = s[i]
    BY <1>2, <2>1, AppendProperties
  <2>3. DOMAIN t = 1..Len(t)
    BY <1>1, Parts
  <2>4. QED
    BY <2>1, <2>2, <2>3
<1>4. /\ Chain(t, n.regs)
      /\ \A i \in 0..k : Above(t, n.regs, i) = Above(s, m.regs, i)
      /\ Above(t, n.regs, k + 1) = n.regs
  <2> DEFINE top == n.regs
  <2>1. Chain(s, f.regs) /\ Fits(f, top) /\ s # <<>> /\ f.kind # "Sentinel" /\ f.regs = m.regs
    BY DEF Stacks, Pushes
  <2> HIDE DEF s, t, top
  <2>2. /\ Chain(Append(s, f), top)
        /\ \A i \in 0..Len(s) : Above(Append(s, f), top, i) = Above(s, f.regs, i)
        /\ Above(Append(s, f), top, Len(s) + 1) = top
    BY <1>2, <2>1, PushChain
  <2>3. QED
    BY <1>3, <2>1, <2>2 DEF top
<1>5. n.winds = Winds(t)
  <2>1. n.winds = Winds(s) \o WindOf(f)
    BY DEF Stacks, Pushes
  <2>2. Winds(Append(s, f)) = Winds(s) \o WindOf(f)
    BY <1>2, WindsLaws
  <2>3. QED
    BY <1>3, <2>1, <2>2
<1>6. \A i \in DOMAIN t : t[i].kind \in Pending <=> i = u
  <2>1. \A i \in 1..k : s[i].kind \in Pending <=> i = u
    BY <1>2 DEF Stacks
  <2>2. f.kind \in Pending <=> u = k + 1
    BY DEF Pushes
  <2>3. \A i \in 1..(k + 1) : i \in 1..k \/ i = k + 1
    BY <1>2
  <2>4. QED
    BY <1>3, <2>1, <2>2, <2>3
<1>7. \A cf \in CatchFrame : LandsIn(cf, s, m.regs) => LandsIn(cf, t, n.regs)
  <2> DEFINE top == n.regs
  <2>1. f.regs = m.regs
    BY DEF Pushes
  <2> HIDE DEF s, t, top
  <2>2. ASSUME NEW cf \in CatchFrame, LandsIn(cf, s, f.regs) PROVE LandsIn(cf, Append(s, f), top)
    BY <1>2, <2>2, LandsPush
  <2>3. QED
    BY <1>3, <2>1, <2>2 DEF top
<1>8. /\ n.transfer = NoTransfer <=> m.transfer = NoTransfer
      /\ m.transfer # NoTransfer => /\ n.transfer.target = m.transfer.target
                                    /\ m.transfer.target \in CatchFrame
  BY <1>2 DEF Pushes, Transfer
<1>9. TransferOK(n, u)
  <2>1. CASE m.transfer = NoTransfer
    <3>1. \A i \in 1..k : s[i].kind # "ExceptionUnwind"
      BY <1>2, <2>1 DEF Stacks, TransferOK
    <3>2. f.kind # "ExceptionUnwind"
      BY <2>1 DEF Pushes, Pending
    <3>3. \A i \in 1..(k + 1) : i \in 1..k \/ i = k + 1
      BY <1>2
    <3>4. QED
      BY <1>3, <1>8, <2>1, <3>1, <3>2, <3>3 DEF TransferOK
  <2>2. CASE m.transfer # NoTransfer
    <3>1. /\ u >= 1 /\ (u <= k => s[u].kind = "ExceptionUnwind")
          /\ LandsIn(m.transfer.target, s, m.regs) /\ m.transfer.target.frame_count < u
      BY <2>2 DEF Stacks, TransferOK
    <3>2. u = k + 1 => f.kind = "ExceptionUnwind"
      BY <2>2 DEF Pushes
    <3>3. u <= k + 1 => t[u].kind = "ExceptionUnwind"
      <4>1. u <= k + 1 => u \in 1..k \/ u = k + 1
        BY <1>2, <3>1
      <4>2. QED
        BY <1>2, <1>3, <3>1, <3>2, <4>1
    <3>4. QED
      BY <1>3, <1>7, <1>8, <2>2, <3>1, <3>3 DEF TransferOK
  <2>3. QED
    BY <2>1, <2>2
<1>10. n.catches = m.catches /\ \A i \in DOMAIN n.catches : LandsIn(n.catches[i], t, n.regs)
  <2>1. n.catches = m.catches
    BY DEF Pushes
  <2>2. \A i \in 1..Len(m.catches) : m.catches[i] \in CatchFrame /\ LandsIn(m.catches[i], s, m.regs)
    BY <1>2, ElementOfSeq DEF Stacks
  <2>3. QED
    BY <1>2, <1>7, <2>1, <2>2
<1>11. Levels(Masked(n, u)) = Levels(Masked(m, u))
  <2> DEFINE a == Masked(m, u)
             b == Masked(n, u)
             c == Append(a, 0)
             tm == m.transfer
             tn == n.transfer
  <2>1. /\ a \in Seq(Nat) /\ Len(a) = k + 1
        /\ \A j \in 1..(k + 1) :
             a[j] = IF tm # NoTransfer /\ tm.target.frame_count < j /\ j <= u
                    THEN IF j = tm.target.frame_count + 1 THEN tm.target.regs.depth ELSE 0
                    ELSE Above(s, m.regs, j - 1).depth
    BY <1>1, MaskedType
  <2>2. /\ b \in Seq(Nat) /\ Len(b) = k + 2
        /\ \A j \in 1..(k + 2) :
             b[j] = IF tn # NoTransfer /\ tn.target.frame_count < j /\ j <= u
                    THEN IF j = tn.target.frame_count + 1 THEN tn.target.regs.depth ELSE 0
                    ELSE Above(t, n.regs, j - 1).depth
    <3>1. Len(t) + 1 = k + 2
      BY <1>2, <1>3
    <3>2. QED
      BY <1>1, <3>1, MaskedType
  <2>3. /\ tn # NoTransfer <=> tm # NoTransfer
        /\ tm # NoTransfer => tn.target = tm.target
    BY <1>8
  <2> HIDE DEF a, b, tm, tn
  <2>4. c \in Seq(Nat) /\ Len(c) = k + 2 /\ c[k + 2] = 0 /\ \A j \in 1..(k + 1) : c[j] = a[j]
    <3>0. a \in Seq(Nat) /\ 0 \in Nat
      BY <2>1
    <3>1. /\ c \in Seq(Nat) /\ Len(c) = Len(a) + 1 /\ c[Len(a) + 1] = 0
          /\ \A j \in 1..Len(a) : c[j] = a[j]
      BY <3>0, AppendProperties
    <3>2. (k + 1) + 1 = k + 2
      BY <1>2
    <3>3. QED
      BY <2>1, <3>1, <3>2
  <2>5. ASSUME NEW j \in 1..(k + 1) PROVE b[j] = a[j]
    <3>1. j - 1 \in 0..k /\ j \in 1..(k + 2)
      BY <1>2
    <3>2. Above(t, n.regs, j - 1) = Above(s, m.regs, j - 1)
      BY <1>4, <3>1
    <3> HIDE DEF s, t
    <3>3. QED
      BY <2>1, <2>2, <2>3, <3>1, <3>2
  <2>6. b[k + 2] = 0
    <3>1. n.regs.depth = 0 /\ ~(k + 2 <= u) /\ (k + 2) - 1 = k + 1 /\ k + 2 \in 1..(k + 2)
      <4>1. k + 2 \in 1..(k + 2) /\ (k + 2) - 1 = k + 1
        BY <1>2
      <4>2. u <= k + 1
        BY <1>2 DEF Pushes
      <4>3. QED
        BY <1>2, <4>1, <4>2 DEF Pushes
    <3>2. QED
      BY <1>4, <2>2, <3>1
  <2> HIDE DEF c
  <2>7. b = c
    <3>1. \A j \in 1..(k + 2) : j \in 1..(k + 1) \/ j = k + 2
      BY <1>2
    <3>2. \A j \in 1..(k + 2) : b[j] = c[j]
      BY <2>4, <2>5, <2>6, <3>1
    <3>3. Len(b) = Len(c) /\ \A j \in 1..Len(b) : b[j] = c[j]
      BY <2>2, <2>4, <3>2
    <3>4. QED
      BY <2>2, <2>4, <3>3, SeqEqual
  <2>8. Levels(Append(a, 0)) = Levels(a)
    BY <2>1, LevelsZero
  <2>9. QED
    BY <2>7, <2>8 DEF a, b, c
<1>12. Landings(n) = Levels(Masked(n, u))
  <2>1. Landings(n) = Landings(m)
    BY <1>10 DEF Landings
  <2>2. QED
    BY <1>11, <2>1 DEF Stacks
<1>13. QED
  BY <1>1, <1>4, <1>5, <1>6, <1>9, <1>10, <1>12 DEF Stacks

\* Where a catch form lands and what is open before it.
LEMMA LandingCut ==
  ASSUME NEW m, NEW u, Stacks(m, u), NEW i \in 1..Len(m.catches)
  PROVE  LET cf == m.catches[i]
             ds == Masked(m, u)
         IN  /\ cf \in CatchFrame /\ cf.frame_count \in 0..Len(m.frames)
             /\ LandsIn(cf, m.frames, m.regs)
             /\ cf.regs.depth < ds[cf.frame_count + 1]
             /\ SubSeq(Landings(m), 1, i - 1) =
                  Levels(Append(SubSeq(ds, 1, cf.frame_count), cf.regs.depth))
<1> DEFINE cf == m.catches[i]
           ds == Masked(m, u)
           k  == cf.frame_count
           d  == cf.regs.depth
<1>1. m \in VM
  BY DEF Stacks
<1>2. /\ m.catches \in Seq(CatchFrame) /\ DOMAIN m.catches = 1..Len(m.catches)
      /\ Len(m.frames) \in Nat /\ Len(m.catches) \in Nat
  BY <1>1, Parts
<1>3. cf \in CatchFrame /\ LandsIn(cf, m.frames, m.regs)
  BY <1>2, ElementOfSeq DEF Stacks
<1>4. k \in 0..Len(m.frames)
  BY <1>2, <1>3 DEF LandsIn, CatchFrame
<1>5. Landings(m) = Levels(ds) /\ ds \in Seq(Nat) /\ Len(Landings(m)) = Len(m.catches)
      /\ Landings(m)[i] = <<k, d>>
  BY <1>1, <1>2, MaskedType DEF Stacks, Landings
<1> HIDE DEF ds, cf
<1>6. i \in 1..Len(Levels(ds))
  BY <1>5
<1>7. CutAt(ds, i)
  BY <1>5, <1>6, LevelsCut
<1>8. Levels(ds)[i] = <<k, d>> /\ <<k, d>>[1] = k /\ <<k, d>>[2] = d
  BY <1>5
<1>9. d < ds[k + 1] /\ SubSeq(Levels(ds), 1, i - 1) = Levels(Append(SubSeq(ds, 1, k), d))
  BY <1>7, <1>8 DEF CutAt
<1>10. QED
  BY <1>3, <1>4, <1>5, <1>9 DEF ds, cf

\* n is m with its last frame popped.
Pops(m, n) ==
  /\ n \in VM /\ m.frames # <<>> /\ m.regs.depth = 0
  /\ n.frames = Front(m.frames) /\ n.regs = Last(m.frames).regs /\ n.winds = Winds(n.frames)
  /\ n.catches = m.catches /\ n.transfer = m.transfer

\* returns do,
LEMMA PopKeeps ==
  ASSUME NEW m, NEW u \in 0..Len(m.frames), NEW n, Stacks(m, u), Pops(m, n)
  PROVE  Stacks(n, u)
<1> DEFINE s == m.frames
           t == n.frames
           k == Len(t)
<1>1. m \in VM /\ n \in VM
  BY DEF Stacks, Pops
<1>2. /\ m.regs \in Regs /\ s \in Seq(Frames) /\ DOMAIN s = 1..Len(s)
      /\ t \in Seq(Frames) /\ k \in Nat /\ DOMAIN t = 1..k
      /\ m.transfer \in Transfer \cup {NoTransfer}
      /\ m.catches \in Seq(CatchFrame) /\ DOMAIN m.catches = 1..Len(m.catches)
  BY <1>1, Parts
<1>3. /\ s # <<>> /\ m.regs.depth = 0 /\ t = Front(s) /\ n.regs = Last(s).regs
      /\ n.winds = Winds(t) /\ n.catches = m.catches /\ n.transfer = m.transfer
  BY DEF Pops
<1>4. Len(s) = k + 1 /\ t = SubSeq(s, 1, k) /\ \A i \in 1..k : t[i] = s[i]
  <2> HIDE DEF s, t
  <2>1. Len(Front(s)) = Len(s) - 1 /\ Len(s) \in Nat /\ \A i \in 1..(Len(s) - 1) : Front(s)[i] = s[i]
    BY <1>2, <1>3, FrontLast
  <2>2. QED
    BY SMTT(40), <1>2, <1>3, <2>1 DEF Front
<1>5. n.regs = Above(s, m.regs, k)
  <2>1. k # Len(s)
    BY <1>2, <1>4
  <2>2. Above(s, m.regs, k) = s[k + 1].regs
    BY <2>1, AboveLaws
  <2>3. QED
    BY <1>3, <1>4, <2>2 DEF Last
<1>6. Chain(t, n.regs) /\ \A i \in 0..k : Above(t, n.regs, i) = Above(s, m.regs, i)
  <2> DEFINE r == n.regs
             top == m.regs
  <2>1. /\ Chain(s, top) /\ k \in 0..Len(s)
        /\ r.role = Above(s, top, k).role /\ r.extent = Above(s, top, k).extent
    BY <1>2, <1>4, <1>5 DEF Stacks
  <2> HIDE DEF r, top, k, s
  <2>2. /\ Chain(SubSeq(s, 1, k), r)
        /\ \A i \in 0..k : Above(SubSeq(s, 1, k), r, i) = IF i = k THEN r ELSE Above(s, top, i)
    BY <1>2, <2>1, CutChain
  <2>3. QED
    BY <1>4, <1>5, <2>2 DEF r, top
<1>7. ASSUME NEW cf \in CatchFrame, LandsIn(cf, s, m.regs), cf.frame_count <= k
      PROVE  LandsIn(cf, t, n.regs)
  <2> DEFINE r == n.regs
             top == m.regs
  <2>1. /\ k \in 0..Len(s) /\ LandsIn(cf, s, top)
        /\ r.role = Above(s, top, k).role /\ r.extent = Above(s, top, k).extent
    BY <1>2, <1>4, <1>5, <1>7
  <2> HIDE DEF r, top, k, s
  <2>2. LandsIn(cf, SubSeq(s, 1, k), r)
    BY <1>2, <1>7, <2>1, LandsCut
  <2>3. QED
    BY <1>4, <2>2 DEF r
<1>8. \A i \in DOMAIN t : t[i].kind \in Pending <=> i = u
  <2>1. \A i \in 1..Len(s) : s[i].kind \in Pending <=> i = u
    BY <1>2 DEF Stacks
  <2>2. QED
    BY SMTT(40), <1>2, <1>4, <2>1
<1>9. TransferOK(n, u)
  <2>1. CASE m.transfer = NoTransfer
    <3>1. \A i \in 1..Len(s) : s[i].kind # "ExceptionUnwind"
      BY <1>2, <2>1 DEF Stacks, TransferOK
    <3>2. QED
      BY <1>2, <1>3, <1>4, <2>1, <3>1 DEF TransferOK
  <2>2. CASE m.transfer # NoTransfer
    <3>1. /\ u >= 1 /\ (u <= Len(s) => s[u].kind = "ExceptionUnwind")
          /\ LandsIn(m.transfer.target, s, m.regs) /\ m.transfer.target.frame_count < u
      BY <2>2 DEF Stacks, TransferOK
    <3>2. m.transfer.target \in CatchFrame /\ m.transfer.target.frame_count \in Nat
      BY <1>2, <2>2 DEF Transfer, CatchFrame
    <3>3. m.transfer.target.frame_count <= k
      BY <1>2, <1>4, <3>1, <3>2
    <3>4. LandsIn(m.transfer.target, t, n.regs)
      BY <1>7, <3>1, <3>2, <3>3
    <3>5. u <= k => t[u].kind = "ExceptionUnwind"
      BY <1>2, <1>4, <3>1
    <3>6. QED
      BY <1>3, <2>2, <3>1, <3>4, <3>5 DEF TransferOK
  <2>3. QED
    BY <2>1, <2>2
<1> DEFINE a == Masked(n, u)
           b == Masked(m, u)
           c == Append(a, 0)
           tm == m.transfer
<1>10. /\ a \in Seq(Nat) /\ Len(a) = k + 1
       /\ \A j \in 1..(k + 1) :
            a[j] = IF tm # NoTransfer /\ tm.target.frame_count < j /\ j <= u
                   THEN IF j = tm.target.frame_count + 1 THEN tm.target.regs.depth ELSE 0
                   ELSE Above(t, n.regs, j - 1).depth
  <2>1. n \in VM
    BY <1>1
  <2>2. /\ a \in Seq(Nat) /\ Len(a) = Len(n.frames) + 1
        /\ \A j \in 1..(Len(n.frames) + 1) :
             a[j] = IF n.transfer # NoTransfer /\ n.transfer.target.frame_count < j /\ j <= u
                    THEN IF j = n.transfer.target.frame_count + 1
                         THEN n.transfer.target.regs.depth ELSE 0
                    ELSE Above(n.frames, n.regs, j - 1).depth
    BY <2>1, MaskedType
  <2>3. n.transfer = tm /\ n.frames = t
    BY <1>3
  <2> HIDE DEF a, tm
  <2>4. QED
    BY <2>2, <2>3
<1>11. /\ b \in Seq(Nat) /\ Len(b) = k + 2
       /\ \A j \in 1..(k + 2) :
            b[j] = IF tm # NoTransfer /\ tm.target.frame_count < j /\ j <= u
                   THEN IF j = tm.target.frame_count + 1 THEN tm.target.regs.depth ELSE 0
                   ELSE Above(s, m.regs, j - 1).depth
  <2>1. m \in VM
    BY <1>1
  <2>2. /\ b \in Seq(Nat) /\ Len(b) = Len(s) + 1
        /\ \A j \in 1..(Len(s) + 1) :
             b[j] = IF tm # NoTransfer /\ tm.target.frame_count < j /\ j <= u
                    THEN IF j = tm.target.frame_count + 1 THEN tm.target.regs.depth ELSE 0
                    ELSE Above(s, m.regs, j - 1).depth
    BY <2>1, MaskedType
  <2>3. Len(s) + 1 = k + 2
    BY <1>2, <1>4
  <2> HIDE DEF b, tm
  <2>4. QED
    BY <2>2, <2>3
<1> HIDE DEF a, b, tm
<1>12. b[k + 2] = 0
  <2>1. k + 2 \in 1..(k + 2) /\ (k + 2) - 1 = k + 1 /\ ~(k + 2 <= u)
    BY <1>2, <1>4
  <2>2. Above(s, m.regs, k + 1) = m.regs
    BY <1>4, AboveLaws
  <2>3. QED
    BY <1>3, <1>11, <2>1, <2>2
<1>13. b = c
  <2>1. c \in Seq(Nat) /\ Len(c) = k + 2 /\ c[k + 2] = 0 /\ \A j \in 1..(k + 1) : c[j] = a[j]
    <3>0. a \in Seq(Nat) /\ 0 \in Nat
      BY <1>10
    <3>1. /\ c \in Seq(Nat) /\ Len(c) = Len(a) + 1 /\ c[Len(a) + 1] = 0
          /\ \A j \in 1..Len(a) : c[j] = a[j]
      BY <3>0, AppendProperties
    <3>2. (k + 1) + 1 = k + 2
      BY <1>2
    <3>3. QED
      BY <1>10, <3>1, <3>2
  <2>2. ASSUME NEW j \in 1..(k + 1) PROVE b[j] = a[j]
    <3>1. j - 1 \in 0..k /\ j \in 1..(k + 2)
      BY <1>2
    <3>2. Above(t, n.regs, j - 1) = Above(s, m.regs, j - 1)
      BY <1>6, <3>1
    <3> HIDE DEF s, t
    <3>3. QED
      BY <1>10, <1>11, <3>1, <3>2
  <2> HIDE DEF c
  <2>3. \A j \in 1..(k + 2) : j \in 1..(k + 1) \/ j = k + 2
    BY <1>2
  <2>4. \A j \in 1..(k + 2) : b[j] = c[j]
    BY <1>12, <2>1, <2>2, <2>3
  <2>5. Len(b) = Len(c) /\ \A j \in 1..Len(b) : b[j] = c[j]
    BY <1>11, <2>1, <2>4
  <2>6. QED
    BY <1>11, <2>1, <2>5, SeqEqual
<1>14. Landings(n) = Levels(a)
  <2>1. Levels(b) = Levels(a)
    BY <1>10, <1>13, LevelsZero
  <2>2. Landings(n) = Landings(m)
    BY <1>3 DEF Landings
  <2>3. QED
    BY <2>1, <2>2 DEF Stacks, b
<1>15. ASSUME NEW i \in DOMAIN n.catches PROVE LandsIn(n.catches[i], t, n.regs)
  <2> DEFINE cf == m.catches[i]
  <2>1. i \in 1..Len(m.catches)
    BY <1>2, <1>3
  <2>2. /\ cf \in CatchFrame /\ cf.frame_count \in 0..Len(s) /\ LandsIn(cf, s, m.regs)
        /\ cf.regs.depth < b[cf.frame_count + 1]
    BY <2>1, LandingCut DEF b
  <2>3. cf.frame_count # k + 1
    <3>1. CASE cf.frame_count = k + 1
      <4>1. cf.frame_count + 1 = k + 2 /\ cf.regs.depth \in Nat
        BY <1>2, <2>2, <3>1 DEF CatchFrame, Regs
      <4>2. QED
        BY SMTT(40), <1>12, <2>2, <4>1
    <3>2. QED
      BY <3>1
  <2>4. cf.frame_count <= k
    BY <1>2, <1>4, <2>2, <2>3
  <2>5. QED
    BY <1>3, <1>7, <2>2, <2>4
<1>16. QED
  BY <1>1, <1>3, <1>6, <1>8, <1>9, <1>14, <1>15 DEF Stacks, a

-----------------------------------------------------------------------------
(* Landing.                                                                *)

\* n is m back at catch frame cf.
Lands(m, cf, n) ==
  /\ n \in VM /\ cf \in CatchFrame /\ LandsIn(cf, m.frames, m.regs)
  /\ n.frames = SubSeq(m.frames, 1, cf.frame_count) /\ n.regs = cf.regs
  /\ n.winds = SubSeq(m.winds, 1, cf.wind_count)

\* What is left of the frames when a raise lands.
LEMMA LandFacts ==
  ASSUME NEW m, NEW u, NEW cf, NEW n, Stacks(m, u), Lands(m, cf, n)
  PROVE  LET k == cf.frame_count
         IN  /\ k \in Nat /\ k <= Len(m.frames) /\ Len(n.frames) = k
             /\ \A i \in 1..k : n.frames[i] = m.frames[i]
             /\ Chain(n.frames, n.regs)
             /\ \A i \in 0..k : Above(n.frames, n.regs, i) =
                                  IF i = k THEN n.regs ELSE Above(m.frames, m.regs, i)
             /\ n.winds = Winds(n.frames)
             /\ \A cg \in CatchFrame : LandsIn(cg, m.frames, m.regs) /\ cg.frame_count <= k
                                         => LandsIn(cg, n.frames, n.regs)
<1> DEFINE s == m.frames
           t == n.frames
           k == cf.frame_count
           r == n.regs
           top == m.regs
<1>1. m \in VM /\ n \in VM /\ cf \in CatchFrame
  BY DEF Stacks, Lands
<1>2. s \in Seq(Frames) /\ Len(s) \in Nat /\ m.winds = Winds(s)
  BY <1>1, Parts DEF Stacks
<1>3. /\ t = SubSeq(s, 1, k) /\ r = cf.regs /\ n.winds = SubSeq(m.winds, 1, cf.wind_count)
      /\ k <= Len(s) /\ cf.wind_count = Len(Winds(t))
      /\ r.role = Above(s, top, k).role /\ r.extent = Above(s, top, k).extent
  BY DEF Lands, LandsIn
<1>4. k \in Nat /\ k \in 0..Len(s)
  BY <1>1, <1>2, <1>3 DEF CatchFrame
<1>5. Chain(s, top)
  BY DEF Stacks
<1> HIDE DEF s, t, k, r, top
<1>6. Len(t) = k /\ (\A i \in 1..k : t[i] = s[i]) /\ t \in Seq(Frames)
  BY <1>2, <1>3, <1>4, Cut
<1>7. Chain(t, r) /\ \A i \in 0..k : Above(t, r, i) = IF i = k THEN r ELSE Above(s, top, i)
  BY <1>2, <1>3, <1>4, <1>5, CutChain
<1>8. ASSUME NEW cg \in CatchFrame, LandsIn(cg, s, top), cg.frame_count <= k
      PROVE  LandsIn(cg, t, r)
  <2>1. LandsIn(cg, SubSeq(s, 1, k), r)
    BY <1>2, <1>3, <1>4, <1>8, LandsCut
  <2>2. QED
    BY <1>3, <2>1
<1>9. n.winds = Winds(t)
  <2> DEFINE a == Winds(t)
             b == Winds(SubSeq(s, k + 1, Len(s)))
  <2>1. SubSeq(s, k + 1, Len(s)) \in Seq(Frames)
    BY <1>2, <1>4, Cut
  <2>2. a \in Seq(Nat) /\ b \in Seq(Nat)
    BY <1>6, <2>1, WindsLaws
  <2>3. Winds(s) = a \o b
    BY <1>2, <1>3, <1>4, WindsSplit
  <2> HIDE DEF a, b
  <2>4. Len(a) \in 0..Len(a)
    BY <2>2, LenProperties
  <2>5. SubSeq(a \o b, 1, Len(a)) = SubSeq(a, 1, Len(a))
    BY <2>2, <2>4, ConcatCut
  <2>6. SubSeq(a, 1, Len(a)) = a
    BY <2>2, SubSeqFull
  <2>7. QED
    BY <1>2, <1>3, <2>3, <2>5, <2>6 DEF a
<1>10. QED
  BY <1>3, <1>4, <1>6, <1>7, <1>8, <1>9 DEF s, t, k, r, top

\* The catch forms open land inside the frames.
LEMMA LandingBound ==
  ASSUME NEW m \in VM, NEW ds \in Seq(Nat), Landings(m) = Levels(ds), NEW i \in 1..Len(m.catches)
  PROVE  m.catches[i].frame_count + 1 <= Len(ds)
<1> DEFINE k == m.catches[i].frame_count
           d == m.catches[i].regs.depth
<1>1. DOMAIN m.catches = 1..Len(m.catches) /\ Len(m.catches) \in Nat /\ m.catches[i] \in CatchFrame
  BY Parts, ElementOfSeq
<1>2. Len(Landings(m)) = Len(m.catches) /\ Landings(m)[i] = <<k, d>>
  BY <1>1 DEF Landings
<1>3. k \in Nat
  BY <1>1 DEF CatchFrame
<1> HIDE DEF k, d
<1>4. CutAt(ds, i) /\ Levels(ds)[i] = <<k, d>>
  BY <1>2, LevelsCut
<1>5. k < Len(ds)
  BY <1>4 DEF CutAt
<1>6. Len(ds) \in Nat
  BY LenProperties
<1>7. QED
  BY <1>3, <1>5, <1>6 DEF k

\* The catch forms below the i-th.
LEMMA FirstCatches ==
  ASSUME NEW m \in VM, NEW n \in VM, NEW i \in 1..Len(m.catches),
         n.catches = SubSeq(m.catches, 1, i - 1)
  PROVE  /\ Len(n.catches) = i - 1 /\ DOMAIN n.catches = 1..(i - 1)
         /\ \A j \in 1..(i - 1) : j \in 1..Len(m.catches) /\ n.catches[j] = m.catches[j]
         /\ Landings(n) = SubSeq(Landings(m), 1, i - 1)
<1> DEFINE cs == m.catches
           ls == Landings(m)
           a  == SubSeq(ls, 1, i - 1)
           b  == Landings(n)
<1>1. /\ cs \in Seq(CatchFrame) /\ Len(cs) \in Nat /\ i - 1 \in 0..Len(cs)
      /\ DOMAIN cs = 1..Len(cs) /\ DOMAIN n.catches = 1..Len(n.catches)
  BY Parts
<1>2. Len(n.catches) = i - 1 /\ \A j \in 1..(i - 1) : n.catches[j] = cs[j]
  BY <1>1, Cut
<1>3. \A j \in 1..(i - 1) : j \in 1..Len(cs)
  BY <1>1
<1>4. ls \in Seq(Nat \X Nat) /\ Len(ls) = Len(cs)
      /\ \A j \in 1..Len(cs) : ls[j] = <<cs[j].frame_count, cs[j].regs.depth>>
  <2>1. \A j \in 1..Len(cs) : cs[j] \in CatchFrame
    BY <1>1, ElementOfSeq
  <2>2. \A j \in 1..Len(cs) : <<cs[j].frame_count, cs[j].regs.depth>> \in Nat \X Nat
    BY <2>1 DEF CatchFrame, Regs
  <2>3. QED
    BY <1>1, <2>2 DEF Landings
<1>5. /\ b \in Seq(Nat \X Nat) /\ Len(b) = i - 1
      /\ \A j \in 1..(i - 1) : b[j] = <<cs[j].frame_count, cs[j].regs.depth>>
  <2>1. \A j \in 1..(i - 1) : cs[j] \in CatchFrame
    BY <1>1, <1>3, ElementOfSeq
  <2>2. \A j \in 1..(i - 1) : <<cs[j].frame_count, cs[j].regs.depth>> \in Nat \X Nat
    BY <2>1 DEF CatchFrame, Regs
  <2>3. i - 1 \in Nat
    BY <1>1
  <2>4. QED
    BY <1>1, <1>2, <2>2, <2>3 DEF Landings
<1> HIDE DEF ls, cs
<1>6. a \in Seq(Nat \X Nat) /\ Len(a) = i - 1 /\ \A j \in 1..(i - 1) : a[j] = ls[j]
  BY <1>1, <1>4, Cut
<1> HIDE DEF a, b
<1>7. \A j \in 1..(i - 1) : a[j] = b[j]
  BY <1>3, <1>4, <1>5, <1>6
<1>8. a = b
  BY <1>5, <1>6, <1>7, SeqEqual
<1>9. QED
  BY <1>1, <1>2, <1>3, <1>8 DEF a, b, ls, cs

\* A raise that lands at once: the transfer under way, if any, is below.
LandsAt(m, u, i, n) ==
  /\ i \in 1..Len(m.catches) /\ Lands(m, m.catches[i], n)
  /\ n.catches = SubSeq(m.catches, 1, i - 1) /\ n.transfer = m.transfer
  /\ u \in 0..m.catches[i].frame_count

\* so does a raise that lands at once,
LEMMA LandKeeps ==
  ASSUME NEW m, NEW u, NEW i, NEW n, Stacks(m, u), LandsAt(m, u, i, n)
  PROVE  Stacks(n, u)
<1> DEFINE cf == m.catches[i]
           k == cf.frame_count
           d == cf.regs.depth
           tm == m.transfer
           a == Masked(m, u)
           b == Masked(n, u)
           p == SubSeq(a, 1, k)
           c == Append(p, d)
<1>1. m \in VM /\ n \in VM /\ i \in 1..Len(m.catches) /\ n.transfer = tm /\ u \in 0..k
      /\ Lands(m, cf, n) /\ n.catches = SubSeq(m.catches, 1, i - 1)
  BY DEF Stacks, LandsAt, Lands
<1>2. /\ k \in Nat /\ k <= Len(m.frames) /\ Len(n.frames) = k
      /\ \A j \in 1..k : n.frames[j] = m.frames[j]
      /\ Chain(n.frames, n.regs)
      /\ \A j \in 0..k : Above(n.frames, n.regs, j) =
                           IF j = k THEN n.regs ELSE Above(m.frames, m.regs, j)
      /\ n.winds = Winds(n.frames)
      /\ \A cg \in CatchFrame : LandsIn(cg, m.frames, m.regs) /\ cg.frame_count <= k
                                  => LandsIn(cg, n.frames, n.regs)
  <2> HIDE DEF cf
  <2>1. QED
    BY <1>1, LandFacts
<1>3. /\ DOMAIN m.frames = 1..Len(m.frames) /\ DOMAIN n.frames = 1..k /\ Len(m.frames) \in Nat
      /\ n.regs = cf.regs /\ d \in Nat /\ tm \in Transfer \cup {NoTransfer}
  BY <1>1, <1>2, Parts DEF Lands, CatchFrame, Regs
<1>4. \A j \in DOMAIN n.frames : n.frames[j].kind \in Pending <=> j = u
  <2>1. \A j \in 1..Len(m.frames) : m.frames[j].kind \in Pending <=> j = u
    BY <1>3 DEF Stacks
  <2>2. \A j \in 1..k : j \in 1..Len(m.frames)
    BY <1>2, <1>3
  <2>3. QED
    BY <1>2, <1>3, <2>1, <2>2
<1>5. TransferOK(n, u)
  <2>1. CASE tm = NoTransfer
    <3>1. \A j \in 1..Len(m.frames) : m.frames[j].kind # "ExceptionUnwind"
      BY <1>3, <2>1 DEF Stacks, TransferOK
    <3>2. \A j \in 1..k : j \in 1..Len(m.frames)
      BY <1>2, <1>3
    <3>3. QED
      BY <1>1, <1>2, <1>3, <2>1, <3>1, <3>2 DEF TransferOK
  <2>2. CASE tm # NoTransfer
    <3>1. /\ u >= 1 /\ (u <= Len(m.frames) => m.frames[u].kind = "ExceptionUnwind")
          /\ LandsIn(tm.target, m.frames, m.regs) /\ tm.target.frame_count < u
      BY <2>2 DEF Stacks, TransferOK
    <3>2. tm.target \in CatchFrame /\ tm.target.frame_count \in Nat
      BY <1>3, <2>2 DEF Transfer, CatchFrame
    <3>3. u \in 1..k /\ u <= Len(m.frames) /\ tm.target.frame_count <= k
      BY SMTT(40), <1>1, <1>2, <1>3, <3>1, <3>2
    <3>4. LandsIn(tm.target, n.frames, n.regs) /\ n.frames[u] = m.frames[u]
      BY <1>2, <3>1, <3>2, <3>3
    <3>5. QED
      BY <1>1, <2>2, <3>1, <3>3, <3>4 DEF TransferOK
  <2>3. QED
    BY <2>1, <2>2
<1>6. /\ a \in Seq(Nat) /\ Len(a) = Len(m.frames) + 1
      /\ \A j \in 1..(Len(m.frames) + 1) :
           a[j] = IF tm # NoTransfer /\ tm.target.frame_count < j /\ j <= u
                  THEN IF j = tm.target.frame_count + 1 THEN tm.target.regs.depth ELSE 0
                  ELSE Above(m.frames, m.regs, j - 1).depth
  BY <1>1, MaskedType
<1>7. /\ b \in Seq(Nat) /\ Len(b) = k + 1
      /\ \A j \in 1..(k + 1) :
           b[j] = IF tm # NoTransfer /\ tm.target.frame_count < j /\ j <= u
                  THEN IF j = tm.target.frame_count + 1 THEN tm.target.regs.depth ELSE 0
                  ELSE Above(n.frames, n.regs, j - 1).depth
  <2>1. n \in VM /\ Len(n.frames) + 1 = k + 1 /\ n.transfer = tm
    BY <1>1, <1>2
  <2>2. QED
    BY SMTT(40), <2>1, MaskedType
<1>8. SubSeq(Landings(m), 1, i - 1) = Levels(c)
  BY <1>1, LandingCut
<1> HIDE DEF a, b, k, d, tm
<1>9. p \in Seq(Nat) /\ Len(p) = k /\ \A j \in 1..k : p[j] = a[j]
  <2>1. k \in 0..Len(a)
    BY <1>2, <1>3, <1>6
  <2>2. QED
    BY <1>6, <2>1, Cut
<1> HIDE DEF p
<1>10. /\ c \in Seq(Nat) /\ Len(c) = k + 1 /\ c[k + 1] = d /\ \A j \in 1..k : c[j] = p[j]
  <2>1. /\ c \in Seq(Nat) /\ Len(c) = Len(p) + 1 /\ c[Len(p) + 1] = d
        /\ \A j \in 1..Len(p) : c[j] = p[j]
    BY <1>3, <1>9, AppendProperties
  <2>2. QED
    BY <1>9, <2>1
<1>11. b = c
  <2>1. ASSUME NEW j \in 1..k PROVE b[j] = a[j]
    <3>1. j \in 1..(k + 1) /\ j \in 1..(Len(m.frames) + 1) /\ j - 1 \in 0..k /\ j - 1 # k
      BY <1>2, <1>3
    <3>2. Above(n.frames, n.regs, j - 1) = Above(m.frames, m.regs, j - 1)
      BY <1>2, <3>1
    <3>3. QED
      BY <1>6, <1>7, <3>1, <3>2
  <2>2. b[k + 1] = d
    <3>1. k + 1 \in 1..(k + 1) /\ (k + 1) - 1 = k /\ ~(k + 1 <= u) /\ k \in 0..k
      BY <1>1, <1>2
    <3>2. Above(n.frames, n.regs, k) = cf.regs
      BY <1>2, <1>3, <3>1
    <3>3. QED
      BY <1>7, <3>1, <3>2 DEF d
  <2>3. \A j \in 1..(k + 1) : j \in 1..k \/ j = k + 1
    BY <1>2
  <2> HIDE DEF c
  <2>4. Len(b) = Len(c) /\ \A j \in 1..Len(b) : b[j] = c[j]
    BY <1>7, <1>9, <1>10, <2>1, <2>2, <2>3
  <2>5. QED
    BY <1>7, <1>10, <2>4, SeqEqual
<1>12. /\ Len(n.catches) = i - 1 /\ DOMAIN n.catches = 1..(i - 1)
       /\ \A j \in 1..(i - 1) : j \in 1..Len(m.catches) /\ n.catches[j] = m.catches[j]
       /\ Landings(n) = SubSeq(Landings(m), 1, i - 1)
  <2>1. m \in VM /\ n \in VM /\ i \in 1..Len(m.catches) /\ n.catches = SubSeq(m.catches, 1, i - 1)
    BY <1>1
  <2>2. QED
    BY <2>1, FirstCatches
<1>13. Landings(n) = Levels(b)
  BY <1>8, <1>11, <1>12
<1>14. ASSUME NEW j \in DOMAIN n.catches PROVE LandsIn(n.catches[j], n.frames, n.regs)
  <2>1. j \in 1..Len(n.catches) /\ j \in 1..Len(m.catches) /\ n.catches[j] = m.catches[j]
    BY <1>12
  <2>2. m.catches[j] \in CatchFrame /\ LandsIn(m.catches[j], m.frames, m.regs)
    BY <2>1, LandingCut
  <2>3. n.catches[j].frame_count + 1 <= Len(b)
    BY <1>1, <1>7, <1>13, <2>1, LandingBound
  <2>4. m.catches[j].frame_count <= k
    BY <1>2, <1>7, <2>1, <2>2, <2>3 DEF CatchFrame
  <2>5. QED
    BY <1>2, <2>1, <2>2, <2>4
<1>15. QED
  BY <1>1, <1>2, <1>4, <1>5, <1>13, <1>14 DEF Stacks, b

\* A transfer that has called its last thunk lands.
LandsTransfer(m, u, n) ==
  /\ m.transfer # NoTransfer /\ u = Len(m.frames) + 1 /\ Lands(m, m.transfer.target, n)
  /\ n.catches = m.catches /\ n.transfer = NoTransfer

\* one that lands after the last thunk,
LEMMA TransferLands ==
  ASSUME NEW m, NEW u, NEW n, Stacks(m, u), LandsTransfer(m, u, n)
  PROVE  Stacks(n, 0)
<1> DEFINE cf == m.transfer.target
           k == cf.frame_count
           d == cf.regs.depth
           l == Len(m.frames)
           a == Masked(m, u)
           b == Masked(n, 0)
           p == SubSeq(a, 1, k + 1)
<1>1. m \in VM /\ n \in VM /\ n.transfer = NoTransfer /\ m.transfer # NoTransfer /\ u = l + 1
      /\ Lands(m, cf, n) /\ n.catches = m.catches
  BY DEF Stacks, LandsTransfer, Lands
<1>2. /\ k \in Nat /\ k <= l /\ Len(n.frames) = k
      /\ \A j \in 1..k : n.frames[j] = m.frames[j]
      /\ Chain(n.frames, n.regs)
      /\ \A j \in 0..k : Above(n.frames, n.regs, j) =
                           IF j = k THEN n.regs ELSE Above(m.frames, m.regs, j)
      /\ n.winds = Winds(n.frames)
      /\ \A cg \in CatchFrame : LandsIn(cg, m.frames, m.regs) /\ cg.frame_count <= k
                                  => LandsIn(cg, n.frames, n.regs)
  <2> HIDE DEF cf
  <2>1. QED
    BY <1>1, LandFacts
<1>3. /\ DOMAIN m.frames = 1..l /\ DOMAIN n.frames = 1..k /\ l \in Nat
      /\ n.regs = cf.regs
      /\ DOMAIN m.catches = 1..Len(m.catches)
  BY <1>1, <1>2, Parts DEF Lands
<1>4. \A j \in 1..k : n.frames[j].kind \notin Pending /\ j # 0
  <2>1. \A j \in 1..l : m.frames[j].kind \in Pending <=> j = u
    BY <1>3 DEF Stacks
  <2>2. \A j \in 1..k : j \in 1..l /\ j # u /\ j # 0
    BY <1>1, <1>2, <1>3
  <2>3. QED
    BY <1>2, <2>1, <2>2
<1>5. TransferOK(n, 0)
  BY <1>1, <1>3, <1>4 DEF TransferOK, Pending
<1>6. /\ a \in Seq(Nat) /\ Len(a) = l + 1
      /\ \A j \in 1..(l + 1) :
           a[j] = IF k < j /\ j <= u THEN IF j = k + 1 THEN d ELSE 0
                  ELSE Above(m.frames, m.regs, j - 1).depth
  BY <1>1, MaskedType
<1>7. /\ b \in Seq(Nat) /\ Len(b) = k + 1
      /\ \A j \in 1..(k + 1) : b[j] = Above(n.frames, n.regs, j - 1).depth
  BY SMTT(40), <1>1, <1>2, MaskedType
<1> HIDE DEF a, b, k, d, l
<1>8. /\ k + 1 \in 0..Len(a) /\ \A j \in (k + 1 + 1)..Len(a) : a[j] = 0
  <2>1. k + 1 \in 0..Len(a)
    BY <1>2, <1>3, <1>6
  <2>2. ASSUME NEW j \in (k + 1 + 1)..Len(a) PROVE a[j] = 0
    <3>1. j \in 1..(l + 1) /\ k < j /\ j <= u /\ j # k + 1
      BY <1>1, <1>2, <1>3, <1>6
    <3>2. QED
      BY <1>6, <3>1
  <2>3. QED
    BY <2>1, <2>2
<1>9. Levels(a) = Levels(p)
  <2> DEFINE x == k + 1
  <2>1. x \in 0..Len(a) /\ \A j \in (x + 1)..Len(a) : a[j] = 0
    BY <1>8
  <2> HIDE DEF x
  <2>2. Levels(a) = Levels(SubSeq(a, 1, x))
    BY <1>6, <2>1, LevelsZeros
  <2>3. QED
    BY <2>2 DEF x
<1>10. p \in Seq(Nat) /\ Len(p) = k + 1 /\ \A j \in 1..(k + 1) : p[j] = a[j]
  <2> DEFINE x == k + 1
  <2>1. x \in 0..Len(a)
    BY <1>8
  <2> HIDE DEF x
  <2>2. /\ SubSeq(a, 1, x) \in Seq(Nat) /\ Len(SubSeq(a, 1, x)) = x
        /\ \A j \in 1..x : SubSeq(a, 1, x)[j] = a[j]
    BY <1>6, <2>1, Cut
  <2>3. QED
    BY <2>2 DEF x
<1> HIDE DEF p
<1>11. p = b
  <2>1. ASSUME NEW j \in 1..(k + 1) PROVE a[j] = b[j]
    <3>1. j \in 1..(l + 1) /\ j - 1 \in 0..k
      BY <1>2, <1>3
    <3>2. CASE j = k + 1
      <4>1. k < j /\ j <= u /\ j - 1 = k
        BY <1>1, <1>2, <1>3, <3>2
      <4>2. Above(n.frames, n.regs, j - 1) = cf.regs
        BY <1>2, <1>3, <3>1, <4>1
      <4>3. QED
        BY <1>6, <1>7, <3>1, <3>2, <4>1, <4>2 DEF d
    <3>3. CASE j # k + 1
      <4>1. ~(k < j) /\ j - 1 # k
        BY <1>2, <3>3
      <4>2. Above(n.frames, n.regs, j - 1) = Above(m.frames, m.regs, j - 1)
        BY <1>2, <3>1, <4>1
      <4>3. QED
        BY <1>6, <1>7, <3>1, <4>1, <4>2
    <3>4. QED
      BY <3>2, <3>3
  <2>2. Len(p) = Len(b) /\ \A j \in 1..Len(p) : p[j] = b[j]
    BY <1>7, <1>10, <2>1
  <2>3. QED
    BY <1>7, <1>10, <2>2, SeqEqual
<1>12. Landings(n) = Levels(b)
  <2>1. Landings(n) = Landings(m)
    BY <1>1 DEF Landings
  <2>2. Landings(m) = Levels(a)
    BY DEF Stacks, a
  <2>3. QED
    BY <1>9, <1>11, <2>1, <2>2
<1>13. ASSUME NEW j \in DOMAIN n.catches PROVE LandsIn(n.catches[j], n.frames, n.regs)
  <2>1. j \in 1..Len(n.catches) /\ j \in 1..Len(m.catches) /\ n.catches[j] = m.catches[j]
    BY <1>1, <1>3
  <2>2. m.catches[j] \in CatchFrame /\ LandsIn(m.catches[j], m.frames, m.regs)
    BY <2>1, LandingCut
  <2>3. n.catches[j].frame_count + 1 <= Len(b)
    BY <1>1, <1>7, <1>12, <2>1, LandingBound
  <2>4. m.catches[j].frame_count <= k
    BY <1>2, <1>7, <2>1, <2>2, <2>3 DEF CatchFrame
  <2>5. QED
    BY <1>2, <2>1, <2>2, <2>4
<1>14. \A j \in DOMAIN n.frames : n.frames[j].kind \in Pending <=> j = 0
  BY <1>3, <1>4
<1>15. QED
  BY <1>1, <1>2, <1>5, <1>12, <1>13, <1>14 DEF Stacks, b

\* A transfer starts: its first thunk comes next.
StartsTransfer(m, i, n) ==
  /\ i \in 1..Len(m.catches) /\ m.transfer = NoTransfer /\ n \in VM
  /\ n.frames = m.frames /\ n.regs = m.regs /\ n.winds = m.winds
  /\ n.catches = SubSeq(m.catches, 1, i - 1)
  /\ n.transfer # NoTransfer /\ n.transfer.target = m.catches[i]

\* one that has thunks to run first: the frame to come is the pending one,
LEMMA TransferStarts ==
  ASSUME NEW m, NEW i, NEW n, Stacks(m, 0), StartsTransfer(m, i, n)
  PROVE  Stacks(n, Len(n.frames) + 1)
<1> DEFINE cf == m.catches[i]
           k == cf.frame_count
           d == cf.regs.depth
           l == Len(m.frames)
           u == l + 1
           a == Masked(m, 0)
           b == Masked(n, u)
           p == SubSeq(a, 1, k)
           c == Append(p, d)
           q == SubSeq(b, 1, k + 1)
<1>1. /\ m \in VM /\ n \in VM /\ i \in 1..Len(m.catches) /\ m.transfer = NoTransfer
      /\ n.transfer # NoTransfer /\ n.transfer.target = cf
      /\ n.frames = m.frames /\ n.regs = m.regs /\ n.winds = m.winds
      /\ n.catches = SubSeq(m.catches, 1, i - 1)
  BY DEF Stacks, StartsTransfer
<1>2. /\ cf \in CatchFrame /\ k \in 0..l /\ LandsIn(cf, m.frames, m.regs)
      /\ SubSeq(Landings(m), 1, i - 1) = Levels(c)
  BY <1>1, LandingCut
<1>3. DOMAIN m.frames = 1..l /\ l \in Nat /\ k \in Nat /\ k <= l /\ d \in Nat
  BY SMTT(30), <1>1, <1>2, Parts DEF CatchFrame, Regs
<1>4. \A j \in 1..l : m.frames[j].kind \notin Pending /\ j # u
  <2>1. \A j \in 1..l : m.frames[j].kind \in Pending <=> j = 0
    BY <1>3 DEF Stacks
  <2>2. \A j \in 1..l : j # 0 /\ j # u
    BY <1>3
  <2>3. QED
    BY <2>1, <2>2
<1>5. TransferOK(n, u)
  <2>1. u >= 1 /\ ~(u <= l) /\ k < u
    BY <1>3
  <2>2. QED
    BY <1>1, <1>2, <2>1 DEF TransferOK
<1>6. /\ a \in Seq(Nat) /\ Len(a) = l + 1
      /\ \A j \in 1..(l + 1) : a[j] = Above(m.frames, m.regs, j - 1).depth
  <2>1. m \in VM /\ m.transfer = NoTransfer
    BY <1>1
  <2>2. QED
    BY <2>1, MaskedType
<1>7. /\ b \in Seq(Nat) /\ Len(b) = l + 1
      /\ \A j \in 1..(l + 1) :
           b[j] = IF k < j /\ j <= u THEN IF j = k + 1 THEN d ELSE 0
                  ELSE Above(m.frames, m.regs, j - 1).depth
  <2>1. n \in VM
    BY <1>1
  <2>2. /\ b \in Seq(Nat) /\ Len(b) = Len(n.frames) + 1
        /\ \A j \in 1..(Len(n.frames) + 1) :
             b[j] = IF n.transfer # NoTransfer /\ n.transfer.target.frame_count < j /\ j <= u
                    THEN IF j = n.transfer.target.frame_count + 1
                         THEN n.transfer.target.regs.depth ELSE 0
                    ELSE Above(n.frames, n.regs, j - 1).depth
    BY <2>1, MaskedType
  <2>3. /\ n.transfer # NoTransfer /\ n.transfer.target = cf
        /\ n.frames = m.frames /\ n.regs = m.regs
    BY <1>1
  <2> HIDE DEF b
  <2>4. QED
    BY <2>2, <2>3
<1> HIDE DEF a, b, k, d, l
<1>8. /\ p \in Seq(Nat) /\ Len(p) = k /\ \A j \in 1..k : p[j] = a[j]
  <2>1. k \in 0..Len(a)
    BY <1>3, <1>6
  <2>2. QED
    BY <1>6, <2>1, Cut
<1> HIDE DEF p
<1>9. /\ c \in Seq(Nat) /\ Len(c) = k + 1 /\ c[k + 1] = d /\ \A j \in 1..k : c[j] = p[j]
  <2>1. /\ c \in Seq(Nat) /\ Len(c) = Len(p) + 1 /\ c[Len(p) + 1] = d
        /\ \A j \in 1..Len(p) : c[j] = p[j]
    BY <1>3, <1>8, AppendProperties
  <2>2. QED
    BY <1>8, <2>1
<1>10. /\ Levels(b) = Levels(q) /\ q \in Seq(Nat) /\ Len(q) = k + 1
       /\ \A j \in 1..(k + 1) : q[j] = b[j]
  <2> DEFINE x == k + 1
  <2>1. x \in 0..Len(b) /\ \A j \in (x + 1)..Len(b) : b[j] = 0
    <3>1. x \in 0..Len(b)
      BY <1>3, <1>7
    <3>2. ASSUME NEW j \in (x + 1)..Len(b) PROVE b[j] = 0
      <4>1. j \in 1..(l + 1) /\ k < j /\ j <= u /\ j # k + 1
        BY <1>3, <1>7
      <4>2. QED
        BY <1>7, <4>1
    <3>3. QED
      BY <3>1, <3>2
  <2> HIDE DEF x
  <2>2. Levels(b) = Levels(SubSeq(b, 1, x))
    BY <1>7, <2>1, LevelsZeros
  <2>3. /\ SubSeq(b, 1, x) \in Seq(Nat) /\ Len(SubSeq(b, 1, x)) = x
        /\ \A j \in 1..x : SubSeq(b, 1, x)[j] = b[j]
    BY <1>7, <2>1, Cut
  <2>4. QED
    BY <2>2, <2>3 DEF x
<1> HIDE DEF q, c
<1>11. q = c
  <2>1. ASSUME NEW j \in 1..(k + 1) PROVE b[j] = c[j]
    <3>1. j \in 1..(l + 1) /\ j <= u
      BY <1>3
    <3>2. CASE j = k + 1
      <4>1. k < j
        BY <1>3, <3>2
      <4>2. QED
        BY <1>7, <1>9, <3>1, <3>2, <4>1
    <3>3. CASE j # k + 1
      <4>1. ~(k < j) /\ j \in 1..k
        BY <1>3, <3>3
      <4>2. QED
        BY <1>6, <1>7, <1>8, <1>9, <3>1, <4>1
    <3>4. QED
      BY <3>2, <3>3
  <2>2. Len(q) = Len(c) /\ \A j \in 1..Len(q) : q[j] = c[j]
    BY <1>9, <1>10, <2>1
  <2>3. QED
    BY <1>9, <1>10, <2>2, SeqEqual
<1>12. /\ Len(n.catches) = i - 1 /\ DOMAIN n.catches = 1..(i - 1)
       /\ \A j \in 1..(i - 1) : j \in 1..Len(m.catches) /\ n.catches[j] = m.catches[j]
       /\ Landings(n) = SubSeq(Landings(m), 1, i - 1)
  <2>1. m \in VM /\ n \in VM /\ i \in 1..Len(m.catches) /\ n.catches = SubSeq(m.catches, 1, i - 1)
    BY <1>1
  <2>2. QED
    BY <2>1, FirstCatches
<1>13. Landings(n) = Levels(b)
  BY <1>2, <1>10, <1>11, <1>12
<1>14. ASSUME NEW j \in DOMAIN n.catches PROVE LandsIn(n.catches[j], n.frames, n.regs)
  <2>1. j \in 1..Len(m.catches) /\ n.catches[j] = m.catches[j]
    BY <1>12
  <2>2. LandsIn(m.catches[j], m.frames, m.regs)
    BY <2>1, LandingCut
  <2>3. QED
    BY <1>1, <2>1, <2>2
<1>15. /\ Chain(n.frames, n.regs) /\ n.winds = Winds(n.frames)
       /\ \A j \in DOMAIN n.frames : n.frames[j].kind \in Pending <=> j = u
  BY <1>1, <1>3, <1>4 DEF Stacks
<1>16. Stacks(n, u)
  BY <1>1, <1>5, <1>13, <1>14, <1>15 DEF Stacks, b
<1>17. QED
  BY <1>1, <1>16 DEF l

-----------------------------------------------------------------------------
(* Opening and closing a catch form.                                       *)

\* Only the forms open in what runs differ.
SameButDepth(m, u, n) ==
  /\ u \in 0..Len(m.frames) /\ n \in VM
  /\ n.frames = m.frames /\ n.winds = m.winds /\ n.transfer = m.transfer
  /\ n.regs.role = m.regs.role /\ n.regs.extent = m.regs.extent

\* A catch opened or closed in what runs changes the last level only.
LEMMA DepthKeeps ==
  ASSUME NEW m, NEW u, NEW n, Stacks(m, u), SameButDepth(m, u, n)
  PROVE  /\ Chain(n.frames, n.regs) /\ n.winds = Winds(n.frames)
         /\ \A i \in DOMAIN n.frames : n.frames[i].kind \in Pending <=> i = u
         /\ \A cf \in CatchFrame : LandsIn(cf, m.frames, m.regs) => LandsIn(cf, n.frames, n.regs)
         /\ TransferOK(n, u)
         /\ \E p \in Seq(Nat) : /\ Len(p) = Len(m.frames)
                                /\ Masked(m, u) = Append(p, m.regs.depth)
                                /\ Masked(n, u) = Append(p, n.regs.depth)
<1> DEFINE s == m.frames
           l == Len(s)
           r == n.regs
           top == m.regs
           tm == m.transfer
<1>1. /\ m \in VM /\ n \in VM /\ n.frames = s /\ n.winds = m.winds /\ n.transfer = tm
      /\ r.role = top.role /\ r.extent = top.extent /\ u \in 0..l
  BY DEF Stacks, SameButDepth
<1>2. /\ s \in Seq(Frames) /\ l \in Nat /\ DOMAIN s = 1..l
      /\ tm \in Transfer \cup {NoTransfer} /\ top \in Regs /\ r \in Regs
  BY <1>1, Parts
<1>3. l \in 0..l /\ SubSeq(s, 1, l) = s /\ Above(s, top, l) = top
  BY <1>2, SubSeqFull, AboveLaws
<1>4. Chain(s, top) /\ r.role = Above(s, top, l).role /\ r.extent = Above(s, top, l).extent
  BY <1>1, <1>3 DEF Stacks
<1> HIDE DEF s, r, top
<1>5. Chain(s, r) /\ \A i \in 0..l : Above(s, r, i) = IF i = l THEN r ELSE Above(s, top, i)
  <2>1. l \in 0..Len(s)
    BY <1>3
  <2> HIDE DEF l
  <2>2. /\ Chain(SubSeq(s, 1, l), r)
        /\ \A i \in 0..l : Above(SubSeq(s, 1, l), r, i) = IF i = l THEN r ELSE Above(s, top, i)
    BY <1>2, <1>4, <2>1, CutChain
  <2>3. QED
    BY <1>3, <2>2
<1>6. ASSUME NEW cf \in CatchFrame, LandsIn(cf, s, top) PROVE LandsIn(cf, s, r)
  <2>1. l \in 0..Len(s) /\ cf.frame_count <= l
    BY <1>3, <1>6 DEF LandsIn
  <2> HIDE DEF l
  <2>2. LandsIn(cf, SubSeq(s, 1, l), r)
    BY <1>2, <1>4, <1>6, <2>1, LandsCut
  <2>3. QED
    BY <1>3, <2>2
<1>7. TransferOK(n, u)
  <2>1. TransferOK(m, u)
    BY DEF Stacks
  <2>2. CASE tm = NoTransfer
    BY <1>1, <2>1, <2>2 DEF TransferOK, s
  <2>3. CASE tm # NoTransfer
    <3>1. tm.target \in CatchFrame
      BY <1>2, <2>3 DEF Transfer
    <3>2. LandsIn(tm.target, s, top)
      BY <2>1, <2>3 DEF TransferOK, s, top
    <3>3. LandsIn(tm.target, s, r)
      BY <1>6, <3>1, <3>2
    <3>4. QED
      BY <1>1, <2>1, <2>3, <3>3 DEF TransferOK, s, r
  <2>4. QED
    BY <2>2, <2>3
<1>8. n.winds = Winds(s) /\ \A i \in DOMAIN s : s[i].kind \in Pending <=> i = u
  BY <1>1 DEF Stacks, s
<1> DEFINE a == Masked(m, u)
           b == Masked(n, u)
           p == SubSeq(a, 1, l)
           x == Append(p, top.depth)
           y == Append(p, r.depth)
<1>9. /\ a \in Seq(Nat) /\ Len(a) = l + 1
      /\ \A j \in 1..(l + 1) :
           a[j] = IF tm # NoTransfer /\ tm.target.frame_count < j /\ j <= u
                  THEN IF j = tm.target.frame_count + 1 THEN tm.target.regs.depth ELSE 0
                  ELSE Above(s, top, j - 1).depth
  BY <1>1, MaskedType DEF s, top
<1>10. /\ b \in Seq(Nat) /\ Len(b) = l + 1
       /\ \A j \in 1..(l + 1) :
            b[j] = IF tm # NoTransfer /\ tm.target.frame_count < j /\ j <= u
                   THEN IF j = tm.target.frame_count + 1 THEN tm.target.regs.depth ELSE 0
                   ELSE Above(s, r, j - 1).depth
  <2>1. n \in VM /\ n.frames = m.frames /\ n.transfer = tm
    BY <1>1 DEF s
  <2>2. QED
    BY SMTT(30), <2>1, MaskedType DEF s, r
<1> HIDE DEF a, b, l, tm
<1>11. p \in Seq(Nat) /\ Len(p) = l /\ \A j \in 1..l : p[j] = a[j]
  <2>1. l \in 0..Len(a)
    BY <1>2, <1>9
  <2>2. QED
    BY <1>9, <2>1, Cut
<1> HIDE DEF p
<1>12. top.depth \in Nat /\ r.depth \in Nat
  BY <1>2 DEF Regs
<1>13. /\ x \in Seq(Nat) /\ Len(x) = l + 1 /\ x[l + 1] = top.depth /\ \A j \in 1..l : x[j] = p[j]
  <2>1. /\ x \in Seq(Nat) /\ Len(x) = Len(p) + 1 /\ x[Len(p) + 1] = top.depth
        /\ \A j \in 1..Len(p) : x[j] = p[j]
    BY <1>11, <1>12, AppendProperties
  <2>2. QED
    BY <1>11, <2>1
<1>14. /\ y \in Seq(Nat) /\ Len(y) = l + 1 /\ y[l + 1] = r.depth /\ \A j \in 1..l : y[j] = p[j]
  <2>1. /\ y \in Seq(Nat) /\ Len(y) = Len(p) + 1 /\ y[Len(p) + 1] = r.depth
        /\ \A j \in 1..Len(p) : y[j] = p[j]
    BY <1>11, <1>12, AppendProperties
  <2>2. QED
    BY <1>11, <2>1
<1> HIDE DEF x, y
<1>15. /\ \A j \in 1..l : b[j] = a[j]
       /\ a[l + 1] = top.depth /\ b[l + 1] = r.depth
  <2>1. ASSUME NEW j \in 1..l PROVE b[j] = a[j]
    <3>1. j \in 1..(l + 1) /\ j - 1 \in 0..l /\ j - 1 # l
      BY <1>2
    <3>2. Above(s, r, j - 1) = Above(s, top, j - 1)
      BY <1>5, <3>1
    <3>3. QED
      BY <1>9, <1>10, <3>1, <3>2
  <2>2. l + 1 \in 1..(l + 1) /\ (l + 1) - 1 = l /\ ~(l + 1 <= u) /\ l \in 0..l
    BY <1>1, <1>2
  <2>3. Above(s, r, l) = r
    BY <1>5, <2>2
  <2>4. a[l + 1] = top.depth
    BY <1>3, <1>9, <2>2
  <2>5. b[l + 1] = r.depth
    BY <1>10, <2>2, <2>3
  <2>6. QED
    BY <2>1, <2>4, <2>5
<1>16. a = x /\ b = y
  <2>1. \A j \in 1..(l + 1) : j \in 1..l \/ j = l + 1
    BY <1>2
  <2>2. Len(a) = Len(x) /\ \A j \in 1..Len(a) : a[j] = x[j]
    BY <1>9, <1>11, <1>13, <1>15, <2>1
  <2>3. Len(b) = Len(y) /\ \A j \in 1..Len(b) : b[j] = y[j]
    BY <1>10, <1>11, <1>14, <1>15, <2>1
  <2>4. a = x
    BY <1>9, <1>13, <2>2, SeqEqual
  <2>5. b = y
    BY <1>10, <1>14, <2>3, SeqEqual
  <2>6. QED
    BY <2>4, <2>5
<1>17. \E pre \in Seq(Nat) : Len(pre) = l /\ a = Append(pre, top.depth) /\ b = Append(pre, r.depth)
  BY <1>11, <1>16 DEF x, y
<1>18. QED
  BY <1>1, <1>5, <1>6, <1>7, <1>8, <1>17 DEF s, r, top, l, a, b

CatchOpens(m, u, cf, n) ==
  /\ SameButDepth(m, u, n) /\ n.regs.depth = m.regs.depth + 1
  /\ cf \in CatchFrame /\ cf.regs = m.regs /\ cf.frame_count = Len(m.frames)
  /\ cf.wind_count = Len(m.winds) /\ n.catches = Append(m.catches, cf)

\* SetupCatch,
LEMMA OpenKeeps ==
  ASSUME NEW m, NEW u, NEW cf, NEW n, Stacks(m, u), CatchOpens(m, u, cf, n)
  PROVE  Stacks(n, u)
<1> DEFINE l == Len(m.frames)
           d == m.regs.depth
           k == Len(m.catches)
           e == <<l, d>>
           x == Landings(m)
           y == Landings(n)
           z == Append(x, e)
<1>1. /\ SameButDepth(m, u, n) /\ n.regs.depth = d + 1
      /\ cf \in CatchFrame /\ cf.regs = m.regs /\ cf.frame_count = l
      /\ cf.wind_count = Len(m.winds) /\ n.catches = Append(m.catches, cf)
      /\ m \in VM /\ n \in VM
  BY DEF Stacks, CatchOpens, SameButDepth
<1>2. /\ Chain(n.frames, n.regs) /\ n.winds = Winds(n.frames)
      /\ \A i \in DOMAIN n.frames : n.frames[i].kind \in Pending <=> i = u
      /\ \A cg \in CatchFrame : LandsIn(cg, m.frames, m.regs) => LandsIn(cg, n.frames, n.regs)
      /\ TransferOK(n, u)
  BY <1>1, DepthKeeps
<1>3. PICK p \in Seq(Nat) : /\ Len(p) = l /\ Masked(m, u) = Append(p, d)
                            /\ Masked(n, u) = Append(p, n.regs.depth)
  BY <1>1, DepthKeeps
<1>4. /\ m.catches \in Seq(CatchFrame) /\ k \in Nat /\ DOMAIN m.catches = 1..k
      /\ l \in Nat /\ d \in Nat /\ m.frames \in Seq(Frames) /\ m.winds = Winds(m.frames)
      /\ DOMAIN n.catches = 1..Len(n.catches)
  BY <1>1, Parts DEF Regs, Stacks
<1>5. /\ Len(n.catches) = k + 1 /\ n.catches[k + 1] = cf
      /\ \A i \in 1..k : n.catches[i] = m.catches[i]
  BY <1>1, <1>4, AppendProperties
<1>6. LandsIn(cf, m.frames, m.regs)
  <2>1. SubSeq(m.frames, 1, l) = m.frames /\ Above(m.frames, m.regs, l) = m.regs
    BY <1>4, SubSeqFull, AboveLaws
  <2>2. l <= l
    BY <1>4
  <2>3. QED
    BY <1>1, <1>4, <2>1, <2>2 DEF LandsIn
<1>7. ASSUME NEW i \in DOMAIN n.catches PROVE LandsIn(n.catches[i], n.frames, n.regs)
  <2>1. i \in 1..k \/ i = k + 1
    BY <1>4, <1>5
  <2>2. CASE i \in 1..k
    <3>1. m.catches[i] \in CatchFrame /\ LandsIn(m.catches[i], m.frames, m.regs)
      BY <2>2, LandingCut
    <3>2. QED
      BY <1>2, <1>5, <2>2, <3>1
  <2>3. CASE i = k + 1
    BY <1>1, <1>2, <1>5, <1>6, <2>3
  <2>4. QED
    BY <2>1, <2>2, <2>3
<1>8. /\ x \in Seq(Nat \X Nat) /\ Len(x) = k
      /\ \A i \in 1..k : x[i] = <<m.catches[i].frame_count, m.catches[i].regs.depth>>
  <2>1. \A i \in 1..k : m.catches[i] \in CatchFrame
    BY <1>4, ElementOfSeq
  <2>2. \A i \in 1..k : <<m.catches[i].frame_count, m.catches[i].regs.depth>> \in Nat \X Nat
    BY <2>1 DEF CatchFrame, Regs
  <2>3. QED
    BY <1>4, <2>2 DEF Landings
<1>9. /\ Len(y) = k + 1 /\ y \in Seq(Nat \X Nat)
      /\ \A i \in 1..(k + 1) : y[i] = <<n.catches[i].frame_count, n.catches[i].regs.depth>>
  <2>1. n.catches \in Seq(CatchFrame)
    BY <1>1, Parts
  <2>2. \A i \in 1..(k + 1) : n.catches[i] \in CatchFrame
    BY <1>5, <2>1, ElementOfSeq
  <2>3. \A i \in 1..(k + 1) : <<n.catches[i].frame_count, n.catches[i].regs.depth>> \in Nat \X Nat
    BY <2>2 DEF CatchFrame, Regs
  <2>4. k + 1 \in Nat /\ DOMAIN n.catches = 1..(k + 1)
    BY <1>4, <1>5
  <2>5. QED
    BY <2>3, <2>4 DEF Landings
<1>10. y = z
  <2>0. e \in Nat \X Nat /\ k \in Nat
    BY <1>4
  <2> HIDE DEF x, y, e
  <2>1. z \in Seq(Nat \X Nat) /\ Len(z) = k + 1 /\ z[k + 1] = e /\ \A i \in 1..k : z[i] = x[i]
    <3>1. /\ z \in Seq(Nat \X Nat) /\ Len(z) = Len(x) + 1 /\ z[Len(x) + 1] = e
          /\ \A i \in 1..Len(x) : z[i] = x[i]
      BY <1>8, <2>0, AppendProperties
    <3>2. QED
      BY <1>8, <3>1
  <2> HIDE DEF z
  <2>2. ASSUME NEW i \in 1..(k + 1) PROVE y[i] = z[i]
    <3> HIDE DEF k
    <3>1. i \in 1..k \/ i = k + 1
      BY <2>0
    <3>2. CASE i \in 1..k
      <4>1. n.catches[i] = m.catches[i] /\ z[i] = x[i]
        BY <1>5, <2>1, <3>2
      <4>2. x[i] = <<m.catches[i].frame_count, m.catches[i].regs.depth>>
        BY <1>8, <3>2
      <4>3. y[i] = <<n.catches[i].frame_count, n.catches[i].regs.depth>>
        BY <1>9
      <4>4. QED
        BY <4>1, <4>2, <4>3
    <3>3. CASE i = k + 1
      BY <1>1, <1>5, <1>9, <2>1, <3>3 DEF e
    <3>4. QED
      BY <3>1, <3>2, <3>3
  <2>3. Len(y) = Len(z) /\ \A i \in 1..Len(y) : y[i] = z[i]
    BY <1>9, <2>1, <2>2
  <2>4. QED
    BY <1>9, <2>1, <2>3, SeqEqual
<1>11. Levels(Masked(n, u)) = Append(Levels(Masked(m, u)), e)
  <2>1. Levels(Append(p, d + 1)) = Append(Levels(Append(p, d)), <<Len(p), d>>)
    BY <1>4, LevelsOpen
  <2>2. QED
    BY <1>1, <1>3, <2>1
<1>12. Landings(n) = Levels(Masked(n, u))
  BY <1>10, <1>11 DEF Stacks
<1>13. QED
  BY <1>1, <1>2, <1>7, <1>12 DEF Stacks

CatchCloses(m, u, n) ==
  /\ SameButDepth(m, u, n) /\ m.regs.depth > 0 /\ n.regs.depth = m.regs.depth - 1
  /\ n.catches = IF m.catches = <<>> THEN <<>> ELSE Front(m.catches)

\* and PopCatch.
LEMMA CloseKeeps ==
  ASSUME NEW m, NEW u, NEW n, Stacks(m, u), CatchCloses(m, u, n)
  PROVE  Stacks(n, u)
<1> DEFINE d == n.regs.depth
           k == Len(m.catches)
           x == Landings(m)
           q == Levels(Masked(n, u))
           X == Nat \X Nat
<1>1. /\ SameButDepth(m, u, n) /\ m.regs.depth > 0 /\ d = m.regs.depth - 1
      /\ m \in VM /\ n \in VM /\ x = Levels(Masked(m, u))
  BY DEF Stacks, CatchCloses, SameButDepth
<1>2. /\ Chain(n.frames, n.regs) /\ n.winds = Winds(n.frames)
      /\ \A i \in DOMAIN n.frames : n.frames[i].kind \in Pending <=> i = u
      /\ \A cg \in CatchFrame : LandsIn(cg, m.frames, m.regs) => LandsIn(cg, n.frames, n.regs)
      /\ TransferOK(n, u)
  BY <1>1, DepthKeeps
<1>3. PICK p \in Seq(Nat) : /\ Len(p) = Len(m.frames) /\ Masked(m, u) = Append(p, m.regs.depth)
                            /\ Masked(n, u) = Append(p, d)
  BY <1>1, DepthKeeps
<1>4. /\ m.catches \in Seq(CatchFrame) /\ k \in Nat /\ DOMAIN m.catches = 1..k
      /\ d \in Nat /\ d + 1 = m.regs.depth /\ Len(m.frames) \in Nat
  BY <1>1, Parts DEF Regs
<1>5. x = Append(q, <<Len(p), d>>)
  <2>1. Levels(Append(p, d + 1)) = Append(Levels(Append(p, d)), <<Len(p), d>>)
    BY <1>4, LevelsOpen
  <2>2. QED
    BY <1>1, <1>3, <1>4, <2>1
<1>6. q \in Seq(X) /\ <<Len(p), d>> \in X /\ Len(x) = k
  <2>1. Masked(n, u) \in Seq(Nat)
    BY <1>1, MaskedType
  <2>2. q \in Seq(X)
    BY <2>1, LevelsLaws
  <2>3. QED
    BY <1>3, <1>4, <2>2 DEF Landings
<1> DEFINE e == <<Len(p), d>>
           f == SubSeq(x, 1, k - 1)
<1> HIDE DEF x, q, X, e
<1>7. x \in Seq(X) /\ Len(x) = Len(q) + 1 /\ \A i \in 1..Len(q) : x[i] = q[i]
  <2>1. q \in Seq(X) /\ e \in X /\ x = Append(q, e)
    BY <1>5, <1>6 DEF e
  <2>2. QED
    BY <2>1, AppendProperties
<1>8. Len(q) = k - 1 /\ k - 1 \in 0..Len(x) /\ k \in 1..k
  <2>1. Len(q) \in Nat
    BY <1>6, LenProperties
  <2>2. QED
    BY <1>4, <1>6, <1>7, <2>1
<1>9. f = q
  <2>1. f \in Seq(X) /\ Len(f) = k - 1 /\ \A i \in 1..(k - 1) : f[i] = x[i]
    BY <1>7, <1>8, Cut
  <2> HIDE DEF f, k
  <2>2. Len(f) = Len(q) /\ \A i \in 1..Len(f) : f[i] = q[i]
    BY <1>7, <1>8, <2>1
  <2>3. QED
    BY <1>6, <2>1, <2>2, SeqEqual
<1>10. n.catches = SubSeq(m.catches, 1, k - 1)
  <2>1. m.catches # <<>>
    BY <1>8, EmptySeq
  <2>2. QED
    BY <2>1 DEF CatchCloses, Front
<1>11. /\ DOMAIN n.catches = 1..(k - 1)
       /\ \A j \in 1..(k - 1) : j \in 1..Len(m.catches) /\ n.catches[j] = m.catches[j]
       /\ Landings(n) = SubSeq(Landings(m), 1, k - 1)
  <2>1. k \in 1..Len(m.catches)
    BY <1>8
  <2> HIDE DEF k
  <2>2. QED
    BY <1>1, <1>10, <2>1, FirstCatches
<1>12. Landings(n) = Levels(Masked(n, u))
  BY <1>9, <1>11 DEF x, q
<1>13. ASSUME NEW i \in DOMAIN n.catches PROVE LandsIn(n.catches[i], n.frames, n.regs)
  <2>1. i \in 1..Len(m.catches) /\ n.catches[i] = m.catches[i]
    BY <1>11
  <2>2. m.catches[i] \in CatchFrame /\ LandsIn(m.catches[i], m.frames, m.regs)
    BY <2>1, LandingCut
  <2>3. QED
    BY <1>2, <2>1, <2>2
<1>14. QED
  BY <1>1, <1>2, <1>12, <1>13 DEF Stacks

-----------------------------------------------------------------------------
(* Continuations.                                                          *)

\* Front and Last of an Append,
LEMMA FrontAppend ==
  ASSUME NEW X, NEW s \in Seq(X), NEW e \in X
  PROVE  Front(Append(s, e)) = s /\ Last(Append(s, e)) = e
<1> DEFINE t == Append(s, e)
<1>1. t \in Seq(X) /\ t # <<>>
  BY AppendProperties
<1> HIDE DEF t
<1>2. Front(t) \in Seq(X) /\ Last(t) \in X /\ t = Append(Front(t), Last(t))
  BY <1>1, FrontLast
<1>3. Append(Front(t), Last(t)) = Append(s, e)
  BY <1>2 DEF t
<1>4. Front(t) = s /\ Last(t) = e
  BY <1>2, <1>3, AppendInjective
<1>5. QED
  BY <1>4 DEF t

\* and of a concatenation.
LEMMA FrontConcat ==
  ASSUME NEW X, NEW s \in Seq(X), NEW t \in Seq(X), t # <<>>
  PROVE  Front(s \o t) = s \o Front(t) /\ Last(s \o t) = Last(t)
<1> DEFINE f == Front(t)
           e == Last(t)
<1>1. f \in Seq(X) /\ e \in X /\ t = Append(f, e)
  BY FrontLast
<1> HIDE DEF f, e
<1>2. s \o t = Append(s \o f, e)
  BY <1>1, ConcatAppend
<1>3. s \o f \in Seq(X)
  BY <1>1, ConcatProperties
<1>4. Front(Append(s \o f, e)) = s \o f /\ Last(Append(s \o f, e)) = e
  BY <1>1, <1>3, FrontAppend
<1>5. QED
  BY <1>2, <1>4 DEF f, e

\* The last sentinel, or none.
LEMMA MaxOrZero ==
  ASSUME NEW n \in Nat, NEW S \in SUBSET (1..n)
  PROVE  LET z == Max(S \cup {0})
         IN  z \in S \cup {0} /\ z \in 0..n /\ \A i \in S : i <= z
<1>1. \E x \in S \cup {0} : \A y \in S \cup {0} : x >= y
  <2>1. CASE S = {}
    BY <2>1
  <2>2. CASE S # {}
    <3>1. Max(S) \in S /\ \A i \in S : i <= Max(S)
      BY <2>2, Extremes
    <3>2. \A y \in S \cup {0} : y \in Nat
      OBVIOUS
    <3>3. \A x \in S : (\A i \in S : i <= x) => \A y \in S \cup {0} : x >= y
      BY <3>2
    <3>4. QED
      BY <3>1, <3>3, Zenon
  <2>3. QED
    BY <2>1, <2>2
<1> DEFINE z == Max(S \cup {0})
<1>2. z \in S \cup {0} /\ \A y \in S \cup {0} : z >= y
  BY <1>1 DEF Max
<1> HIDE DEF z
<1>3. z \in S \cup {0} /\ z \in 0..n /\ \A i \in S : i <= z
  BY <1>2
<1>4. QED
  BY <1>3 DEF z

\* Where two winding stacks part.
LEMMA CommonLaws ==
  ASSUME NEW v \in Seq(Nat), NEW w \in Seq(Nat)
  PROVE  LET p == Len(LongestCommonPrefix({v, w}))
         IN  p \in 0..Len(v) /\ p <= Len(w) /\ SubSeq(v, 1, p) = SubSeq(w, 1, p)
<1> DEFINE C == CommonPrefixes({v, w})
           Lens == {n \in 0..Len(v) : n <= Len(w) /\ SubSeq(v, 1, n) = SubSeq(w, 1, n)}
<1>1. Len(v) \in Nat /\ Len(w) \in Nat
  BY LenProperties
<1>2. ASSUME NEW s \in C
      PROVE  Len(s) \in Lens /\ s = SubSeq(v, 1, Len(s))
  <2>1. IsPrefix(s, v) /\ IsPrefix(s, w) /\ s \in Prefixes(v) \cup Prefixes(w)
    BY DEF CommonPrefixes
  <2>2. Len(s) \in Nat /\ SubSeq(s, 1, Len(s)) = s
    <3>1. \A x \in Seq(Nat), l \in Nat : l \in 0..Len(x) => SubSeq(x, 1, l) \in Seq(Nat)
      BY Cut
    <3>2. s \in Seq(Nat)
      <4>1. CASE s \in Prefixes(v)
        <5>1. PICK l \in 0..Len(v) : s = SubSeq(v, 1, l)
          BY <4>1 DEF Prefixes
        <5>2. QED
          BY <1>1, <3>1, <5>1
      <4>2. CASE s \in Prefixes(w)
        <5>1. PICK l \in 0..Len(w) : s = SubSeq(w, 1, l)
          BY <4>2 DEF Prefixes
        <5>2. QED
          BY <1>1, <3>1, <5>1
      <4>3. QED
        BY <2>1, <4>1, <4>2
    <3>3. QED
      BY <3>2, LenProperties, SubSeqFull
  <2>3. Len(s) <= Len(v) /\ Len(s) <= Len(w) /\ s = SubSeq(v, 1, Len(s)) /\ s = SubSeq(w, 1, Len(s))
    BY <2>1, <2>2 DEF IsPrefix
  <2>4. QED
    BY <1>1, <2>2, <2>3
<1>3. ASSUME NEW n \in Lens PROVE \E s \in C : Len(s) = n
  <2> DEFINE s == SubSeq(v, 1, n)
  <2>1. n \in 0..Len(v) /\ n <= Len(w) /\ s = SubSeq(w, 1, n)
    OBVIOUS
  <2>2. s \in Seq(Nat) /\ Len(s) = n
    BY <2>1, Cut
  <2>3. s \in Prefixes(v)
    BY <2>1 DEF Prefixes
  <2>4. SubSeq(s, 1, Len(s)) = s
    <3> HIDE DEF s
    <3>1. QED
      BY <2>2, SubSeqFull
  <2>5. IsPrefix(s, v) /\ IsPrefix(s, w)
    <3> DEFINE k == Len(s)
    <3>1. k = n /\ k <= Len(v) /\ k <= Len(w) /\ s = SubSeq(v, 1, k) /\ s = SubSeq(w, 1, k)
      BY <2>1, <2>2
    <3> HIDE DEF s
    <3>2. QED
      BY <2>4, <3>1 DEF IsPrefix
  <2> HIDE DEF s
  <2>6. s \in C
    BY <2>3, <2>5 DEF CommonPrefixes
  <2>7. QED
    BY <2>2, <2>6
<1> HIDE DEF C
<1>4. 0 \in Lens
  <2>1. SubSeq(v, 1, 0) = <<>> /\ SubSeq(w, 1, 0) = <<>>
    BY SubSeqEmpty
  <2>2. QED
    BY <1>1, <2>1
<1>5. \E n \in Lens : \A i \in Lens : i <= n
  <2> DEFINE R == {Len(v) - n : n \in Lens}
  <2>1. Lens \subseteq 0..Len(v)
    OBVIOUS
  <2> HIDE DEF Lens
  <2>2. R \subseteq Nat /\ R # {}
    BY <1>1, <1>4, <2>1
  <2>3. PICK k \in R : \A i \in R : k <= i
    <3> HIDE DEF R
    <3>1. QED
      BY <2>2, Least
  <2>4. PICK n \in Lens : k = Len(v) - n
    BY <2>3
  <2>5. ASSUME NEW i \in Lens PROVE i <= n
    <3>1. Len(v) - i \in R
      OBVIOUS
    <3>2. Len(v) - n <= Len(v) - i
      BY <2>3, <2>4, <3>1
    <3>3. n \in Nat /\ i \in Nat
      BY <1>1, <2>1
    <3>4. QED
      BY <1>1, <3>2, <3>3
  <2>6. QED
    BY <2>5
<1>6. \E s \in C : \A t \in C : Len(t) <= Len(s)
  <2>1. PICK n \in Lens : \A i \in Lens : i <= n
    BY <1>5
  <2> HIDE DEF Lens
  <2>2. PICK s \in C : Len(s) = n
    BY <1>3
  <2>3. QED
    BY <1>2, <2>1, <2>2
<1> DEFINE s == LongestCommonPrefix({v, w})
<1>7. s \in C
  <2> DEFINE Long(x) == \A t \in C : Len(t) <= Len(x)
  <2>1. \E x \in C : Long(x)
    BY <1>6
  <2>2. s = CHOOSE x \in C : Long(x)
    BY DEF LongestCommonPrefix, C
  <2> HIDE DEF Long, s
  <2>3. QED
    BY <2>1, <2>2
<1> HIDE DEF s
<1>8. Len(s) \in Lens
  BY <1>2, <1>7
<1>9. QED
  BY <1>8 DEF s

\* Without catch forms there is nothing to land on.
LEMMA QuietStacks ==
  ASSUME NEW n \in VM, NEW u, Chain(n.frames, n.regs), n.winds = Winds(n.frames), NoCatches(n),
         \A i \in DOMAIN n.frames :
           /\ n.frames[i].kind \in Pending <=> i = u
           /\ n.frames[i].kind # "ExceptionUnwind"
  PROVE  Stacks(n, u)
<1> DEFINE a == Masked(n, u)
<1>1. n.transfer = NoTransfer /\ n.catches = <<>>
      /\ \A i \in 0..Len(n.frames) : Above(n.frames, n.regs, i).depth = 0
  BY DEF NoCatches
<1>2. Len(n.frames) \in Nat /\ DOMAIN n.catches = {}
  <2>1. Len(n.catches) = 0 /\ DOMAIN n.catches = 1..Len(n.catches) /\ Len(n.frames) \in Nat
    BY <1>1, Parts, EmptySeq
  <2>2. QED
    BY <2>1
<1>3. a \in Seq(Nat) /\ Len(a) = Len(n.frames) + 1 /\ \A j \in 1..Len(a) : a[j] = 0
  <2>1. /\ a \in Seq(Nat) /\ Len(a) = Len(n.frames) + 1
        /\ \A j \in 1..(Len(n.frames) + 1) : a[j] = Above(n.frames, n.regs, j - 1).depth
    BY <1>1, MaskedType
  <2>2. \A j \in 1..(Len(n.frames) + 1) : j - 1 \in 0..Len(n.frames)
    BY <1>2
  <2> HIDE DEF a
  <2>3. QED
    BY <1>1, <2>1, <2>2
<1>4. Levels(a) = <<>>
  <2> HIDE DEF a
  <2>1. 0 \in 0..Len(a) /\ \A j \in (0 + 1)..Len(a) : a[j] = 0
    BY <1>2, <1>3
  <2>2. Levels(a) = Levels(SubSeq(a, 1, 0))
    BY <1>3, <2>1, LevelsZeros
  <2>3. SubSeq(a, 1, 0) = <<>>
    BY SubSeqEmpty
  <2>4. QED
    BY <2>2, <2>3, LevelsLaws
<1>5. Landings(n) = <<>>
  BY <1>2 DEF Landings
<1>6. TransferOK(n, u)
  BY <1>1 DEF TransferOK
<1>7. QED
  BY <1>2, <1>4, <1>5, <1>6 DEF Stacks, a

\* n is m with a continuation's stacks put in place.
PutsBack(m, c, n) ==
  /\ n \in VM /\ ContOK(c)
  /\ n.frames = SubSeq(m.frames, 1, Max(Sentinels(m.frames) \cup {0})) \o Front(c.frames)
  /\ n.regs = Last(c.frames).regs /\ n.winds = c.winds
  /\ n.catches = m.catches /\ n.transfer = m.transfer

\* Putting the stacks of a continuation in place keeps them in order.
LEMMA RestoreKeeps ==
  ASSUME NEW m, NEW u, NEW c, NEW n, Stacks(m, u), NoCatches(m), PutsBack(m, c, n)
  PROVE  /\ Stacks(n, 0) /\ NoCatches(n) /\ JumpsOK(n) /\ n.frames # <<>>
         /\ Enters(n.frames) = n.winds
<1> DEFINE s == m.frames
           b == Max(Sentinels(s) \cup {0})
           p == SubSeq(s, 1, b)
           t == Front(c.frames)
           r == n.regs
           top == m.regs
           f == n.frames
<1>1. /\ m \in VM /\ n \in VM /\ f = p \o t /\ r = Last(c.frames).regs /\ n.winds = c.winds
      /\ n.catches = m.catches /\ n.transfer = m.transfer /\ ContOK(c) /\ Chain(s, top)
  BY DEF Stacks, PutsBack
<1>2. s \in Seq(Frames) /\ Len(s) \in Nat /\ DOMAIN s = 1..Len(s) /\ f \in Seq(Frames)
      /\ DOMAIN f = 1..Len(f)
  BY <1>1, Parts
<1>3. /\ c.frames \in Seq(PlainFrame) /\ c.frames # <<>> /\ t # <<>> /\ Chain(t, r) /\ c.winds = Winds(t)
      /\ \A i \in 0..Len(t) : Above(t, r, i).role \notin ThunkKinds /\ Above(t, r, i).depth = 0
  BY <1>1 DEF ContOK, Cont
<1>4. t \in Seq(PlainFrame) /\ t \in Seq(Frames)
  <2>1. t \in Seq(PlainFrame)
    BY <1>3, FrontLast
  <2>2. PlainFrame \subseteq Frames
    BY DEF Frames
  <2> HIDE DEF t
  <2>3. QED
    BY <2>1, <2>2, SeqMonotonic
<1>5. /\ b \in 0..Len(s)
      /\ \A i \in 1..b : s[i].kind = "Sentinel" /\ s[i].regs = NoRun
  <2>1. Sentinels(s) \in SUBSET (1..Len(s))
    BY <1>2 DEF Sentinels
  <2>2. b \in Sentinels(s) \cup {0} /\ b \in 0..Len(s)
    BY <1>2, <2>1, MaxOrZero
  <2> HIDE DEF b
  <2>3. ASSUME NEW i \in 1..b PROVE s[i].kind = "Sentinel" /\ s[i].regs = NoRun
    <3>1. b # 0 /\ i \in 1..Len(s)
      BY <1>2, <2>2
    <3>2. s[b].kind = "Sentinel" /\ b \in DOMAIN s
      BY <2>2, <3>1 DEF Sentinels
    <3>3. s[i].kind = "Sentinel"
      BY <1>1, <3>2 DEF Chain
    <3>4. Fits(s[i], Above(s, top, i))
      BY <1>1, <1>2, <3>1 DEF Chain
    <3>5. QED
      BY <3>3, <3>4 DEF Fits
  <2>4. QED
    BY <2>2, <2>3
<1> HIDE DEF b, s, t, r, top
<1>6. p \in Seq(Frames) /\ Len(p) = b /\ \A i \in 1..b : p[i] = s[i]
  BY <1>2, <1>5, Cut
<1> HIDE DEF p
<1>7. \A i \in 1..Len(p) : p[i].kind = "Sentinel" /\ p[i].regs = NoRun
  BY <1>5, <1>6
<1>8. /\ Chain(p \o t, r)
      /\ \A i \in 0..Len(p) + Len(t) :
           Above(p \o t, r, i) = IF i < Len(p) THEN NoRun ELSE Above(t, r, i - Len(p))
  BY <1>3, <1>4, <1>6, <1>7, JoinChain
<1> DEFINE k == Len(p)
           l == Len(t)
<1>9. /\ k \in Nat /\ l \in Nat \ {0} /\ Len(f) = k + l
      /\ \A i \in 1..(k + l) : f[i] = IF i <= k THEN p[i] ELSE t[i - k]
  <2>1. k \in Nat /\ l \in Nat \ {0}
    BY <1>3, <1>4, <1>6, LenProperties, EmptySeq
  <2>2. /\ Len(p \o t) = Len(p) + Len(t)
        /\ \A i \in 1..(Len(p) + Len(t)) : (p \o t)[i] = IF i <= Len(p) THEN p[i] ELSE t[i - Len(p)]
    BY <1>4, <1>6, ConcatProperties
  <2>3. QED
    BY <1>1, <2>1, <2>2
<1>10. \A i \in 1..l : t[i] \in PlainFrame /\ t[i].kind \in PlainKinds \ (Pending \cup {"DynamicWindBody"})
  <2>1. ASSUME NEW i \in 1..l
        PROVE  t[i] \in PlainFrame /\ t[i].kind \in PlainKinds \ (Pending \cup {"DynamicWindBody"})
    <3>0. t[i] \in PlainFrame
      BY <1>4, ElementOfSeq
    <3>1. t[i] \in PlainFrame /\ t[i].kind \in PlainKinds
      BY <3>0 DEF PlainFrame
    <3>2. i \in 0..l /\ i \in DOMAIN t
      BY <1>4, <1>9, LenProperties
    <3>3. Fits(t[i], Above(t, r, i)) /\ Above(t, r, i).role \notin ThunkKinds
      BY <1>3, <3>2 DEF Chain
    <3>4. t[i].kind # "ExceptionUnwind" /\ t[i].kind # "DynamicWindBody"
      BY <3>3 DEF Fits, ThunkKinds
    <3>5. t[i].kind # "ContinuationJump"
      BY <3>1 DEF PlainKinds, WindKinds
    <3>6. QED
      BY <3>1, <3>4, <3>5 DEF Pending
  <2>2. QED
    BY <2>1
<1>11. \A i \in 1..(k + l) : f[i].kind \notin Pending \cup {"DynamicWindBody"}
  <2>1. ASSUME NEW i \in 1..(k + l) PROVE f[i].kind \notin Pending \cup {"DynamicWindBody"}
    <3>1. CASE i <= k
      <4>1. i \in 1..k /\ f[i] = p[i]
        BY <1>9, <3>1
      <4>2. f[i].kind = "Sentinel"
        BY <1>7, <4>1
      <4>3. QED
        BY <4>2 DEF Pending
    <3>2. CASE ~(i <= k)
      <4>1. i - k \in 1..l /\ f[i] = t[i - k]
        BY <1>9, <3>2
      <4>2. QED
        BY <1>10, <4>1
    <3>3. QED
      BY <3>1, <3>2
  <2>2. QED
    BY <2>1
<1>12. \A i \in DOMAIN f : f[i].kind \in Pending <=> i = 0
  <2>1. \A i \in 1..(k + l) : i # 0
    BY <1>9
  <2>2. QED
    BY <1>2, <1>9, <1>11, <2>1
<1>13. n.winds = Winds(f)
  <2>1. Winds(p) = <<>>
    <3>1. \A i \in 1..Len(p) : p[i].kind \notin WindKinds
      BY <1>7 DEF WindKinds
    <3>2. QED
      BY <1>6, <3>1, NoExtents
  <2>2. Winds(p \o t) = Winds(p) \o Winds(t) /\ Winds(t) \in Seq(Nat)
    BY <1>4, <1>6, WindsLaws
  <2>3. <<>> \o Winds(t) = Winds(t)
    BY <2>2, ConcatEmptySeq
  <2>4. QED
    BY <1>1, <1>3, <2>1, <2>2, <2>3
<1>14. NoCatches(n)
  <2>1. ASSUME NEW i \in 0..Len(f) PROVE Above(f, r, i).depth = 0
    <3>1. i \in 0..Len(p) + Len(t) /\ Above(f, r, i) = Above(p \o t, r, i)
      BY <1>1, <1>9
    <3>2. CASE i < k
      <4>1. Above(f, r, i) = NoRun
        BY <1>8, <3>1, <3>2
      <4>2. QED
        BY <4>1 DEF NoRun, Run
    <3>3. CASE ~(i < k)
      <4>1. Above(f, r, i) = Above(t, r, i - k)
        BY <1>8, <3>1, <3>3
      <4>2. i - k \in 0..l
        BY <1>9, <3>1, <3>3
      <4>3. QED
        BY <1>3, <4>1, <4>2
    <3>4. QED
      BY <3>2, <3>3
  <2>2. QED
    BY <1>1, <2>1 DEF NoCatches, r
<1>15. Enters(f) = n.winds
  <2>1. \A i \in 1..Len(f) : f[i].kind # "DynamicWindBody"
    BY <1>9, <1>11
  <2> HIDE DEF f
  <2>2. Enters(f) = Winds(f)
    BY <1>2, <2>1, AllEntered
  <2>3. QED
    BY <1>13, <2>2
<1>16. f # <<>> /\ JumpsOK(n)
  <2>1. Len(f) # 0
    BY <1>9
  <2>2. f # <<>>
    BY <1>2, <2>1, EmptySeq
  <2>3. QED
    BY <1>2, <1>9, <1>11, <2>2 DEF JumpsOK, Pending
<1>17. Stacks(n, 0)
  <2>1. \A i \in DOMAIN n.frames : /\ n.frames[i].kind \in Pending <=> i = 0
                                   /\ n.frames[i].kind # "ExceptionUnwind"
    BY <1>2, <1>9, <1>11, <1>12 DEF Pending
  <2>2. Chain(n.frames, n.regs)
    BY <1>1, <1>8 DEF r
  <2>3. n \in VM /\ n.winds = Winds(n.frames)
    BY <1>1, <1>13
  <2>4. QED
    BY <1>14, <2>1, <2>2, <2>3, QuietStacks
<1>18. QED
  BY <1>14, <1>15, <1>16, <1>17

-----------------------------------------------------------------------------
(* The extents entered.                                                    *)

\* What follows the first n elements of an Append.
LEMMA AppendRest ==
  ASSUME NEW X, NEW s \in Seq(X), NEW e \in X, NEW n \in 0..Len(s)
  PROVE  SubSeq(Append(s, e), n + 1, Len(s) + 1) = Append(SubSeq(s, n + 1, Len(s)), e)
<1> DEFINE t == Append(s, e)
           l == Len(s)
           a == SubSeq(t, n + 1, l + 1)
           r == SubSeq(s, n + 1, l)
           b == Append(r, e)
<1>1. /\ l \in Nat /\ t \in Seq(X) /\ Len(t) = l + 1 /\ t[l + 1] = e
      /\ \A i \in 1..l : t[i] = s[i]
  BY LenProperties, AppendProperties
<1>2. r \in Seq(X) /\ Len(r) = l - n /\ \A i \in 1..(l - n) : r[i] = s[n + i]
  BY Cut
<1> HIDE DEF t, l, r
<1>3. n \in 0..Len(t)
  BY <1>1 DEF l
<1>4. a \in Seq(X) /\ Len(a) = (l + 1) - n /\ \A i \in 1..((l + 1) - n) : a[i] = t[n + i]
  <2>1. /\ SubSeq(t, n + 1, Len(t)) \in Seq(X) /\ Len(SubSeq(t, n + 1, Len(t))) = Len(t) - n
        /\ \A i \in 1..(Len(t) - n) : SubSeq(t, n + 1, Len(t))[i] = t[n + i]
    BY <1>1, <1>3, Cut
  <2>2. QED
    BY <1>1, <2>1
<1>5. b \in Seq(X) /\ Len(b) = (l - n) + 1 /\ b[(l - n) + 1] = e /\ \A i \in 1..(l - n) : b[i] = r[i]
  <2>1. b \in Seq(X) /\ Len(b) = Len(r) + 1 /\ b[Len(r) + 1] = e /\ \A i \in 1..Len(r) : b[i] = r[i]
    BY <1>2, AppendProperties
  <2>2. QED
    BY <1>2, <2>1
<1> HIDE DEF a, b
<1>6. ASSUME NEW i \in 1..((l + 1) - n) PROVE a[i] = b[i]
  <2>1. n \in Nat /\ n <= l
    BY <1>1 DEF l
  <2>2. CASE i = (l - n) + 1
    <3>1. n + i = l + 1
      BY <1>1, <2>1, <2>2
    <3>2. QED
      BY <1>1, <1>4, <1>5, <2>2, <3>1
  <2>3. CASE i # (l - n) + 1
    <3>1. n + i \in 1..l /\ i \in 1..(l - n)
      BY <1>1, <2>1, <2>3
    <3>2. QED
      BY <1>1, <1>2, <1>4, <1>5, <3>1
  <2>4. QED
    BY <2>2, <2>3
<1>7. Len(a) = Len(b)
  <2>1. n \in Nat /\ n <= l
    BY <1>1 DEF l
  <2>2. QED
    BY <1>1, <1>4, <1>5, <2>1
<1>8. a = b
  BY <1>4, <1>5, <1>6, <1>7, SeqEqual
<1>9. QED
  BY <1>8 DEF a, b, t, l, r

\* The frames up to u and what runs above them are the same.
Agrees(m, u, n) ==
  /\ m \in VM /\ n \in VM /\ u \in 0..Len(m.frames) /\ u <= Len(n.frames)
  /\ \A i \in 1..u : n.frames[i] = m.frames[i]
  /\ Above(n.frames, n.regs, u).role = Above(m.frames, m.regs, u).role
  /\ Above(n.frames, n.regs, u).extent = Above(m.frames, m.regs, u).extent
  /\ n.transfer = m.transfer

\* What was entered below the thunk does not depend on the frames above it.
LEMMA BaseKeeps ==
  ASSUME NEW m, NEW u, NEW n, NEW D, Stacks(m, u), Agrees(m, u, n), Base(m, u, D)
  PROVE  Base(n, u, D)
<1>1. /\ m \in VM /\ n \in VM /\ u \in 0..Len(m.frames) /\ u <= Len(n.frames)
      /\ \A i \in 1..u : n.frames[i] = m.frames[i]
      /\ Above(n.frames, n.regs, u).role = Above(m.frames, m.regs, u).role
      /\ Above(n.frames, n.regs, u).extent = Above(m.frames, m.regs, u).extent
      /\ n.transfer = m.transfer
  BY DEF Agrees
<1>2. /\ m.frames \in Seq(Frames) /\ n.frames \in Seq(Frames)
      /\ DOMAIN m.frames = 1..Len(m.frames) /\ DOMAIN n.frames = 1..Len(n.frames)
      /\ Len(m.frames) \in Nat /\ Len(n.frames) \in Nat /\ m.transfer \in Transfer \cup {NoTransfer}
  BY <1>1, Parts
<1>3. CASE u = 0 /\ D = <<>>
  BY SMTT(40), <1>3 DEF Base
<1>4. CASE /\ u \in DOMAIN m.frames /\ m.frames[u].kind = "ExceptionUnwind"
           /\ D = Append(Enters(SubSeq(m.frames, 1, m.transfer.target.frame_count))
                           \o Reverse(m.transfer.thunks),
                         Above(m.frames, m.regs, u).extent)
  <2> DEFINE k == m.transfer.target.frame_count
             a == SubSeq(m.frames, 1, k)
             b == SubSeq(n.frames, 1, k)
  <2>1. m.transfer # NoTransfer
    BY <1>4 DEF Stacks, TransferOK
  <2>2. k < u /\ k \in Nat
    BY <1>2, <2>1 DEF Stacks, TransferOK, Transfer, CatchFrame
  <2>3. k \in 0..Len(m.frames) /\ k \in 0..Len(n.frames) /\ u \in 1..u /\ u \in 1..Len(n.frames)
    BY <1>1, <1>2, <2>2
  <2>4. a = b
    <3> HIDE DEF k
    <3>1. a \in Seq(Frames) /\ Len(a) = k /\ \A i \in 1..k : a[i] = m.frames[i]
      BY <1>2, <2>3, Cut
    <3>2. b \in Seq(Frames) /\ Len(b) = k /\ \A i \in 1..k : b[i] = n.frames[i]
      BY <1>2, <2>3, Cut
    <3>3. \A i \in 1..k : i \in 1..u
      BY <1>1, <2>2
    <3> HIDE DEF a, b
    <3>4. \A i \in 1..k : a[i] = b[i]
      BY <1>1, <3>1, <3>2, <3>3
    <3>5. QED
      BY <3>1, <3>2, <3>4, SeqEqual
  <2>5. u \in DOMAIN n.frames /\ n.frames[u].kind = "ExceptionUnwind"
    BY <1>1, <1>2, <1>4, <2>3
  <2>6. D = Append(Enters(SubSeq(n.frames, 1, n.transfer.target.frame_count))
                     \o Reverse(n.transfer.thunks),
                   Above(n.frames, n.regs, u).extent)
    BY <1>1, <1>4, <2>4
  <2>7. QED
    BY <2>5, <2>6 DEF Base
<1>5. CASE /\ u \in DOMAIN m.frames /\ m.frames[u].kind = "ContinuationJump"
           /\ LET now == Above(m.frames, m.regs, u)
              IN  Leads(D, <<Run(now.role, now.extent)>> \o m.frames[u].extra.thunks,
                        m.frames[u].extra.target.winds)
  <2>1. u \in 1..u /\ u \in 1..Len(n.frames)
    BY <1>1, <1>2, <1>5
  <2>2. u \in DOMAIN n.frames /\ n.frames[u] = m.frames[u]
    BY <1>1, <1>2, <2>1
  <2>3. Run(Above(n.frames, n.regs, u).role, Above(n.frames, n.regs, u).extent)
          = Run(Above(m.frames, m.regs, u).role, Above(m.frames, m.regs, u).extent)
    BY <1>1
  <2>4. QED
    BY <1>5, <2>2, <2>3 DEF Base
<1>6. QED
  BY <1>3, <1>4, <1>5 DEF Base

\* A call enters what its frame accounts for, and
LEMMA EnteredPush ==
  ASSUME NEW m, NEW u, NEW f \in Frames, NEW n, NEW e, Stacks(m, u), EnteredOK(m, u, e),
         u \in 0..Len(m.frames), Pushes(m, u, f, n), n.transfer = m.transfer
  PROVE  EnteredOK(n, u, e \o EnterOf(f))
<1> DEFINE s == m.frames
           t == n.frames
           a == SubSeq(s, u + 1, Len(s))
           b == SubSeq(t, u + 1, Len(t))
<1>1. m \in VM /\ n \in VM /\ t = Append(s, f) /\ f.regs = m.regs
  BY DEF Stacks, Pushes
<1>2. s \in Seq(Frames) /\ Len(s) \in Nat
  BY <1>1, Parts
<1>3. PICK D \in Seq(Nat) : Base(m, u, D) /\ e = D \o Enters(a)
  BY DEF EnteredOK
<1>4. Len(t) = Len(s) + 1 /\ \A i \in 1..Len(s) : t[i] = s[i]
  BY <1>1, <1>2, AppendProperties
<1>5. b = Append(a, f)
  <2>1. u \in 0..Len(s)
    OBVIOUS
  <2> HIDE DEF s, t
  <2>2. SubSeq(Append(s, f), u + 1, Len(s) + 1) = Append(SubSeq(s, u + 1, Len(s)), f)
    BY <1>2, <2>1, AppendRest
  <2>3. QED
    BY <1>1, <1>4, <2>2
<1>6. Above(t, n.regs, u) = Above(s, m.regs, u)
  <2> DEFINE top == n.regs
  <2>1. Chain(s, f.regs) /\ Fits(f, top) /\ s # <<>> /\ f.kind # "Sentinel"
    BY <1>1 DEF Stacks, Pushes
  <2> HIDE DEF s, t, top
  <2>2. s \in Seq(Frames)
    BY <1>2
  <2>3. \A i \in 0..Len(s) : Above(Append(s, f), top, i) = Above(s, f.regs, i)
    BY SMTT(120), <2>1, <2>2, PushChain
  <2>4. u \in 0..Len(s) /\ t = Append(s, f) /\ f.regs = m.regs
    BY <1>1 DEF s
  <2>5. QED
    BY <2>3, <2>4 DEF top
<1>7. Base(n, u, D)
  <2>1. Agrees(m, u, n)
    BY <1>1, <1>2, <1>4, <1>6 DEF Agrees
  <2>2. QED
    BY <1>3, <2>1, BaseKeeps
<1>8. a \in Seq(Frames)
  BY <1>2, Cut
<1>9. Enters(b) = Enters(a) \o EnterOf(f) /\ Enters(a) \in Seq(Nat) /\ EnterOf(f) \in Seq(Nat)
  <2> HIDE DEF a, b
  <2>1. EnterFun[f] \in Seq(Nat) /\ EnterFun[f] = EnterOf(f)
    BY FrameFacts
  <2>2. QED
    BY <1>5, <1>8, <2>1, WindsLaws
<1> HIDE DEF a, b
<1>10. (D \o Enters(a)) \o EnterOf(f) = D \o (Enters(a) \o EnterOf(f))
  <2> DEFINE x == Enters(a)
             y == EnterOf(f)
  <2>1. x \in Seq(Nat) /\ y \in Seq(Nat)
    BY <1>9
  <2> HIDE DEF x, y
  <2>2. (D \o x) \o y = D \o (x \o y)
    BY <2>1, NatConcat
  <2>3. QED
    BY <2>2 DEF x, y
<1>11. e \o EnterOf(f) = D \o Enters(b)
  BY <1>3, <1>9, <1>10
<1>12. QED
  BY <1>7, <1>11 DEF EnteredOK, b

\* a return gives it back.
LEMMA EnteredPop ==
  ASSUME NEW m, NEW u, NEW n, NEW e, Stacks(m, u), EnteredOK(m, u, e),
         u \in 0..Len(n.frames), Pops(m, n)
  PROVE  \E x \in Seq(Nat) : e = x \o EnterOf(Last(m.frames)) /\ EnteredOK(n, u, x)
<1> DEFINE s == m.frames
           t == n.frames
           f == Last(s)
           a == SubSeq(s, u + 1, Len(s))
           b == SubSeq(t, u + 1, Len(t))
<1>1. /\ m \in VM /\ n \in VM /\ s # <<>> /\ t = Front(s) /\ n.regs = f.regs
      /\ n.transfer = m.transfer
  BY DEF Stacks, Pops
<1>2. s \in Seq(Frames) /\ t \in Seq(Frames) /\ Len(s) \in Nat /\ Len(t) \in Nat
  BY <1>1, Parts
<1>3. PICK D \in Seq(Nat) : Base(m, u, D) /\ e = D \o Enters(a)
  BY DEF EnteredOK
<1>4. f \in Frames /\ s = Append(t, f) /\ Len(s) = Len(t) + 1 /\ s[Len(t) + 1] = f
      /\ \A i \in 1..Len(t) : t[i] = s[i]
  <2> HIDE DEF s, t
  <2>1. /\ Last(s) \in Frames /\ s = Append(Front(s), Last(s)) /\ Len(Front(s)) = Len(s) - 1
        /\ \A i \in 1..(Len(s) - 1) : Front(s)[i] = s[i]
    BY <1>1, <1>2, FrontLast
  <2>2. QED
    BY <1>1, <1>2, <2>1 DEF Last
<1>5. a = Append(b, f)
  <2> HIDE DEF f, t, s
  <2>1. SubSeq(Append(t, f), u + 1, Len(t) + 1) = Append(SubSeq(t, u + 1, Len(t)), f)
    BY <1>2, <1>4, AppendRest DEF t
  <2>2. QED
    BY <1>4, <2>1
<1>6. Above(t, n.regs, u) = Above(s, m.regs, u)
  <2> HIDE DEF f
  <2>1. u # Len(s)
    BY <1>2, <1>4
  <2>2. Above(s, m.regs, u) = s[u + 1].regs
    BY <2>1, AboveLaws
  <2>3. CASE u = Len(t)
    <3>1. Above(t, n.regs, u) = n.regs
      BY <2>3, AboveLaws
    <3>2. QED
      BY <1>1, <1>4, <2>2, <2>3, <3>1
  <2>4. CASE u # Len(t)
    <3>1. Above(t, n.regs, u) = t[u + 1].regs /\ u + 1 \in 1..Len(t)
      BY <1>2, <2>4, AboveLaws
    <3>2. QED
      BY <1>4, <2>2, <3>1
  <2>5. QED
    BY <2>3, <2>4
<1>7. Base(n, u, D)
  <2>1. Agrees(m, u, n)
    BY <1>1, <1>2, <1>4, <1>6 DEF Agrees
  <2>2. QED
    BY <1>3, <2>1, BaseKeeps
<1> HIDE DEF f, s, t
<1>8. b \in Seq(Frames)
  BY <1>2, Cut DEF t
<1>9. Enters(a) = Enters(b) \o EnterOf(f) /\ Enters(b) \in Seq(Nat) /\ EnterOf(f) \in Seq(Nat)
  <2> HIDE DEF a, b
  <2>1. EnterFun[f] \in Seq(Nat) /\ EnterFun[f] = EnterOf(f)
    BY <1>4, FrameFacts
  <2>2. QED
    BY <1>4, <1>5, <1>8, <2>1, WindsLaws
<1> DEFINE y == Enters(b)
           z == EnterOf(f)
           x == D \o y
<1>10. y \in Seq(Nat) /\ z \in Seq(Nat)
  BY <1>9
<1> HIDE DEF y, z
<1>11. x \o z = D \o (y \o z) /\ x \in Seq(Nat)
  <2>1. D \o y \in Seq(Nat)
    BY <1>10, NatConcat
  <2>2. (D \o y) \o z = D \o (y \o z)
    BY <1>10, NatConcat
  <2>3. QED
    BY <2>1, <2>2
<1>12. e = x \o z
  BY <1>3, <1>9, <1>11 DEF y, z
<1>13. EnteredOK(n, u, x)
  BY <1>7 DEF EnteredOK, y, b, t
<1>14. QED
  BY <1>11, <1>12, <1>13 DEF z, f, s

-----------------------------------------------------------------------------
(* Raises and continuations are apart.                                     *)

ModeOK(m, p) ==
  IF "call/cc" \in p THEN NoCatches(m) /\ JumpsOK(m)
  ELSE \A i \in DOMAIN m.frames : m.frames[i].kind # "ContinuationJump"

\* Calls keep the mode,
LEMMA ModePush ==
  ASSUME NEW m, NEW u, NEW f \in Frames, NEW n, NEW p, Stacks(m, u), Pushes(m, u, f, n),
         ModeOK(m, p), f.kind = "ContinuationJump" => "call/cc" \in p /\ JumpOK(f.extra)
  PROVE  ModeOK(n, p)
<1> DEFINE s == m.frames
           t == n.frames
<1>1. /\ m \in VM /\ n \in VM /\ t = Append(s, f) /\ f.regs = m.regs /\ s # <<>>
      /\ Chain(s, f.regs) /\ Fits(f, n.regs) /\ f.kind # "Sentinel" /\ n.regs.depth = 0
      /\ n.catches = m.catches /\ (m.transfer = NoTransfer => n.transfer = NoTransfer)
  BY DEF Stacks, Pushes
<1>2. s \in Seq(Frames) /\ t \in Seq(Frames) /\ Len(s) \in Nat
      /\ DOMAIN s = 1..Len(s) /\ DOMAIN t = 1..Len(t)
  BY <1>1, Parts
<1>3. Len(t) = Len(s) + 1 /\ t[Len(s) + 1] = f /\ \A i \in 1..Len(s) : t[i] = s[i]
  BY <1>1, <1>2, AppendProperties
<1>4. \A i \in 1..Len(t) : i \in 1..Len(s) \/ i = Len(s) + 1
  BY <1>2, <1>3
<1>5. CASE "call/cc" \in p
  <2>1. NoCatches(m) /\ JumpsOK(m)
    BY <1>5 DEF ModeOK
  <2>2. JumpsOK(n)
    BY <1>2, <1>3, <1>4, <2>1 DEF JumpsOK
  <2>3. ASSUME NEW i \in 0..Len(t) PROVE Above(t, n.regs, i).depth = 0
    <3> DEFINE top == n.regs
    <3>1. Fits(f, top)
      BY <1>1
    <3> HIDE DEF top, s, t
    <3>2. /\ \A k \in 0..Len(s) : Above(Append(s, f), top, k) = Above(s, f.regs, k)
          /\ Above(Append(s, f), top, Len(s) + 1) = top
      BY <1>1, <1>2, <3>1, PushChain
    <3>3. i \in 0..Len(s) \/ i = Len(s) + 1
      BY <1>2, <1>3
    <3>4. \A k \in 0..Len(s) : Above(s, f.regs, k).depth = 0
      BY <1>1, <2>1 DEF NoCatches, s
    <3>5. QED
      BY <1>1, <3>2, <3>3, <3>4 DEF top
  <2>4. NoCatches(n)
    BY <1>1, <2>1, <2>3 DEF NoCatches
  <2>5. QED
    BY <1>5, <2>2, <2>4 DEF ModeOK
<1>6. CASE "call/cc" \notin p
  <2>1. \A i \in 1..Len(s) : s[i].kind # "ContinuationJump"
    BY <1>2, <1>6 DEF ModeOK
  <2>2. \A i \in 1..Len(t) : t[i].kind # "ContinuationJump"
    BY <1>3, <1>4, <1>6, <2>1
  <2>3. QED
    BY <1>2, <1>6, <2>2 DEF ModeOK
<1>7. QED
  BY <1>5, <1>6

\* and returns do.
LEMMA ModePop ==
  ASSUME NEW m \in VM, NEW n, NEW p, Pops(m, n), ModeOK(m, p)
  PROVE  ModeOK(n, p)
<1> DEFINE s == m.frames
           t == n.frames
<1>1. /\ n \in VM /\ s # <<>> /\ t = Front(s) /\ n.regs = Last(s).regs
      /\ n.catches = m.catches /\ n.transfer = m.transfer
  BY DEF Pops
<1>2. s \in Seq(Frames) /\ t \in Seq(Frames) /\ Len(s) \in Nat
      /\ DOMAIN s = 1..Len(s) /\ DOMAIN t = 1..Len(t)
  BY <1>1, Parts
<1>3. Len(s) = Len(t) + 1 /\ Len(t) \in Nat /\ (\A i \in 1..Len(t) : t[i] = s[i])
      /\ n.regs = s[Len(s)].regs
  <2> HIDE DEF s, t
  <2>1. Len(Front(s)) = Len(s) - 1 /\ \A i \in 1..(Len(s) - 1) : Front(s)[i] = s[i]
    BY <1>1, <1>2, FrontLast
  <2>2. Len(t) \in Nat
    BY <1>2, LenProperties
  <2>3. QED
    BY SMTT(40), <1>1, <1>2, <2>1, <2>2 DEF Last
<1>4. \A i \in 1..Len(t) : i \in 1..Len(s)
  BY <1>3
<1>5. CASE "call/cc" \in p
  <2>1. NoCatches(m) /\ JumpsOK(m)
    BY <1>5 DEF ModeOK
  <2>2. JumpsOK(n)
    BY <1>2, <1>3, <1>4, <2>1 DEF JumpsOK
  <2>3. ASSUME NEW i \in 0..Len(t) PROVE Above(t, n.regs, i).depth = 0
    <3>1. i \in 0..Len(s) /\ i # Len(s) /\ (i # Len(t) => i + 1 \in 1..Len(t))
          /\ (i = Len(t) => i + 1 = Len(s))
      BY <1>3
    <3>2. Above(s, m.regs, i) = s[i + 1].regs
      BY <3>1, AboveLaws
    <3>3. s[i + 1].regs.depth = 0
      BY <2>1, <3>1, <3>2 DEF NoCatches
    <3>4. (i = Len(t) => Above(t, n.regs, i) = n.regs)
          /\ (i # Len(t) => Above(t, n.regs, i) = t[i + 1].regs)
      BY AboveLaws
    <3>5. QED
      BY <1>3, <3>1, <3>3, <3>4
  <2>4. NoCatches(n)
    BY <1>1, <2>1, <2>3 DEF NoCatches
  <2>5. QED
    BY <1>5, <2>2, <2>4 DEF ModeOK
<1>6. CASE "call/cc" \notin p
  <2>1. \A i \in 1..Len(s) : s[i].kind # "ContinuationJump"
    BY <1>2, <1>6 DEF ModeOK
  <2>2. QED
    BY <1>2, <1>3, <1>4, <1>6, <2>1 DEF ModeOK
<1>7. QED
  BY <1>5, <1>6

\* A raise goes back to the frames below its target.
LEMMA ModeCut ==
  ASSUME NEW m \in VM, NEW n \in VM, NEW p, "call/cc" \notin p, ModeOK(m, p),
         Len(n.frames) <= Len(m.frames), \A i \in 1..Len(n.frames) : n.frames[i] = m.frames[i]
  PROVE  ModeOK(n, p)
<1>1. /\ Len(m.frames) \in Nat /\ DOMAIN m.frames = 1..Len(m.frames)
      /\ Len(n.frames) \in Nat /\ DOMAIN n.frames = 1..Len(n.frames)
  BY Parts
<1>2. \A i \in 1..Len(n.frames) : i \in 1..Len(m.frames)
  BY <1>1
<1>3. QED
  BY <1>1, <1>2 DEF ModeOK

\* Between two thunks of a jump no frame is pending.
LEMMA Between ==
  ASSUME NEW m, NEW u, NEW v, Stacks(m, u), NoCatches(m),
         \A i \in DOMAIN m.frames : m.frames[i].kind \notin Pending, v \notin DOMAIN m.frames
  PROVE  Stacks(m, v)
<1>1. /\ m \in VM /\ Chain(m.frames, m.regs) /\ m.winds = Winds(m.frames)
      /\ \A i \in DOMAIN m.frames : /\ m.frames[i].kind \in Pending <=> i = v
                                    /\ m.frames[i].kind # "ExceptionUnwind"
  BY DEF Stacks, Pending
<1>2. QED
  BY <1>1, QuietStacks

-----------------------------------------------------------------------------
(* Thunks.                                                                 *)

\* The fields SetupFrame changes.
LEMMA SetupFacts ==
  ASSUME NEW m \in VM, NEW callee \in Regs, NEW kind, NEW extra, Frame(kind, m.regs, extra) \in Frames
  PROVE  LET n == SetupFrame(m, callee, kind, extra)
         IN  /\ n \in VM /\ n.frames = Append(m.frames, Frame(kind, m.regs, extra))
             /\ n.regs = callee /\ n.winds = m.winds /\ n.catches = m.catches
             /\ n.transfer = m.transfer /\ n.status = m.status
<1> DEFINE f == Frame(kind, m.regs, extra)
           n == [m EXCEPT !.frames = Append(@, f), !.regs = callee]
<1>1. n = SetupFrame(m, callee, kind, extra)
  BY DEF SetupFrame
<1>2. Append(m.frames, f) \in Seq(Frames)
  <2>1. m.frames \in Seq(Frames)
    BY Parts
  <2>2. f \in Frames
    OBVIOUS
  <2> HIDE DEF f
  <2>3. QED
    BY <2>1, <2>2, AppendProperties
<1> HIDE DEF f
<1>3. /\ n \in VM /\ n.frames = Append(m.frames, f)
      /\ n.regs = callee /\ n.winds = m.winds /\ n.catches = m.catches
      /\ n.transfer = m.transfer /\ n.status = m.status
  BY <1>2 DEF VM
<1>4. QED
  BY <1>1, <1>3 DEF f

\* The empty sequence is neutral.
LEMMA ConcatNothing ==
  ASSUME NEW X, NEW s \in Seq(X)
  PROVE  s \o <<>> = s /\ <<>> \o s = s
<1>1. QED
  BY ConcatEmptySeq

\* An empty list leads to where one is.
LEMMA Nowhere == \A e \in Seq(Nat), w \in Seq(Nat) : Leads(e, <<>>, w) => e = w
<1>1. ASSUME NEW e \in Seq(Nat), NEW w \in Seq(Nat), Leads(e, <<>>, w) PROVE e = w
  <2>1. PICK p \in 0..Len(e) : p <= Len(w) /\ SubSeq(e, 1, p) = SubSeq(w, 1, p)
                               /\ Len(<<>>) = (Len(e) - p) + (Len(w) - p)
    BY <1>1 DEF Leads
  <2>2. Len(<<>>) = 0 /\ Len(e) \in Nat /\ Len(w) \in Nat
    BY LenProperties, EmptySeq
  <2>3. p = Len(e) /\ p = Len(w)
    BY <2>1, <2>2
  <2>4. SubSeq(e, 1, Len(e)) = e /\ SubSeq(w, 1, Len(w)) = w
    BY SubSeqFull
  <2>5. QED
    BY <2>1, <2>3, <2>4
<1>2. QED
  BY <1>1

\* The extents entered are all in the frames when no frame is pending.
LEMMA EnteredAll ==
  ASSUME NEW n \in VM, NEW e, e = Enters(n.frames)
  PROVE  EnteredOK(n, 0, e)
<1> DEFINE s == n.frames
<1>1. s \in Seq(Frames)
  BY Parts
<1>2. SubSeq(s, 0 + 1, Len(s)) = s
  <2> HIDE DEF s
  <2>1. SubSeq(s, 1, Len(s)) = s
    BY <1>1, SubSeqFull
  <2>2. QED
    BY <2>1
<1>3. Enters(s) \in Seq(Nat) /\ <<>> \in Seq(Nat)
  BY <1>1, WindsLaws, EmptySeq
<1>4. <<>> \o Enters(s) = Enters(s)
  <2> DEFINE x == Enters(s)
  <2>1. x \in Seq(Nat)
    BY <1>3
  <2> HIDE DEF x
  <2>2. <<>> \o x = x
    BY <2>1, ConcatNothing
  <2>3. QED
    BY <2>2 DEF x
<1>5. Base(n, 0, <<>>)
  BY DEF Base
<1>6. e = <<>> \o Enters(SubSeq(n.frames, 0 + 1, Len(n.frames)))
  BY <1>2, <1>4
<1>7. QED
  BY <1>3, <1>5, <1>6 DEF EnteredOK

\* A thunk has just been called from the frame on top.
LEMMA EnteredTop ==
  ASSUME NEW n \in VM, NEW e \in Seq(Nat), Base(n, Len(n.frames), e)
  PROVE  EnteredOK(n, Len(n.frames), e)
<1> DEFINE s == n.frames
<1>1. s \in Seq(Frames) /\ Len(s) \in Nat
  BY Parts
<1>2. SubSeq(s, Len(s) + 1, Len(s)) = <<>>
  BY <1>1, SubSeqEmpty
<1>3. e \o <<>> = e
  BY ConcatNothing
<1>4. e = e \o Enters(SubSeq(s, Len(s) + 1, Len(s)))
  BY <1>2, <1>3, WindsLaws
<1>5. QED
  BY <1>4 DEF EnteredOK

\* Plain frames are frames.
LEMMA PlainSeq ==
  \A s \in Seq(PlainFrame) : s \in Seq(Frames)
<1>1. ASSUME NEW s \in Seq(PlainFrame) PROVE s \in Seq(Frames)
  <2>1. s \in [1..Len(s) -> PlainFrame] /\ Len(s) \in Nat
    BY LenProperties, SeqDef
  <2>2. s \in [1..Len(s) -> Frames]
    BY <2>1 DEF Frames
  <2>3. QED
    BY <2>1, <2>2, SeqDef
<1>2. QED
  BY <1>1

\* The machine is in order; v is where a pending frame is.
Sound(n, p, v) == v \in 0..Len(n.frames) /\ Stacks(n, v) /\ ModeOK(n, p)

\* RestoreContinuation puts the stacks of c above the last sentinel.
LEMMA RestoreFacts ==
  ASSUME NEW m \in VM, NEW c, ContOK(c)
  PROVE  PutsBack(m, c, RestoreContinuation(m, c))
<1> DEFINE s == m.frames
           b == Max(Sentinels(s) \cup {0})
           q == SubSeq(s, 1, b)
           t == c.frames
           n == [m EXCEPT !.frames = Front(q \o t), !.regs = Last(q \o t).regs, !.winds = c.winds]
<1>1. s \in Seq(Frames) /\ Len(s) \in Nat /\ DOMAIN s = 1..Len(s)
  BY Parts
<1>2. t \in Seq(PlainFrame) /\ c.winds \in Seq(Nat) /\ t # <<>>
  BY DEF ContOK, Cont
<1>3. b \in 0..Len(s)
  <2> HIDE DEF s
  <2>1. Sentinels(s) \in SUBSET (1..Len(s))
    BY <1>1 DEF Sentinels
  <2> DEFINE S == Sentinels(s)
             l == Len(s)
  <2>2. l \in Nat /\ S \in SUBSET (1..l)
    BY <1>1, <2>1
  <2> HIDE DEF S, l
  <2>3. Max(S \cup {0}) \in 0..l
    BY <2>2, MaxOrZero
  <2>4. QED
    BY <2>3 DEF S, l
<1>4. q \in Seq(Frames) /\ t \in Seq(Frames)
  <2>1. t \in Seq(Frames)
    BY <1>2, PlainSeq
  <2> HIDE DEF s, t, b
  <2>2. q \in Seq(Frames)
    BY <1>1, <1>3, Cut
  <2>3. QED
    BY <2>1, <2>2
<1>5. /\ Front(q \o t) = q \o Front(t) /\ Last(q \o t) = Last(t)
      /\ q \o Front(t) \in Seq(Frames) /\ Last(t) \in Frames
  <2> HIDE DEF q, t
  <2>1. Front(q \o t) = q \o Front(t) /\ Last(q \o t) = Last(t)
    BY <1>2, <1>4, FrontConcat
  <2>2. Front(t) \in Seq(Frames) /\ Last(t) \in Frames
    BY <1>2, <1>4, FrontLast
  <2>3. q \o Front(t) \in Seq(Frames)
    BY <1>4, <2>2, ConcatProperties
  <2>4. QED
    BY <2>1, <2>2, <2>3
<1>6. Last(t).regs \in Regs
  <2> HIDE DEF t
  <2>1. QED
    BY <1>5, FrameFacts
<1>7. n = RestoreContinuation(m, c)
  BY DEF RestoreContinuation
<1> HIDE DEF b, t, q
<1>8. /\ n \in VM /\ n.frames = q \o Front(t) /\ n.regs = Last(t).regs /\ n.winds = c.winds
      /\ n.catches = m.catches /\ n.transfer = m.transfer
  BY <1>2, <1>5, <1>6 DEF VM
<1> HIDE DEF n
<1>9. QED
  BY <1>7, <1>8 DEF PutsBack, q, t, b

\* The list of a jump, called thunk by thunk.
LEMMA HeadTail ==
  ASSUME NEW X, NEW s \in Seq(X), s # <<>>
  PROVE  /\ Head(s) \in X /\ Tail(s) \in Seq(X) /\ s = <<Head(s)>> \o Tail(s) /\ s[1] = Head(s)
         /\ Len(Tail(s)) = Len(s) - 1 /\ \A i \in 1..(Len(s) - 1) : Tail(s)[i] = s[i + 1]
         /\ Len(s) \in Nat \ {0}
<1>1. /\ Head(s) \in X /\ Tail(s) \in Seq(X) /\ Len(Tail(s)) = Len(s) - 1
      /\ \A i \in 1..(Len(s) - 1) : Tail(s)[i] = s[i + 1]
  BY HeadTailProperties
<1>2. Len(s) \in Nat \ {0}
  BY EmptySeq, LenProperties
<1>3. s[1] = Head(s)
  BY <1>2
<1> DEFINE h == Head(s)
           r == Tail(s)
           t == <<h>> \o r
<1>4. h \in X /\ r \in Seq(X) /\ Len(r) = Len(s) - 1 /\ \A i \in 1..(Len(s) - 1) : r[i] = s[i + 1]
  BY <1>1
<1>5. s[1] = h
  BY <1>3
<1> HIDE DEF h, r
<1>6. <<h>> \in Seq(X) /\ Len(<<h>>) = 1 /\ <<h>>[1] = h
  BY <1>4
<1>7. t \in Seq(X) /\ Len(t) = 1 + Len(r)
      /\ \A i \in 1..(1 + Len(r)) : t[i] = IF i <= 1 THEN <<h>>[i] ELSE r[i - 1]
  <2> DEFINE o == <<h>>
  <2>1. o \in Seq(X) /\ Len(o) = 1
    BY <1>6
  <2> HIDE DEF o
  <2>2. /\ o \o r \in Seq(X) /\ Len(o \o r) = Len(o) + Len(r)
        /\ \A i \in 1..(Len(o) + Len(r)) : (o \o r)[i] = IF i <= Len(o) THEN o[i] ELSE r[i - Len(o)]
    <3>1. r \in Seq(X)
      BY <1>4
    <3>2. o \in Seq(X)
      BY <2>1
    <3>3. QED
      BY <3>1, <3>2, ConcatProperties
  <2>3. QED
    BY <2>1, <2>2 DEF o
<1> HIDE DEF t
<1>8. Len(t) = Len(s)
  BY <1>2, <1>4, <1>7
<1>9. ASSUME NEW i \in 1..Len(s) PROVE t[i] = s[i]
  <2>1. i \in 1..(1 + Len(r))
    BY <1>2, <1>4
  <2>2. CASE i = 1
    BY <1>5, <1>6, <1>7, <2>1, <2>2
  <2>3. CASE i # 1
    <3>1. i - 1 \in 1..(Len(s) - 1) /\ (i - 1) + 1 = i /\ ~(i <= 1)
      BY <1>2, <2>3
    <3>2. QED
      BY <1>4, <1>7, <2>1, <3>1
  <2>4. QED
    BY <2>2, <2>3
<1>10. s = t
  BY <1>7, <1>8, <1>9, SeqEqual
<1>11. QED
  BY <1>1, <1>2, <1>3, <1>10 DEF h, r, t

\* The next thunk of a jump, or its end (NextThunk), keeps the machine in order.
LEMMA NextThunkKeeps ==
  ASSUME NEW m, NEW jump \in Jump, NEW p, "call/cc" \in p, Stacks(m, Len(m.frames) + 1),
         ModeOK(m, p), JumpOK(jump), m.frames # <<>>
  PROVE  LET n == NextThunk(m, jump)
         IN  /\ n.frames # <<>>
             /\ \E v : /\ Sound(n, p, v)
                       /\ \A e \in Seq(Nat) :
                            Leads(e, jump.thunks, jump.target.winds) => EnteredOK(n, v, e)
<1> DEFINE n == NextThunk(m, jump)
           l == Len(m.frames)
<1>1. m \in VM /\ NoCatches(m) /\ JumpsOK(m) /\ m.transfer = NoTransfer
  BY DEF Stacks, ModeOK, NoCatches
<1>2. /\ jump.target \in Cont /\ jump.thunks \in Seq(Regs) /\ jump.target.winds \in Seq(Nat)
      /\ ContOK(jump.target)
      /\ \A i \in DOMAIN jump.thunks : jump.thunks[i].role \in ThunkKinds /\ jump.thunks[i].depth = 0
  BY DEF Jump, Cont, JumpOK
<1>3. m.frames \in Seq(Frames) /\ l \in Nat /\ m.winds \in Seq(Nat) /\ m.regs \in Regs
  BY <1>1, Parts
<1>4. CASE jump.thunks = <<>>
  <2> DEFINE c == jump.target
  <2>1. n = RestoreContinuation(m, c)
    BY <1>4 DEF NextThunk
  <2>2. PutsBack(m, c, n)
    BY <1>1, <1>2, <2>1, RestoreFacts
  <2> HIDE DEF n
  <2>3. /\ Stacks(n, 0) /\ NoCatches(n) /\ JumpsOK(n) /\ n.frames # <<>>
        /\ Enters(n.frames) = n.winds
    <3> DEFINE z == l + 1
    <3>1. Stacks(m, z)
      OBVIOUS
    <3> HIDE DEF z, c
    <3>2. QED
      BY <1>1, <2>2, <3>1, RestoreKeeps
  <2>4. n \in VM /\ n.winds = c.winds /\ Len(n.frames) \in Nat
    BY <2>2, Parts DEF PutsBack
  <2>5. ASSUME NEW e \in Seq(Nat), Leads(e, jump.thunks, c.winds) PROVE EnteredOK(n, 0, e)
    <3> DEFINE w == c.winds
    <3>1. Leads(e, <<>>, w) /\ w \in Seq(Nat)
      BY <1>2, <1>4, <2>5
    <3> HIDE DEF w
    <3>2. e = w
      BY <3>1, Nowhere
    <3>3. e = Enters(n.frames)
      BY <2>3, <2>4, <3>2 DEF w
    <3>4. QED
      BY <2>4, <3>3, EnteredAll
  <2>6. Sound(n, p, 0)
    BY <2>3, <2>4 DEF Sound, ModeOK
  <2>7. QED
    BY <2>3, <2>5, <2>6 DEF n
<1>5. CASE jump.thunks # <<>>
  <2> DEFINE h == Head(jump.thunks)
             j == [jump EXCEPT !.thunks = Tail(@)]
             f == Frame("ContinuationJump", m.regs, j)
             u == l + 1
  <2>1. n = SetupFrame(m, h, "ContinuationJump", j)
    BY <1>5 DEF NextThunk
  <2>2. /\ h \in Regs /\ Tail(jump.thunks) \in Seq(Regs)
        /\ jump.thunks = <<h>> \o Tail(jump.thunks) /\ h.role \in ThunkKinds /\ h.depth = 0
        /\ \A i \in DOMAIN Tail(jump.thunks) : /\ Tail(jump.thunks)[i].role \in ThunkKinds
                                               /\ Tail(jump.thunks)[i].depth = 0
    <3> DEFINE s == jump.thunks
    <3>1. /\ Head(s) \in Regs /\ Tail(s) \in Seq(Regs) /\ s = <<Head(s)>> \o Tail(s) /\ s[1] = Head(s)
          /\ Len(Tail(s)) = Len(s) - 1 /\ \A i \in 1..(Len(s) - 1) : Tail(s)[i] = s[i + 1]
          /\ Len(s) \in Nat \ {0} /\ DOMAIN s = 1..Len(s) /\ DOMAIN Tail(s) = 1..Len(Tail(s))
      <4>1. s \in Seq(Regs) /\ s # <<>>
        BY <1>2, <1>5
      <4> HIDE DEF s
      <4>2. /\ Head(s) \in Regs /\ Tail(s) \in Seq(Regs) /\ s = <<Head(s)>> \o Tail(s) /\ s[1] = Head(s)
            /\ Len(Tail(s)) = Len(s) - 1 /\ \A i \in 1..(Len(s) - 1) : Tail(s)[i] = s[i + 1]
            /\ Len(s) \in Nat \ {0}
        BY <4>1, HeadTail
      <4>3. DOMAIN s = 1..Len(s) /\ DOMAIN Tail(s) = 1..Len(Tail(s))
        BY <4>1, <4>2, LenProperties
      <4>4. QED
        BY <4>2, <4>3
    <3>2. 1 \in DOMAIN s /\ \A i \in 1..(Len(s) - 1) : i + 1 \in DOMAIN s
      BY <3>1
    <3>3. \A i \in DOMAIN s : s[i].role \in ThunkKinds /\ s[i].depth = 0
      BY <1>2
    <3> HIDE DEF s
    <3>4. \A i \in 1..(Len(s) - 1) : Tail(s)[i].role \in ThunkKinds /\ Tail(s)[i].depth = 0
      BY <3>1, <3>2, <3>3
    <3>5. QED
      BY <3>1, <3>2, <3>3, <3>4 DEF s
  <2>3. j \in Jump /\ j.target = jump.target /\ j.thunks = Tail(jump.thunks)
    BY <1>2, <2>2 DEF Jump
  <2> HIDE DEF h, j
  <2>4. f \in Frames /\ f.kind = "ContinuationJump" /\ f.regs = m.regs /\ f.extra = j
    BY <1>3, <2>3 DEF Frame, Frames, JumpFrame
  <2>5. JumpOK(f.extra)
    BY <1>2, <2>2, <2>3, <2>4 DEF JumpOK
  <2>6. /\ n \in VM /\ n.frames = Append(m.frames, f) /\ n.regs = h /\ n.winds = m.winds
        /\ n.catches = m.catches /\ n.transfer = m.transfer
    BY <1>1, <2>1, <2>2, <2>4, SetupFacts
  <2> HIDE DEF f, n
  <2>7. Pushes(m, u, f, n)
    <3>1. WindOf(f) = <<>> /\ Fits(f, h)
      BY <2>2, <2>4 DEF WindOf, WindKinds, Fits
    <3>2. n.winds = m.winds \o WindOf(f)
      <4>1. m.winds \o <<>> = m.winds
        BY <1>3, ConcatNothing
      <4>2. QED
        BY <2>6, <3>1, <4>1
    <3>3. f.kind \in Pending /\ f.kind # "ExceptionUnwind" /\ f.kind # "Sentinel"
      BY <2>4 DEF Pending
    <3>4. u \in 0..(l + 1) /\ u = l + 1
      BY <1>3
    <3>5. QED
      BY <1>1, <2>2, <2>4, <2>6, <3>1, <3>2, <3>3, <3>4 DEF Pushes
  <2>8. u \in Nat /\ Stacks(m, u)
    BY <1>3
  <2> HIDE DEF u
  <2>9. Stacks(n, u)
    BY <2>4, <2>7, <2>8, PushKeeps
  <2>10. ModeOK(n, p)
    BY <2>4, <2>5, <2>7, <2>8, ModePush
  <2>11. /\ Len(n.frames) = u /\ n.frames[u] = f /\ n.frames # <<>> /\ u \in DOMAIN n.frames
    <3>1. /\ Len(Append(m.frames, f)) = l + 1 /\ Append(m.frames, f)[l + 1] = f
          /\ Append(m.frames, f) # <<>> /\ DOMAIN Append(m.frames, f) = 1..(l + 1)
      BY <1>3, <2>4, AppendProperties, LenProperties
    <3>2. u = l + 1 /\ u \in 1..u
      BY <1>3 DEF u
    <3> DEFINE q == Append(m.frames, f)
    <3>3. Len(q) = u /\ q[u] = f /\ q # <<>> /\ DOMAIN q = 1..u /\ n.frames = q
      BY <2>6, <3>1, <3>2
    <3> HIDE DEF q
    <3>4. QED
      BY <3>2, <3>3
  <2>12. ASSUME NEW e \in Seq(Nat), Leads(e, jump.thunks, jump.target.winds) PROVE EnteredOK(n, u, e)
    <3>1. Above(n.frames, n.regs, u) = h
      <4>1. Above(n.frames, n.regs, Len(n.frames)) = n.regs
        BY DEF Above
      <4>2. QED
        BY <2>6, <2>11, <4>1
    <3>2. Run(h.role, h.extent) = h
      BY <2>2 DEF Run, Regs
    <3>3. Leads(e, <<Run(h.role, h.extent)>> \o f.extra.thunks, f.extra.target.winds)
      BY <2>2, <2>3, <2>4, <2>12, <3>2
    <3>4. Base(n, u, e)
      BY <2>4, <2>11, <3>1, <3>3 DEF Base
    <3>5. QED
      BY <2>6, <2>11, <3>4, EnteredTop
  <2>13. Sound(n, p, u)
    BY <2>8, <2>9, <2>10, <2>11 DEF Sound
  <2>14. QED
    BY <2>11, <2>12, <2>13 DEF n
<1>6. QED
  BY <1>4, <1>5

-----------------------------------------------------------------------------
(* Resuming a transfer.                                                    *)

\* resize() to fewer elements cuts.
LEMMA ResizeCut ==
  ASSUME NEW X, NEW s \in Seq(X), NEW n \in 0..Len(s), NEW default
  PROVE  Resize(s, n, default) = SubSeq(s, 1, n)
<1> DEFINE r == [i \in 1..n |-> s[i]]
           t == SubSeq(s, 1, n)
<1>1. Len(s) \in Nat /\ n \in Nat /\ \A i \in 1..n : i <= Len(s) /\ i \in 1..Len(s)
  BY LenProperties
<1>2. Resize(s, n, default) = r
  BY <1>1 DEF Resize
<1>3. \A i \in 1..n : s[i] \in X
  BY <1>1, ElementOfSeq
<1>4. r \in Seq(X) /\ Len(r) = n /\ \A i \in 1..n : r[i] = s[i]
  BY <1>1, <1>3, SeqDef
<1>5. t \in Seq(X) /\ Len(t) = n /\ \A i \in 1..n : t[i] = s[i]
  BY Cut
<1> HIDE DEF r, t
<1>6. r = t
  BY <1>4, <1>5, SeqEqual
<1>7. QED
  BY <1>2, <1>6 DEF t

\* The fields Land changes.
LEMMA LandIs ==
  ASSUME NEW m \in VM, NEW cf \in CatchFrame, m.winds = Winds(m.frames),
         LandsIn(cf, m.frames, m.regs)
  PROVE  LET n == Land(m, cf)
         IN  /\ n \in VM /\ n.frames = SubSeq(m.frames, 1, cf.frame_count) /\ n.regs = cf.regs
             /\ n.winds = SubSeq(m.winds, 1, cf.wind_count) /\ n.catches = m.catches
             /\ n.transfer = NoTransfer /\ cf.wind_count <= Len(m.winds)
             /\ cf.frame_count \in 0..Len(m.frames)
<1> DEFINE s == m.frames
           w == m.winds
           k == cf.frame_count
           c == cf.wind_count
           n == [m EXCEPT !.frames = SubSeq(s, 1, k), !.winds = SubSeq(w, 1, c), !.regs = cf.regs,
                          !.transfer = NoTransfer]
<1>1. s \in Seq(Frames) /\ w \in Seq(Nat) /\ Len(s) \in Nat /\ Len(w) \in Nat
  BY Parts, LenProperties
<1>2. k \in Nat /\ c \in Nat /\ cf.regs \in Regs /\ k <= Len(s) /\ c = Len(Winds(SubSeq(s, 1, k)))
  BY DEF CatchFrame, LandsIn
<1>3. k \in 0..Len(s)
  BY <1>1, <1>2
<1>4. c \in 0..Len(w)
  <2> DEFINE a == Winds(SubSeq(s, 1, k))
             b == Winds(SubSeq(s, k + 1, Len(s)))
  <2>1. w = Winds(s)
    OBVIOUS
  <2> HIDE DEF s, k, w
  <2>2. Winds(s) = a \o b /\ SubSeq(s, 1, k) \in Seq(Frames) /\ SubSeq(s, k + 1, Len(s)) \in Seq(Frames)
    BY <1>1, <1>3, WindsSplit, Cut
  <2>3. a \in Seq(Nat) /\ b \in Seq(Nat)
    BY <2>2, WindsLaws
  <2>4. c = Len(a)
    BY <1>2 DEF s, k
  <2> HIDE DEF a, b, c
  <2>5. Len(a \o b) = Len(a) + Len(b) /\ Len(a) \in Nat /\ Len(b) \in Nat
    BY <2>3, ConcatProperties, LenProperties
  <2>6. QED
    BY <2>1, <2>2, <2>4, <2>5
<1>5. Resize(s, k, Frame("Normal", NoRun, 0)) = SubSeq(s, 1, k)
  <2> HIDE DEF s, k
  <2>1. QED
    BY <1>1, <1>3, ResizeCut
<1>6. Resize(w, c, 0) = SubSeq(w, 1, c)
  <2> HIDE DEF w, c
  <2>1. QED
    BY <1>1, <1>4, ResizeCut
<1>7. SubSeq(s, 1, k) \in Seq(Frames) /\ SubSeq(w, 1, c) \in Seq(Nat)
  <2> HIDE DEF s, k, w, c
  <2>1. SubSeq(s, 1, k) \in Seq(Frames)
    BY <1>1, <1>3, Cut
  <2>2. SubSeq(w, 1, c) \in Seq(Nat)
    BY <1>1, <1>4, Cut
  <2>3. QED
    BY <2>1, <2>2
<1>8. Land(m, cf) = n
  BY <1>5, <1>6 DEF Land
<1> DEFINE x == SubSeq(s, 1, k)
           y == SubSeq(w, 1, c)
<1>9. /\ n \in VM /\ n.frames = x /\ n.regs = cf.regs
      /\ n.winds = y /\ n.catches = m.catches /\ n.transfer = NoTransfer
  <2> HIDE DEF x, y
  <2>1. x \in Seq(Frames) /\ y \in Seq(Nat)
    BY <1>7 DEF x, y
  <2> DEFINE z == [m EXCEPT !.frames = x, !.winds = y, !.regs = cf.regs, !.transfer = NoTransfer]
  <2>2. /\ z \in VM /\ z.frames = x /\ z.regs = cf.regs
        /\ z.winds = y /\ z.catches = m.catches /\ z.transfer = NoTransfer
    BY <1>2, <2>1 DEF VM
  <2>3. z = n
    BY DEF x, y
  <2> HIDE DEF z, n
  <2>4. QED
    BY <2>2, <2>3
<1> HIDE DEF n
<1>10. QED
  BY <1>1, <1>3, <1>4, <1>8, <1>9

\* A list read backwards.
LEMMA ReverseLaws ==
  ASSUME NEW X, NEW s \in Seq(X)
  PROVE  /\ Reverse(s) \in Seq(X) /\ Len(Reverse(s)) = Len(s)
         /\ \A i \in 1..Len(s) : Reverse(s)[i] = s[Len(s) + 1 - i]
         /\ Reverse(Reverse(s)) = s
<1>1. ASSUME NEW t \in Seq(X)
      PROVE  /\ Reverse(t) \in Seq(X) /\ Len(Reverse(t)) = Len(t)
             /\ \A i \in 1..Len(t) : Reverse(t)[i] = t[Len(t) + 1 - i]
  <2> DEFINE l == Len(t)
             r == [i \in 1..l |-> t[(l - i) + 1]]
  <2>1. l \in Nat /\ \A i \in 1..l : (l - i) + 1 \in 1..l /\ (l - i) + 1 = l + 1 - i
    BY LenProperties
  <2>2. r = Reverse(t)
    BY DEF Reverse
  <2>3. \A i \in 1..l : t[i] \in X
    BY ElementOfSeq
  <2> HIDE DEF l
  <2>4. r \in Seq(X) /\ Len(r) = l /\ \A i \in 1..l : r[i] = t[(l - i) + 1]
    BY <2>1, <2>3, SeqDef
  <2> HIDE DEF r
  <2>5. \A i \in 1..l : r[i] = t[l + 1 - i]
    BY <2>1, <2>4
  <2>6. QED
    BY <2>2, <2>4, <2>5 DEF l
<1> DEFINE r == Reverse(s)
           z == Reverse(r)
<1>2. r \in Seq(X) /\ Len(r) = Len(s) /\ \A i \in 1..Len(s) : r[i] = s[Len(s) + 1 - i]
  BY <1>1
<1> HIDE DEF r
<1>3. z \in Seq(X) /\ Len(z) = Len(r) /\ \A i \in 1..Len(r) : z[i] = r[Len(r) + 1 - i]
  BY <1>1, <1>2
<1> HIDE DEF z
<1>4. Len(s) \in Nat
  BY LenProperties
<1>5. ASSUME NEW i \in 1..Len(s) PROVE z[i] = s[i]
  <2> DEFINE j == Len(s) + 1 - i
  <2>1. j \in 1..Len(s) /\ Len(s) + 1 - j = i
    BY <1>4
  <2>2. z[i] = r[j]
    BY <1>2, <1>3
  <2> HIDE DEF j
  <2>3. QED
    BY <1>2, <2>1, <2>2
<1>6. z = s
  BY <1>2, <1>3, <1>5, SeqEqual
<1>7. QED
  BY <1>2, <1>6 DEF r, z

\* Reverse, from the first element.
LEMMA ReverseStep ==
  ASSUME NEW X, NEW s \in Seq(X), s # <<>>
  PROVE  Reverse(s) = Append(Reverse(Tail(s)), Head(s)) /\ Reverse(Tail(s)) \in Seq(X)
<1> DEFINE h == Head(s)
           t == Tail(s)
           l == Len(s)
           a == Reverse(s)
           b == Reverse(t)
           c == Append(b, h)
<1>1. h \in X /\ t \in Seq(X) /\ s[1] = h /\ Len(t) = l - 1 /\ l \in Nat \ {0}
      /\ \A i \in 1..(l - 1) : t[i] = s[i + 1]
  BY HeadTail
<1> HIDE DEF h, t
<1>2. a \in Seq(X) /\ Len(a) = l /\ \A i \in 1..l : a[i] = s[l + 1 - i]
  BY ReverseLaws
<1>3. b \in Seq(X) /\ Len(b) = l - 1 /\ \A i \in 1..(l - 1) : b[i] = t[l - i]
  <2>1. b \in Seq(X) /\ Len(b) = Len(t) /\ \A i \in 1..Len(t) : b[i] = t[Len(t) + 1 - i]
    BY <1>1, ReverseLaws
  <2>2. \A i \in 1..(l - 1) : (l - 1) + 1 - i = l - i
    BY <1>1
  <2> HIDE DEF b
  <2>3. QED
    BY <1>1, <2>1, <2>2
<1> HIDE DEF a, b
<1>4. c \in Seq(X) /\ Len(c) = (l - 1) + 1 /\ c[(l - 1) + 1] = h /\ \A i \in 1..(l - 1) : c[i] = b[i]
  <2>1. c \in Seq(X) /\ Len(c) = Len(b) + 1 /\ c[Len(b) + 1] = h /\ \A i \in 1..Len(b) : c[i] = b[i]
    BY <1>1, <1>3, AppendProperties
  <2>2. QED
    BY <1>3, <2>1
<1> HIDE DEF c
<1>5. ASSUME NEW i \in 1..l PROVE a[i] = c[i]
  <2>1. CASE i = l
    <3>1. l + 1 - i = 1 /\ (l - 1) + 1 = i
      BY <1>1, <2>1
    <3>2. QED
      BY <1>1, <1>2, <1>4, <3>1
  <2>2. CASE i # l
    <3>1. i \in 1..(l - 1) /\ l - i \in 1..(l - 1) /\ (l - i) + 1 = l + 1 - i
      BY <1>1, <2>2
    <3>2. c[i] = t[l - i] /\ t[l - i] = s[(l - i) + 1]
      BY <1>1, <1>3, <1>4, <3>1
    <3>3. QED
      BY <1>2, <3>1, <3>2
  <2>3. QED
    BY <2>1, <2>2
<1>6. Len(a) = Len(c)
  BY <1>1, <1>2, <1>4
<1>7. a = c
  BY <1>2, <1>4, <1>5, <1>6, SeqEqual
<1>8. QED
  BY <1>3, <1>7 DEF a, b, c, h, t

\* The next thunk of a raise, or its landing (ResumeTransfer), keeps the machine in order.
LEMMA ResumeKeeps ==
  ASSUME NEW m, NEW p, "call/cc" \notin p, Stacks(m, Len(m.frames) + 1), ModeOK(m, p),
         m.transfer # NoTransfer, m.frames # <<>>
  PROVE  LET n == ResumeTransfer(m)
         IN  \E v : /\ Sound(n, p, v)
                    /\ EnteredOK(n, v, Enters(SubSeq(m.frames, 1, m.transfer.target.frame_count))
                                         \o Reverse(m.transfer.thunks))
<1> DEFINE n == ResumeTransfer(m)
           l == Len(m.frames)
           k == m.transfer.target.frame_count
           th == m.transfer.thunks
           P == Enters(SubSeq(m.frames, 1, k))
<1>1. m \in VM /\ m.winds = Winds(m.frames) /\ m.transfer \in Transfer
  <2>1. m \in VM /\ m.winds = Winds(m.frames)
    BY DEF Stacks
  <2>2. QED
    BY <2>1, Parts
<1>2. m.frames \in Seq(Frames) /\ l \in Nat /\ m.winds \in Seq(Nat) /\ m.regs \in Regs
  BY <1>1, Parts
<1>3. /\ m.transfer.target \in CatchFrame /\ k \in Nat /\ th \in Seq(Nat)
      /\ LandsIn(m.transfer.target, m.frames, m.regs) /\ k < l + 1
  BY <1>1, <1>2 DEF Transfer, CatchFrame, Stacks, TransferOK
<1>4. P \in Seq(Nat) /\ k \in 0..l
  <2>1. k \in 0..l
    BY <1>2, <1>3
  <2> HIDE DEF k
  <2>2. SubSeq(m.frames, 1, k) \in Seq(Frames)
    BY <1>2, <2>1, Cut
  <2>3. QED
    BY <2>1, <2>2, WindsLaws
<1>5. CASE th = <<>>
  <2> DEFINE cf == m.transfer.target
  <2>1. n = Land(m, cf)
    BY <1>5 DEF ResumeTransfer
  <2> HIDE DEF n
  <2>2. /\ n \in VM /\ n.frames = SubSeq(m.frames, 1, k) /\ n.regs = cf.regs
        /\ n.winds = SubSeq(m.winds, 1, cf.wind_count) /\ n.catches = m.catches
        /\ n.transfer = NoTransfer
    BY <1>1, <1>3, <2>1, LandIs
  <2>3. LandsTransfer(m, l + 1, n)
    BY <1>3, <2>2 DEF LandsTransfer, Lands
  <2>4. Stacks(n, 0)
    <3> DEFINE u == l + 1
    <3>1. Stacks(m, u) /\ LandsTransfer(m, u, n)
      BY <2>3
    <3> HIDE DEF u
    <3>2. QED
      BY <3>1, TransferLands
  <2>5. Len(n.frames) = k /\ \A i \in 1..k : n.frames[i] = m.frames[i]
    <3> HIDE DEF k
    <3>1. QED
      BY <1>2, <1>4, <2>2, Cut
  <2>6. ModeOK(n, p)
    <3>1. Len(n.frames) <= Len(m.frames) /\ \A i \in 1..Len(n.frames) : n.frames[i] = m.frames[i]
      BY <1>2, <1>4, <2>5
    <3>2. QED
      BY <1>1, <2>2, <3>1, ModeCut
  <2>7. P \o Reverse(th) = P
    <3>1. Reverse(th) = <<>>
      BY <1>5 DEF Reverse
    <3> HIDE DEF P, th
    <3>2. P \o <<>> = P
      BY <1>4, ConcatNothing
    <3>3. QED
      BY <3>1, <3>2
  <2>8. P = Enters(n.frames)
    BY <2>2
  <2>9. EnteredOK(n, 0, P)
    BY <2>2, <2>8, EnteredAll
  <2>10. Sound(n, p, 0)
    BY <1>4, <2>4, <2>5, <2>6 DEF Sound
  <2>11. QED
    BY <2>7, <2>9, <2>10 DEF n
<1>6. CASE th # <<>>
  <2> DEFINE h == Head(th)
             r == Tail(th)
             g == [m EXCEPT !.transfer.thunks = Tail(@)]
             f == Frame("ExceptionUnwind", m.regs, 0)
             u == l + 1
             y == Reverse(r)
  <2>1. n = SetupFrame(g, Run("after", h), "ExceptionUnwind", 0)
    BY <1>6 DEF ResumeTransfer
  <2>2. h \in Nat /\ r \in Seq(Nat)
    <3> HIDE DEF th
    <3>1. QED
      BY <1>3, <1>6, HeadTail
  <2>3. /\ g \in VM /\ g.frames = m.frames /\ g.regs = m.regs /\ g.winds = m.winds
        /\ g.catches = m.catches /\ g.transfer = [m.transfer EXCEPT !.thunks = r]
    <3>1. [m.transfer EXCEPT !.thunks = r] \in Transfer
      BY <1>1, <2>2 DEF Transfer
    <3>2. g = [m EXCEPT !.transfer = [m.transfer EXCEPT !.thunks = r]]
      BY <1>1 DEF VM
    <3> HIDE DEF g, r
    <3>3. QED
      BY <1>1, <3>1, <3>2 DEF VM
  <2>4. /\ g.transfer \in Transfer /\ g.transfer.target = m.transfer.target /\ g.transfer.thunks = r
        /\ g.transfer # NoTransfer
    <3>1. g.transfer \in Transfer /\ g.transfer.target = m.transfer.target /\ g.transfer.thunks = r
      <4> HIDE DEF g, r
      <4>1. QED
        BY <1>1, <2>2, <2>3 DEF Transfer
    <3>2. QED
      BY <3>1, ControlAssumption
  <2>5. f \in Frames /\ f.kind = "ExceptionUnwind" /\ f.regs = m.regs /\ Run("after", h) \in Regs
    BY <1>2, <2>2 DEF Frame, Frames, PlainFrame, PlainKinds, Run, Regs, Roles
  <2> HIDE DEF h, r, g
  <2>6. /\ n \in VM /\ n.frames = Append(m.frames, f) /\ n.regs = Run("after", h) /\ n.winds = m.winds
        /\ n.catches = m.catches /\ n.transfer = g.transfer
    <3>1. Frame("ExceptionUnwind", g.regs, 0) = f
      BY <2>3
    <3> HIDE DEF f, n
    <3>2. Frame("ExceptionUnwind", g.regs, 0) \in Frames
      BY <2>5, <3>1
    <3>3. LET z == SetupFrame(g, Run("after", h), "ExceptionUnwind", 0)
          IN  /\ z \in VM /\ z.frames = Append(g.frames, Frame("ExceptionUnwind", g.regs, 0))
              /\ z.regs = Run("after", h) /\ z.winds = g.winds /\ z.catches = g.catches
              /\ z.transfer = g.transfer
      BY <2>3, <2>5, <3>2, SetupFacts
    <3>4. QED
      BY <2>1, <2>3, <3>1, <3>3
  <2> HIDE DEF f, n
  <2>7. n.regs.role = "after" /\ n.regs.extent = h /\ n.regs.depth = 0
    BY <2>6 DEF Run
  <2>8. Pushes(m, u, f, n)
    <3>1. WindOf(f) = <<>> /\ Fits(f, n.regs)
      BY <2>5, <2>7 DEF WindOf, WindKinds, Fits, ThunkKinds
    <3>2. n.winds = m.winds \o WindOf(f)
      <4>1. m.winds \o <<>> = m.winds
        BY <1>2, ConcatNothing
      <4>2. QED
        BY <2>6, <3>1, <4>1
    <3>3. f.kind \in Pending /\ f.kind # "Sentinel"
      BY <2>5 DEF Pending
    <3>4. u \in 0..(l + 1) /\ u = l + 1
      BY <1>2
    <3>5. QED
      BY <2>4, <2>5, <2>6, <2>7, <3>1, <3>2, <3>3, <3>4 DEF Pushes
  <2>9. u \in Nat /\ Stacks(m, u)
    BY <1>2
  <2> HIDE DEF u
  <2>10. Stacks(n, u)
    BY <2>5, <2>8, <2>9, PushKeeps
  <2>11. ModeOK(n, p)
    BY <2>5, <2>8, <2>9, ModePush
  <2>12. /\ Len(n.frames) = u /\ n.frames[u] = f /\ u \in DOMAIN n.frames
         /\ \A i \in 1..l : n.frames[i] = m.frames[i]
    <3>1. /\ Len(Append(m.frames, f)) = l + 1 /\ Append(m.frames, f)[l + 1] = f
          /\ DOMAIN Append(m.frames, f) = 1..(l + 1)
          /\ \A i \in 1..l : Append(m.frames, f)[i] = m.frames[i]
      BY <1>2, <2>5, AppendProperties, LenProperties
    <3>2. u = l + 1 /\ u \in 1..u
      BY <1>2 DEF u
    <3> DEFINE q == Append(m.frames, f)
    <3>3. Len(q) = u /\ q[u] = f /\ DOMAIN q = 1..u /\ n.frames = q /\ \A i \in 1..l : q[i] = m.frames[i]
      BY <2>6, <3>1, <3>2
    <3> HIDE DEF q
    <3>4. QED
      BY <3>2, <3>3
  <2>13. SubSeq(n.frames, 1, k) = SubSeq(m.frames, 1, k)
    <3> DEFINE a == SubSeq(n.frames, 1, k)
               b == SubSeq(m.frames, 1, k)
    <3>1. n.frames \in Seq(Frames) /\ k \in 0..Len(n.frames)
      BY <1>2, <1>4, <2>6, <2>12, Parts DEF u
    <3> HIDE DEF k
    <3>2. a \in Seq(Frames) /\ Len(a) = k /\ \A i \in 1..k : a[i] = n.frames[i]
      BY <3>1, Cut
    <3>3. b \in Seq(Frames) /\ Len(b) = k /\ \A i \in 1..k : b[i] = m.frames[i]
      BY <1>2, <1>4, Cut
    <3> HIDE DEF a, b
    <3>4. \A i \in 1..k : i \in 1..l
      BY <1>2, <1>4
    <3>5. \A i \in 1..k : a[i] = b[i]
      BY <2>12, <3>2, <3>3, <3>4
    <3>6. a = b
      BY <3>2, <3>3, <3>5, SeqEqual
    <3>7. QED
      BY <3>6 DEF a, b
  <2>14. Reverse(th) = Append(y, h) /\ y \in Seq(Nat)
    <3> HIDE DEF th
    <3>1. Reverse(th) = Append(Reverse(Tail(th)), Head(th)) /\ Reverse(Tail(th)) \in Seq(Nat)
      BY <1>3, <1>6, ReverseStep
    <3>2. QED
      BY <3>1 DEF h, r
  <2> DEFINE D == Append(P \o y, h)
  <2>15. P \o Reverse(th) = D /\ D \in Seq(Nat)
    <3> HIDE DEF P, y, th
    <3>1. P \o Append(y, h) = Append(P \o y, h)
      <4>1. P \in Seq(Nat) /\ y \in Seq(Nat) /\ h \in Nat
        BY <1>4, <2>2, <2>14
      <4>2. QED
        BY <4>1, NatConcat
    <3>2. P \o y \in Seq(Nat)
      BY <1>4, <2>14, ConcatProperties
    <3> DEFINE z == P \o y
    <3> HIDE DEF z
    <3>3. Append(z, h) \in Seq(Nat)
      BY SMTT(40), <2>2, <3>2, AppendProperties DEF z
    <3>4. QED
      BY <2>14, <3>1, <3>3 DEF z
  <2>16. Base(n, u, D)
    <3>1. Above(n.frames, n.regs, u) = n.regs
      <4>1. Above(n.frames, n.regs, Len(n.frames)) = n.regs
        BY DEF Above
      <4>2. QED
        BY <2>12, <4>1
    <3>2. n.transfer.target.frame_count = k /\ n.transfer.thunks = r
      BY <2>4, <2>6
    <3>3. D = Append(Enters(SubSeq(n.frames, 1, n.transfer.target.frame_count))
                       \o Reverse(n.transfer.thunks), Above(n.frames, n.regs, u).extent)
      BY <2>7, <2>13, <3>1, <3>2
    <3>4. QED
      BY <2>5, <2>12, <3>3 DEF Base
  <2> HIDE DEF D
  <2>17. EnteredOK(n, u, D)
    BY <2>6, <2>12, <2>15, <2>16, EnteredTop
  <2>18. Sound(n, p, u)
    BY <2>9, <2>10, <2>11, <2>12 DEF Sound
  <2>19. QED
    BY <2>15, <2>17, <2>18 DEF n
<1>7. QED
  BY <1>5, <1>6

-----------------------------------------------------------------------------
(* The effect of a thunk.                                                  *)

\* What the return of r leaves of the extents e entered.
Effect(e, r) ==
  CASE r.role = "before" -> Append(e, r.extent)
    [] r.role = "after"  -> IF e # <<>> /\ Last(e) = r.extent THEN Front(e) ELSE Append(e, r.extent)
    [] OTHER             -> e

\* What a thunk that returns has entered or left.
LEMMA EffectType == \A e \in Seq(Nat), r \in Regs : Effect(e, r) \in Seq(Nat)
<1>1. ASSUME NEW e \in Seq(Nat), NEW r \in Regs PROVE Effect(e, r) \in Seq(Nat)
  <2>1. r.extent \in Nat
    BY DEF Regs
  <2>2. Append(e, r.extent) \in Seq(Nat)
    BY <2>1, AppendProperties
  <2>3. e # <<>> => Front(e) \in Seq(Nat)
    BY FrontLast
  <2>4. QED
    BY <2>2, <2>3 DEF Effect
<1>2. QED
  BY <1>1

\* A before thunk enters its extent, an after thunk leaves it.
LEMMA EffectLaws ==
  ASSUME NEW e, NEW r
  PROVE  /\ r.role = "before" => Effect(e, r) = Append(e, r.extent)
         /\ r.role = "after" /\ e # <<>> /\ Last(e) = r.extent => Effect(e, r) = Front(e)
         /\ r.role \notin ThunkKinds => Effect(e, r) = e
<1>1. QED
  BY DEF Effect, ThunkKinds

\* Equal prefixes are equal element by element.
LEMMA SamePrefix ==
  ASSUME NEW X, NEW s \in Seq(X), NEW t \in Seq(X), NEW n \in 0..Len(s), n <= Len(t)
  PROVE  SubSeq(s, 1, n) = SubSeq(t, 1, n) <=> \A i \in 1..n : s[i] = t[i]
<1> DEFINE a == SubSeq(s, 1, n)
           b == SubSeq(t, 1, n)
<1>1. n \in 0..Len(t)
  BY LenProperties
<1>2. /\ a \in Seq(X) /\ b \in Seq(X) /\ Len(a) = n /\ Len(b) = n
      /\ \A i \in 1..n : a[i] = s[i] /\ b[i] = t[i]
  BY <1>1, Cut
<1> HIDE DEF a, b
<1>3. a = b => \A i \in 1..n : s[i] = t[i]
  BY <1>2
<1>4. ASSUME \A i \in 1..n : s[i] = t[i] PROVE a = b
  <2>1. \A i \in 1..n : a[i] = b[i]
    BY <1>2, <1>4
  <2>2. QED
    BY <1>2, <2>1, SeqEqual
<1>5. a = b <=> \A i \in 1..n : s[i] = t[i]
  BY <1>3, <1>4
<1>6. QED
  BY <1>5 DEF a, b

\* When a thunk of a jump has returned, the rest of the list leads on.
LEMMA LeadsNext ==
  ASSUME NEW D \in Seq(Nat), NEW w \in Seq(Nat), NEW now \in Regs, NEW list \in Seq(Regs),
         Leads(D, <<Run(now.role, now.extent)>> \o list, w), now.role \in ThunkKinds
  PROVE  Leads(Effect(D, now), list, w)
<1> DEFINE x == Run(now.role, now.extent)
           o == <<x>>
           full == o \o list
           E == Effect(D, now)
           d == Len(D)
           c == Len(w)
<1>1. x \in Regs /\ x.role = now.role /\ x.extent = now.extent /\ now.extent \in Nat
  BY DEF Run, Regs
<1>2. Leads(D, full, w)
  OBVIOUS
<1> HIDE DEF x
<1>3. o \in Seq(Regs) /\ Len(o) = 1 /\ o[1] = x
  BY <1>1
<1> HIDE DEF o
<1>4. /\ Len(full) = 1 + Len(list) /\ full[1] = x /\ \A i \in 1..Len(list) : full[i + 1] = list[i]
      /\ Len(list) \in Nat
  <2>1. /\ Len(full) = 1 + Len(list) /\ Len(list) \in Nat
        /\ \A i \in 1..(1 + Len(list)) : full[i] = IF i <= 1 THEN o[i] ELSE list[i - 1]
    <3>1. /\ Len(full) = Len(o) + Len(list)
          /\ \A i \in 1..(Len(o) + Len(list)) : full[i] = IF i <= Len(o) THEN o[i] ELSE list[i - Len(o)]
      BY <1>3, ConcatProperties
    <3>2. QED
      BY <1>3, <3>1, LenProperties
  <2>2. 1 \in 1..(1 + Len(list)) /\ \A i \in 1..Len(list) :
          i + 1 \in 1..(1 + Len(list)) /\ ~(i + 1 <= 1) /\ (i + 1) - 1 = i
    BY <2>1
  <2> HIDE DEF full
  <2>3. full[1] = x
    BY <1>3, <2>1, <2>2
  <2>4. QED
    BY <2>1, <2>2, <2>3
<1> HIDE DEF full
<1>5. PICK p \in 0..d : /\ p <= c /\ SubSeq(D, 1, p) = SubSeq(w, 1, p)
                        /\ Len(full) = (d - p) + (c - p)
                        /\ \A i \in 1..(d - p) : full[i] = Run("after", D[d + 1 - i])
                        /\ \A i \in 1..(c - p) : full[d - p + i] = Run("before", w[p + i])
  BY <1>2 DEF Leads
<1>6. d \in Nat /\ c \in Nat /\ p \in Nat /\ p <= d
  BY <1>5, LenProperties
<1>7. \A i \in 1..p : D[i] = w[i]
  BY <1>5, SamePrefix
<1> HIDE DEF d, c
<1>12. /\ 1 + Len(list) = (d - p) + (c - p) /\ Len(list) \in Nat /\ p <= c
       /\ d \in Nat /\ c \in Nat /\ p \in Nat /\ p <= d
  BY <1>4, <1>5, <1>6
<1>8. CASE d > p
  <2>1. now.role = "after" /\ now.extent = D[d]
    <3>1. 1 \in 1..(d - p) /\ d + 1 - 1 = d
      BY <1>6, <1>8
    <3>2. x = Run("after", D[d])
      BY <1>4, <1>5, <3>1
    <3>3. QED
      BY <1>1, <3>2 DEF Run
  <2>2. D # <<>>
    BY <1>6, <1>8, EmptySeq DEF d
  <2>3. /\ Front(D) \in Seq(Nat) /\ Len(Front(D)) = d - 1
        /\ \A i \in 1..(d - 1) : Front(D)[i] = D[i]
    BY <2>2, FrontLast DEF d
  <2>4. E = Front(D)
    BY <2>1, <2>2, EffectLaws DEF Last, d
  <2>5. E \in Seq(Nat) /\ Len(E) = d - 1 /\ \A i \in 1..(d - 1) : E[i] = D[i]
    BY <2>3, <2>4
  <2> HIDE DEF E
  <2>6. p \in 0..Len(E) /\ p <= c
    BY <1>5, <1>6, <1>8, <2>5
  <2>7. SubSeq(E, 1, p) = SubSeq(w, 1, p)
    <3>1. \A i \in 1..p : E[i] = w[i]
      BY <1>6, <1>7, <1>8, <2>5
    <3>2. QED
      BY <2>5, <2>6, <3>1, SamePrefix DEF c
  <2>8. Len(list) = (Len(E) - p) + (c - p)
    <3>1. Len(E) = d - 1
      BY <2>5
    <3>2. QED
      BY <1>12, <3>1
  <2>9. ASSUME NEW i \in 1..(Len(E) - p) PROVE list[i] = Run("after", E[Len(E) + 1 - i])
    <3>1. /\ i + 1 \in 1..(d - p) /\ i \in 1..Len(list) /\ d + 1 - (i + 1) = Len(E) + 1 - i
          /\ Len(E) + 1 - i \in 1..(d - 1)
      BY <1>4, <1>5, <1>6, <1>8, <2>5
    <3>2. full[i + 1] = list[i]
      BY <1>4, <3>1
    <3>3. full[i + 1] = Run("after", D[Len(E) + 1 - i])
      BY <1>5, <3>1
    <3>4. E[Len(E) + 1 - i] = D[Len(E) + 1 - i]
      BY <2>5, <3>1
    <3>5. QED
      BY <3>2, <3>3, <3>4
  <2>10. ASSUME NEW i \in 1..(c - p) PROVE list[Len(E) - p + i] = Run("before", w[p + i])
    <3> DEFINE k == Len(E) - p + i
    <3>1. k + 1 = d - p + i /\ k \in 1..Len(list)
      BY <1>4, <1>5, <1>6, <1>8, <2>5
    <3> HIDE DEF k
    <3>2. full[k + 1] = list[k]
      BY <1>4, <3>1
    <3>3. QED
      BY <1>5, <3>1, <3>2 DEF k
  <2>11. QED
    BY <2>6, <2>7, <2>8, <2>9, <2>10 DEF Leads, E, c
<1>9. CASE d = p
  <2> DEFINE q == p + 1
  <2>1. c > p /\ 1 \in 1..(c - p) /\ d - p + 1 = 1 /\ q \in 1..c /\ p + 1 = q
    <3>1. 1 + Len(list) = c - p /\ Len(list) \in Nat /\ d - p = 0
      BY ONLY <1>9, <1>12
    <3>2. c > p
      BY ONLY <1>12, <3>1
    <3>3. QED
      BY ONLY <1>12, <3>1, <3>2 DEF q
  <2>2. now.role = "before" /\ now.extent = w[q]
    <3>1. x = Run("before", w[q])
      BY <1>4, <1>5, <2>1
    <3>2. QED
      BY <1>1, <3>1 DEF Run
  <2>3. E = Append(D, w[q])
    BY <2>2, EffectLaws
  <2>4. E \in Seq(Nat) /\ Len(E) = q /\ E[q] = w[q] /\ \A i \in 1..p : E[i] = D[i]
    <3>1. w[q] \in Nat
      BY <1>1, <2>2
    <3> DEFINE y == w[q]
    <3> HIDE DEF y, q, E
    <3>2. /\ Append(D, y) \in Seq(Nat) /\ Len(Append(D, y)) = Len(D) + 1
          /\ Append(D, y)[Len(D) + 1] = y /\ \A i \in 1..Len(D) : Append(D, y)[i] = D[i]
      BY <3>1, AppendProperties DEF y
    <3>3. E = Append(D, y) /\ Len(D) = p /\ p + 1 = q
      BY <1>9, <2>3 DEF d, y, q
    <3>4. QED
      BY <3>2, <3>3 DEF y
  <2> HIDE DEF E
  <2>5. q \in 0..Len(E) /\ q <= c
    BY <1>6, <2>1, <2>4
  <2>6. SubSeq(E, 1, q) = SubSeq(w, 1, q)
    <3>1. \A i \in 1..q : i \in 1..p \/ i = q
      BY <1>6
    <3>2. \A i \in 1..q : E[i] = w[i]
      BY <1>7, <2>4, <3>1
    <3> HIDE DEF q
    <3>3. QED
      BY <2>4, <2>5, <3>2, SamePrefix DEF c
  <2>7. Len(list) = (Len(E) - q) + (c - q)
    <3>1. Len(E) = q
      BY <2>4
    <3>2. QED
      BY <1>9, <1>12, <3>1
  <2>8. \A i \in 1..(Len(E) - q) : list[i] = Run("after", E[Len(E) + 1 - i])
    <3>1. 1..(Len(E) - q) = {}
      BY <1>6, <2>4
    <3>2. QED
      BY <3>1
  <2>9. ASSUME NEW i \in 1..(c - q) PROVE list[Len(E) - q + i] = Run("before", w[q + i])
    <3>1. i + 1 \in 1..(c - p) /\ i \in 1..Len(list) /\ Len(E) - q + i = i /\ d - p + (i + 1) = i + 1
          /\ p + (i + 1) = q + i
      <4>1. Len(E) = q
        BY <2>4
      <4>2. QED
        BY <1>9, <1>12, <4>1
    <3>2. full[i + 1] = list[i]
      BY <1>4, <3>1
    <3>3. full[i + 1] = Run("before", w[q + i])
      BY <1>5, <3>1
    <3> HIDE DEF q
    <3>4. QED
      BY <3>1, <3>2, <3>3
  <2>10. QED
    <3> HIDE DEF q
    <3>1. QED
      BY <2>5, <2>6, <2>7, <2>8, <2>9 DEF Leads, E, c
<1>10. QED
  BY <1>6, <1>8, <1>9

-----------------------------------------------------------------------------
(* Calling and returning.                                                  *)

\* Below a frame that is no sentinel there is another.
LEMMA PopLeaves ==
  ASSUME NEW m, NEW u, NEW p, NEW n, Sound(m, p, u), Pops(m, n), Last(m.frames).kind # "Sentinel"
  PROVE  n.frames # <<>>
<1> DEFINE s == m.frames
           t == n.frames
           f == Last(s)
<1>1. m \in VM /\ s # <<>> /\ t = Front(s) /\ Chain(s, m.regs)
  BY DEF Sound, Stacks, Pops
<1>2. s \in Seq(Frames)
  BY <1>1, Parts
<1>3. Len(s) = Len(t) + 1 /\ s[Len(s)] = f /\ s[1].kind = "Sentinel"
  <2>1. s[1].kind = "Sentinel"
    BY <1>1 DEF Chain
  <2> HIDE DEF s, t
  <2>2. Len(Front(s)) = Len(s) - 1 /\ Len(s) \in Nat \ {0}
    BY <1>1, <1>2, FrontLast
  <2>3. QED
    BY <1>1, <2>1, <2>2 DEF Last
<1>4. ASSUME t = <<>> PROVE f.kind = "Sentinel"
  <2>1. Len(t) = 0
    BY <1>4
  <2>2. Len(s) = 1
    BY <1>3, <2>1
  <2>3. QED
    BY <1>3, <2>2
<1>5. QED
  BY <1>4

\* What is known of a frame that is popped, and of what is left.
LEMMA PopAll ==
  ASSUME NEW m, NEW u, NEW p, NEW n, Sound(m, p, u), Pops(m, n)
  PROVE  LET f == Last(m.frames)
         IN  /\ f \in Frames /\ f.regs = n.regs /\ Fits(f, m.regs)
             /\ Stacks(n, u) /\ ModeOK(n, p) /\ n \in VM
             /\ Len(m.frames) = Len(n.frames) + 1 /\ Len(n.frames) \in Nat
             /\ f.kind \in Pending <=> u = Len(n.frames) + 1
             /\ f.kind \notin Pending => Sound(n, p, u)
             /\ f.kind # "Sentinel" => n.frames # <<>>
<1> DEFINE s == m.frames
           t == n.frames
           f == Last(s)
<1>1. /\ m \in VM /\ n \in VM /\ s # <<>> /\ t = Front(s) /\ n.regs = f.regs
      /\ Stacks(m, u) /\ ModeOK(m, p) /\ u \in 0..Len(s) /\ Chain(s, m.regs)
      /\ \A i \in DOMAIN s : s[i].kind \in Pending <=> i = u
  BY DEF Sound, Stacks, Pops
<1>2. s \in Seq(Frames) /\ t \in Seq(Frames) /\ Len(s) \in Nat /\ Len(t) \in Nat /\ DOMAIN s = 1..Len(s)
  BY <1>1, Parts
<1>3. f \in Frames /\ Len(s) = Len(t) + 1 /\ s[Len(s)] = f /\ Len(s) \in DOMAIN s /\ 1 \in DOMAIN s
  <2> HIDE DEF s, t
  <2>1. Last(s) \in Frames /\ Len(Front(s)) = Len(s) - 1 /\ Len(s) \in Nat \ {0}
    BY <1>1, <1>2, FrontLast
  <2>2. QED
    BY SMTT(40), <1>1, <1>2, <2>1 DEF Last
<1>4. Fits(f, m.regs)
  <2>1. Above(s, m.regs, Len(s)) = m.regs
    BY DEF Above
  <2>2. Fits(s[Len(s)], Above(s, m.regs, Len(s)))
    BY <1>1, <1>3 DEF Chain
  <2>3. QED
    BY <1>3, <2>1, <2>2
<1>5. Stacks(n, u)
  BY <1>1, PopKeeps
<1>6. ModeOK(n, p)
  BY <1>1, ModePop
<1>7. f.kind \in Pending <=> u = Len(t) + 1
  BY <1>1, <1>3
<1>8. f.kind \notin Pending => u \in 0..Len(t)
  BY <1>1, <1>2, <1>3, <1>7
<1>9. f.kind # "Sentinel" => t # <<>>
  BY PopLeaves
<1>10. QED
  BY <1>1, <1>2, <1>3, <1>4, <1>5, <1>6, <1>7, <1>8, <1>9 DEF Sound

\* A frame that is not pending keeps the machine in order and enters its extent.
LEMMA PushAll ==
  ASSUME NEW g, NEW u, NEW p, NEW f \in Frames, NEW n, Sound(g, p, u), Pushes(g, u, f, n),
         f.kind \notin Pending, n.transfer = g.transfer
  PROVE  /\ Sound(n, p, u)
         /\ \A x : EnteredOK(g, u, x) => EnteredOK(n, u, x \o EnterOf(f))
<1>1. /\ g \in VM /\ n \in VM /\ Stacks(g, u) /\ ModeOK(g, p) /\ u \in 0..Len(g.frames)
      /\ n.frames = Append(g.frames, f)
  BY DEF Sound, Stacks, Pushes
<1>2. u \in Nat /\ f.kind # "ContinuationJump"
  <2>1. Len(g.frames) \in Nat
    BY <1>1, Parts
  <2>2. QED
    BY <1>1, <2>1 DEF Pending
<1>3. Stacks(n, u)
  BY <1>1, <1>2, PushKeeps
<1>4. ModeOK(n, p)
  BY <1>1, <1>2, ModePush
<1>5. u \in 0..Len(n.frames)
  <2>1. Len(Append(g.frames, f)) = Len(g.frames) + 1 /\ Len(g.frames) \in Nat
    BY <1>1, Parts, AppendProperties
  <2>2. QED
    BY <1>1, <2>1
<1>6. ASSUME NEW x, EnteredOK(g, u, x) PROVE EnteredOK(n, u, x \o EnterOf(f))
  BY <1>1, <1>6, EnteredPush
<1>7. QED
  BY <1>3, <1>4, <1>5, <1>6 DEF Sound

\* Call and CallWithValues keep the machine in order.
LEMMA CallKeeps ==
  ASSUME NEW m, NEW u, NEW p, NEW kind \in {"Normal", "CallWithValuesConsumer"},
         Sound(m, p, u), m.frames # <<>>
  PROVE  LET n == SetupFrame(m, Run("lambda", 0), kind, 0)
         IN  /\ Sound(n, p, u)
             /\ \A e \in Seq(Nat) : EnteredOK(m, u, e) => EnteredOK(n, u, e)
<1> DEFINE c == Run("lambda", 0)
           h == Frame(kind, m.regs, 0)
           n == SetupFrame(m, c, kind, 0)
<1>1. m \in VM /\ u \in 0..Len(m.frames) /\ Len(m.frames) \in Nat /\ m.winds \in Seq(Nat)
  BY Parts DEF Sound, Stacks
<1>2. /\ h \in Frames /\ h.kind = kind /\ h.regs = m.regs /\ c \in Regs /\ c.role = "lambda"
      /\ c.depth = 0
  <2>1. m.regs \in Regs
    BY <1>1, Parts
  <2>2. QED
    BY <2>1 DEF Frame, Frames, PlainFrame, PlainKinds, Run, Regs, Roles
<1> HIDE DEF c
<1>3. /\ n \in VM /\ n.frames = Append(m.frames, h) /\ n.regs = c /\ n.winds = m.winds
      /\ n.catches = m.catches /\ n.transfer = m.transfer
  BY <1>1, <1>2, SetupFacts
<1> HIDE DEF h, n
<1>4. /\ h.kind \notin Pending /\ h.kind # "Sentinel" /\ WindOf(h) = <<>> /\ EnterOf(h) = <<>>
      /\ Fits(h, n.regs)
  BY <1>2, <1>3 DEF Pending, WindOf, WindKinds, EnterOf, Fits
<1>5. Pushes(m, u, h, n)
  <2>1. n.winds = m.winds \o WindOf(h)
    <3>1. m.winds \o <<>> = m.winds
      BY <1>1, ConcatNothing
    <3>2. QED
      BY <1>3, <1>4, <3>1
  <2>2. u \in 0..(Len(m.frames) + 1) /\ u # Len(m.frames) + 1
    BY <1>1
  <2>3. QED
    BY <1>2, <1>3, <1>4, <2>1, <2>2 DEF Pushes
<1>6. Sound(n, p, u) /\ \A x : EnteredOK(m, u, x) => EnteredOK(n, u, x \o EnterOf(h))
  BY <1>2, <1>3, <1>4, <1>5, PushAll
<1>7. ASSUME NEW e \in Seq(Nat), EnteredOK(m, u, e) PROVE EnteredOK(n, u, e)
  <2>1. EnteredOK(n, u, e \o EnterOf(h))
    BY <1>6, <1>7
  <2>2. e \o <<>> = e
    BY ConcatNothing
  <2>3. QED
    BY <1>4, <2>1, <2>2
<1>8. QED
  BY <1>6, <1>7 DEF n, c

Popped(m) == [m EXCEPT !.frames = Front(@), !.regs = Last(m.frames).regs]

\* The fields a return changes, with and without the winding stack.
LEMMA PoppedFacts ==
  ASSUME NEW m \in VM, m.frames # <<>>, NEW w \in Seq(Nat)
  PROVE  LET r == Popped(m)
             g == [r EXCEPT !.winds = w]
         IN  /\ r \in VM /\ r.frames = Front(m.frames) /\ r.regs = Last(m.frames).regs
             /\ r.winds = m.winds /\ r.catches = m.catches /\ r.transfer = m.transfer
             /\ g \in VM /\ g.frames = Front(m.frames) /\ g.regs = Last(m.frames).regs
             /\ g.winds = w /\ g.catches = m.catches /\ g.transfer = m.transfer
<1> DEFINE t == Front(m.frames)
           q == Last(m.frames).regs
           r == [m EXCEPT !.frames = t, !.regs = q]
           g == [r EXCEPT !.winds = w]
<1>1. t \in Seq(Frames) /\ q \in Regs
  <2>1. m.frames \in Seq(Frames)
    BY Parts
  <2>2. t \in Seq(Frames) /\ Last(m.frames) \in Frames
    BY <2>1, FrontLast
  <2>3. QED
    BY <2>2, FrameFacts
<1>2. Popped(m) = r
  BY DEF Popped
<1> HIDE DEF t, q
<1>3. /\ r \in VM /\ r.frames = t /\ r.regs = q
      /\ r.winds = m.winds /\ r.catches = m.catches /\ r.transfer = m.transfer
  BY <1>1 DEF VM
<1> HIDE DEF r
<1>4. /\ g \in VM /\ g.frames = t /\ g.regs = q
      /\ g.winds = w /\ g.catches = m.catches /\ g.transfer = m.transfer
  BY <1>3 DEF VM
<1> HIDE DEF g
<1>5. QED
  BY <1>2, <1>3, <1>4 DEF g, t, q

\* The winding stack without the last frame.
LEMMA WindsPop ==
  ASSUME NEW s \in Seq(Frames), s # <<>>
  PROVE  LET f == Last(s)
             w == Winds(Front(s))
         IN  /\ w \in Seq(Nat)
             /\ Winds(s) = w \o WindOf(f)
             /\ f.kind \notin WindKinds => Winds(s) = w
             /\ f.kind \in WindKinds => /\ Winds(s) = Append(w, f.extra) /\ f.extra \in Nat
                                        /\ WindOf(f) = <<f.extra>>
                                        /\ Last(Winds(s)) = f.extra /\ Front(Winds(s)) = w
<1> DEFINE f == Last(s)
           t == Front(s)
           w == Winds(t)
<1>1. t \in Seq(Frames) /\ f \in Frames /\ s = Append(t, f)
  BY FrontLast
<1> HIDE DEF t, f
<1>2. Winds(s) = w \o WindOf(f) /\ w \in Seq(Nat)
  BY <1>1, WindsLaws
<1> HIDE DEF w
<1>3. ASSUME f.kind \notin WindKinds PROVE Winds(s) = w
  <2>1. WindOf(f) = <<>>
    BY <1>3 DEF WindOf
  <2>2. w \o <<>> = w
    BY <1>2, ConcatNothing
  <2>3. QED
    BY <1>2, <2>1, <2>2
<1>4. ASSUME f.kind \in WindKinds
      PROVE  /\ Winds(s) = Append(w, f.extra) /\ f.extra \in Nat /\ WindOf(f) = <<f.extra>>
             /\ Last(Winds(s)) = f.extra /\ Front(Winds(s)) = w
  <2>1. WindOf(f) = <<f.extra>>
    BY <1>4 DEF WindOf
  <2>2. f.extra \in Nat
    <3>1. f.kind # "ContinuationJump"
      BY <1>4 DEF WindKinds
    <3>2. QED
      BY <1>1, <3>1, FrameFacts
  <2> DEFINE x == f.extra
  <2>3. x \in Nat
    BY <2>2
  <2> HIDE DEF x
  <2>4. Append(w, x) = w \o <<x>> /\ Front(Append(w, x)) = w /\ Last(Append(w, x)) = x
    BY <1>2, <2>3, FrontAppend, AppendIsConcat
  <2>5. QED
    BY <1>2, <2>1, <2>3, <2>4 DEF x
<1>5. QED
  BY <1>2, <1>3, <1>4 DEF w, t, f

Returns(m, u, p) == Sound(m, p, u) /\ m.frames # <<>> /\ m.regs.depth = 0

\* n is in order, and the extents entered before the return have become its own.
Arrives(m, u, p, n) ==
  \E v : /\ Sound(n, p, v)
         /\ \A e \in Seq(Nat) : EnteredOK(m, u, e) => EnteredOK(n, v, Effect(e, m.regs))

\* A return from a frame that does not wind is a pop.
LEMMA ReturnPops ==
  ASSUME NEW m, NEW u, NEW p, Returns(m, u, p), Last(m.frames).kind \notin WindKinds
  PROVE  Pops(m, Popped(m))
<1> DEFINE r == Popped(m)
           s == m.frames
<1>1. m \in VM /\ s # <<>> /\ m.regs.depth = 0 /\ m.winds = Winds(s)
  BY DEF Returns, Sound, Stacks
<1>2. s \in Seq(Frames)
  BY <1>1, Parts
<1>3. Winds(s) = Winds(Front(s))
  <2> HIDE DEF s
  <2>1. Last(s).kind \notin WindKinds
    BY DEF s
  <2>2. QED
    BY <1>1, <1>2, <2>1, WindsPop
<1>4. <<>> \in Seq(Nat)
  BY EmptySeq
<1>5. /\ r \in VM /\ r.frames = Front(s) /\ r.regs = Last(s).regs /\ r.winds = m.winds
      /\ r.catches = m.catches /\ r.transfer = m.transfer
  BY <1>1, <1>4, PoppedFacts
<1> HIDE DEF r
<1>6. QED
  BY <1>1, <1>3, <1>5 DEF Pops, r

\* What frame f leaves behind when it is no winding frame.
LEMMA ReturnEntered ==
  ASSUME NEW m, NEW u, NEW p, NEW n, Sound(m, p, u), Pops(m, n),
         Last(m.frames).kind \notin Pending \cup {"DynamicWindAfter", "DynamicWindCleanup"},
         NEW e \in Seq(Nat), EnteredOK(m, u, e)
  PROVE  EnteredOK(n, u, e)
<1> DEFINE f == Last(m.frames)
<1>1. Stacks(m, u) /\ u \in 0..Len(n.frames)
  BY PopAll DEF Sound
<1>2. PICK x \in Seq(Nat) : e = x \o EnterOf(f) /\ EnteredOK(n, u, x)
  BY <1>1, EnteredPop
<1>3. EnterOf(f) = <<>>
  BY DEF EnterOf
<1>4. x \o <<>> = x
  BY ConcatNothing
<1>5. QED
  BY <1>2, <1>3, <1>4

\* handle_return, by the kind of frame: a call,
LEMMA ReturnPlain ==
  ASSUME NEW m, NEW u, NEW p, Returns(m, u, p), Last(m.frames).kind \in {"Sentinel", "Normal"}
  PROVE  Arrives(m, u, p, Popped(m))
<1> DEFINE r == Popped(m)
           f == Last(m.frames)
<1>1. /\ f.kind \notin Pending /\ f.kind \notin WindKinds
      /\ f.kind \notin Pending \cup {"DynamicWindAfter", "DynamicWindCleanup"}
  BY DEF Pending, WindKinds
<1>2. Pops(m, r) /\ Sound(m, p, u)
  BY <1>1, ReturnPops DEF Returns
<1> HIDE DEF r
<1>3. Sound(r, p, u) /\ Fits(f, m.regs)
  <2>1. /\ f.kind \notin Pending => Sound(r, p, u)
        /\ Fits(f, m.regs)
    BY <1>2, PopAll
  <2>2. QED
    BY <1>1, <2>1
<1>4. m.regs.role \notin ThunkKinds
  BY <1>3 DEF Fits, ThunkKinds
<1>5. ASSUME NEW e \in Seq(Nat), EnteredOK(m, u, e) PROVE EnteredOK(r, u, Effect(e, m.regs))
  <2>1. EnteredOK(r, u, e)
    BY <1>1, <1>2, <1>5, ReturnEntered
  <2>2. Effect(e, m.regs) = e
    BY <1>4, EffectLaws
  <2>3. QED
    BY <2>1, <2>2
<1>6. QED
  BY <1>3, <1>5 DEF Arrives, r

\* the producer of call-with-values, whose consumer is called next,
LEMMA ReturnConsumer ==
  ASSUME NEW m, NEW u, NEW p, Returns(m, u, p), Last(m.frames).kind = "CallWithValuesConsumer"
  PROVE  Arrives(m, u, p, SetupFrame(Popped(m), Run("lambda", 0), "Normal", 0))
<1> DEFINE r == Popped(m)
           f == Last(m.frames)
           n == SetupFrame(r, Run("lambda", 0), "Normal", 0)
<1>1. /\ f.kind \notin Pending /\ f.kind \notin WindKinds /\ f.kind # "Sentinel"
      /\ f.kind \notin Pending \cup {"DynamicWindAfter", "DynamicWindCleanup"}
  BY DEF Pending, WindKinds
<1>2. Pops(m, r) /\ Sound(m, p, u)
  BY <1>1, ReturnPops DEF Returns
<1> HIDE DEF r
<1>3. Sound(r, p, u) /\ Fits(f, m.regs) /\ r.frames # <<>> /\ r \in VM
  <2>1. /\ f.kind \notin Pending => Sound(r, p, u)
        /\ Fits(f, m.regs)
    BY <1>2, PopAll
  <2>2. r.frames # <<>>
    BY <1>1, <1>2, PopLeaves
  <2>3. r \in VM
    BY <1>2 DEF Pops
  <2>4. QED
    BY <1>1, <2>1, <2>2, <2>3
<1>4. m.regs.role \notin ThunkKinds
  BY <1>3 DEF Fits, ThunkKinds
<1>5. Sound(n, p, u) /\ \A e \in Seq(Nat) : EnteredOK(r, u, e) => EnteredOK(n, u, e)
  BY <1>3, CallKeeps
<1> HIDE DEF n
<1>6. ASSUME NEW e \in Seq(Nat), EnteredOK(m, u, e) PROVE EnteredOK(n, u, Effect(e, m.regs))
  <2>1. EnteredOK(r, u, e)
    BY <1>1, <1>2, <1>6, ReturnEntered
  <2>2. Effect(e, m.regs) = e
    BY <1>4, EffectLaws
  <2>3. QED
    BY <1>5, <2>1, <2>2
<1>7. QED
  BY <1>5, <1>6 DEF Arrives, n, r

\* The machine without the extent of the frame popped.
Unwound(m) == [Popped(m) EXCEPT !.winds = Winds(Front(m.frames))]

\* The machine without the frame of a winding and its extent.
LEMMA UnwoundFacts ==
  ASSUME NEW m, NEW u, NEW p, Returns(m, u, p), Last(m.frames).kind \in WindKinds
  PROVE  LET r == Popped(m)
             g == Unwound(m)
             f == Last(m.frames)
         IN  /\ Pops(m, g) /\ f \in Frames /\ f.extra \in Nat /\ Fits(f, m.regs)
             /\ Sound(g, p, u) /\ g.frames # <<>> /\ g \in VM /\ g.winds \in Seq(Nat)
             /\ r \in VM /\ r.frames = g.frames /\ r.regs = g.regs
             /\ r.catches = g.catches /\ r.transfer = g.transfer
             /\ r.winds = Append(g.winds, f.extra)
             /\ Last(r.winds) = f.extra /\ Front(r.winds) = g.winds
             /\ u \in 0..Len(g.frames) /\ Stacks(m, u)
<1> DEFINE r == Popped(m)
           s == m.frames
           w == Winds(Front(s))
           g == Unwound(m)
           f == Last(s)
<1>1. m \in VM /\ s # <<>> /\ m.regs.depth = 0 /\ m.winds = Winds(s) /\ Sound(m, p, u) /\ Stacks(m, u)
  BY DEF Returns, Sound, Stacks
<1>2. s \in Seq(Frames)
  BY <1>1, Parts
<1>3. /\ w \in Seq(Nat) /\ Winds(s) = Append(w, f.extra) /\ f.extra \in Nat
      /\ Last(Winds(s)) = f.extra /\ Front(Winds(s)) = w
  <2> HIDE DEF s
  <2>1. Last(s).kind \in WindKinds
    BY DEF s
  <2>2. QED
    BY <1>1, <1>2, <2>1, WindsPop
<1> HIDE DEF w
<1>4. /\ r \in VM /\ r.frames = Front(s) /\ r.regs = Last(s).regs /\ r.winds = m.winds
      /\ r.catches = m.catches /\ r.transfer = m.transfer
      /\ g \in VM /\ g.frames = Front(s) /\ g.regs = Last(s).regs
      /\ g.winds = w /\ g.catches = m.catches /\ g.transfer = m.transfer
  <2>1. g = [r EXCEPT !.winds = w]
    BY DEF Unwound, w
  <2>2. QED
    BY <1>1, <1>3, <2>1, PoppedFacts
<1> HIDE DEF r, g
<1>5. Pops(m, g)
  BY <1>1, <1>4 DEF Pops, w
<1>6. f.kind \notin Pending /\ f.kind # "Sentinel"
  BY DEF Pending, WindKinds
<1>7. /\ f \in Frames /\ Fits(f, m.regs) /\ Sound(g, p, u) /\ g.frames # <<>>
  <2>1. /\ f \in Frames /\ Fits(f, m.regs)
        /\ f.kind \notin Pending => Sound(g, p, u)
        /\ f.kind # "Sentinel" => g.frames # <<>>
    BY <1>1, <1>5, PopAll
  <2>2. QED
    BY <1>6, <2>1
<1>8. u \in 0..Len(g.frames)
  BY <1>7 DEF Sound
<1>9. QED
  BY <1>1, <1>3, <1>4, <1>5, <1>7, <1>8 DEF r, g

\* the before thunk, after which the body is called,
LEMMA ReturnBody ==
  ASSUME NEW m, NEW u, NEW p, Returns(m, u, p), Last(m.frames).kind = "DynamicWindBody"
  PROVE  LET r == Popped(m)
         IN  Arrives(m, u, p, SetupFrame(r, Run("body", Last(r.winds)), "DynamicWindAfter", Last(r.winds)))
<1> DEFINE r == Popped(m)
           g == Unwound(m)
           f == Last(m.frames)
           x == f.extra
           c == Run("body", x)
           h == Frame("DynamicWindAfter", r.regs, x)
           n == SetupFrame(r, c, "DynamicWindAfter", x)
<1>1. f.kind \in WindKinds
  BY DEF WindKinds
<1>2. /\ Pops(m, g) /\ f \in Frames /\ x \in Nat /\ Fits(f, m.regs)
      /\ Sound(g, p, u) /\ g.frames # <<>> /\ g \in VM /\ g.winds \in Seq(Nat)
      /\ r \in VM /\ r.frames = g.frames /\ r.regs = g.regs
      /\ r.catches = g.catches /\ r.transfer = g.transfer
      /\ r.winds = Append(g.winds, x) /\ Last(r.winds) = x
      /\ u \in 0..Len(g.frames) /\ Stacks(m, u)
  BY <1>1, UnwoundFacts
<1>3. m.regs.role = "before" /\ m.regs.extent = x
  BY <1>2 DEF Fits
<1> HIDE DEF r, g
<1>4. /\ h \in Frames /\ h.kind = "DynamicWindAfter" /\ h.regs = r.regs /\ h.extra = x
      /\ c \in Regs /\ c.role = "body" /\ c.depth = 0
  <2>1. r.regs \in Regs
    BY <1>2, Parts
  <2> HIDE DEF x
  <2>2. QED
    BY <1>2, <2>1 DEF Frame, Frames, PlainFrame, PlainKinds, WindKinds, Run, Regs, Roles
<1> HIDE DEF c
<1>5. /\ n \in VM /\ n.frames = Append(r.frames, h) /\ n.regs = c /\ n.winds = r.winds
      /\ n.catches = r.catches /\ n.transfer = r.transfer
  <2>1. r \in VM
    BY <1>2
  <2>2. c \in Regs
    BY <1>4
  <2>3. h \in Frames
    BY <1>4
  <2>4. QED
    BY <2>1, <2>2, <2>3, SetupFacts
<1> HIDE DEF x, h, n
<1>6. h.kind \notin Pending /\ h.kind # "Sentinel" /\ WindOf(h) = <<x>> /\ EnterOf(h) = <<x>>
      /\ Fits(h, n.regs)
  BY <1>4, <1>5 DEF Pending, WindOf, EnterOf, WindKinds, Fits
<1>7. Pushes(g, u, h, n)
  <2>1. n.winds = g.winds \o WindOf(h)
    <3>1. Append(g.winds, x) = g.winds \o <<x>>
      BY <1>2, AppendIsConcat
    <3>2. QED
      BY <1>2, <1>5, <1>6, <3>1
  <2>2. u \in 0..(Len(g.frames) + 1) /\ u # Len(g.frames) + 1
    <3>1. Len(g.frames) \in Nat
      BY <1>2, Parts
    <3>2. QED
      BY <1>2, <3>1
  <2>3. QED
    BY <1>2, <1>4, <1>5, <1>6, <2>1, <2>2 DEF Pushes
<1>8. Sound(n, p, u) /\ \A y : EnteredOK(g, u, y) => EnteredOK(n, u, y \o EnterOf(h))
  <2>1. n.transfer = g.transfer
    BY <1>2, <1>5
  <2>2. QED
    BY <1>2, <1>4, <1>6, <1>7, <2>1, PushAll
<1>9. ASSUME NEW e \in Seq(Nat), EnteredOK(m, u, e) PROVE EnteredOK(n, u, Effect(e, m.regs))
  <2>1. EnteredOK(g, u, e)
    <3>1. f.kind \notin Pending \cup {"DynamicWindAfter", "DynamicWindCleanup"}
      BY DEF Pending
    <3>2. Sound(m, p, u)
      BY DEF Returns
    <3>3. QED
      BY <1>2, <1>9, <3>1, <3>2, ReturnEntered
  <2>2. Effect(e, m.regs) = Append(e, x)
    BY <1>3, EffectLaws
  <2>3. Append(e, x) = e \o <<x>>
    BY <1>2, AppendIsConcat
  <2>4. EnteredOK(n, u, e \o EnterOf(h))
    BY <1>8, <2>1
  <2>5. QED
    BY <1>6, <2>2, <2>3, <2>4
<1>10. Arrives(m, u, p, n)
  BY <1>8, <1>9 DEF Arrives
<1>11. Last(r.winds) = x
  BY <1>2
<1>12. QED
  BY <1>10, <1>11 DEF n, c, r

\* the body, after which the after thunk is called,
LEMMA ReturnAfter ==
  ASSUME NEW m, NEW u, NEW p, Returns(m, u, p), Last(m.frames).kind = "DynamicWindAfter"
  PROVE  LET f == Last(m.frames)
         IN  Arrives(m, u, p, SetupFrame(Popped(m), Run("after", f.extra), "DynamicWindCleanup", f.extra))
<1> DEFINE r == Popped(m)
           g == Unwound(m)
           f == Last(m.frames)
           x == f.extra
           c == Run("after", x)
           h == Frame("DynamicWindCleanup", r.regs, x)
           n == SetupFrame(r, c, "DynamicWindCleanup", x)
<1>1. f.kind \in WindKinds
  BY DEF WindKinds
<1>2. /\ Pops(m, g) /\ f \in Frames /\ x \in Nat /\ Fits(f, m.regs)
      /\ Sound(g, p, u) /\ g.frames # <<>> /\ g \in VM /\ g.winds \in Seq(Nat)
      /\ r \in VM /\ r.frames = g.frames /\ r.regs = g.regs
      /\ r.catches = g.catches /\ r.transfer = g.transfer
      /\ r.winds = Append(g.winds, x)
      /\ u \in 0..Len(g.frames) /\ Stacks(m, u)
  BY <1>1, UnwoundFacts
<1>3. m.regs.role \notin ThunkKinds /\ EnterOf(f) = <<x>>
  BY <1>2 DEF Fits, ThunkKinds, EnterOf
<1> HIDE DEF r, g
<1>4. /\ h \in Frames /\ h.kind = "DynamicWindCleanup" /\ h.regs = r.regs /\ h.extra = x
      /\ c \in Regs /\ c.role = "after" /\ c.extent = x /\ c.depth = 0
  <2>1. r.regs \in Regs
    BY <1>2, Parts
  <2> HIDE DEF x
  <2>2. QED
    BY <1>2, <2>1 DEF Frame, Frames, PlainFrame, PlainKinds, WindKinds, Run, Regs, Roles
<1> HIDE DEF c
<1>5. /\ n \in VM /\ n.frames = Append(r.frames, h) /\ n.regs = c /\ n.winds = r.winds
      /\ n.catches = r.catches /\ n.transfer = r.transfer
  <2>1. r \in VM
    BY <1>2
  <2>2. c \in Regs
    BY <1>4
  <2>3. h \in Frames
    BY <1>4
  <2>4. QED
    BY <2>1, <2>2, <2>3, SetupFacts
<1> HIDE DEF x, h, n
<1>6. h.kind \notin Pending /\ h.kind # "Sentinel" /\ WindOf(h) = <<x>> /\ EnterOf(h) = <<x>>
      /\ Fits(h, n.regs)
  BY <1>4, <1>5 DEF Pending, WindOf, EnterOf, WindKinds, Fits
<1>7. Pushes(g, u, h, n)
  <2>1. n.winds = g.winds \o WindOf(h)
    <3>1. Append(g.winds, x) = g.winds \o <<x>>
      BY <1>2, AppendIsConcat
    <3>2. QED
      BY <1>2, <1>5, <1>6, <3>1
  <2>2. u \in 0..(Len(g.frames) + 1) /\ u # Len(g.frames) + 1
    <3>1. Len(g.frames) \in Nat
      BY <1>2, Parts
    <3>2. QED
      BY <1>2, <3>1
  <2>3. QED
    BY <1>2, <1>4, <1>5, <1>6, <2>1, <2>2 DEF Pushes
<1>8. Sound(n, p, u) /\ \A y : EnteredOK(g, u, y) => EnteredOK(n, u, y \o EnterOf(h))
  <2>1. n.transfer = g.transfer
    BY <1>2, <1>5
  <2>2. QED
    BY <1>2, <1>4, <1>6, <1>7, <2>1, PushAll
<1>9. ASSUME NEW e \in Seq(Nat), EnteredOK(m, u, e) PROVE EnteredOK(n, u, Effect(e, m.regs))
  <2>1. \E y \in Seq(Nat) : e = y \o EnterOf(f) /\ EnteredOK(g, u, y)
    BY <1>2, <1>9, EnteredPop
  <2>2. EnteredOK(n, u, e)
    BY <1>3, <1>6, <1>8, <2>1
  <2>3. Effect(e, m.regs) = e
    BY <1>3, EffectLaws
  <2>4. QED
    BY <2>2, <2>3
<1>10. Arrives(m, u, p, n)
  BY <1>8, <1>9 DEF Arrives
<1>11. QED
  BY <1>10 DEF n, c, r, x

\* the after thunk, which ends the extent,
LEMMA ReturnCleanup ==
  ASSUME NEW m, NEW u, NEW p, Returns(m, u, p), Last(m.frames).kind = "DynamicWindCleanup"
  PROVE  Arrives(m, u, p, [Popped(m) EXCEPT !.winds = Front(@)])
<1> DEFINE r == Popped(m)
           g == Unwound(m)
           f == Last(m.frames)
           x == f.extra
           n == [r EXCEPT !.winds = Front(@)]
<1>1. f.kind \in WindKinds
  BY DEF WindKinds
<1>2. /\ Pops(m, g) /\ f \in Frames /\ x \in Nat /\ Fits(f, m.regs)
      /\ Sound(g, p, u) /\ g \in VM /\ g.winds \in Seq(Nat)
      /\ r \in VM /\ Front(r.winds) = g.winds
      /\ u \in 0..Len(g.frames) /\ Stacks(m, u)
  BY <1>1, UnwoundFacts
<1>3. m.regs.role = "after" /\ m.regs.extent = x /\ EnterOf(f) = <<x>>
  BY <1>2 DEF Fits, EnterOf
<1>4. n = g
  <2>1. g = [r EXCEPT !.winds = Winds(Front(m.frames))]
    BY DEF Unwound
  <2>2. g.winds = Winds(Front(m.frames))
    BY <1>2 DEF Pops
  <2> DEFINE w == Winds(Front(m.frames))
  <2>3. Front(r.winds) = w /\ g = [r EXCEPT !.winds = w]
    BY <1>2, <2>1, <2>2
  <2> HIDE DEF w, g, r
  <2>4. QED
    BY <2>3
<1> HIDE DEF x, n, g, r
<1>5. ASSUME NEW e \in Seq(Nat), EnteredOK(m, u, e) PROVE EnteredOK(n, u, Effect(e, m.regs))
  <2>1. PICK y \in Seq(Nat) : e = y \o EnterOf(f) /\ EnteredOK(g, u, y)
    BY <1>2, <1>5, EnteredPop
  <2>2. e = Append(y, x)
    <3>1. Append(y, x) = y \o <<x>>
      BY <1>2, AppendIsConcat
    <3>2. QED
      BY <1>3, <2>1, <3>1
  <2>3. Front(Append(y, x)) = y /\ Last(Append(y, x)) = x /\ Append(y, x) # <<>>
    BY SMTT(30), <1>2, FrontAppend, AppendProperties
  <2>4. Effect(e, m.regs) = y
    BY <1>3, <2>2, <2>3, EffectLaws
  <2>5. QED
    BY <1>4, <2>1, <2>4
<1>6. QED
  BY <1>2, <1>4, <1>5 DEF Arrives, n, r

\* In a thunk of a raise or jump, what was entered is what lies below it.
LEMMA TopEntered ==
  ASSUME NEW m \in VM, NEW e, EnteredOK(m, Len(m.frames), e)
  PROVE  Base(m, Len(m.frames), e) /\ e \in Seq(Nat)
<1> DEFINE s == m.frames
<1>1. s \in Seq(Frames) /\ Len(s) \in Nat
  BY Parts
<1>2. PICK D \in Seq(Nat) : Base(m, Len(s), D) /\ e = D \o Enters(SubSeq(s, Len(s) + 1, Len(s)))
  BY DEF EnteredOK
<1>3. SubSeq(s, Len(s) + 1, Len(s)) = <<>>
  BY <1>1, SubSeqEmpty
<1>4. D \o <<>> = D
  BY ConcatNothing
<1>5. e = D
  BY <1>2, <1>3, <1>4, WindsLaws
<1>6. QED
  BY <1>2, <1>5

\* The machine when a thunk of a raise or jump returns:
LEMMA ReturnPending ==
  ASSUME NEW m, NEW u, NEW p, Returns(m, u, p), Last(m.frames).kind \in Pending
  PROVE  LET r == Popped(m)
             f == Last(m.frames)
         IN  /\ f \in Frames /\ Fits(f, m.regs) /\ Sound(m, p, u) /\ m \in VM /\ m.regs \in Regs
             /\ Pops(m, r) /\ r.frames # <<>> /\ Stacks(r, Len(r.frames) + 1) /\ ModeOK(r, p)
             /\ m.transfer = r.transfer /\ u = Len(m.frames) /\ u # 0 /\ m.frames[u] = f
             /\ u \in DOMAIN m.frames /\ r.frames \in Seq(Frames) /\ m.frames \in Seq(Frames)
             /\ Len(m.frames) = Len(r.frames) + 1 /\ Len(r.frames) \in Nat
             /\ Above(m.frames, m.regs, u) = m.regs
             /\ \A i \in 1..Len(r.frames) : r.frames[i] = m.frames[i]
<1> DEFINE r == Popped(m)
           s == m.frames
           f == Last(s)
<1>1. f.kind \notin WindKinds /\ f.kind # "Sentinel"
  BY DEF Pending, WindKinds
<1>2. Pops(m, r) /\ Sound(m, p, u) /\ m \in VM /\ s # <<>>
  BY <1>1, ReturnPops DEF Returns, Sound, Stacks
<1> HIDE DEF r
<1>3. f \in Frames /\ Fits(f, m.regs) /\ Stacks(r, u) /\ ModeOK(r, p) /\ r \in VM
  BY <1>2, PopAll
<1>4. Len(s) = Len(r.frames) + 1 /\ Len(r.frames) \in Nat /\ u = Len(r.frames) + 1
  BY <1>2, PopAll
<1>5. r.frames # <<>>
  BY <1>1, <1>2, PopLeaves
<1>6. s \in Seq(Frames) /\ r.frames \in Seq(Frames) /\ m.regs \in Regs /\ DOMAIN s = 1..Len(s)
  BY <1>2, <1>3, Parts
<1>7. m.transfer = r.transfer /\ r.frames = Front(s)
  BY <1>2 DEF Pops
<1>8. \A i \in 1..Len(r.frames) : r.frames[i] = s[i]
  <2> HIDE DEF s
  <2>1. \A i \in 1..(Len(s) - 1) : Front(s)[i] = s[i]
    BY <1>2, <1>6, FrontLast
  <2>2. Len(s) - 1 = Len(r.frames)
    BY <1>4
  <2>3. QED
    BY <1>7, <2>1, <2>2
<1>9. s[u] = f /\ u \in DOMAIN s /\ u = Len(s) /\ u # 0
  BY <1>4, <1>6 DEF Last
<1>10. Above(s, m.regs, Len(s)) = m.regs
  BY DEF Above
<1>11. QED
  BY <1>2, <1>3, <1>4, <1>5, <1>6, <1>7, <1>8, <1>9, <1>10 DEF r

\* it goes on with the raise,
LEMMA ReturnUnwind ==
  ASSUME NEW m, NEW u, NEW p, Returns(m, u, p), Last(m.frames).kind = "ExceptionUnwind"
  PROVE  Arrives(m, u, p, ResumeTransfer(Popped(m)))
<1> DEFINE r == Popped(m)
           s == m.frames
           f == Last(s)
           k == m.transfer.target.frame_count
           P == Enters(SubSeq(s, 1, k))
           y == Reverse(m.transfer.thunks)
           n == ResumeTransfer(r)
<1>1. f.kind \in Pending
  BY DEF Pending
<1>2. /\ f \in Frames /\ Fits(f, m.regs) /\ Sound(m, p, u) /\ m \in VM
      /\ r.frames # <<>> /\ Stacks(r, Len(r.frames) + 1) /\ ModeOK(r, p)
      /\ m.transfer = r.transfer /\ u = Len(s) /\ u # 0 /\ s[u] = f
      /\ u \in DOMAIN s /\ r.frames \in Seq(Frames) /\ s \in Seq(Frames)
      /\ Len(s) = Len(r.frames) + 1 /\ Len(r.frames) \in Nat
      /\ Above(s, m.regs, u) = m.regs
      /\ \A i \in 1..Len(r.frames) : r.frames[i] = s[i]
  BY <1>1, ReturnPending
<1> HIDE DEF r
<1>3. m.transfer # NoTransfer /\ m.transfer \in Transfer
  <2>1. m.transfer # NoTransfer
    BY <1>2 DEF Sound, Stacks, TransferOK
  <2>2. QED
    BY <1>2, <2>1, Parts
<1>4. "call/cc" \notin p
  BY <1>2, <1>3 DEF Sound, ModeOK, NoCatches
<1>5. k \in Nat /\ k < u /\ m.transfer.thunks \in Seq(Nat)
  <2>1. TransferOK(m, u)
    BY <1>2 DEF Sound, Stacks
  <2>2. QED
    BY <1>3, <2>1 DEF TransferOK, Transfer, CatchFrame
<1>6. k \in 0..Len(s) /\ k \in 0..Len(r.frames) /\ k <= Len(s)
  <2> HIDE DEF k
  <2>1. QED
    BY <1>2, <1>5
<1>7. SubSeq(r.frames, 1, k) = SubSeq(s, 1, k)
  <2> DEFINE t == r.frames
  <2>1. \A i \in 1..k : t[i] = s[i]
    BY <1>2, <1>6
  <2>2. t \in Seq(Frames) /\ s \in Seq(Frames)
    BY <1>2
  <2>3. k \in 0..Len(t) /\ k <= Len(s)
    BY <1>6
  <2> HIDE DEF t, s, k
  <2>4. SubSeq(t, 1, k) = SubSeq(s, 1, k)
    BY <2>1, <2>2, <2>3, SamePrefix
  <2>5. QED
    BY <2>4 DEF t
<1>8. PICK v : Sound(n, p, v) /\ EnteredOK(n, v, P \o y)
  <2>1. LET z == ResumeTransfer(r)
        IN  \E v : /\ Sound(z, p, v)
                   /\ EnteredOK(z, v, Enters(SubSeq(r.frames, 1, r.transfer.target.frame_count))
                                         \o Reverse(r.transfer.thunks))
    <3>1. r.transfer # NoTransfer
      BY <1>2, <1>3
    <3>2. Stacks(r, Len(r.frames) + 1) /\ ModeOK(r, p) /\ r.frames # <<>>
      BY <1>2
    <3>3. QED
      BY <1>4, <3>1, <3>2, ResumeKeeps
  <2>2. Enters(SubSeq(r.frames, 1, r.transfer.target.frame_count)) \o Reverse(r.transfer.thunks) = P \o y
    BY <1>2, <1>7
  <2>3. QED
    BY <2>1, <2>2
<1> HIDE DEF n
<1>9. P \in Seq(Nat) /\ y \in Seq(Nat)
  <2>1. SubSeq(s, 1, k) \in Seq(Frames)
    <3> HIDE DEF k, s
    <3>1. QED
      BY <1>2, <1>6, Cut
  <2>2. P \in Seq(Nat)
    BY <2>1, WindsLaws
  <2>3. y \in Seq(Nat)
    BY <1>5, ReverseLaws
  <2>4. QED
    BY <2>2, <2>3
<1>10. m.regs.role = "after" /\ m.regs.extent \in Nat
  <2>1. m.regs \in Regs
    BY <1>2, Parts
  <2>2. QED
    BY <1>2, <2>1 DEF Fits, Regs
<1>11. ASSUME NEW e \in Seq(Nat), EnteredOK(m, u, e) PROVE Effect(e, m.regs) = P \o y
  <2> DEFINE z == P \o y
             x == m.regs.extent
  <2>1. Base(m, u, e)
    BY <1>2, <1>11, TopEntered
  <2>2. e = Append(z, x)
    BY <1>2, <2>1 DEF Base
  <2>3. z \in Seq(Nat) /\ x \in Nat
    <3> HIDE DEF P, y
    <3>1. z \in Seq(Nat)
      BY <1>9, ConcatProperties
    <3>2. QED
      BY <1>10, <3>1
  <2> HIDE DEF z
  <2>4. Front(Append(z, x)) = z /\ Last(Append(z, x)) = x /\ Append(z, x) # <<>>
    <3> HIDE DEF x
    <3>1. Front(Append(z, x)) = z /\ Last(Append(z, x)) = x
      BY <2>3, FrontAppend
    <3>2. Append(z, x) # <<>>
      BY <2>3, AppendProperties
    <3>3. QED
      BY <3>1, <3>2
  <2>5. Effect(e, m.regs) = z
    BY <1>10, <2>2, <2>4, EffectLaws
  <2>6. QED
    BY <2>5 DEF z
<1>12. \A e \in Seq(Nat) : EnteredOK(m, u, e) => EnteredOK(n, v, Effect(e, m.regs))
  BY <1>8, <1>11
<1>13. QED
  BY <1>8, <1>12 DEF Arrives, n, r

\* or with the jump.
LEMMA ReturnJump ==
  ASSUME NEW m, NEW u, NEW p, Returns(m, u, p), Last(m.frames).kind = "ContinuationJump"
  PROVE  LET n == NextThunk(Popped(m), Last(m.frames).extra)
         IN  Arrives(m, u, p, n) /\ n.frames # <<>>
<1> DEFINE r == Popped(m)
           s == m.frames
           f == Last(s)
           j == f.extra
           n == NextThunk(r, j)
<1>1. f.kind \in Pending
  BY DEF Pending
<1>2. /\ f \in Frames /\ Fits(f, m.regs) /\ Sound(m, p, u) /\ m \in VM /\ m.regs \in Regs
      /\ r.frames # <<>> /\ Stacks(r, Len(r.frames) + 1) /\ ModeOK(r, p)
      /\ u = Len(s) /\ u # 0 /\ s[u] = f /\ u \in DOMAIN s
      /\ Above(s, m.regs, u) = m.regs
  BY <1>1, ReturnPending
<1> HIDE DEF r
<1>3. "call/cc" \in p /\ JumpOK(j)
  <2>1. ModeOK(m, p)
    BY <1>2 DEF Sound
  <2>2. "call/cc" \in p
    BY <1>2, <2>1 DEF ModeOK
  <2>3. QED
    BY <1>2, <2>1, <2>2 DEF ModeOK, JumpsOK
<1>4. j \in Jump /\ j.thunks \in Seq(Regs) /\ j.target.winds \in Seq(Nat)
  <2>1. j \in Jump
    BY <1>2, FrameFacts
  <2>2. QED
    BY <2>1 DEF Jump, Cont
<1>5. m.regs.role \in ThunkKinds
  BY <1>2 DEF Fits
<1> HIDE DEF f
<1>6. /\ n.frames # <<>>
      /\ \E v : /\ Sound(n, p, v)
                /\ \A e \in Seq(Nat) : Leads(e, j.thunks, j.target.winds) => EnteredOK(n, v, e)
  <2>1. Stacks(r, Len(r.frames) + 1) /\ ModeOK(r, p) /\ r.frames # <<>>
    BY <1>2
  <2> HIDE DEF j
  <2>2. QED
    BY <1>3, <1>4, <2>1, NextThunkKeeps
<1> HIDE DEF n
<1>7. ASSUME NEW e \in Seq(Nat), EnteredOK(m, u, e)
      PROVE  Leads(Effect(e, m.regs), j.thunks, j.target.winds) /\ Effect(e, m.regs) \in Seq(Nat)
  <2>1. Base(m, u, e)
    BY <1>2, <1>7, TopEntered
  <2>2. f.kind = "ContinuationJump"
    BY DEF f
  <2>3. Leads(e, <<Run(m.regs.role, m.regs.extent)>> \o j.thunks, j.target.winds)
    BY <1>2, <2>1, <2>2 DEF Base
  <2> HIDE DEF j
  <2>4. Leads(Effect(e, m.regs), j.thunks, j.target.winds)
    <3> DEFINE w == j.target.winds
               list == j.thunks
    <3>1. w \in Seq(Nat) /\ list \in Seq(Regs) /\ m.regs \in Regs
      BY <1>2, <1>4
    <3>2. Leads(e, <<Run(m.regs.role, m.regs.extent)>> \o list, w)
      BY <2>3
    <3> HIDE DEF w, list
    <3>3. Leads(Effect(e, m.regs), list, w)
      BY <1>5, <3>1, <3>2, LeadsNext
    <3>4. QED
      BY <3>3 DEF w, list
  <2>5. Effect(e, m.regs) \in Seq(Nat)
    BY <1>2, EffectType
  <2>6. QED
    BY <2>4, <2>5
<1>8. Arrives(m, u, p, n)
  BY <1>6, <1>7 DEF Arrives
<1>9. QED
  BY <1>6, <1>8 DEF n, j, f, r

\* Every return keeps the machine in order.
LEMMA HandleReturnKeeps ==
  ASSUME NEW m, NEW u, NEW p, Returns(m, u, p)
  PROVE  Arrives(m, u, p, HandleReturn(m))
<1> DEFINE f == Last(m.frames)
           r == Popped(m)
<1>1. f.kind \in WindKinds \cup Pending \cup {"Sentinel", "Normal", "CallWithValuesConsumer"}
  <2>1. m.frames \in Seq(Frames) /\ m.frames # <<>>
    BY Parts DEF Returns, Sound, Stacks
  <2>2. f \in Frames
    BY <2>1, FrontLast
  <2>3. QED
    BY <2>2 DEF Frames, PlainFrame, PlainKinds, JumpFrame, Pending
<1>10. f.kind \in WindKinds => r.winds # <<>>
  <2>1. ASSUME f.kind \in WindKinds PROVE r.winds # <<>>
    <3>1. r.winds = Append(Unwound(m).winds, f.extra) /\ Unwound(m).winds \in Seq(Nat) /\ f.extra \in Nat
      BY <2>1, UnwoundFacts
    <3>2. QED
      BY <3>1, AppendProperties
  <2>2. QED
    BY <2>1
<1>11. ~(f.kind \in WindKinds /\ r.winds = <<>>)
  BY <1>10
<1>12. HandleReturn(m) =
         CASE f.kind = "ContinuationJump"   -> NextThunk(r, f.extra)
           [] f.kind = "ExceptionUnwind"    -> ResumeTransfer(r)
           [] f.kind = "CallWithValuesConsumer" -> SetupFrame(r, Run("lambda", 0), "Normal", 0)
           [] f.kind = "DynamicWindBody"    ->
                SetupFrame(r, Run("body", Last(r.winds)), "DynamicWindAfter", Last(r.winds))
           [] f.kind = "DynamicWindAfter"   ->
                SetupFrame(r, Run("after", f.extra), "DynamicWindCleanup", f.extra)
           [] f.kind = "DynamicWindCleanup" -> [r EXCEPT !.winds = Front(@)]
           [] OTHER                         -> r
  BY <1>11 DEF HandleReturn, Popped
<1> HIDE DEF r
<1>2. CASE f.kind \in {"Sentinel", "Normal"}
  <2>1. HandleReturn(m) = r
    BY <1>2, <1>12
  <2>2. QED
    BY <1>2, <2>1, ReturnPlain DEF r
<1>3. CASE f.kind = "CallWithValuesConsumer"
  <2>1. HandleReturn(m) = SetupFrame(r, Run("lambda", 0), "Normal", 0)
    BY <1>3, <1>12
  <2>2. QED
    BY <1>3, <2>1, ReturnConsumer DEF r
<1>4. CASE f.kind = "DynamicWindBody"
  <2>1. HandleReturn(m) = SetupFrame(r, Run("body", Last(r.winds)), "DynamicWindAfter", Last(r.winds))
    BY <1>4, <1>12
  <2>2. QED
    BY <1>4, <2>1, ReturnBody DEF r
<1>5. CASE f.kind = "DynamicWindAfter"
  <2>1. HandleReturn(m) = SetupFrame(r, Run("after", f.extra), "DynamicWindCleanup", f.extra)
    BY <1>5, <1>12
  <2>2. QED
    BY <1>5, <2>1, ReturnAfter DEF r
<1>6. CASE f.kind = "DynamicWindCleanup"
  <2>1. HandleReturn(m) = [r EXCEPT !.winds = Front(@)]
    BY <1>6, <1>12
  <2>2. QED
    BY <1>6, <2>1, ReturnCleanup DEF r
<1>7. CASE f.kind = "ExceptionUnwind"
  <2>1. HandleReturn(m) = ResumeTransfer(r)
    BY <1>7, <1>12
  <2>2. QED
    BY <1>7, <2>1, ReturnUnwind DEF r
<1>8. CASE f.kind = "ContinuationJump"
  <2>1. HandleReturn(m) = NextThunk(r, f.extra)
    BY <1>8, <1>12
  <2>2. QED
    BY <1>8, <2>1, ReturnJump DEF r
<1>9. QED
  BY <1>1, <1>2, <1>3, <1>4, <1>5, <1>6, <1>7, <1>8 DEF WindKinds, Pending

-----------------------------------------------------------------------------
(* Winding.                                                                *)

\* DynamicWind keeps it in order.
LEMMA WindKeeps ==
  ASSUME NEW m, NEW u, NEW p, NEW x \in Nat, Sound(m, p, u), m.frames # <<>>
  PROVE  LET n == SetupFrame([m EXCEPT !.winds = Append(@, x)], Run("before", x), "DynamicWindBody", x)
         IN  /\ Sound(n, p, u)
             /\ \A e \in Seq(Nat) : EnteredOK(m, u, e) => EnteredOK(n, u, e)
<1> DEFINE c == Run("before", x)
           r == [m EXCEPT !.winds = Append(@, x)]
           h == Frame("DynamicWindBody", r.regs, x)
           n == SetupFrame(r, c, "DynamicWindBody", x)
<1>1. m \in VM /\ u \in 0..Len(m.frames) /\ Len(m.frames) \in Nat /\ m.winds \in Seq(Nat)
  BY Parts DEF Sound, Stacks
<1>2. /\ r \in VM /\ r.frames = m.frames /\ r.regs = m.regs /\ r.winds = Append(m.winds, x)
      /\ r.catches = m.catches /\ r.transfer = m.transfer
  <2> DEFINE w == Append(m.winds, x)
  <2>1. w \in Seq(Nat)
    BY <1>1, AppendProperties
  <2> HIDE DEF w
  <2> DEFINE z == [m EXCEPT !.winds = w]
  <2>2. /\ z \in VM /\ z.frames = m.frames /\ z.regs = m.regs /\ z.winds = w
        /\ z.catches = m.catches /\ z.transfer = m.transfer
    BY <1>1, <2>1 DEF VM
  <2>3. r = z
    BY DEF w
  <2> HIDE DEF r, z
  <2>4. QED
    BY <2>2, <2>3 DEF w
<1> HIDE DEF r
<1>3. /\ h \in Frames /\ h.kind = "DynamicWindBody" /\ h.regs = r.regs /\ h.extra = x
      /\ c \in Regs /\ c.role = "before" /\ c.extent = x /\ c.depth = 0
  <2>1. r.regs \in Regs
    BY <1>2, Parts
  <2>2. QED
    BY <2>1 DEF Frame, Frames, PlainFrame, PlainKinds, WindKinds, Run, Regs, Roles
<1> HIDE DEF c
<1>4. /\ n \in VM /\ n.frames = Append(r.frames, h) /\ n.regs = c /\ n.winds = r.winds
      /\ n.catches = r.catches /\ n.transfer = r.transfer
  BY <1>2, <1>3, SetupFacts
<1> HIDE DEF h, n
<1>5. /\ h.kind \notin Pending /\ h.kind # "Sentinel" /\ WindOf(h) = <<x>> /\ EnterOf(h) = <<>>
      /\ Fits(h, n.regs)
  BY <1>3, <1>4 DEF Pending, WindOf, WindKinds, EnterOf, Fits
<1>6. Pushes(m, u, h, n)
  <2>1. n.winds = m.winds \o WindOf(h)
    <3>1. Append(m.winds, x) = m.winds \o <<x>>
      BY <1>1, AppendIsConcat
    <3>2. QED
      BY <1>2, <1>4, <1>5, <3>1
  <2>2. u \in 0..(Len(m.frames) + 1) /\ u # Len(m.frames) + 1
    BY <1>1
  <2>3. QED
    BY <1>2, <1>3, <1>4, <1>5, <2>1, <2>2 DEF Pushes
<1>7. Sound(n, p, u) /\ \A y : EnteredOK(m, u, y) => EnteredOK(n, u, y \o EnterOf(h))
  <2>1. n.transfer = m.transfer
    BY <1>2, <1>4
  <2>2. QED
    BY <1>3, <1>5, <1>6, <2>1, PushAll
<1>8. ASSUME NEW e \in Seq(Nat), EnteredOK(m, u, e) PROVE EnteredOK(n, u, e)
  <2>1. EnteredOK(n, u, e \o EnterOf(h))
    BY <1>7, <1>8
  <2>2. e \o <<>> = e
    BY ConcatNothing
  <2>3. QED
    BY <1>5, <2>1, <2>2
<1>9. QED
  BY <1>7, <1>8 DEF n, c, r

-----------------------------------------------------------------------------
(* Invoking a continuation.                                                *)

\* No thunk is under way.
Silent(m) == \A i \in 0..Len(m.frames) : Above(m.frames, m.regs, i).role \notin ThunkKinds

\* Outside thunks, what was entered are the extents on the winding stack.
LEMMA SilentFacts ==
  ASSUME NEW m, NEW u \in 0..Len(m.frames), Stacks(m, u), Silent(m)
  PROVE  /\ u = 0 /\ \A i \in DOMAIN m.frames : m.frames[i].kind \notin Pending
         /\ Enters(m.frames) = m.winds
         /\ \A e : EnteredOK(m, u, e) => e = m.winds
<1> DEFINE s == m.frames
<1>1. m \in VM /\ Chain(s, m.regs) /\ m.winds = Winds(s)
      /\ \A i \in DOMAIN s : s[i].kind \in Pending <=> i = u
  BY DEF Stacks
<1>2. s \in Seq(Frames) /\ Len(s) \in Nat /\ DOMAIN s = 1..Len(s)
  BY <1>1, Parts
<1>3. ASSUME NEW i \in 1..Len(s) PROVE s[i].kind \notin Pending /\ s[i].kind # "DynamicWindBody"
  <2>1. i \in 0..Len(s)
    BY <1>2
  <2>2. Fits(s[i], Above(s, m.regs, i)) /\ Above(s, m.regs, i).role \notin ThunkKinds
    BY <1>1, <1>2, <2>1 DEF Chain, Silent
  <2>3. QED
    BY <2>2 DEF Fits, Pending, ThunkKinds
<1>4. u = 0
  BY <1>1, <1>2, <1>3
<1>5. Enters(s) = m.winds
  <2>1. Enters(s) = Winds(s)
    <3> HIDE DEF s
    <3>1. \A i \in 1..Len(s) : s[i].kind # "DynamicWindBody"
      BY <1>3
    <3>2. QED
      BY <1>2, <3>1, AllEntered
  <2>2. QED
    BY <1>1, <2>1
<1>6. ASSUME NEW e, EnteredOK(m, u, e) PROVE e = m.winds
  <2>1. PICK D \in Seq(Nat) : Base(m, 0, D) /\ e = D \o Enters(SubSeq(s, 0 + 1, Len(s)))
    BY <1>4, <1>6 DEF EnteredOK
  <2>2. D = <<>>
    <3>1. 0 \notin DOMAIN m.frames
      BY <1>2
    <3>2. QED
      BY <2>1, <3>1 DEF Base
  <2>3. SubSeq(s, 0 + 1, Len(s)) = s
    <3> HIDE DEF s
    <3>1. SubSeq(s, 1, Len(s)) = s
      BY <1>2, SubSeqFull
    <3>2. QED
      BY <3>1
  <2>4. e = <<>> \o m.winds
    BY <1>5, <2>1, <2>2, <2>3
  <2>5. m.winds \in Seq(Nat)
    BY <1>1, Parts
  <2>6. <<>> \o m.winds = m.winds
    BY <2>5, ConcatNothing
  <2>7. QED
    BY <2>4, <2>6
<1>7. QED
  BY <1>2, <1>3, <1>4, <1>5, <1>6

\* The calls of the thunks of the extents in s.
Thunks(role, s) == [i \in DOMAIN s |-> Run(role, s[i])]

\* A list of thunks, element by element.
LEMMA ThunksLaws ==
  ASSUME NEW role \in ThunkKinds, NEW s \in Seq(Nat)
  PROVE  /\ Thunks(role, s) \in Seq(Regs) /\ Len(Thunks(role, s)) = Len(s)
         /\ \A i \in 1..Len(s) : /\ Thunks(role, s)[i] = Run(role, s[i])
                                 /\ Thunks(role, s)[i].role \in ThunkKinds
                                 /\ Thunks(role, s)[i].depth = 0
<1>1. Len(s) \in Nat /\ DOMAIN s = 1..Len(s) /\ \A i \in 1..Len(s) : s[i] \in Nat
  BY LenProperties, ElementOfSeq
<1> DEFINE t == [i \in 1..Len(s) |-> Run(role, s[i])]
<1>2. t = Thunks(role, s)
  BY <1>1 DEF Thunks
<1>3. \A x \in Nat : Run(role, x) \in Regs /\ Run(role, x).role = role /\ Run(role, x).depth = 0
  BY DEF Run, Regs, Roles, ThunkKinds
<1>4. \A i \in 1..Len(s) : t[i] = Run(role, s[i])
  OBVIOUS
<1>5. t \in Seq(Regs) /\ Len(t) = Len(s)
  BY <1>1, <1>3, SeqDef
<1> HIDE DEF t
<1>6. \A i \in 1..Len(s) : t[i].role \in ThunkKinds /\ t[i].depth = 0
  BY <1>1, <1>3, <1>4
<1>7. QED
  BY <1>2, <1>4, <1>5, <1>6

\* The list of a jump from the extents v to the extents w.
Way(v, w, p) ==
  Thunks("after", Reverse(SubSeq(v, p + 1, Len(v)))) \o Thunks("before", SubSeq(w, p + 1, Len(w)))

\* The thunks of a jump lead from the extents of here to those of the target.
LEMMA WayLeads ==
  ASSUME NEW v \in Seq(Nat), NEW w \in Seq(Nat), NEW p \in 0..Len(v), p <= Len(w),
         SubSeq(v, 1, p) = SubSeq(w, 1, p)
  PROVE  /\ Way(v, w, p) \in Seq(Regs) /\ Leads(v, Way(v, w, p), w)
         /\ \A i \in DOMAIN Way(v, w, p) : /\ Way(v, w, p)[i].role \in ThunkKinds
                                           /\ Way(v, w, p)[i].depth = 0
<1> DEFINE d == Len(v)
           c == Len(w)
           x == SubSeq(v, p + 1, d)
           y == SubSeq(w, p + 1, c)
           a == Thunks("after", Reverse(x))
           b == Thunks("before", y)
           t == a \o b
<1>1. d \in Nat /\ c \in Nat /\ p \in Nat /\ p <= d /\ p <= c /\ p \in 0..Len(w)
  BY LenProperties
<1>2. x \in Seq(Nat) /\ Len(x) = d - p /\ \A i \in 1..(d - p) : x[i] = v[p + i]
  BY Cut
<1>3. y \in Seq(Nat) /\ Len(y) = c - p /\ \A i \in 1..(c - p) : y[i] = w[p + i]
  BY <1>1, Cut
<1> HIDE DEF x, y
<1>4. /\ Reverse(x) \in Seq(Nat) /\ Len(Reverse(x)) = Len(x)
      /\ \A i \in 1..Len(x) : Reverse(x)[i] = x[Len(x) + 1 - i]
  BY <1>2, ReverseLaws
<1>5. /\ a \in Seq(Regs) /\ Len(a) = d - p
      /\ \A i \in 1..(d - p) : /\ a[i] = Run("after", v[d + 1 - i])
                               /\ a[i].role \in ThunkKinds /\ a[i].depth = 0
  <2> DEFINE z == Reverse(x)
  <2>1. z \in Seq(Nat) /\ Len(z) = d - p
    BY <1>2, <1>4
  <2>2. ASSUME NEW i \in 1..(d - p) PROVE z[i] = v[d + 1 - i]
    <3> DEFINE k == (d - p) + 1 - i
    <3>1. k \in 1..(d - p) /\ p + k = d + 1 - i
      BY <1>1
    <3>2. z[i] = x[k]
      BY <1>2, <1>4
    <3> HIDE DEF k
    <3>3. QED
      BY <1>2, <3>1, <3>2
  <2> HIDE DEF z
  <2>3. "after" \in ThunkKinds
    BY DEF ThunkKinds
  <2>4. /\ Thunks("after", z) \in Seq(Regs) /\ Len(Thunks("after", z)) = Len(z)
        /\ \A i \in 1..Len(z) : /\ Thunks("after", z)[i] = Run("after", z[i])
                                /\ Thunks("after", z)[i].role \in ThunkKinds
                                /\ Thunks("after", z)[i].depth = 0
    BY <2>1, <2>3, ThunksLaws
  <2>5. a = Thunks("after", z)
    BY DEF z
  <2> HIDE DEF a
  <2>6. QED
    BY <2>1, <2>2, <2>4, <2>5
<1>6. /\ b \in Seq(Regs) /\ Len(b) = c - p
      /\ \A i \in 1..(c - p) : /\ b[i] = Run("before", w[p + i])
                               /\ b[i].role \in ThunkKinds /\ b[i].depth = 0
  <2>1. "before" \in ThunkKinds
    BY DEF ThunkKinds
  <2>2. /\ b \in Seq(Regs) /\ Len(b) = Len(y)
        /\ \A i \in 1..Len(y) : /\ b[i] = Run("before", y[i])
                                /\ b[i].role \in ThunkKinds /\ b[i].depth = 0
    BY <1>3, <2>1, ThunksLaws
  <2> HIDE DEF b
  <2>3. QED
    BY <1>3, <2>2
<1> HIDE DEF a, b
<1>7. /\ t \in Seq(Regs) /\ Len(t) = (d - p) + (c - p) /\ DOMAIN t = 1..Len(t)
      /\ \A i \in 1..Len(t) : t[i] = IF i <= d - p THEN a[i] ELSE b[i - (d - p)]
  <2>1. /\ t \in Seq(Regs) /\ Len(t) = Len(a) + Len(b)
        /\ \A i \in 1..(Len(a) + Len(b)) : t[i] = IF i <= Len(a) THEN a[i] ELSE b[i - Len(a)]
    BY <1>5, <1>6, ConcatProperties
  <2> HIDE DEF t
  <2>2. DOMAIN t = 1..Len(t)
    BY <2>1, LenProperties
  <2>3. QED
    BY <1>5, <1>6, <2>1, <2>2
<1> HIDE DEF t, d, c
<1>8. ASSUME NEW i \in 1..(d - p) PROVE t[i] = Run("after", v[d + 1 - i])
  <2>1. i \in 1..Len(t) /\ i <= d - p
    BY <1>1, <1>7
  <2>2. QED
    BY <1>5, <1>7, <2>1
<1>9. ASSUME NEW i \in 1..(c - p) PROVE t[d - p + i] = Run("before", w[p + i])
  <2> DEFINE k == d - p + i
  <2>1. k \in 1..Len(t) /\ ~(k <= d - p) /\ k - (d - p) = i
    BY <1>1, <1>7
  <2> HIDE DEF k
  <2>2. t[k] = b[i]
    BY <1>7, <2>1
  <2>3. QED
    BY <1>6, <2>2 DEF k
<1>10. ASSUME NEW i \in 1..Len(t) PROVE t[i].role \in ThunkKinds /\ t[i].depth = 0
  <2>1. CASE i <= d - p
    <3>1. i \in 1..(d - p)
      BY <1>1, <2>1
    <3>2. QED
      BY <1>5, <1>7, <2>1, <3>1
  <2>2. CASE ~(i <= d - p)
    <3>1. i - (d - p) \in 1..(c - p)
      <4>1. Len(t) = (d - p) + (c - p)
        BY <1>7
      <4>2. QED
        BY <1>1, <2>2, <4>1
    <3>2. t[i] = b[i - (d - p)]
      BY <1>7, <2>2
    <3>3. QED
      BY <1>6, <3>1, <3>2
  <2>3. QED
    BY <2>1, <2>2
<1>11. Leads(v, t, w)
  BY <1>1, <1>7, <1>8, <1>9 DEF Leads, d, c
<1>12. t = Way(v, w, p)
  BY DEF t, a, b, x, y, d, c, Way
<1>13. QED
  BY <1>7, <1>10, <1>11, <1>12

\* Invoking a continuation keeps the machine in order.
LEMMA InvokeKeeps ==
  ASSUME NEW m, NEW u, NEW p, NEW c, Sound(m, p, u), Silent(m), "call/cc" \in p, ContOK(c),
         m.frames # <<>>
  PROVE  LET n == InvokeContinuation(m, c)
         IN  /\ n.frames # <<>>
             /\ \E v : Sound(n, p, v) /\ \A e \in Seq(Nat) : EnteredOK(m, u, e) => EnteredOK(n, v, e)
<1> DEFINE q == Len(LongestCommonPrefix({m.winds, c.winds}))
           t == Way(m.winds, c.winds, q)
           j == [target |-> c, thunks |-> t]
           n == NextThunk(m, j)
<1>1. m \in VM /\ Stacks(m, u) /\ ModeOK(m, p) /\ u \in 0..Len(m.frames) /\ NoCatches(m)
  BY DEF Sound, Stacks, ModeOK
<1>2. m.winds \in Seq(Nat) /\ c.winds \in Seq(Nat) /\ c \in Cont
      /\ Len(m.frames) \in Nat /\ DOMAIN m.frames = 1..Len(m.frames)
  BY <1>1, Parts DEF ContOK, Cont
<1>3. InvokeContinuation(m, c) = n
  BY DEF InvokeContinuation, Way, Thunks
<1>4. q \in 0..Len(m.winds) /\ q <= Len(c.winds) /\ SubSeq(m.winds, 1, q) = SubSeq(c.winds, 1, q)
  BY <1>2, CommonLaws
<1> HIDE DEF q
<1>5. /\ t \in Seq(Regs) /\ Leads(m.winds, t, c.winds)
      /\ \A i \in DOMAIN t : t[i].role \in ThunkKinds /\ t[i].depth = 0
  BY <1>2, <1>4, WayLeads
<1> HIDE DEF t
<1>6. j \in Jump /\ j.thunks = t /\ j.target = c /\ JumpOK(j)
  BY <1>2, <1>5 DEF Jump, JumpOK
<1>7. Stacks(m, Len(m.frames) + 1)
  <2> DEFINE z == Len(m.frames) + 1
  <2>1. z \notin DOMAIN m.frames
    BY <1>2
  <2> HIDE DEF z
  <2>2. \A i \in DOMAIN m.frames : m.frames[i].kind \notin Pending
    BY <1>1, SilentFacts
  <2>3. Stacks(m, z)
    BY <1>1, <2>1, <2>2, Between
  <2>4. QED
    BY <2>3 DEF z
<1> HIDE DEF j
<1>8. /\ n.frames # <<>>
      /\ \E v : /\ Sound(n, p, v)
                /\ \A e \in Seq(Nat) : Leads(e, j.thunks, j.target.winds) => EnteredOK(n, v, e)
  BY <1>1, <1>6, <1>7, NextThunkKeeps
<1> HIDE DEF n
<1>9. PICK v : /\ Sound(n, p, v)
               /\ \A e \in Seq(Nat) : Leads(e, t, c.winds) => EnteredOK(n, v, e)
  BY <1>6, <1>8
<1>10. ASSUME NEW e \in Seq(Nat), EnteredOK(m, u, e) PROVE EnteredOK(n, v, e)
  <2>1. e = m.winds
    BY <1>1, <1>10, SilentFacts
  <2>2. QED
    BY <1>5, <1>9, <2>1
<1>11. QED
  BY <1>3, <1>8, <1>9, <1>10

-----------------------------------------------------------------------------
(* Raising.                                                                *)

\* With no pending frame, what was entered are the extents of the frames.
LEMMA EnteredZero ==
  ASSUME NEW m \in VM, NEW e, EnteredOK(m, 0, e)
  PROVE  e = Enters(m.frames)
<1> DEFINE s == m.frames
<1>1. s \in Seq(Frames) /\ DOMAIN s = 1..Len(s)
  BY Parts
<1>2. PICK D \in Seq(Nat) : Base(m, 0, D) /\ e = D \o Enters(SubSeq(s, 0 + 1, Len(s)))
  BY DEF EnteredOK
<1>3. D = <<>>
  <2>1. 0 \notin DOMAIN m.frames
    BY <1>1
  <2>2. QED
    BY <1>2, <2>1 DEF Base
<1>4. SubSeq(s, 0 + 1, Len(s)) = s
  <2> HIDE DEF s
  <2>1. SubSeq(s, 1, Len(s)) = s
    BY <1>1, SubSeqFull
  <2>2. QED
    BY <2>1
<1> DEFINE x == Enters(s)
<1>5. e = <<>> \o x
  BY <1>2, <1>3, <1>4
<1>6. x \in Seq(Nat)
  BY <1>1, WindsLaws
<1> HIDE DEF x
<1>7. <<>> \o x = x
  BY <1>6, ConcatNothing
<1>8. QED
  BY <1>5, <1>7 DEF x

\* What follows the first part of a concatenation.
LEMMA ConcatRest ==
  ASSUME NEW X, NEW a \in Seq(X), NEW b \in Seq(X)
  PROVE  SubSeq(a \o b, Len(a) + 1, Len(a \o b)) = b
<1> DEFINE t == a \o b
           n == Len(a)
           r == SubSeq(t, n + 1, Len(t))
<1>1. /\ t \in Seq(X) /\ Len(t) = n + Len(b) /\ n \in Nat /\ Len(b) \in Nat
      /\ \A i \in 1..(n + Len(b)) : t[i] = IF i <= n THEN a[i] ELSE b[i - n]
  BY ConcatProperties, LenProperties
<1> HIDE DEF t, n
<1>2. n \in 0..Len(t)
  BY <1>1
<1>3. r \in Seq(X) /\ Len(r) = Len(t) - n /\ \A i \in 1..(Len(t) - n) : r[i] = t[n + i]
  BY <1>1, <1>2, Cut
<1>4. Len(t) - n = Len(b)
  BY <1>1
<1> HIDE DEF r
<1>5. ASSUME NEW i \in 1..Len(b) PROVE r[i] = b[i]
  <2>1. n + i \in 1..(n + Len(b)) /\ ~(n + i <= n) /\ (n + i) - n = i
    BY <1>1
  <2>2. t[n + i] = b[i]
    BY <1>1, <2>1
  <2>3. QED
    BY <1>3, <1>4, <2>2
<1>6. r = b
  BY SMTT(40), <1>3, <1>4, <1>5, SeqEqual
<1>7. QED
  BY <1>6 DEF r, t, n

\* Above the frame where cf lands no thunk is under way.
Settled(m, cf) ==
  \A k \in (cf.frame_count + 1)..Len(m.frames) : Above(m.frames, m.regs, k).role \notin ThunkKinds

Raises(m, u, p, i) ==
  /\ Sound(m, p, u) /\ m.frames # <<>> /\ i \in 1..Len(m.catches)
  /\ Settled(m, m.catches[i])
  /\ m.transfer # NoTransfer => m.catches[i].wind_count = Len(m.winds)

\* A raise whose catch is the i-th: what stays and what is unwound.
LEMMA SettledFacts ==
  ASSUME NEW m, NEW u, NEW p, NEW i, Raises(m, u, p, i)
  PROVE  LET cf == m.catches[i]
             k == cf.frame_count
             s == m.frames
             rest == SubSeq(s, k + 1, Len(s))
         IN  /\ cf \in CatchFrame /\ k \in 0..Len(s) /\ LandsIn(cf, s, m.regs)
             /\ u \in 0..k /\ "call/cc" \notin p
             /\ SubSeq(s, 1, k) \in Seq(Frames) /\ rest \in Seq(Frames)
             /\ Enters(rest) = Winds(rest)
             /\ m.winds = Winds(SubSeq(s, 1, k)) \o Winds(rest)
             /\ Enters(s) = Enters(SubSeq(s, 1, k)) \o Enters(rest)
             /\ cf.wind_count = Len(Winds(SubSeq(s, 1, k)))
<1> DEFINE cf == m.catches[i]
           k == cf.frame_count
           s == m.frames
           rest == SubSeq(s, k + 1, Len(s))
<1>1. /\ m \in VM /\ Stacks(m, u) /\ ModeOK(m, p) /\ u \in 0..Len(s) /\ Chain(s, m.regs)
      /\ m.winds = Winds(s) /\ (\A j \in DOMAIN s : s[j].kind \in Pending <=> j = u)
      /\ i \in 1..Len(m.catches) /\ Settled(m, cf)
  BY DEF Raises, Sound, Stacks
<1>2. s \in Seq(Frames) /\ Len(s) \in Nat /\ DOMAIN s = 1..Len(s)
      /\ DOMAIN m.catches = 1..Len(m.catches)
  BY <1>1, Parts
<1>3. cf \in CatchFrame /\ k \in 0..Len(s) /\ LandsIn(cf, s, m.regs)
  <2>1. Stacks(m, u) /\ i \in 1..Len(m.catches)
    BY <1>1
  <2>2. QED
    BY <2>1, LandingCut
<1>4. "call/cc" \notin p
  <2>1. m.catches # <<>>
    BY <1>1, <1>2
  <2>2. QED
    BY <1>1, <2>1 DEF ModeOK, NoCatches
<1>5. \A j \in (k + 1)..Len(s) : Above(s, m.regs, j).role \notin ThunkKinds
  BY <1>1 DEF Settled
<1> HIDE DEF cf, k
<1>6. ASSUME NEW j \in (k + 1)..Len(s) PROVE s[j].kind \notin Pending /\ s[j].kind # "DynamicWindBody"
  <2>1. j \in 1..Len(s)
    BY <1>2, <1>3
  <2>2. Fits(s[j], Above(s, m.regs, j)) /\ Above(s, m.regs, j).role \notin ThunkKinds
    BY <1>1, <1>2, <1>5, <2>1 DEF Chain
  <2>3. QED
    BY <2>2 DEF Fits, Pending, ThunkKinds
<1>7. u \in 0..k
  <2>1. ASSUME ~(u <= k) PROVE FALSE
    <3>1. u \in (k + 1)..Len(s) /\ u \in DOMAIN s
      BY SMTT(40), <1>1, <1>2, <1>3, <2>1
    <3>2. QED
      BY <1>1, <1>6, <3>1
  <2>2. QED
    BY <1>1, <1>2, <1>3, <2>1
<1> HIDE DEF s
<1>8. /\ SubSeq(s, 1, k) \in Seq(Frames) /\ rest \in Seq(Frames) /\ Len(rest) = Len(s) - k
      /\ \A j \in 1..(Len(s) - k) : rest[j] = s[k + j]
  BY <1>2, <1>3, Cut
<1>9. Enters(rest) = Winds(rest)
  <2>1. \A j \in 1..(Len(s) - k) : k + j \in (k + 1)..Len(s)
    BY <1>2, <1>3
  <2> HIDE DEF rest
  <2>2. \A j \in 1..Len(rest) : rest[j].kind # "DynamicWindBody"
    BY <1>6, <1>8, <2>1
  <2>3. QED
    BY <1>8, <2>2, AllEntered
<1>10. /\ Winds(s) = Winds(SubSeq(s, 1, k)) \o Winds(rest)
       /\ Enters(s) = Enters(SubSeq(s, 1, k)) \o Enters(rest)
  BY <1>2, <1>3, WindsSplit
<1>11. m.winds = Winds(SubSeq(s, 1, k)) \o Winds(rest)
  BY <1>1, <1>10
<1>12. cf.wind_count = Len(Winds(SubSeq(s, 1, k)))
  BY <1>3 DEF LandsIn, k
<1>13. QED
  BY <1>3, <1>4, <1>7, <1>8, <1>9, <1>10, <1>11, <1>12 DEF rest, cf, k, s

\* The fields that closing catches changes.
LEMMA CutCatches ==
  ASSUME NEW m \in VM, NEW i \in 1..Len(m.catches)
  PROVE  LET n == [m EXCEPT !.catches = SubSeq(@, 1, i - 1)]
         IN  /\ n \in VM /\ n.frames = m.frames /\ n.regs = m.regs /\ n.winds = m.winds
             /\ n.catches = SubSeq(m.catches, 1, i - 1) /\ n.transfer = m.transfer
<1> DEFINE c == SubSeq(m.catches, 1, i - 1)
           n == [m EXCEPT !.catches = c]
<1>1. c \in Seq(CatchFrame)
  <2> DEFINE s == m.catches
             k == i - 1
  <2>1. s \in Seq(CatchFrame) /\ Len(s) \in Nat
    BY Parts
  <2>2. k \in 0..Len(s)
    BY <2>1
  <2> HIDE DEF s, k
  <2>3. SubSeq(s, 1, k) \in Seq(CatchFrame)
    BY <2>1, <2>2, Cut
  <2>4. QED
    BY <2>3 DEF s, k
<1>2. n = [m EXCEPT !.catches = SubSeq(@, 1, i - 1)]
  OBVIOUS
<1> HIDE DEF c
<1>3. /\ n \in VM /\ n.frames = m.frames /\ n.regs = m.regs /\ n.winds = m.winds
      /\ n.catches = c /\ n.transfer = m.transfer
  BY <1>1 DEF VM
<1> HIDE DEF n
<1>4. QED
  BY <1>2, <1>3 DEF c

\* begin_exception_transfer with nothing to unwind,
LEMMA BeginLands ==
  ASSUME NEW m, NEW u, NEW p, NEW i, Raises(m, u, p, i), Len(m.winds) <= m.catches[i].wind_count
  PROVE  LET n == BeginTransfer(m, i)
         IN  Sound(n, p, u) /\ \A e \in Seq(Nat) : EnteredOK(m, u, e) => EnteredOK(n, u, e)
<1> DEFINE cf == m.catches[i]
           k == cf.frame_count
           s == m.frames
           rest == SubSeq(s, k + 1, Len(s))
           cut == [m EXCEPT !.catches = SubSeq(@, 1, i - 1)]
           n == [Land(cut, cf) EXCEPT !.transfer = m.transfer]
<1>1. /\ m \in VM /\ Stacks(m, u) /\ Sound(m, p, u) /\ ModeOK(m, p) /\ m.winds = Winds(s)
      /\ i \in 1..Len(m.catches) /\ u \in 0..Len(s) /\ Settled(m, cf)
  BY DEF Raises, Sound, Stacks
<1>2. s \in Seq(Frames) /\ Len(s) \in Nat /\ DOMAIN s = 1..Len(s)
  BY <1>1, Parts
<1>3. /\ cf \in CatchFrame /\ k \in 0..Len(s) /\ LandsIn(cf, s, m.regs)
      /\ u \in 0..k /\ "call/cc" \notin p
      /\ SubSeq(s, 1, k) \in Seq(Frames) /\ rest \in Seq(Frames)
      /\ Enters(rest) = Winds(rest)
      /\ m.winds = Winds(SubSeq(s, 1, k)) \o Winds(rest)
      /\ cf.wind_count = Len(Winds(SubSeq(s, 1, k)))
  BY SettledFacts
<1>4. BeginTransfer(m, i) = n
  BY DEF BeginTransfer
<1>5. /\ n \in VM /\ n.frames = SubSeq(s, 1, k) /\ n.regs = cf.regs
      /\ n.winds = SubSeq(m.winds, 1, cf.wind_count)
      /\ n.catches = SubSeq(m.catches, 1, i - 1) /\ n.transfer = m.transfer
  <2>1. /\ cut \in VM /\ cut.frames = s /\ cut.regs = m.regs /\ cut.winds = m.winds
        /\ cut.catches = SubSeq(m.catches, 1, i - 1) /\ cut.transfer = m.transfer
    BY <1>1, CutCatches
  <2> HIDE DEF cut
  <2> DEFINE g == Land(cut, cf)
  <2>2. /\ g \in VM /\ g.frames = SubSeq(cut.frames, 1, cf.frame_count) /\ g.regs = cf.regs
        /\ g.winds = SubSeq(cut.winds, 1, cf.wind_count) /\ g.catches = cut.catches
    <3>1. cut.winds = Winds(cut.frames) /\ LandsIn(cf, cut.frames, cut.regs)
      BY <1>1, <1>3, <2>1
    <3> HIDE DEF cf
    <3>2. QED
      BY <1>3, <2>1, <3>1, LandIs
  <2>3. m.transfer \in Transfer \cup {NoTransfer}
    BY <1>1, Parts
  <2>4. n = [g EXCEPT !.transfer = m.transfer]
    OBVIOUS
  <2> HIDE DEF g
  <2>5. /\ n \in VM /\ n.frames = g.frames /\ n.regs = g.regs /\ n.winds = g.winds
        /\ n.catches = g.catches /\ n.transfer = m.transfer
    BY <2>2, <2>3, <2>4 DEF VM
  <2> HIDE DEF n
  <2>6. QED
    BY <2>1, <2>2, <2>5
<1> HIDE DEF n
<1>6. Lands(m, cf, n)
  BY <1>3, <1>5 DEF Lands
<1>7. LandsAt(m, u, i, n)
  BY <1>1, <1>3, <1>5, <1>6 DEF LandsAt
<1>8. Stacks(n, u)
  BY <1>1, <1>7, LandKeeps
<1>9. /\ Len(n.frames) = k /\ \A j \in 1..k : n.frames[j] = s[j]
      /\ \A j \in 0..k : Above(n.frames, n.regs, j) = IF j = k THEN n.regs ELSE Above(s, m.regs, j)
  BY SMTT(40), <1>1, <1>6, LandFacts
<1>10. ModeOK(n, p)
  <2>1. Len(n.frames) <= Len(s) /\ \A j \in 1..Len(n.frames) : n.frames[j] = s[j]
    BY <1>2, <1>3, <1>9
  <2>2. QED
    BY <1>1, <1>3, <1>5, <2>1, ModeCut
<1>11. Sound(n, p, u)
  BY <1>3, <1>8, <1>9, <1>10 DEF Sound
<1>12. Winds(rest) = <<>> /\ Enters(rest) = <<>>
  <2> DEFINE a == Winds(SubSeq(s, 1, k))
             b == Winds(rest)
  <2>1. a \in Seq(Nat) /\ b \in Seq(Nat)
    BY <1>3, WindsLaws
  <2>2. m.winds = a \o b /\ Len(m.winds) <= Len(a)
    <3>1. Len(m.winds) <= cf.wind_count
      OBVIOUS
    <3>2. QED
      BY <1>3, <3>1
  <2> HIDE DEF a, b
  <2>3. Len(a \o b) = Len(a) + Len(b) /\ Len(a) \in Nat /\ Len(b) \in Nat
    BY <2>1, ConcatProperties, LenProperties
  <2>4. Len(b) = 0
    BY <2>2, <2>3
  <2>5. b = <<>>
    BY <2>1, <2>4, EmptySeq
  <2>6. QED
    BY <1>3, <2>5 DEF b
<1>13. Agrees(m, u, n)
  <2>1. /\ Above(n.frames, n.regs, u).role = Above(s, m.regs, u).role
        /\ Above(n.frames, n.regs, u).extent = Above(s, m.regs, u).extent
    <3>1. CASE u = k
      <4>1. Above(n.frames, n.regs, u) = cf.regs
        BY <1>3, <1>5, <1>9, <3>1
      <4>2. QED
        BY <1>3, <3>1, <4>1 DEF LandsIn
    <3>2. CASE u # k
      BY <1>3, <1>9, <3>2
    <3>3. QED
      BY <3>1, <3>2
  <2>2. u <= Len(n.frames) /\ \A j \in 1..u : n.frames[j] = s[j]
    BY SMTT(40), <1>3, <1>9
  <2>3. QED
    BY <1>1, <1>5, <2>1, <2>2 DEF Agrees
<1>14. Enters(SubSeq(s, u + 1, Len(s))) = Enters(SubSeq(n.frames, u + 1, Len(n.frames)))
  <2> DEFINE t == n.frames
             z == SubSeq(s, u + 1, Len(s))
             x == SubSeq(z, 1, k - u)
             y == SubSeq(z, (k - u) + 1, Len(z))
             q == SubSeq(t, u + 1, Len(t))
  <2>1. t \in Seq(Frames) /\ Len(t) = k /\ (\A j \in 1..k : t[j] = s[j]) /\ u \in 0..Len(t)
    BY <1>3, <1>5, <1>9, Parts
  <2>2. u \in Nat /\ k \in Nat /\ u <= k /\ k <= Len(s) /\ u \in 0..Len(s)
    BY <1>1, <1>2, <1>3
  <2>3. /\ rest \in Seq(Frames) /\ Len(rest) = Len(s) - k
        /\ \A j \in 1..(Len(s) - k) : rest[j] = s[k + j]
    <3>1. k \in 0..Len(s)
      BY <1>3
    <3> HIDE DEF s, k
    <3>2. QED
      BY <1>2, <3>1, Cut
  <2> HIDE DEF t, s, k, rest
  <2>4. z \in Seq(Frames) /\ Len(z) = Len(s) - u /\ \A j \in 1..(Len(s) - u) : z[j] = s[u + j]
    BY <1>2, <2>2, Cut
  <2> HIDE DEF z
  <2>5. k - u \in 0..Len(z) /\ Len(z) - (k - u) = Len(s) - k
    BY <1>2, <2>2, <2>4
  <2>6. Enters(z) = Enters(x) \o Enters(y)
    BY <2>4, <2>5, WindsSplit
  <2>7. /\ x \in Seq(Frames) /\ Len(x) = k - u /\ \A j \in 1..(k - u) : x[j] = z[j]
        /\ y \in Seq(Frames) /\ Len(y) = Len(z) - (k - u)
        /\ \A j \in 1..(Len(z) - (k - u)) : y[j] = z[(k - u) + j]
    BY <2>4, <2>5, Cut
  <2>8. q \in Seq(Frames) /\ Len(q) = Len(t) - u /\ \A j \in 1..(Len(t) - u) : q[j] = t[u + j]
    BY <2>1, Cut
  <2> HIDE DEF x, y, q
  <2>9. ASSUME NEW j \in 1..(k - u) PROVE x[j] = q[j]
    <3>1. j \in 1..(Len(s) - u) /\ u + j \in 1..k
      BY <1>2, <2>2
    <3>2. x[j] = s[u + j]
      BY <2>4, <2>7, <3>1
    <3>3. q[j] = t[u + j]
      BY <2>1, <2>8
    <3>4. QED
      BY <2>1, <3>1, <3>2, <3>3
  <2>10. x = q
    <3>1. Len(x) = Len(q) /\ Len(x) = k - u
      BY <2>1, <2>7, <2>8
    <3>2. \A j \in 1..Len(x) : x[j] = q[j]
      BY <2>9, <3>1
    <3>3. QED
      BY <2>7, <2>8, <3>1, <3>2, SeqEqual
  <2>11. ASSUME NEW j \in 1..(Len(s) - k) PROVE y[j] = rest[j]
    <3>1. (k - u) + j \in 1..(Len(s) - u) /\ u + ((k - u) + j) = k + j
      BY <1>2, <2>2
    <3>2. y[j] = z[(k - u) + j]
      BY <2>5, <2>7
    <3>3. z[(k - u) + j] = s[u + ((k - u) + j)]
      BY <2>4, <3>1
    <3>4. QED
      BY <2>3, <3>1, <3>2, <3>3
  <2>12. y = rest
    <3>1. Len(y) = Len(rest) /\ Len(y) = Len(s) - k
      BY <2>3, <2>5, <2>7
    <3>2. \A j \in 1..Len(y) : y[j] = rest[j]
      BY <2>11, <3>1
    <3>3. QED
      BY <2>3, <2>7, <3>1, <3>2, SeqEqual
  <2>13. Enters(x) \in Seq(Nat)
    BY <2>7, WindsLaws
  <2> DEFINE w == Enters(x)
  <2>14. w \o <<>> = w
    <3>1. w \in Seq(Nat)
      BY <2>13
    <3> HIDE DEF w
    <3>2. QED
      BY <3>1, ConcatNothing
  <2>15. Enters(z) = Enters(q)
    BY <1>12, <2>6, <2>10, <2>12, <2>14 DEF rest
  <2>16. QED
    BY <2>15 DEF z, q, t, s
<1>15. ASSUME NEW e \in Seq(Nat), EnteredOK(m, u, e) PROVE EnteredOK(n, u, e)
  <2>1. PICK D \in Seq(Nat) : Base(m, u, D) /\ e = D \o Enters(SubSeq(s, u + 1, Len(s)))
    BY <1>15 DEF EnteredOK
  <2>2. Base(n, u, D)
    BY <1>1, <1>13, <2>1, BaseKeeps
  <2>3. e = D \o Enters(SubSeq(n.frames, u + 1, Len(n.frames)))
    BY <1>14, <2>1
  <2>4. QED
    BY <2>2, <2>3 DEF EnteredOK
<1>16. QED
  BY <1>4, <1>11, <1>15

\* and with thunks to run first,
LEMMA BeginUnwinds ==
  ASSUME NEW m, NEW u, NEW p, NEW i, Raises(m, u, p, i), ~(Len(m.winds) <= m.catches[i].wind_count)
  PROVE  LET n == BeginTransfer(m, i)
         IN  \E v : Sound(n, p, v) /\ \A e \in Seq(Nat) : EnteredOK(m, u, e) => EnteredOK(n, v, e)
<1> DEFINE cf == m.catches[i]
           k == cf.frame_count
           s == m.frames
           first == SubSeq(s, 1, k)
           rest == SubSeq(s, k + 1, Len(s))
           cut == [m EXCEPT !.catches = SubSeq(@, 1, i - 1)]
           w == SubSeq(m.winds, cf.wind_count + 1, Len(m.winds))
           tr == [target |-> cf, thunks |-> Reverse(w)]
           g == [cut EXCEPT !.transfer = tr]
<1>1. /\ m \in VM /\ Stacks(m, u) /\ Sound(m, p, u) /\ ModeOK(m, p) /\ m.frames # <<>>
      /\ i \in 1..Len(m.catches) /\ u \in 0..Len(s) /\ Settled(m, cf)
      /\ TransferOK(m, u) /\ \A j \in DOMAIN s : s[j].kind \in Pending <=> j = u
      /\ m.transfer # NoTransfer => cf.wind_count = Len(m.winds)
  BY DEF Raises, Sound, Stacks
<1>2. s \in Seq(Frames) /\ Len(s) \in Nat /\ DOMAIN s = 1..Len(s) /\ m.winds \in Seq(Nat)
      /\ Len(m.winds) \in Nat
  BY <1>1, Parts, LenProperties
<1>3. /\ cf \in CatchFrame /\ k \in 0..Len(s) /\ "call/cc" \notin p
      /\ first \in Seq(Frames) /\ rest \in Seq(Frames) /\ Enters(rest) = Winds(rest)
      /\ m.winds = Winds(first) \o Winds(rest) /\ Enters(s) = Enters(first) \o Enters(rest)
      /\ cf.wind_count = Len(Winds(first))
  <2>1. cf \in CatchFrame /\ k \in 0..Len(s) /\ "call/cc" \notin p
    BY SettledFacts
  <2>2. first \in Seq(Frames) /\ rest \in Seq(Frames) /\ Enters(rest) = Winds(rest)
    BY SettledFacts
  <2>3. m.winds = Winds(first) \o Winds(rest) /\ Enters(s) = Enters(first) \o Enters(rest)
    BY SettledFacts
  <2>4. cf.wind_count = Len(Winds(first))
    BY SettledFacts
  <2>5. QED
    BY <2>1, <2>2, <2>3, <2>4
<1>4. m.transfer = NoTransfer
  <2>1. cf.wind_count # Len(m.winds)
    BY <1>2
  <2>2. QED
    BY <1>1, <2>1
<1>5. u = 0
  <2>1. \A j \in DOMAIN s : s[j].kind # "ExceptionUnwind" /\ s[j].kind # "ContinuationJump"
    BY <1>1, <1>3, <1>4 DEF TransferOK, ModeOK
  <2>2. u \notin DOMAIN s
    BY <1>1, <2>1 DEF Pending
  <2>3. QED
    BY <1>1, <1>2, <2>2
<1>6. w \in Seq(Nat) /\ w = Enters(rest)
  <2> DEFINE a == Winds(first)
             b == Winds(rest)
  <2>1. a \in Seq(Nat) /\ b \in Seq(Nat)
    BY <1>3, WindsLaws
  <2>2. w = SubSeq(a \o b, Len(a) + 1, Len(a \o b)) /\ b = Enters(rest)
    BY <1>3
  <2> HIDE DEF a, b, w
  <2>3. QED
    BY <2>1, <2>2, ConcatRest
<1>7. BeginTransfer(m, i) = ResumeTransfer(g)
  BY DEF BeginTransfer
<1>8. /\ cut \in VM /\ cut.frames = s /\ cut.regs = m.regs /\ cut.winds = m.winds
      /\ cut.catches = SubSeq(m.catches, 1, i - 1)
  BY <1>1, CutCatches
<1> HIDE DEF w
<1>9. tr \in Transfer /\ tr # NoTransfer /\ tr.target = cf /\ tr.thunks = Reverse(w)
  <2>1. Reverse(w) \in Seq(Nat)
    BY <1>6, ReverseLaws
  <2>2. tr \in Transfer /\ tr.target = cf /\ tr.thunks = Reverse(w)
    BY <1>3, <2>1 DEF Transfer
  <2>3. NoTransfer \notin Transfer
    BY ControlAssumption
  <2>4. QED
    BY <2>2, <2>3
<1> HIDE DEF cut, tr
<1>10. /\ g \in VM /\ g.frames = s /\ g.regs = m.regs /\ g.winds = m.winds
       /\ g.catches = SubSeq(m.catches, 1, i - 1) /\ g.transfer = tr
  BY <1>8, <1>9 DEF VM
<1> HIDE DEF g
<1>11. StartsTransfer(m, i, g)
  BY <1>1, <1>4, <1>9, <1>10 DEF StartsTransfer
<1>12. Stacks(g, Len(g.frames) + 1)
  <2>1. Stacks(m, 0)
    BY SMTT(40), <1>1, <1>5
  <2>2. QED
    BY <1>11, <2>1, TransferStarts
<1>13. ModeOK(g, p)
  BY <1>1, <1>3, <1>10 DEF ModeOK
<1> DEFINE n == ResumeTransfer(g)
<1>14. PICK v : /\ Sound(n, p, v)
                /\ EnteredOK(n, v, Enters(SubSeq(g.frames, 1, g.transfer.target.frame_count))
                                     \o Reverse(g.transfer.thunks))
  <2>1. g.transfer # NoTransfer /\ g.frames # <<>> /\ "call/cc" \notin p
    BY SMTT(40), <1>1, <1>3, <1>9, <1>10
  <2>2. QED
    BY SMTT(40), <1>12, <1>13, <2>1, ResumeKeeps
<1>15. Enters(SubSeq(g.frames, 1, g.transfer.target.frame_count)) \o Reverse(g.transfer.thunks)
         = Enters(s)
  <2>1. SubSeq(g.frames, 1, g.transfer.target.frame_count) = first
    BY <1>9, <1>10
  <2>2. Reverse(g.transfer.thunks) = w
    BY <1>6, <1>9, <1>10, ReverseLaws
  <2>3. QED
    BY <1>3, <1>6, <2>1, <2>2
<1>16. ASSUME NEW e \in Seq(Nat), EnteredOK(m, u, e) PROVE EnteredOK(n, v, e)
  <2>1. e = Enters(s)
    BY <1>1, <1>5, <1>16, EnteredZero
  <2>2. QED
    BY <1>14, <1>15, <2>1
<1>17. QED
  BY <1>7, <1>14, <1>16

\* keeps the machine in order.
LEMMA BeginKeeps ==
  ASSUME NEW m, NEW u, NEW p, NEW i, Raises(m, u, p, i)
  PROVE  LET n == BeginTransfer(m, i)
         IN  \E v : Sound(n, p, v) /\ \A e \in Seq(Nat) : EnteredOK(m, u, e) => EnteredOK(n, v, e)
<1>1. CASE Len(m.winds) <= m.catches[i].wind_count
  <2>1. /\ Sound(BeginTransfer(m, i), p, u)
        /\ \A e \in Seq(Nat) : EnteredOK(m, u, e) => EnteredOK(BeginTransfer(m, i), u, e)
    BY <1>1, BeginLands
  <2>2. QED
    BY <2>1
<1>2. CASE ~(Len(m.winds) <= m.catches[i].wind_count)
  BY <1>2, BeginUnwinds
<1>3. QED
  BY <1>1, <1>2

\* Registers that differ in their depth, or a catch stack that does.
LEMMA EnteredSame ==
  ASSUME NEW m, NEW u, NEW n, NEW e, Stacks(m, u), SameButDepth(m, u, n), EnteredOK(m, u, e)
  PROVE  EnteredOK(n, u, e)
<1>1. PICK D \in Seq(Nat) : Base(m, u, D) /\ e = D \o Enters(SubSeq(m.frames, u + 1, Len(m.frames)))
  BY DEF EnteredOK
<1>2. /\ m \in VM /\ n \in VM /\ u \in 0..Len(m.frames) /\ n.frames = m.frames
      /\ n.transfer = m.transfer /\ n.regs.role = m.regs.role /\ n.regs.extent = m.regs.extent
  BY DEF Stacks, SameButDepth
<1>3. /\ Above(n.frames, n.regs, u).role = Above(m.frames, m.regs, u).role
      /\ Above(n.frames, n.regs, u).extent = Above(m.frames, m.regs, u).extent
  BY <1>2 DEF Above
<1>4. u <= Len(n.frames) /\ \A j \in 1..u : n.frames[j] = m.frames[j]
  BY <1>2
<1>5. Agrees(m, u, n)
  BY <1>2, <1>3, <1>4 DEF Agrees
<1>6. Base(n, u, D)
  BY <1>1, <1>5, BaseKeeps
<1>7. QED
  BY <1>1, <1>2, <1>6 DEF EnteredOK

-----------------------------------------------------------------------------
(* The machine as its actions and properties see it.                       *)

\* So does a raise that nothing catches.
LEMMA StatusKeeps ==
  ASSUME NEW m, NEW u, NEW p, Sound(m, p, u)
  PROVE  LET n == [m EXCEPT !.status = "failed"]
         IN  /\ Sound(n, p, u) /\ \A e : EnteredOK(m, u, e) => EnteredOK(n, u, e)
<1> DEFINE n == [m EXCEPT !.status = "failed"]
<1>1. m \in VM /\ u \in 0..Len(m.frames) /\ Stacks(m, u) /\ ModeOK(m, p)
  BY DEF Sound, Stacks
<1>2. /\ n \in VM /\ n.regs = m.regs /\ n.frames = m.frames /\ n.winds = m.winds
      /\ n.catches = m.catches /\ n.transfer = m.transfer
  BY <1>1 DEF VM
<1> HIDE DEF n
<1>3. Landings(n) = Landings(m) /\ Masked(n, u) = Masked(m, u)
  BY <1>2 DEF Landings, Masked
<1>4. Stacks(n, u)
  BY <1>1, <1>2, <1>3 DEF Stacks, TransferOK
<1>5. ModeOK(n, p)
  BY <1>1, <1>2 DEF ModeOK, NoCatches, JumpsOK
<1>6. SameButDepth(m, u, n)
  BY <1>1, <1>2 DEF SameButDepth
<1>7. QED
  BY <1>1, <1>2, <1>4, <1>5, <1>6, EnteredSame DEF Sound, n

\* The registers the frames save, and those that run.
LEMMA SavedIs ==
  ASSUME vm \in VM
  PROVE  /\ DOMAIN Saved = 1..(Len(vm.frames) + 1) /\ Len(vm.frames) \in Nat
         /\ \A j \in 1..(Len(vm.frames) + 1) : Saved[j] = Above(vm.frames, vm.regs, j - 1)
<1> DEFINE s == vm.frames
           l == Len(s)
           a == [i \in DOMAIN s |-> s[i].regs]
<1>1. s \in Seq(Frames) /\ l \in Nat /\ DOMAIN s = 1..l /\ vm.regs \in Regs
  BY Parts
<1>2. \A i \in 1..l : s[i].regs \in Regs
  <2>1. \A i \in 1..l : s[i] \in Frames
    BY <1>1
  <2>2. QED
    BY <2>1, FrameFacts
<1>3. a \in Seq(Regs) /\ Len(a) = l /\ \A i \in 1..l : a[i] = s[i].regs
  BY <1>1, <1>2
<1>4. Saved = Append(a, vm.regs)
  BY DEF Saved
<1> HIDE DEF a
<1> DEFINE b == Append(a, vm.regs)
<1>5. /\ b \in Seq(Regs) /\ Len(b) = l + 1 /\ b[l + 1] = vm.regs
      /\ \A i \in 1..l : b[i] = a[i]
  BY <1>1, <1>3, AppendProperties
<1> HIDE DEF b
<1>6. DOMAIN b = 1..(l + 1)
  BY <1>5, LenProperties
<1>7. ASSUME NEW j \in 1..(l + 1) PROVE b[j] = Above(s, vm.regs, j - 1)
  <2>1. CASE j = l + 1
    <3>1. j - 1 = Len(s)
      BY <1>1, <2>1
    <3>2. QED
      BY <1>5, <2>1, <3>1, AboveLaws
  <2>2. CASE j # l + 1
    <3>1. j - 1 # Len(s) /\ (j - 1) + 1 = j /\ j \in 1..l
      BY <1>1, <2>2
    <3>2. Above(s, vm.regs, j - 1) = s[(j - 1) + 1].regs
      BY <3>1, AboveLaws
    <3>3. QED
      BY <1>3, <1>5, <3>1, <3>2
  <2>3. QED
    BY <2>1, <2>2
<1>8. QED
  BY <1>1, <1>4, <1>6, <1>7 DEF b

\* InThunk, by the roles of what runs and waits.
LEMMA SilentIs ==
  ASSUME vm \in VM PROVE InThunk <=> ~Silent(vm)
<1> DEFINE l == Len(vm.frames)
<1>1. /\ DOMAIN Saved = 1..(l + 1) /\ l \in Nat
      /\ \A j \in 1..(l + 1) : Saved[j] = Above(vm.frames, vm.regs, j - 1)
  BY SavedIs
<1>2. ASSUME NEW j \in DOMAIN Saved, Saved[j].role \in ThunkKinds PROVE ~Silent(vm)
  <2>1. j - 1 \in 0..l /\ Above(vm.frames, vm.regs, j - 1).role \in ThunkKinds
    BY <1>1, <1>2
  <2>2. QED
    BY <2>1 DEF Silent
<1>3. ASSUME NEW i \in 0..l, Above(vm.frames, vm.regs, i).role \in ThunkKinds PROVE InThunk
  <2>1. i + 1 \in 1..(l + 1) /\ (i + 1) - 1 = i
    BY <1>1
  <2>2. Saved[i + 1] = Above(vm.frames, vm.regs, i)
    BY <1>1, <2>1
  <2>3. QED
    BY <1>1, <1>3, <2>1, <2>2 DEF InThunk
<1>4. QED
  BY <1>2, <1>3 DEF InThunk, Silent

\* A machine that runs has frames.
LEMMA HasFrames ==
  ASSUME NEW u, Stacks(vm, u), Running PROVE vm.frames # <<>>
BY DEF Stacks, Chain, Running

\* A raise that is no departure gives what BeginKeeps needs.
LEMMA QuietIs ==
  ASSUME NEW tag, NEW u, NEW p, Sound(vm, p, u), Running, Departing(tag) = {}, Matches(tag) # {}
  PROVE  Raises(vm, u, p, Max(Matches(tag)))
<1> DEFINE i == Max(Matches(tag))
           cf == vm.catches[i]
           s == vm.frames
           l == Len(s)
           S == {j \in DOMAIN Saved : Saved[j].role \in ThunkKinds}
<1>1. /\ vm \in VM /\ Stacks(vm, u) /\ u \in 0..l /\ TransferOK(vm, u) /\ Chain(s, vm.regs)
      /\ \A j \in DOMAIN vm.catches : LandsIn(vm.catches[j], s, vm.regs)
  BY DEF Sound, Stacks
<1>2. /\ DOMAIN Saved = 1..(l + 1) /\ l \in Nat /\ DOMAIN s = 1..l
      /\ \A j \in 1..(l + 1) : Saved[j] = Above(s, vm.regs, j - 1)
  BY <1>1, SavedIs, Parts
<1>3. i \in 1..Len(vm.catches)
  <2> DEFINE n == Len(vm.catches)
             M == Matches(tag)
  <2>1. n \in Nat /\ M \in SUBSET (1..n)
    BY <1>1, Parts DEF Matches
  <2>2. M # {}
    OBVIOUS
  <2> HIDE DEF n, M
  <2>3. Max(M) \in M
    BY <2>1, <2>2, Extremes
  <2>4. QED
    BY <2>1, <2>3 DEF M, n
<1>4. cf.frame_count \in Nat
  <2>1. cf \in CatchFrame
    BY <1>1, <1>3, Parts
  <2>2. QED
    BY <2>1 DEF CatchFrame
<1> HIDE DEF i
<1>8. ~LeavesThunk(tag) /\ ~Overwrites(tag)
  <2>1. Departing(tag) = {}
    OBVIOUS
  <2>2. "raise leaves a thunk" \notin Departing(tag) /\ "transfer overwritten" \notin Departing(tag)
    BY <2>1
  <2>3. QED
    BY <2>2 DEF Departing
<1>9. InThunk => cf.frame_count >= InnermostThunk - 1
  <2> DEFINE z == InnermostThunk
  <2>1. z \in Nat
    <3> DEFINE n == l + 1
    <3>1. n \in Nat /\ S \in SUBSET (1..n)
      BY <1>2
    <3>2. z = Max(S \cup {0})
      <4>1. {0} \cup S = S \cup {0}
        OBVIOUS
      <4>2. QED
        BY <4>1 DEF InnermostThunk
    <3> DEFINE y == Max(S \cup {0})
    <3> HIDE DEF n, S, z
    <3>3. y \in 0..n
      BY <3>1, MaxOrZero
    <3> HIDE DEF y
    <3>4. z = y
      BY <3>2 DEF y
    <3>5. QED
      BY <3>1, <3>3, <3>4
  <2>2. InThunk => ~(cf.frame_count < z - 1)
    BY <1>8 DEF LeavesThunk, i
  <2> HIDE DEF z, cf
  <2>3. InThunk => cf.frame_count >= z - 1
    BY <1>4, <2>1, <2>2
  <2>4. QED
    BY <2>3 DEF z, cf
<1>5. Settled(vm, cf)
  <2>1. ASSUME NEW k \in (cf.frame_count + 1)..l, Above(s, vm.regs, k).role \in ThunkKinds
        PROVE  FALSE
    <3>1. k \in 0..l /\ k + 1 \in 1..(l + 1) /\ (k + 1) - 1 = k
      BY <1>2, <1>4
    <3>2. k + 1 \in S
      BY <1>2, <2>1, <3>1
    <3>3. InThunk
      BY <3>2 DEF InThunk
    <3>4. cf.frame_count >= InnermostThunk - 1
      BY <1>9, <3>3
    <3>5. InnermostThunk \in Nat /\ k + 1 <= InnermostThunk
      <4> DEFINE n == l + 1
                 z == Max(S \cup {0})
      <4>1. n \in Nat /\ S \in SUBSET (1..n)
        BY <1>2
      <4>2. InnermostThunk = z
        <5>1. {0} \cup S = S \cup {0}
          OBVIOUS
        <5>2. QED
          BY <5>1 DEF InnermostThunk
      <4> HIDE DEF n, S
      <4>3. z \in 0..n /\ \A j \in S : j <= z
        BY <4>1, MaxOrZero
      <4> HIDE DEF z
      <4>4. k + 1 <= z
        BY <3>2, <4>3
      <4>5. z \in Nat
        BY <4>1, <4>3
      <4>6. QED
        BY <4>2, <4>4, <4>5
    <3>6. QED
      BY <1>2, <1>4, <3>4, <3>5
  <2>2. QED
    BY <2>1 DEF Settled
<1>6. vm.transfer # NoTransfer => cf.wind_count = Len(vm.winds)
  <2>1. ASSUME vm.transfer # NoTransfer PROVE cf.wind_count = Len(vm.winds)
    <3>1. u \in 1..l /\ s[u].kind = "ExceptionUnwind"
      BY <1>1, <1>2, <2>1 DEF TransferOK
    <3>2. Fits(s[u], Above(s, vm.regs, u)) /\ u \in 0..l
      BY <1>1, <1>2, <3>1 DEF Chain
    <3>3. Above(s, vm.regs, u).role \in ThunkKinds
      BY <3>1, <3>2 DEF Fits, ThunkKinds
    <3>4. ASSUME cf.frame_count < u PROVE FALSE
      <4>1. u \in (cf.frame_count + 1)..l
        BY <1>2, <1>4, <3>1, <3>4
      <4>2. QED
        BY <1>5, <3>3, <4>1 DEF Settled
    <3>5. vm.transfer.target.frame_count < u /\ vm.transfer.target.frame_count \in Nat
      <4>1. vm.transfer \in Transfer
        BY <1>1, <2>1, Parts
      <4>2. QED
        BY <1>1, <2>1, <4>1 DEF TransferOK, Transfer, CatchFrame
    <3>6. cf.frame_count > vm.transfer.target.frame_count
      BY <1>4, <3>1, <3>4, <3>5
    <3>7. QED
      BY <1>8, <2>1, <3>6 DEF Overwrites, i
  <2>2. QED
    BY <2>1
<1>7. QED
  BY <1>1, <1>3, <1>5, <1>6, HasFrames DEF Raises, i

-----------------------------------------------------------------------------
(* The invariant of the machine.                                           *)

Escaping == "continuation in tail position"

Kept(m, p, e) == \E u : Sound(m, p, u) /\ (Escaping \notin p => EnteredOK(m, u, e))

ContsKept(p, c) == IF "call/cc" \in p THEN \A k \in DOMAIN c : ContOK(c[k]) ELSE c = <<>>

ControlInv ==
  /\ program \in Programs /\ winds \in Nat /\ steps \in Nat
  /\ conts \in Seq(Cont) /\ entered \in Seq(Nat)
  /\ ContsKept(program, conts)
  /\ Kept(vm, program, entered)

\* What an action leaves to show.
LEMMA Moves ==
  ASSUME ControlInv, program' = program, conts' = conts, winds' \in Nat, steps' \in Nat,
         entered' \in Seq(Nat), Kept(vm', program, entered')
  PROVE  ControlInv'
BY DEF ControlInv

\* What the lemmas on machines say, as Kept.
LEMMA MovesTo ==
  ASSUME NEW m, NEW p, NEW e \in Seq(Nat), NEW u, Escaping \notin p => EnteredOK(m, u, e), NEW n,
         \E v : Sound(n, p, v) /\ \A x \in Seq(Nat) : EnteredOK(m, u, x) => EnteredOK(n, v, x)
  PROVE  Kept(n, p, e)
BY DEF Kept

\* The machine before an instruction.
LEMMA Now ==
  ASSUME ControlInv, Running
  PROVE  \E u : /\ Sound(vm, program, u) /\ vm.frames # <<>>
                /\ Escaping \notin program => EnteredOK(vm, u, entered)
<1>1. PICK u : Sound(vm, program, u) /\ (Escaping \notin program => EnteredOK(vm, u, entered))
  BY DEF ControlInv, Kept
<1>2. vm.frames # <<>>
  BY <1>1, HasFrames DEF Sound
<1>3. QED
  BY <1>1, <1>2

\* The invariant, initially,
LEMMA InitControl == Init => ControlInv
<1> SUFFICES ASSUME Init PROVE ControlInv
  OBVIOUS
<1> DEFINE f == Frame("Sentinel", NoRun, 0)
           s == vm.frames
<1>1. /\ vm.regs = Run("main", 0) /\ s = <<f>> /\ vm.winds = <<>> /\ vm.catches = <<>>
      /\ vm.transfer = NoTransfer /\ vm.status = "running"
      /\ program \in Programs /\ conts = <<>> /\ winds = 0 /\ steps = 0 /\ entered = <<>>
  BY DEF Init
<1>2. /\ f \in Frames /\ f.kind = "Sentinel" /\ f.regs = NoRun /\ NoRun.depth = 0
      /\ vm.regs \in Regs /\ vm.regs.role = "main" /\ vm.regs.depth = 0
  BY <1>1 DEF Frame, Frames, PlainFrame, PlainKinds, Run, NoRun, Regs, Roles
<1> HIDE DEF f
<1>3. s \in Seq(Frames) /\ Len(s) = 1 /\ s[1] = f /\ DOMAIN s = 1..1
  BY <1>1, <1>2
<1>4. vm \in VM
  <2>1. <<>> \in Seq(Nat) /\ <<>> \in Seq(CatchFrame)
    BY EmptySeq
  <2> DEFINE a == Run("main", 0)
             b == <<f>>
  <2>2. vm = [regs |-> a, frames |-> b, winds |-> <<>>, catches |-> <<>>,
              transfer |-> NoTransfer, status |-> "running"]
    BY DEF Init, f
  <2>3. a \in Regs /\ b \in Seq(Frames)
    BY <1>1, <1>2, <1>3
  <2> HIDE DEF a, b
  <2>4. QED
    BY <2>1, <2>2, <2>3 DEF VM
<1>5. Above(s, vm.regs, 1) = vm.regs /\ Above(s, vm.regs, 0) = NoRun
  BY <1>2, <1>3 DEF Above
<1>6. Chain(s, vm.regs)
  <2>1. Fits(f, vm.regs)
    BY <1>2 DEF Fits
  <2>2. s # <<>>
    BY <1>3, EmptySeq
  <2>3. QED
    BY <1>2, <1>3, <1>5, <2>1, <2>2 DEF Chain
<1>7. Winds(s) = <<>> /\ Enters(s) = <<>>
  <2>1. \A i \in 1..Len(s) : s[i].kind \notin WindKinds
    BY <1>2, <1>3 DEF WindKinds
  <2> HIDE DEF s
  <2>2. QED
    BY <1>3, <2>1, NoExtents
<1>8. NoCatches(vm)
  <2>1. \A i \in 0..Len(s) : i = 0 \/ i = 1
    BY <1>3
  <2>2. QED
    BY <1>1, <1>2, <1>5, <2>1 DEF NoCatches
<1>9. Stacks(vm, 0)
  <2>1. \A i \in DOMAIN vm.frames :
          (vm.frames[i].kind \in Pending <=> i = 0) /\ vm.frames[i].kind # "ExceptionUnwind"
    BY <1>2, <1>3 DEF Pending
  <2>2. Chain(vm.frames, vm.regs) /\ vm.winds = Winds(vm.frames)
    BY <1>1, <1>6, <1>7
  <2>3. QED
    BY <1>4, <1>8, <2>1, <2>2, QuietStacks
<1>10. Sound(vm, program, 0)
  <2>1. ModeOK(vm, program)
    BY <1>2, <1>3, <1>8 DEF ModeOK, JumpsOK
  <2>2. 0 \in 0..Len(s)
    BY <1>3
  <2>3. QED
    BY <1>9, <2>1, <2>2 DEF Sound
<1>11. EnteredOK(vm, 0, entered)
  BY <1>1, <1>4, <1>7, EnteredAll
<1>12. Kept(vm, program, entered)
  BY <1>10, <1>11 DEF Kept
<1>13. conts \in Seq(Cont) /\ entered \in Seq(Nat) /\ ContsKept(program, conts)
  <2>1. <<>> \in Seq(Cont) /\ <<>> \in Seq(Nat)
    BY EmptySeq
  <2>2. DOMAIN conts = {}
    BY <1>1
  <2>3. QED
    BY <1>1, <2>1, <2>2 DEF ContsKept
<1>14. QED
  BY <1>1, <1>12, <1>13 DEF ControlInv

-----------------------------------------------------------------------------
(* The actions.                                                            *)

\* and after each instruction: calls,
LEMMA CallsStep == ControlInv /\ (Call \/ CallWithValues) => ControlInv'
<1> SUFFICES ASSUME ControlInv, Call \/ CallWithValues PROVE ControlInv'
  OBVIOUS
<1>1. PICK kind \in {"Normal", "CallWithValuesConsumer"} :
        /\ Running /\ steps' = steps + 1 /\ program' = program /\ conts' = conts
        /\ winds' = winds /\ entered' = entered
        /\ vm' = SetupFrame(vm, Run("lambda", 0), kind, 0)
  BY DEF Call, CallWithValues, Step
<1>2. PICK u : /\ Sound(vm, program, u) /\ vm.frames # <<>>
               /\ Escaping \notin program => EnteredOK(vm, u, entered)
  BY <1>1, Now
<1>3. entered \in Seq(Nat) /\ winds' \in Nat /\ steps' \in Nat
  BY <1>1 DEF ControlInv
<1> DEFINE n == SetupFrame(vm, Run("lambda", 0), kind, 0)
<1>4. Sound(n, program, u) /\ \A x \in Seq(Nat) : EnteredOK(vm, u, x) => EnteredOK(n, u, x)
  BY <1>2, CallKeeps
<1> HIDE DEF n
<1>5. Kept(n, program, entered)
  BY <1>2, <1>3, <1>4, MovesTo
<1>6. Kept(vm', program, entered')
  BY <1>1, <1>5 DEF n
<1>7. QED
  BY <1>1, <1>3, <1>6, Moves

\* dynamic-wind,
LEMMA WindStep == ControlInv /\ DynamicWind => ControlInv'
<1> SUFFICES ASSUME ControlInv, DynamicWind PROVE ControlInv'
  OBVIOUS
<1> DEFINE x == winds + 1
           n == SetupFrame([vm EXCEPT !.winds = Append(@, x)], Run("before", x), "DynamicWindBody", x)
<1>1. /\ Running /\ steps' = steps + 1 /\ program' = program /\ conts' = conts
      /\ winds' = x /\ entered' = entered /\ vm' = n
  BY DEF DynamicWind, Step
<1>2. PICK u : /\ Sound(vm, program, u) /\ vm.frames # <<>>
               /\ Escaping \notin program => EnteredOK(vm, u, entered)
  BY <1>1, Now
<1>3. entered \in Seq(Nat) /\ x \in Nat /\ steps' \in Nat
  BY <1>1 DEF ControlInv
<1> HIDE DEF x
<1>4. Sound(n, program, u) /\ \A e \in Seq(Nat) : EnteredOK(vm, u, e) => EnteredOK(n, u, e)
  BY <1>2, <1>3, WindKeeps
<1> HIDE DEF n
<1>5. Kept(n, program, entered)
  BY <1>2, <1>3, <1>4, MovesTo
<1>6. Kept(vm', program, entered') /\ winds' \in Nat /\ entered' \in Seq(Nat)
  BY <1>1, <1>3, <1>5
<1>7. QED
  BY <1>1, <1>3, <1>6, Moves

\* returns,
LEMMA ReturnStep == ControlInv /\ Return => ControlInv'
<1> SUFFICES ASSUME ControlInv, Return PROVE ControlInv'
  OBVIOUS
<1> DEFINE n == HandleReturn(vm)
           e == Effect(entered, vm.regs)
<1>1. /\ Running /\ vm.regs.depth = 0 /\ steps' = steps /\ program' = program /\ conts' = conts
      /\ winds' = winds /\ vm' = n
  BY DEF Return
<1>2. entered' = e
  BY DEF Return, Left, Effect
<1>3. PICK u : /\ Sound(vm, program, u) /\ vm.frames # <<>>
               /\ Escaping \notin program => EnteredOK(vm, u, entered)
  BY <1>1, Now
<1>4. entered \in Seq(Nat) /\ winds' \in Nat /\ steps' \in Nat
  BY <1>1 DEF ControlInv
<1>5. e \in Seq(Nat)
  <2>1. vm.regs \in Regs
    BY <1>3, Parts DEF Sound, Stacks
  <2>2. QED
    BY <1>4, <2>1, EffectType
<1>6. Returns(vm, u, program)
  BY <1>1, <1>3 DEF Returns
<1>7. Arrives(vm, u, program, n)
  BY <1>6, HandleReturnKeeps
<1> HIDE DEF n
<1>8. Kept(n, program, e)
  BY <1>3, <1>4, <1>7 DEF Arrives, Kept
<1> HIDE DEF e
<1>9. Kept(vm', program, entered') /\ entered' \in Seq(Nat)
  BY <1>1, <1>2, <1>5, <1>8
<1>10. QED
  BY <1>1, <1>4, <1>9, Moves

\* a catch form entered,
LEMMA OpenStep ==
  \A tag \in Tags \cup {AnyTag} : ControlInv /\ ~Mixes /\ SetupCatch(tag) => ControlInv'
<1> SUFFICES ASSUME NEW tag \in Tags \cup {AnyTag}, ControlInv, ~Mixes, SetupCatch(tag)
             PROVE  ControlInv'
  OBVIOUS
<1> DEFINE cf == [tag |-> tag, regs |-> vm.regs, frame_count |-> Len(vm.frames),
                  wind_count |-> Len(vm.winds)]
           n == [vm EXCEPT !.regs.depth = @ + 1, !.catches = Append(@, cf)]
<1>1. /\ Running /\ "catch" \in program /\ steps' = steps + 1 /\ program' = program
      /\ conts' = conts /\ winds' = winds /\ entered' = entered /\ vm' = n
  BY DEF SetupCatch, Step
<1>2. PICK u : /\ Sound(vm, program, u) /\ vm.frames # <<>>
               /\ Escaping \notin program => EnteredOK(vm, u, entered)
  BY <1>1, Now
<1>3. entered \in Seq(Nat) /\ winds' \in Nat /\ steps' \in Nat /\ program \in Programs
  BY <1>1 DEF ControlInv
<1>4. "call/cc" \notin program
  BY <1>1 DEF Mixes
<1>5. vm \in VM /\ Stacks(vm, u) /\ ModeOK(vm, program) /\ u \in 0..Len(vm.frames)
  BY <1>2 DEF Sound, Stacks
<1>6. /\ vm.regs \in Regs /\ Len(vm.frames) \in Nat /\ Len(vm.winds) \in Nat
      /\ vm.catches \in Seq(CatchFrame)
  BY <1>5, Parts, LenProperties
<1>7. /\ cf \in CatchFrame /\ cf.regs = vm.regs /\ cf.frame_count = Len(vm.frames)
      /\ cf.wind_count = Len(vm.winds)
  BY <1>6 DEF CatchFrame
<1> HIDE DEF cf
<1>8. /\ n \in VM /\ n.frames = vm.frames /\ n.winds = vm.winds /\ n.transfer = vm.transfer
      /\ n.catches = Append(vm.catches, cf) /\ n.regs.role = vm.regs.role
      /\ n.regs.extent = vm.regs.extent /\ n.regs.depth = vm.regs.depth + 1
  <2> DEFINE r == [vm.regs EXCEPT !.depth = @ + 1]
             c == Append(vm.catches, cf)
  <2>1. r \in Regs /\ r.role = vm.regs.role /\ r.extent = vm.regs.extent /\ r.depth = vm.regs.depth + 1
    BY <1>6 DEF Regs
  <2>2. c \in Seq(CatchFrame)
    BY <1>6, <1>7, AppendProperties
  <2> DEFINE g == [vm EXCEPT !.regs = r]
  <2>3. n = [g EXCEPT !.catches = c]
    OBVIOUS
  <2> HIDE DEF n, r, c
  <2>4. /\ n \in VM /\ n.frames = vm.frames /\ n.winds = vm.winds /\ n.transfer = vm.transfer
        /\ n.catches = c /\ n.regs = r
    <3>1. vm \in VM /\ r \in Regs /\ c \in Seq(CatchFrame)
      BY <1>5, <2>1, <2>2
    <3>2. /\ g \in VM /\ g.frames = vm.frames /\ g.winds = vm.winds /\ g.transfer = vm.transfer
          /\ g.regs = r
      BY <3>1 DEF VM
    <3> HIDE DEF g
    <3>3. QED
      BY <2>3, <3>1, <3>2 DEF VM
  <2>5. QED
    BY <2>1, <2>4 DEF c
<1> HIDE DEF n
<1>9. SameButDepth(vm, u, n)
  BY <1>5, <1>8 DEF SameButDepth
<1>10. CatchOpens(vm, u, cf, n)
  BY <1>7, <1>8, <1>9 DEF CatchOpens
<1>11. Sound(n, program, u)
  <2>1. Stacks(n, u)
    BY <1>5, <1>10, OpenKeeps
  <2>2. ModeOK(n, program)
    BY <1>4, <1>5, <1>8 DEF ModeOK
  <2>3. QED
    BY <1>5, <1>8, <2>1, <2>2 DEF Sound
<1>12. \A e \in Seq(Nat) : EnteredOK(vm, u, e) => EnteredOK(n, u, e)
  BY <1>5, <1>9, EnteredSame
<1>13. Kept(n, program, entered)
  BY <1>2, <1>3, <1>11, <1>12, MovesTo
<1>14. QED
  BY <1>1, <1>3, <1>13, Moves

\* and left,
LEMMA CloseStep == ControlInv /\ PopCatch => ControlInv'
<1> SUFFICES ASSUME ControlInv, PopCatch PROVE ControlInv'
  OBVIOUS
<1> DEFINE c == IF vm.catches = <<>> THEN vm.catches ELSE Front(vm.catches)
           n == [vm EXCEPT !.regs.depth = @ - 1,
                           !.catches = IF @ = <<>> THEN @ ELSE Front(@)]
<1>1. /\ Running /\ vm.regs.depth > 0 /\ steps' = steps /\ program' = program
      /\ conts' = conts /\ winds' = winds /\ entered' = entered /\ vm' = n
  BY DEF PopCatch
<1>2. PICK u : /\ Sound(vm, program, u) /\ vm.frames # <<>>
               /\ Escaping \notin program => EnteredOK(vm, u, entered)
  BY <1>1, Now
<1>3. entered \in Seq(Nat) /\ winds' \in Nat /\ steps' \in Nat
  BY <1>1 DEF ControlInv
<1>5. vm \in VM /\ Stacks(vm, u) /\ ModeOK(vm, program) /\ u \in 0..Len(vm.frames)
  BY <1>2 DEF Sound, Stacks
<1>6. vm.regs \in Regs /\ vm.catches \in Seq(CatchFrame) /\ Len(vm.frames) \in Nat
  BY <1>5, Parts
<1>4. "call/cc" \notin program
  <2>1. ASSUME NoCatches(vm) PROVE FALSE
    <3>1. Above(vm.frames, vm.regs, Len(vm.frames)) = vm.regs /\ Len(vm.frames) \in 0..Len(vm.frames)
      BY <1>6, AboveLaws
    <3>2. vm.regs.depth = 0
      BY <2>1, <3>1 DEF NoCatches
    <3>3. QED
      BY <1>1, <3>2
  <2>2. QED
    BY <1>5, <2>1 DEF ModeOK
<1>8. /\ n \in VM /\ n.frames = vm.frames /\ n.winds = vm.winds /\ n.transfer = vm.transfer
      /\ n.catches = c /\ n.regs.role = vm.regs.role
      /\ n.regs.extent = vm.regs.extent /\ n.regs.depth = vm.regs.depth - 1
  <2> DEFINE r == [vm.regs EXCEPT !.depth = @ - 1]
  <2>1. r \in Regs /\ r.role = vm.regs.role /\ r.extent = vm.regs.extent /\ r.depth = vm.regs.depth - 1
    BY <1>1, <1>6 DEF Regs
  <2>2. c \in Seq(CatchFrame)
    BY <1>6, FrontLast
  <2> DEFINE g == [vm EXCEPT !.regs = r]
  <2>3. n = [g EXCEPT !.catches = c]
    OBVIOUS
  <2> HIDE DEF n, r, c
  <2>4. /\ n \in VM /\ n.frames = vm.frames /\ n.winds = vm.winds /\ n.transfer = vm.transfer
        /\ n.catches = c /\ n.regs = r
    <3>1. vm \in VM /\ r \in Regs /\ c \in Seq(CatchFrame)
      BY <1>5, <2>1, <2>2
    <3>2. /\ g \in VM /\ g.frames = vm.frames /\ g.winds = vm.winds /\ g.transfer = vm.transfer
          /\ g.regs = r
      BY <3>1 DEF VM
    <3> HIDE DEF g
    <3>3. QED
      BY <2>3, <3>1, <3>2 DEF VM
  <2>5. QED
    BY <2>1, <2>4
<1> HIDE DEF n
<1>9. SameButDepth(vm, u, n)
  BY <1>5, <1>8 DEF SameButDepth
<1>10. CatchCloses(vm, u, n)
  BY <1>1, <1>8, <1>9 DEF CatchCloses
<1>11. Sound(n, program, u)
  <2>1. Stacks(n, u)
    BY <1>5, <1>10, CloseKeeps
  <2>2. ModeOK(n, program)
    BY <1>4, <1>5, <1>8 DEF ModeOK
  <2>3. QED
    BY <1>5, <1>8, <2>1, <2>2 DEF Sound
<1>12. \A e \in Seq(Nat) : EnteredOK(vm, u, e) => EnteredOK(n, u, e)
  BY <1>5, <1>9, EnteredSame
<1>13. Kept(n, program, entered)
  BY <1>2, <1>3, <1>11, <1>12, MovesTo
<1>14. QED
  BY <1>1, <1>3, <1>13, Moves

\* raises,
LEMMA ThrowStep ==
  \A tag \in Tags : ControlInv /\ departures' = {} /\ Throw(tag) => ControlInv'
<1> SUFFICES ASSUME NEW tag \in Tags, ControlInv, departures' = {}, Throw(tag) PROVE ControlInv'
  OBVIOUS
<1> DEFINE i == Max(Matches(tag))
           failed == [vm EXCEPT !.status = "failed"]
           landed == BeginTransfer(vm, i)
<1>1. /\ Running /\ departures' = departures \cup Departing(tag) /\ steps' = steps + 1 /\ program' = program
      /\ conts' = conts /\ winds' = winds /\ entered' = entered
      /\ vm' = IF Matches(tag) = {} THEN failed ELSE landed
  BY DEF Throw, Step
<1>2. PICK u : /\ Sound(vm, program, u) /\ vm.frames # <<>>
               /\ Escaping \notin program => EnteredOK(vm, u, entered)
  BY <1>1, Now
<1>3. entered \in Seq(Nat) /\ winds' \in Nat /\ steps' \in Nat
  BY <1>1 DEF ControlInv
<1>4. CASE Matches(tag) = {}
  <2>1. Sound(failed, program, u) /\ \A e : EnteredOK(vm, u, e) => EnteredOK(failed, u, e)
    BY <1>2, StatusKeeps
  <2> HIDE DEF failed
  <2>2. Kept(failed, program, entered)
    BY <1>2, <2>1 DEF Kept
  <2>3. QED
    BY <1>1, <1>3, <1>4, <2>2, Moves
<1>5. CASE Matches(tag) # {}
  <2>1. Raises(vm, u, program, i)
    <3>1. departures \cup Departing(tag) = {}
      BY <1>1
    <3>2. Departing(tag) = {}
      BY <3>1
    <3>3. QED
      BY <1>1, <1>2, <1>5, <3>2, QuietIs
  <2> HIDE DEF i
  <2>2. \E v : Sound(landed, program, v) /\ \A e \in Seq(Nat) : EnteredOK(vm, u, e) => EnteredOK(landed, v, e)
    BY <2>1, BeginKeeps
  <2> HIDE DEF landed
  <2>3. Kept(landed, program, entered)
    BY <1>2, <1>3, <2>2, MovesTo
  <2>4. QED
    BY <1>1, <1>3, <1>5, <2>3, Moves
<1>6. QED
  BY <1>4, <1>5

\* Frames none of which is pending are plain, as a continuation wants them.
LEMMA PlainBelow ==
  ASSUME NEW s \in Seq(Frames), \A i \in DOMAIN s : s[i].kind \notin Pending
  PROVE  s \in Seq(PlainFrame)
<1>1. s \in [1..Len(s) -> Frames] /\ Len(s) \in Nat /\ DOMAIN s = 1..Len(s)
  BY LenProperties, SeqDef
<1>2. \A i \in 1..Len(s) : s[i] \in PlainFrame
  BY <1>1, FrameFacts DEF Pending
<1>3. s \in [1..Len(s) -> PlainFrame]
  BY <1>1, <1>2
<1>4. QED
  BY <1>1, <1>3, SeqDef

\* What a continuation takes along.
LEMMA Captured ==
  ASSUME NEW m, NEW u, NEW p, Sound(m, p, u), Silent(m), "call/cc" \in p, m.frames # <<>>
  PROVE  LET c == [frames |-> Append(m.frames, Frame("Normal", m.regs, 0)), winds |-> m.winds]
         IN  ContOK(c)
<1> DEFINE s == m.frames
           f == Frame("Normal", m.regs, 0)
           t == Append(s, f)
           c == [frames |-> t, winds |-> m.winds]
<1>1. /\ m \in VM /\ u \in 0..Len(m.frames) /\ Stacks(m, u) /\ NoCatches(m)
      /\ Chain(s, m.regs) /\ m.winds = Winds(s)
  BY DEF Sound, Stacks, ModeOK
<1>2. s \in Seq(Frames) /\ m.regs \in Regs /\ m.winds \in Seq(Nat)
  BY <1>1, Parts
<1>3. \A i \in DOMAIN s : s[i].kind \notin Pending
  <2>1. \A i \in DOMAIN m.frames : m.frames[i].kind \notin Pending
    BY <1>1, SilentFacts
  <2>2. QED
    BY <2>1
<1>4. s \in Seq(PlainFrame)
  <2> HIDE DEF s
  <2>1. QED
    BY <1>2, <1>3, PlainBelow
<1>5. f \in PlainFrame /\ f.regs = m.regs
  BY <1>2 DEF Frame, PlainFrame, PlainKinds
<1>6. \A i \in 0..Len(s) : Above(s, m.regs, i).role \notin ThunkKinds /\ Above(s, m.regs, i).depth = 0
  BY <1>1 DEF Silent, NoCatches
<1> HIDE DEF f, s
<1>7. t \in Seq(PlainFrame) /\ t # <<>>
  BY <1>4, <1>5, AppendProperties
<1>8. Front(t) = s /\ Last(t) = f
  BY <1>4, <1>5, FrontAppend
<1> HIDE DEF t
<1>9. c \in Cont /\ c.frames = t /\ c.winds = m.winds
  BY <1>2, <1>7 DEF Cont
<1>10. s # <<>>
  BY DEF s
<1> HIDE DEF c
<1>11. ContOK(c)
  BY <1>1, <1>5, <1>6, <1>7, <1>8, <1>9, <1>10 DEF ContOK
<1>12. QED
  BY <1>11 DEF c, t, s, f

\* call/cc,
LEMMA CaptureStep == ControlInv /\ departures' = {} /\ CallCC => ControlInv'
<1> SUFFICES ASSUME ControlInv, departures' = {}, CallCC PROVE ControlInv'
  OBVIOUS
<1> DEFINE c == [frames |-> Append(vm.frames, Frame("Normal", vm.regs, 0)), winds |-> vm.winds]
           n == SetupFrame(vm, Run("lambda", 0), "Normal", 0)
<1>1. /\ Running /\ "call/cc" \in program /\ ~InThunk /\ steps' = steps + 1 /\ program' = program
      /\ conts' = Append(conts, c) /\ winds' = winds /\ entered' = entered /\ vm' = n
  BY DEF CallCC, Step, JumpDeparting
<1>2. PICK u : /\ Sound(vm, program, u) /\ vm.frames # <<>>
               /\ Escaping \notin program => EnteredOK(vm, u, entered)
  BY <1>1, Now
<1>3. /\ entered \in Seq(Nat) /\ winds' \in Nat /\ steps' \in Nat /\ program \in Programs
      /\ conts \in Seq(Cont) /\ ContsKept(program, conts)
  BY <1>1 DEF ControlInv
<1>4. ContOK(c)
  <2>1. Silent(vm)
    BY <1>1, <1>2, SilentIs DEF Sound, Stacks
  <2>2. "call/cc" \in program
    BY <1>1
  <2>3. QED
    BY <1>2, <2>1, <2>2, Captured
<1>5. Sound(n, program, u) /\ \A e \in Seq(Nat) : EnteredOK(vm, u, e) => EnteredOK(n, u, e)
  BY <1>2, CallKeeps
<1> HIDE DEF n, c
<1>6. Kept(n, program, entered)
  BY <1>2, <1>3, <1>5, MovesTo
<1>7. conts' \in Seq(Cont) /\ ContsKept(program, conts')
  <2> DEFINE d == Append(conts, c)
             l == Len(conts)
  <2>1. c \in Cont
    BY <1>4 DEF ContOK
  <2>2. /\ d \in Seq(Cont) /\ Len(d) = l + 1 /\ d[l + 1] = c /\ \A i \in 1..l : d[i] = conts[i]
    BY <1>3, <2>1, AppendProperties
  <2> HIDE DEF d
  <2>3. DOMAIN d = 1..(l + 1) /\ DOMAIN conts = 1..l /\ l \in Nat
    BY <1>3, <2>2, LenProperties
  <2> HIDE DEF l
  <2>4. \A k \in 1..l : ContOK(conts[k])
    BY <1>1, <1>3, <2>3 DEF ContsKept
  <2>5. \A k \in 1..(l + 1) : k \in 1..l \/ k = l + 1
    BY <2>3
  <2>6. \A k \in DOMAIN d : ContOK(d[k])
    BY <1>4, <2>2, <2>3, <2>4, <2>5
  <2>7. conts' = d
    BY <1>1 DEF d
  <2>8. QED
    BY <1>1, <2>2, <2>6, <2>7 DEF ContsKept
<1>8. QED
  BY <1>1, <1>3, <1>6, <1>7 DEF ControlInv

\* continuations called, in tail position too,
LEMMA JumpStep ==
  \A k \in DOMAIN conts :
    ControlInv /\ departures' = {} /\ (CallContinuation(k) \/ TailCallContinuation(k)) => ControlInv'
<1> SUFFICES ASSUME NEW k \in DOMAIN conts, ControlInv, departures' = {},
                    CallContinuation(k) \/ TailCallContinuation(k)
             PROVE  ControlInv'
  OBVIOUS
<1> DEFINE c == conts[k]
           n == InvokeContinuation(vm, c)
           h == HandleReturn(n)
<1>1. /\ Running /\ ~InThunk /\ steps' = steps + 1 /\ program' = program
      /\ conts' = conts /\ winds' = winds /\ entered' = entered
  BY DEF CallContinuation, TailCallContinuation, Step, JumpDeparting
<1>2. PICK u : /\ Sound(vm, program, u) /\ vm.frames # <<>>
               /\ Escaping \notin program => EnteredOK(vm, u, entered)
  BY <1>1, Now
<1>3. /\ entered \in Seq(Nat) /\ winds' \in Nat /\ steps' \in Nat
      /\ conts \in Seq(Cont) /\ ContsKept(program, conts)
  BY <1>1 DEF ControlInv
<1>4. "call/cc" \in program /\ ContOK(c)
  BY <1>3 DEF ContsKept
<1>5. Silent(vm)
  BY <1>1, <1>2, SilentIs DEF Sound, Stacks
<1> HIDE DEF c
<1>6. /\ n.frames # <<>>
      /\ \E v : Sound(n, program, v) /\ \A e \in Seq(Nat) : EnteredOK(vm, u, e) => EnteredOK(n, v, e)
  BY <1>2, <1>4, <1>5, InvokeKeeps
<1>7. Kept(vm', program, entered)
  <2>1. CASE CallContinuation(k)
    <3>1. vm' = n
      BY <2>1 DEF CallContinuation, c
    <3> HIDE DEF n
    <3>2. Kept(n, program, entered)
      BY <1>2, <1>3, <1>6, MovesTo
    <3>3. QED
      BY <3>1, <3>2
  <2>2. CASE TailCallContinuation(k)
    <3>1. vm' = h /\ Escaping \in program
      BY <2>2 DEF TailCallContinuation, Step, Escaping, c
    <3>2. PICK v : Sound(n, program, v)
      BY <1>6
    <3> HIDE DEF n
    <3>3. n.regs.depth = 0
      <4>1. n \in VM /\ NoCatches(n)
        BY <1>4, <3>2 DEF Sound, Stacks, ModeOK
      <4>2. Above(n.frames, n.regs, Len(n.frames)) = n.regs /\ Len(n.frames) \in 0..Len(n.frames)
        BY <4>1, Parts, AboveLaws
      <4>3. QED
        BY <4>1, <4>2 DEF NoCatches
    <3>4. Returns(n, v, program)
      BY <1>6, <3>2, <3>3 DEF Returns
    <3>5. Arrives(n, v, program, h)
      BY <3>4, HandleReturnKeeps
    <3> HIDE DEF h
    <3>6. Kept(h, program, entered)
      BY <3>1, <3>5 DEF Arrives, Kept
    <3>7. QED
      BY <3>1, <3>6
  <2>3. QED
    BY <2>1, <2>2
<1>8. Kept(vm', program, entered') /\ entered' \in Seq(Nat)
  BY <1>1, <1>3, <1>7
<1>9. QED
  BY <1>1, <1>3, <1>8, Moves

\* steps of the logic programs,
LEMMA ControlStays == ControlInv /\ UNCHANGED control => ControlInv'
BY DEF ControlInv, control, ContsKept, Kept

\* tail calls,
LEMMA TailStep == ControlInv /\ TailCall => ControlInv'
<1> SUFFICES ASSUME ControlInv, TailCall PROVE ControlInv'
  OBVIOUS
<1>1. /\ program' = program /\ vm' = vm /\ conts' = conts /\ winds' = winds /\ entered' = entered
      /\ steps' = steps + 1
  BY DEF TailCall, Step
<1>2. /\ entered' \in Seq(Nat) /\ winds' \in Nat /\ steps' \in Nat /\ Kept(vm, program, entered)
  BY <1>1 DEF ControlInv
<1>3. Kept(vm', program, entered')
  BY <1>1, <1>2
<1>4. QED
  BY <1>1, <1>2, <1>3, Moves

\* and so after every step of an orderly program.
LEMMA NextControl == ControlInv /\ Orderly' /\ [VmNext]_vmVars => ControlInv'
<1>1. ASSUME ControlInv, Orderly', Instruction PROVE ControlInv'
  <2>1. departures' = {}
    BY <1>1 DEF Orderly
  <2>2. ~Mixes
    <3>1. program' = program
      BY <1>1 DEF Instruction, Call, CallWithValues, TailCall, Return, SetupCatch, PopCatch, Throw,
                  DynamicWind, CallCC, CallContinuation, TailCallContinuation
    <3>2. QED
      BY <1>1, <3>1 DEF Orderly, Mixes
  <2>3. QED
    BY <1>1, <2>1, <2>2, CallsStep, TailStep, ReturnStep, CloseStep, WindStep, CaptureStep, ThrowStep,
       OpenStep, JumpStep DEF Instruction
<1>2. ASSUME ControlInv, UNCHANGED control PROVE ControlInv'
  BY <1>2, ControlStays
<1>3. QED
  BY <1>1, <1>2 DEF VmNext, VmControlNext, VmUnifierNext, Next, Finished, vmVars

\* What thunks did is not forgotten, and the program stays the same.
LEMMA StaysDisorderly == [VmNext]_vmVars /\ Orderly' => Orderly
<1> SUFFICES ASSUME [VmNext]_vmVars, Orderly' PROVE Orderly
  OBVIOUS
<1>1. CASE Instruction
  <2>1. program' = program
    BY <1>1 DEF Instruction, Call, CallWithValues, TailCall, Return, SetupCatch, PopCatch, Throw,
                DynamicWind, CallCC, CallContinuation, TailCallContinuation
  <2>2. departures' = departures \/ \E d : departures' = departures \cup d
    BY <1>1 DEF Instruction, Call, CallWithValues, TailCall, Return, SetupCatch, PopCatch, Throw,
                DynamicWind, CallCC, CallContinuation, TailCallContinuation
  <2>3. departures = {}
    BY <2>2 DEF Orderly
  <2>4. QED
    BY <2>1, <2>3 DEF Orderly, Mixes
<1>2. CASE UNCHANGED control
  BY <1>2 DEF control, Orderly, Mixes
<1>3. QED
  BY <1>1, <1>2 DEF VmNext, VmControlNext, VmUnifierNext, Next, Finished, vmVars

\* The frames, the winding stack and the catch stack are in order whatever an orderly
\* program calls, raises, catches, winds and jumps to (vm.cpp).
THEOREM ControlInvariant == VmSpec => [](Orderly => ControlInv)
<1>1. VmInit => (Orderly => ControlInv)
  BY InitControl DEF VmInit
<1>2. (Orderly => ControlInv) /\ [VmNext]_vmVars => (Orderly => ControlInv)'
  BY NextControl, StaysDisorderly
<1>3. QED
  BY <1>1, <1>2, PTL DEF VmSpec

\* What the frames return to and what a raise unwinds and reaches agree
\* (winding_stack_ and catch_stack_ of vm.h), as long as no raise has left a winding thunk
\* and no thunk has used a continuation either, which StacksMatchFrames itself admits.
THEOREM StacksMatch == VmSpec => [](Orderly => StacksMatchFrames)
<1>1. ASSUME ControlInv PROVE StacksMatchFrames
  <2> DEFINE l == Len(vm.frames)
  <2>1. PICK u : Sound(vm, program, u)
    BY <1>1 DEF ControlInv, Kept
  <2>2. vm \in VM /\ vm.winds = Winds(vm.frames) /\ Landings(vm) = Levels(Masked(vm, u))
    BY <2>1 DEF Sound, Stacks
  <2>3. vm.winds = WindsOfFrames
    BY <2>2 DEF Winds, WindsOfFrames
  <2>4. ASSUME vm.transfer = NoTransfer PROVE Levels(Masked(vm, u)) = OpenCatches
    <3> DEFINE a == Masked(vm, u)
               F == [i \in DOMAIN a |-> Level(i, a[i])]
               G == [i \in DOMAIN Saved |-> [d \in 1..Saved[i].depth |-> <<i - 1, d - 1>>]]
    <3>1. /\ DOMAIN Saved = 1..(l + 1) /\ l \in Nat
          /\ \A j \in 1..(l + 1) : Saved[j] = Above(vm.frames, vm.regs, j - 1)
      BY <2>2, SavedIs
    <3>2. /\ a \in Seq(Nat) /\ Len(a) = l + 1
          /\ \A j \in 1..(l + 1) : a[j] = Above(vm.frames, vm.regs, j - 1).depth
      BY <2>2, <2>4, MaskedType
    <3> HIDE DEF a
    <3>3. DOMAIN a = 1..(l + 1)
      BY <3>2, LenProperties
    <3>4. DOMAIN a = DOMAIN Saved /\ \A j \in DOMAIN a : a[j] = Saved[j].depth
      BY <3>1, <3>2, <3>3
    <3>5. \A j \in DOMAIN a : Level(j, a[j]) = [d \in 1..Saved[j].depth |-> <<j - 1, d - 1>>]
      BY <3>4 DEF Level
    <3>6. F = G
      BY <3>4, <3>5
    <3>7. Levels(a) = FlattenSeq(F) /\ OpenCatches = FlattenSeq(G)
      BY DEF Levels, OpenCatches
    <3>8. QED
      BY <3>6, <3>7 DEF a
  <2>5. QED
    BY <2>2, <2>3, <2>4 DEF StacksMatchFrames, CatchesLive, Landings
<1>2. QED
  BY ControlInvariant, <1>1, PTL

\* In an orderly program that calls no continuation in tail position the after thunk runs
\* on any exit: the extents entered and not left are those of the winding stack.
THEOREM EnteredMatch == VmSpec => []EnteredMatchesWinds
<1>1. ASSUME Orderly => ControlInv PROVE EnteredMatchesWinds
  <2> SUFFICES ASSUME Orderly PROVE EnteredMatchesWinds
    BY DEF EnteredMatchesWinds
  <2>1. PICK u : Sound(vm, program, u) /\ (Escaping \notin program => EnteredOK(vm, u, entered))
    BY <1>1 DEF ControlInv, Kept
  <2>2. vm \in VM /\ u \in 0..Len(vm.frames) /\ Stacks(vm, u)
    BY <2>1 DEF Sound, Stacks
  <2>3. ASSUME Escaping \notin program, ~InThunk PROVE entered = vm.winds
    <3>1. Silent(vm)
      BY <2>2, <2>3, SilentIs
    <3>2. QED
      BY <2>1, <2>2, <2>3, <3>1, SilentFacts
  <2>4. QED
    BY <2>3 DEF EnteredMatchesWinds, AfterAlwaysRuns, Escaping
<1>2. QED
  BY ControlInvariant, <1>1, PTL
=============================================================================
