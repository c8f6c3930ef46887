------------------------------ MODULE Induction ------------------------------
(***************************************************************************)
(* Induction over the natural numbers, and recursion over an interval of   *)
(* them, stated with sets and functions in place of operators, so that the *)
(* other proof modules can instantiate them; and what FlattenSeq computes, *)
(* which is such a recursion.                                              *)
(***************************************************************************)
EXTENDS SequencesExt, SequenceTheorems, WellFoundedInduction, TLAPS

(* Every set of numbers that is not empty has a least one.                 *)
LEMMA LeastNat ==
  ASSUME NEW T \in SUBSET Nat, T # {}
  PROVE  \E x \in T : \A y \in T : x <= y
<1> DEFINE R == OpToRel(<, Nat)
<1>1. IsWellFoundedOn(R, Nat)
  BY NatLessThanWellFounded
<1>2. \A x, y \in Nat : y < x => <<y, x>> \in R
  BY DEF OpToRel
<1> HIDE DEF R
<1>3. PICK x \in T : \A y \in T : ~(<<y, x>> \in R)
  BY <1>1, WFMin
<1>4. ASSUME NEW y \in T PROVE x <= y
  <2>1. x \in Nat /\ y \in Nat
    OBVIOUS
  <2>2. ~(y < x)
    BY <2>1, <1>2, <1>3
  <2>3. QED
    BY <2>1, <2>2
<1>5. QED
  BY <1>4

(* What holds of 0, and of n + 1 with n, holds of all numbers.             *)
LEMMA SetInduction ==
  ASSUME NEW S, 0 \in S, \A n \in Nat : n \in S => n + 1 \in S
  PROVE  Nat \subseteq S
<1>1. SUFFICES ASSUME Nat \ S # {} PROVE FALSE
  OBVIOUS
<1>2. PICK x \in Nat \ S : \A y \in Nat \ S : x <= y
  BY <1>1, LeastNat
<1>3. x - 1 \in Nat /\ x - 1 \in S
  BY <1>2
<1>4. QED
  BY <1>2, <1>3

(* step says what follows each value at each place, and f starts with base *)
(* and follows it.                                                         *)
IsStep(step, N, V) == step \in [V \X (1..N) -> V]

IsRun(f, base, step, N, V) ==
  f \in [0..N -> V] /\ f[0] = base /\ \A k \in 1..N : f[k] = step[<<f[k - 1], k>>]

(* There is such an f.                                                     *)
LEMMA RecursionExists ==
  ASSUME NEW N \in Nat, NEW V, NEW base \in V, NEW step, IsStep(step, N, V)
  PROVE  \E f : IsRun(f, base, step, N, V)
<1>a. step \in [V \X (1..N) -> V]
  BY DEF IsStep
<1> DEFINE Upto(n, f) ==
      f \in [0..n -> V] /\ f[0] = base /\ \A k \in 1..n : f[k] = step[<<f[k - 1], k>>]
<1> DEFINE S == {n \in Nat : n <= N => \E f : Upto(n, f)}
<1>1. 0 \in S
  <2>1. Upto(0, [k \in 0..0 |-> base])
    OBVIOUS
  <2>2. QED
    BY <2>1
<1>2. ASSUME NEW n \in Nat, n \in S
      PROVE  n + 1 \in S
  <2>1. SUFFICES ASSUME n + 1 <= N
                 PROVE  \E f : Upto(n + 1, f)
    OBVIOUS
  <2>2. PICK f : Upto(n, f)
    BY <1>2, <2>1
  <2> DEFINE last == step[<<f[n], n + 1>>]
             g == [k \in 0..n + 1 |-> IF k = n + 1 THEN last ELSE f[k]]
  <2>3. last \in V
    BY <1>a, <2>1, <2>2
  <2> HIDE DEF last
  <2>4. g[n + 1] = last /\ \A k \in 0..n : g[k] = f[k]
    OBVIOUS
  <2>5. g \in [0..n + 1 -> V]
    BY <2>2, <2>3
  <2> HIDE DEF g
  <2>6. ASSUME NEW k \in 1..n + 1
        PROVE  g[k] = step[<<g[k - 1], k>>]
    <3>1. CASE k = n + 1
      BY <2>4, <3>1 DEF last
    <3>2. CASE k # n + 1
      <4>1. k \in 1..n /\ k - 1 \in 0..n
        BY <2>6, <3>2
      <4>2. QED
        BY <2>2, <2>4, <4>1
    <3>3. QED
      BY <3>1, <3>2
  <2>7. Upto(n + 1, g)
    BY <2>2, <2>4, <2>5, <2>6
  <2>8. QED
    BY <2>7
<1>3. N \in S
  <2> HIDE DEF S
  <2>1. QED
    BY <1>1, <1>2, SetInduction
<1>4. PICK f : Upto(N, f)
  BY <1>3
<1>5. QED
  BY <1>4 DEF IsRun

-----------------------------------------------------------------------------
(***************************************************************************)
(* FlattenSeq.                                                             *)
(***************************************************************************)
(* g is what the sequences in s make up, from none of them to all.         *)
IsFlattening(g, s, S) ==
  /\ g \in [0..Len(s) -> Seq(S)]
  /\ g[0] = <<>>
  /\ \A k \in 1..Len(s) : g[k] = g[k - 1] \o s[k]

LEMMA FlatteningExists ==
  ASSUME NEW S, NEW s \in Seq(Seq(S))
  PROVE  \E g : IsFlattening(g, s, S)
<1> DEFINE n == Len(s)
           step == [x \in Seq(S) \X (1..n) |-> x[1] \o s[x[2]]]
<1>1. n \in Nat /\ \A k \in 1..n : s[k] \in Seq(S)
  BY LenProperties, ElementOfSeq
<1>2. ASSUME NEW x \in Seq(S) \X (1..n)
      PROVE  x[1] \o s[x[2]] \in Seq(S)
  <2>1. x[1] \in Seq(S) /\ s[x[2]] \in Seq(S)
    BY <1>1
  <2>2. QED
    BY <2>1, ConcatProperties
<1>3. IsStep(step, n, Seq(S))
  BY <1>2 DEF IsStep
<1>4. \A q \in Seq(S), k \in 1..n : step[<<q, k>>] = q \o s[k]
  OBVIOUS
<1>5. <<>> \in Seq(S)
  OBVIOUS
<1> HIDE DEF step, n
<1>6. PICK g : IsRun(g, <<>>, step, n, Seq(S))
  BY <1>1, <1>3, <1>5, RecursionExists
<1>7. g \in [0..n -> Seq(S)] /\ g[0] = <<>> /\ \A k \in 1..n : g[k] = step[<<g[k - 1], k>>]
  BY <1>6 DEF IsRun
<1>8. ASSUME NEW k \in 1..n
      PROVE  g[k] = g[k - 1] \o s[k]
  <2>1. k - 1 \in 0..n
    BY <1>1
  <2>2. g[k - 1] \in Seq(S)
    BY <1>7, <2>1
  <2>3. QED
    BY <1>4, <1>7, <2>2
<1>9. QED
  BY <1>7, <1>8 DEF IsFlattening, n

(* Two of them agree as far as what they flatten does.                     *)
LEMMA FlatteningsAgree ==
  ASSUME NEW S, NEW s \in Seq(Seq(S)), NEW t \in Seq(Seq(S)),
         NEW g, IsFlattening(g, s, S), NEW h, IsFlattening(h, t, S),
         NEW n \in Nat, n <= Len(s), n <= Len(t), \A k \in 1..n : s[k] = t[k]
  PROVE  g[n] = h[n]
<1> DEFINE T == {m \in Nat : m <= n => g[m] = h[m]}
<1>1. 0 \in T
  BY DEF IsFlattening
<1>2. ASSUME NEW m \in Nat, m \in T
      PROVE  m + 1 \in T
  <2>1. SUFFICES ASSUME m + 1 <= n
                 PROVE  g[m + 1] = h[m + 1]
    OBVIOUS
  <2>2. Len(s) \in Nat /\ Len(t) \in Nat
    BY LenProperties
  <2>3. m + 1 \in 1..Len(s) /\ m + 1 \in 1..Len(t) /\ (m + 1) - 1 = m /\ m + 1 \in 1..n
    BY <2>1, <2>2
  <2>4. g[m] = h[m]
    BY <1>2, <2>1
  <2>5. g[m + 1] = g[m] \o s[m + 1] /\ h[m + 1] = h[m] \o t[m + 1]
    BY <2>3 DEF IsFlattening
  <2>6. QED
    BY <2>3, <2>4, <2>5
<1>3. n \in T
  <2> HIDE DEF T
  <2>1. QED
    BY <1>1, <1>2, SetInduction
<1>4. QED
  BY <1>3

(* FlattenSeq(s) is where it ends.                                         *)
LEMMA FlattenIsLast ==
  ASSUME NEW S, NEW s \in Seq(Seq(S)), NEW g, IsFlattening(g, s, S)
  PROVE  FlattenSeq(s) = g[Len(s)] /\ FlattenSeq(s) \in Seq(S)
<1> DEFINE n == Len(s)
<1>1. n \in Nat /\ \A k \in 1..n : s[k] \in Seq(S)
  BY LenProperties, ElementOfSeq
<1>2. g[n] \in Seq(S)
  BY <1>1 DEF IsFlattening
<1>3. CASE n = 0
  <2>1. s = <<>>
    BY <1>3, EmptySeq
  <2>2. FlattenSeq(s) = <<>>
    BY <1>3, <2>1 DEF FlattenSeq
  <2>3. g[n] = <<>>
    BY <1>3 DEF IsFlattening
  <2>4. QED
    BY <1>2, <2>2, <2>3
<1>4. CASE n # 0
  <2> DEFINE Is(f) == f = [k \in 1..n |-> IF k = 1 THEN s[k] ELSE f[k - 1] \o s[k]]
  <2>1. FlattenSeq(s) = (CHOOSE f : Is(f))[n]
    BY <1>4 DEF FlattenSeq
  <2>2. Is([k \in 1..n |-> g[k]])
    <3> DEFINE f == [k \in 1..n |-> g[k]]
    <3>1. ASSUME NEW k \in 1..n
          PROVE  f[k] = IF k = 1 THEN s[k] ELSE f[k - 1] \o s[k]
      <4>1. f[k] = g[k - 1] \o s[k]
        BY DEF IsFlattening
      <4>2. CASE k = 1
        <5>1. g[k - 1] = <<>>
          BY <4>2 DEF IsFlattening
        <5>2. <<>> \o s[k] = s[k]
          BY <1>1, ConcatEmptySeq
        <5>3. QED
          BY <4>1, <4>2, <5>1, <5>2
      <4>3. CASE k # 1
        <5>1. k - 1 \in 1..n
          BY <1>1, <4>3
        <5>2. f[k - 1] = g[k - 1]
          BY <5>1
        <5>3. QED
          BY <4>1, <4>3, <5>2
      <4>4. QED
        BY <4>2, <4>3
    <3>2. f = [k \in 1..n |-> IF k = 1 THEN s[k] ELSE f[k - 1] \o s[k]]
      BY <3>1
    <3>3. QED
      BY <3>2
  <2> DEFINE f == CHOOSE f : Is(f)
  <2>3. Is(f)
    BY <2>2
  <2>4. \A k \in 1..n : f[k] = IF k = 1 THEN s[k] ELSE f[k - 1] \o s[k]
    BY <2>3
  <2> HIDE DEF f
  <2> DEFINE T == {m \in Nat : m \in 1..n => f[m] = g[m]}
  <2>5. 0 \in T
    OBVIOUS
  <2>6. ASSUME NEW m \in Nat, m \in T
        PROVE  m + 1 \in T
    <3>1. SUFFICES ASSUME m + 1 \in 1..n
                   PROVE  f[m + 1] = g[m + 1]
      OBVIOUS
    <3>a. (m + 1) - 1 = m
      OBVIOUS
    <3>2. g[m + 1] = g[m] \o s[m + 1]
      <4>1. g[m + 1] = g[(m + 1) - 1] \o s[m + 1]
        BY <3>1 DEF IsFlattening
      <4>2. QED
        BY <3>a, <4>1
    <3>3. CASE m = 0
      <4>1. g[m] = <<>> /\ f[m + 1] = s[m + 1]
        BY <2>4, <3>1, <3>3 DEF IsFlattening
      <4>2. <<>> \o s[m + 1] = s[m + 1]
        BY <1>1, <3>1, ConcatEmptySeq
      <4>3. QED
        BY <3>2, <4>1, <4>2
    <3>4. CASE m # 0
      <4>1. m \in 1..n
        BY <1>1, <3>1, <3>4
      <4>2. f[m] = g[m]
        BY <2>6, <4>1
      <4>3. f[m + 1] = f[m] \o s[m + 1]
        <5>1. m + 1 # 1
          BY <3>4
        <5>2. f[m + 1] = f[(m + 1) - 1] \o s[m + 1]
          BY <2>4, <3>1, <5>1
        <5>3. QED
          BY <3>a, <5>2
      <4>4. QED
        BY <3>2, <4>2, <4>3
    <3>5. QED
      BY <3>3, <3>4
  <2>7. n \in T
    <3> HIDE DEF T
    <3>1. QED
      BY <1>1, <2>5, <2>6, SetInduction
  <2>8. f[n] = g[n]
    BY <1>1, <1>4, <2>7
  <2>9. QED
    BY <1>2, <2>1, <2>8 DEF f
<1>5. QED
  BY <1>3, <1>4

LEMMA FlattenTyped ==
  ASSUME NEW S, NEW s \in Seq(Seq(S))
  PROVE  FlattenSeq(s) \in Seq(S)
  BY FlatteningExists, FlattenIsLast

(* One sequence more.                                                      *)
LEMMA FlattenAppend ==
  ASSUME NEW S, NEW s \in Seq(Seq(S)), NEW e \in Seq(S)
  PROVE  /\ FlattenSeq(Append(s, e)) = FlattenSeq(s) \o e
         /\ FlattenSeq(s) \in Seq(S)
<1> DEFINE t == Append(s, e)
           n == Len(s)
<1>1. /\ n \in Nat /\ t \in Seq(Seq(S)) /\ Len(t) = n + 1
      /\ \A k \in 1..n : t[k] = s[k]
      /\ t[n + 1] = e
  BY LenProperties, AppendProperties
<1> HIDE DEF t
<1>2. PICK g : IsFlattening(g, s, S)
  BY FlatteningExists
<1>3. PICK h : IsFlattening(h, t, S)
  BY <1>1, FlatteningExists
<1>4. g[n] = h[n]
  <2>1. n <= Len(s) /\ n <= Len(t) /\ \A k \in 1..n : s[k] = t[k]
    BY <1>1
  <2> HIDE DEF n
  <2>2. QED
    BY <1>1, <1>2, <1>3, <2>1, FlatteningsAgree
<1>5. h[n + 1] = h[n] \o t[n + 1]
  <2>1. n + 1 \in 1..Len(t) /\ (n + 1) - 1 = n
    BY <1>1
  <2>2. h[n + 1] = h[(n + 1) - 1] \o t[n + 1]
    BY <1>3, <2>1 DEF IsFlattening
  <2>3. QED
    BY <2>1, <2>2
<1>6. FlattenSeq(s) = g[n] /\ FlattenSeq(s) \in Seq(S)
  BY <1>2, FlattenIsLast
<1>7. FlattenSeq(t) = h[n + 1]
  BY <1>1, <1>3, FlattenIsLast
<1>8. QED
  BY <1>1, <1>4, <1>5, <1>6, <1>7 DEF t

(* The sequences of s from the first on, and one of them more.             *)
LEMMA FlattenMore ==
  ASSUME NEW S, NEW s \in Seq(Seq(S)), NEW m \in Nat, m < Len(s)
  PROVE  /\ FlattenSeq(SubSeq(s, 1, m + 1)) = FlattenSeq(SubSeq(s, 1, m)) \o s[m + 1]
         /\ FlattenSeq(SubSeq(s, 1, m)) \in Seq(S)
<1> DEFINE r == SubSeq(s, 1, m)
<1>1. Len(s) \in Nat /\ m + 1 \in 1..Len(s) /\ m + 1 \in 1..m + 1 /\ (m + 1) - 1 = m
  BY LenProperties
<1>2. s[m + 1] \in Seq(S) /\ \A k \in 1..m : s[k] \in Seq(S)
  <2>1. \A k \in 1..m : k \in 1..Len(s)
    BY <1>1
  <2>2. QED
    BY <1>1, <2>1, ElementOfSeq
<1>3. r \in Seq(Seq(S))
  BY <1>2, SubSeqProperties
<1>4. SubSeq(s, 1, m + 1) = r \o <<s[m + 1]>>
  <2> DEFINE n == m + 1
  <2>1. 1 \in 1..Len(s) /\ n \in 1..Len(s) /\ n - 1 = m
    BY <1>1
  <2> HIDE DEF n
  <2>2. SubSeq(s, 1, n) = SubSeq(s, 1, n - 1) \o <<s[n]>>
    BY <2>1, SubSeqRecursiveSecond
  <2>3. QED
    BY <2>1, <2>2 DEF n
<1> HIDE DEF r
<1>5. Append(r, s[m + 1]) = r \o <<s[m + 1]>>
  BY <1>2, <1>3, AppendIsConcat
<1>6. QED
  BY <1>2, <1>3, <1>4, <1>5, FlattenAppend DEF r

(* The first sequence comes first.                                         *)
LEMMA FlattenStarts ==
  ASSUME NEW S, NEW s \in Seq(Seq(S)), s # <<>>
  PROVE  /\ FlattenSeq(s) \in Seq(S)
         /\ Len(s[1]) <= Len(FlattenSeq(s))
         /\ \A k \in 1..Len(s[1]) : FlattenSeq(s)[k] = s[1][k]
<1> DEFINE n == Len(s)
<1>1. n \in Nat /\ n # 0 /\ \A k \in 1..n : s[k] \in Seq(S)
  BY LenProperties, EmptySeq, ElementOfSeq
<1>2. PICK g : IsFlattening(g, s, S)
  BY FlatteningExists
<1>3. g[0] = <<>> /\ \A k \in 1..n : g[k] = g[k - 1] \o s[k]
  BY <1>2 DEF IsFlattening
<1>4. \A k \in 0..n : g[k] \in Seq(S)
  BY <1>2 DEF IsFlattening
<1> DEFINE a == s[1]
           Starts(q) == Len(a) <= Len(q) /\ \A k \in 1..Len(a) : q[k] = a[k]
           T == {m \in Nat : m \in 1..n => Starts(g[m])}
<1>5. 0 \in T
  OBVIOUS
<1>6. ASSUME NEW m \in Nat, m \in T
      PROVE  m + 1 \in T
  <2>1. SUFFICES ASSUME m + 1 \in 1..n
                 PROVE  Starts(g[m + 1])
    OBVIOUS
  <2>a. (m + 1) - 1 = m
    OBVIOUS
  <2>2. g[m + 1] = g[m] \o s[m + 1]
    <3>1. g[m + 1] = g[(m + 1) - 1] \o s[m + 1]
      BY <1>3, <2>1
    <3>2. QED
      BY <2>a, <3>1
  <2>3. CASE m = 0
    <3>1. <<>> \o s[m + 1] = s[m + 1]
      BY <1>1, <2>1, ConcatEmptySeq
    <3>2. g[m + 1] = a
      <4>1. g[m] = <<>> /\ s[m + 1] = a
        BY <1>3, <2>3
      <4>2. QED
        BY <2>2, <3>1, <4>1
    <3>3. Len(a) \in Nat
      BY <1>1, <2>1, <2>3, LenProperties
    <3>4. QED
      BY <3>2, <3>3
  <2>4. CASE m # 0
    <3>1. m \in 1..n /\ m \in 0..n /\ 1 \in 1..n
      BY <1>1, <2>1, <2>4
    <3>2. Starts(g[m]) /\ g[m] \in Seq(S) /\ s[m + 1] \in Seq(S) /\ a \in Seq(S)
      BY <1>1, <1>4, <1>6, <2>1, <3>1
    <3> HIDE DEF a
    <3>3. Len(g[m]) \in Nat /\ Len(s[m + 1]) \in Nat /\ Len(a) \in Nat
      BY <3>2, LenProperties
    <3> DEFINE q == g[m]
               r == s[m + 1]
               both == g[m + 1]
    <3>4. q \in Seq(S) /\ r \in Seq(S) /\ both = q \o r
      BY <2>2, <3>2
    <3>5. Starts(q) /\ Len(q) \in Nat /\ Len(r) \in Nat
      BY <3>2, <3>3
    <3> HIDE DEF q, r, both
    <3>6. /\ Len(both) = Len(q) + Len(r)
          /\ \A k \in 1..Len(q) : both[k] = q[k]
      <4>1. \A k \in 1..Len(q) + Len(r) : both[k] = IF k <= Len(q) THEN q[k] ELSE r[k - Len(q)]
        BY <3>4, ConcatProperties
      <4>2. Len(both) = Len(q) + Len(r)
        BY <3>4, ConcatProperties
      <4>3. QED
        BY <3>5, <4>1, <4>2
    <3>7. Starts(both)
      BY <3>3, <3>5, <3>6
    <3>8. QED
      BY <3>7 DEF both
  <2>5. QED
    BY <2>3, <2>4
<1>7. n \in T
  <2> HIDE DEF T
  <2>1. QED
    BY <1>1, <1>5, <1>6, SetInduction
<1>8. Starts(g[n])
  BY <1>1, <1>7
<1>9. FlattenSeq(s) = g[n] /\ FlattenSeq(s) \in Seq(S)
  BY <1>2, FlattenIsLast
<1>10. QED
  BY <1>8, <1>9

(* Adjacent pieces of a sequence make up its beginning.                    *)
LEMMA FlattenTiles ==
  ASSUME NEW S, NEW b \in Seq(S), NEW s \in Seq(Seq(S)),
         NEW cut \in [0..Len(s) -> 0..Len(b)], cut[0] = 0,
         \A k \in 1..Len(s) :
           cut[k - 1] <= cut[k] /\ s[k] = SubSeq(b, cut[k - 1] + 1, cut[k])
  PROVE  FlattenSeq(s) = SubSeq(b, 1, cut[Len(s)])
<1> DEFINE n == Len(s)
           T == {m \in Nat : m <= n => \A g : IsFlattening(g, s, S) => g[m] = SubSeq(b, 1, cut[m])}
<1>1. n \in Nat /\ Len(b) \in Nat
  BY LenProperties
<1>2. 0 \in T
  <2>1. SubSeq(b, 1, 0) = <<>>
    BY SubSeqEmpty
  <2>2. QED
    BY <2>1 DEF IsFlattening
<1>3. ASSUME NEW m \in Nat, m \in T
      PROVE  m + 1 \in T
  <2>1. SUFFICES ASSUME m + 1 <= n, NEW g, IsFlattening(g, s, S)
                 PROVE  g[m + 1] = SubSeq(b, 1, cut[m + 1])
    OBVIOUS
  <2>2. (m + 1) - 1 = m /\ m + 1 \in 1..n /\ m \in 0..n /\ m + 1 \in 0..n
    BY <1>1, <2>1
  <2>3. g[m + 1] = g[(m + 1) - 1] \o s[m + 1]
    BY <2>1, <2>2 DEF IsFlattening
  <2>4. g[m] = SubSeq(b, 1, cut[m])
    BY <1>3, <2>1, <2>2
  <2>5. /\ cut[(m + 1) - 1] <= cut[m + 1]
        /\ s[m + 1] = SubSeq(b, cut[(m + 1) - 1] + 1, cut[m + 1])
    BY <2>2
  <2> DEFINE x == cut[m]
             y == cut[m + 1]
  <2>6. x \in 0..Len(b) /\ y \in 0..Len(b) /\ x <= y
    BY <2>2, <2>5
  <2>7. g[m + 1] = SubSeq(b, 1, x) \o SubSeq(b, x + 1, y)
    BY <2>2, <2>3, <2>4, <2>5
  <2> HIDE DEF x, y
  <2>8. 1 \in 1..Len(b) + 1 /\ x \in 1 - 1..Len(b) /\ y \in x..Len(b)
    BY <1>1, <2>6
  <2>9. SubSeq(b, 1, x) \o SubSeq(b, x + 1, y) = SubSeq(b, 1, y)
    BY <2>8, ConcatAdjacentSubSeq
  <2>10. QED
    BY <2>7, <2>9 DEF y
<1>4. n \in T
  <2> HIDE DEF T
  <2>1. QED
    BY <1>1, <1>2, <1>3, SetInduction
<1>5. PICK g : IsFlattening(g, s, S)
  BY FlatteningExists
<1>6. FlattenSeq(s) = g[n]
  BY <1>5, FlattenIsLast
<1>7. QED
  BY <1>1, <1>4, <1>5, <1>6
=============================================================================
