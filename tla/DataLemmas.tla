----------------------------- MODULE DataLemmas -----------------------------
(***************************************************************************)
(* Lemmas about data, for the proofs about text and files: induction,      *)
(* division, that the recursive function behind a fold exists, parts of    *)
(* sequences, and what FlattenSeq makes of a sequence of chunks.           *)
(*                                                                         *)
(* An induction hypothesis is a set here, and the operation that is folded *)
(* a function, because the provers do not instantiate operators.           *)
(***************************************************************************)
EXTENDS Integers, SequencesExt, SequenceTheorems, WellFoundedInduction, TLAPS

-----------------------------------------------------------------------------
(* Induction.                                                              *)

Below == {p \in Nat \X Nat : p[1] < p[2]}

LEMMA NatWF == IsWellFoundedOn(Below, Nat)
BY NatLessThanWellFounded DEF OpToRel, Below

\* From the least number that is not in T.
LEMMA SetInduction ==
  ASSUME NEW T, 0 \in T, \A n \in Nat : n \in T => n + 1 \in T
  PROVE  Nat \subseteq T
<1> DEFINE C == Nat \ T
<1>1. SUFFICES ASSUME C # {} PROVE FALSE
  OBVIOUS
<1>2. C \subseteq Nat
  OBVIOUS
<1> HIDE DEF C
<1>3. PICK x \in C : \A y \in C : <<y, x>> \notin Below
  BY <1>1, <1>2, NatWF, WFMin
<1>4. x \in Nat /\ x # 0 /\ x \notin T
  BY <1>3 DEF C
<1>5. x - 1 \in Nat /\ x - 1 \notin T
  BY <1>4
<1>6. x - 1 \in C /\ <<x - 1, x>> \in Below
  BY <1>4, <1>5 DEF C, Below
<1> QED BY <1>3, <1>6

\* Induction up to a bound.
LEMMA BoundedInduction ==
  ASSUME NEW n \in Nat, NEW T, 0 \in T, \A k \in 1 .. n : k - 1 \in T => k \in T
  PROVE  0 .. n \subseteq T
<1> DEFINE U == {k \in Nat : k <= n => k \in T}
<1>1. 0 \in U
  OBVIOUS
<1>2. ASSUME NEW k \in Nat, k \in U
      PROVE  k + 1 \in U
  <2>1. CASE k + 1 <= n
    <3>1. k \in T /\ k + 1 \in 1 .. n /\ (k + 1) - 1 = k
      BY <1>2, <2>1
    <3>2. k + 1 \in T
      BY <3>1
    <3> QED BY <3>2
  <2>2. CASE ~ k + 1 <= n
    BY <2>2
  <2> QED BY <2>1, <2>2
<1> HIDE DEF U
<1>3. Nat \subseteq U
  BY <1>1, <1>2, SetInduction
<1> QED BY <1>3 DEF U

-----------------------------------------------------------------------------
(* Division.                                                               *)

\* What \div and % are.
LEMMA Division ==
  ASSUME NEW a \in Int, NEW w \in Nat \ {0}
  PROVE  /\ a \div w \in Int /\ a % w \in 0 .. w - 1
         /\ a = w * (a \div w) + (a % w)
OBVIOUS

\* And nothing else is.
LEMMA DivisionUnique ==
  ASSUME NEW w \in Nat \ {0}, NEW q \in Int, NEW r \in 0 .. w - 1
  PROVE  (w * q + r) \div w = q /\ (w * q + r) % w = r
<1> DEFINE a == w * q + r
           p == a \div w
           m == a % w
<1>1. a \in Int /\ p \in Int /\ m \in 0 .. w - 1 /\ a = w * p + m
  BY Division
<1>2. w * q + r = w * p + m
  BY <1>1
<1>3. w * (q - p) = m - r
  <2>1. w * (q - p) = w * q - w * p
    BY <1>1
  <2> HIDE DEF p, m
  <2> QED BY <1>1, <1>2, <2>1
<1>4. m - r \in - (w - 1) .. w - 1
  BY <1>1
<1>5. q - p = 0
  <2> HIDE DEF p, m
  <2>1. CASE q - p >= 1
    <3>1. w * (q - p) >= w
      BY <1>1, <2>1
    <3> QED BY <1>3, <1>4, <3>1
  <2>2. CASE q - p <= -1
    <3>1. w * (q - p) <= - w
      BY <1>1, <2>2
    <3> QED BY <1>3, <1>4, <3>1
  <2> QED BY <1>1, <2>1, <2>2
<1>6. p = q /\ m = r
  BY <1>1, <1>3, <1>5
<1> QED BY <1>6

\* A product grows with its factor.
LEMMA Multiplied ==
  ASSUME NEW w \in Nat, NEW q \in Int, NEW n \in Int, q >= n
  PROVE  w * q >= w * n
<1>1. PICK z \in Nat : q = n + z
  <2>1. q - n \in Nat /\ q = n + (q - n)
    OBVIOUS
  <2> QED BY <2>1
<1>2. PICK a \in Int, b \in Int, c \in Nat : a = w * q /\ b = w * n /\ c = w * z
  OBVIOUS
<1>3. w * (n + z) = w * n + w * z
  OBVIOUS
<1>4. a = b + c
  BY <1>1, <1>2, <1>3
<1> QED BY <1>2, <1>4

\* Division of a natural number.
LEMMA Divided ==
  ASSUME NEW y \in Nat, NEW w \in Nat \ {0}
  PROVE  /\ y \div w \in Nat /\ y % w \in 0 .. w - 1
         /\ y = w * (y \div w) + (y % w)
<1>1. y \div w \in Int /\ y % w \in 0 .. w - 1 /\ y = w * (y \div w) + (y % w)
  BY Division
<1>2. PICK q \in Int, m \in Int : q = y \div w /\ m = y % w
  BY <1>1
<1>3. q >= 0
  <2>1. SUFFICES ASSUME q < 0 PROVE FALSE
    OBVIOUS
  <2>2. w * (- 1) >= w * q
    BY <2>1, Multiplied
  <2>3. w * (- 1) = - w
    OBVIOUS
  <2>4. PICK a \in Int : a = w * q
    OBVIOUS
  <2>5. y = a + m /\ - w >= a /\ m < w
    BY <1>1, <1>2, <2>2, <2>3, <2>4
  <2> QED BY <2>5
<1> QED BY <1>1, <1>2, <1>3

\* Congruent numbers have the same remainder.
LEMMA Congruence ==
  ASSUME NEW w \in Nat \ {0}, NEW a \in Int, NEW b \in Int, NEW k \in Int, a = b + w * k
  PROVE  a % w = b % w
<1> DEFINE q == b \div w
           r == b % w
<1>1. q \in Int /\ r \in 0 .. w - 1 /\ b = w * q + r
  BY Division
<1> HIDE DEF q, r
<1>2. w * q + w * k = w * (q + k)
  BY <1>1
<1>3. a = w * (q + k) + r
  BY <1>1, <1>2
<1>4. a % w = r
  BY <1>1, <1>3, DivisionUnique
<1> QED BY <1>4 DEF r

-----------------------------------------------------------------------------
(* Folds.                                                                  *)

\* A non-empty set of numbers up to n has a greatest one.
LEMMA GreatestOne ==
  ASSUME NEW n \in Nat, NEW s \in SUBSET (1 .. n), s # {}
  PROVE  Max(s) \in s /\ \A y \in s : Max(s) >= y
<1> DEFINE T == {k \in Nat : \A t \in SUBSET (1 .. k) : t # {} => \E x \in t : \A y \in t : x >= y}
<1>1. 0 \in T
  <2>1. \A t \in SUBSET (1 .. 0) : t = {}
    OBVIOUS
  <2> QED BY <2>1
<1>2. ASSUME NEW k \in Nat, k \in T
      PROVE  k + 1 \in T
  <2>1. SUFFICES ASSUME NEW t \in SUBSET (1 .. k + 1), t # {}
                 PROVE  \E x \in t : \A y \in t : x >= y
    OBVIOUS
  <2>2. CASE k + 1 \in t
    BY <2>2
  <2>3. CASE k + 1 \notin t
    <3>1. t \in SUBSET (1 .. k)
      BY <2>3
    <3> QED BY <1>2, <2>1, <3>1
  <2> QED BY <2>2, <2>3
<1> HIDE DEF T
<1>3. n \in T
  BY <1>1, <1>2, SetInduction
<1>4. \E x \in s : \A y \in s : x >= y
  BY <1>3 DEF T
<1> QED BY <1>4 DEF Max

\* The recursion of MapThenFoldSet, with the greatest element first, has a
\* solution on the subsets of 1 .. n.
IsFold(f, n, base, op) ==
  f = [s \in SUBSET (1 .. n) |->
         IF s = {} THEN base ELSE op[<<f[s \ {Max(s)}], Max(s)>>]]

LEMMA FoldExists ==
  ASSUME NEW X, NEW base \in X, NEW n \in Nat, NEW op \in [X \X (1 .. n) -> X]
  PROVE  \E f \in [SUBSET (1 .. n) -> X] : IsFold(f, n, base, op)
<1> DEFINE Has(m) == \E f \in [SUBSET (1 .. m) -> X] : IsFold(f, m, base, op)
<1> HIDE DEF Has
<1> DEFINE T == {m \in Nat : m <= n => Has(m)}
<1>1. 0 \in T
  <2> DEFINE f == [s \in SUBSET (1 .. 0) |-> base]
  <2>1. f \in [SUBSET (1 .. 0) -> X] /\ \A s \in SUBSET (1 .. 0) : s = {}
    OBVIOUS
  <2>2. f = [s \in SUBSET (1 .. 0) |->
         IF s = {} THEN base ELSE op[<<f[s \ {Max(s)}], Max(s)>>]]
    BY <2>1
  <2>3. IsFold(f, 0, base, op)
    BY <2>2 DEF IsFold
  <2> QED BY <2>1, <2>3 DEF Has
<1>2. ASSUME NEW m \in Nat, m \in T
      PROVE  m + 1 \in T
  <2>1. SUFFICES ASSUME m + 1 <= n
                 PROVE  Has(m + 1)
    OBVIOUS
  <2>2. PICK f \in [SUBSET (1 .. m) -> X] : IsFold(f, m, base, op)
    <3>1. Has(m)
      BY <1>2, <2>1
    <3> QED BY <3>1 DEF Has
  <2> DEFINE g == [s \in SUBSET (1 .. m + 1) |->
                     IF m + 1 \in s THEN op[<<f[s \ {m + 1}], m + 1>>] ELSE f[s]]
  <2>3. ASSUME NEW s \in SUBSET (1 .. m + 1)
        PROVE  /\ m + 1 \in s => s \ {m + 1} \in SUBSET (1 .. m)
               /\ m + 1 \notin s => s \in SUBSET (1 .. m)
    OBVIOUS
  <2>4. g \in [SUBSET (1 .. m + 1) -> X]
    <3>1. ASSUME NEW s \in SUBSET (1 .. m + 1)
          PROVE  (IF m + 1 \in s THEN op[<<f[s \ {m + 1}], m + 1>>] ELSE f[s]) \in X
      <4>1. CASE m + 1 \in s
        <5>1. f[s \ {m + 1}] \in X /\ m + 1 \in 1 .. n
          BY <2>1, <2>3, <4>1
        <5> QED BY <4>1, <5>1
      <4>2. CASE m + 1 \notin s
        BY <2>3, <4>2
      <4> QED BY <4>1, <4>2
    <3> QED BY <3>1
  <2>5. ASSUME NEW s \in SUBSET (1 .. m + 1)
        PROVE  g[s] = IF s = {} THEN base ELSE op[<<g[s \ {Max(s)}], Max(s)>>]
    <3>1. CASE m + 1 \in s
      <4>1. Max(s) = m + 1
        <5>1. Max(s) \in s /\ \A y \in s : Max(s) >= y
          <6>1. m + 1 \in Nat /\ s # {}
            BY <3>1
          <6> HIDE DEF g
          <6> QED BY <6>1, GreatestOne
        <5>2. Max(s) \in 1 .. m + 1 /\ Max(s) >= m + 1
          BY <3>1, <5>1
        <5> QED BY <5>2
      <4>2. s \ {m + 1} \in SUBSET (1 .. m + 1) /\ m + 1 \notin s \ {m + 1}
        OBVIOUS
      <4>3. g[s \ {m + 1}] = f[s \ {m + 1}]
        BY <4>2
      <4> QED BY <3>1, <4>1, <4>3
    <3>2. CASE m + 1 \notin s
      <4>1. s \in SUBSET (1 .. m) /\ g[s] = f[s]
        BY <2>3, <3>2
      <4>2. f[s] = IF s = {} THEN base ELSE op[<<f[s \ {Max(s)}], Max(s)>>]
        BY <2>2, <4>1 DEF IsFold
      <4>3. s \ {Max(s)} \in SUBSET (1 .. m + 1) /\ m + 1 \notin s \ {Max(s)}
        BY <3>2
      <4>4. g[s \ {Max(s)}] = f[s \ {Max(s)}]
        BY <4>3
      <4> QED BY <4>1, <4>2, <4>4
    <3> QED BY <3>1, <3>2
  <2>6. g = [s \in SUBSET (1 .. m + 1) |-> g[s]]
    OBVIOUS
  <2> HIDE DEF g
  <2>7. IsFold(g, m + 1, base, op)
    BY <2>5, <2>6 DEF IsFold
  <2> QED BY <2>4, <2>7 DEF Has
<1> HIDE DEF T
<1>3. n \in T
  BY <1>1, <1>2, SetInduction
<1>4. Has(n)
  BY <1>3 DEF T
<1> QED BY <1>4 DEF Has

\* The smallest of a non-empty set of positive numbers.
LEMMA LeastOne ==
  ASSUME NEW s \in SUBSET Nat, s # {}
  PROVE  Min(s) \in s /\ \A y \in s : Min(s) <= y
<1>1. PICK x \in s : \A y \in s : <<y, x>> \notin Below
  BY NatWF, WFMin
<1>2. ASSUME NEW y \in s
      PROVE  x <= y
  <2>1. y < x => <<y, x>> \in Below
    BY DEF Below
  <2> QED BY <1>1, <2>1
<1> QED BY <1>1, <1>2 DEF Min

\* How a fold takes 1 .. k apart.
LEMMA Initial ==
  ASSUME NEW k \in Nat, k # 0
  PROVE  Max(1 .. k) = k /\ (1 .. k) \ {k} = 1 .. k - 1 /\ 1 .. k # {}
<1>1. 1 .. k # {} /\ k \in 1 .. k /\ 1 .. k \in SUBSET (1 .. k)
  OBVIOUS
<1>2. Max(1 .. k) \in 1 .. k /\ \A y \in 1 .. k : Max(1 .. k) >= y
  BY <1>1, GreatestOne
<1>3. Max(1 .. k) >= k
  BY <1>1, <1>2
<1> QED BY <1>1, <1>2, <1>3

\* h is what op makes of base, step by step.
IsRun(h, n, base, op) == h[0] = base /\ \A k \in 1 .. n : h[k] = op[<<h[k - 1], k>>]

LEMMA RunExists ==
  ASSUME NEW X, NEW base \in X, NEW n \in Nat, NEW op \in [X \X (1 .. n) -> X]
  PROVE  \E h \in [0 .. n -> X] : IsRun(h, n, base, op)
<1>1. PICK f \in [SUBSET (1 .. n) -> X] : IsFold(f, n, base, op)
  BY FoldExists
<1> DEFINE h == [k \in 0 .. n |-> f[1 .. k]]
<1>2. ASSUME NEW k \in 0 .. n
      PROVE  1 .. k \in SUBSET (1 .. n) /\ h[k] = f[1 .. k]
  OBVIOUS
<1>3. h \in [0 .. n -> X]
  BY <1>2
<1>4. h[0] = base
  <2>1. 1 .. 0 = {} /\ {} \in SUBSET (1 .. n) /\ 0 \in 0 .. n
    OBVIOUS
  <2>2. f[{}] = base
    BY <1>1, <2>1 DEF IsFold
  <2> QED BY <1>2, <2>1, <2>2
<1>5. ASSUME NEW k \in 1 .. n
      PROVE  h[k] = op[<<h[k - 1], k>>]
  <2>1. k \in 0 .. n /\ k - 1 \in 0 .. n /\ k \in Nat /\ k # 0
    OBVIOUS
  <2>2. Max(1 .. k) = k /\ (1 .. k) \ {k} = 1 .. k - 1 /\ 1 .. k # {}
    BY <2>1, Initial
  <2>3. 1 .. k \in SUBSET (1 .. n) /\ h[k] = f[1 .. k] /\ h[k - 1] = f[1 .. k - 1]
    BY <1>2, <2>1
  <2>4. f[1 .. k] = op[<<f[(1 .. k) \ {Max(1 .. k)}], Max(1 .. k)>>]
    BY <1>1, <2>2, <2>3 DEF IsFold
  <2> HIDE DEF h
  <2> QED BY <2>2, <2>3, <2>4
<1> HIDE DEF h
<1>6. IsRun(h, n, base, op)
  BY <1>4, <1>5 DEF IsRun
<1> QED BY <1>3, <1>6

-----------------------------------------------------------------------------
(* Parts of sequences.                                                     *)

\* The elements of a part of a sequence.
LEMMA Part ==
  ASSUME NEW S, NEW s \in Seq(S), NEW i \in 1 .. Len(s) + 1, NEW j \in i - 1 .. Len(s)
  PROVE  /\ SubSeq(s, i, j) \in Seq(S) /\ Len(SubSeq(s, i, j)) = j - i + 1
         /\ \A k \in 1 .. j - i + 1 : SubSeq(s, i, j)[k] = s[i + k - 1]
<1>1. \A k \in i .. j : s[k] \in S
  OBVIOUS
<1>2. i \in Int /\ j \in Int /\ (IF i <= j THEN j - i + 1 ELSE 0) = j - i + 1
  OBVIOUS
<1> QED BY <1>1, <1>2, SubSeqProperties

\* A function on 1 .. n is a sequence.
LEMMA FunctionIsSequence ==
  ASSUME NEW S, NEW n \in Nat, NEW f \in [1 .. n -> S]
  PROVE  f \in Seq(S) /\ Len(f) = n
BY SeqDef, LenProperties

\* A prefix grows by one element.
LEMMA PrefixGrows ==
  ASSUME NEW S, NEW t \in Seq(S), NEW i \in 1 .. Len(t), NEW j \in 1 .. i
  PROVE  Append(SubSeq(t, j, i - 1), t[i]) = SubSeq(t, j, i)
<1>1. SubSeq(t, j, i) = SubSeq(t, j, i - 1) \o <<t[i]>>
  BY SubSeqRecursiveSecond
<1>2. SubSeq(t, j, i - 1) \in Seq(S) /\ t[i] \in S
  BY Part
<1> QED BY <1>1, <1>2, AppendIsConcat

LEMMA ReverseIs ==
  ASSUME NEW C, NEW s \in Seq(C)
  PROVE  /\ Reverse(s) \in Seq(C) /\ Len(Reverse(s)) = Len(s)
         /\ \A i \in 1 .. Len(s) : Reverse(s)[i] = s[Len(s) - i + 1]
BY DEF Reverse

-----------------------------------------------------------------------------
(* FlattenSeq.                                                             *)

\* The recursion of FlattenSeq.
IsFlatten(f, ss) ==
  f = [i \in 1 .. Len(ss) |-> IF i = 1 THEN ss[i] ELSE f[i - 1] \o ss[i]]

\* The chunks are appended one by one.
LEMMA FlattenRuns ==
  ASSUME NEW S, NEW ss \in Seq(Seq(S))
  PROVE  \E h \in [0 .. Len(ss) -> Seq(S)] :
           /\ h[0] = <<>> /\ \A k \in 1 .. Len(ss) : h[k] = h[k - 1] \o ss[k]
           /\ FlattenSeq(ss) = h[Len(ss)]
<1>1. PICK n \in Nat : n = Len(ss)
  OBVIOUS
<1> DEFINE op == [p \in Seq(S) \X (1 .. n) |-> p[1] \o ss[p[2]]]
<1>2. \A i \in 1 .. n : ss[i] \in Seq(S)
  BY <1>1
<1>3. op \in [Seq(S) \X (1 .. n) -> Seq(S)]
  <2>1. ASSUME NEW p \in Seq(S) \X (1 .. n)
        PROVE  p[1] \o ss[p[2]] \in Seq(S)
    <3>1. p[1] \in Seq(S) /\ ss[p[2]] \in Seq(S)
      BY <1>2
    <3> QED BY <3>1, ConcatProperties
  <2> QED BY <2>1
<1>4. \A x \in Seq(S), i \in 1 .. n : op[<<x, i>>] = x \o ss[i]
  OBVIOUS
<1>5. <<>> \in Seq(S)
  OBVIOUS
<1> HIDE DEF op
<1>6. PICK h \in [0 .. n -> Seq(S)] :
        h[0] = <<>> /\ \A k \in 1 .. n : h[k] = op[<<h[k - 1], k>>]
  <2>1. \E h \in [0 .. n -> Seq(S)] : IsRun(h, n, <<>>, op)
    BY <1>3, <1>5, RunExists
  <2> QED BY <2>1 DEF IsRun
<1>7. ASSUME NEW k \in 1 .. n
      PROVE  h[k] = h[k - 1] \o ss[k]
  <2>1. h[k - 1] \in Seq(S)
    OBVIOUS
  <2> QED BY <1>4, <1>6, <2>1
<1>8. FlattenSeq(ss) = h[n]
  <2>1. CASE n = 0
    <3>1. ss = <<>>
      BY <1>1, <2>1, EmptySeq
    <3> QED BY <1>1, <1>6, <2>1, <3>1 DEF FlattenSeq
  <2>2. CASE n # 0
    <3> DEFINE f == [i \in 1 .. n |-> h[i]]
               g == CHOOSE x : IsFlatten(x, ss)
    <3>1. h[1] = ss[1]
      <4>1. 1 \in 1 .. n /\ 1 - 1 = 0
        BY <2>2
      <4>2. h[1] = h[0] \o ss[1] /\ ss[1] \in Seq(S)
        BY <1>2, <1>7, <4>1
      <4> QED BY <1>6, <4>2, ConcatEmptySeq
    <3>2. ASSUME NEW i \in 1 .. n
          PROVE  f[i] = IF i = 1 THEN ss[i] ELSE f[i - 1] \o ss[i]
      <4>1. f[i] = h[i] /\ (i # 1 => f[i - 1] = h[i - 1])
        OBVIOUS
      <4> HIDE DEF f
      <4> QED BY <1>7, <3>1, <4>1
    <3>3. f = [i \in 1 .. n |-> f[i]]
      OBVIOUS
    <3> HIDE DEF f
    <3>4. IsFlatten(f, ss)
      BY <1>1, <3>2, <3>3 DEF IsFlatten
    <3>5. IsFlatten(g, ss)
      BY <3>4
    <3>6. FlattenSeq(ss) = g[n]
      BY <1>1, <2>2 DEF FlattenSeq, IsFlatten
    <3> HIDE DEF g
    <3>7. \A i \in 1 .. n : g[i] = IF i = 1 THEN ss[i] ELSE g[i - 1] \o ss[i]
      BY <1>1, <3>5 DEF IsFlatten
    <3> DEFINE T == {k \in 0 .. n : k # 0 => g[k] = h[k]}
    <3>8. 0 \in T
      OBVIOUS
    <3>9. ASSUME NEW k \in 1 .. n, k - 1 \in T
          PROVE  k \in T
      <4>1. CASE k = 1
        BY <3>1, <3>7, <4>1
      <4>2. CASE k # 1
        <5>1. g[k - 1] = h[k - 1]
          BY <3>9, <4>2
        <5>2. g[k] = g[k - 1] \o ss[k]
          BY <3>7, <4>2
        <5>3. g[k] = h[k]
          BY <1>7, <5>1, <5>2
        <5> QED BY <5>3
      <4> QED BY <4>1, <4>2
    <3> HIDE DEF T
    <3>10. 0 .. n \subseteq T
      BY <3>8, <3>9, BoundedInduction
    <3> QED BY <2>2, <3>6, <3>10 DEF T
  <2> QED BY <2>1, <2>2
<1> QED BY <1>1, <1>6, <1>7, <1>8

\* Chunks of the same length can be found again.
LEMMA FlattenChunks ==
  ASSUME NEW S, NEW ss \in Seq(Seq(S)), NEW w \in Nat,
         \A i \in 1 .. Len(ss) : Len(ss[i]) = w
  PROVE  /\ FlattenSeq(ss) \in Seq(S) /\ Len(FlattenSeq(ss)) = w * Len(ss)
         /\ \A i \in 1 .. Len(ss), j \in 1 .. w : FlattenSeq(ss)[w * (i - 1) + j] = ss[i][j]
<1>1. PICK n \in Nat : n = Len(ss)
  OBVIOUS
<1>2. PICK h \in [0 .. n -> Seq(S)] :
        /\ h[0] = <<>> /\ \A k \in 1 .. n : h[k] = h[k - 1] \o ss[k]
        /\ FlattenSeq(ss) = h[n]
  BY <1>1, FlattenRuns
<1> DEFINE Good(k) == /\ Len(h[k]) = w * k
                      /\ \A i \in 1 .. k, j \in 1 .. w : h[k][w * (i - 1) + j] = ss[i][j]
           T == {k \in 0 .. n : Good(k)}
<1>3. 0 \in T
  BY <1>2
<1>4. ASSUME NEW k \in 1 .. n, k - 1 \in T
      PROVE  k \in T
  <2> DEFINE a == h[k - 1]
             b == ss[k]
             v == w * (k - 1)
  <2>1. /\ a \in Seq(S) /\ b \in Seq(S) /\ Len(b) = w /\ h[k] = a \o b
        /\ Len(a) = v /\ \A i \in 1 .. k - 1, j \in 1 .. w : a[w * (i - 1) + j] = ss[i][j]
    <3>1. Good(k - 1) /\ k - 1 \in 0 .. n
      BY <1>4
    <3>2. b \in Seq(S) /\ Len(b) = w
      BY <1>1
    <3>3. a \in Seq(S) /\ h[k] = a \o b
      BY <1>2, <3>1
    <3> QED BY <3>1, <3>2, <3>3
  <2>2. v \in Nat /\ w * k = v + w
    OBVIOUS
  <2>3. \A i \in 1 .. k - 1, j \in 1 .. w : w * (i - 1) + j \in 1 .. v
    <3>1. SUFFICES ASSUME NEW i \in 1 .. k - 1, NEW j \in 1 .. w
                   PROVE  w * (i - 1) + j \in 1 .. v
      OBVIOUS
    <3>2. w * (i - 1) \in Nat /\ w * (i - 1) + w <= w * (k - 1)
      <4>1. PICK d \in Nat : k - 1 = i + d
        <5>1. k - 1 = i + (k - 1 - i) /\ k - 1 - i \in Nat
          OBVIOUS
        <5> QED BY <5>1
      <4>2. w * (i + d) = w * (i - 1) + w + w * d
        OBVIOUS
      <4>3. w * d \in Nat /\ w * (i - 1) \in Nat
        OBVIOUS
      <4> QED BY <4>1, <4>2, <4>3
    <3>3. PICK y : y = w * (i - 1)
      OBVIOUS
    <3>4. v \in Nat /\ y \in Nat /\ y + w <= v
      BY <3>2, <3>3
    <3> HIDE DEF v
    <3>5. y + j \in 1 .. v
      BY <3>4
    <3> QED BY <3>3, <3>5
  <2> HIDE DEF a, b, v
  <2>4. /\ Len(a \o b) = v + w
        /\ \A x \in 1 .. v + w : (a \o b)[x] = IF x <= v THEN a[x] ELSE b[x - v]
    BY <2>1, ConcatProperties
  <2>5. ASSUME NEW i \in 1 .. k, NEW j \in 1 .. w
        PROVE  h[k][w * (i - 1) + j] = ss[i][j]
    <3>1. CASE i = k
      <4>1. w * (i - 1) = v
        BY <3>1 DEF v
      <4>2. PICK x : x = v + j
        OBVIOUS
      <4>3. x \in 1 .. v + w /\ ~ x <= v /\ x - v = j
        BY <2>2, <4>2
      <4>4. (a \o b)[x] = b[j]
        BY <2>4, <4>3
      <4> QED BY <2>1, <3>1, <4>1, <4>2, <4>4 DEF b
    <3>2. CASE i # k
      <4>1. i \in 1 .. k - 1
        BY <3>2
      <4>2. PICK x : x = w * (i - 1) + j
        OBVIOUS
      <4>3. x \in 1 .. v /\ a[x] = ss[i][j]
        BY <2>1, <2>3, <4>1, <4>2
      <4>4. x \in 1 .. v + w /\ x <= v
        BY <2>2, <4>3
      <4> QED BY <2>1, <2>4, <4>2, <4>3, <4>4
    <3> QED BY <3>1, <3>2
  <2>6. Len(h[k]) = w * k
    BY <2>1, <2>2, <2>4
  <2> QED BY <2>5, <2>6
<1> HIDE DEF T
<1>5. 0 .. n \subseteq T
  BY <1>3, <1>4, BoundedInduction
<1>6. Good(n)
  <2>1. n \in 0 .. n
    OBVIOUS
  <2>2. n \in T
    BY <1>5, <2>1
  <2> HIDE DEF Good
  <2> QED BY <2>2 DEF T
<1> QED BY <1>1, <1>2, <1>6

\* Chunks that hold the elements of p one after the other.
InOrder(ss, w, p) ==
  \A i \in 1 .. Len(ss), j \in 1 .. w :
    w * (i - 1) + j <= Len(p) => ss[i][j] = p[w * (i - 1) + j]

LEMMA ReadBack ==
  ASSUME NEW S, NEW ss \in Seq(Seq(S)), NEW w \in Nat \ {0},
         \A i \in 1 .. Len(ss) : Len(ss[i]) = w,
         NEW R, NEW p \in Seq(R), Len(p) <= w * Len(ss), InOrder(ss, w, p)
  PROVE  SubSeq(FlattenSeq(ss), 1, Len(p)) = p
<1>1. PICK n \in Nat, L \in Nat : n = Len(ss) /\ L = Len(p)
  BY LenProperties
<1>2. PICK b : b = FlattenSeq(ss)
  OBVIOUS
<1>3. /\ b \in Seq(S) /\ Len(b) = w * n
      /\ \A i \in 1 .. n, j \in 1 .. w : b[w * (i - 1) + j] = ss[i][j]
  <2>1. w \in Nat
    OBVIOUS
  <2>2. FlattenSeq(ss) \in Seq(S)
    BY <2>1, FlattenChunks
  <2>3. Len(FlattenSeq(ss)) = w * Len(ss)
    BY <2>1, FlattenChunks
  <2>4. \A i \in 1 .. Len(ss), j \in 1 .. w : FlattenSeq(ss)[w * (i - 1) + j] = ss[i][j]
    BY <2>1, FlattenChunks
  <2> QED BY <1>1, <1>2, <2>2, <2>3, <2>4
<1>4. PICK v : v = SubSeq(b, 1, L)
  OBVIOUS
<1>5. v \in Seq(S) /\ Len(v) = L /\ \A x \in 1 .. L : v[x] = b[x]
  <2>1. 1 \in 1 .. Len(b) + 1 /\ L \in 1 - 1 .. Len(b)
    BY <1>1, <1>3
  <2>2. PICK one \in 1 .. Len(b) + 1 : one = 1 /\ L \in one - 1 .. Len(b)
    BY <2>1
  <2>3. v \in Seq(S) /\ Len(v) = L - one + 1 /\ \A x \in 1 .. L - one + 1 : v[x] = b[one + x - 1]
    BY <1>3, <1>4, <2>2, Part
  <2> QED BY <2>2, <2>3
<1>6. ASSUME NEW x \in 1 .. L
      PROVE  v[x] = p[x]
  <2>1. PICK y \in Nat : y = x - 1 /\ y < L
    OBVIOUS
  <2>2. PICK q \in Nat, m \in 0 .. w - 1 : y = w * q + m
    BY Divided
  <2>3. q < n
    <3>1. SUFFICES ASSUME q >= n PROVE FALSE
      OBVIOUS
    <3>2. w * q >= w * n
      BY <3>1, Multiplied
    <3>3. PICK a \in Int, c \in Int : a = w * q /\ c = w * n
      OBVIOUS
    <3>4. L <= c /\ y = a + m /\ a >= c
      BY <1>1, <2>2, <3>2, <3>3
    <3> QED BY <2>1, <3>4
  <2>4. PICK i \in 1 .. n, j \in 1 .. w : i = q + 1 /\ j = m + 1 /\ i - 1 = q
    BY <2>3
  <2>5. w * (i - 1) + j = x
    <3>1. PICK a \in Int : a = w * q /\ y = a + m
      BY <2>2
    <3>2. a + j = x
      BY <2>1, <2>4, <3>1
    <3> QED BY <2>4, <3>1, <3>2
  <2>6. b[x] = ss[i][j]
    BY <1>3, <2>5
  <2>7. ss[i][j] = p[x]
    <3>1. w * (i - 1) + j <= Len(p) => ss[i][j] = p[w * (i - 1) + j]
      BY <1>1 DEF InOrder
    <3>2. x <= Len(p)
      BY <1>1
    <3> QED BY <2>5, <3>1, <3>2
  <2> QED BY <1>5, <2>6, <2>7
<1>7. v = p
  BY <1>1, <1>5, <1>6, SeqEqual
<1> QED BY <1>1, <1>2, <1>4, <1>7

\* All of them.
LEMMA ReadBackAll ==
  ASSUME NEW S, NEW ss \in Seq(Seq(S)), NEW w \in Nat \ {0},
         \A i \in 1 .. Len(ss) : Len(ss[i]) = w,
         NEW R, NEW p \in Seq(R), Len(p) = w * Len(ss),
         \A i \in 1 .. Len(ss), j \in 1 .. w : ss[i][j] = p[w * (i - 1) + j]
  PROVE  FlattenSeq(ss) = p
<1>1. PICK b : b = FlattenSeq(ss)
  OBVIOUS
<1>2. b \in Seq(S) /\ Len(b) = w * Len(ss)
  BY <1>1, FlattenChunks
<1>3. Len(p) \in Int
  BY LenProperties
<1>4. Len(p) <= w * Len(ss)
  BY <1>3
<1>5. SubSeq(b, 1, Len(p)) = p
  <2>1. InOrder(ss, w, p)
    BY DEF InOrder
  <2> QED BY <1>1, <1>4, <2>1, ReadBack
<1>6. SubSeq(b, 1, Len(b)) = b
  BY <1>2, SubSeqFull
<1> QED BY <1>1, <1>2, <1>5, <1>6
=============================================================================
