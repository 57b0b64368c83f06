----------------------------- MODULE FoldProofs ----------------------------
(***************************************************************************)
(* Lemmas about folding a sequence from the left with an operator, for any *)
(* operator.  The library defines FoldLeft as a recursive function over    *)
(* the subsets of the positions; what a proof about a loop over a sequence *)
(* needs is that it starts with the base and takes one element at a time.  *)
(* A module of proofs takes these facts by INSTANCE, with its operator for *)
(* Op.                                                                     *)
(***************************************************************************)
EXTENDS Integers, Sequences, Folds, SequenceTheorems, WellFoundedInduction, TLAPS

CONSTANT Op(_, _)

\* FoldLeft(Op, base, seq) of SequencesExt, written out so that an instance of
\* this module does not bring in the rest of that one.
Greatest(s) == CHOOSE x \in s : \A y \in s : x >= y

Fold(seq, base) ==
    MapThenFoldSet(LAMBDA x, y : Op(y, x), base, LAMBDA i : seq[i], LAMBDA s : Greatest(s), DOMAIN seq)

-----------------------------------------------------------------------------
(* Induction *)

\* Induction as a statement about sets: a set that holds zero, and with a number
\* its successor, holds every number.
LEMMA SetInduction ==
    ASSUME NEW S, 0 \in S, \A n \in Nat : n \in S => n + 1 \in S
    PROVE  Nat \subseteq S
<1> DEFINE R == {ss \in Nat \X Nat : ss[1] < ss[2]}
<1>1. R = OpToRel(<, Nat)
  BY Zenon DEF OpToRel
<1>2. IsWellFoundedOn(R, Nat)
  BY <1>1, NatLessThanWellFounded, Zenon
<1>3. SUFFICES ASSUME Nat \ S # {} PROVE FALSE
  OBVIOUS
<1>4. \A x, y \in Nat : x < y => <<x, y>> \in R
  OBVIOUS
<1> HIDE DEF R
<1>5. \E m \in Nat \ S : \A k \in Nat \ S : ~(<<k, m>> \in R)
  <2> DEFINE T == Nat \ S
  <2>1. T \subseteq Nat /\ T # {}
    BY <1>3
  <2> HIDE DEF T
  <2>2. \E m \in T : \A k \in T : ~(<<k, m>> \in R)
    BY <1>2, <2>1, WFMin
  <2>3. QED
    BY <2>2 DEF T
<1>6. PICK m \in Nat \ S : \A k \in Nat \ S : ~(<<k, m>> \in R)
  BY <1>5
<1>7. \A k \in Nat \ S : ~(k < m)
  BY <1>4, <1>6
<1>8. m # 0
  OBVIOUS
<1>9. m - 1 \in Nat /\ (m - 1) + 1 = m
  BY <1>8
<1>10. m - 1 \notin S
  BY <1>9
<1>11. QED
  BY <1>7, <1>9, <1>10

\* The same up to a bound.
LEMMA IndexInduction ==
    ASSUME NEW n \in Nat, NEW S, 0 \in S, \A i \in 1..n : i - 1 \in S => i \in S
    PROVE  0..n \subseteq S
<1> DEFINE T == {i \in Nat : i <= n => i \in S}
<1>1. 0 \in T
  OBVIOUS
<1>2. ASSUME NEW i \in Nat, i \in T PROVE i + 1 \in T
  <2>1. CASE i + 1 <= n
    <3>1. i + 1 \in 1..n /\ (i + 1) - 1 = i
      BY <2>1
    <3>2. i \in S
      BY <1>2, <2>1
    <3>3. i + 1 \in S
      BY <3>1, <3>2
    <3>4. QED
      BY <3>3
  <2>2. CASE ~(i + 1 <= n)
    BY <2>2
  <2>3. QED
    BY <2>1, <2>2
<1> HIDE DEF T
<1>3. Nat \subseteq T
  BY <1>1, <1>2, SetInduction
<1>4. QED
  BY <1>3 DEF T

\* A set that holds the empty sequence, and with a sequence what is appended to
\* it, holds every sequence.
LEMMA SequenceInduction ==
    ASSUME NEW T, NEW P, <<>> \in P,
           \A s \in Seq(T) : \A x \in T : s \in P => Append(s, x) \in P
    PROVE  Seq(T) \subseteq P
<1> SUFFICES ASSUME NEW s \in Seq(T) PROVE s \in P
  OBVIOUS
<1> DEFINE n == Len(s)
           first(k) == SubSeq(s, 1, k)
           S == {k \in 0..n : first(k) \in P}
<1>1. n \in Nat
  OBVIOUS
<1>2. 0 \in S
  <2>1. first(0) = <<>>
    BY SubSeqEmpty
  <2> HIDE DEF first
  <2>2. first(0) \in P
    BY <2>1, Zenon
  <2>3. QED
    BY <1>1, <2>2
<1>3. ASSUME NEW i \in 1..n, i - 1 \in S PROVE i \in S
  <2>1. first(i) = Append(first(i - 1), s[i]) /\ first(i - 1) \in Seq(T) /\ s[i] \in T
    OBVIOUS
  <2>2. first(i) \in P
    BY <1>3, <2>1
  <2>3. QED
    BY <1>1, <2>2
<1> HIDE DEF S
<1>4. 0..n \subseteq S
  <2> HIDE DEF n
  <2>1. QED
    BY <1>1, <1>2, <1>3, IndexInduction
<1>5. n \in S
  BY <1>1, <1>4
<1>6. first(n) = s
  OBVIOUS
<1>7. QED
  BY <1>5, <1>6 DEF S

\* A set of numbers below a bound has a greatest one.
LEMMA BoundedMaximum ==
    ASSUME NEW n \in Nat, NEW N, N \subseteq 0..n, N # {}
    PROVE  \E m \in N : \A k \in N : k <= m
<1>1. SUFFICES ASSUME \A m \in N : \E k \in N : m < k PROVE FALSE
  OBVIOUS
<1> DEFINE S == {i \in Nat : \E m \in N : i <= m}
<1>2. 0 \in S
  <2>1. PICK m \in N : TRUE
    OBVIOUS
  <2>2. 0 <= m
    OBVIOUS
  <2>3. QED
    BY <2>2
<1>3. ASSUME NEW i \in Nat, i \in S PROVE i + 1 \in S
  <2>1. PICK m \in N : i <= m
    BY <1>3
  <2>2. PICK k \in N : m < k
    BY <1>1
  <2>3. i + 1 <= k
    BY <2>1, <2>2
  <2>4. QED
    BY <2>3
<1> HIDE DEF S
<1>4. Nat \subseteq S
  BY <1>2, <1>3, SetInduction
<1>5. n + 1 \in S
  BY <1>4
<1>6. QED
  BY <1>5 DEF S

-----------------------------------------------------------------------------
(* Folds *)

\* The library's fold over the subsets of 1..n.
IsFold(f, seq, base, n) ==
    f = [s \in SUBSET (1..n) |-> IF s = {} THEN base
                                 ELSE Op(f[s \ {Greatest(s)}], seq[Greatest(s)])]

\* The loop after each of the first n elements.
IsRun(v, seq, base, n) ==
    /\ DOMAIN v = 0..n
    /\ v[0] = base
    /\ \A i \in 1..n : v[i] = Op(v[i - 1], seq[i])

\* The last position of a set that reaches n is n.
LEMMA GreatestOfUpTo ==
    ASSUME NEW n \in Nat, NEW s \in SUBSET (1..n), n \in s
    PROVE  Greatest(s) = n
<1>1. \A x \in s : (\A y \in s : x >= y) => x = n
  OBVIOUS
<1>2. \A y \in s : n >= y
  OBVIOUS
<1>3. QED
  BY <1>1, <1>2, Zenon DEF Greatest

\* There is such a fold for every length.
LEMMA FoldExists ==
    ASSUME NEW seq, NEW base
    PROVE  \A n \in Nat : \E f : IsFold(f, seq, base, n)
<1> DEFINE S == {n \in Nat : \E f : IsFold(f, seq, base, n)}
<1>1. 0 \in S
  <2> DEFINE f == [s \in SUBSET (1..0) |-> base]
  <2>1. \A s \in SUBSET (1..0) : s = {}
    OBVIOUS
  <2>2. f = [s \in SUBSET (1..0) |-> IF s = {} THEN base
                                     ELSE Op(f[s \ {Greatest(s)}], seq[Greatest(s)])]
    BY <2>1, Zenon
  <2>3. QED
    BY <2>2 DEF IsFold
<1>2. ASSUME NEW n \in Nat, n \in S PROVE n + 1 \in S
  <2>1. PICK f : IsFold(f, seq, base, n)
    BY <1>2
  <2> DEFINE g == [s \in SUBSET (1..(n + 1)) |->
                     IF n + 1 \in s THEN Op(f[s \ {n + 1}], seq[n + 1]) ELSE f[s]]
  <2>2. ASSUME NEW s \in SUBSET (1..(n + 1))
        PROVE  g[s] = IF s = {} THEN base
                      ELSE Op(g[s \ {Greatest(s)}], seq[Greatest(s)])
    <3>1. CASE n + 1 \in s
      <4>1. Greatest(s) = n + 1
        BY <3>1, GreatestOfUpTo
      <4>2. s \ {n + 1} \in SUBSET (1..(n + 1)) /\ n + 1 \notin s \ {n + 1}
        OBVIOUS
      <4>3. g[s \ {n + 1}] = f[s \ {n + 1}]
        BY <4>2, Zenon
      <4>4. g[s] = Op(f[s \ {n + 1}], seq[n + 1])
        BY <3>1, Zenon
      <4>5. s # {}
        BY <3>1
      <4> HIDE DEF g
      <4>6. QED
        BY <4>1, <4>3, <4>4, <4>5, Zenon
    <3>2. CASE n + 1 \notin s
      <4>1. s \in SUBSET (1..n)
        BY <3>2
      <4>2. g[s] = f[s]
        BY <3>2, Zenon
      <4>3. s \ {Greatest(s)} \in SUBSET (1..(n + 1)) /\ n + 1 \notin s \ {Greatest(s)}
        BY <3>2, Zenon
      <4>4. g[s \ {Greatest(s)}] = f[s \ {Greatest(s)}]
        BY <4>3, Zenon
      <4>5. f[s] = IF s = {} THEN base
                   ELSE Op(f[s \ {Greatest(s)}], seq[Greatest(s)])
        BY <2>1, <4>1, Zenon DEF IsFold
      <4> HIDE DEF g
      <4>6. QED
        BY <4>2, <4>4, <4>5, Zenon
    <3>3. QED
      BY <3>1, <3>2
  <2>3. g = [s \in SUBSET (1..(n + 1)) |-> g[s]]
    BY Zenon
  <2>4. IsFold(g, seq, base, n + 1)
    <3> HIDE DEF g
    <3>1. QED
      BY <2>2, <2>3, Zenon DEF IsFold
  <2>5. n + 1 \in Nat
    OBVIOUS
  <2> HIDE DEF g
  <2>6. QED
    BY <2>4, <2>5
<1> HIDE DEF S
<1>3. Nat \subseteq S
  BY <1>1, <1>2, SetInduction
<1>4. QED
  BY <1>3 DEF S

\* A fold is where the loop ends.
LEMMA FoldIsRun ==
    ASSUME NEW seq, NEW base, NEW n \in Nat, DOMAIN seq = 1..n
    PROVE  \E v : IsRun(v, seq, base, n) /\ Fold(seq, base) = v[n]
<1> DEFINE f == CHOOSE h : IsFold(h, seq, base, n)
<1>1. Fold(seq, base) = f[1..n]
  BY Zenon DEF Fold, MapThenFoldSet, IsFold
<1>2. IsFold(f, seq, base, n)
  BY FoldExists, Zenon
<1> HIDE DEF f
<1> DEFINE v == [i \in 0..n |-> f[1..i]]
<1>3. v[0] = base
  <2>1. 1..0 = {} /\ 0 \in 0..n
    OBVIOUS
  <2>2. {} \in SUBSET (1..n)
    OBVIOUS
  <2>3. f[{}] = base
    BY <1>2, <2>2, Zenon DEF IsFold
  <2>4. QED
    BY <2>1, <2>3
<1>4. ASSUME NEW i \in 1..n PROVE v[i] = Op(v[i - 1], seq[i])
  <2>1. Greatest(1..i) = i
    BY GreatestOfUpTo
  <2>2. (1..i) \ {i} = 1..(i - 1) /\ 1..i \in SUBSET (1..n) /\ 1..i # {}
    OBVIOUS
  <2>3. f[1..i] = Op(f[(1..i) \ {Greatest(1..i)}], seq[Greatest(1..i)])
    BY <1>2, <2>2, Zenon DEF IsFold
  <2>4. v[i] = f[1..i] /\ v[i - 1] = f[1..(i - 1)]
    OBVIOUS
  <2> HIDE DEF v
  <2>5. QED
    BY <2>1, <2>2, <2>3, <2>4, Zenon
<1>5. v[n] = f[1..n] /\ DOMAIN v = 0..n
  OBVIOUS
<1> HIDE DEF v
<1>6. IsRun(v, seq, base, n)
  BY <1>3, <1>4, <1>5, Zenon DEF IsRun
<1>7. QED
  BY <1>1, <1>5, <1>6

\* Loops over the same elements take the same values.
LEMMA RunsAgree ==
    ASSUME NEW s, NEW t, NEW base, NEW k \in Nat, NEW n \in Nat, k <= n,
           \A i \in 1..k : s[i] = t[i],
           NEW v, IsRun(v, s, base, k), NEW w, IsRun(w, t, base, n)
    PROVE  v[k] = w[k]
<1> DEFINE S == {i \in 0..k : v[i] = w[i]}
<1>1. 0 \in S
  BY DEF IsRun
<1>2. ASSUME NEW i \in 1..k, i - 1 \in S PROVE i \in S
  <2>1. v[i] = Op(v[i - 1], s[i]) /\ w[i] = Op(w[i - 1], t[i]) /\ s[i] = t[i]
    BY DEF IsRun
  <2>2. v[i - 1] = w[i - 1]
    BY <1>2
  <2>3. v[i] = w[i]
    BY <2>1, <2>2, Zenon
  <2>4. QED
    BY <2>3
<1> HIDE DEF S
<1>3. 0..k \subseteq S
  BY <1>1, <1>2, IndexInduction
<1>4. k \in S
  BY <1>3
<1>5. QED
  BY <1>4 DEF S

\* The fold of a beginning of a sequence is one step more than that of the
\* beginning that is shorter by one.
LEMMA FoldStep ==
    ASSUME NEW T, NEW s \in Seq(T), NEW base
    PROVE  /\ Fold(SubSeq(s, 1, 0), base) = base
           /\ \A k \in 1..Len(s) :
                Fold(SubSeq(s, 1, k), base) = Op(Fold(SubSeq(s, 1, k - 1), base), s[k])
<1> DEFINE n == Len(s)
           first(k) == SubSeq(s, 1, k)
<1>1. n \in Nat /\ DOMAIN s = 1..n
  OBVIOUS
<1>2. PICK v : IsRun(v, s, base, n)
  BY <1>1, FoldIsRun
<1>3. ASSUME NEW k \in 0..n PROVE Fold(first(k), base) = v[k]
  <2>1. DOMAIN first(k) = 1..k /\ \A i \in 1..k : first(k)[i] = s[i]
    OBVIOUS
  <2> HIDE DEF first, n
  <2>2. k \in Nat /\ k <= n
    BY <1>1, <1>3
  <2>3. PICK w : IsRun(w, first(k), base, k) /\ Fold(first(k), base) = w[k]
    BY <2>1, <2>2, FoldIsRun
  <2>4. w[k] = v[k]
    BY <1>1, <1>2, <2>1, <2>2, <2>3, RunsAgree
  <2>5. QED
    BY <2>3, <2>4
<1>4. v[0] = base /\ 0 \in 0..n
  BY <1>2 DEF IsRun
<1>5. ASSUME NEW k \in 1..n PROVE v[k] = Op(v[k - 1], s[k]) /\ k \in 0..n /\ k - 1 \in 0..n
  BY <1>2, <1>5 DEF IsRun
<1> HIDE DEF first, n
<1>6. first(0) = SubSeq(s, 1, 0) /\ Fold(first(0), base) = base
  <2>1. Fold(first(0), base) = v[0]
    BY <1>3, <1>4
  <2>2. QED
    BY <1>4, <2>1 DEF first
<1>7. ASSUME NEW k \in 1..n PROVE Fold(first(k), base) = Op(Fold(first(k - 1), base), s[k])
  <2>1. Fold(first(k), base) = v[k] /\ Fold(first(k - 1), base) = v[k - 1]
    BY <1>3, <1>5
  <2>2. v[k] = Op(v[k - 1], s[k])
    BY <1>5
  <2>3. QED
    BY <2>1, <2>2, Zenon
<1>8. QED
  BY <1>6, <1>7, Zenon DEF first, n

\* The fold of a whole sequence is that of its longest beginning.
LEMMA FoldWhole ==
    ASSUME NEW T, NEW s \in Seq(T), NEW base
    PROVE  Fold(s, base) = Fold(SubSeq(s, 1, Len(s)), base)
<1>1. SubSeq(s, 1, Len(s)) = s
  OBVIOUS
<1>2. QED
  BY <1>1, Zenon

\* Folding an appended element is one more step.
LEMMA FoldAppend ==
    ASSUME NEW T, NEW s \in Seq(T), NEW x \in T, NEW base
    PROVE  Fold(Append(s, x), base) = Op(Fold(s, base), x)
<1> DEFINE t == Append(s, x)
<1>1. t \in Seq(T) /\ Len(t) = Len(s) + 1 /\ t[Len(t)] = x
  OBVIOUS
<1>2. SubSeq(t, 1, Len(t) - 1) = s
  OBVIOUS
<1>3. Len(t) \in 1..Len(t)
  BY <1>1
<1> HIDE DEF t
<1>4. Fold(SubSeq(t, 1, Len(t)), base) = Op(Fold(SubSeq(t, 1, Len(t) - 1), base), t[Len(t)])
  BY <1>1, <1>3, FoldStep
<1>5. Fold(t, base) = Fold(SubSeq(t, 1, Len(t)), base)
  BY <1>1, FoldWhole
<1>6. QED
  BY <1>1, <1>2, <1>4, <1>5, Zenon DEF t

\* The fold of nothing is where it starts.
LEMMA FoldEmpty == \A base : Fold(<<>>, base) = base
<1> TAKE base
<1>1. <<>> \in Seq({}) /\ SubSeq(<<>>, 1, 0) = <<>>
  BY SubSeqEmpty
<1>2. Fold(SubSeq(<<>>, 1, 0), base) = base
  BY <1>1, FoldStep
<1>3. QED
  BY <1>1, <1>2, Zenon

\* Folding two elements.
LEMMA FoldPair ==
    ASSUME NEW x, NEW y, NEW base
    PROVE  Fold(<<x, y>>, base) = Op(Op(base, x), y)
<1> DEFINE T == {x, y}
<1>1. <<>> \in Seq(T) /\ <<x>> \in Seq(T) /\ x \in T /\ y \in T
  OBVIOUS
<1>a. Append(<<>>, x) = <<x>>
  OBVIOUS
<1>b. Append(<<x>>, y) = <<x, y>>
  <2>1. Append(<<x>>, y) \in Seq({x, y}) /\ <<x, y>> \in Seq({x, y})
    OBVIOUS
  <2>2. Len(Append(<<x>>, y)) = 2 /\ Len(<<x, y>>) = 2
    OBVIOUS
  <2>3. Append(<<x>>, y)[1] = x /\ Append(<<x>>, y)[2] = y
    OBVIOUS
  <2>4. \A i \in 1..2 : Append(<<x>>, y)[i] = <<x, y>>[i]
    BY <2>3
  <2>5. QED
    BY <2>1, <2>2, <2>4, SeqEqual
<1> HIDE DEF T
<1>2. Fold(Append(<<>>, x), base) = Op(Fold(<<>>, base), x)
  BY <1>1, FoldAppend
<1>3. Fold(Append(<<x>>, y), base) = Op(Fold(<<x>>, base), y)
  BY <1>1, FoldAppend
<1>4. QED
  BY <1>a, <1>b, <1>2, <1>3, FoldEmpty, Zenon

\* Folding one element.
LEMMA FoldOne ==
    ASSUME NEW x, NEW base
    PROVE  Fold(<<x>>, base) = Op(base, x)
<1> DEFINE T == {x}
<1>1. <<>> \in Seq(T) /\ x \in T /\ Append(<<>>, x) = <<x>>
  OBVIOUS
<1> HIDE DEF T
<1>2. Fold(Append(<<>>, x), base) = Op(Fold(<<>>, base), x)
  BY <1>1, FoldAppend
<1>3. QED
  BY <1>1, <1>2, FoldEmpty, Zenon

\* Folding one sequence after another.
LEMMA FoldConcat ==
    ASSUME NEW T, NEW s \in Seq(T), NEW t \in Seq(T), NEW base
    PROVE  Fold(s \o t, base) = Fold(t, Fold(s, base))
<1> DEFINE P == {r \in Seq(T) : Fold(s \o r, base) = Fold(r, Fold(s, base))}
<1>1. <<>> \in P
  <2>1. s \o <<>> = s /\ <<>> \in Seq(T)
    OBVIOUS
  <2>2. Fold(<<>>, Fold(s, base)) = Fold(s, base)
    BY FoldEmpty
  <2>3. QED
    BY <2>1, <2>2
<1>2. ASSUME NEW r \in Seq(T), NEW x \in T, r \in P PROVE Append(r, x) \in P
  <2>1. s \o Append(r, x) = Append(s \o r, x) /\ s \o r \in Seq(T) /\ Append(r, x) \in Seq(T)
    OBVIOUS
  <2>2. Fold(Append(s \o r, x), base) = Op(Fold(s \o r, base), x)
    BY <2>1, FoldAppend
  <2>3. Fold(Append(r, x), Fold(s, base)) = Op(Fold(r, Fold(s, base)), x)
    BY FoldAppend
  <2>4. Fold(s \o r, base) = Fold(r, Fold(s, base))
    BY <1>2
  <2>5. Fold(s \o Append(r, x), base) = Fold(Append(r, x), Fold(s, base))
    BY <2>1, <2>2, <2>3, <2>4, Zenon
  <2>6. QED
    BY <2>1, <2>5
<1> HIDE DEF P
<1>3. Seq(T) \subseteq P
  BY <1>1, <1>2, SequenceInduction
<1>4. QED
  BY <1>3 DEF P

\* A property that holds at the start and that every step keeps holds at the
\* end: the values that have it are the set S.
LEMMA FoldKeeps ==
    ASSUME NEW T, NEW s \in Seq(T), NEW S, NEW base \in S,
           \A v \in S : \A i \in 1..Len(s) : Op(v, s[i]) \in S
    PROVE  Fold(s, base) \in S
<1> DEFINE n == Len(s)
           K == {k \in 0..n : Fold(SubSeq(s, 1, k), base) \in S}
<1>1. 0 \in K
  <2>1. Fold(SubSeq(s, 1, 0), base) = base
    BY FoldStep
  <2>2. QED
    BY <2>1
<1>2. ASSUME NEW k \in 1..n, k - 1 \in K PROVE k \in K
  <2>1. Fold(SubSeq(s, 1, k), base) = Op(Fold(SubSeq(s, 1, k - 1), base), s[k])
    BY FoldStep
  <2>2. Fold(SubSeq(s, 1, k - 1), base) \in S /\ k \in 0..n
    BY <1>2
  <2>3. Op(Fold(SubSeq(s, 1, k - 1), base), s[k]) \in S
    BY <2>2
  <2>4. QED
    BY <2>1, <2>2, <2>3
<1>n. n \in Nat
  OBVIOUS
<1> HIDE DEF K, n
<1>3. 0..n \subseteq K
  BY <1>n, <1>1, <1>2, IndexInduction
<1>4. Fold(SubSeq(s, 1, Len(s)), base) \in S
  <2>1. n \in 0..n
    BY <1>n
  <2>2. QED
    BY <1>3, <2>1 DEF K, n
<1>5. QED
  BY <1>4, FoldWhole
=============================================================================
