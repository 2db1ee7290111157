--------------------------- MODULE Format_proofs ---------------------------
(***************************************************************************)
(* What the proofs about texts need besides their own: induction over      *)
(* numbers and sequences, and what Format writes.                          *)
(***************************************************************************)
EXTENDS Format, SequenceTheorems, FiniteSetTheorems, WellFoundedInduction, TLAPS

(* Induction. *)

\* Where there is a counterexample there is a first one.
LEMMA LeastNatural ==
    ASSUME NEW T \in SUBSET Nat, T # {}
    PROVE  \E x \in T : \A y \in T : x <= y
<1> DEFINE R == {ss \in Nat \X Nat : ss[1] < ss[2]}
<1>1. IsWellFoundedOn(R, Nat)
    BY NatLessThanWellFounded DEF OpToRel
<1>2. \A x, y \in Nat : <<y, x>> \in R <=> y < x
    OBVIOUS
<1> HIDE DEF R
<1>3. PICK x \in T : \A y \in T : ~(<<y, x>> \in R)
    BY <1>1, WFMin
<1>4. ASSUME NEW y \in T PROVE x <= y
    <2>1. x \in Nat /\ y \in Nat /\ ~(y < x)
        BY <1>2, <1>3
    <2> QED  BY <2>1
<1> QED  BY <1>4

\* Induction up to n, for a set of numbers.
LEMMA InductionUpTo ==
    ASSUME NEW n \in Nat, NEW T, 0 \in T, \A i \in 1..n : i - 1 \in T => i \in T
    PROVE  \A i \in 0..n : i \in T
<1> DEFINE U == {i \in 0..n : i \notin T}
<1> SUFFICES ASSUME U # {} PROVE FALSE
    OBVIOUS
<1>1. U \in SUBSET Nat
    OBVIOUS
<1>2. PICK x \in U : \A y \in U : x <= y
    <2> HIDE DEF U
    <2> QED  BY <1>1, LeastNatural
<1>3. x \in 1..n /\ x - 1 \in 0..n /\ x \notin T
    BY <1>2
<1>4. x - 1 \notin U
    <2> HIDE DEF U
    <2> QED  BY <1>2, <1>3
<1> QED  BY <1>3, <1>4

\* A recursion over 0..n whose values stay in a set defines a function: where
\* there is a number it does not reach, there is a first one.
StaysIn(V, n, step) == \A i \in 1..n, v \in V : step[<<i, v>>] \in V
IsRecursion(f, n, v0, step) ==
    f[0] = v0 /\ \A i \in 1..n : f[i] = step[<<i, f[i - 1]>>]

LEMMA RecursionExists ==
    ASSUME NEW V, NEW v0 \in V, NEW n \in Nat, NEW step, StaysIn(V, n, step)
    PROVE  \E f \in [0..n -> V] : IsRecursion(f, n, v0, step)
<1> DEFINE Recursive(f, m) == IsRecursion(f, m, v0, step)
           T == {m \in 0..n : \A f \in [0..m -> V] : ~Recursive(f, m)}
<1>1. T = {}
    <2> SUFFICES ASSUME T # {} PROVE FALSE
        OBVIOUS
    <2>1. T \in SUBSET Nat
        OBVIOUS
    <2>2. PICK m \in T : \A k \in T : m <= k
        <3> HIDE DEF T
        <3> QED  BY <2>1, LeastNatural
    <2>3. CASE m = 0
        <3>1. [i \in 0..0 |-> v0] \in [0..0 -> V]
            OBVIOUS
        <3>2. Recursive([i \in 0..0 |-> v0], 0)
            BY DEF IsRecursion
        <3> QED  BY <2>2, <2>3, <3>1, <3>2
    <2>4. CASE m # 0
        <3>1. m \in 1..n /\ m - 1 \in 0..n /\ m - 1 \notin T
            <4>1. m \in 0..n /\ m - 1 \in 0..n
                BY <2>2, <2>4
            <4> HIDE DEF T
            <4> QED  BY <2>2, <2>4, <4>1
        <3>2. PICK f \in [0..(m - 1) -> V] : Recursive(f, m - 1)
            BY <3>1
        <3> DEFINE g == [i \in 0..m |-> IF i = m THEN step[<<m, f[m - 1]>>] ELSE f[i]]
        <3>3. f[m - 1] \in V /\ step[<<m, f[m - 1]>>] \in V
            BY <3>1 DEF StaysIn
        <3>4. g \in [0..m -> V]
            BY <3>1, <3>3
        <3>5. ASSUME NEW i \in 1..m PROVE g[i] = step[<<i, g[i - 1]>>]
            <4>1. i - 1 \in 0..m /\ i - 1 # m /\ g[i - 1] = f[i - 1]
                BY <3>1
            <4>2. CASE i = m
                BY <4>1, <4>2
            <4>3. CASE i # m
                <5>1. i \in 1..(m - 1) /\ g[i] = f[i]
                    BY <3>1, <4>3
                <5> QED  BY <3>2, <4>1, <5>1 DEF IsRecursion
            <4> QED  BY <4>2, <4>3
        <3>6. g[0] = v0
            BY <3>1, <3>2 DEF IsRecursion
        <3>7. Recursive(g, m)
            BY <3>5, <3>6 DEF IsRecursion
        <3> HIDE DEF g, Recursive
        <3> QED  BY <2>2, <3>4, <3>7
    <2> QED  BY <2>3, <2>4
<1>2. n \in 0..n
    OBVIOUS
<1>3. \E f \in [0..n -> V] : Recursive(f, n)
    <2> HIDE DEF Recursive
    <2> QED  BY <1>1, <1>2
<1> QED  BY <1>3

-----------------------------------------------------------------------------
(* Sequences. *)

Text == Seq(Int)

\* A sequence grows by one element at a time.
LEMMA PrefixGrows ==
    ASSUME NEW S, NEW s \in Seq(S), NEW i \in 1..Len(s)
    PROVE  /\ SubSeq(s, 1, i - 1) \in Seq(S) /\ Len(SubSeq(s, 1, i - 1)) = i - 1
           /\ SubSeq(s, 1, i) = Append(SubSeq(s, 1, i - 1), s[i])
           /\ s[i] \in S
OBVIOUS

LEMMA WholePrefix ==
    ASSUME NEW S, NEW s \in Seq(S)
    PROVE  SubSeq(s, 1, 0) = <<>> /\ SubSeq(s, 1, Len(s)) = s
OBVIOUS

\* FlattenSeq, one sequence after the other.
Flattened(ss) ==
    CHOOSE f : f = [i \in 1..Len(ss) |-> IF i = 1 THEN ss[i] ELSE f[i - 1] \o ss[i]]

LEMMA FlattenRecursion ==
    ASSUME NEW S, NEW ss \in Seq(Seq(S)), Len(ss) > 0
    PROVE  /\ Flattened(ss) \in [1..Len(ss) -> Seq(S)]
           /\ Flattened(ss)[1] = ss[1]
           /\ \A j \in 2..Len(ss) : Flattened(ss)[j] = Flattened(ss)[j - 1] \o ss[j]
<1> DEFINE n == Len(ss)
           V == Seq(S)
           step == [p \in (1..n) \X V |-> p[2] \o ss[p[1]]]
           body(f, j) == IF j = 1 THEN ss[j] ELSE f[j - 1] \o ss[j]
<1>1. n \in Nat /\ n > 0 /\ <<>> \in V
    OBVIOUS
<1>2. ASSUME NEW i \in 1..n, NEW v \in V PROVE v \o ss[i] \in V
    BY ConcatProperties
<1>3. \A i \in 1..n, v \in V : step[<<i, v>>] = v \o ss[i]
    OBVIOUS
<1> HIDE DEF step
<1>4. StaysIn(V, n, step)
    BY <1>2, <1>3 DEF StaysIn
<1>5. PICK f \in [0..n -> V] : IsRecursion(f, n, <<>>, step)
    <2> HIDE DEF n, V
    <2> QED  BY <1>1, <1>4, RecursionExists
<1> DEFINE h == [j \in 1..n |-> f[j]]
<1>6. ASSUME NEW j \in 1..n PROVE h[j] = body(h, j)
    <2>1. f[j] = f[j - 1] \o ss[j] /\ f[j - 1] \in V /\ f[0] = <<>>
        <3>1. j - 1 \in 0..n
            BY <1>1
        <3>2. f[j] = step[<<j, f[j - 1]>>] /\ f[0] = <<>>
            BY <1>5 DEF IsRecursion
        <3> QED  BY <1>3, <1>5, <3>1, <3>2
    <2>2. CASE j = 1
        <3>1. <<>> \o ss[1] = ss[1]
            BY <1>1, ConcatEmptySeq
        <3>2. f[1] = <<>> \o ss[1]
            <4>1. j - 1 = 0
                BY <2>2
            <4> QED  BY <2>1, <2>2, <4>1
        <3>3. h[1] = f[1]
            BY <1>1
        <3> QED  BY <2>2, <3>1, <3>2, <3>3
    <2>3. CASE j # 1
        <3>1. j - 1 \in 1..n
            BY <1>1, <2>3
        <3> QED  BY <2>1, <2>3, <3>1
    <2> QED  BY <2>2, <2>3
<1>7. Flattened(ss) = CHOOSE g : g = [j \in 1..n |-> body(g, j)]
    BY DEF Flattened
<1> HIDE DEF body
<1>8. h = [j \in 1..n |-> body(h, j)]
    BY <1>6
<1> HIDE DEF h
<1>9. Flattened(ss) = [j \in 1..n |-> body(Flattened(ss), j)]
    BY <1>7, <1>8
<1> DEFINE F == Flattened(ss)
<1> HIDE DEF F
<1>10. F = [j \in 1..n |-> body(F, j)]
    BY <1>9 DEF F
<1>11. \A j \in 1..n : F[j] = body(F, j)
    BY <1>10
<1>12. F[1] = ss[1]
    <2>1. 1 \in 1..n
        BY <1>1
    <2>2. F[1] = body(F, 1)
        BY <1>11, <2>1
    <2> QED  BY <2>2 DEF body
<1>13. ASSUME NEW j \in 2..n PROVE F[j] = F[j - 1] \o ss[j]
    <2>1. j \in 1..n /\ j # 1
        BY <1>1
    <2> QED  BY <1>11, <2>1 DEF body
<1>14. \A j \in 0..n : j = 0 \/ F[j] \in V
    <2> DEFINE T == {j \in 0..n : j = 0 \/ F[j] \in V}
    <2> HIDE DEF V
    <2>1. 0 \in T
        BY <1>1
    <2>2. ASSUME NEW j \in 1..n, j - 1 \in T PROVE j \in T
        <3>1. CASE j = 1
            <4>1. F[j] \in V
                BY <1>1, <1>12, <3>1 DEF V
            <4> QED  BY <4>1
        <3>2. CASE j # 1
            <4>1. j \in 2..n /\ F[j - 1] \in V
                BY <1>1, <2>2, <3>2
            <4>2. F[j - 1] \o ss[j] \in V
                BY <1>2, <4>1
            <4>3. F[j] \in V
                BY <1>13, <4>1, <4>2
            <4> QED  BY <4>3
        <3> QED  BY <3>1, <3>2
    <2>3. \A j \in 0..n : j \in T
        <3> HIDE DEF T
        <3> QED  BY <1>1, <2>1, <2>2, InductionUpTo
    <2> QED  BY <2>3
<1>15. F \in [1..n -> V]
    <2>1. \A j \in 1..n : F[j] \in V
        BY <1>1, <1>14
    <2> HIDE DEF n, V
    <2> QED  BY <1>10, <2>1
<1> QED  BY <1>12, <1>13, <1>15 DEF F

LEMMA FlattenIs ==
    ASSUME NEW S, NEW ss \in Seq(Seq(S))
    PROVE  /\ Len(ss) = 0 => FlattenSeq(ss) = <<>>
           /\ Len(ss) > 0 => FlattenSeq(ss) = Flattened(ss)[Len(ss)]
           /\ FlattenSeq(ss) \in Seq(S)
<1>1. Len(ss) = 0 => FlattenSeq(ss) = <<>>
    BY DEF FlattenSeq
<1>2. Len(ss) > 0 => FlattenSeq(ss) = Flattened(ss)[Len(ss)]
    BY DEF FlattenSeq, Flattened
<1>3. Len(ss) > 0 => Flattened(ss)[Len(ss)] \in Seq(S)
    <2>1. Len(ss) > 0 => Flattened(ss) \in [1..Len(ss) -> Seq(S)]
        BY FlattenRecursion
    <2>2. Len(ss) > 0 => Len(ss) \in 1..Len(ss)
        OBVIOUS
    <2> QED  BY <2>1, <2>2
<1>4. <<>> \in Seq(S) /\ (Len(ss) = 0 \/ Len(ss) > 0)
    OBVIOUS
<1> QED  BY <1>1, <1>2, <1>3, <1>4

LEMMA FlattenAppend ==
    ASSUME NEW S, NEW ss \in Seq(Seq(S)), NEW t \in Seq(S)
    PROVE  FlattenSeq(Append(ss, t)) = FlattenSeq(ss) \o t
<1> DEFINE tt == Append(ss, t)  n == Len(ss)  f == Flattened(ss)  g == Flattened(tt)
           T == {i \in 0..n : i = 0 \/ f[i] = g[i]}
<1>1. /\ tt \in Seq(Seq(S)) /\ Len(tt) = n + 1 /\ tt[n + 1] = t /\ n \in Nat
      /\ \A i \in 1..n : tt[i] = ss[i]
    OBVIOUS
<1>2. FlattenSeq(tt) = g[n + 1] /\ g[1] = tt[1] /\ \A j \in 2..(n + 1) : g[j] = g[j - 1] \o tt[j]
    <2> HIDE DEF tt, n
    <2>1. Len(tt) > 0
        BY <1>1
    <2>2. FlattenSeq(tt) = g[n + 1]
        BY <1>1, <2>1, FlattenIs
    <2> QED  BY <1>1, <2>1, <2>2, FlattenRecursion
<1>3. CASE n = 0
    <2>1. FlattenSeq(ss) = <<>>
        BY <1>3, FlattenIs
    <2>2. FlattenSeq(tt) = t
        BY <1>1, <1>2, <1>3
    <2> QED  BY <2>1, <2>2, ConcatEmptySeq
<1>4. CASE n > 0
    <2>1. FlattenSeq(ss) = f[n] /\ f[1] = ss[1] /\ \A j \in 2..n : f[j] = f[j - 1] \o ss[j]
        BY <1>4, FlattenIs, FlattenRecursion
    <2> HIDE DEF tt, f, g, n
    <2>2. ASSUME NEW i \in 1..n, i - 1 \in T PROVE i \in T
        <3>1. CASE i = 1
            BY <1>1, <1>2, <2>1, <3>1
        <3>2. CASE i # 1
            <4>1. i \in 2..n /\ i \in 2..(n + 1) /\ f[i - 1] = g[i - 1]
                BY <1>1, <2>2, <3>2
            <4>2. f[i] = f[i - 1] \o ss[i] /\ g[i] = g[i - 1] \o tt[i] /\ tt[i] = ss[i]
                BY <1>1, <1>2, <2>1, <4>1
            <4>3. f[i] = g[i]
                BY <4>1, <4>2
            <4> QED  BY <4>3
        <3> QED  BY <3>1, <3>2
    <2>3. \A i \in 0..n : i \in T
        <3>1. 0 \in T
            BY <1>1
        <3> HIDE DEF T
        <3> QED  BY <1>1, <3>1, <2>2, InductionUpTo
    <2>4. f[n] = g[n]
        BY <1>1, <1>4, <2>3
    <2>5. g[n + 1] = g[n] \o t
        <3>1. n + 1 \in 2..(n + 1) /\ (n + 1) - 1 = n
            BY <1>1, <1>4
        <3> QED  BY <1>1, <1>2, <3>1
    <2> QED  BY <1>2, <2>1, <2>4, <2>5 DEF tt
<1> QED  BY <1>1, <1>3, <1>4

Associates(s, t, u) == (s \o t) \o u = s \o (t \o u)

LEMMA ConcatTexts ==
    ASSUME NEW s \in Text, NEW t \in Text, NEW u \in Text
    PROVE  Associates(s, t, u)
<1>1. s \in Seq(Int) /\ t \in Seq(Int) /\ u \in Seq(Int)
    BY DEF Text
<1>2. (s \o t) \o u = s \o (t \o u)
    BY <1>1, ConcatAssociative, SMTT(30)
<1> QED  BY <1>2, Zenon DEF Associates

LEMMA AppendConcat ==
    ASSUME NEW a \in Text, NEW b \in Text, NEW c \in Int
    PROVE  Append(a \o b, c) = a \o Append(b, c)
<1> DEFINE u == <<c>>  ab == a \o b
<1>1. a \in Seq(Int) /\ b \in Seq(Int) /\ u \in Seq(Int)
    BY DEF Text
<1>2. ab \in Seq(Int)
    BY <1>1
<1>3. Append(b, c) = b \o u
    BY <1>1, AppendIsConcat
<1>4. Append(ab, c) = ab \o u
    <2> HIDE DEF ab
    <2> QED  BY <1>2, AppendIsConcat DEF u
<1>5. (a \o b) \o u = a \o (b \o u)
    <2>1. u \in Text
        BY <1>1 DEF Text
    <2> HIDE DEF u
    <2>2. Associates(a, b, u)
        BY <2>1, ConcatTexts, Zenon
    <2> QED  BY <2>2, Zenon DEF Associates
<1> HIDE DEF u
<1> QED  BY <1>3, <1>4, <1>5, Zenon

-----------------------------------------------------------------------------
(* What Format writes is a text. *)

\* The loop of format_decimal.
Pairs == [value: Nat, text: Text]
PairsOf(n) ==
    CHOOSE f : f = [i \in 0..DigitPairs |->
        IF i = 0 THEN [value |-> n, text |-> <<>>] ELSE NextPair(f[i - 1])]

LEMMA TwoDigitsType ==
    ASSUME NEW n \in Nat
    PROVE  TwoDigits(n) \in Text
<1>1. 48 + (n \div 10) \in Int /\ 48 + (n % 10) \in Int
    OBVIOUS
<1> DEFINE a == 48 + (n \div 10)  b == 48 + (n % 10)
<1>2. TwoDigits(n) = <<a, b>> /\ a \in Int /\ b \in Int
    BY <1>1 DEF TwoDigits
<1> HIDE DEF a, b
<1> QED  BY <1>2 DEF Text

LEMMA NextPairType ==
    ASSUME NEW d \in Pairs
    PROVE  NextPair(d) \in Pairs
<1>1. d.value \in Nat /\ d.text \in Seq(Int)
    BY DEF Pairs, Text
<1>2. CASE d.value < 100
    BY <1>2 DEF NextPair
<1>3. CASE ~(d.value < 100)
    <2> DEFINE v == d.value \div 100  t == TwoDigits(d.value % 100) \o d.text
    <2>1. NextPair(d) = [value |-> v, text |-> t]
        BY <1>3 DEF NextPair
    <2>2. v \in Nat /\ d.value % 100 \in Nat
        BY <1>1
    <2>3. TwoDigits(d.value % 100) \in Seq(Int)
        BY <2>2, TwoDigitsType DEF Text
    <2>4. t \in Seq(Int)
        BY <1>1, <2>3
    <2> HIDE DEF v, t
    <2> QED  BY <2>1, <2>2, <2>4 DEF Pairs, Text
<1> QED  BY <1>2, <1>3

LEMMA PairsRecursion ==
    ASSUME NEW n0 \in Nat
    PROVE  /\ PairsOf(n0) \in [0..DigitPairs -> Pairs]
           /\ PairsOf(n0)[0] = [value |-> n0, text |-> <<>>]
           /\ \A j \in 1..DigitPairs :
                PairsOf(n0)[j] = NextPair(PairsOf(n0)[j - 1])
<1> DEFINE n == DigitPairs
           V == Pairs
           next(i, v) == NextPair(v)
           step == [p \in (1..n) \X V |-> next(p[1], p[2])]
           body(f, j) == IF j = 0 THEN [value |-> n0, text |-> <<>>] ELSE next(j, f[j - 1])
<1>1. n \in Nat /\ [value |-> n0, text |-> <<>>] \in V
    BY DEF DigitPairs, Pairs, Text
<1>2. ASSUME NEW i \in 1..n, NEW v \in V
      PROVE  next(i, v) \in V
    BY NextPairType
<1> HIDE DEF next
<1>3. \A i \in 1..n, v \in V : step[<<i, v>>] = next(i, v)
    OBVIOUS
<1> HIDE DEF step
<1>4. StaysIn(V, n, step)
    BY <1>2, <1>3 DEF StaysIn
<1>5. PICK f \in [0..n -> V] : IsRecursion(f, n, [value |-> n0, text |-> <<>>], step)
    <2> HIDE DEF n, V
    <2> QED  BY <1>1, <1>4, RecursionExists
<1>6. ASSUME NEW j \in 0..n PROVE f[j] = body(f, j)
    <2>1. CASE j = 0
        BY <1>5, <2>1 DEF IsRecursion
    <2>2. CASE j # 0
        <3>1. j \in 1..n /\ j - 1 \in 0..n
            BY <1>1, <2>2
        <3>2. f[j] = step[<<j, f[j - 1]>>] /\ f[j - 1] \in V
            BY <1>5, <3>1 DEF IsRecursion
        <3> QED  BY <1>3, <2>2, <3>1, <3>2
    <2> QED  BY <2>1, <2>2
<1>7. PairsOf(n0) = CHOOSE g : g = [j \in 0..n |-> body(g, j)]
    BY DEF PairsOf, next
<1> HIDE DEF body
<1>8. f = [j \in 0..n |-> body(f, j)]
    BY <1>6
<1>9. PairsOf(n0) = [j \in 0..n |-> body(PairsOf(n0), j)]
    BY <1>7, <1>8
<1> DEFINE F == PairsOf(n0)
<1> HIDE DEF F
<1>10. F = [j \in 0..n |-> body(F, j)]
    BY <1>9 DEF F
<1>11. \A j \in 0..n : F[j] = body(F, j)
    BY <1>10
<1>12. F[0] = [value |-> n0, text |-> <<>>]
    BY <1>1, <1>11 DEF body
<1>13. ASSUME NEW j \in 1..n PROVE F[j] = next(j, F[j - 1])
    <2>1. j \in 0..n /\ j # 0
        BY <1>1
    <2> QED  BY <1>11, <2>1 DEF body
<1>14. \A j \in 0..n : F[j] \in V
    <2> DEFINE T == {j \in 0..n : F[j] \in V}
    <2> HIDE DEF V
    <2>1. 0 \in T
        BY <1>1, <1>12
    <2>2. ASSUME NEW j \in 1..n, j - 1 \in T PROVE j \in T
        BY <1>1, <1>2, <1>13, <2>2
    <2>3. \A j \in 0..n : j \in T
        <3> HIDE DEF T
        <3> QED  BY <1>1, <2>1, <2>2, InductionUpTo
    <2> QED  BY <2>3
<1>15. F \in [0..n -> V]
    BY <1>10, <1>14
<1> QED  BY <1>12, <1>13, <1>15 DEF next, F


LEMMA FormatDecimalType ==
    ASSUME NEW n \in Nat
    PROVE  FormatDecimal(n, CountDigits(n)) \in Text
<1>1. Decimal(n) \in Text
    <2> DEFINE f == PairsOf(n)  rest == f[DigitPairs].value
    <2>1. f[DigitPairs] \in Pairs
        <3>1. DigitPairs \in 0..DigitPairs
            BY DEF DigitPairs
        <3>2. f \in [0..DigitPairs -> Pairs]
            BY PairsRecursion
        <3> HIDE DEF f
        <3> QED  BY <3>1, <3>2
    <2>2. rest \in Nat /\ f[DigitPairs].text \in Seq(Int)
        BY <2>1 DEF Pairs, Text
    <2>3. Decimal(n) = (IF rest < 10 THEN <<48 + rest>> ELSE TwoDigits(rest))
                            \o f[DigitPairs].text
        BY DEF Decimal, PairsOf
    <2> HIDE DEF f, rest
    <2>4. TwoDigits(rest) \in Seq(Int) /\ <<48 + rest>> \in Seq(Int)
        BY <2>2, TwoDigitsType DEF Text
    <2> QED  BY <2>2, <2>3, <2>4 DEF Text
<1>2. CountDigits(n) \in Nat
    <2> DEFINE K == {k \in 1..30 : n >= 2^k}
    <2>1. Cardinality(K) \in Nat
        <3>1. IsFiniteSet(1..30)
            <4>1. 1 \in Int /\ 30 \in Int
                OBVIOUS
            <4> QED  BY <4>1, FS_Interval, Zenon
        <3>2. IsFiniteSet(K)
            BY <3>1, FS_Subset
        <3> HIDE DEF K
        <3> QED  BY <3>2, FS_CardinalityType
    <2>2. BitLength(n) = 1 + Cardinality(K)
        BY DEF BitLength
    <2> DEFINE t == (BitLength(n) * 1233) \div 4096
    <2>3. t \in Nat
        <3> HIDE DEF K
        <3> QED  BY <2>1, <2>2, SMT
    <2>4. CountDigits(n) = t \/ CountDigits(n) = t + 1
        BY DEF CountDigits
    <2> HIDE DEF t
    <2> QED  BY <2>3, <2>4
<1> DEFINE size == CountDigits(n)  digits == Decimal(n)  skipped == Len(digits) - size
           at(i) == IF i + skipped \in DOMAIN digits THEN digits[i + skipped] ELSE Unwritten
<1>3. FormatDecimal(n, size) = [i \in 1..size |-> at(i)]
    BY DEF FormatDecimal
<1>4. ASSUME NEW i \in 1..size PROVE at(i) \in Int
    <2> HIDE DEF digits, size, skipped
    <2> QED  BY <1>1 DEF Text, Unwritten, digits
<1> HIDE DEF at, size
<1> QED  BY <1>2, <1>3, <1>4 DEF Text, size

ValueUpTo(digits) ==
    LET value[i \in 0..Len(digits)] ==
            IF i = 0 THEN 0 ELSE value[i - 1] * 10 + digits[i] - 48
    IN  value

\* The loop of parse_nonnegative_int.
LEMMA ValueRecursion ==
    ASSUME NEW digits \in Text
    PROVE  /\ ValueUpTo(digits) \in [0..Len(digits) -> Int]
           /\ ValueUpTo(digits)[0] = 0
           /\ \A j \in 1..Len(digits) :
                ValueUpTo(digits)[j] = ValueUpTo(digits)[j - 1] * 10 + digits[j] - 48
<1> DEFINE n == Len(digits)
           V == Int
           next(i, v) == v * 10 + digits[i] - 48
           step == [p \in (1..n) \X V |-> next(p[1], p[2])]
           body(f, j) == IF j = 0 THEN 0 ELSE next(j, f[j - 1])
<1>1. n \in Nat /\ 0 \in V
    BY DEF Text
<1>2. ASSUME NEW i \in 1..n, NEW v \in V
      PROVE  next(i, v) \in V
    BY DEF Text
<1> HIDE DEF next
<1>3. \A i \in 1..n, v \in V : step[<<i, v>>] = next(i, v)
    OBVIOUS
<1> HIDE DEF step
<1>4. StaysIn(V, n, step)
    BY <1>2, <1>3 DEF StaysIn
<1>5. PICK f \in [0..n -> V] : IsRecursion(f, n, 0, step)
    <2> HIDE DEF n, V
    <2> QED  BY <1>1, <1>4, RecursionExists
<1>6. ASSUME NEW j \in 0..n PROVE f[j] = body(f, j)
    <2>1. CASE j = 0
        BY <1>5, <2>1 DEF IsRecursion
    <2>2. CASE j # 0
        <3>1. j \in 1..n /\ j - 1 \in 0..n
            BY <1>1, <2>2
        <3>2. f[j] = step[<<j, f[j - 1]>>] /\ f[j - 1] \in V
            BY <1>5, <3>1 DEF IsRecursion
        <3> QED  BY <1>3, <2>2, <3>1, <3>2
    <2> QED  BY <2>1, <2>2
<1>7. ValueUpTo(digits) = CHOOSE g : g = [j \in 0..n |-> body(g, j)]
    BY DEF ValueUpTo, next
<1> HIDE DEF body
<1>8. f = [j \in 0..n |-> body(f, j)]
    BY <1>6
<1>9. ValueUpTo(digits) = [j \in 0..n |-> body(ValueUpTo(digits), j)]
    BY <1>7, <1>8
<1> DEFINE F == ValueUpTo(digits)
<1> HIDE DEF F
<1>10. F = [j \in 0..n |-> body(F, j)]
    BY <1>9 DEF F
<1>11. \A j \in 0..n : F[j] = body(F, j)
    BY <1>10
<1>12. F[0] = 0
    BY <1>1, <1>11 DEF body
<1>13. ASSUME NEW j \in 1..n PROVE F[j] = next(j, F[j - 1])
    <2>1. j \in 0..n /\ j # 0
        BY <1>1
    <2> QED  BY <1>11, <2>1 DEF body
<1>14. \A j \in 0..n : F[j] \in V
    <2> DEFINE T == {j \in 0..n : F[j] \in V}
    <2> HIDE DEF V
    <2>1. 0 \in T
        BY <1>1, <1>12
    <2>2. ASSUME NEW j \in 1..n, j - 1 \in T PROVE j \in T
        BY <1>1, <1>2, <1>13, <2>2
    <2>3. \A j \in 0..n : j \in T
        <3> HIDE DEF T
        <3> QED  BY <1>1, <2>1, <2>2, InductionUpTo
    <2> QED  BY <2>3
<1>15. F \in [0..n -> V]
    BY <1>10, <1>14
<1> QED  BY <1>12, <1>13, <1>15 DEF next, F


PiecesOf(format, args) ==
    LET loop[i \in 0..Len(format)] ==
            IF i = 0 THEN [at |-> 1, text |-> <<>>] ELSE NextPiece(format, args, loop[i - 1])
    IN  loop

\* The loop of BasicFormatter::Format, when it is at one of some places of the
\* format string in every turn.
LEMMA PiecesRecursion ==
    ASSUME NEW format \in Text, NEW args, NEW Stops, 1 \in Stops,
           \A d \in [at: Stops, text: Text] :
                NextPiece(format, args, d) \in [at: Stops, text: Text]
    PROVE  /\ PiecesOf(format, args) \in [0..Len(format) -> [at: Stops, text: Text]]
           /\ PiecesOf(format, args)[0] = [at |-> 1, text |-> <<>>]
           /\ \A j \in 1..Len(format) :
                PiecesOf(format, args)[j] = NextPiece(format, args, PiecesOf(format, args)[j - 1])
<1> DEFINE n == Len(format)
           V == [at: Stops, text: Text]
           next(i, v) == NextPiece(format, args, v)
           step == [p \in (1..n) \X V |-> next(p[1], p[2])]
           body(f, j) == IF j = 0 THEN [at |-> 1, text |-> <<>>] ELSE next(j, f[j - 1])
<1>1. n \in Nat /\ [at |-> 1, text |-> <<>>] \in V
    BY DEF Text
<1>2. ASSUME NEW i \in 1..n, NEW v \in V
      PROVE  next(i, v) \in V
    OBVIOUS
<1> HIDE DEF next
<1>3. \A i \in 1..n, v \in V : step[<<i, v>>] = next(i, v)
    OBVIOUS
<1> HIDE DEF step
<1>4. StaysIn(V, n, step)
    BY <1>2, <1>3 DEF StaysIn
<1>5. PICK f \in [0..n -> V] : IsRecursion(f, n, [at |-> 1, text |-> <<>>], step)
    <2> HIDE DEF n, V
    <2> QED  BY <1>1, <1>4, RecursionExists
<1>6. ASSUME NEW j \in 0..n PROVE f[j] = body(f, j)
    <2>1. CASE j = 0
        BY <1>5, <2>1 DEF IsRecursion
    <2>2. CASE j # 0
        <3>1. j \in 1..n /\ j - 1 \in 0..n
            BY <1>1, <2>2
        <3>2. f[j] = step[<<j, f[j - 1]>>] /\ f[j - 1] \in V
            BY <1>5, <3>1 DEF IsRecursion
        <3> QED  BY <1>3, <2>2, <3>1, <3>2
    <2> QED  BY <2>1, <2>2
<1>7. PiecesOf(format, args) = CHOOSE g : g = [j \in 0..n |-> body(g, j)]
    BY DEF PiecesOf, next
<1> HIDE DEF body
<1>8. f = [j \in 0..n |-> body(f, j)]
    BY <1>6
<1>9. PiecesOf(format, args) = [j \in 0..n |-> body(PiecesOf(format, args), j)]
    BY <1>7, <1>8
<1> DEFINE F == PiecesOf(format, args)
<1> HIDE DEF F
<1>10. F = [j \in 0..n |-> body(F, j)]
    BY <1>9 DEF F
<1>11. \A j \in 0..n : F[j] = body(F, j)
    BY <1>10
<1>12. F[0] = [at |-> 1, text |-> <<>>]
    BY <1>1, <1>11 DEF body
<1>13. ASSUME NEW j \in 1..n PROVE F[j] = next(j, F[j - 1])
    <2>1. j \in 0..n /\ j # 0
        BY <1>1
    <2> QED  BY <1>11, <2>1 DEF body
<1>14. \A j \in 0..n : F[j] \in V
    <2> DEFINE T == {j \in 0..n : F[j] \in V}
    <2> HIDE DEF V
    <2>1. 0 \in T
        BY <1>1, <1>12
    <2>2. ASSUME NEW j \in 1..n, j - 1 \in T PROVE j \in T
        BY <1>1, <1>2, <1>13, <2>2
    <2>3. \A j \in 0..n : j \in T
        <3> HIDE DEF T
        <3> QED  BY <1>1, <2>1, <2>2, InductionUpTo
    <2> QED  BY <2>3
<1>15. F \in [0..n -> V]
    BY <1>10, <1>14
<1> QED  BY <1>12, <1>13, <1>15 DEF next, F


StaysAt(format, args, Stops) ==
    \A d \in [at: Stops, text: Text] :
        NextPiece(format, args, d) \in [at: Stops, text: Text]
ArePieces(f, format, args, Stops) ==
    /\ f \in [0..Len(format) -> [at: Stops, text: Text]]
    /\ f[0] = [at |-> 1, text |-> <<>>]
    /\ \A j \in 1..Len(format) : f[j] = NextPiece(format, args, f[j - 1])

LEMMA PiecesAre ==
    ASSUME NEW format \in Text, NEW args, NEW Stops, 1 \in Stops,
           StaysAt(format, args, Stops)
    PROVE  ArePieces(PiecesOf(format, args), format, args, Stops)
<1>1. \A d \in [at: Stops, text: Text] :
        NextPiece(format, args, d) \in [at: Stops, text: Text]
    BY DEF StaysAt
<1> QED  BY <1>1, PiecesRecursion DEF ArePieces

LEMMA FormatType ==
    ASSUME NEW format \in Text, NEW args, NEW Stops, 1 \in Stops,
           \A d \in [at: Stops, text: Text] :
                NextPiece(format, args, d) \in [at: Stops, text: Text]
    PROVE  Format(format, args) \in Text
<1> DEFINE f == PiecesOf(format, args)
<1>1. f \in [0..Len(format) -> [at: Stops, text: Text]]
    BY PiecesRecursion
<1>2. Len(format) \in 0..Len(format)
    BY DEF Text
<1>3. Format(format, args) = f[Len(format)].text
    BY DEF Format, PiecesOf
<1> HIDE DEF f
<1> QED  BY <1>1, <1>2, <1>3

\* What stands between two places of a text is a text.
LEMMA PartType ==
    ASSUME NEW s \in Text, NEW m \in Nat \ {0}, NEW n \in Int, n <= Len(s)
    PROVE  SubSeq(s, m, n) \in Text
BY DEF Text

LEMMA ConcatType ==
    ASSUME NEW s \in Text, NEW t \in Text
    PROVE  s \o t \in Text
BY DEF Text

\* One turn of the loop, at the end of the format string and before a field.
LEMMA NoField ==
    ASSUME NEW format \in Text, NEW args, NEW at \in Nat \ {0}, NEW t \in Text,
           \A i \in at..Len(format) : format[i] \notin {OpenBrace, CloseBrace}
    PROVE  NextPiece(format, args, [at |-> at, text |-> t])
                \in [at: {Len(format) + 1}, text: Text]
<1> DEFINE d == [at |-> at, text |-> t]
           part == SubSeq(format, at, Len(format))
           new == t \o part
<1>1. { i \in d.at..Len(format) : format[i] \in {OpenBrace, CloseBrace} } = {}
    OBVIOUS
<1>2. NextPiece(format, args, d) = [at |-> Len(format) + 1, text |-> new]
    BY <1>1 DEF NextPiece
<1>3. part \in Text
    <2> Len(format) \in Nat
        BY DEF Text
    <2> QED  BY PartType
<1>4. new \in Text
    <2> HIDE DEF part
    <2> QED  BY <1>3, ConcatType
<1> HIDE DEF new
<1>5. [at |-> Len(format) + 1, text |-> new] \in [at: {Len(format) + 1}, text: Text]
    BY <1>4
<1> QED  BY <1>2, <1>5

LEMMA LeastOf ==
    ASSUME NEW S, S \subseteq Int, NEW m \in S, \A k \in S : m <= k
    PROVE  Min(S) = m
<1> DEFINE n == Min(S)
<1>1. n \in S /\ \A k \in S : n <= k
    BY DEF Min
<1> HIDE DEF n
<1>2. n <= m /\ m <= n /\ n \in Int /\ m \in Int
    BY <1>1
<1>3. n = m
    BY <1>2
<1> QED  BY <1>3 DEF n

\* A field from b to e is the first one behind at.
FieldAt(format, at, b, e) ==
    /\ b \in at..Len(format) /\ e \in b..Len(format)
    /\ \A i \in at..Len(format) : i < b => format[i] \notin {OpenBrace, CloseBrace}
    /\ \A i \in b..Len(format) : i < e => format[i] # CloseBrace
    /\ format[b] = OpenBrace /\ format[b + 1] # OpenBrace /\ format[e] = CloseBrace

FieldTurn(format, args, at, t, b, e) ==
    NextPiece(format, args, [at |-> at, text |-> t]) =
        [at |-> e + 1,
         text |-> t \o SubSeq(format, at, b - 1)
                    \o FormatField(SubSeq(format, b + 1, e - 1), args)]

LEMMA FieldPiece ==
    ASSUME NEW format \in Text, NEW args, NEW at \in Nat \ {0}, NEW t \in Text,
           NEW b, NEW e, FieldAt(format, at, b, e)
    PROVE  FieldTurn(format, args, at, t, b, e)
<1> DEFINE d == [at |-> at, text |-> t]
           braces == { i \in d.at..Len(format) : format[i] \in {OpenBrace, CloseBrace} }
           closing == { i \in b..Len(format) : format[i] = CloseBrace }
<1>0. Len(format) \in Nat /\ b \in at..Len(format) /\ e \in b..Len(format)
    BY DEF Text, FieldAt
<1>1. braces \subseteq Int /\ b \in braces /\ \A k \in braces : b <= k
    BY <1>0 DEF FieldAt
<1>2. closing \subseteq Int /\ e \in closing /\ \A k \in closing : e <= k
    BY <1>0 DEF FieldAt
<1>3. Min(braces) = b /\ Min(closing) = e
    <2> HIDE DEF braces, closing
    <2> QED  BY <1>1, <1>2, LeastOf
<1>4. braces # {}
    BY <1>1
<1>5. ~(b < Len(format) /\ format[b + 1] = format[b])
    BY DEF FieldAt
<1> QED  BY <1>3, <1>4, <1>5 DEF NextPiece, FieldTurn

LEMMA AField ==
    ASSUME NEW format \in Text, NEW args, NEW at \in Nat \ {0}, NEW t \in Text,
           NEW b \in at..Len(format), NEW e \in b..Len(format),
           \A i \in at..Len(format) :
                i < b => format[i] \notin {OpenBrace, CloseBrace},
           \A i \in b..Len(format) : i < e => format[i] # CloseBrace,
           format[b] = OpenBrace, format[b + 1] # OpenBrace, format[e] = CloseBrace,
           FormatField(SubSeq(format, b + 1, e - 1), args) \in Text
    PROVE  NextPiece(format, args, [at |-> at, text |-> t])
                \in [at: {e + 1}, text: Text]
<1> DEFINE part == SubSeq(format, at, b - 1)
           field == FormatField(SubSeq(format, b + 1, e - 1), args)
           new == t \o part \o field
<1>1. NextPiece(format, args, [at |-> at, text |-> t]) = [at |-> e + 1, text |-> new]
    <2>1. FieldAt(format, at, b, e)
        BY DEF FieldAt
    <2>2. FieldTurn(format, args, at, t, b, e)
        BY <2>1, FieldPiece, Zenon
    <2> QED  BY <2>2 DEF FieldTurn
<1>2. part \in Text
    <2>1. Len(format) \in Nat
        BY DEF Text
    <2> QED  BY <2>1, PartType
<1>3. new \in Text
    <2> HIDE DEF part, field
    <2>1. t \o part \in Text
        BY <1>2, ConcatType
    <2> QED  BY <2>1, ConcatType DEF field
<1> HIDE DEF new
<1>4. [at |-> e + 1, text |-> new] \in [at: {e + 1}, text: Text]
    BY <1>3
<1> QED  BY <1>1, <1>4

\* The fields {0} and {1}.
LEMMA OneDigit ==
    ASSUME NEW digit \in Int
    PROVE  ParseNonnegativeInt(<<digit>>) = digit - 48
<1> DEFINE digits == <<digit>>  f == ValueUpTo(digits)
<1>1. digits \in Text /\ Len(digits) = 1 /\ digits[1] = digit
    BY DEF Text
<1>2. ParseNonnegativeInt(digits) = f[Len(digits)]
    BY DEF ParseNonnegativeInt, ValueUpTo
<1> HIDE DEF digits
<1>3. f[0] = 0 /\ \A j \in 1..Len(digits) : f[j] = f[j - 1] * 10 + digits[j] - 48
    BY <1>1, ValueRecursion
<1> HIDE DEF f
<1>4. f[1] = f[0] * 10 + digits[1] - 48
    BY <1>1, <1>3
<1>5. f[1] = digit - 48
    BY <1>1, <1>3, <1>4
<1>6. ParseNonnegativeInt(digits) = digit - 48
    BY <1>1, <1>2, <1>5
<1> QED  BY <1>6 DEF digits

LEMMA FieldType ==
    ASSUME NEW args, NEW n \in 0..1,
           \/ args[n + 1] \in [kind: {"text"}, text: Text]
           \/ args[n + 1] \in [kind: {"number"}, number: Nat]
    PROVE  FormatField(<<48 + n>>, args) \in Text
<1> DEFINE field == <<48 + n>>
           type == SubSeq(field, Len(field) + 2, Len(field))
           arg == args[n + 1]
<1>1. Len(field) = 1 /\ field[1] = 48 + n
    OBVIOUS
<1>2. { i \in DOMAIN field : field[i] = Colon } = {}
    <2>1. ASSUME NEW i \in DOMAIN field PROVE field[i] # Colon
        BY DEF Colon
    <2> QED  BY <2>1
<1>3. GetArg(args, ParseNonnegativeInt(field)) = arg
    <2>1. ParseNonnegativeInt(field) = n
        BY OneDigit
    <2> HIDE DEF field
    <2> QED  BY <2>1 DEF GetArg
<1>4. FormatField(field, args) = WriteArg(arg, type)
    <2> HIDE DEF arg, field
    <2> QED  BY <1>2, <1>3 DEF FormatField
<1>5. type # <<LetterX>>
    <2>1. Len(type) = 0
        BY <1>1
    <2>2. Len(<<LetterX>>) = 1
        OBVIOUS
    <2> QED  BY <2>1, <2>2
<1> HIDE DEF type
<1>6. WriteArg(arg, type) \in Text
    <2>1. CASE arg \in [kind: {"text"}, text: Text]
        <3> HIDE DEF arg
        <3> QED  BY <2>1 DEF WriteArg
    <2>2. CASE arg \in [kind: {"number"}, number: Nat]
        <3> HIDE DEF arg
        <3>1. WriteArg(arg, type) = FormatDecimal(arg.number, CountDigits(arg.number))
            BY <1>5, <2>2 DEF WriteArg, WriteInt
        <3>2. arg.number \in Nat
            BY <2>2
        <3> QED  BY <3>1, <3>2, FormatDecimalType
    <2> QED  BY <2>1, <2>2
<1> QED  BY <1>4, <1>6

IsConcat(l, s, t) ==
    /\ l \in Text /\ Len(l) = Len(s) + Len(t)
    /\ \A i \in 1..Len(s) : l[i] = s[i]
    /\ \A i \in (Len(s) + 1)..(Len(s) + Len(t)) : l[i] = t[i - Len(s)]

LEMMA ConcatIs ==
    ASSUME NEW s \in Text, NEW t \in Text
    PROVE  IsConcat(s \o t, s, t)
BY DEF Text, IsConcat

LEMMA OneByte ==
    ASSUME NEW b \in Int
    PROVE  <<b>> \in Text /\ Len(<<b>>) = 1 /\ <<b>>[1] = b
BY DEF Text

-----------------------------------------------------------------------------
(* Numbers of nine digits at most are read back as they are written.       *)

Ten(m) ==
    IF m = 0 THEN 1 ELSE IF m = 1 THEN 10 ELSE IF m = 2 THEN 100
    ELSE IF m = 3 THEN 1000 ELSE IF m = 4 THEN 10000 ELSE IF m = 5 THEN 100000
    ELSE IF m = 6 THEN 1000000 ELSE IF m = 7 THEN 10000000
    ELSE IF m = 8 THEN 100000000 ELSE 1000000000

LEMMA TenIs ==
    ASSUME NEW m \in 0..8
    PROVE  Ten(m) \in Nat /\ Ten(m) >= 1 /\ Ten(m + 1) = 10 * Ten(m)
BY DEF Ten

Digit == 48..57

\* So many digits that are read as this number.
Reads(t, m, v) ==
    /\ t \in Seq(Digit) /\ Len(t) = m
    /\ ParseNonnegativeInt(t) = v
    /\ v \in 0..(Ten(m) - 1)

LEMMA DigitsAreText ==
    ASSUME NEW t \in Seq(Digit)
    PROVE  t \in Text
<1>1. \A b \in Digit : b \in Int
    BY DEF Digit
<1> HIDE DEF Digit
<1>2. Len(t) \in Nat /\ t = [i \in 1..Len(t) |-> t[i]]
    OBVIOUS
<1>3. \A i \in 1..Len(t) : t[i] \in Int
    BY <1>1
<1> DEFINE n == Len(t)
<1> HIDE DEF n
<1>4. n \in Nat /\ t = [i \in 1..n |-> t[i]] /\ \A i \in 1..n : t[i] \in Int
    BY <1>2, <1>3 DEF n
<1> QED  BY <1>4 DEF Text

LEMMA ReadsNothing == Reads(<<>>, 0, 0)
<1> DEFINE t == <<>>  f == ValueUpTo(t)
<1>1. t \in Seq(Digit) /\ Len(t) = 0 /\ t \in Text
    BY DEF Text
<1>2. ParseNonnegativeInt(t) = f[Len(t)]
    BY DEF ParseNonnegativeInt, ValueUpTo
<1>3. f[0] = 0
    BY <1>1, ValueRecursion
<1> HIDE DEF f, t
<1>4. Reads(t, 0, 0)
    BY <1>1, <1>2, <1>3 DEF Reads, Ten
<1> QED  BY <1>4 DEF t

LEMMA ReadsDigit ==
    ASSUME NEW t, NEW m \in 0..8, NEW v, Reads(t, m, v), NEW c \in 0..9
    PROVE  Reads(<<48 + c>> \o t, m + 1, c * Ten(m) + v)
<1> DEFINE s == <<48 + c>> \o t  f == ValueUpTo(s)  g == ValueUpTo(t)
<1>1. t \in Seq(Digit) /\ Len(t) = m /\ v \in 0..(Ten(m) - 1) /\ t \in Text
    BY DigitsAreText DEF Reads
<1>2. s \in Seq(Digit) /\ Len(s) = m + 1 /\ s[1] = 48 + c /\ s \in Text
    <2>1. 48 + c \in Digit
        BY DEF Digit
    <2>2. s \in Seq(Digit)
        <3> HIDE DEF Digit
        <3> QED  BY <1>1, <2>1
    <2>3. Len(s) = m + 1 /\ s[1] = 48 + c
        <3> HIDE DEF Digit
        <3> QED  BY <1>1
    <2> HIDE DEF s
    <2> QED  BY <2>2, <2>3, DigitsAreText
<1>3. ASSUME NEW i \in 1..m PROVE s[i + 1] = t[i]
    <2> HIDE DEF Digit
    <2> QED  BY <1>1
<1>4. ParseNonnegativeInt(s) = f[Len(s)] /\ ParseNonnegativeInt(t) = g[Len(t)]
    BY DEF ParseNonnegativeInt, ValueUpTo
<1>5. /\ f[0] = 0
      /\ \A j \in 1..Len(s) : f[j] = f[j - 1] * 10 + s[j] - 48
    <2> HIDE DEF s
    <2> QED  BY <1>2, ValueRecursion
<1>6. /\ g \in [0..Len(t) -> Int] /\ g[0] = 0
      /\ \A j \in 1..Len(t) : g[j] = g[j - 1] * 10 + t[j] - 48
    BY <1>1, ValueRecursion
<1> HIDE DEF s, f, g
<1> DEFINE T == {i \in 0..m : f[i + 1] = c * Ten(i) + g[i]}
<1>7. 0 \in T
    <2>1. f[1] = f[0] * 10 + s[1] - 48
        BY <1>2, <1>5
    <2> QED  BY <1>2, <1>5, <1>6, <2>1 DEF Ten
<1>8. ASSUME NEW i \in 1..m, i - 1 \in T PROVE i \in T
    <2>1. f[i] = c * Ten(i - 1) + g[i - 1]
        BY <1>8
    <2>2. i + 1 \in 1..Len(s) /\ i \in 1..Len(t) /\ i - 1 \in 0..8 /\ i - 1 \in 0..Len(t)
        BY <1>1, <1>2
    <2>3. f[i + 1] = f[i] * 10 + t[i] - 48 /\ g[i] = g[i - 1] * 10 + t[i] - 48
        <3>1. f[i + 1] = f[(i + 1) - 1] * 10 + s[i + 1] - 48
            BY <1>5, <2>2, Zenon
        <3>2. (i + 1) - 1 = i
            OBVIOUS
        <3>3. f[i + 1] = f[i] * 10 + s[i + 1] - 48
            BY <3>1, <3>2, Zenon
        <3>4. s[i + 1] = t[i]
            BY <1>3
        <3>5. f[i + 1] = f[i] * 10 + t[i] - 48
            BY <3>3, <3>4, Zenon
        <3>6. g[i] = g[i - 1] * 10 + t[i] - 48
            BY <1>6, <2>2, Zenon
        <3> QED  BY <3>5, <3>6
    <2>4. Ten(i) = 10 * Ten(i - 1) /\ Ten(i - 1) \in Nat
        <3> DEFINE k == i - 1
        <3>1. k \in 0..8 /\ k + 1 = i
            BY <2>2
        <3> HIDE DEF k
        <3>2. Ten(i) = 10 * Ten(k) /\ Ten(k) \in Nat
            BY <3>1, TenIs
        <3> QED  BY <3>2 DEF k
    <2>5. g[i - 1] \in Int /\ t[i] \in Int
        <3>1. t[i] \in Digit
            <4> HIDE DEF Digit
            <4> QED  BY <1>1, <2>2
        <3>2. t[i] \in Int
            BY <3>1 DEF Digit
        <3>3. g[i - 1] \in Int
            BY <1>6, <2>2, Zenon
        <3> QED  BY <3>2, <3>3
    <2>6. f[i + 1] = c * Ten(i) + g[i]
        <3> DEFINE x == Ten(i - 1)  y == g[i - 1]  z == t[i]
        <3>1. x \in Nat /\ y \in Int /\ z \in Int
            BY <2>4, <2>5
        <3> HIDE DEF x, y, z
        <3>2. (c * x + y) * 10 + z - 48 = c * (10 * x) + (y * 10 + z - 48)
            BY <3>1
        <3> QED  BY <2>1, <2>3, <2>4, <3>2 DEF x, y, z
    <2> QED  BY <2>6
<1>9. \A i \in 0..m : i \in T
    <2> HIDE DEF T
    <2>1. m \in Nat
        OBVIOUS
    <2> QED  BY <1>7, <1>8, <2>1, InductionUpTo
<1>10. f[m + 1] = c * Ten(m) + g[m]
    <2>1. m \in 0..m
        OBVIOUS
    <2> QED  BY <1>9, <2>1
<1>11. ParseNonnegativeInt(s) = c * Ten(m) + v
    BY <1>1, <1>2, <1>4, <1>10 DEF Reads
<1>12. c * Ten(m) + v \in 0..(Ten(m + 1) - 1)
    <2>1. Ten(m) \in Nat /\ Ten(m + 1) = 10 * Ten(m)
        BY TenIs
    <2> DEFINE x == Ten(m)
    <2>2. x \in Nat /\ v \in 0..(x - 1)
        BY <1>1, <2>1
    <2> HIDE DEF x
    <2>3. c * x \in Nat /\ c * x <= 9 * x
        BY <2>2
    <2>4. c * x + v \in 0..(10 * x - 1)
        <3> DEFINE y == c * x
        <3> HIDE DEF y
        <3> QED  BY <2>2, <2>3 DEF y
    <2> QED  BY <2>1, <2>4 DEF x
<1>13. Reads(s, m + 1, c * Ten(m) + v)
    BY <1>2, <1>11, <1>12 DEF Reads
<1> QED  BY <1>13 DEF s

LEMMA ReadsTwoDigits ==
    ASSUME NEW t, NEW m \in 0..7, NEW v, Reads(t, m, v), NEW p \in 0..99
    PROVE  Reads(TwoDigits(p) \o t, m + 2, p * Ten(m) + v)
<1> DEFINE a == p \div 10  b == p % 10  u == <<48 + b>> \o t
<1>1. a \in 0..9 /\ b \in 0..9 /\ p = 10 * a + b
    OBVIOUS
<1>2. TwoDigits(p) \o t = <<48 + a>> \o u
    <2>1. t \in Seq(Int)
        BY DigitsAreText DEF Reads, Text
    <2>2. TwoDigits(p) = <<48 + a, 48 + b>> /\ 48 + a \in Int /\ 48 + b \in Int
        BY <1>1 DEF TwoDigits
    <2> DEFINE x == 48 + a  y == 48 + b
    <2>3. x \in Int /\ y \in Int /\ TwoDigits(p) = <<x, y>>
        BY <2>2
    <2> HIDE DEF a, b, x, y
    <2>4. <<x, y>> \o t = <<x>> \o (<<y>> \o t)
        <3> DEFINE q == <<x>>  r == <<y>>
        <3>1. q \in Text /\ r \in Text /\ t \in Text
            BY <2>1, <2>3 DEF Text
        <3>2. <<x, y>> = q \o r
            <4>1. \A a1, a2 : a1 = <<x, y>> /\ a2 = Append(<<x>>, y) => a1 = a2
                OBVIOUS
            <4>2. Append(<<x>>, y) = <<x>> \o <<y>>
                BY <2>3, AppendIsConcat
            <4> QED  BY <4>1, <4>2
        <3> HIDE DEF q, r
        <3>3. Associates(q, r, t)
            BY <3>1, ConcatTexts
        <3>4. <<x, y>> \o t = q \o (r \o t)
            BY <3>2, <3>3 DEF Associates
        <3> QED  BY <3>4 DEF q, r
    <2> QED  BY <2>3, <2>4 DEF x, y
<1>3. Ten(m) \in Nat /\ Ten(m + 1) = 10 * Ten(m)
    BY TenIs
<1>4. v \in Int
    BY <1>3 DEF Reads
<1> HIDE DEF a, b
<1>5. Reads(u, m + 1, b * Ten(m) + v)
    BY <1>1, ReadsDigit
<1> HIDE DEF u
<1>6. Reads(<<48 + a>> \o u, m + 2, a * Ten(m + 1) + (b * Ten(m) + v))
    <2> DEFINE k == m + 1
    <2>1. k \in 0..8 /\ k + 1 = m + 2
        OBVIOUS
    <2>2. Reads(u, k, b * Ten(m) + v)
        BY <1>5
    <2> HIDE DEF k
    <2>3. Reads(<<48 + a>> \o u, k + 1, a * Ten(k) + (b * Ten(m) + v))
        BY <1>1, <2>1, <2>2, ReadsDigit
    <2> QED  BY <2>1, <2>3 DEF k
<1>7. a * Ten(m + 1) + (b * Ten(m) + v) = p * Ten(m) + v
    <2> DEFINE x == Ten(m)
    <2>1. x \in Nat
        BY <1>3
    <2> HIDE DEF x
    <2>2. a * (10 * x) + (b * x + v) = (10 * a + b) * x + v
        BY <1>1, <1>4, <2>1
    <2> QED  BY <1>1, <1>3, <2>2 DEF x
<1> QED  BY <1>2, <1>6, <1>7

\* The loop of format_decimal has so many digits of n.
Loop(n, d, m) ==
    /\ d.value \in Nat
    /\ Reads(d.text, m, n - d.value * Ten(m))
    /\ m > 0 => d.value >= 1

Billion == 1000000000

LEMMA LoopStep ==
    ASSUME NEW n \in Nat, NEW d, NEW m \in 0..6, Loop(n, d, m), d.value >= 100
    PROVE  Loop(n, NextPair(d), m + 2)
<1> DEFINE q == d.value \div 100  p == d.value % 100
<1>1. d.value \in Nat /\ q \in Nat /\ q >= 1 /\ p \in 0..99 /\ d.value = 100 * q + p
    BY DEF Loop
<1>2. NextPair(d).value = q /\ NextPair(d).text = TwoDigits(p) \o d.text
    <2>1. NextPair(d) = [value |-> q, text |-> TwoDigits(p) \o d.text]
        BY <1>1 DEF NextPair
    <2> DEFINE u == TwoDigits(p) \o d.text
    <2> HIDE DEF u, q, p
    <2>2. NextPair(d).value = q /\ NextPair(d).text = u
        BY <2>1 DEF u
    <2> QED  BY <2>2 DEF u
<1> HIDE DEF q, p
<1>3. Ten(m) \in Nat /\ Ten(m + 2) = 100 * Ten(m)
    <2> DEFINE k == m + 1
    <2>1. k \in 0..8 /\ k + 1 = m + 2 /\ m \in 0..8
        OBVIOUS
    <2> HIDE DEF k
    <2>2. Ten(k + 1) = 10 * Ten(k)
        BY <2>1, TenIs
    <2>3. Ten(m) \in Nat /\ Ten(m + 1) = 10 * Ten(m)
        BY <2>1, TenIs
    <2> QED  BY <2>1, <2>2, <2>3 DEF k
<1>4. Reads(TwoDigits(p) \o d.text, m + 2, p * Ten(m) + (n - d.value * Ten(m)))
    <2>1. Reads(d.text, m, n - d.value * Ten(m)) /\ m \in 0..7
        BY DEF Loop
    <2> QED  BY <1>1, <2>1, ReadsTwoDigits, Zenon
<1>5. p * Ten(m) + (n - d.value * Ten(m)) = n - q * Ten(m + 2)
    <2> DEFINE x == Ten(m)
    <2>1. x \in Nat
        BY <1>3
    <2> HIDE DEF x
    <2>2. p * x + (n - (100 * q + p) * x) = n - q * (100 * x)
        BY <1>1, <2>1
    <2> QED  BY <1>1, <1>3, <2>2 DEF x
<1> QED  BY <1>1, <1>2, <1>4, <1>5 DEF Loop

\* Such a number has that many digits.
HasDigits(n, m) == m \in 1..9 /\ n < Ten(m) /\ (m > 1 => n >= Ten(m - 1))

LEMMA LoopEnds ==
    ASSUME NEW n \in Nat, n < Billion
    PROVE  \E m \in {0, 2, 4, 6, 8} :
                Loop(n, PairsOf(n)[DigitPairs], m) /\ PairsOf(n)[DigitPairs].value < 100
<1> DEFINE f == PairsOf(n)
           At(i, m) == Loop(n, f[i], m) /\ (f[i].value < 100 \/ m = 2 * i)
           T == {i \in 0..DigitPairs : \E m \in {0, 2, 4, 6, 8} : At(i, m)}
<1>1. /\ f[0] = [value |-> n, text |-> <<>>]
      /\ \A j \in 1..DigitPairs : f[j] = NextPair(f[j - 1])
    BY PairsRecursion
<1> HIDE DEF f
<1>2. 0 \in T
    <2>1. Loop(n, f[0], 0)
        <3>1. f[0].value = n /\ f[0].text = <<>> /\ Ten(0) = 1
            BY <1>1 DEF Ten
        <3>2. n - f[0].value * Ten(0) = 0
            BY <3>1
        <3> QED  BY <3>1, <3>2, ReadsNothing DEF Loop
    <2>2. At(0, 0)
        BY <2>1
    <2> HIDE DEF At
    <2> QED  BY <2>2 DEF DigitPairs
<1>3. ASSUME NEW i \in 1..DigitPairs, i - 1 \in T PROVE i \in T
    <2>1. PICK m \in {0, 2, 4, 6, 8} : At(i - 1, m)
        BY <1>3
    <2>2. f[i] = NextPair(f[i - 1]) /\ f[i - 1].value \in Nat
        BY <1>1, <2>1 DEF Loop
    <2>3. CASE f[i - 1].value < 100
        <3>1. f[i] = f[i - 1]
            BY <2>2, <2>3 DEF NextPair
        <3>2. At(i, m)
            BY <2>1, <2>3, <3>1
        <3> HIDE DEF At
        <3> QED  BY <3>2
    <2>4. CASE f[i - 1].value >= 100
        <3>1. m = 2 * (i - 1) /\ Loop(n, f[i - 1], m)
            BY <2>1, <2>2, <2>4
        <3>2. m # 8
            <4> SUFFICES ASSUME m = 8 PROVE FALSE
                OBVIOUS
            <4>1. Ten(m) = 100000000
                BY DEF Ten
            <4>2. n - f[i - 1].value * Ten(m) \in 0..(Ten(m) - 1)
                BY <3>1 DEF Loop, Reads
            <4> QED  BY <2>2, <2>4, <4>1, <4>2 DEF Billion
        <3>3. m \in 0..6
            BY <3>2
        <3>4. Loop(n, f[i], m + 2)
            BY <2>2, <2>4, <3>1, <3>3, LoopStep
        <3>5. At(i, m + 2) /\ m + 2 \in {0, 2, 4, 6, 8}
            BY <3>1, <3>2, <3>4 DEF DigitPairs
        <3> HIDE DEF At
        <3> QED  BY <3>5
    <2> QED  BY <2>2, <2>3, <2>4
<1>4. \A i \in 0..DigitPairs : i \in T
    <2> HIDE DEF T
    <2>1. DigitPairs \in Nat
        BY DEF DigitPairs
    <2> QED  BY <1>2, <1>3, <2>1, InductionUpTo
<1>5. PICK m \in {0, 2, 4, 6, 8} : At(DigitPairs, m)
    <2>1. DigitPairs \in T
        <3> HIDE DEF T
        <3> QED  BY <1>4 DEF DigitPairs
    <2> QED  BY <2>1
<1>6. f[DigitPairs].value < 100
    BY <1>5 DEF DigitPairs
<1> QED  BY <1>5, <1>6 DEF f

LEMMA DecimalIsRead ==
    ASSUME NEW n \in Nat, n < Billion
    PROVE  \E m \in 1..9 : HasDigits(n, m) /\ Reads(Decimal(n), m, n)
<1> DEFINE d == PairsOf(n)[DigitPairs]  r == d.value
<1>1. PICK m \in {0, 2, 4, 6, 8} : Loop(n, d, m) /\ r < 100
    BY LoopEnds
<1>2. Decimal(n) = (IF r < 10 THEN <<48 + r>> ELSE TwoDigits(r)) \o d.text
    BY DEF Decimal, PairsOf
<1> HIDE DEF d
<1>3. /\ r \in Nat /\ (m > 0 => r >= 1)
      /\ Reads(d.text, m, n - r * Ten(m))
    BY <1>1 DEF Loop
<1> DEFINE x == Ten(m)
<1>4. x \in Nat /\ x >= 1 /\ Ten(m + 1) = 10 * x /\ n - r * x \in 0..(x - 1)
    <2>1. m \in 0..8
        OBVIOUS
    <2>2. Ten(m) \in Nat /\ Ten(m) >= 1 /\ Ten(m + 1) = 10 * Ten(m)
        BY <2>1, TenIs
    <2> HIDE DEF r
    <2> QED  BY <1>3, <2>2 DEF Reads
<1> HIDE DEF r
<1>5. CASE r < 10
    <2>1. r \in 0..9 /\ m \in 0..8
        BY <1>3, <1>5
    <2>2. Reads(<<48 + r>> \o d.text, m + 1, r * Ten(m) + (n - r * Ten(m)))
        BY <1>3, <2>1, ReadsDigit
    <2>3. r * x + (n - r * x) = n /\ n < 10 * x /\ (m > 0 => n >= x)
        <3> HIDE DEF x
        <3>1. r * x \in Nat /\ r * x <= 9 * x /\ (r >= 1 => r * x >= x)
            BY <1>4, <2>1
        <3> DEFINE y == r * x
        <3> HIDE DEF y
        <3> QED  BY <1>3, <1>4, <3>1 DEF y
    <2>4. HasDigits(n, m + 1)
        <3> HIDE DEF x
        <3>1. m + 1 \in 1..9 /\ m + 1 - 1 = m
            OBVIOUS
        <3> QED  BY <1>4, <2>3, <3>1 DEF HasDigits, x
    <2>5. Reads(Decimal(n), m + 1, n)
        BY <1>2, <1>5, <2>2, <2>3
    <2> QED  BY <2>4, <2>5
<1>6. CASE ~(r < 10)
    <2>0. r \in 10..99
        BY <1>1, <1>3, <1>6 DEF r
    <2>1. m # 8
        <3> SUFFICES ASSUME m = 8 PROVE FALSE
            OBVIOUS
        <3>1. x = 100000000
            BY DEF Ten
        <3> QED  BY <1>4, <2>0, <3>1 DEF Billion
    <2>2. m \in 0..7 /\ r \in 0..99
        BY <2>0, <2>1
    <2>3. Reads(TwoDigits(r) \o d.text, m + 2, r * Ten(m) + (n - r * Ten(m)))
        BY <1>3, <2>2, ReadsTwoDigits
    <2>4. Ten(m + 2) = 100 * x
        <3> DEFINE k == m + 1
        <3>1. k \in 0..8 /\ k + 1 = m + 2
            BY <2>2
        <3> HIDE DEF k
        <3>2. Ten(k + 1) = 10 * Ten(k)
            BY <3>1, TenIs
        <3> QED  BY <1>4, <3>1, <3>2 DEF k
    <2>5. r * x + (n - r * x) = n /\ n < 100 * x /\ n >= 10 * x
        <3> HIDE DEF x
        <3>1. r * x \in Nat /\ r * x <= 99 * x /\ r * x >= 10 * x
            BY <1>4, <2>0
        <3> DEFINE y == r * x
        <3> HIDE DEF y
        <3> QED  BY <1>3, <1>4, <3>1 DEF y
    <2>6. HasDigits(n, m + 2)
        <3> HIDE DEF x
        <3>1. m + 2 \in 1..9 /\ m + 2 - 1 = m + 1
            BY <2>2
        <3> QED  BY <1>4, <2>4, <2>5, <3>1 DEF HasDigits
    <2>7. Reads(Decimal(n), m + 2, n)
        BY <1>2, <1>6, <2>3, <2>5
    <2>8. m + 2 \in 1..9
        BY <2>2
    <2> QED  BY <2>6, <2>7, <2>8
<1> QED  BY <1>5, <1>6

\* Powers of two that 31 bits hold.
TwoTo(k) ==
    IF k = 1 THEN 2 ELSE IF k = 2 THEN 4 ELSE IF k = 3 THEN 8 ELSE
    IF k = 4 THEN 16 ELSE IF k = 5 THEN 32 ELSE IF k = 6 THEN 64 ELSE
    IF k = 7 THEN 128 ELSE IF k = 8 THEN 256 ELSE IF k = 9 THEN 512 ELSE
    IF k = 10 THEN 1024 ELSE IF k = 11 THEN 2048 ELSE IF k = 12 THEN 4096 ELSE
    IF k = 13 THEN 8192 ELSE IF k = 14 THEN 16384 ELSE IF k = 15 THEN 32768 ELSE
    IF k = 16 THEN 65536 ELSE IF k = 17 THEN 131072 ELSE IF k = 18 THEN 262144 ELSE
    IF k = 19 THEN 524288 ELSE IF k = 20 THEN 1048576 ELSE IF k = 21 THEN 2097152 ELSE
    IF k = 22 THEN 4194304 ELSE IF k = 23 THEN 8388608 ELSE IF k = 24 THEN 16777216 ELSE
    IF k = 25 THEN 33554432 ELSE IF k = 26 THEN 67108864 ELSE IF k = 27 THEN 134217728 ELSE
    IF k = 28 THEN 268435456 ELSE IF k = 29 THEN 536870912 ELSE
    1073741824

PowerIs(k) == 2^k = TwoTo(k)

LEMMA PowersAre ==
    ASSUME NEW k \in 1..30
    PROVE  2^k = TwoTo(k)
<1>1. PowerIs(1) /\ PowerIs(2) /\ PowerIs(3)
    BY DEF PowerIs, TwoTo
<1>2. PowerIs(4) /\ PowerIs(5) /\ PowerIs(6)
    BY DEF PowerIs, TwoTo
<1>3. PowerIs(7) /\ PowerIs(8) /\ PowerIs(9)
    BY DEF PowerIs, TwoTo
<1>4. PowerIs(10) /\ PowerIs(11) /\ PowerIs(12)
    BY DEF PowerIs, TwoTo
<1>5. PowerIs(13) /\ PowerIs(14) /\ PowerIs(15)
    BY DEF PowerIs, TwoTo
<1>6. PowerIs(16) /\ PowerIs(17) /\ PowerIs(18)
    BY DEF PowerIs, TwoTo
<1>7. PowerIs(19) /\ PowerIs(20) /\ PowerIs(21)
    BY DEF PowerIs, TwoTo
<1>8. PowerIs(22) /\ PowerIs(23) /\ PowerIs(24)
    BY DEF PowerIs, TwoTo
<1>9. PowerIs(25) /\ PowerIs(26) /\ PowerIs(27)
    BY DEF PowerIs, TwoTo
<1>10. PowerIs(28) /\ PowerIs(29) /\ PowerIs(30)
    BY DEF PowerIs, TwoTo
<1>11. PowerIs(k)
    BY <1>1, <1>2, <1>3, <1>4, <1>5, <1>6, <1>7, <1>8, <1>9, <1>10
<1> QED  BY <1>11 DEF PowerIs


LEMMA TensAre ==
    ASSUME NEW t \in 1..9
    PROVE  10^t = Ten(t)
<1> DEFINE Is(k) == 10^k = Ten(k)
<1>1. Is(1) /\ Is(2) /\ Is(3)
    BY DEF Ten
<1>2. Is(4) /\ Is(5) /\ Is(6)
    BY DEF Ten
<1>3. Is(7) /\ Is(8) /\ Is(9)
    BY DEF Ten
<1> HIDE DEF Is
<1>4. Is(t)
    BY <1>1, <1>2, <1>3
<1> QED  BY <1>4 DEF Is

LEMMA PowerOf10Is ==
    ASSUME NEW t \in 1..9
    PROVE  PowerOf10(t) = Ten(t)
<1>1. 10^t = Ten(t)
    BY TensAre
<1>2. PowerOf10(t) = 10^t
    <2> DEFINE x == 10^t
    <2>1. PowerOf10(t) = IF t = 0 THEN 0 ELSE x
        BY DEF PowerOf10
    <2> HIDE DEF x
    <2> QED  BY <2>1 DEF x
<1> QED  BY <1>1, <1>2

LEMMA BitLengthWithin ==
    ASSUME NEW n \in Nat, NEW low \in 0..30, NEW high \in 0..30,
           \A k \in 1..30 : k <= low => TwoTo(k) <= n,
           \A k \in 1..30 : TwoTo(k) <= n => k <= high
    PROVE  BitLength(n) \in (low + 1)..(high + 1)
<1> DEFINE K == {k \in 1..30 : n >= 2^k}  A == 1..low  B == 1..high
<1>1. \A k \in 1..30 : k \in K <=> TwoTo(k) <= n
    <2>1. ASSUME NEW k \in 1..30 PROVE 2^k = TwoTo(k) /\ TwoTo(k) \in Int
        <3>1. 2^k = TwoTo(k)
            BY PowersAre
        <3>2. TwoTo(k) \in Int
            BY DEF TwoTo
        <3> QED  BY <3>1, <3>2
    <2>2. ASSUME NEW k \in 1..30 PROVE k \in K <=> n >= 2^k
        OBVIOUS
    <2>3. ASSUME NEW k \in 1..30 PROVE k \in K <=> TwoTo(k) <= n
        <3> DEFINE x == 2^k
        <3>1. k \in K <=> n >= x
            BY <2>2
        <3>2. x = TwoTo(k) /\ TwoTo(k) \in Int
            BY <2>1
        <3> HIDE DEF K, x
        <3> QED  BY <3>1, <3>2
    <2> QED  BY <2>3
<1>2. K \subseteq 1..30
    OBVIOUS
<1>3. BitLength(n) = 1 + Cardinality(K)
    BY DEF BitLength
<1> HIDE DEF K
<1>4. A \subseteq K /\ K \subseteq B
    BY <1>1, <1>2
<1>5. IsFiniteSet(A) /\ Cardinality(A) = low
    <2>1. 1 \in Int /\ low \in Int /\ (IF 1 > low THEN 0 ELSE low - 1 + 1) = low
        OBVIOUS
    <2> QED  BY <2>1, FS_Interval
<1>6. IsFiniteSet(B) /\ Cardinality(B) = high
    <2>1. 1 \in Int /\ high \in Int /\ (IF 1 > high THEN 0 ELSE high - 1 + 1) = high
        OBVIOUS
    <2> QED  BY <2>1, FS_Interval
<1> HIDE DEF A, B
<1>7. IsFiniteSet(K) /\ Cardinality(K) <= high
    BY <1>4, <1>6, FS_Subset
<1>8. low <= Cardinality(K) /\ Cardinality(K) \in Nat
    BY <1>4, <1>5, <1>7, FS_Subset, FS_CardinalityType
<1> QED  BY <1>3, <1>7, <1>8

\* A number of m digits has so many bits.
LowBits(m) == IF m = 1 THEN 0 ELSE IF m = 2 THEN 3 ELSE IF m = 3 THEN 6
    ELSE IF m = 4 THEN 9 ELSE IF m = 5 THEN 13 ELSE IF m = 6 THEN 16
    ELSE IF m = 7 THEN 19 ELSE IF m = 8 THEN 23 ELSE 26
HighBits(m) == IF m = 9 THEN 29 ELSE LowBits(m + 1)

LEMMA DigitsAreCounted ==
    ASSUME NEW n \in Nat, NEW m, HasDigits(n, m)
    PROVE  CountDigits(n) = m
<1> DEFINE low == LowBits(m)  high == HighBits(m)
<1>1. m \in 1..9 /\ low \in 0..30 /\ high \in 0..30 /\ Ten(m) \in Nat
    BY DEF HasDigits, LowBits, HighBits, Ten
<1>2. ASSUME NEW k \in 1..30 PROVE k <= low => TwoTo(k) <= n
    <2>1. m > 1 => n >= Ten(m - 1)
        BY DEF HasDigits
    <2>2. k <= low => m > 1 /\ TwoTo(k) <= Ten(m - 1) /\ TwoTo(k) \in Int /\ Ten(m - 1) \in Int
        BY <1>1 DEF LowBits, TwoTo, Ten
    <2> QED  BY <2>1, <2>2
<1>3. ASSUME NEW k \in 1..30 PROVE TwoTo(k) <= n => k <= high
    <2>1. n < Ten(m)
        BY DEF HasDigits
    <2>2. k > high => TwoTo(k) >= Ten(m) /\ TwoTo(k) \in Int
        BY <1>1 DEF HighBits, LowBits, TwoTo, Ten
    <2> QED  BY <1>1, <2>1, <2>2
<1>4. BitLength(n) \in (low + 1)..(high + 1)
    <2> HIDE DEF low, high
    <2> QED  BY <1>1, <1>2, <1>3, BitLengthWithin
<1> DEFINE t == (BitLength(n) * 1233) \div 4096
<1>5. t \in {m - 1, m}
    <2> DEFINE b == BitLength(n)
    <2> HIDE DEF b
    <2>1. b \in (low + 1)..(high + 1)
        BY <1>4 DEF b
    <2>2. (b * 1233) \div 4096 \in {m - 1, m}
        BY <1>1, <2>1 DEF LowBits, HighBits
    <2> QED  BY <2>2 DEF b
<1>6. CountDigits(n) = IF n < PowerOf10(t) THEN t ELSE t + 1
    BY DEF CountDigits
<1> HIDE DEF t
<1>7. CASE t = m
    <2>1. PowerOf10(t) = Ten(m)
        BY <1>1, <1>7, PowerOf10Is
    <2> QED  BY <1>6, <1>7, <2>1 DEF HasDigits
<1>8. CASE t = m - 1
    <2>1. n >= PowerOf10(t)
        <3>1. CASE m = 1
            BY <1>8, <3>1 DEF PowerOf10
        <3>2. CASE m > 1
            <4>1. t \in 1..9
                BY <1>1, <1>8, <3>2
            <4>2. PowerOf10(t) = Ten(m - 1)
                BY <1>8, <4>1, PowerOf10Is
            <4> QED  BY <3>2, <4>2 DEF HasDigits
        <3> QED  BY <1>1, <3>1, <3>2
    <2>2. PowerOf10(t) \in Int
        <3>1. CASE t = 0
            BY <3>1 DEF PowerOf10
        <3>2. CASE t \in 1..9
            <4>1. PowerOf10(t) = Ten(t)
                BY <3>2, PowerOf10Is
            <4> QED  BY <4>1 DEF Ten
        <3> QED  BY <1>1, <1>8, <3>1, <3>2
    <2>3. ~(n < PowerOf10(t))
        <3> DEFINE p == PowerOf10(t)
        <3> HIDE DEF p
        <3>1. n >= p /\ p \in Int
            BY <2>1, <2>2 DEF p
        <3>2. ~(n < p)
            BY <3>1
        <3> QED  BY <3>2 DEF p
    <2> QED  BY <1>1, <1>6, <1>8, <2>3
<1> QED  BY <1>5, <1>7, <1>8

\* WriteInt of a number that has a place in a key.
THEOREM NumbersAreRead ==
    ASSUME NEW n \in Nat, n < Billion
    PROVE  /\ CountDigits(n) \in 1..9
           /\ FormatDecimal(n, CountDigits(n)) = Decimal(n)
           /\ Reads(Decimal(n), CountDigits(n), n)
<1>1. PICK m \in 1..9 : HasDigits(n, m) /\ Reads(Decimal(n), m, n)
    BY DecimalIsRead
<1>2. CountDigits(n) = m
    BY <1>1, DigitsAreCounted
<1> DEFINE digits == Decimal(n)
<1>3. digits \in Seq(Digit) /\ Len(digits) = m
    BY <1>1 DEF Reads
<1>4. FormatDecimal(n, m) =
        [i \in 1..m |-> IF i + (Len(digits) - m) \in DOMAIN digits
                        THEN digits[i + (Len(digits) - m)] ELSE Unwritten]
    BY DEF FormatDecimal
<1> HIDE DEF digits
<1>5. \A i \in 1..m : i + (Len(digits) - m) = i /\ i \in DOMAIN digits
    BY <1>3
<1>6. FormatDecimal(n, m) = [i \in 1..m |-> digits[i]]
    BY <1>4, <1>5
<1>7. digits = [i \in 1..m |-> digits[i]]
    <2> HIDE DEF Digit
    <2> QED  BY <1>3
<1> QED  BY <1>1, <1>2, <1>6, <1>7 DEF digits

-----------------------------------------------------------------------------
(* Where the parts of a text are.                                          *)

EndsOf(ss) == [j \in 0..Len(ss) |-> IF j = 0 THEN 0 ELSE Len(Flattened(ss)[j])]

\* The part j is in l behind e[j - 1] and up to e[j].
IsFlat(l, ss, e) ==
    /\ l \in Text /\ e \in [0..Len(ss) -> Nat] /\ e[0] = 0 /\ e[Len(ss)] = Len(l)
    /\ \A j \in 1..Len(ss) : e[j] = e[j - 1] + Len(ss[j]) /\ e[j] <= Len(l)
    /\ \A j \in 1..Len(ss) : \A i \in 1..Len(ss[j]) : l[e[j - 1] + i] = ss[j][i]

LEMMA FlattenParts ==
    ASSUME NEW ss \in Seq(Text)
    PROVE  IsFlat(FlattenSeq(ss), ss, EndsOf(ss))
<1> DEFINE n == Len(ss)  l == FlattenSeq(ss)  e == EndsOf(ss)
           g == [j \in 0..n |-> IF j = 0 THEN <<>> ELSE Flattened(ss)[j]]
<1>1. n \in Nat /\ ss \in Seq(Seq(Int)) /\ <<>> \in Text /\ Len(<<>>) = 0
    BY DEF Text
<1>2. l \in Text /\ l = g[n] /\ g \in [0..n -> Text]
    <2>1. CASE n = 0
        <3>1. l = <<>>
            BY <1>1, <2>1, FlattenIs
        <3>2. g = [j \in 0..n |-> <<>>]
            BY <2>1
        <3> QED  BY <1>1, <2>1, <3>1, <3>2
    <2>2. CASE n > 0
        <3>1. l = Flattened(ss)[n] /\ Flattened(ss) \in [1..n -> Text]
            BY <1>1, <2>2, FlattenIs, FlattenRecursion DEF Text
        <3>2. \A j \in 0..n : g[j] \in Text
            <4>1. \A j \in 0..n : j # 0 => j \in 1..n
                OBVIOUS
            <4> QED  BY <1>1, <3>1, <4>1
        <3> QED  BY <1>1, <2>2, <3>1, <3>2
    <2> QED  BY <1>1, <2>1, <2>2
<1>3. ASSUME NEW j \in 1..n PROVE IsConcat(g[j], g[j - 1], ss[j])
    <2>1. ss[j] \in Text /\ n > 0
        BY <1>1
    <2>2. g[j] = g[j - 1] \o ss[j]
        <3>1. CASE j = 1
            <4>1. Flattened(ss)[1] = ss[1]
                BY <1>1, <2>1, FlattenRecursion
            <4>2. <<>> \o ss[1] = ss[1]
                BY <2>1, <3>1, ConcatEmptySeq DEF Text
            <4> QED  BY <3>1, <4>1, <4>2
        <3>2. CASE j # 1
            <4>1. j \in 2..n /\ j - 1 \in 1..n
                BY <1>1, <3>2
            <4>2. Flattened(ss)[j] = Flattened(ss)[j - 1] \o ss[j]
                BY <1>1, <2>1, <4>1, FlattenRecursion
            <4>3. /\ j \in 0..n /\ j # 0 /\ j - 1 \in 0..n /\ j - 1 # 0
                BY <1>1, <4>1
            <4>4. g[j] = Flattened(ss)[j] /\ g[j - 1] = Flattened(ss)[j - 1]
                BY <4>3
            <4> QED  BY <4>2, <4>4
        <3> QED  BY <3>1, <3>2
    <2> HIDE DEF g
    <2>3. g[j - 1] \in Text
        <3>1. j - 1 \in 0..n
            BY <1>1
        <3> QED  BY <1>2, <3>1, Zenon
    <2>4. IsConcat(g[j - 1] \o ss[j], g[j - 1], ss[j])
        BY <2>1, <2>3, ConcatIs, Zenon
    <2> QED  BY <2>2, <2>4
<1>4. \A j \in 0..n : e[j] = Len(g[j])
    BY <1>1 DEF EndsOf
<1>5. e = [j \in 0..n |-> e[j]]
    BY DEF EndsOf
<1> HIDE DEF g, l, e
<1>6. \A j \in 0..n : e[j] \in Nat
    BY <1>2, <1>4 DEF Text
<1>7. e \in [0..n -> Nat]
    BY <1>5, <1>6
<1> DEFINE Holds(j) == \A k \in 1..j : e[k] = e[k - 1] + Len(ss[k]) /\ e[k] <= e[j]
                        /\ \A i \in 1..Len(ss[k]) : g[j][e[k - 1] + i] = ss[k][i]
           T == {j \in 0..n : Holds(j)}
<1>8. 0 \in T
    BY <1>1
<1>9. ASSUME NEW j \in 1..n, j - 1 \in T PROVE j \in T
    <2>1. j - 1 \in 0..n /\ j \in 0..n /\ Holds(j - 1)
        BY <1>1, <1>9
    <2>2. ss[j] \in Text /\ Len(ss[j]) \in Nat
        BY <1>1 DEF Text
    <2>3. e[j] = e[j - 1] + Len(ss[j])
        BY <1>3, <1>4, <2>1 DEF IsConcat
    <2>4. e[j - 1] \in Nat /\ e[j] \in Nat /\ e[j - 1] <= e[j]
        BY <1>6, <2>1, <2>2, <2>3
    <2>5. \A i \in 1..e[j - 1] : g[j][i] = g[j - 1][i]
        BY <1>3, <1>4, <2>1 DEF IsConcat
    <2>6. \A i \in 1..Len(ss[j]) : g[j][e[j - 1] + i] = ss[j][i]
        <3> TAKE i \in 1..Len(ss[j])
        <3> DEFINE p == e[j - 1]  m == Len(ss[j])
        <3>1. p \in Nat /\ p = Len(g[j - 1]) /\ m \in Nat /\ i \in 1..m
            BY <1>4, <2>1, <2>2, <2>4
        <3>2. \A k \in (p + 1)..(p + m) : g[j][k] = ss[j][k - p]
            BY <1>3, <3>1 DEF IsConcat
        <3> HIDE DEF p, m
        <3>3. p + i \in (p + 1)..(p + m) /\ (p + i) - p = i
            BY <3>1
        <3>4. g[j][p + i] = ss[j][i]
            BY <3>2, <3>3
        <3> QED  BY <3>4 DEF p
    <2>7. ASSUME NEW k \in 1..j
          PROVE  /\ e[k] = e[k - 1] + Len(ss[k]) /\ e[k] <= e[j]
                 /\ \A i \in 1..Len(ss[k]) : g[j][e[k - 1] + i] = ss[k][i]
        <3>1. CASE k = j
            BY <2>3, <2>4, <2>6, <3>1
        <3>2. CASE k # j
            <4>1. k \in 1..(j - 1) /\ k \in 0..n /\ k - 1 \in 0..n /\ k \in 1..n
                BY <1>1, <3>2
            <4>2. e[k] = e[k - 1] + Len(ss[k]) /\ e[k] <= e[j - 1]
                BY <2>1, <4>1
            <4>3. e[k] \in Nat /\ e[k - 1] \in Nat
                BY <1>6, <4>1
            <4>4. Len(ss[k]) \in Nat
                BY <1>1, <4>1
            <4>5. ASSUME NEW i \in 1..Len(ss[k]) PROVE g[j][e[k - 1] + i] = ss[k][i]
                <5>1. e[k - 1] + i \in 1..e[j - 1]
                    <6> DEFINE a == e[k - 1]  b == Len(ss[k])  c == e[k]  d == e[j - 1]
                    <6>1. /\ a \in Nat /\ b \in Nat /\ c \in Nat /\ d \in Nat
                          /\ c = a + b /\ c <= d /\ i \in 1..b
                        BY <2>4, <4>2, <4>3, <4>4
                    <6> HIDE DEF a, b, c, d
                    <6>2. a + i \in 1..d
                        BY <6>1
                    <6> QED  BY <6>2 DEF a, d
                <5>2. g[j - 1][e[k - 1] + i] = ss[k][i]
                    BY <2>1, <4>1
                <5> QED  BY <2>5, <5>1, <5>2
            <4> QED  BY <2>4, <4>2, <4>3, <4>5
        <3> QED  BY <3>1, <3>2
    <2>8. Holds(j)
        BY <2>7
    <2> HIDE DEF Holds
    <2> QED  BY <2>1, <2>8
<1>10. Holds(n)
    <2> HIDE DEF Holds
    <2>1. \A j \in 0..n : j \in T
        <3> HIDE DEF T
        <3> QED  BY <1>1, <1>8, <1>9, InductionUpTo
    <2> QED  BY <1>1, <2>1
<1>11. e[0] = 0 /\ e[n] = Len(l) /\ g[n] = l
    BY <1>1, <1>2, <1>4 DEF g
<1>12. \A j \in 1..n : e[j] = e[j - 1] + Len(ss[j]) /\ e[j] <= Len(l)
    BY <1>10, <1>11
<1>13. \A j \in 1..n : \A i \in 1..Len(ss[j]) : l[e[j - 1] + i] = ss[j][i]
    BY <1>10, <1>11
<1>14. IsFlat(l, ss, e)
    BY <1>2, <1>7, <1>11, <1>12, <1>13 DEF IsFlat
<1> QED  BY <1>14 DEF l, e
=============================================================================
