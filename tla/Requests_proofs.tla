-------------------------- MODULE Requests_proofs --------------------------
(***************************************************************************)
(* What is proved about Requests: half a GET is refused, and a request is  *)
(* understood as it was meant, for any words, gaps, endings and offers.    *)
(*                                                                         *)
(* An id is written and read digit by digit (HexadecimalIsRead), and a GET *)
(* has its three values where its marks are (Layout, Marks).  Inductive    *)
(* are the types (Typed), what is split off (BeforeVersion, NamesKept),    *)
(* the bytes unescaped of each value (Decoded), the words read of a text   *)
(* that spells them (Reading), and what is seen and what is left of what   *)
(* was sent (Understood).                                                  *)
(***************************************************************************)
EXTENDS Requests, Format_proofs

-----------------------------------------------------------------------------
(* Bytes. *)

ByteText == Seq(Bytes)
Line == Seq(ByteText) \ {<<>>}

LEMMA BytesAreText ==
    ASSUME NEW s \in ByteText
    PROVE  s \in Text
<1>1. Bytes \subseteq Int
    BY DEF Bytes
<1> QED  BY <1>1, SeqMonotonic DEF ByteText, Text

IsPart(p, s, m, n) ==
    /\ p \in Text /\ Len(p) = n - m + 1
    /\ \A i \in 1..(n - m + 1) : p[i] = s[m + i - 1]

LEMMA PartIs ==
    ASSUME NEW s \in Text, NEW m \in Nat, m > 0, NEW n \in Nat, m <= n + 1, n <= Len(s)
    PROVE  IsPart(SubSeq(s, m, n), s, m, n)
BY DEF IsPart, Text

LEMMA ByteConcat ==
    ASSUME NEW s \in ByteText, NEW t \in ByteText
    PROVE  s \o t \in ByteText
BY DEF ByteText

-----------------------------------------------------------------------------
(* The digits of an id, as they are written and as they are read.          *)

Ids == 0..MaxId

LEMMA IdIs ==
    ASSUME NEW n \in Ids
    PROVE  n \in Nat /\ n <= MaxId
<1>1. MaxId \in Nat
    BY SMT DEF MaxId
<1>2. ASSUME NEW m \in Nat, NEW k \in 0..m PROVE k \in Nat /\ k <= m
    OBVIOUS
<1> QED  BY <1>1, <1>2 DEF Ids

HexState == [value: Nat, text: Seq(HexDigits)]

LEMMA HexDigitsAreRead ==
    ASSUME NEW n \in 0..15
    PROVE  LowerHexDigit(n) \in HexDigits /\ HexDigit(LowerHexDigit(n)) = n
<1>1. CASE n < 10
    <2>1. LowerHexDigit(n) = 48 + n
        BY <1>1 DEF LowerHexDigit
    <2>2. 48 + n \in Digits
        BY <1>1 DEF Digits
    <2> QED  BY <2>1, <2>2 DEF HexDigits, HexDigit
<1>2. CASE ~(n < 10)
    <2>1. LowerHexDigit(n) = 87 + n
        BY <1>2 DEF LowerHexDigit
    <2>2. 87 + n \in 97..102 /\ 87 + n \notin Digits
        BY <1>2 DEF Digits
    <2> QED  BY <2>1, <2>2 DEF HexDigits, HexDigit
<1> QED  BY <1>1, <1>2

LEMMA AddHexDigitIs ==
    ASSUME NEW d \in HexState
    PROVE  /\ AddHexDigit(d) \in HexState
           /\ AddHexDigit(d).value = d.value \div 16
           /\ Len(AddHexDigit(d).text) = Len(d.text) + 1
           /\ HexDigit(AddHexDigit(d).text[1]) = d.value % 16
           /\ \A i \in 1..Len(d.text) : AddHexDigit(d).text[i + 1] = d.text[i]
<1> DEFINE q == d.value \div 16  r == d.value % 16  c == LowerHexDigit(r)
           t == <<c>> \o d.text
<1>1. q \in Nat /\ r \in 0..15 /\ d.text \in Seq(HexDigits)
    <2>1. d.value \in Nat /\ d.text \in Seq(HexDigits)
        BY Zenon DEF HexState
    <2>2. \A n \in Nat : n \div 16 \in Nat /\ n % 16 \in 0..15
        OBVIOUS
    <2> QED  BY <2>1, <2>2
<1>2. c \in HexDigits /\ HexDigit(c) = r
    <2> HIDE DEF r
    <2> QED  BY <1>1, HexDigitsAreRead
<1>3. AddHexDigit(d) = [value |-> q, text |-> t]
    BY DEF AddHexDigit
<1> HIDE DEF q, r, c
<1>4. /\ t \in Seq(HexDigits) /\ Len(t) = Len(d.text) + 1 /\ t[1] = c
      /\ \A i \in 1..Len(d.text) : t[i + 1] = d.text[i]
    BY <1>1, <1>2
<1> HIDE DEF t
<1> QED  BY <1>1, <1>2, <1>3, <1>4 DEF HexState, q, r

LEMMA NextHexDigitType ==
    ASSUME NEW d \in HexState
    PROVE  NextHexDigit(d) \in HexState
BY AddHexDigitIs DEF NextHexDigit

LEMMA FirstHexDigit ==
    ASSUME NEW n \in Nat
    PROVE  [value |-> n, text |-> <<>>] \in HexState
BY DEF HexState

HexLoop(n) ==
    LET loop[i \in 0..HexTurns] ==
            IF i = 0 THEN AddHexDigit([value |-> n, text |-> <<>>])
            ELSE NextHexDigit(loop[i - 1])
    IN  loop

\* The loop of write_int for hexadecimal digits.
LEMMA HexRecursion ==
    ASSUME NEW n0 \in Nat
    PROVE  /\ HexLoop(n0) \in [0..HexTurns -> HexState]
           /\ HexLoop(n0)[0] = AddHexDigit([value |-> n0, text |-> <<>>])
           /\ \A j \in 1..HexTurns :
                HexLoop(n0)[j] = NextHexDigit(HexLoop(n0)[j - 1])
<1> DEFINE n == HexTurns
           V == HexState
           next(i, v) == NextHexDigit(v)
           step == [p \in (1..n) \X V |-> next(p[1], p[2])]
           body(f, j) == IF j = 0 THEN AddHexDigit([value |-> n0, text |-> <<>>]) ELSE next(j, f[j - 1])
<1>1. n \in Nat /\ AddHexDigit([value |-> n0, text |-> <<>>]) \in V
    BY FirstHexDigit, AddHexDigitIs DEF HexTurns
<1>2. ASSUME NEW i \in 1..n, NEW v \in V
      PROVE  next(i, v) \in V
    BY NextHexDigitType
<1> HIDE DEF next
<1>3. \A i \in 1..n, v \in V : step[<<i, v>>] = next(i, v)
    OBVIOUS
<1> HIDE DEF step
<1>4. StaysIn(V, n, step)
    BY <1>2, <1>3 DEF StaysIn
<1>5. PICK f \in [0..n -> V] : IsRecursion(f, n, AddHexDigit([value |-> n0, text |-> <<>>]), step)
    <2> HIDE DEF n, V
    <2> QED  BY <1>1, <1>4, RecursionExists
<1>6. ASSUME NEW j \in 0..n PROVE f[j] = body(f, j)
    <2>1. CASE j = 0
        BY <1>5, <2>1 DEF IsRecursion
    <2>2. CASE j # 0
        <3>1. j \in 1..n /\ j - 1 \in 0..n
            BY <1>1, <2>2
        <3>2. f[j] = step[<<j, f[j - 1]>>] /\ f[j - 1] \in V
            BY <1>5, <3>1 DEF IsRecursion
        <3> QED  BY <1>3, <2>2, <3>1, <3>2
    <2> QED  BY <2>1, <2>2
<1>7. HexLoop(n0) = CHOOSE g : g = [j \in 0..n |-> body(g, j)]
    BY DEF HexLoop, next
<1> HIDE DEF body
<1>8. f = [j \in 0..n |-> body(f, j)]
    BY <1>6
<1>9. HexLoop(n0) = [j \in 0..n |-> body(HexLoop(n0), j)]
    BY <1>7, <1>8
<1> DEFINE F == HexLoop(n0)
<1> HIDE DEF F
<1>10. F = [j \in 0..n |-> body(F, j)]
    BY <1>9 DEF F
<1>11. \A j \in 0..n : F[j] = body(F, j)
    BY <1>10
<1>12. F[0] = AddHexDigit([value |-> n0, text |-> <<>>])
    BY <1>1, <1>11 DEF body
<1>13. ASSUME NEW j \in 1..n PROVE F[j] = next(j, F[j - 1])
    <2>1. j \in 0..n /\ j # 0
        BY <1>1
    <2> QED  BY <1>11, <2>1 DEF body
<1>14. \A j \in 0..n : F[j] \in V
    <2> DEFINE T == {j \in 0..n : F[j] \in V}
    <2> HIDE DEF V
    <2>1. 0 \in T
        BY <1>1, <1>12
    <2>2. ASSUME NEW j \in 1..n, j - 1 \in T PROVE j \in T
        BY <1>1, <1>2, <1>13, <2>2
    <2>3. \A j \in 0..n : j \in T
        <3> HIDE DEF T
        <3> QED  BY <1>1, <2>1, <2>2, InductionUpTo
    <2> QED  BY <2>3
<1>15. F \in [0..n -> V]
    BY <1>10, <1>14
<1> QED  BY <1>12, <1>13, <1>15 DEF next, F

HexUpTo(word) ==
    LET number[i \in 0..Len(word)] ==
            IF i = 0 THEN 0 ELSE 16 * number[i - 1] + HexDigit(word[i])
    IN  number

LEMMA HexDigitType ==
    ASSUME NEW c \in Int
    PROVE  HexDigit(c) \in Int
BY DEF HexDigit

\* The loop of std::stoul with base 16.
LEMMA HexUpToRecursion ==
    ASSUME NEW word \in Text
    PROVE  /\ HexUpTo(word) \in [0..Len(word) -> Int]
           /\ HexUpTo(word)[0] = 0
           /\ \A j \in 1..Len(word) :
                HexUpTo(word)[j] = 16 * HexUpTo(word)[j - 1] + HexDigit(word[j])
<1> DEFINE n == Len(word)
           V == Int
           next(i, v) == 16 * v + HexDigit(word[i])
           step == [p \in (1..n) \X V |-> next(p[1], p[2])]
           body(f, j) == IF j = 0 THEN 0 ELSE next(j, f[j - 1])
<1>1. n \in Nat /\ 0 \in V
    BY DEF Text
<1>2. ASSUME NEW i \in 1..n, NEW v \in V
      PROVE  next(i, v) \in V
    <2> word[i] \in Int
        BY DEF Text
    <2>1. HexDigit(word[i]) \in Int
        BY HexDigitType
    <2> DEFINE x == HexDigit(word[i])
    <2> HIDE DEF x
    <2>2. 16 * v + x \in Int
        BY <2>1 DEF x
    <2> QED  BY <2>2 DEF x
<1> HIDE DEF next
<1>3. \A i \in 1..n, v \in V : step[<<i, v>>] = next(i, v)
    OBVIOUS
<1> HIDE DEF step
<1>4. StaysIn(V, n, step)
    BY <1>2, <1>3 DEF StaysIn
<1>5. PICK f \in [0..n -> V] : IsRecursion(f, n, 0, step)
    <2> HIDE DEF n, V
    <2> QED  BY <1>1, <1>4, RecursionExists
<1>6. ASSUME NEW j \in 0..n PROVE f[j] = body(f, j)
    <2>1. CASE j = 0
        BY <1>5, <2>1 DEF IsRecursion
    <2>2. CASE j # 0
        <3>1. j \in 1..n /\ j - 1 \in 0..n
            BY <1>1, <2>2
        <3>2. f[j] = step[<<j, f[j - 1]>>] /\ f[j - 1] \in V
            BY <1>5, <3>1 DEF IsRecursion
        <3> QED  BY <1>3, <2>2, <3>1, <3>2
    <2> QED  BY <2>1, <2>2
<1>7. HexUpTo(word) = CHOOSE g : g = [j \in 0..n |-> body(g, j)]
    BY DEF HexUpTo, next
<1> HIDE DEF body
<1>8. f = [j \in 0..n |-> body(f, j)]
    BY <1>6
<1>9. HexUpTo(word) = [j \in 0..n |-> body(HexUpTo(word), j)]
    BY <1>7, <1>8
<1> DEFINE F == HexUpTo(word)
<1> HIDE DEF F
<1>10. F = [j \in 0..n |-> body(F, j)]
    BY <1>9 DEF F
<1>11. \A j \in 0..n : F[j] = body(F, j)
    BY <1>10
<1>12. F[0] = 0
    BY <1>1, <1>11 DEF body
<1>13. ASSUME NEW j \in 1..n PROVE F[j] = next(j, F[j - 1])
    <2>1. j \in 0..n /\ j # 0
        BY <1>1
    <2> QED  BY <1>11, <2>1 DEF body
<1>14. \A j \in 0..n : F[j] \in V
    <2> DEFINE T == {j \in 0..n : F[j] \in V}
    <2> HIDE DEF V
    <2>1. 0 \in T
        BY <1>1, <1>12
    <2>2. ASSUME NEW j \in 1..n, j - 1 \in T PROVE j \in T
        BY <1>1, <1>2, <1>13, <2>2
    <2>3. \A j \in 0..n : j \in T
        <3> HIDE DEF T
        <3> QED  BY <1>1, <2>1, <2>2, InductionUpTo
    <2> QED  BY <2>3
<1>15. F \in [0..n -> V]
    BY <1>10, <1>14
<1> QED  BY <1>12, <1>13, <1>15 DEF next, F

\* The digits of text, read on from v, are n.
ReadsAs(text, v, n) ==
    \E g \in [0..Len(text) -> Int] :
        /\ g[0] = v /\ g[Len(text)] = n
        /\ \A j \in 1..Len(text) : g[j] = 16 * g[j - 1] + HexDigit(text[j])

LEMMA NothingToRead ==
    ASSUME NEW n \in Nat
    PROVE  ReadsAs(<<>>, n, n)
<1> DEFINE g == [i \in 0..0 |-> n]
<1>1. g \in [0..0 -> Int] /\ g[0] = n /\ Len(<<>>) = 0
    OBVIOUS
<1> HIDE DEF g
<1>2. g \in [0..Len(<<>>) -> Int] /\ g[Len(<<>>)] = n
    BY <1>1
<1>3. \A j \in 1..Len(<<>>) : g[j] = 16 * g[j - 1] + HexDigit(<<>>[j])
    BY <1>1
<1> QED  BY <1>1, <1>2, <1>3 DEF ReadsAs

LEMMA ReadBefore ==
    ASSUME NEW d \in HexState, NEW n \in Int, ReadsAs(d.text, d.value, n)
    PROVE  ReadsAs(AddHexDigit(d).text, AddHexDigit(d).value, n)
<1> DEFINE e == AddHexDigit(d)  m == Len(d.text)  t == d.text  v == d.value
<1>1. /\ e \in HexState /\ e.value = v \div 16 /\ Len(e.text) = m + 1
      /\ HexDigit(e.text[1]) = v % 16 /\ \A i \in 1..m : e.text[i + 1] = t[i]
    BY AddHexDigitIs
<1>2. m \in Nat /\ v \in Nat
    BY DEF HexState
<1>3. PICK g \in [0..m -> Int] :
            /\ g[0] = v /\ g[m] = n
            /\ \A j \in 1..m : g[j] = 16 * g[j - 1] + HexDigit(t[j])
    BY DEF ReadsAs
<1> HIDE DEF e, m, t, v
<1> DEFINE h == [j \in 0..(m + 1) |-> IF j = 0 THEN v \div 16 ELSE g[j - 1]]
<1>4. h \in [0..(m + 1) -> Int] /\ h[0] = v \div 16 /\ h[m + 1] = n
    BY <1>2, <1>3
<1>5. \A j \in 1..(m + 1) : h[j] = g[j - 1]
    OBVIOUS
<1> HIDE DEF h
<1>6. ASSUME NEW j \in 1..(m + 1) PROVE h[j] = 16 * h[j - 1] + HexDigit(e.text[j])
    <2>1. CASE j = 1
        <3>1. h[1] = v
            BY <1>2, <1>3, <1>5
        <3>2. v = 16 * (v \div 16) + (v % 16)
            BY <1>2
        <3> QED  BY <1>1, <1>4, <2>1, <3>1, <3>2
    <2>2. CASE j # 1
        <3>1. j - 1 \in 1..m /\ (j - 1) + 1 = j
            BY <1>2, <2>2
        <3>2. h[j] = g[j - 1] /\ h[j - 1] = g[(j - 1) - 1]
            BY <1>2, <1>5, <3>1
        <3>3. e.text[j] = t[j - 1]
            BY <1>1, <3>1
        <3>4. g[j - 1] = 16 * g[(j - 1) - 1] + HexDigit(t[j - 1])
            BY <1>3, <3>1
        <3> QED  BY <3>2, <3>3, <3>4
    <2> QED  BY <2>1, <2>2
<1>7. ReadsAs(e.text, e.value, n)
    BY <1>1, <1>4, <1>6 DEF ReadsAs
<1> QED  BY <1>7 DEF e

LEMMA ReadWhole ==
    ASSUME NEW text \in Seq(HexDigits), NEW n \in Int, ReadsAs(text, 0, n)
    PROVE  HexNumber(text) = n
<1> DEFINE m == Len(text)  f == HexUpTo(text)
<1>1. m \in Nat /\ text \in Text
    <2>1. HexDigits \subseteq Int
        BY DEF HexDigits, Digits
    <2>2. text \in Text
        BY <2>1, SeqMonotonic DEF Text
    <2> QED  BY <2>2
<1>2. f[0] = 0 /\ \A j \in 1..m : f[j] = 16 * f[j - 1] + HexDigit(text[j])
    BY <1>1, HexUpToRecursion
<1>3. PICK g \in [0..m -> Int] :
            /\ g[0] = 0 /\ g[m] = n
            /\ \A j \in 1..m : g[j] = 16 * g[j - 1] + HexDigit(text[j])
    BY DEF ReadsAs
<1>4. {i \in DOMAIN text : text[i] \notin HexDigits} = {}
    OBVIOUS
<1>5. HexNumber(text) = f[m]
    BY <1>4 DEF HexNumber, HexUpTo
<1> HIDE DEF f, m
<1> DEFINE T == {j \in 0..m : f[j] = g[j]}
<1>6. 0 \in T
    BY <1>1, <1>2, <1>3
<1>7. ASSUME NEW j \in 1..m, j - 1 \in T PROVE j \in T
    <2>1. f[j] = 16 * f[j - 1] + HexDigit(text[j]) /\ g[j] = 16 * g[j - 1] + HexDigit(text[j])
        BY <1>2, <1>3
    <2>2. f[j - 1] = g[j - 1]
        BY <1>7
    <2>3. f[j] = g[j] /\ j \in 0..m
        BY <1>1, <2>1, <2>2
    <2> QED  BY <2>3
<1>8. \A j \in 0..m : j \in T
    <2> HIDE DEF T
    <2> QED  BY <1>1, <1>6, <1>7, InductionUpTo
<1>9. f[m] = g[m]
    BY <1>1, <1>8
<1> QED  BY <1>3, <1>5, <1>9

\* The bits of an id are used up after eight digits.
LEMMA DigitsEnd ==
    ASSUME NEW n \in Ids
    PROVE  HexLoop(n)[HexTurns].value = 0
<1> DEFINE f == HexLoop(n)  v(i) == f[i].value
<1>1. /\ f \in [0..15 -> HexState] /\ f[0] = AddHexDigit([value |-> n, text |-> <<>>])
      /\ \A j \in 1..15 : f[j] = NextHexDigit(f[j - 1])
    <2>1. HexTurns = 15
        BY DEF HexTurns
    <2>2. n \in Nat
        BY IdIs
    <2> HIDE DEF f
    <2> QED  BY <2>1, <2>2, HexRecursion DEF f
<1> HIDE DEF f
<1>2. \A i \in 0..15 : v(i) \in Nat
    BY <1>1 DEF HexState
<1>3. v(0) = n \div 16 /\ n \in Nat /\ n <= MaxId
    <2>0. n \in Nat /\ n <= MaxId
        BY IdIs
    <2>1. [value |-> n, text |-> <<>>] \in HexState
        BY <2>0, FirstHexDigit
    <2>2. f[0].value = [value |-> n, text |-> <<>>].value \div 16
        BY <1>1, <2>1, AddHexDigitIs
    <2> QED  BY <2>0, <2>2
<1>4. ASSUME NEW j \in 1..15 PROVE v(j) = v(j - 1) \div 16
    <2> DEFINE d == f[j - 1]
    <2>1. j - 1 \in 0..15 /\ d \in HexState
        BY <1>1
    <2>2. f[j] = NextHexDigit(d)
        BY <1>1
    <2> HIDE DEF d
    <2>3. CASE d.value = 0
        BY <2>2, <2>3 DEF NextHexDigit, d
    <2>4. CASE d.value # 0
        <3>1. f[j] = AddHexDigit(d)
            BY <2>2, <2>4 DEF NextHexDigit
        <3>2. f[j].value = d.value \div 16
            BY <2>1, <3>1, AddHexDigitIs
        <3> QED  BY <3>2 DEF d
    <2> QED  BY <2>3, <2>4
<1> HIDE DEF v
<1>5. v(1) <= 8388607
    <2>1. v(1) = v(0) \div 16
        BY <1>4, SMT
    <2> QED  BY <1>3, <2>1, SMT DEF MaxId
<1>6. v(3) <= 32767
    <2>1. v(2) = v(1) \div 16 /\ v(3) = v(2) \div 16
        BY <1>4, SMT
    <2>2. v(1) \in Nat /\ v(2) \in Nat
        BY <1>2, SMT
    <2> QED  BY <1>5, <2>1, <2>2, SMT
<1>7. v(5) <= 127
    <2>1. v(4) = v(3) \div 16 /\ v(5) = v(4) \div 16
        BY <1>4, SMT
    <2>2. v(3) \in Nat /\ v(4) \in Nat
        BY <1>2, SMT
    <2> QED  BY <1>6, <2>1, <2>2, SMT
<1>8. v(7) = 0
    <2>1. v(6) = v(5) \div 16 /\ v(7) = v(6) \div 16
        BY <1>4, SMT
    <2>2. v(5) \in Nat /\ v(6) \in Nat
        BY <1>2, SMT
    <2> QED  BY <1>7, <2>1, <2>2, SMT
<1>9. v(15) = 0
    <2>1. \A j \in 8..15 : v(j - 1) = 0 => v(j) = 0
        BY <1>4
    <2>2. v(8) = 0 /\ v(9) = 0 /\ v(10) = 0 /\ v(11) = 0
        BY <1>8, <2>1
    <2>3. v(12) = 0 /\ v(13) = 0 /\ v(14) = 0 /\ v(15) = 0
        BY <2>1, <2>2
    <2> QED  BY <2>3
<1> QED  BY <1>9 DEF f, v, HexTurns

\* An id is read as the number it was written for.
LEMMA HexadecimalIsRead ==
    ASSUME NEW n \in Ids
    PROVE  /\ Hexadecimal(n) \in Seq(HexDigits) /\ Hexadecimal(n) # <<>>
           /\ HexNumber(Hexadecimal(n)) = n
<1> DEFINE f == HexLoop(n)
           T == {i \in 0..HexTurns : f[i].text # <<>> /\ ReadsAs(f[i].text, f[i].value, n)}
<1>0. n \in Nat
    BY IdIs
<1>1. /\ f \in [0..HexTurns -> HexState] /\ f[0] = AddHexDigit([value |-> n, text |-> <<>>])
      /\ \A j \in 1..HexTurns : f[j] = NextHexDigit(f[j - 1])
    BY <1>0, HexRecursion
<1>2. HexTurns \in Nat
    BY DEF HexTurns
<1>3. Hexadecimal(n) = f[HexTurns].text
    BY DEF Hexadecimal, HexLoop
<1>4. f[HexTurns].value = 0
    BY DigitsEnd
<1> HIDE DEF f
<1>5. ASSUME NEW d \in HexState, ReadsAs(d.text, d.value, n)
      PROVE  AddHexDigit(d).text # <<>> /\ ReadsAs(AddHexDigit(d).text, AddHexDigit(d).value, n)
    <2>1. Len(AddHexDigit(d).text) = Len(d.text) + 1 /\ d.text \in Seq(HexDigits)
        BY AddHexDigitIs DEF HexState
    <2>2. AddHexDigit(d).text # <<>>
        BY <2>1
    <2> QED  BY <1>0, <1>5, <2>2, ReadBefore
<1>6. 0 \in T
    <2> DEFINE d == [value |-> n, text |-> <<>>]
    <2>1. d \in HexState /\ ReadsAs(d.text, d.value, n)
        BY <1>0, FirstHexDigit, NothingToRead
    <2> HIDE DEF d
    <2>2. f[0] = AddHexDigit(d)
        BY <1>1 DEF d
    <2> QED  BY <1>2, <1>5, <2>1, <2>2
<1>7. ASSUME NEW j \in 1..HexTurns, j - 1 \in T PROVE j \in T
    <2> DEFINE d == f[j - 1]
    <2>1. d \in HexState /\ ReadsAs(d.text, d.value, n) /\ d.text # <<>> /\ f[j] = NextHexDigit(d)
        BY <1>1, <1>7
    <2> HIDE DEF d
    <2>2. f[j] = d \/ f[j] = AddHexDigit(d)
        BY <2>1 DEF NextHexDigit
    <2> QED  BY <1>2, <1>5, <2>1, <2>2
<1>8. HexTurns \in T
    <2>1. \A j \in 0..HexTurns : j \in T
        <3> HIDE DEF T
        <3> QED  BY <1>2, <1>6, <1>7, InductionUpTo
    <2> QED  BY <1>2, <2>1
<1> DEFINE t == f[HexTurns].text
<1>9. n \in Int /\ t # <<>> /\ ReadsAs(t, 0, n) /\ t \in Seq(HexDigits)
    BY <1>0, <1>1, <1>2, <1>4, <1>8 DEF HexState
<1> HIDE DEF t
<1>10. HexNumber(t) = n
    BY <1>9, ReadWhole
<1> QED  BY <1>3, <1>9, <1>10 DEF t

-----------------------------------------------------------------------------
(* What an offer looks like.                                               *)

OfferArgs(n) == <<NumberArg(n), TextArg(<<65>>), TextArg(<<123>>)>>
OfferStops == {1, 14, 18, 24, 25}

LEMMA OfferBytes ==
    /\ OfferFormat \in Text /\ Len(OfferFormat) = 24
    /\ \A i \in 1..7 : OfferFormat[i] \in 97..122
    /\ \A i \in {8, 14, 18, 20} : OfferFormat[i] = 32
    /\ OfferFormat[9] = 123 /\ OfferFormat[10] = 48 /\ OfferFormat[11] = 58
    /\ OfferFormat[12] = 120 /\ OfferFormat[13] = 125
    /\ OfferFormat[15] = 123 /\ OfferFormat[16] = 49 /\ OfferFormat[17] = 125
    /\ OfferFormat[19] = 47
    /\ OfferFormat[21] = 123 /\ OfferFormat[22] = 50 /\ OfferFormat[23] = 125
    /\ OfferFormat[24] = 10
<1> DEFINE rest == <<32, 123, 48, 58, 120, 125, 32, 123, 49, 125, 32, 47, 32, 123,
                     50, 125, 10>>
<1>1. /\ Generic \in Text /\ Len(Generic) = 7 /\ \A i \in 1..7 : Generic[i] \in 97..122
    BY DEF Generic, Text
<1>2. rest \in Text /\ Len(rest) = 17
    BY DEF Text
<1>3. /\ rest[1] = 32 /\ rest[2] = 123 /\ rest[3] = 48 /\ rest[4] = 58 /\ rest[5] = 120
      /\ rest[6] = 125 /\ rest[7] = 32 /\ rest[8] = 123 /\ rest[9] = 49 /\ rest[10] = 125
      /\ rest[11] = 32 /\ rest[12] = 47 /\ rest[13] = 32 /\ rest[14] = 123 /\ rest[15] = 50
      /\ rest[16] = 125 /\ rest[17] = 10
    OBVIOUS
<1>4. OfferFormat = Generic \o rest
    BY DEF OfferFormat
<1> HIDE DEF rest
<1>5. IsConcat(OfferFormat, Generic, rest)
    BY <1>1, <1>2, <1>4, ConcatIs
<1> DEFINE l == OfferFormat  g == Generic
<1>6. /\ l \in Text /\ Len(l) = 24 /\ \A i \in 1..7 : l[i] = g[i]
      /\ \A i \in 8..24 : l[i] = rest[i - 7]
    <2> HIDE DEF l, g
    <2>1. IsConcat(l, g, rest)
        BY <1>5 DEF l, g
    <2> QED  BY <1>1, <1>2, <2>1 DEF IsConcat, g
<1> HIDE DEF l, g
<1>7. \A i \in 1..7 : l[i] \in 97..122
    BY <1>1, <1>6 DEF g
<1>8. /\ l[8] = 32 /\ l[9] = 123 /\ l[10] = 48 /\ l[11] = 58 /\ l[12] = 120 /\ l[13] = 125
      /\ l[14] = 32 /\ l[15] = 123 /\ l[16] = 49 /\ l[17] = 125 /\ l[18] = 32 /\ l[19] = 47
      /\ l[20] = 32 /\ l[21] = 123 /\ l[22] = 50 /\ l[23] = 125 /\ l[24] = 10
    BY <1>3, <1>6
<1> QED  BY <1>6, <1>7, <1>8 DEF l

\* A field with a number in hexadecimal digits, and one with a text.
LEMMA HexField ==
    ASSUME NEW n \in Nat
    PROVE  FormatField(<<48, 58, 120>>, OfferArgs(n)) = Hexadecimal(n)
<1> DEFINE field == <<48, 58, 120>>
           colons == { i \in DOMAIN field : field[i] = Colon }
<1>1. Len(field) = 3 /\ field[1] = 48 /\ field[2] = 58 /\ field[3] = 120
      /\ DOMAIN field = 1..3 /\ field \in Seq(Int)
    OBVIOUS
<1> HIDE DEF field
<1>2. colons \subseteq Int /\ 2 \in colons /\ \A k \in colons : 2 <= k
    BY <1>1 DEF Colon
<1>3. Min(colons) = 2 /\ colons # {}
    <2> HIDE DEF colons
    <2> QED  BY <1>2, LeastOf
<1>4. SubSeq(field, 1, 1) = <<48>>
    <2> DEFINE p == SubSeq(field, 1, 1)
    <2>1. IsPart(p, field, 1, 1)
        <3>1. 1 \in Nat /\ 1 > 0 /\ 1 <= 1 + 1 /\ 1 <= Len(field) /\ field \in Text
            BY <1>1 DEF Text
        <3> QED  BY <3>1, PartIs
    <2> HIDE DEF p
    <2>2. p \in Seq(Int) /\ Len(p) = 1 /\ p[1] = 48
        BY <1>1, <2>1 DEF IsPart, Text
    <2>3. p = <<48>>
        BY <2>2
    <2> QED  BY <2>3 DEF p
<1>5. SubSeq(field, 3, 3) = <<120>>
    <2> DEFINE p == SubSeq(field, 3, 3)
    <2>1. IsPart(p, field, 3, 3)
        <3>1. 3 \in Nat /\ 3 > 0 /\ 3 <= 3 + 1 /\ 3 <= Len(field) /\ field \in Text
            BY <1>1 DEF Text
        <3> QED  BY <3>1, PartIs
    <2> HIDE DEF p
    <2>2. p \in Seq(Int) /\ Len(p) = 1 /\ p[1] = 120
        BY <1>1, <2>1 DEF IsPart, Text
    <2>3. p = <<120>>
        BY <2>2
    <2> QED  BY <2>3 DEF p
<1>6. Len(<<48>>) + 2 = 3 /\ 2 - 1 = 1
    OBVIOUS
<1>7. FormatField(field, OfferArgs(n)) =
        WriteArg(GetArg(OfferArgs(n), ParseNonnegativeInt(<<48>>)), <<120>>)
    <2> DEFINE index == IF colons = {} THEN field ELSE SubSeq(field, 1, Min(colons) - 1)
               type == SubSeq(field, Len(index) + 2, Len(field))
    <2>1. FormatField(field, OfferArgs(n)) =
            WriteArg(GetArg(OfferArgs(n), ParseNonnegativeInt(index)), type)
        BY DEF FormatField
    <2>2. index = <<48>>
        BY <1>3, <1>4, <1>6
    <2> HIDE DEF index
    <2>3. type = <<120>>
        BY <1>1, <1>5, <1>6, <2>2
    <2> QED  BY <2>1, <2>2, <2>3
<1>8. ParseNonnegativeInt(<<48>>) = 0
    BY OneDigit
<1>9. GetArg(OfferArgs(n), 0) = NumberArg(n)
    BY DEF GetArg, OfferArgs
<1>10. WriteArg(NumberArg(n), <<120>>) = Hexadecimal(n)
    BY DEF WriteArg, NumberArg, WriteInt, LetterX
<1> QED  BY <1>7, <1>8, <1>9, <1>10 DEF field

LEMMA TextField ==
    ASSUME NEW n \in Nat
    PROVE  /\ FormatField(<<49>>, OfferArgs(n)) = <<65>>
           /\ FormatField(<<50>>, OfferArgs(n)) = <<123>>
<1>1. ASSUME NEW d \in 49..50
      PROVE  FormatField(<<d>>, OfferArgs(n)) = OfferArgs(n)[d - 47].text
    <2> DEFINE field == <<d>>  type == SubSeq(field, Len(field) + 2, Len(field))
               arg == OfferArgs(n)[d - 47]
    <2>1. { i \in DOMAIN field : field[i] = Colon } = {}
        BY DEF Colon
    <2>2. ParseNonnegativeInt(field) = d - 48
        BY OneDigit
    <2>3. FormatField(field, OfferArgs(n)) =
            WriteArg(GetArg(OfferArgs(n), ParseNonnegativeInt(field)), type)
        <3> HIDE DEF field
        <3> QED  BY <2>1 DEF FormatField
    <2>4. GetArg(OfferArgs(n), d - 48) = arg
        <3>1. (d - 48) + 1 = d - 47
            OBVIOUS
        <3> QED  BY <3>1 DEF GetArg
    <2>5. arg.kind # "number"
        <3>1. arg = TextArg(<<65>>) \/ arg = TextArg(<<123>>)
            BY DEF OfferArgs
        <3> QED  BY <3>1 DEF TextArg
    <2> HIDE DEF type, field, arg
    <2>6. WriteArg(arg, type) = arg.text
        BY <2>5 DEF WriteArg
    <2> QED  BY <2>2, <2>3, <2>4, <2>6 DEF field, arg
<1>2. OfferArgs(n)[2].text = <<65>> /\ OfferArgs(n)[3].text = <<123>>
    BY DEF OfferArgs, TextArg
<1>3. FormatField(<<49>>, OfferArgs(n)) = OfferArgs(n)[49 - 47].text
    BY <1>1
<1>4. FormatField(<<50>>, OfferArgs(n)) = OfferArgs(n)[50 - 47].text
    BY <1>1
<1>5. 49 - 47 = 2 /\ 50 - 47 = 3
    OBVIOUS
<1> QED  BY <1>2, <1>3, <1>4, <1>5

\* The turns of the loop, one for each stop.
TextTurn(n, t, at) ==
    NextPiece(OfferFormat, OfferArgs(n), [at |-> at, text |-> t]) =
        IF at = 14 THEN [at |-> 18, text |-> t \o SubSeq(OfferFormat, 14, 14) \o <<65>>]
        ELSE [at |-> 24, text |-> t \o SubSeq(OfferFormat, 18, 20) \o <<123>>]
EndTurn(n, t, at) ==
    NextPiece(OfferFormat, OfferArgs(n), [at |-> at, text |-> t]) =
        [at |-> 25, text |-> t \o SubSeq(OfferFormat, at, 24)]
OfferTurn(n, d) ==
    LET e == NextPiece(OfferFormat, OfferArgs(n), d)
    IN  /\ e \in [at: OfferStops, text: Text]
        /\ e.at # 1 /\ \E r \in Text : e.text = d.text \o r

LEMMA OfferIdPiece ==
    ASSUME NEW n \in Nat, NEW t \in Text
    PROVE  NextPiece(OfferFormat, OfferArgs(n), [at |-> 1, text |-> t]) =
              [at |-> 14, text |-> t \o SubSeq(OfferFormat, 1, 8) \o Hexadecimal(n)]
<1> DEFINE f == OfferFormat  field == SubSeq(f, 10, 12)
<1>1. /\ f \in Text /\ Len(f) = 24
      /\ f[9] = OpenBrace /\ f[10] = 48 /\ f[11] = 58 /\ f[12] = 120 /\ f[13] = CloseBrace
      /\ \A i \in 1..8 : f[i] \notin {OpenBrace, CloseBrace}
    BY OfferBytes DEF OpenBrace, CloseBrace
<1> HIDE DEF f
<1>2. /\ 9 \in 1..Len(f) /\ 13 \in 9..Len(f) /\ f[9 + 1] # OpenBrace
      /\ \A i \in 1..Len(f) : i < 9 => f[i] \notin {OpenBrace, CloseBrace}
      /\ \A i \in 9..Len(f) : i < 13 => f[i] # CloseBrace
    <2>1. \A i \in 9..Len(f) : i < 13 => i = 9 \/ i = 10 \/ i = 11 \/ i = 12
        BY <1>1
    <2> QED  BY <1>1, <2>1 DEF OpenBrace, CloseBrace
<1>3. field = <<48, 58, 120>>
    <2>1. IsPart(field, f, 10, 12)
        <3>1. 10 \in Nat /\ 10 > 0 /\ 12 \in Nat /\ 10 <= 12 + 1 /\ 12 <= Len(f)
            BY <1>1
        <3>2. f \in Text
            BY <1>1
        <3> QED  BY <3>1, <3>2, PartIs, Zenon
    <2> HIDE DEF field
    <2>2. field \in Seq(Int) /\ Len(field) = 3 /\ field[1] = 48 /\ field[2] = 58 /\ field[3] = 120
        BY <1>1, <2>1 DEF IsPart, Text
    <2> QED  BY <2>2
<1>4. FormatField(field, OfferArgs(n)) = Hexadecimal(n)
    <2> HIDE DEF field
    <2> QED  BY <1>3, HexField
<1>8. FieldAt(f, 1, 9, 13)
    BY <1>1, <1>2 DEF FieldAt
<1>9. 1 \in Nat \ {0}
    OBVIOUS
<1>5. NextPiece(f, OfferArgs(n), [at |-> 1, text |-> t]) =
        [at |-> 13 + 1, text |-> t \o SubSeq(f, 1, 9 - 1)
                                   \o FormatField(SubSeq(f, 9 + 1, 13 - 1), OfferArgs(n))]
    <2>1. FieldTurn(f, OfferArgs(n), 1, t, 9, 13)
        <3>1. f \in Text
            BY <1>1
        <3> QED  BY <1>8, <1>9, <3>1, FieldPiece, Zenon
    <2> QED  BY <2>1 DEF FieldTurn
<1>6. 13 + 1 = 14 /\ 9 - 1 = 8 /\ 9 + 1 = 10 /\ 13 - 1 = 12
    OBVIOUS
<1> HIDE DEF field
<1>7. NextPiece(f, OfferArgs(n), [at |-> 1, text |-> t]) =
        [at |-> 14, text |-> t \o SubSeq(f, 1, 8) \o FormatField(field, OfferArgs(n))]
    BY <1>5, <1>6 DEF field
<1> QED  BY <1>4, <1>7 DEF f

LEMMA OfferTextPieces ==
    ASSUME NEW n \in Nat, NEW t \in Text, NEW at \in {14, 18}
    PROVE  TextTurn(n, t, at)
<1> DEFINE f == OfferFormat  b == IF at = 14 THEN 15 ELSE 21
<1>1. /\ f \in Text /\ Len(f) = 24 /\ f[14] = 32 /\ f[18] = 32 /\ f[19] = 47 /\ f[20] = 32
      /\ f[15] = OpenBrace /\ f[16] = 49 /\ f[17] = CloseBrace
      /\ f[21] = OpenBrace /\ f[22] = 50 /\ f[23] = CloseBrace
    BY OfferBytes DEF OpenBrace, CloseBrace
<1> HIDE DEF f
<1>2. /\ b \in at..Len(f) /\ b + 2 \in b..Len(f) /\ at \in Nat \ {0}
      /\ f[b] = OpenBrace /\ f[b + 2] = CloseBrace
      /\ f[b + 1] = IF at = 14 THEN 49 ELSE 50
    BY <1>1
<1>3. /\ f[b + 1] # OpenBrace
      /\ \A i \in at..Len(f) : i < b => f[i] \notin {OpenBrace, CloseBrace}
      /\ \A i \in b..Len(f) : i < b + 2 => f[i] # CloseBrace
    <2>1. \A i \in b..Len(f) : i < b + 2 => i = b \/ i = b + 1
        BY <1>1
    <2>2. \A i \in at..Len(f) : i < b => i = 14 \/ i = 18 \/ i = 19 \/ i = 20
        BY <1>1
    <2>3. f[b] # CloseBrace /\ f[b + 1] # CloseBrace /\ f[b + 1] # OpenBrace
        BY <1>2 DEF OpenBrace, CloseBrace
    <2>4. f[14] = 32 /\ f[18] = 32 /\ f[19] = 47 /\ f[20] = 32
        BY <1>1
    <2> HIDE DEF b
    <2>5. \A i \in at..Len(f) : i < b => f[i] \notin {OpenBrace, CloseBrace}
        BY <2>2, <2>4 DEF OpenBrace, CloseBrace
    <2>6. \A i \in b..Len(f) : i < b + 2 => f[i] # CloseBrace
        BY <2>1, <2>3
    <2> QED  BY <2>3, <2>5, <2>6
<1> DEFINE field == SubSeq(f, b + 1, (b + 2) - 1)
<1>4. field = <<f[b + 1]>>
    <2> HIDE DEF b
    <2>1. (b + 2) - 1 = b + 1 /\ b + 1 \in Nat /\ b + 1 > 0 /\ b + 1 <= Len(f)
        BY <1>1, <1>2
    <2>2. IsPart(field, f, b + 1, b + 1)
        <3>1. b + 1 <= (b + 1) + 1
            BY <2>1
        <3> QED  BY <1>1, <2>1, <3>1, PartIs
    <2> HIDE DEF field
    <2>3. field \in Seq(Int) /\ Len(field) = 1 /\ field[1] = f[b + 1]
        <3>1. (b + 1) - (b + 1) + 1 = 1 /\ b + 1 + 1 - 1 = b + 1
            BY <2>1
        <3> QED  BY <2>2, <3>1 DEF IsPart, Text
    <2> QED  BY <2>3
<1>5. NextPiece(f, OfferArgs(n), [at |-> at, text |-> t]) =
        [at |-> (b + 2) + 1, text |-> t \o SubSeq(f, at, b - 1)
                                   \o FormatField(field, OfferArgs(n))]
    <2> HIDE DEF b
    <2> DEFINE e == b + 2
    <2>1. /\ e \in b..Len(f) /\ f[e] = CloseBrace
          /\ \A i \in b..Len(f) : i < e => f[i] # CloseBrace
        BY <1>2, <1>3
    <2> HIDE DEF e
    <2>2. FieldTurn(f, OfferArgs(n), at, t, b, e)
        <3>1. FieldAt(f, at, b, e)
            BY <1>2, <1>3, <2>1 DEF FieldAt
        <3> QED  BY <1>1, <1>2, <3>1, FieldPiece, Zenon
    <2> QED  BY <2>2 DEF e, FieldTurn
<1> HIDE DEF field
<1>6. CASE at = 14
    <2>1. FormatField(field, OfferArgs(n)) = <<65>>
        BY <1>2, <1>4, <1>6, TextField
    <2>2. (b + 2) + 1 = 18 /\ b - 1 = 14
        BY <1>6
    <2> QED  BY <1>5, <1>6, <2>1, <2>2 DEF f, TextTurn
<1>7. CASE at = 18
    <2>1. FormatField(field, OfferArgs(n)) = <<123>>
        BY <1>2, <1>4, <1>7, TextField
    <2>2. (b + 2) + 1 = 24 /\ b - 1 = 20
        BY <1>7
    <2> QED  BY <1>5, <1>7, <2>1, <2>2 DEF f, TextTurn
<1> QED  BY <1>6, <1>7

LEMMA OfferEnd ==
    ASSUME NEW n \in Nat, NEW t \in Text, NEW at \in {24, 25}
    PROVE  EndTurn(n, t, at)
<1> DEFINE f == OfferFormat
<1>1. Len(f) = 24 /\ f[24] = 10
    BY OfferBytes
<1> HIDE DEF f
<1>2. { i \in at..Len(f) : f[i] \in {OpenBrace, CloseBrace} } = {}
    <2>1. \A i \in at..Len(f) : i = 24
        BY <1>1
    <2> QED  BY <1>1, <2>1 DEF OpenBrace, CloseBrace
<1>3. NextPiece(f, OfferArgs(n), [at |-> at, text |-> t]) =
            [at |-> Len(f) + 1, text |-> t \o SubSeq(f, at, Len(f))]
    <2> DEFINE d == [at |-> at, text |-> t]
    <2>1. d.at = at /\ d.text = t
        OBVIOUS
    <2> HIDE DEF d
    <2>2. NextPiece(f, OfferArgs(n), d) =
            [at |-> Len(f) + 1, text |-> d.text \o SubSeq(f, d.at, Len(f))]
        BY <1>2, <2>1 DEF NextPiece
    <2> QED  BY <2>1, <2>2 DEF d
<1>4. Len(f) + 1 = 25
    BY <1>1
<1> QED  BY <1>1, <1>3, <1>4 DEF f, EndTurn

LEMMA HexText ==
    ASSUME NEW n \in Ids
    PROVE  Hexadecimal(n) \in Text /\ n \in Nat
<1>1. HexDigits \subseteq Int
    BY DEF HexDigits, Digits
<1>2. Hexadecimal(n) \in Seq(HexDigits)
    BY HexadecimalIsRead
<1>3. n \in Nat
    BY IdIs
<1> QED  BY <1>1, <1>2, <1>3, SeqMonotonic DEF Text

LEMMA OfferPart ==
    ASSUME NEW m \in 1..24, NEW n \in 0..24
    PROVE  SubSeq(OfferFormat, m, n) \in Text
<1>1. OfferFormat \in Text /\ Len(OfferFormat) = 24
    BY OfferBytes
<1>2. m \in Nat \ {0} /\ n \in Int /\ n <= Len(OfferFormat)
    BY <1>1
<1> QED  BY <1>1, <1>2, PartType, Zenon

LEMMA OfferPieceType ==
    ASSUME NEW n \in Ids, NEW d \in [at: OfferStops, text: Text]
    PROVE  OfferTurn(n, d)
<1> DEFINE e == NextPiece(OfferFormat, OfferArgs(n), d)  t == d.text  at == d.at
<1>1. /\ n \in Nat /\ t \in Text /\ Hexadecimal(n) \in Text /\ at \in OfferStops
      /\ d = [at |-> at, text |-> t]
    BY HexText
<1>2. <<65>> \in Text /\ <<123>> \in Text /\ <<>> \in Text
    BY DEF Text
<1>3. /\ SubSeq(OfferFormat, 1, 8) \in Text /\ SubSeq(OfferFormat, 14, 14) \in Text
      /\ SubSeq(OfferFormat, 18, 20) \in Text /\ SubSeq(OfferFormat, 24, 24) \in Text
      /\ SubSeq(OfferFormat, 25, 24) = <<>>
    <2>1. \A i \in {1, 14, 18, 24}, k \in {8, 14, 20, 24} : i \in 1..24 /\ k \in 0..24
        OBVIOUS
    <2>2. OfferFormat \in Seq(Int)
        BY OfferBytes DEF Text
    <2> QED  BY <2>1, <2>2, OfferPart
<1>4. ASSUME NEW k \in {14, 18, 24, 25}, NEW p \in Text, NEW u \in Text,
             e = [at |-> k, text |-> (t \o p) \o u]
      PROVE  OfferTurn(n, d)
    <2>1. p \o u \in Text
        BY ConcatType
    <2>2. Associates(t, p, u)
        BY <1>1, ConcatTexts, Zenon
    <2>3. t \o (p \o u) \in Text
        BY <1>1, <2>1, ConcatType, Zenon
    <2> DEFINE r == p \o u  w == t \o r
    <2>4. e = [at |-> k, text |-> w]
        BY <1>4, <2>2 DEF Associates
    <2>5. k \in OfferStops /\ k # 1
        BY DEF OfferStops
    <2> HIDE DEF e, r
    <2>6. e.text = t \o r /\ r \in Text /\ e.text \in Text /\ e.at = k
        BY <2>1, <2>3, <2>4 DEF r
    <2> HIDE DEF w
    <2>7. e \in [at: OfferStops, text: Text]
        BY <2>3, <2>4, <2>5 DEF w, r
    <2> QED  BY <2>5, <2>6, <2>7 DEF OfferTurn, e, t
<1>5. CASE at = 1
    <2>1. e = [at |-> 14, text |-> (t \o SubSeq(OfferFormat, 1, 8)) \o Hexadecimal(n)]
        <3> HIDE DEF t
        <3>1. d = [at |-> 1, text |-> t]
            BY <1>1, <1>5
        <3> QED  BY <1>1, <3>1, OfferIdPiece
    <2> HIDE DEF e, t
    <2> QED  BY <1>1, <1>3, <1>4, <2>1
<1>6. CASE at \in {14, 18}
    <2>1. TextTurn(n, t, at)
        BY <1>1, <1>6, OfferTextPieces, Zenon
    <2> HIDE DEF t, at
    <2>2. e = IF at = 14 THEN [at |-> 18, text |-> (t \o SubSeq(OfferFormat, 14, 14)) \o <<65>>]
              ELSE [at |-> 24, text |-> (t \o SubSeq(OfferFormat, 18, 20)) \o <<123>>]
        BY <1>1, <2>1 DEF TextTurn
    <2> HIDE DEF e
    <2> DEFINE p14 == SubSeq(OfferFormat, 14, 14)  p18 == SubSeq(OfferFormat, 18, 20)
               u14 == <<65>>  u18 == <<123>>
    <2>3. p14 \in Text /\ p18 \in Text /\ u14 \in Text /\ u18 \in Text
        BY <1>2, <1>3
    <2> HIDE DEF p14, p18, u14, u18
    <2>4. CASE at = 14
        <3>1. e = [at |-> 18, text |-> (t \o p14) \o u14]
            BY <2>2, <2>4 DEF p14, u14
        <3> QED  BY <1>4, <2>3, <3>1
    <2>5. CASE at = 18
        <3>1. e = [at |-> 24, text |-> (t \o p18) \o u18]
            BY <2>2, <2>5 DEF p18, u18
        <3> QED  BY <1>4, <2>3, <3>1
    <2> QED  BY <1>6, <2>4, <2>5
<1>7. CASE at \in {24, 25}
    <2>1. EndTurn(n, t, at)
        BY <1>1, <1>7, OfferEnd, Zenon
    <2> HIDE DEF t, at
    <2> DEFINE p == SubSeq(OfferFormat, at, 24)
    <2>2. e = [at |-> 25, text |-> t \o p]
        BY <1>1, <2>1 DEF EndTurn
    <2>3. p \in Text
        BY <1>2, <1>3, <1>7
    <2> HIDE DEF e, p
    <2>4. t \o p \in Text
        BY <1>1, <2>3, ConcatType, Zenon
    <2>5. (t \o p) \o <<>> = t \o p
        BY <2>4, ConcatEmptySeq DEF Text
    <2>6. e = [at |-> 25, text |-> (t \o p) \o <<>>]
        BY <2>2, <2>5
    <2> QED  BY <1>2, <1>4, <2>3, <2>6
<1>8. at = 1 \/ at \in {14, 18} \/ at \in {24, 25}
    BY <1>1 DEF OfferStops
<1> QED  BY <1>5, <1>6, <1>7, <1>8

\* An offer begins with the genre, the id and a blank.
OfferBegin(n) == SubSeq(OfferFormat, 1, 8) \o Hexadecimal(n)

LEMMA OfferBeginType ==
    ASSUME NEW n \in Ids
    PROVE  OfferBegin(n) \in Text /\ OfferBegin(n) \o <<32>> \in Text
<1>1. OfferFormat \in Text /\ Len(OfferFormat) = 24
    BY OfferBytes
<1>2. SubSeq(OfferFormat, 1, 8) \in Text
    BY OfferPart
<1>3. OfferBegin(n) \in Text
    BY <1>2, HexText, ConcatType DEF OfferBegin
<1>4. <<32>> \in Text
    BY DEF Text
<1> QED  BY <1>3, <1>4, ConcatType

LEMMA OfferLineBegins ==
    ASSUME NEW n \in Ids
    PROVE  \E r \in Text : OfferLine(n) = OfferBegin(n) \o <<32>> \o r
<1> DEFINE f == PiecesOf(OfferFormat, OfferArgs(n))  b == OfferBegin(n) \o <<32>>
           V == [at: OfferStops, text: Text]
           Begun(j) == f[j].at # 1 /\ \E r \in Text : f[j].text = b \o r
           T == {j \in 0..24 : j <= 1 \/ Begun(j)}
<1>1. n \in Nat /\ OfferFormat \in Text /\ Len(OfferFormat) = 24 /\ 1 \in OfferStops
    BY HexText, OfferBytes DEF OfferStops
<1>2. \A d \in V : NextPiece(OfferFormat, OfferArgs(n), d) \in V
    <2>1. \A d \in V : OfferTurn(n, d)
        BY OfferPieceType, Zenon
    <2> QED  BY <2>1 DEF OfferTurn
<1>3. /\ f \in [0..24 -> V] /\ f[0] = [at |-> 1, text |-> <<>>]
      /\ \A j \in 1..24 : f[j] = NextPiece(OfferFormat, OfferArgs(n), f[j - 1])
    <2>1. StaysAt(OfferFormat, OfferArgs(n), OfferStops)
        BY <1>2 DEF StaysAt
    <2> HIDE DEF f
    <2>2. ArePieces(f, OfferFormat, OfferArgs(n), OfferStops)
        BY <1>1, <2>1, PiecesAre, Zenon DEF f
    <2> QED  BY <1>1, <2>2 DEF ArePieces
<1>4. OfferLine(n) = f[24].text
    <2>1. OfferLine(n) = Format(OfferFormat, OfferArgs(n))
        BY DEF OfferLine, OfferArgs
    <2> QED  BY <1>1, <2>1 DEF Format, PiecesOf
<1> HIDE DEF f
<1>5. b \in Text /\ OfferBegin(n) \in Text
    BY OfferBeginType
<1>6. f[1] = [at |-> 14, text |-> OfferBegin(n)]
    <2> DEFINE p == SubSeq(OfferFormat, 1, 8)
    <2>1. <<>> \in Text
        BY DEF Text
    <2>2. f[1] = NextPiece(OfferFormat, OfferArgs(n), f[0])
        BY <1>3
    <2>3. f[1] = [at |-> 14, text |-> <<>> \o p \o Hexadecimal(n)]
        BY <1>1, <1>3, <2>1, <2>2, OfferIdPiece
    <2>4. p \in Text
        BY OfferPart
    <2> HIDE DEF p
    <2>5. <<>> \o p = p
        BY <2>4, ConcatEmptySeq DEF Text
    <2> QED  BY <2>3, <2>5 DEF OfferBegin, p
<1>7. Begun(2)
    <2> DEFINE p == SubSeq(OfferFormat, 14, 14)  q == OfferBegin(n)
    <2>1. f[2] = NextPiece(OfferFormat, OfferArgs(n), f[1])
        BY <1>3
    <2>2. f[2] = [at |-> 18, text |-> OfferBegin(n) \o p \o <<65>>]
        <3>1. TextTurn(n, OfferBegin(n), 14)
            <4>1. 14 \in {14, 18}
                OBVIOUS
            <4> QED  BY <1>1, <1>5, <4>1, OfferTextPieces, Zenon
        <3> QED  BY <1>6, <2>1, <3>1 DEF TextTurn
    <2>3. p = <<32>>
        <3>1. IsPart(p, OfferFormat, 14, 14)
            <4>1. 14 \in Nat /\ 14 > 0 /\ 14 <= 14 + 1 /\ 14 <= Len(OfferFormat)
                BY <1>1
            <4> QED  BY <1>1, <4>1, PartIs
        <3> HIDE DEF p
        <3>2. p \in Seq(Int) /\ Len(p) = 1 /\ p[1] = 32
            BY <3>1, OfferBytes DEF IsPart, Text
        <3> QED  BY <3>2
    <2>4. f[2].at # 1 /\ f[2].text = b \o <<65>>
        <3> HIDE DEF p
        <3> DEFINE w == (OfferBegin(n) \o p) \o <<65>>
        <3>1. w = b \o <<65>>
            BY <2>3
        <3>2. f[2] = [at |-> 18, text |-> w]
            BY <2>2
        <3> HIDE DEF w
        <3>3. f[2].at = 18 /\ f[2].text = w
            BY <3>2
        <3> QED  BY <3>1, <3>3
    <2>5. <<65>> \in Text
        BY DEF Text
    <2> HIDE DEF b
    <2> QED  BY <2>4, <2>5
<1> HIDE DEF b, V
<1>8. ASSUME NEW j \in 1..24, j - 1 \in T PROVE j \in T
    <2>1. CASE j <= 2
        <3>1. j \in 0..24 /\ (j <= 1 \/ j = 2)
            BY <2>1
        <3> HIDE DEF Begun
        <3> QED  BY <1>7, <3>1
    <2>2. CASE ~(j <= 2)
        <3> DEFINE d == f[j - 1]
        <3>1. PICK r \in Text : d.text = b \o r
            BY <1>8, <2>2
        <3>2. d \in V /\ d.at # 1
            <4>1. j - 1 \in 0..24 /\ ~(j - 1 <= 1)
                BY <2>2
            <4>2. Begun(j - 1)
                <5> HIDE DEF Begun
                <5> QED  BY <1>8, <4>1
            <4> QED  BY <1>3, <4>1, <4>2
        <3>3. f[j] = NextPiece(OfferFormat, OfferArgs(n), d)
            BY <1>3
        <3> HIDE DEF d
        <3>4. f[j].at # 1 /\ \E q \in Text : f[j].text = d.text \o q
            <4>1. OfferTurn(n, d)
                BY <3>2, OfferPieceType, Zenon DEF V
            <4> QED  BY <3>3, <4>1 DEF OfferTurn
        <3>5. PICK q \in Text : f[j].text = d.text \o q
            BY <3>4
        <3>6. Associates(b, r, q)
            BY <1>5, ConcatTexts, Zenon
        <3>7. r \o q \in Text
            BY ConcatType
        <3>8. Begun(j)
            BY <3>1, <3>4, <3>5, <3>6, <3>7 DEF Associates
        <3> HIDE DEF Begun
        <3> QED  BY <3>8
    <2> QED  BY <2>1, <2>2
<1>9. 24 \in T
    <2>1. 0 \in T
        OBVIOUS
    <2>2. \A j \in 0..24 : j \in T
        <3> HIDE DEF T
        <3> QED  BY <1>8, <2>1, InductionUpTo
    <2> HIDE DEF T
    <2> QED  BY <2>2
<1>10. Begun(24)
    <2> HIDE DEF Begun
    <2> QED  BY <1>9
<1> QED  BY <1>4, <1>10 DEF b

\* What a client takes from an offer are the digits of the id.
LEMMA OfferedIdIs ==
    ASSUME NEW n \in Ids
    PROVE  OfferedId(OfferLine(n)) = Hexadecimal(n)
<1> DEFINE h == Hexadecimal(n)  g == SubSeq(OfferFormat, 1, 8)  l == OfferLine(n)
           m == Len(h)  blanks == {i \in DOMAIN l : l[i] = Space}
<1>1. h \in Seq(HexDigits) /\ h \in Text /\ m \in Nat
    BY HexadecimalIsRead, HexText DEF Text
<1>2. g \in Text /\ Len(g) = 8 /\ g[8] = Space /\ \A i \in 1..7 : g[i] # Space
    <2>1. OfferFormat \in Text /\ Len(OfferFormat) = 24 /\ OfferFormat[8] = 32
          /\ \A i \in 1..7 : OfferFormat[i] \in 97..122
        BY OfferBytes
    <2>2. IsPart(g, OfferFormat, 1, 8)
        <3>1. 1 \in Nat /\ 1 > 0 /\ 8 \in Nat /\ 1 <= 8 + 1 /\ 8 <= Len(OfferFormat)
            BY <2>1
        <3> QED  BY <2>1, <3>1, PartIs, Zenon
    <2> HIDE DEF g
    <2>3. g \in Text /\ Len(g) = 8 /\ \A i \in 1..8 : g[i] = OfferFormat[i]
        BY <2>2 DEF IsPart
    <2> QED  BY <2>1, <2>3 DEF Space
<1>3. PICK r \in Text : l = OfferBegin(n) \o <<32>> \o r
    BY OfferLineBegins
<1> DEFINE b == OfferBegin(n)  c == b \o <<32>>
<1>4. IsConcat(b, g, h)
    BY <1>1, <1>2, ConcatIs DEF OfferBegin
<1>5. b \in Text /\ c \in Text /\ <<32>> \in Text /\ Len(<<32>>) = 1 /\ <<32>>[1] = 32
    BY OfferBeginType, OneByte
<1>6. IsConcat(c, b, <<32>>)
    BY <1>5, ConcatIs
<1>7. IsConcat(l, c, r)
    <2> HIDE DEF c
    <2>1. l = c \o r
        BY <1>3 DEF c
    <2> QED  BY <1>5, <2>1, ConcatIs
<1> HIDE DEF b, c, l, g, h
<1>8. /\ Len(b) = 8 + m /\ \A i \in 1..8 : b[i] = g[i]
      /\ \A i \in 9..(8 + m) : b[i] = h[i - 8]
    BY <1>2, <1>4 DEF IsConcat
<1>9. Len(c) = 9 + m /\ c[9 + m] = 32 /\ \A i \in 1..(8 + m) : c[i] = b[i]
    <2>1. Len(c) = Len(b) + 1 /\ (\A i \in 1..Len(b) : c[i] = b[i])
          /\ (\A i \in (Len(b) + 1)..(Len(b) + 1) : c[i] = <<32>>[i - Len(b)])
        BY <1>5, <1>6 DEF IsConcat
    <2>2. Len(b) + 1 = 9 + m /\ Len(b) \in Nat
        BY <1>1, <1>8
    <2>3. c[9 + m] = <<32>>[(9 + m) - Len(b)] /\ (9 + m) - Len(b) = 1
        BY <2>1, <2>2
    <2> QED  BY <1>5, <1>8, <2>1, <2>2, <2>3
<1>10. l \in Text /\ Len(l) = 9 + m + Len(r) /\ \A i \in 1..(9 + m) : l[i] = c[i]
    BY <1>7, <1>9 DEF IsConcat
<1>11. Len(r) \in Nat
    BY DEF Text
<1>12. /\ \A i \in 1..7 : l[i] # Space
       /\ l[8] = Space /\ l[9 + m] = Space
       /\ \A i \in 9..(8 + m) : l[i] = h[i - 8] /\ l[i] # Space
    <2>1. \A i \in 1..(8 + m) : l[i] = b[i]
        BY <1>1, <1>9, <1>10
    <2>2. \A i \in 1..8 : l[i] = g[i]
        BY <1>1, <1>8, <2>1
    <2>3. \A i \in 9..(8 + m) : l[i] = h[i - 8]
        BY <1>1, <1>8, <2>1
    <2>4. \A i \in 1..m : h[i] # Space
        <3>1. Space \notin HexDigits
            BY DEF Space, HexDigits, Digits
        <3> QED  BY <1>1, <3>1 DEF m
    <2>5. \A i \in 9..(8 + m) : i - 8 \in 1..m
        BY <1>1
    <2>6. l[9 + m] = Space
        BY <1>1, <1>9, <1>10 DEF Space
    <2> QED  BY <1>1, <1>2, <2>2, <2>3, <2>4, <2>5, <2>6
<1>13. DOMAIN l = 1..(9 + m + Len(r))
    BY <1>10 DEF Text
<1> HIDE DEF m
<1>14. Min(blanks) = 8
    <2>1. blanks \subseteq Int /\ 8 \in blanks /\ \A k \in blanks : 8 <= k
        BY <1>1, <1>11, <1>12, <1>13
    <2> HIDE DEF blanks
    <2> QED  BY <2>1, LeastOf
<1>15. Min(blanks \ {8}) = 9 + m
    <2> DEFINE others == blanks \ {8}
    <2>1. others \subseteq Int /\ 9 + m \in others
        BY <1>1, <1>11, <1>12, <1>13
    <2>2. \A k \in others : 9 + m <= k
        <3> TAKE k \in others
        <3>1. k \in 1..(9 + m + Len(r)) /\ k # 8 /\ l[k] = Space
            BY <1>13
        <3>2. k \notin 1..7 /\ k \notin 9..(8 + m)
            BY <1>12, <3>1
        <3> QED  BY <1>1, <1>11, <3>1, <3>2
    <2> HIDE DEF others
    <2>3. Min(others) = 9 + m
        BY <2>1, <2>2, LeastOf
    <2> QED  BY <2>3 DEF others
<1>16. OfferedId(l) = SubSeq(l, 8 + 1, (9 + m) - 1)
    BY <1>14, <1>15 DEF OfferedId
<1>17. 8 + 1 = 9 /\ (9 + m) - 1 = 8 + m
    BY <1>1
<1>18. SubSeq(l, 9, 8 + m) = h
    <2>1. l \in Seq(Int) /\ h \in Seq(Int) /\ Len(h) = m /\ 8 + m <= Len(l)
        BY <1>1, <1>10, <1>11 DEF Text, m
    <2>2. Len(SubSeq(l, 9, 8 + m)) = m /\ SubSeq(l, 9, 8 + m) \in Seq(Int)
        BY <1>1, <2>1
    <2>3. \A i \in 1..m : SubSeq(l, 9, 8 + m)[i] = h[i]
        <3> TAKE i \in 1..m
        <3>1. SubSeq(l, 9, 8 + m)[i] = l[i + 8]
            BY <1>1, <2>1
        <3>2. i + 8 \in 9..(8 + m) /\ (i + 8) - 8 = i
            BY <1>1
        <3> QED  BY <1>12, <3>1, <3>2
    <2> DEFINE q == SubSeq(l, 9, 8 + m)
    <2>4. q \in Seq(Int) /\ Len(q) = Len(h) /\ \A i \in 1..Len(q) : q[i] = h[i]
        BY <2>1, <2>2, <2>3
    <2> HIDE DEF q, h, l, m
    <2>5. q = h
        BY <2>1, <2>4, SeqEqual
    <2> QED  BY <2>5 DEF q
<1> QED  BY <1>16, <1>17, <1>18 DEF h, l

-----------------------------------------------------------------------------
(* What a client escapes.                                                  *)

Styles == {<< <<Plus>>, 65>>, << <<Percent, 50, 48>>, 97>>, << <<Plus>>, Unescaping>>}
NoBlank == Bytes \ {Space}

\* How a byte is written that a server is to read as it was.
EscapedAs(c, byte) ==
    \/ c = <<byte>> /\ byte \in Alphanumeric
    \/ c = <<Plus>> /\ byte = Space
    \/ /\ Len(c) = 3 /\ c[1] = Percent /\ c[2] \in HexDigits /\ c[3] \in HexDigits
       /\ HexDigit(c[2]) = byte \div 16 /\ HexDigit(c[3]) = byte % 16

IsUrlChar(c, byte, escaped) ==
    /\ c \in Seq(NoBlank) /\ Len(c) >= 1
    /\ escaped => EscapedAs(c, byte)

LEMMA UrlDigitIs ==
    ASSUME NEW n \in 0..15, NEW a \in {65, 97}
    PROVE  /\ UrlDigit(n, a) \in HexDigits /\ UrlDigit(n, a) \in NoBlank
           /\ HexDigit(UrlDigit(n, a)) = n
<1>1. CASE n < 10
    <2>1. UrlDigit(n, a) = 48 + n
        BY <1>1 DEF UrlDigit
    <2>2. 48 + n \in Digits
        BY <1>1 DEF Digits
    <2> QED  BY <2>1, <2>2 DEF HexDigits, HexDigit, NoBlank, Bytes, Space, Digits
<1>2. CASE ~(n < 10)
    <2>1. UrlDigit(n, a) = a + n - 10
        BY <1>2 DEF UrlDigit
    <2>2. CASE a = 65
        <3>1. UrlDigit(n, a) \in 65..70 /\ UrlDigit(n, a) = 55 + n
            BY <1>2, <2>1, <2>2
        <3> HIDE DEF UrlDigit
        <3> QED  BY <3>1 DEF HexDigits, HexDigit, NoBlank, Bytes, Space, Digits
    <2>3. CASE a = 97
        <3>1. UrlDigit(n, a) \in 97..102 /\ UrlDigit(n, a) = 87 + n
            BY <1>2, <2>1, <2>3
        <3> QED  BY <3>1 DEF HexDigits, HexDigit, NoBlank, Bytes, Space, Digits
    <2> QED  BY <2>2, <2>3
<1> QED  BY <1>1, <1>2

LEMMA UrlCharIs ==
    ASSUME NEW byte \in Bytes, NEW style \in Styles
    PROVE  IsUrlChar(UrlChar(byte, style[1], style[2]), byte, style[2] # Unescaping)
<1> DEFINE blank == style[1]  a == style[2]  c == UrlChar(byte, blank, a)
<1>1. \/ blank = <<Plus>> /\ a \in {65, Unescaping}
      \/ blank = <<Percent, 50, 48>> /\ a = 97
    BY DEF Styles
<1> HIDE DEF blank, a
<1>2. CASE byte = Space
    <2>1. c = blank
        BY <1>2 DEF UrlChar
    <2>2. CASE blank = <<Plus>>
        <3>1. <<Plus>> \in Seq(NoBlank) /\ Len(<<Plus>>) = 1
            BY DEF NoBlank, Bytes, Plus, Space
        <3> QED  BY <1>2, <2>1, <2>2, <3>1 DEF IsUrlChar, EscapedAs, a, blank
    <2>3. CASE blank = <<Percent, 50, 48>>
        <3> DEFINE d == <<Percent, 50, 48>>
        <3>1. d \in Seq(NoBlank) /\ Len(d) = 3 /\ d[1] = Percent /\ d[2] = 50 /\ d[3] = 48
            BY DEF NoBlank, Bytes, Percent, Space
        <3> HIDE DEF d
        <3>2. 50 \in HexDigits /\ 48 \in HexDigits /\ HexDigit(50) = 2 /\ HexDigit(48) = 0
            BY DEF HexDigits, Digits, HexDigit
        <3>3. byte \div 16 = 2 /\ byte % 16 = 0
            BY <1>2 DEF Space
        <3>4. IsUrlChar(d, byte, a # Unescaping)
            BY <3>1, <3>2, <3>3 DEF IsUrlChar, EscapedAs
        <3> QED  BY <2>1, <2>3, <3>4 DEF d, a, blank
    <2> QED  BY <1>1, <2>2, <2>3
<1>3. CASE byte # Space /\ (byte \in Alphanumeric \/ a = Unescaping)
    <2>1. c = <<byte>>
        BY <1>3 DEF UrlChar
    <2>2. <<byte>> \in Seq(NoBlank) /\ Len(<<byte>>) = 1
        BY <1>3 DEF NoBlank
    <2>3. IsUrlChar(<<byte>>, byte, a # Unescaping)
        BY <1>3, <2>2 DEF IsUrlChar, EscapedAs
    <2> QED  BY <2>1, <2>3 DEF a, blank
<1>4. CASE byte # Space /\ ~(byte \in Alphanumeric \/ a = Unescaping)
    <2> DEFINE p == UrlDigit(byte \div 16, a)  q == UrlDigit(byte % 16, a)
               d == <<Percent, p, q>>
    <2>1. c = d
        BY <1>4 DEF UrlChar
    <2>2. a \in {65, 97} /\ byte \div 16 \in 0..15 /\ byte % 16 \in 0..15
        BY <1>1, <1>4 DEF Bytes
    <2>3. p \in HexDigits /\ p \in NoBlank /\ HexDigit(p) = byte \div 16
        BY <2>2, UrlDigitIs
    <2>4. q \in HexDigits /\ q \in NoBlank /\ HexDigit(q) = byte % 16
        BY <2>2, UrlDigitIs
    <2> HIDE DEF p, q
    <2>5. Percent \in NoBlank
        BY DEF NoBlank, Percent, Bytes, Space
    <2>6. d \in Seq(NoBlank) /\ Len(d) = 3 /\ d[1] = Percent /\ d[2] = p /\ d[3] = q
        BY <2>3, <2>4, <2>5
    <2> HIDE DEF d
    <2>7. IsUrlChar(d, byte, a # Unescaping)
        BY <2>3, <2>4, <2>6 DEF IsUrlChar, EscapedAs
    <2> QED  BY <2>1, <2>7 DEF a, blank
<1> QED  BY <1>2, <1>3, <1>4

UrlParts(text, style) == [i \in DOMAIN text |-> UrlChar(text[i], style[1], style[2])]

\* A text in a GET: its bytes one after the other, and no blank among them.
IsUrl(u, text, style) ==
    /\ u \in Seq(NoBlank)
    /\ Len(UrlParts(text, style)) = Len(text)
    /\ IsFlat(u, UrlParts(text, style), EndsOf(UrlParts(text, style)))
    /\ \A i \in 1..Len(text) :
          IsUrlChar(UrlParts(text, style)[i], text[i], style[2] # Unescaping)

LEMMA UrlIs ==
    ASSUME NEW text \in ByteText, NEW style \in Styles
    PROVE  IsUrl(Url(text, style[1], style[2]), text, style)
<1> DEFINE ss == UrlParts(text, style)  u == Url(text, style[1], style[2])
<1>1. DOMAIN text = 1..Len(text) /\ Len(text) \in Nat /\ \A i \in 1..Len(text) : text[i] \in Bytes
    BY DEF ByteText
<1>2. \A i \in 1..Len(text) :
        IsUrlChar(UrlChar(text[i], style[1], style[2]), text[i], style[2] # Unescaping)
    BY <1>1, UrlCharIs, Zenon
<1>3. ss = [i \in 1..Len(text) |-> UrlChar(text[i], style[1], style[2])]
    BY <1>1 DEF UrlParts
<1>4. u = FlattenSeq(ss)
    BY DEF Url, UrlParts
<1> HIDE DEF ss, u
<1>5. \A i \in 1..Len(text) : IsUrlChar(ss[i], text[i], style[2] # Unescaping)
    BY <1>2, <1>3
<1>6. ss \in Seq(Seq(NoBlank)) /\ Len(ss) = Len(text)
    <2>1. \A i \in 1..Len(text) : ss[i] \in Seq(NoBlank)
        BY <1>5 DEF IsUrlChar
    <2>2. ss = [i \in 1..Len(text) |-> ss[i]]
        BY <1>3
    <2> QED  BY <1>1, <2>1, <2>2
<1>7. u \in Seq(NoBlank)
    BY <1>4, <1>6, FlattenIs
<1>8. ss \in Seq(Text)
    <2>1. NoBlank \subseteq Int
        BY DEF NoBlank, Bytes
    <2>2. Seq(NoBlank) \subseteq Text
        BY <2>1, SeqMonotonic DEF Text
    <2> QED  BY <1>6, <2>2, SeqMonotonic
<1>9. IsFlat(u, ss, EndsOf(ss))
    BY <1>4, <1>8, FlattenParts
<1>10. IsUrl(u, text, style)
    BY <1>5, <1>6, <1>7, <1>9 DEF IsUrl, ss
<1> QED  BY <1>10 DEF u

-----------------------------------------------------------------------------
(* What a client sends.                                                    *)

\* A command with its offer, if there is one.
Asks(cmd, offer) ==
    /\ cmd \in Line /\ Head(cmd) # SubSeq(Get, 1, 3)
    /\ offer # NoId => offer \in Ids /\ cmd = <<Cddb, Read, Generic, Hexadecimal(offer)>>

LEMMA WordsAreBytes ==
    /\ Cddb \in ByteText /\ Read \in ByteText /\ Generic \in ByteText
    /\ Hello \in ByteText /\ Proto \in Line /\ Get \in ByteText /\ Target \in ByteText
<1>1. Cddb \in ByteText /\ Read \in ByteText /\ Generic \in ByteText
    BY DEF Cddb, Read, Generic, ByteText, Bytes
<1>2. Hello \in ByteText /\ Get \in ByteText /\ Target \in ByteText
    BY DEF Hello, Get, Target, Question, Equals, ByteText, Bytes
<1>3. <<112, 114, 111, 116, 111>> \in ByteText /\ <<54>> \in ByteText
    BY DEF ByteText, Bytes
<1>4. Proto \in Line
    BY <1>3 DEF Proto, Line
<1> QED  BY <1>1, <1>2, <1>4

LEMMA OfferedAsks ==
    ASSUME NEW n \in Ids
    PROVE  Asks(ReadOffered(n), n)
<1> DEFINE h == Hexadecimal(n)  cmd == <<Cddb, Read, Generic, h>>
<1>1. ReadOffered(n) = cmd
    BY OfferedIdIs DEF ReadOffered
<1>2. h \in ByteText
    <2>1. h \in Seq(HexDigits) /\ HexDigits \subseteq Bytes
        BY HexadecimalIsRead DEF HexDigits, Digits, Bytes
    <2> HIDE DEF h
    <2> QED  BY <2>1, SeqMonotonic DEF ByteText
<1> HIDE DEF h
<1>3. cmd \in Line /\ Head(cmd) = Cddb
    BY <1>2, WordsAreBytes DEF Line
<1>4. Cddb # SubSeq(Get, 1, 3)
    BY DEF Cddb, Get
<1> QED  BY <1>1, <1>3, <1>4 DEF Asks, h

GapSet == Seq(Delimiters) \ {<<>>}

LEMMA ClientFacts ==
    /\ \A cmd \in Requested : cmd \in Line /\ Head(cmd) # SubSeq(Get, 1, 3)
    /\ \A hello \in Hellos : hello \in Line /\ Head(hello) = Hello
    /\ \A gap \in Gaps : gap \in GapSet
    /\ \A ending \in Endings : ending \in Seq(Delimiters)
    /\ \A n \in Offered : n \in Ids
    /\ \A cut \in Cuts : cut \in Nat /\ cut >= 4
<1>1. \A ws \in Requested \cup Hellos : ws \in Line
    BY ClientAssumption, SMT DEF ClientAssumption, Line, ByteText
<1>2. \A cmd \in Requested : Head(cmd) # SubSeq(Get, 1, 3)
    BY ClientAssumption, SMT DEF ClientAssumption
<1>3. \A hello \in Hellos : Head(hello) = Hello
    BY ClientAssumption, SMT DEF ClientAssumption
<1>4. \A gap \in Gaps : gap \in GapSet
    BY ClientAssumption, SMT DEF ClientAssumption, GapSet
<1>5. \A ending \in Endings : ending \in Seq(Delimiters)
    BY ClientAssumption, SMT DEF ClientAssumption
<1>6. \A n \in Offered : n \in Ids
    BY ClientAssumption, SMT DEF ClientAssumption, Ids
<1>7. \A cut \in Cuts : cut \in Nat /\ cut >= 4
    BY ClientAssumption, SMT DEF ClientAssumption
<1> QED  BY <1>1, <1>2, <1>3, <1>4, <1>5, <1>6, <1>7, Zenon

LEMMA CommandAsks ==
    ASSUME NEW cmd \in Commands
    PROVE  Asks(cmd[1], cmd[2])
<1>1. CASE \E c \in Requested : cmd = <<c, NoId>>
    <2>1. PICK c \in Requested : cmd = <<c, NoId>>
        BY <1>1
    <2>2. c \in Line /\ Head(c) # SubSeq(Get, 1, 3)
        BY ClientFacts, Zenon
    <2> QED  BY <2>1, <2>2 DEF Asks
<1>2. CASE \E n \in Offered : cmd = <<ReadOffered(n), n>>
    <2>1. PICK n \in Offered : cmd = <<ReadOffered(n), n>>
        BY <1>2
    <2>2. Asks(ReadOffered(n), n)
        BY ClientFacts, OfferedAsks, Zenon
    <2> QED  BY <2>1, <2>2
<1> QED  BY <1>1, <1>2 DEF Commands

\* What is in a GET.
IsGet(cmd, offer, hello, gap, style) ==
    /\ Asks(cmd, offer) /\ hello \in Line /\ Head(hello) = Hello
    /\ gap \in GapSet /\ style \in Styles
    /\ SentGet(cmd, offer, hello, gap, style[1], style[2])
IsLine(cmd, offer, gap, ending) ==
    /\ Asks(cmd, offer) /\ gap \in GapSet /\ ending \in Seq(Delimiters)
    /\ SentLine(cmd, offer, gap, ending)

LEMMA ReceiveIs ==
    ASSUME Receive
    PROVE  \/ \E cmd, offer, gap, ending : IsLine(cmd, offer, gap, ending)
           \/ \E cmd, offer, hello, gap, style : IsGet(cmd, offer, hello, gap, style)
<1>1. PICK cmd \in Commands, gap \in Gaps :
        \/ \E ending \in Endings : SentLine(cmd[1], cmd[2], gap, ending)
        \/ \E hello \in Hellos, style \in Styles :
             SentGet(cmd[1], cmd[2], hello, gap, style[1], style[2])
    BY DEF Receive, Styles
<1>2. Asks(cmd[1], cmd[2]) /\ gap \in GapSet
    BY CommandAsks, ClientFacts, Zenon
<1>3. CASE \E ending \in Endings : SentLine(cmd[1], cmd[2], gap, ending)
    BY <1>2, <1>3, ClientFacts, Zenon DEF IsLine
<1>4. CASE \E hello \in Hellos, style \in Styles :
             SentGet(cmd[1], cmd[2], hello, gap, style[1], style[2])
    <2>1. PICK hello \in Hellos, style \in Styles :
            SentGet(cmd[1], cmd[2], hello, gap, style[1], style[2])
        BY <1>4
    <2>2. hello \in Line /\ Head(hello) = Hello
        BY ClientFacts, Zenon
    <2> QED  BY <1>2, <2>1, <2>2, Zenon DEF IsGet
<1> QED  BY <1>1, <1>3, <1>4

LEMMA WrittenType ==
    ASSUME NEW word \in ByteText
    PROVE  Written(word) \in ByteText
<1>1. Quote \in Bytes
    BY DEF Quote, Bytes
<1> QED  BY <1>1 DEF Written, ByteText

JoinedParts(ws, gap) ==
    [i \in DOMAIN ws |-> (IF i = 1 THEN <<>> ELSE gap) \o Written(ws[i])]

LEMMA JoinedType ==
    ASSUME NEW ws \in Seq(ByteText), NEW gap \in Seq(Delimiters)
    PROVE  /\ JoinedParts(ws, gap) \in Seq(ByteText)
           /\ Joined(ws, gap) \in ByteText
<1> DEFINE ss == JoinedParts(ws, gap)
<1>1. gap \in ByteText /\ <<>> \in ByteText
    <2>1. Delimiters \subseteq Bytes
        BY DEF Delimiters, Bytes, Space, Tab, Return, LineFeed
    <2> QED  BY <2>1, SeqMonotonic DEF ByteText
<1>2. DOMAIN ws = 1..Len(ws) /\ Len(ws) \in Nat /\ \A i \in 1..Len(ws) : ws[i] \in ByteText
    OBVIOUS
<1>3. \A i \in 1..Len(ws) : (IF i = 1 THEN <<>> ELSE gap) \o Written(ws[i]) \in ByteText
    <2> TAKE i \in 1..Len(ws)
    <2>1. Written(ws[i]) \in ByteText
        BY <1>2, WrittenType
    <2> QED  BY <1>1, <2>1, ByteConcat
<1>4. ss = [i \in 1..Len(ws) |-> (IF i = 1 THEN <<>> ELSE gap) \o Written(ws[i])]
    BY <1>2 DEF JoinedParts
<1>5. ss \in Seq(ByteText)
    BY <1>2, <1>3, <1>4
<1>6. FlattenSeq(ss) \in ByteText
    <2> HIDE DEF ss
    <2> QED  BY <1>5, FlattenIs DEF ByteText
<1> QED  BY <1>5, <1>6 DEF Joined, JoinedParts

-----------------------------------------------------------------------------
(* Half a GET.                                                             *)

\* A GET has no blank but the one behind its method, before the version.
NoBlankBehind(l) ==
    /\ l \in ByteText /\ Len(l) >= 4 /\ \A i \in 1..4 : l[i] = Get[i]
    /\ \A i \in 5..Len(l) : l[i] \in NoBlank

LEMMA AppendNoBlank ==
    ASSUME NEW l, NoBlankBehind(l), NEW u \in Seq(NoBlank)
    PROVE  NoBlankBehind(l \o u)
<1>1. l \in ByteText /\ u \in ByteText /\ l \in Text /\ u \in Text
    <2>1. NoBlank \subseteq Bytes
        BY DEF NoBlank
    <2> QED  BY <2>1, SeqMonotonic, BytesAreText DEF NoBlankBehind, ByteText
<1> DEFINE k == l \o u
<1>2. k \in ByteText /\ IsConcat(k, l, u)
    BY <1>1, ByteConcat, ConcatIs
<1> HIDE DEF k
<1>3. Len(l) \in Nat /\ Len(u) \in Nat /\ Len(l) >= 4 /\ Len(k) = Len(l) + Len(u)
    BY <1>1, <1>2 DEF IsConcat, NoBlankBehind
<1>4. \A i \in 1..4 : k[i] = Get[i]
    BY <1>2, <1>3 DEF IsConcat, NoBlankBehind
<1>5. \A i \in 1..Len(u) : u[i] \in NoBlank
    OBVIOUS
<1>6. ASSUME NEW i \in 5..Len(k) PROVE k[i] \in NoBlank
    <2>1. CASE i <= Len(l)
        BY <1>2, <1>3, <2>1 DEF IsConcat, NoBlankBehind
    <2>2. CASE i > Len(l)
        <3>1. i \in (Len(l) + 1)..(Len(l) + Len(u)) /\ i - Len(l) \in 1..Len(u)
            BY <1>3, <2>2
        <3>2. k[i] = u[i - Len(l)]
            BY <1>2, <3>1 DEF IsConcat
        <3> QED  BY <1>5, <3>1, <3>2
    <2> QED  BY <1>3, <2>1, <2>2
<1>7. NoBlankBehind(k)
    BY <1>2, <1>3, <1>4, <1>6 DEF NoBlankBehind
<1> QED  BY <1>7 DEF k

LEMMA ParameterNoBlank ==
    ASSUME NEW ws \in Line, Head(ws) \in Seq(NoBlank), NEW gap \in GapSet, NEW style \in Styles
    PROVE  Parameter(ws, gap, style[1], style[2]) \in Seq(NoBlank)
<1> DEFINE t == Joined(Tail(ws), gap)  u == Url(t, style[1], style[2])
<1>1. Tail(ws) \in Seq(ByteText) /\ gap \in Seq(Delimiters)
    BY DEF Line, GapSet
<1>2. t \in ByteText
    BY <1>1, JoinedType
<1> HIDE DEF t
<1>3. u \in Seq(NoBlank)
    BY <1>2, UrlIs DEF IsUrl
<1>4. <<Ampersand>> \in Seq(NoBlank) /\ <<Equals>> \in Seq(NoBlank)
    BY DEF Ampersand, Equals, NoBlank, Bytes, Space
<1>5. Parameter(ws, gap, style[1], style[2]) = <<Ampersand>> \o Head(ws) \o <<Equals>> \o u
    BY DEF Parameter, t
<1> HIDE DEF u
<1> QED  BY <1>3, <1>4, <1>5

LEMMA GetNoBlank ==
    ASSUME NEW cmd \in Line, NEW hello \in Line, Head(hello) = Hello,
           NEW gap \in GapSet, NEW style \in Styles
    PROVE  NoBlankBehind(GetLine(cmd, hello, gap, style[1], style[2]))
<1> DEFINE t == Joined(cmd, gap)  u == Url(t, style[1], style[2])
           p == Parameter(hello, gap, style[1], style[2])
           q == Parameter(Proto, gap, style[1], style[2])
<1>1. t \in ByteText
    BY JoinedType DEF Line, GapSet
<1> HIDE DEF t
<1>2. u \in Seq(NoBlank)
    BY <1>1, UrlIs DEF IsUrl
<1>3. Hello \in Seq(NoBlank) /\ Head(Proto) \in Seq(NoBlank)
    BY DEF Hello, Proto, NoBlank, Bytes, Space
<1>4. p \in Seq(NoBlank) /\ q \in Seq(NoBlank)
    BY <1>3, WordsAreBytes, ParameterNoBlank
<1>5. Target \in Seq(NoBlank)
    BY DEF Target, Question, Equals, NoBlank, Bytes, Space
<1>6. NoBlankBehind(Get)
    BY WordsAreBytes DEF Get, NoBlankBehind
<1>7. GetLine(cmd, hello, gap, style[1], style[2]) = Get \o Target \o u \o p \o q
    BY DEF GetLine, t
<1> HIDE DEF u, p, q
<1>8. NoBlankBehind(Get \o Target)
    BY <1>5, <1>6, AppendNoBlank
<1>9. NoBlankBehind(Get \o Target \o u)
    BY <1>2, <1>8, AppendNoBlank
<1>10. NoBlankBehind(Get \o Target \o u \o p)
    BY <1>4, <1>9, AppendNoBlank
<1>11. NoBlankBehind(Get \o Target \o u \o p \o q)
    BY <1>4, <1>10, AppendNoBlank
<1> QED  BY <1>7, <1>11

\* What there is of it is not only its method, and no blank behind that.
LEMMA CutInput ==
    ASSUME Receive, client.cut
    PROVE  NoBlankBehind(input)
<1>1. PICK cmd, offer, hello, gap, style : IsGet(cmd, offer, hello, gap, style)
    <2>1. ASSUME NEW cmd, NEW offer, NEW gap, NEW ending, IsLine(cmd, offer, gap, ending)
          PROVE  FALSE
        BY <2>1 DEF IsLine, SentLine
    <2> QED  BY <2>1, ReceiveIs
<1> DEFINE l == GetLine(cmd, hello, gap, style[1], style[2])
<1>2. NoBlankBehind(l)
    BY <1>1, GetNoBlank DEF IsGet, Asks
<1>3. PICK cut \in Cuts : cut <= Len(l) /\ input = SubSeq(l, 1, cut)
    BY <1>1 DEF IsGet, SentGet
<1> HIDE DEF l
<1>4. cut \in Nat /\ cut >= 4
    BY ClientFacts
<1>5. l \in Seq(Bytes) /\ Len(l) \in Nat
    BY <1>2 DEF NoBlankBehind, ByteText
<1>6. input \in Seq(Bytes) /\ Len(input) = cut /\ \A i \in 1..cut : input[i] = l[i]
    BY <1>3, <1>4, <1>5
<1> QED  BY <1>2, <1>3, <1>4, <1>6 DEF NoBlankBehind, ByteText

BeforeVersion ==
    /\ client.cut => NoBlankBehind(input)
    /\ client.cut =>
        /\ phase \in {"received", "splitting", "thrown"} /\ seen = <<>>
        /\ state # "HttpVersion"
        /\ pos \in Nat /\ pos > 0 /\ (pos <= 5 => state = "Preamble")

LEMMA CutBegin ==
    ASSUME Init
    PROVE  BeforeVersion
BY CutInput DEF Init, BeforeVersion

LEMMA CutBeginsGet ==
    ASSUME NoBlankBehind(input)
    PROVE  BeginsGet
<1>1. Get \in Seq(Bytes) /\ Len(Get) = 4 /\ input \in Seq(Bytes)
    BY WordsAreBytes DEF Get, NoBlankBehind, ByteText
<1>2. SubSeq(input, 1, 4) = Get
    <2>1. SubSeq(input, 1, 4) \in Seq(Bytes) /\ Len(SubSeq(input, 1, 4)) = 4
          /\ \A i \in 1..4 : SubSeq(input, 1, 4)[i] = input[i]
        BY <1>1 DEF NoBlankBehind
    <2> QED  BY <1>1, <2>1 DEF NoBlankBehind
<1>3. Len(Get) <= Len(input)
    BY <1>1 DEF NoBlankBehind
<1> QED  BY <1>1, <1>2, <1>3 DEF BeginsGet, IsPrefix

LEMMA CutStep ==
    ASSUME BeforeVersion, Next
    PROVE  BeforeVersion'
<1> SUFFICES ASSUME client'.cut PROVE BeforeVersion'
    BY DEF BeforeVersion
<1>0. client' = client /\ input' = input
    BY DEF Next, Request, Skip, IllegalHexChar, HexChar, BeginHex, EndPart, AddChar, EndSplit,
           GetNothing, GetQuoted, GetOpen, GetPlain, CddbRequest, Answer, Split, Throw, GetWord
<1>1. /\ NoBlankBehind(input) /\ client.cut
      /\ phase \in {"received", "splitting", "thrown"} /\ seen = <<>>
      /\ state # "HttpVersion" /\ pos \in Nat /\ pos > 0 /\ (pos <= 5 => state = "Preamble")
    BY <1>0 DEF BeforeVersion
<1>2. CASE Request
    BY <1>0, <1>1, <1>2, CutBeginsGet DEF Request, BeforeVersion, splitVars, answerVars
<1>3. CASE Skip
    <2>1. pos' = pos + 1 /\ phase' = phase /\ seen' = seen
        BY <1>3 DEF Skip, Split, answerVars
    <2>2. state' # "HttpVersion"
        BY <1>1, <1>3 DEF Skip
    <2>3. pos' <= 5 => state' = "Preamble"
        <3>1. \A i \in 1..4 : input[i] # Question
            BY <1>1 DEF NoBlankBehind, Get, Question
        <3> QED  BY <1>1, <1>3, <2>1, <3>1 DEF Skip, Ch
    <2> QED  BY <1>0, <1>1, <2>1, <2>2, <2>3 DEF BeforeVersion
<1>4. CASE EndPart
    <2>1. pos' = pos + 1 /\ phase' = phase /\ seen' = seen /\ pos <= Len(input) /\ state \in InQuery
        BY <1>4 DEF EndPart, Split, answerVars
    <2>2. pos > 5
        BY <1>1, <2>1 DEF InQuery
    <2>3. Ch # Space
        <3>1. pos \in 5..Len(input)
            BY <1>1, <2>1, <2>2 DEF NoBlankBehind, ByteText
        <3> QED  BY <1>1, <3>1 DEF NoBlankBehind, NoBlank, Ch
    <2>4. state' # "HttpVersion"
        BY <1>4, <2>3 DEF EndPart
    <2> QED  BY <1>0, <1>1, <2>1, <2>2, <2>4 DEF BeforeVersion
<1>5. CASE HexChar \/ BeginHex \/ AddChar
    <2>1. pos' = pos + 1 /\ phase' = phase /\ seen' = seen /\ state \in InQuery
        BY <1>5 DEF HexChar, BeginHex, AddChar, Split, answerVars
    <2>2. state' \in InQuery
        BY <1>5, <2>1 DEF HexChar, BeginHex, AddChar, InQuery
    <2>3. pos > 5 /\ state' # "HttpVersion"
        BY <1>1, <2>1, <2>2 DEF InQuery
    <2> QED  BY <1>0, <1>1, <2>1, <2>3 DEF BeforeVersion
<1>6. CASE IllegalHexChar
    BY <1>0, <1>1, <1>6 DEF IllegalHexChar, Throw, BeforeVersion, splitVars, answerVars
<1>7. CASE EndSplit
    BY <1>0, <1>1, <1>7 DEF EndSplit, IsWhole, BeforeVersion, splitVars, answerVars
<1>8. CASE GetNothing \/ GetQuoted \/ GetOpen \/ GetPlain \/ CddbRequest \/ Answer
    BY <1>1, <1>8 DEF GetNothing, GetQuoted, GetOpen, GetPlain, CddbRequest, Answer, NextWord
<1> QED  BY <1>2, <1>3, <1>4, <1>5, <1>6, <1>7, <1>8 DEF Next

\* Of a GET whose connection broke before its version nothing is worked on,
\* wherever it broke behind its method, and whatever was in it
\* (split_http_cddb, cddbserver.cpp:566).
THEOREM CutGetsAreRefused == Spec => []CutGetIsRefused
<1>1. Init => BeforeVersion
    BY CutBegin
<1>2. BeforeVersion /\ [Next]_vars => BeforeVersion'
    <2>1. BeforeVersion /\ UNCHANGED vars => BeforeVersion'
        BY DEF vars, splitVars, wordVars, answerVars, BeforeVersion
    <2> QED  BY <2>1, CutStep
<1>3. BeforeVersion => CutGetIsRefused
    BY DEF BeforeVersion, CutGetIsRefused
<1> QED  BY <1>1, <1>2, <1>3, PTL DEF Spec

-----------------------------------------------------------------------------
(* Numbers.                                                                *)

LEMMA MinIs ==
    ASSUME NEW S \in SUBSET Nat, S # {}
    PROVE  Min(S) \in S /\ \A y \in S : Min(S) <= y
<1>1. \E x \in S : \A y \in S : x <= y
    BY LeastNatural
<1> QED  BY <1>1 DEF Min

LEMMA MaxIs ==
    ASSUME NEW n \in Nat, NEW S \in SUBSET (1..n), S # {}
    PROVE  Max(S) \in S /\ \A y \in S : Max(S) >= y
<1> DEFINE T == {n - x : x \in S}
<1>1. T \in SUBSET Nat /\ T # {}
    <2>1. \A x \in S : n - x \in Nat
        OBVIOUS
    <2>2. PICK x \in S : TRUE
        OBVIOUS
    <2>3. n - x \in T
        OBVIOUS
    <2> QED  BY <2>1, <2>3
<1>2. PICK m \in T : \A y \in T : m <= y
    <2> HIDE DEF T
    <2> QED  BY <1>1, LeastNatural
<1>3. PICK x \in S : m = n - x
    OBVIOUS
<1>4. \A y \in S : x >= y
    <2> TAKE y \in S
    <2>1. n - y \in T
        OBVIOUS
    <2>2. n - x <= n - y
        BY <1>2, <1>3, <2>1
    <2> QED  BY <2>2
<1>5. \E z \in S : \A y \in S : z >= y
    BY <1>4
<1> QED  BY <1>5 DEF Max

NumberUpTo(word) ==
    LET number[i \in 0..Len(word)] ==
            IF i = 0 THEN 0 ELSE 10 * number[i - 1] + word[i] - 48
    IN  number

\* The loop of std::stoul with base 10.
LEMMA NumberUpToRecursion ==
    ASSUME NEW word \in Text
    PROVE  /\ NumberUpTo(word) \in [0..Len(word) -> Int]
           /\ NumberUpTo(word)[0] = 0
           /\ \A j \in 1..Len(word) :
                NumberUpTo(word)[j] = 10 * NumberUpTo(word)[j - 1] + word[j] - 48
<1> DEFINE n == Len(word)
           V == Int
           next(i, v) == 10 * v + word[i] - 48
           step == [p \in (1..n) \X V |-> next(p[1], p[2])]
           body(f, j) == IF j = 0 THEN 0 ELSE next(j, f[j - 1])
<1>1. n \in Nat /\ 0 \in V
    BY DEF Text
<1>2. ASSUME NEW i \in 1..n, NEW v \in V
      PROVE  next(i, v) \in V
    <2>1. word[i] \in Int
        BY DEF Text
    <2> QED  BY <2>1
<1> HIDE DEF next
<1>3. \A i \in 1..n, v \in V : step[<<i, v>>] = next(i, v)
    OBVIOUS
<1> HIDE DEF step
<1>4. StaysIn(V, n, step)
    BY <1>2, <1>3 DEF StaysIn
<1>5. PICK f \in [0..n -> V] : IsRecursion(f, n, 0, step)
    <2> HIDE DEF n, V
    <2> QED  BY <1>1, <1>4, RecursionExists
<1>6. ASSUME NEW j \in 0..n PROVE f[j] = body(f, j)
    <2>1. CASE j = 0
        BY <1>5, <2>1 DEF IsRecursion
    <2>2. CASE j # 0
        <3>1. j \in 1..n /\ j - 1 \in 0..n
            BY <1>1, <2>2
        <3>2. f[j] = step[<<j, f[j - 1]>>] /\ f[j - 1] \in V
            BY <1>5, <3>1 DEF IsRecursion
        <3> QED  BY <1>3, <2>2, <3>1, <3>2
    <2> QED  BY <2>1, <2>2
<1>7. NumberUpTo(word) = CHOOSE g : g = [j \in 0..n |-> body(g, j)]
    BY DEF NumberUpTo, next
<1> HIDE DEF body
<1>8. f = [j \in 0..n |-> body(f, j)]
    BY <1>6
<1>9. NumberUpTo(word) = [j \in 0..n |-> body(NumberUpTo(word), j)]
    BY <1>7, <1>8
<1> DEFINE F == NumberUpTo(word)
<1> HIDE DEF F
<1>10. F = [j \in 0..n |-> body(F, j)]
    BY <1>9 DEF F
<1>11. \A j \in 0..n : F[j] = body(F, j)
    BY <1>10
<1>12. F[0] = 0
    BY <1>1, <1>11 DEF body
<1>13. ASSUME NEW j \in 1..n PROVE F[j] = next(j, F[j - 1])
    <2>1. j \in 0..n /\ j # 0
        BY <1>1
    <2> QED  BY <1>11, <2>1 DEF body
<1>14. \A j \in 0..n : F[j] \in V
    <2> DEFINE T == {j \in 0..n : F[j] \in V}
    <2> HIDE DEF V
    <2>1. 0 \in T
        BY <1>1, <1>12
    <2>2. ASSUME NEW j \in 1..n, j - 1 \in T PROVE j \in T
        BY <1>1, <1>2, <1>13, <2>2
    <2>3. \A j \in 0..n : j \in T
        <3> HIDE DEF T
        <3> QED  BY <1>1, <2>1, <2>2, InductionUpTo
    <2> QED  BY <2>3
<1>15. F \in [0..n -> V]
    BY <1>10, <1>14
<1> QED  BY <1>12, <1>13, <1>15 DEF next, F

\* The digits a word begins with.
Prefix(word, S) ==
    LET others == {i \in DOMAIN word : word[i] \notin S}
    IN  IF others = {} THEN Len(word) ELSE Min(others) - 1

LEMMA PrefixIs ==
    ASSUME NEW word \in Text, NEW S
    PROVE  /\ Prefix(word, S) \in 0..Len(word)
           /\ \A i \in 1..Prefix(word, S) : word[i] \in S
<1> DEFINE others == {i \in DOMAIN word : word[i] \notin S}
<1>1. DOMAIN word = 1..Len(word) /\ Len(word) \in Nat
    BY DEF Text
<1>2. CASE others = {}
    <2>1. Prefix(word, S) = Len(word)
        BY <1>2 DEF Prefix
    <2> QED  BY <1>1, <1>2, <2>1
<1>3. CASE others # {}
    <2>1. Prefix(word, S) = Min(others) - 1
        BY <1>3 DEF Prefix
    <2>2. others \in SUBSET Nat
        BY <1>1
    <2>3. Min(others) \in others /\ \A y \in others : Min(others) <= y
        <3> HIDE DEF others
        <3> QED  BY <1>3, <2>2, MinIs
    <2>4. Min(others) \in 1..Len(word)
        BY <1>1, <2>3
    <2> DEFINE m == Min(others)
    <2> HIDE DEF m
    <2>5. ASSUME NEW i \in 1..(m - 1) PROVE word[i] \in S
        <3>1. i \in 1..Len(word) /\ ~(m <= i)
            BY <1>1, <2>4 DEF m
        <3>2. i \notin others
            BY <2>3, <3>1 DEF m
        <3> QED  BY <1>1, <3>1, <3>2
    <2> QED  BY <1>1, <2>1, <2>4, <2>5 DEF m
<1> QED  BY <1>2, <1>3

LEMMA NumberType ==
    ASSUME NEW word \in ByteText
    PROVE  Number(word) \in Int
<1> DEFINE k == Prefix(word, Digits)
<1>1. word \in Text /\ k \in 0..Len(word)
    BY BytesAreText, PrefixIs
<1>2. Number(word) = NumberUpTo(word)[k]
    BY DEF Number, NumberUpTo, Prefix
<1> HIDE DEF k
<1>3. NumberUpTo(word) \in [0..Len(word) -> Int]
    BY <1>1, NumberUpToRecursion
<1> QED  BY <1>1, <1>2, <1>3

LEMMA HexNumberType ==
    ASSUME NEW word \in ByteText
    PROVE  HexNumber(word) \in Nat
<1> DEFINE k == Prefix(word, HexDigits)  f == HexUpTo(word)
<1>1. word \in Text /\ k \in 0..Len(word) /\ \A i \in 1..k : word[i] \in HexDigits
    BY BytesAreText, PrefixIs
<1>2. HexNumber(word) = f[k]
    BY DEF HexNumber, HexUpTo, Prefix
<1>3. /\ f[0] = 0
      /\ \A j \in 1..Len(word) : f[j] = 16 * f[j - 1] + HexDigit(word[j])
    BY <1>1, HexUpToRecursion
<1>4. Len(word) \in Nat
    BY <1>1 DEF Text
<1> HIDE DEF k, f
<1>5. \A c \in HexDigits : HexDigit(c) \in Nat
    BY DEF HexDigits, HexDigit, Digits
<1> DEFINE T == {j \in 0..k : f[j] \in Nat}
<1>6. 0 \in T
    BY <1>1, <1>3
<1>7. ASSUME NEW j \in 1..k, j - 1 \in T PROVE j \in T
    <2>1. j \in 1..Len(word) /\ f[j - 1] \in Nat /\ HexDigit(word[j]) \in Nat
        BY <1>1, <1>4, <1>5, <1>7
    <2>2. f[j] \in Nat /\ j \in 0..k
        BY <1>1, <1>3, <2>1
    <2> QED  BY <2>2
<1>8. \A j \in 0..k : j \in T
    <2>1. k \in Nat
        BY <1>1
    <2> HIDE DEF T
    <2> QED  BY <1>6, <1>7, <2>1, InductionUpTo
<1>9. k \in T
    BY <1>1, <1>8
<1> QED  BY <1>2, <1>9

-----------------------------------------------------------------------------
(* Words in lower case.                                                    *)

IsLower(ls, ws) ==
    /\ ls \in Seq(ByteText) /\ Len(ls) = Len(ws)
    /\ \A i \in 3..Len(ws) : ls[i] = ws[i]
    /\ Len(ws) > 0 => ls[1] = Lowered(ws[1])
    /\ Len(ws) > 1 => ls[2] = IF ls[1] = Cddb THEN Lowered(ws[2]) ELSE ws[2]

LEMMA LoweredType ==
    ASSUME NEW word \in ByteText
    PROVE  Lowered(word) \in ByteText
<1>1. DOMAIN word = 1..Len(word) /\ Len(word) \in Nat /\ \A i \in 1..Len(word) : word[i] \in Bytes
    BY DEF ByteText
<1>2. \A b \in Bytes : (IF b \in 65..90 THEN b + 32 ELSE b) \in Bytes
    BY DEF Bytes
<1>3. Lowered(word) = [i \in 1..Len(word) |-> IF word[i] \in 65..90 THEN word[i] + 32 ELSE word[i]]
    BY <1>1 DEF Lowered
<1>4. \A i \in 1..Len(word) : (IF word[i] \in 65..90 THEN word[i] + 32 ELSE word[i]) \in Bytes
    BY <1>1, <1>2
<1> QED  BY <1>1, <1>3, <1>4 DEF ByteText

LEMMA LowerIs ==
    ASSUME NEW ws \in Seq(ByteText)
    PROVE  IsLower(Lower(ws), ws)
<1>1. DOMAIN ws = 1..Len(ws) /\ Len(ws) \in Nat /\ \A i \in 1..Len(ws) : ws[i] \in ByteText
    OBVIOUS
<1>2. CASE ws = <<>>
    BY <1>2 DEF Lower, IsLower
<1>3. CASE ws # <<>>
    <2> DEFINE first == [ws EXCEPT ![1] = Lowered(ws[1])]
    <2>1. Len(ws) > 0 /\ Lowered(ws[1]) \in ByteText
        BY <1>1, <1>3, LoweredType
    <2>2. first \in Seq(ByteText) /\ Len(first) = Len(ws) /\ first[1] = Lowered(ws[1])
          /\ \A i \in 2..Len(ws) : first[i] = ws[i]
        BY <1>1, <2>1
    <2>3. CASE Len(ws) > 1 /\ first[1] = Cddb
        <3> DEFINE l == [first EXCEPT ![2] = Lowered(first[2])]
        <3>1. Lower(ws) = l
            BY <1>3, <2>3 DEF Lower
        <3>2. first[2] = ws[2] /\ Lowered(ws[2]) \in ByteText
            BY <1>1, <2>2, <2>3, LoweredType
        <3> HIDE DEF first
        <3>3. l \in Seq(ByteText) /\ Len(l) = Len(ws) /\ l[1] = first[1] /\ l[2] = Lowered(ws[2])
              /\ \A i \in 3..Len(ws) : l[i] = first[i]
            BY <2>2, <2>3, <3>2
        <3> HIDE DEF l
        <3> QED  BY <2>2, <2>3, <3>1, <3>3 DEF IsLower
    <2>4. CASE ~(Len(ws) > 1 /\ first[1] = Cddb)
        <3>1. Lower(ws) = first
            BY <1>3, <2>4 DEF Lower
        <3> HIDE DEF first
        <3> QED  BY <2>2, <2>4, <3>1 DEF IsLower
    <2> QED  BY <2>3, <2>4
<1> QED  BY <1>2, <1>3

-----------------------------------------------------------------------------
(* Types, and the numbers of a query.                                      *)

Phases == {"received", "splitting", "words", "done", "thrown"}

Typed ==
    /\ input \in ByteText
    /\ pos \in Nat /\ pos > 0 /\ pos <= Len(input) + 1
    /\ state \in InQuery \cup {"Preamble", "QueryCmd", "HttpVersion"}
    /\ hex.count \in 0..2 /\ hex.char \in Bytes
    /\ hex.count = 2 => hex.char = 0
    /\ hex.count = 1 => hex.char <= 15
    /\ query \in ByteText /\ parts \in Seq(ByteText) /\ texts \in Seq(ByteText)
    /\ start \in Nat /\ start > 0
    /\ words \in Seq(ByteText) /\ seen \in Seq(Seq(ByteText))
    /\ id \in Nat \cup {NoId}
    /\ phase \in Phases

LEMMA InputType ==
    ASSUME Receive
    PROVE  input \in ByteText
<1>1. ASSUME NEW cmd, NEW offer, NEW gap, NEW ending, IsLine(cmd, offer, gap, ending)
      PROVE  input \in ByteText
    <2>1. cmd \in Seq(ByteText) /\ gap \in Seq(Delimiters) /\ ending \in Seq(Delimiters)
          /\ input = Joined(cmd, gap) \o ending
        BY <1>1 DEF IsLine, Asks, Line, GapSet, SentLine
    <2>2. ending \in ByteText
        <3>1. Delimiters \subseteq Bytes
            BY DEF Delimiters, Bytes, Space, Tab, Return, LineFeed
        <3> QED  BY <2>1, <3>1, SeqMonotonic DEF ByteText
    <2>3. Joined(cmd, gap) \in ByteText
        BY <2>1, JoinedType
    <2> QED  BY <2>1, <2>2, <2>3, ByteConcat
<1>2. ASSUME NEW cmd, NEW offer, NEW hello, NEW gap, NEW style, IsGet(cmd, offer, hello, gap, style)
      PROVE  input \in ByteText
    <2> DEFINE l == GetLine(cmd, hello, gap, style[1], style[2])
    <2>1. l \in ByteText
        BY <1>2, GetNoBlank DEF IsGet, Asks, NoBlankBehind
    <2>2. input = l \o Version \/ \E cut \in Cuts : cut <= Len(l) /\ input = SubSeq(l, 1, cut)
        BY <1>2 DEF IsGet, SentGet
    <2> HIDE DEF l
    <2>3. CASE input = l \o Version
        <3>1. Version \in ByteText
            BY DEF Version, Space, ByteText, Bytes
        <3> QED  BY <2>1, <2>3, <3>1, ByteConcat
    <2>4. CASE \E cut \in Cuts : cut <= Len(l) /\ input = SubSeq(l, 1, cut)
        <3>1. PICK cut \in Cuts : cut <= Len(l) /\ input = SubSeq(l, 1, cut)
            BY <2>4
        <3>2. cut \in Nat
            BY ClientFacts
        <3> QED  BY <2>1, <3>1, <3>2 DEF ByteText
    <2> QED  BY <2>2, <2>3, <2>4
<1> QED  BY <1>1, <1>2, ReceiveIs

LEMMA TypedBegin ==
    ASSUME Init
    PROVE  Typed
<1>1. input \in ByteText
    BY InputType DEF Init
<1>2. Len(input) \in Nat
    BY <1>1 DEF ByteText
<1>3. hex = [count |-> 0, char |-> 0] /\ pos = 1 /\ state = "Preamble" /\ phase = "received"
      /\ id = NoId /\ start = 1
    BY DEF Init
<1>4. hex.count = 0 /\ hex.char = 0
    BY <1>3
<1>5. query \in ByteText /\ parts \in Seq(ByteText) /\ texts \in Seq(ByteText)
      /\ words \in Seq(ByteText) /\ seen \in Seq(Seq(ByteText))
    BY DEF Init, ByteText
<1> QED  BY <1>1, <1>2, <1>3, <1>4, <1>5 DEF Typed, Bytes, Phases

\* The numbers read of a query, and what is read of any command.
LEMMA CommandType ==
    ASSUME NEW ws \in Seq(ByteText), CommandOf(ws), id \in Nat \cup {NoId}, phase = "words"
    PROVE  id' \in Nat \cup {NoId} /\ phase' \in Phases
<1>1. \A i \in 1..Len(ws) : HexNumber(ws[i]) \in Nat
    BY HexNumberType
<1>2. CASE IsCommand(ws, Query) /\ QueryCommand(ws)
    <2>1. CASE CountsFit(ws)
        <3>1. 3 \in 1..Len(ws)
            BY <2>1 DEF CountsFit
        <3>2. HexNumber(ws[3]) \in Nat
            BY <1>1, <3>1
        <3> QED  BY <1>2, <2>1, <3>2 DEF QueryCommand, Phases
    <2>2. CASE ~CountsFit(ws)
        BY <1>2, <2>2 DEF QueryCommand, Phases
    <2> QED  BY <2>1, <2>2
<1>3. CASE IsCommand(ws, Read) /\ ReadCommand(ws)
    <2>1. Len(ws) = 4 => HexNumber(ws[4]) \in Nat
        BY <1>1
    <2> QED  BY <1>3, <2>1 DEF ReadCommand, Phases
<1>4. CASE id' = NoId /\ phase' = IF ProtoThrows(ws) THEN "thrown" ELSE phase
    BY <1>4 DEF Phases
<1> QED  BY <1>2, <1>3, <1>4 DEF CommandOf

LEMMA HexDigitBytes ==
    ASSUME NEW c \in HexDigits
    PROVE  HexDigit(c) \in 0..15
BY DEF HexDigits, HexDigit, Digits

\* Where the tokenizer is in its text.
LEMMA BeginIs ==
    ASSUME NextWord, Typed
    PROVE  /\ CurrentText \in ByteText /\ start \in 1..Len(CurrentText)
           /\ Begin \in start..(Len(CurrentText) + 1)
           /\ Begin > Len(CurrentText) =>
                \A i \in start..Len(CurrentText) : CurrentText[i] \in Delimiters
           /\ Begin <= Len(CurrentText) => CurrentText[Begin] \notin Delimiters
           /\ \A i \in start..Len(CurrentText) : i < Begin => CurrentText[i] \in Delimiters
<1> DEFINE t == CurrentText  n == Len(t)
           others == {i \in start..n : t[i] \notin Delimiters}
<1>1. t \in ByteText /\ n \in Nat
    BY DEF NextWord, Typed, CurrentText, ByteText
<1>2. start \in 1..n
    BY <1>1 DEF NextWord, Typed, Eol
<1>3. Begin = IF others = {} THEN n + 1 ELSE Min(others)
    BY DEF Begin
<1>4. others \in SUBSET Nat /\ others \subseteq start..n
    BY <1>1, <1>2
<1>5. others # {} => Min(others) \in others /\ \A y \in others : Min(others) <= y
    <2> HIDE DEF others
    <2> QED  BY <1>4, MinIs
<1>6. CASE others = {}
    BY <1>1, <1>2, <1>3, <1>6
<1>7. CASE others # {}
    <2>1. Begin \in start..n /\ t[Begin] \notin Delimiters
        BY <1>3, <1>5, <1>7
    <2>2. ASSUME NEW i \in start..n, i < Begin PROVE t[i] \in Delimiters
        <3>1. i \notin others
            <4> HIDE DEF others
            <4>1. \A y \in others : Begin <= y
                BY <1>3, <1>5, <1>7
            <4>2. ~(Begin <= i)
                BY <1>2, <2>1, <2>2
            <4> QED  BY <4>1, <4>2, Zenon
        <3> QED  BY <3>1
    <2> HIDE DEF t, others
    <2> QED  BY <1>1, <1>2, <2>1, <2>2 DEF t
<1> QED  BY <1>6, <1>7

LEMMA WordType ==
    ASSUME NEW t \in ByteText, NEW m \in Nat, m > 0, NEW n \in Int, n <= Len(t)
    PROVE  SubSeq(t, m, n) \in ByteText
BY DEF ByteText

WordStep ==
    /\ words' \in Seq(ByteText) /\ start' \in Nat /\ start' > 0
    /\ UNCHANGED <<client, input, splitVars, texts, answerVars, phase>>

LEMMA WordStepIs ==
    ASSUME Typed, GetNothing \/ GetQuoted \/ GetOpen \/ GetPlain
    PROVE  WordStep
<1> DEFINE t == CurrentText
<1>1. NextWord
    BY DEF GetNothing, GetQuoted, GetOpen, GetPlain
<1>2. t \in ByteText /\ start \in 1..Len(t) /\ Begin \in start..(Len(t) + 1) /\ Len(t) \in Nat
    BY <1>1, BeginIs DEF ByteText
<1>3. words \in Seq(ByteText)
    BY DEF Typed
<1>4. ASSUME NEW word \in ByteText, NEW next \in Nat, next > 0, GetWord(word, next)
      PROVE  WordStep
    BY <1>3, <1>4 DEF GetWord, WordStep
<1>5. CASE GetNothing
    <2>1. <<>> \in ByteText /\ Len(t) + 1 \in Nat /\ Len(t) + 1 > 0
        BY <1>2 DEF ByteText
    <2>2. GetWord(<<>>, Len(t) + 1)
        BY <1>5 DEF GetNothing
    <2> HIDE DEF t
    <2> QED  BY <1>4, <2>1, <2>2
<1>6. CASE GetQuoted
    <2>1. Closing \in SUBSET Nat /\ Closing # {} /\ Closing \subseteq (Begin + 1)..Len(t)
        BY <1>2, <1>6 DEF GetQuoted, Closing, Quotes
    <2> DEFINE m == Min(Closing)
    <2>2. m \in (Begin + 1)..Len(t)
        BY <2>1, MinIs
    <2>3. GetWord(SubSeq(t, Begin + 1, m - 1), m + 2)
        BY <1>6 DEF GetQuoted
    <2> HIDE DEF m, t
    <2>4. Begin + 1 \in Nat /\ Begin + 1 > 0 /\ m - 1 \in Int /\ m - 1 <= Len(t)
          /\ m + 2 \in Nat /\ m + 2 > 0
        BY <1>2, <2>2
    <2>5. SubSeq(t, Begin + 1, m - 1) \in ByteText
        BY <1>2, <2>4, WordType
    <2> QED  BY <1>4, <2>3, <2>4, <2>5
<1>7. CASE GetOpen
    <2> DEFINE last == IF Len(t) \in Quotes THEN Len(t) - 1 ELSE Len(t)
    <2>1. GetWord(SubSeq(t, Begin + 1, last), Len(t) + 2)
        BY <1>7 DEF GetOpen
    <2>2. Begin + 1 \in Nat /\ Begin + 1 > 0 /\ last \in Int /\ last <= Len(t)
          /\ Len(t) + 2 \in Nat /\ Len(t) + 2 > 0
        BY <1>2
    <2> HIDE DEF last, t
    <2>3. SubSeq(t, Begin + 1, last) \in ByteText
        BY <1>2, <2>2, WordType
    <2> QED  BY <1>4, <2>1, <2>2, <2>3
<1>8. CASE GetPlain
    <2> DEFINE end == IF Ends = {} THEN Len(t) + 1 ELSE Min(Ends)
    <2>1. GetWord(SubSeq(t, Begin, end - 1), end + 1)
        BY <1>8 DEF GetPlain
    <2>2. end \in Begin..(Len(t) + 1)
        <3>1. Ends \in SUBSET Nat /\ Ends \subseteq Begin..Len(t)
            BY <1>2 DEF Ends
        <3>2. Ends # {} => Min(Ends) \in Ends
            BY <3>1, MinIs
        <3>3. CASE Ends = {}
            BY <1>2, <3>3
        <3>4. CASE Ends # {}
            <4>1. Min(Ends) \in Begin..Len(t) /\ end = Min(Ends)
                BY <3>1, <3>2, <3>4
            <4> QED  BY <1>2, <4>1
        <3> QED  BY <3>3, <3>4
    <2> HIDE DEF end, t
    <2>3. Begin \in Nat /\ Begin > 0 /\ end - 1 \in Int /\ end - 1 <= Len(t)
          /\ end + 1 \in Nat /\ end + 1 > 0
        BY <1>2, <2>2
    <2>4. SubSeq(t, Begin, end - 1) \in ByteText
        BY <1>2, <2>3, WordType
    <2> QED  BY <1>4, <2>1, <2>3, <2>4
<1> QED  BY <1>5, <1>6, <1>7, <1>8

\* A turn of the splitter takes a byte.
SplitStep ==
    /\ pos' = pos + 1 /\ pos <= Len(input)
    /\ UNCHANGED <<client, input, texts, wordVars, answerVars, phase>>

LEMMA SplitStepTyped ==
    ASSUME Typed, SplitStep,
           state' \in InQuery \cup {"Preamble", "QueryCmd", "HttpVersion"},
           hex'.count \in 0..2, hex'.char \in Bytes,
           hex'.count = 2 => hex'.char = 0, hex'.count = 1 => hex'.char <= 15,
           query' \in ByteText, parts' \in Seq(ByteText)
    PROVE  Typed'
<1>1. Len(input) \in Nat
    BY DEF Typed, ByteText
<1>2. pos' \in Nat /\ pos' > 0 /\ pos' <= Len(input) + 1
    BY <1>1 DEF Typed, SplitStep
<1> QED  BY <1>2 DEF Typed, SplitStep, wordVars, answerVars

LEMMA TypedStep ==
    ASSUME Typed, Next
    PROVE  Typed'
<1>0. \A states : Split(states) => SplitStep /\ state \in states /\ phase = "splitting"
    BY DEF Split, SplitStep
<1>a. Ch \in Bytes \/ ~(pos <= Len(input))
    BY DEF Typed, Ch, ByteText
<1>1. CASE Request
    <2>1. <<input>> \in Seq(ByteText)
        BY DEF Typed
    <2>2. texts' \in Seq(ByteText) /\ phase' \in Phases
        BY <1>1, <2>1 DEF Request, Typed, Phases
    <2> QED  BY <1>1, <2>2 DEF Request, Typed, splitVars, wordVars, answerVars
<1>2. CASE Skip
    <2>1. SplitStep /\ UNCHANGED <<hex, query, parts>>
        BY <1>0, <1>2 DEF Skip
    <2>2. state' \in InQuery \cup {"Preamble", "QueryCmd", "HttpVersion"}
        BY <1>2 DEF Skip, InQuery, Typed
    <2> QED  BY <2>1, <2>2, SplitStepTyped DEF Typed
<1>3. CASE IllegalHexChar
    BY <1>3 DEF IllegalHexChar, Throw, Typed, Phases, splitVars, wordVars, answerVars
<1>4. CASE HexChar
    <2> DEFINE c == hex.char * 16 + HexDigit(Ch)
    <2>1. SplitStep /\ hex.count # 0 /\ Ch \in HexDigits /\ UNCHANGED <<state, parts>>
        BY <1>0, <1>4 DEF HexChar
    <2>2. /\ hex' = [count |-> hex.count - 1, char |-> c]
          /\ query' = IF hex.count = 1 THEN Append(query, c) ELSE query
        BY <1>4 DEF HexChar
    <2>3. HexDigit(Ch) \in 0..15
        BY <2>1, HexDigitBytes
    <2>4. /\ hex.count \in 1..2 /\ hex.char \in 0..15
          /\ hex.count = 2 => hex.char = 0
        <3> DEFINE n == hex.count  d == hex.char
        <3>1. /\ n \in 0..2 /\ d \in 0..255 /\ n # 0
              /\ (n = 2 => d = 0) /\ (n = 1 => d <= 15)
            BY <2>1 DEF Typed, Bytes
        <3> HIDE DEF n, d
        <3>2. n \in 1..2 /\ d \in 0..15 /\ (n = 2 => d = 0)
            BY <3>1
        <3> QED  BY <3>2 DEF n, d
    <2>5. c \in 0..255 /\ (hex.count = 2 => c <= 15)
        <3> DEFINE x == HexDigit(Ch)  d == hex.char
        <3>1. x \in 0..15 /\ d \in 0..15 /\ (hex.count = 2 => d = 0) /\ c = d * 16 + x
            BY <2>3, <2>4
        <3> HIDE DEF x, d, c
        <3> QED  BY <3>1
    <2> HIDE DEF c
    <2>6. hex'.count = hex.count - 1 /\ hex'.char = c
        BY <2>2
    <2>7. query' \in ByteText
        <3>1. Append(query, c) \in ByteText /\ query \in ByteText
            <4>1. c \in Bytes /\ query \in Seq(Bytes)
                BY <2>5 DEF Typed, ByteText, Bytes
            <4> QED  BY <4>1 DEF ByteText
        <3> QED  BY <2>2, <3>1
    <2>8. hex'.count \in 0..2 /\ hex'.char \in Bytes
          /\ (hex'.count = 2 => hex'.char = 0) /\ (hex'.count = 1 => hex'.char <= 15)
        BY <2>4, <2>5, <2>6 DEF Bytes
    <2> QED  BY <2>1, <2>7, <2>8, SplitStepTyped DEF Typed
<1>5. CASE BeginHex
    <2>1. SplitStep /\ hex' = [count |-> 2, char |-> 0] /\ UNCHANGED <<state, query, parts>>
        BY <1>0, <1>5 DEF BeginHex
    <2>2. hex'.count = 2 /\ hex'.char = 0
        BY <2>1
    <2> QED  BY <2>1, <2>2, SplitStepTyped DEF Typed, Bytes
<1>6. CASE EndPart
    <2>1. SplitStep /\ parts' = Append(parts, query) /\ query' = <<>> /\ UNCHANGED hex
          /\ state' \in {"QueryReplaceEqual", "HttpVersion"}
        BY <1>0, <1>6 DEF EndPart
    <2>2. parts' \in Seq(ByteText) /\ query' \in ByteText
        BY <2>1 DEF Typed, ByteText
    <2>3. state' \in InQuery \cup {"Preamble", "QueryCmd", "HttpVersion"}
        BY <2>1 DEF InQuery
    <2> QED  BY <2>1, <2>2, <2>3, SplitStepTyped DEF Typed
<1>7. CASE AddChar
    <2>1. SplitStep /\ UNCHANGED <<hex, parts>>
          /\ query' = Append(query, IF Ch = Plus \/ FirstEquals THEN Space ELSE Ch)
          /\ state' = IF FirstEquals THEN "Query" ELSE state
        BY <1>0, <1>7 DEF AddChar
    <2>2. (IF Ch = Plus \/ FirstEquals THEN Space ELSE Ch) \in Bytes
        BY <1>a, <2>1 DEF SplitStep, Space, Bytes
    <2>3. query' \in ByteText
        BY <2>1, <2>2 DEF Typed, ByteText
    <2>4. state' \in InQuery \cup {"Preamble", "QueryCmd", "HttpVersion"}
        BY <2>1 DEF InQuery, Typed
    <2> QED  BY <2>1, <2>3, <2>4, SplitStepTyped DEF Typed
<1>8. CASE EndSplit
    <2>1. IsWhole => Tail(parts) \o <<Head(parts)>> \in Seq(ByteText)
        <3> HAVE IsWhole
        <3>1. parts \in Seq(ByteText) /\ parts # <<>>
            <4>1. parts \in Seq(ByteText) /\ Len(parts) = 3
                BY DEF Typed, IsWhole
            <4> QED  BY <4>1
        <3>2. Tail(parts) \in Seq(ByteText) /\ <<Head(parts)>> \in Seq(ByteText)
            BY <3>1
        <3> QED  BY <3>2
    <2>2. texts' \in Seq(ByteText) /\ phase' \in Phases
        BY <1>8, <2>1 DEF EndSplit, Typed, Phases
    <2> QED  BY <1>8, <2>2 DEF EndSplit, Typed, splitVars, wordVars, answerVars
<1>9. CASE GetNothing \/ GetQuoted \/ GetOpen \/ GetPlain
    <2>1. WordStep
        BY <1>9, WordStepIs
    <2> QED  BY <2>1 DEF WordStep, Typed, splitVars, answerVars
<1>10. CASE CddbRequest
    <2> DEFINE ws == Lower(words)
    <2>1. ws \in Seq(ByteText)
        BY LowerIs DEF IsLower, Typed
    <2>2. CommandOf(ws) /\ phase = "words" /\ seen' = Append(seen, ws) /\ texts' = Tail(texts)
          /\ texts # <<>> /\ start' = 1 /\ words' = <<>> /\ UNCHANGED <<client, input, splitVars>>
        BY <1>10 DEF CddbRequest
    <2> HIDE DEF ws
    <2>3. id' \in Nat \cup {NoId} /\ phase' \in Phases
        BY <2>1, <2>2, CommandType DEF Typed
    <2>4. seen' \in Seq(Seq(ByteText)) /\ texts' \in Seq(ByteText) /\ words' \in Seq(ByteText)
        BY <2>1, <2>2 DEF Typed
    <2> QED  BY <2>2, <2>3, <2>4 DEF Typed, splitVars
<1>11. CASE Answer
    BY <1>11 DEF Answer, Typed, Phases, splitVars, wordVars, answerVars
<1> QED  BY <1>1, <1>2, <1>3, <1>4, <1>5, <1>6, <1>7, <1>8, <1>9, <1>10, <1>11 DEF Next

LEMMA TypedIsTypeOK ==
    ASSUME Typed
    PROVE  TypeOK
<1>1. Len(input) \in Nat /\ pos \in 1..(Len(input) + 1)
    BY DEF Typed, ByteText
<1>2. Range(query) \subseteq Bytes
    BY DEF Typed, ByteText, Range
<1> QED  BY <1>1, <1>2 DEF Typed, TypeOK, Phases

\* What is in the variables, after any bytes of any client.
THEOREM RequestsAreTyped == Spec => []TypeOK
<1>1. Init => Typed
    BY TypedBegin
<1>2. Typed /\ [Next]_vars => Typed'
    <2>1. Typed /\ UNCHANGED vars => Typed'
        BY DEF vars, splitVars, wordVars, answerVars, Typed
    <2> QED  BY <2>1, TypedStep
<1>3. Typed => TypeOK
    BY TypedIsTypeOK
<1> QED  BY <1>1, <1>2, <1>3, PTL DEF Spec

\* A count that comes round is less than the words there must be.
LEMMA NumbersOfWords ==
    ASSUME NEW ws \in Seq(ByteText), CountsFit(ws), IsNumber(ws[4])
    PROVE  /\ Range(NumbersOf(ws)) \subseteq DOMAIN ws
           /\ NumbersOf(ws) # <<>> /\ Last(NumbersOf(ws)) = Len(ws)
<1> DEFINE n == Ntrks(ws)  l == Len(ws)  s == NumbersOf(ws)
<1>1. l \in Nat /\ l >= 6 /\ n # 0 /\ (n + 5) % W = l
    BY DEF CountsFit
<1>2. n \in Nat /\ n < W
    <2>1. Number(ws[4]) \in Int
        <3>1. ws[4] \in ByteText
            BY <1>1
        <3> QED  BY <3>1, NumberType
    <2>2. \A v \in Int : v % W \in 0..(W - 1)
        BY WordAssumption
    <2>3. n \in 0..(W - 1)
        BY <2>1, <2>2 DEF Ntrks
    <2> HIDE DEF n
    <2> QED  BY <2>3, WordAssumption
<1> HIDE DEF n, l
<1>3. n + 5 = l
    <2>1. W \in Nat \ {0}
        BY WordAssumption
    <2>2. CASE n + 5 < W
        <3>1. (n + 5) % W = n + 5
            BY <1>2, <2>1, <2>2
        <3> QED  BY <1>1, <3>1
    <2>3. CASE ~(n + 5 < W) /\ W <= 5
        <3>1. (n + 5) % W < W
            BY <1>2, <2>1
        <3> QED  BY <1>1, <2>1, <2>3, <3>1
    <2>4. CASE ~(n + 5 < W) /\ ~(W <= 5)
        <3>1. (n + 5) - W \in 0..4
            BY <1>2, <2>1, <2>4
        <3>2. (n + 5) % W = (n + 5) - W
            BY <1>2, <2>1, <2>4, <3>1
        <3> QED  BY <1>1, <3>1, <3>2
    <2> QED  BY <2>2, <2>3, <2>4
<1>4. s = [i \in 1..(n + 1) |-> i + 4]
    BY DEF NumbersOf, n
<1> HIDE DEF s
<1>5. s \in Seq(Nat) /\ Len(s) = n + 1 /\ \A i \in 1..(n + 1) : s[i] = i + 4
    BY <1>2, <1>4
<1>6. s # <<>> /\ Last(s) = s[n + 1]
    BY <1>2, <1>5 DEF Last
<1>7. s[n + 1] = l
    <2>1. n + 1 \in 1..(n + 1) /\ (n + 1) + 4 = l
        BY <1>2, <1>3
    <2> QED  BY <1>5, <2>1
<1>8. Range(s) \subseteq 1..l
    <2>1. \A i \in 1..(n + 1) : s[i] \in 1..l
        BY <1>1, <1>2, <1>3, <1>5
    <2>2. DOMAIN s = 1..(n + 1)
        BY <1>4
    <2> QED  BY <2>1, <2>2 DEF Range
<1> QED  BY <1>6, <1>7, <1>8 DEF s, l

LEMMA NumbersStep ==
    ASSUME Typed, NumbersAreWords, Next
    PROVE  NumbersAreWords'
<1>1. CASE UNCHANGED <<asked, seen>>
    BY <1>1 DEF NumbersAreWords
<1>2. CASE CddbRequest
    <2> DEFINE ws == Lower(words)
    <2>1. ws \in Seq(ByteText)
        BY LowerIs DEF IsLower, Typed
    <2>2. CommandOf(ws) /\ seen' = Append(seen, ws)
        BY <1>2 DEF CddbRequest
    <2> HIDE DEF ws
    <2>3. Last(seen') = ws
        <3>1. seen \in Seq(Seq(ByteText))
            BY DEF Typed
        <3> QED  BY <2>1, <2>2, <3>1 DEF Last
    <2>4. asked' = <<>> \/ (CountsFit(ws) /\ IsNumber(ws[4]) /\ asked' = NumbersOf(ws))
        BY <2>2 DEF CommandOf, QueryCommand, ReadCommand
    <2> QED  BY <2>1, <2>3, <2>4, NumbersOfWords DEF NumbersAreWords
<1> QED
    BY <1>1, <1>2 DEF Next, Request, Skip, IllegalHexChar, HexChar, BeginHex, EndPart, AddChar,
        EndSplit, GetNothing, GetQuoted, GetOpen, GetPlain, Answer, Split, Throw, GetWord, answerVars

\* A query reads as numbers only words that are there, up to the last, for
\* every modulus of the number of tracks (cddbserver.cpp:367).
THEOREM QueriesReadTheirWords == Spec => []NumbersAreWords
<1>1. Init => Typed /\ NumbersAreWords
    BY TypedBegin DEF Init, NumbersAreWords
<1>2. Typed /\ NumbersAreWords /\ [Next]_vars => Typed' /\ NumbersAreWords'
    <2>1. Typed /\ NumbersAreWords /\ UNCHANGED vars => Typed' /\ NumbersAreWords'
        BY DEF vars, splitVars, wordVars, answerVars, Typed, NumbersAreWords
    <2> QED  BY <2>1, TypedStep, NumbersStep
<1> QED  BY <1>1, <1>2, PTL DEF Spec

-----------------------------------------------------------------------------
(* Where the parts of a GET are.                                           *)

\* The text u is in l, behind the byte at k.
InPlace(l, k, u) ==
    /\ k + Len(u) <= Len(l)
    /\ \A i \in 1..Len(u) : l[k + i] = u[i]

LEMMA NewPiece ==
    ASSUME NEW l \in Text, NEW u \in Text
    PROVE  InPlace(l \o u, Len(l), u)
<1> DEFINE k == l \o u  m == Len(l)  n == Len(u)
<1>1. IsConcat(k, l, u) /\ m \in Nat /\ n \in Nat
    BY ConcatIs DEF Text
<1>2. Len(k) = m + n /\ \A i \in (m + 1)..(m + n) : k[i] = u[i - m]
    BY <1>1 DEF IsConcat
<1> HIDE DEF k, m, n
<1>3. ASSUME NEW i \in 1..n PROVE k[m + i] = u[i]
    <2>1. m + i \in (m + 1)..(m + n) /\ (m + i) - m = i
        BY <1>1
    <2> QED  BY <1>2, <2>1
<1>4. m + n <= Len(k)
    BY <1>1, <1>2
<1> QED  BY <1>3, <1>4 DEF InPlace, k, m, n

LEMMA OldPiece ==
    ASSUME NEW l \in Text, NEW u \in Text, NEW k \in Nat, NEW t \in Text, InPlace(l, k, t)
    PROVE  InPlace(l \o u, k, t)
<1> DEFINE c == l \o u
<1>1. IsConcat(c, l, u) /\ Len(l) \in Nat /\ Len(u) \in Nat /\ Len(t) \in Nat
    BY ConcatIs DEF Text
<1> HIDE DEF c
<1>2. Len(c) = Len(l) + Len(u) /\ \A i \in 1..Len(l) : c[i] = l[i]
    BY <1>1 DEF IsConcat
<1>3. k + Len(t) <= Len(l)
    BY DEF InPlace
<1>4. ASSUME NEW i \in 1..Len(t) PROVE c[k + i] = t[i]
    <2>1. k + i \in 1..Len(l)
        BY <1>1, <1>3
    <2> QED  BY <1>2, <2>1 DEF InPlace
<1>5. k + Len(t) <= Len(c)
    BY <1>1, <1>2, <1>3
<1>6. InPlace(c, k, t)
    BY <1>4, <1>5 DEF InPlace
<1> QED  BY <1>6 DEF c

LEMMA InnerPiece ==
    ASSUME NEW l \in Text, NEW k \in Nat, NEW t \in Text, InPlace(l, k, t),
           NEW j \in Nat, NEW u \in Text, InPlace(t, j, u)
    PROVE  InPlace(l, k + j, u)
<1>1. Len(l) \in Nat /\ Len(t) \in Nat /\ Len(u) \in Nat
    BY DEF Text
<1>2. k + Len(t) <= Len(l) /\ j + Len(u) <= Len(t)
    BY DEF InPlace
<1>3. ASSUME NEW i \in 1..Len(u) PROVE l[(k + j) + i] = u[i]
    <2>1. j + i \in 1..Len(t) /\ (k + j) + i = k + (j + i)
        BY <1>1, <1>2
    <2>2. l[k + (j + i)] = t[j + i] /\ t[j + i] = u[i]
        BY <2>1 DEF InPlace
    <2> QED  BY <2>1, <2>2
<1>4. (k + j) + Len(u) <= Len(l)
    BY <1>1, <1>2
<1> QED  BY <1>3, <1>4 DEF InPlace

LEMMA NoBlankIsText ==
    ASSUME NEW u \in Seq(NoBlank)
    PROVE  u \in Text /\ u \in ByteText
<1>1. NoBlank \subseteq Bytes
    BY DEF NoBlank
<1> QED  BY <1>1, SeqMonotonic, BytesAreText DEF ByteText

\* A parameter: its name between an ampersand and an equals sign, and its value.
IsParameter(p, name, u) ==
    /\ p \in Text /\ Len(p) = 7 + Len(u)
    /\ p[1] = Ampersand /\ p[7] = Equals
    /\ InPlace(p, 1, name) /\ InPlace(p, 7, u)

LEMMA ParameterIs ==
    ASSUME NEW name \in Text, Len(name) = 5, NEW u \in Text
    PROVE  IsParameter(<<Ampersand>> \o name \o <<Equals>> \o u, name, u)
<1> DEFINE c1 == <<Ampersand>> \o name  c2 == c1 \o <<Equals>>  p == c2 \o u
<1>1. /\ <<Ampersand>> \in Text /\ Len(<<Ampersand>>) = 1 /\ <<Ampersand>>[1] = Ampersand
      /\ <<Equals>> \in Text /\ Len(<<Equals>>) = 1 /\ <<Equals>>[1] = Equals
    BY DEF Text, Ampersand, Equals
<1>2. c1 \in Text /\ IsConcat(c1, <<Ampersand>>, name) /\ InPlace(c1, 1, name)
    <2>1. InPlace(c1, Len(<<Ampersand>>), name)
        BY <1>1, NewPiece
    <2> QED  BY <1>1, <2>1, ConcatIs, ConcatType
<1>3. c1[1] = Ampersand /\ Len(c1) = 6
    <2> HIDE DEF c1
    <2> QED  BY <1>1, <1>2 DEF IsConcat
<1>4. c2 \in Text /\ IsConcat(c2, c1, <<Equals>>) /\ InPlace(c2, 1, name)
    <2> HIDE DEF c1
    <2> QED  BY <1>1, <1>2, ConcatIs, ConcatType, OldPiece
<1>5. c2[1] = Ampersand /\ c2[7] = Equals /\ Len(c2) = 7
    <2> HIDE DEF c1, c2
    <2> QED  BY <1>1, <1>3, <1>4 DEF IsConcat
<1>6. p \in Text /\ IsConcat(p, c2, u) /\ InPlace(p, 1, name) /\ InPlace(p, 7, u)
    <2> HIDE DEF c2
    <2>1. InPlace(p, Len(c2), u)
        BY <1>4, NewPiece
    <2> QED  BY <1>4, <1>5, <2>1, ConcatIs, ConcatType, OldPiece
<1>7. p[1] = Ampersand /\ p[7] = Equals /\ Len(p) = 7 + Len(u)
    <2> HIDE DEF c2, p
    <2> QED  BY <1>5, <1>6 DEF IsConcat
<1>8. IsParameter(p, name, u)
    BY <1>6, <1>7 DEF IsParameter
<1> QED  BY <1>8

Begin10 == Get \o Target

\* The values of the three parameters, what is in front of them, and the
\* version behind them.
Layout(l, u, v, w) ==
    /\ l \in ByteText /\ u \in Seq(NoBlank) /\ v \in Seq(NoBlank) /\ w \in Seq(NoBlank)
    /\ InPlace(l, 0, Begin10) /\ InPlace(l, 10, u)
    /\ l[11 + Len(u)] = Ampersand /\ InPlace(l, 11 + Len(u), Hello)
    /\ l[17 + Len(u)] = Equals /\ InPlace(l, 17 + Len(u), v)
    /\ l[18 + Len(u) + Len(v)] = Ampersand /\ InPlace(l, 18 + Len(u) + Len(v), Head(Proto))
    /\ l[24 + Len(u) + Len(v)] = Equals /\ InPlace(l, 24 + Len(u) + Len(v), w)
    /\ l[25 + Len(u) + Len(v) + Len(w)] = Space
    /\ Len(l) = 33 + Len(u) + Len(v) + Len(w)

LEMMA PieceByte ==
    ASSUME NEW l \in Text, NEW k \in Nat, NEW p \in Text, InPlace(l, k, p), NEW i \in 1..Len(p)
    PROVE  l[k + i] = p[i]
BY DEF InPlace

LEMMA LayoutIs ==
    ASSUME NEW u \in Seq(NoBlank), NEW v \in Seq(NoBlank), NEW w \in Seq(NoBlank)
    PROVE  Layout(Get \o Target \o u
                    \o (<<Ampersand>> \o Hello \o <<Equals>> \o v)
                    \o (<<Ampersand>> \o Head(Proto) \o <<Equals>> \o w) \o Version, u, v, w)
<1> DEFINE h == Hello  r == Head(Proto)
           p == <<Ampersand>> \o h \o <<Equals>> \o v
           q == <<Ampersand>> \o r \o <<Equals>> \o w
           c1 == Begin10 \o u  c2 == c1 \o p  c3 == c2 \o q  l == c3 \o Version
           a == Len(u)  b == Len(v)  c == Len(w)
<1>1. u \in Text /\ v \in Text /\ w \in Text /\ a \in Nat /\ b \in Nat /\ c \in Nat
    BY NoBlankIsText DEF Text
<1>2. h \in Text /\ r \in Text /\ Len(h) = 5 /\ Len(r) = 5
    BY DEF Hello, Proto, Text
<1>3. Begin10 \in Text /\ Len(Begin10) = 10
    BY DEF Begin10, Get, Target, Question, Equals, Text
<1>4. Version \in Text /\ Len(Version) = 9 /\ Version[1] = Space
    BY DEF Version, Space, Text
<1>5. IsParameter(p, h, v) /\ IsParameter(q, r, w)
    <2> HIDE DEF h, r
    <2> QED  BY <1>1, <1>2, ParameterIs
<1>6. l \in ByteText
    <2>1. Begin10 \in ByteText
        BY WordsAreBytes, ByteConcat DEF Begin10
    <2>2. <<Ampersand>> \in ByteText /\ <<Equals>> \in ByteText /\ Version \in ByteText
        BY DEF Ampersand, Equals, Version, Space, ByteText, Bytes
    <2>3. h \in ByteText /\ r \in ByteText
        BY DEF Hello, Proto, ByteText, Bytes
    <2>4. u \in ByteText /\ v \in ByteText /\ w \in ByteText
        BY NoBlankIsText
    <2> HIDE DEF h, r
    <2>5. p \in ByteText /\ q \in ByteText
        <3>1. <<Ampersand>> \o h \in ByteText /\ <<Ampersand>> \o r \in ByteText
            BY <2>2, <2>3, ByteConcat
        <3>2. <<Ampersand>> \o h \o <<Equals>> \in ByteText
            BY <2>2, <3>1, ByteConcat
        <3>3. <<Ampersand>> \o r \o <<Equals>> \in ByteText
            BY <2>2, <3>1, ByteConcat
        <3> QED  BY <2>4, <3>2, <3>3, ByteConcat
    <2> HIDE DEF p, q
    <2>6. c1 \in ByteText
        BY <2>1, <2>4, ByteConcat
    <2> HIDE DEF c1
    <2>7. c2 \in ByteText
        BY <2>5, <2>6, ByteConcat
    <2> HIDE DEF c2
    <2>8. c3 \in ByteText
        BY <2>5, <2>7, ByteConcat
    <2> HIDE DEF c3
    <2> QED  BY <2>2, <2>8, ByteConcat
<1> HIDE DEF p, q, h, r
<1>7. p \in Text /\ q \in Text /\ Len(p) = 7 + b /\ Len(q) = 7 + c
    BY <1>5 DEF IsParameter
<1>8. c1 \in Text /\ Len(c1) = 10 + a /\ InPlace(c1, 0, Begin10) /\ InPlace(c1, 10, u)
    <2>1. IsConcat(c1, Begin10, u)
        BY <1>1, <1>3, ConcatIs
    <2>2. InPlace(c1, Len(Begin10), u)
        BY <1>1, <1>3, NewPiece
    <2> HIDE DEF c1
    <2>3. InPlace(c1, 0, Begin10)
        BY <1>1, <1>3, <2>1 DEF IsConcat, InPlace
    <2> QED  BY <1>3, <2>1, <2>2, <2>3 DEF IsConcat
<1> HIDE DEF c1
<1>9. c2 \in Text /\ Len(c2) = 17 + a + b /\ InPlace(c2, 0, Begin10) /\ InPlace(c2, 10, u)
      /\ InPlace(c2, 10 + a, p)
    <2>1. IsConcat(c2, c1, p)
        BY <1>7, <1>8, ConcatIs
    <2>2. InPlace(c2, Len(c1), p)
        BY <1>7, <1>8, NewPiece
    <2>3. InPlace(c2, 0, Begin10) /\ InPlace(c2, 10, u)
        BY <1>1, <1>3, <1>7, <1>8, OldPiece
    <2> HIDE DEF c2
    <2> QED  BY <1>1, <1>7, <1>8, <2>1, <2>2, <2>3 DEF IsConcat
<1> HIDE DEF c2
<1>10. c3 \in Text /\ Len(c3) = 24 + a + b + c /\ InPlace(c3, 0, Begin10)
       /\ InPlace(c3, 10, u) /\ InPlace(c3, 10 + a, p) /\ InPlace(c3, 17 + a + b, q)
    <2>1. IsConcat(c3, c2, q)
        BY <1>7, <1>9, ConcatIs
    <2>2. InPlace(c3, Len(c2), q)
        BY <1>7, <1>9, NewPiece
    <2>3. InPlace(c3, 0, Begin10) /\ InPlace(c3, 10, u)
        BY <1>1, <1>3, <1>7, <1>9, OldPiece
    <2>4. 10 + a \in Nat
        BY <1>1
    <2>5. InPlace(c3, 10 + a, p)
        BY <1>7, <1>9, <2>4, OldPiece
    <2> HIDE DEF c3
    <2> QED  BY <1>1, <1>7, <1>9, <2>1, <2>2, <2>3, <2>5 DEF IsConcat
<1> HIDE DEF c3
<1>11. l \in Text /\ Len(l) = 33 + a + b + c /\ InPlace(l, 0, Begin10)
       /\ InPlace(l, 10, u) /\ InPlace(l, 10 + a, p) /\ InPlace(l, 17 + a + b, q)
       /\ InPlace(l, 24 + a + b + c, Version)
    <2>1. IsConcat(l, c3, Version)
        BY <1>4, <1>10, ConcatIs
    <2>2. InPlace(l, Len(c3), Version)
        BY <1>4, <1>10, NewPiece
    <2>3. InPlace(l, 0, Begin10) /\ InPlace(l, 10, u)
        BY <1>1, <1>3, <1>4, <1>10, OldPiece
    <2>4. 10 + a \in Nat /\ 17 + a + b \in Nat
        BY <1>1
    <2>5. InPlace(l, 10 + a, p)
        BY <1>4, <1>7, <1>10, <2>4, OldPiece
    <2>6. InPlace(l, 17 + a + b, q)
        BY <1>4, <1>7, <1>10, <2>4, OldPiece
    <2> HIDE DEF l
    <2> QED  BY <1>1, <1>4, <1>10, <2>1, <2>2, <2>3, <2>5, <2>6 DEF IsConcat
<1>12. l = Get \o Target \o u \o p \o q \o Version
    BY DEF c1, c2, c3, Begin10
<1> HIDE DEF l, a, b, c
<1>13. /\ l[(10 + a) + 1] = p[1] /\ l[(10 + a) + 7] = p[7]
       /\ l[(17 + a + b) + 1] = q[1] /\ l[(17 + a + b) + 7] = q[7]
       /\ l[(24 + a + b + c) + 1] = Version[1]
    <2>1. 1 \in 1..Len(p) /\ 7 \in 1..Len(p) /\ 1 \in 1..Len(q) /\ 7 \in 1..Len(q)
          /\ 1 \in 1..Len(Version)
        BY <1>1, <1>4, <1>7
    <2> QED  BY <1>11, <2>1 DEF InPlace
<1>14. InPlace(l, (10 + a) + 1, h) /\ InPlace(l, (10 + a) + 7, v)
    <2>1. 10 + a \in Nat /\ InPlace(p, 1, h) /\ InPlace(p, 7, v)
        BY <1>1, <1>5 DEF IsParameter
    <2> QED  BY <1>1, <1>2, <1>7, <1>11, <2>1, InnerPiece
<1>15. InPlace(l, (17 + a + b) + 1, r) /\ InPlace(l, (17 + a + b) + 7, w)
    <2>1. 17 + a + b \in Nat /\ InPlace(q, 1, r) /\ InPlace(q, 7, w)
        BY <1>1, <1>5 DEF IsParameter
    <2> QED  BY <1>1, <1>2, <1>7, <1>11, <2>1, InnerPiece
<1>16. /\ (10 + a) + 1 = 11 + a /\ (10 + a) + 7 = 17 + a
       /\ (17 + a + b) + 1 = 18 + a + b /\ (17 + a + b) + 7 = 24 + a + b
       /\ (24 + a + b + c) + 1 = 25 + a + b + c
    BY <1>1
<1>17. /\ l[11 + a] = Ampersand /\ InPlace(l, 11 + a, h)
       /\ l[17 + a] = Equals /\ InPlace(l, 17 + a, v)
       /\ l[18 + a + b] = Ampersand /\ InPlace(l, 18 + a + b, r)
       /\ l[24 + a + b] = Equals /\ InPlace(l, 24 + a + b, w)
       /\ l[25 + a + b + c] = Space
    <2>1. p[1] = Ampersand /\ p[7] = Equals /\ q[1] = Ampersand /\ q[7] = Equals
        BY <1>5 DEF IsParameter
    <2> QED  BY <1>4, <1>13, <1>14, <1>15, <1>16, <2>1
<1>18. Layout(l, u, v, w)
    BY <1>6, <1>11, <1>17 DEF Layout, a, b, c, h, r
<1> QED  BY <1>12, <1>18 DEF p, q, h, r

UrlOf(ws, gap, style) == Url(Joined(ws, gap), style[1], style[2])

\* The three parameters of a GET that is not cut.
LEMMA WholeGet ==
    ASSUME NEW cmd, NEW offer, NEW hello, NEW gap, NEW style,
           IsGet(cmd, offer, hello, gap, style), ~client.cut
    PROVE  Layout(input, UrlOf(cmd, gap, style), UrlOf(Tail(hello), gap, style),
                  UrlOf(Tail(Proto), gap, style))
<1> DEFINE u == UrlOf(cmd, gap, style)  v == UrlOf(Tail(hello), gap, style)
           w == UrlOf(Tail(Proto), gap, style)
<1>1. cmd \in Seq(ByteText) /\ hello \in Line /\ Head(hello) = Hello /\ gap \in Seq(Delimiters)
      /\ style \in Styles
    BY DEF IsGet, Asks, Line, GapSet
<1>2. Tail(hello) \in Seq(ByteText) /\ Tail(Proto) \in Seq(ByteText)
    BY <1>1, WordsAreBytes DEF Line
<1>3. ASSUME NEW ws \in Seq(ByteText) PROVE UrlOf(ws, gap, style) \in Seq(NoBlank)
    <2>1. Joined(ws, gap) \in ByteText
        BY <1>1, JoinedType
    <2> QED  BY <1>1, <2>1, UrlIs DEF IsUrl, UrlOf
<1>4. u \in Seq(NoBlank) /\ v \in Seq(NoBlank) /\ w \in Seq(NoBlank)
    BY <1>1, <1>2, <1>3
<1>5. input = GetLine(cmd, hello, gap, style[1], style[2]) \o Version
    BY DEF IsGet, SentGet
<1>6. GetLine(cmd, hello, gap, style[1], style[2]) =
        Get \o Target \o u \o (<<Ampersand>> \o Hello \o <<Equals>> \o v)
            \o (<<Ampersand>> \o Head(Proto) \o <<Equals>> \o w)
    BY <1>1 DEF GetLine, Parameter, UrlOf
<1> HIDE DEF u, v, w
<1>7. input = Get \o Target \o u \o (<<Ampersand>> \o Hello \o <<Equals>> \o v)
            \o (<<Ampersand>> \o Head(Proto) \o <<Equals>> \o w) \o Version
    BY <1>5, <1>6
<1>8. Layout(input, u, v, w)
    BY <1>4, <1>7, LayoutIs
<1> QED  BY <1>8 DEF u, v, w

\* A name stands between an ampersand and an equals sign.
Named(l, m, name) ==
    /\ l[m] = Ampersand /\ l[m + 6] = Equals
    /\ name \in Text /\ Len(name) = 5
    /\ \A i \in 1..5 : name[i] \in 97..122 /\ l[m + i] = name[i]

\* The marks of a GET: the ampersands of its two names, and the blank before
\* its version.
Marks(l, a, b, e) ==
    /\ l \in ByteText /\ a \in Nat /\ b \in Nat /\ e \in Nat
    /\ a > 10 /\ b > a + 6 /\ e > b + 6 /\ Len(l) = e + 8
    /\ \A i \in 1..10 : l[i] = Begin10[i]
    /\ Named(l, a, Hello) /\ Named(l, b, Head(Proto))
    /\ l[e] = Space /\ \A i \in 11..(e - 1) : l[i] # Space

LEMMA NamesAre ==
    /\ Hello \in Text /\ Len(Hello) = 5 /\ \A i \in 1..5 : Hello[i] \in 97..122
    /\ Head(Proto) \in Text /\ Len(Head(Proto)) = 5 /\ \A i \in 1..5 : Head(Proto)[i] \in 97..122
BY DEF Hello, Proto, Text

LEMMA NamedIs ==
    ASSUME NEW l \in Text, NEW m \in Nat, l[m] = Ampersand, l[m + 6] = Equals,
           NEW name \in {Hello, Head(Proto)}, InPlace(l, m, name)
    PROVE  Named(l, m, name)
<1>1. name \in Text /\ Len(name) = 5 /\ \A i \in 1..5 : name[i] \in 97..122
    BY NamesAre
<1> QED  BY <1>1 DEF Named, InPlace

LEMMA MarksAre ==
    ASSUME NEW l, NEW u, NEW v, NEW w, Layout(l, u, v, w)
    PROVE  Marks(l, 11 + Len(u), 18 + Len(u) + Len(v), 25 + Len(u) + Len(v) + Len(w))
<1> DEFINE x == Len(u)  y == Len(v)  z == Len(w)
           a == 11 + x  b == 18 + x + y  e == 25 + x + y + z
           r == Head(Proto)
<1>1. l \in ByteText /\ l \in Text
    BY BytesAreText DEF Layout
<1>2. /\ x \in Nat /\ y \in Nat /\ z \in Nat
      /\ (\A i \in 1..x : u[i] # Space) /\ (\A i \in 1..y : v[i] # Space)
      /\ (\A i \in 1..z : w[i] # Space)
    BY DEF Layout, NoBlank
<1>3. /\ InPlace(l, 0, Begin10) /\ InPlace(l, 10, u)
      /\ l[a] = Ampersand /\ InPlace(l, a, Hello)
      /\ l[17 + x] = Equals /\ InPlace(l, 17 + x, v)
      /\ l[b] = Ampersand /\ InPlace(l, b, r)
      /\ l[24 + x + y] = Equals /\ InPlace(l, 24 + x + y, w)
      /\ l[e] = Space /\ Len(l) = 33 + x + y + z
    BY DEF Layout
<1> HIDE DEF x, y, z, r
<1>4. /\ a \in Nat /\ b \in Nat /\ e \in Nat
      /\ a > 10 /\ b > a + 6 /\ e > b + 6 /\ Len(l) = e + 8
      /\ 17 + x = a + 6 /\ 24 + x + y = b + 6
    BY <1>2, <1>3
<1> HIDE DEF a, b, e
<1>5. \A i \in 1..10 : l[i] = Begin10[i]
    <2>1. Len(Begin10) = 10
        BY DEF Begin10, Get, Target, Question, Equals
    <2> HIDE DEF Begin10
    <2>2. \A i \in 1..10 : l[0 + i] = Begin10[i]
        BY <1>3, <2>1 DEF InPlace
    <2> QED  BY <2>2
<1>6. Named(l, a, Hello) /\ Named(l, b, r)
    BY <1>1, <1>3, <1>4, NamedIs DEF r
<1>7. ASSUME NEW i \in 11..(e - 1) PROVE l[i] # Space
    <2>1. CASE i < a
        <3>1. i - 10 \in 1..x /\ 10 + (i - 10) = i
            BY <1>2, <2>1 DEF a
        <3>2. l[10 + (i - 10)] = u[i - 10]
            BY <1>3, <3>1 DEF InPlace, x
        <3> QED  BY <1>2, <3>1, <3>2
    <2>2. CASE i = a \/ i = b \/ i = a + 6 \/ i = b + 6
        <3>1. l[a] = Ampersand /\ l[b] = Ampersand /\ l[a + 6] = Equals /\ l[b + 6] = Equals
            BY <1>3, <1>4
        <3>2. Ampersand # Space /\ Equals # Space
            BY DEF Ampersand, Equals, Space
        <3> QED  BY <2>2, <3>1, <3>2, Zenon
    <2>3. CASE i > a /\ i < a + 6
        <3>1. i - a \in 1..5 /\ a + (i - a) = i
            BY <1>4, <2>3
        <3>2. Hello[i - a] \in 97..122 /\ l[a + (i - a)] = Hello[i - a]
            BY <1>6, <3>1 DEF Named
        <3> QED  BY <3>1, <3>2 DEF Space
    <2>4. CASE i > a + 6 /\ i < b
        <3>1. i - (a + 6) \in 1..y /\ (a + 6) + (i - (a + 6)) = i
            BY <1>2, <1>4, <2>4 DEF a, b
        <3>2. l[(a + 6) + (i - (a + 6))] = v[i - (a + 6)]
            BY <1>3, <1>4, <3>1 DEF InPlace, y
        <3> QED  BY <1>2, <3>1, <3>2
    <2>5. CASE i > b /\ i < b + 6
        <3>1. i - b \in 1..5 /\ b + (i - b) = i
            BY <1>4, <2>5
        <3>2. r[i - b] \in 97..122 /\ l[b + (i - b)] = r[i - b]
            BY <1>6, <3>1 DEF Named
        <3> QED  BY <3>1, <3>2 DEF Space
    <2>6. CASE i > b + 6
        <3>1. i - (b + 6) \in 1..z /\ (b + 6) + (i - (b + 6)) = i
            BY <1>2, <1>4, <2>6 DEF b, e
        <3>2. l[(b + 6) + (i - (b + 6))] = w[i - (b + 6)]
            BY <1>3, <1>4, <3>1 DEF InPlace, z
        <3> QED  BY <1>2, <3>1, <3>2
    <2> QED  BY <1>4, <2>1, <2>2, <2>3, <2>4, <2>5, <2>6
<1>8. Marks(l, a, b, e)
    BY <1>1, <1>3, <1>4, <1>5, <1>6, <1>7 DEF Marks, r
<1> QED  BY <1>8 DEF a, b, e, x, y, z

-----------------------------------------------------------------------------
(* What the splitter has done with the parameters, whatever is in their    *)
(* values.                                                                 *)

BeginsWith(text, name) ==
    /\ text \in ByteText /\ Len(text) > 5 /\ text[6] = Space
    /\ \A i \in 1..5 : text[i] = name[i]

InName(m, name) ==
    m < pos /\ pos <= m + 6 =>
        /\ state = "QueryReplaceEqual" /\ hex.count = 0
        /\ Len(query) = pos - m - 1 /\ \A i \in 1..(pos - m - 1) : query[i] = name[i]

InValue(m, f, k, name) ==
    m + 6 < pos /\ pos <= f /\ Len(parts) = k => BeginsWith(query, name)

\* A value may be in several parts, but two names and three parts are enough
\* to know all of them.
StateAt(e) ==
    /\ pos <= 6 => state = "Preamble"
    /\ 6 < pos /\ pos <= 10 => state = "QueryCmd"
    /\ 10 < pos /\ pos <= e => state \in InQuery
    /\ e < pos => state = "HttpVersion"

PartsAt(a, b, e) ==
    /\ a < pos => Len(parts) >= 1
    /\ b < pos => Len(parts) >= 2 /\ (Len(parts) = 2 => BeginsWith(parts[2], Hello))
    /\ e < pos => /\ Len(parts) >= 3
                  /\ Len(parts) = 3 => /\ BeginsWith(parts[2], Hello)
                                       /\ BeginsWith(parts[3], Head(Proto))

NamesKept(a, b, e) ==
    /\ StateAt(e) /\ PartsAt(a, b, e)
    /\ InName(a, Hello) /\ InName(b, Head(Proto))
    /\ InValue(a, b, 1, Hello) /\ InValue(b, e, 2, Head(Proto))

\* What a turn of the splitter does with a byte of the parameters.
QueryStep ==
    /\ SplitStep
    /\ \/ /\ Ch \notin {Ampersand, Space} /\ parts' = parts /\ state' \in InQuery
          /\ query' = query \/ \E x \in Bytes : query' = Append(query, x)
       \/ /\ Ch \in {Ampersand, Space} /\ parts' = Append(parts, query) /\ query' = <<>>
          /\ hex.count = 0 /\ hex' = hex
          /\ state' = IF Ch = Ampersand THEN "QueryReplaceEqual" ELSE "HttpVersion"
    /\ hex.count = 0 /\ Ch \in 97..122 =>
          query' = Append(query, Ch) /\ hex' = hex /\ state' = state
    /\ hex.count = 0 /\ Ch = Equals /\ state = "QueryReplaceEqual" =>
          query' = Append(query, Space)

LEMMA QueryStepIs ==
    ASSUME Typed, HexChar \/ BeginHex \/ EndPart \/ AddChar
    PROVE  QueryStep
<1>1. SplitStep /\ state \in InQuery
    BY DEF HexChar, BeginHex, EndPart, AddChar, Split, SplitStep
<1>2. Ch \in Bytes
    BY <1>1 DEF SplitStep, Typed, Ch, ByteText
<1>3. Ampersand \notin HexDigits /\ Space \notin HexDigits
    BY DEF Ampersand, Space, HexDigits, Digits
<1>4. CASE HexChar
    <2> DEFINE c == hex.char * 16 + HexDigit(Ch)
    <2>1. hex.count # 0 /\ Ch \in HexDigits /\ UNCHANGED <<state, parts>>
          /\ query' = IF hex.count = 1 THEN Append(query, c) ELSE query
        BY <1>4 DEF HexChar
    <2>2. hex.count = 1 => c \in Bytes
        <3>1. HexDigit(Ch) \in 0..15
            BY <2>1, HexDigitBytes
        <3> DEFINE d == hex.char  x == HexDigit(Ch)
        <3>2. hex.count = 1 => d \in 0..15
            <4>1. d \in 0..255 /\ (hex.count = 1 => d <= 15)
                BY DEF Typed, Bytes
            <4> HIDE DEF d
            <4> QED  BY <4>1
        <3> HIDE DEF d, x
        <3>3. hex.count = 1 => d * 16 + x \in 0..255
            BY <3>1, <3>2 DEF x
        <3> QED  BY <3>3 DEF Bytes, d, x
    <2> HIDE DEF c
    <2>3. query' = query \/ \E x \in Bytes : query' = Append(query, x)
        BY <2>1, <2>2
    <2> QED  BY <1>1, <1>3, <2>1, <2>3 DEF QueryStep
<1>5. CASE BeginHex
    BY <1>1, <1>5 DEF BeginHex, QueryStep, Percent, Ampersand, Space, Equals
<1>6. CASE EndPart
    BY <1>1, <1>6 DEF EndPart, QueryStep, Ampersand, Space, Equals
<1>7. CASE AddChar
    <2> DEFINE x == IF Ch = Plus \/ FirstEquals THEN Space ELSE Ch
    <2>1. hex.count = 0 /\ Ch \notin {Percent, Ampersand, Space} /\ UNCHANGED <<hex, parts>>
          /\ query' = Append(query, x) /\ state' = IF FirstEquals THEN "Query" ELSE state
        BY <1>7 DEF AddChar
    <2>2. x \in Bytes
        BY <1>2 DEF Space, Bytes
    <2>3. Ch \in 97..122 => x = Ch /\ ~FirstEquals
        BY DEF FirstEquals, Plus, Equals
    <2>4. Ch = Equals /\ state = "QueryReplaceEqual" => x = Space
        BY DEF FirstEquals
    <2>5. state' \in InQuery
        BY <1>1, <2>1 DEF InQuery
    <2> HIDE DEF x
    <2> QED  BY <1>1, <2>1, <2>2, <2>3, <2>4, <2>5 DEF QueryStep
<1> QED  BY <1>4, <1>5, <1>6, <1>7

LEMMA PosIs ==
    ASSUME Typed
    PROVE  pos \in Nat /\ pos > 0 /\ Len(query) \in Nat /\ Len(parts) \in Nat
BY DEF Typed, ByteText

\* The state is that of the place.
LEMMA StateStep ==
    ASSUME Typed, NEW CONSTANT a, NEW CONSTANT b, NEW CONSTANT e, Marks(input, a, b, e), StateAt(e),
           \/ Skip
           \/ QueryStep /\ state \in InQuery
    PROVE  StateAt(e)'
<1>1. pos \in Nat /\ pos > 0 /\ e \in Nat /\ e > 16
    BY PosIs DEF Marks
<1>2. /\ \A i \in 1..10 : input[i] = Begin10[i]
      /\ input[e] = Space /\ \A i \in 11..(e - 1) : input[i] # Space
    BY DEF Marks
<1>3. pos' = pos + 1 /\ pos <= Len(input)
    BY DEF Skip, Split, QueryStep, SplitStep
<1>4. CASE Skip
    <2>1. /\ state \in {"Preamble", "QueryCmd", "HttpVersion"}
          /\ state' = IF state = "Preamble" /\ Ch = Question THEN "QueryCmd"
                      ELSE IF state = "QueryCmd" /\ Ch = Equals THEN "Query" ELSE state
        BY <1>4 DEF Skip, Split
    <2>2. pos <= 10 \/ pos > e
        BY <1>1, <2>1 DEF StateAt, InQuery
    <2>3. /\ pos < 6 => Ch # Question
          /\ pos = 6 => Ch = Question
          /\ 6 < pos /\ pos < 10 => Ch # Equals
          /\ pos = 10 => Ch = Equals
        <3>1. /\ \A i \in 1..5 : Begin10[i] # Question
              /\ Begin10[6] = Question
              /\ \A i \in 7..9 : Begin10[i] # Equals
              /\ Begin10[10] = Equals
            BY DEF Begin10, Get, Target, Question, Equals
        <3> HIDE DEF Begin10
        <3> QED  BY <1>1, <1>2, <3>1 DEF Ch
    <2>4. CASE pos < 6
        BY <1>1, <1>3, <2>1, <2>3, <2>4 DEF StateAt
    <2>5. CASE pos = 6
        BY <1>1, <1>3, <2>1, <2>3, <2>5 DEF StateAt
    <2>6. CASE 6 < pos /\ pos < 10
        BY <1>1, <1>3, <2>1, <2>3, <2>6 DEF StateAt
    <2>7. CASE pos = 10
        BY <1>1, <1>3, <2>1, <2>3, <2>7 DEF StateAt, InQuery
    <2>8. CASE pos > e
        BY <1>1, <1>3, <2>1, <2>8 DEF StateAt
    <2> QED  BY <1>1, <2>2, <2>4, <2>5, <2>6, <2>7, <2>8
<1>5. CASE QueryStep /\ state \in InQuery
    <2>1. 10 < pos /\ pos <= e
        BY <1>1, <1>5 DEF StateAt, InQuery
    <2>2. state' \in InQuery \/ (Ch = Space /\ state' = "HttpVersion")
        BY <1>5 DEF QueryStep, InQuery
    <2>3. CASE pos = e
        <3>1. Ch = Space
            BY <1>2, <2>3 DEF Ch
        <3>2. state' = "HttpVersion"
            BY <1>5, <3>1 DEF QueryStep, Space, Ampersand
        <3> QED  BY <1>1, <1>3, <2>3, <3>2 DEF StateAt
    <2>4. CASE pos < e
        <3>1. Ch # Space
            BY <1>1, <1>2, <2>1, <2>4 DEF Ch
        <3> QED  BY <1>1, <1>3, <2>1, <2>2, <2>4, <3>1 DEF StateAt
    <2> QED  BY <1>1, <2>1, <2>3, <2>4
<1> QED  BY <1>4, <1>5

LEMMA InNameStep ==
    ASSUME Typed, QueryStep, NEW CONSTANT m \in Nat, NEW CONSTANT name, Named(input, m, name),
           InName(m, name)
    PROVE  InName(m, name)'
<1>1. pos \in Nat /\ pos' = pos + 1 /\ query \in Seq(Bytes)
    BY DEF QueryStep, SplitStep, Typed, ByteText
<1>2. CASE pos = m
    <2>1. Ch = Ampersand
        BY <1>2 DEF Ch, Named
    <2>2. query' = <<>> /\ hex' = hex /\ hex.count = 0 /\ state' = "QueryReplaceEqual"
        BY <2>1 DEF QueryStep
    <2> QED  BY <1>1, <1>2, <2>2 DEF InName
<1>3. CASE m < pos /\ pos < m + 6
    <2>1. /\ state = "QueryReplaceEqual" /\ hex.count = 0
          /\ Len(query) = pos - m - 1 /\ \A i \in 1..(pos - m - 1) : query[i] = name[i]
        BY <1>1, <1>3 DEF InName
    <2>2. pos - m \in 1..5 /\ m + (pos - m) = pos
        BY <1>1, <1>3
    <2>3. Ch = name[pos - m] /\ Ch \in 97..122
        BY <2>2 DEF Ch, Named
    <2>4. query' = Append(query, Ch) /\ hex' = hex /\ state' = state
        BY <2>1, <2>3 DEF QueryStep
    <2>5. Len(query') = pos - m /\ query'[pos - m] = Ch
          /\ \A i \in 1..(pos - m - 1) : query'[i] = query[i]
        BY <1>1, <2>1, <2>2, <2>4
    <2>6. \A i \in 1..(pos - m) : query'[i] = name[i]
        <3> TAKE i \in 1..(pos - m)
        <3>1. CASE i = pos - m
            BY <2>3, <2>5, <3>1
        <3>2. CASE i # pos - m
            <4>1. i \in 1..(pos - m - 1)
                BY <2>2, <3>2
            <4> QED  BY <2>1, <2>5, <4>1
        <3> QED  BY <3>1, <3>2
    <2>7. pos' - m - 1 = pos - m
        BY <1>1
    <2> QED  BY <2>1, <2>4, <2>5, <2>6, <2>7 DEF InName
<1>4. CASE ~(m <= pos /\ pos < m + 6)
    BY <1>1, <1>4 DEF InName
<1> QED  BY <1>1, <1>2, <1>3, <1>4

LEMMA BeginsWithMore ==
    ASSUME NEW text, NEW name, BeginsWith(text, name), NEW x \in Bytes
    PROVE  BeginsWith(Append(text, x), name)
<1> DEFINE t == Append(text, x)
<1>1. text \in Seq(Bytes) /\ Len(text) > 5
    BY DEF BeginsWith, ByteText
<1>2. t \in Seq(Bytes) /\ Len(t) > 5 /\ \A i \in 1..6 : t[i] = text[i]
    BY <1>1
<1> HIDE DEF t
<1>3. BeginsWith(t, name)
    BY <1>2 DEF BeginsWith, ByteText
<1> QED  BY <1>3 DEF t

IsAppend(l, s, x) ==
    /\ l \in Seq(Bytes) /\ Len(l) = Len(s) + 1 /\ l[Len(s) + 1] = x
    /\ \A i \in 1..Len(s) : l[i] = s[i]

LEMMA AppendIs ==
    ASSUME NEW s \in Seq(Bytes), NEW x \in Bytes
    PROVE  IsAppend(Append(s, x), s, x)
BY DEF IsAppend

LEMMA InValueStep ==
    ASSUME Typed, QueryStep, NEW CONSTANT m \in Nat, NEW CONSTANT f \in Nat,
           NEW CONSTANT k \in Nat, NEW CONSTANT name, Named(input, m, name),
           InName(m, name), InValue(m, f, k, name), m < pos => Len(parts) >= k
    PROVE  InValue(m, f, k, name)'
<1> SUFFICES ASSUME m + 6 < pos', pos' <= f, Len(parts') = k
             PROVE  BeginsWith(query', name)
    BY DEF InValue
<1>1. pos \in Nat /\ pos' = pos + 1 /\ query \in Seq(Bytes) /\ parts \in Seq(ByteText)
    BY DEF QueryStep, SplitStep, Typed, ByteText
<1>2. CASE pos = m + 6
    <2>1. /\ state = "QueryReplaceEqual" /\ hex.count = 0
          /\ Len(query) = 5 /\ \A i \in 1..5 : query[i] = name[i]
        <3>1. pos - m - 1 = 5 /\ m < pos /\ pos <= m + 6
            BY <1>2
        <3> QED  BY <3>1 DEF InName
    <2>2. Ch = Equals
        BY <1>2 DEF Ch, Named
    <2>3. query' = Append(query, Space)
        BY <2>1, <2>2 DEF QueryStep
    <2>4. Space \in Bytes
        BY DEF Space, Bytes
    <2>5. query' \in Seq(Bytes) /\ Len(query') = 6 /\ query'[6] = Space
          /\ \A i \in 1..5 : query'[i] = query[i]
        <3>1. IsAppend(query', query, Space)
            BY <1>1, <2>3, <2>4, AppendIs
        <3> QED  BY <2>1, <3>1 DEF IsAppend
    <2> QED  BY <2>1, <2>5 DEF BeginsWith, ByteText
<1>3. CASE pos > m + 6
    <2>1. m < pos /\ m + 6 < pos /\ pos <= f /\ Len(parts) >= k
        BY <1>1, <1>3
    <2>2. parts' # Append(parts, query)
        <3>1. Len(Append(parts, query)) = Len(parts) + 1 /\ Len(parts) \in Nat
            BY <1>1
        <3> QED  BY <2>1, <3>1
    <2>3. parts' = parts /\ (query' = query \/ \E x \in Bytes : query' = Append(query, x))
        BY <2>2 DEF QueryStep
    <2>4. BeginsWith(query, name)
        BY <2>1, <2>3 DEF InValue
    <2> QED  BY <2>3, <2>4, BeginsWithMore
<1> QED  BY <1>1, <1>2, <1>3

LEMMA PartsStep ==
    ASSUME Typed, QueryStep, state \in InQuery,
           NEW CONSTANT a, NEW CONSTANT b, NEW CONSTANT e, Marks(input, a, b, e),
           NamesKept(a, b, e)
    PROVE  PartsAt(a, b, e)'
<1>1. /\ pos \in Nat /\ pos' = pos + 1 /\ parts \in Seq(ByteText) /\ query \in ByteText
      /\ Len(parts) \in Nat
    BY DEF QueryStep, SplitStep, Typed
<1>2. /\ a \in Nat /\ b \in Nat /\ e \in Nat /\ b > a + 6 /\ e > b + 6
      /\ input[a] = Ampersand /\ input[b] = Ampersand /\ input[e] = Space
    BY DEF Marks, Named
<1>3. pos <= e
    BY <1>1, <1>2 DEF NamesKept, StateAt, InQuery
<1> DEFINE n == Len(parts)
<1>4. /\ a < pos => n >= 1
      /\ b < pos => n >= 2 /\ (n = 2 => BeginsWith(parts[2], Hello))
    BY DEF NamesKept, PartsAt
<1>5. CASE parts' = parts /\ Ch \notin {Ampersand, Space}
    <2>1. pos # a /\ pos # b /\ pos # e
        BY <1>2, <1>5 DEF Ch
    <2>2. ~(e < pos')
        BY <1>1, <1>2, <1>3, <2>1
    <2>3. (a < pos' => a < pos) /\ (b < pos' => b < pos)
        BY <1>1, <1>2, <2>1
    <2> QED  BY <1>4, <1>5, <2>2, <2>3 DEF PartsAt
<1>6. CASE parts' = Append(parts, query)
    <2>1. Len(parts') = n + 1 /\ parts'[n + 1] = query /\ \A i \in 1..n : parts'[i] = parts[i]
        BY <1>1, <1>6
    <2> HIDE DEF n
    <2>2. n \in Nat
        BY <1>1 DEF n
    <2>3. a < pos' => n + 1 >= 1
        BY <2>2
    <2>4. CASE pos < b
        <3>1. ~(b < pos') /\ ~(e < pos')
            BY <1>1, <1>2, <2>4
        <3> QED  BY <2>1, <2>3, <3>1 DEF PartsAt
    <2>5. CASE pos = b
        <3>1. a < pos /\ a + 6 < pos /\ pos <= b /\ ~(e < pos')
            BY <1>1, <1>2, <2>5
        <3>2. n >= 1 /\ (n = 1 => BeginsWith(query, Hello))
            BY <1>4, <3>1 DEF NamesKept, InValue, n
        <3>3. n + 1 >= 2 /\ (n + 1 = 2 => BeginsWith(parts'[2], Hello))
            BY <2>1, <2>2, <3>2
        <3> QED  BY <2>1, <2>3, <3>1, <3>3 DEF PartsAt
    <2>6. CASE b < pos /\ pos < e
        <3>1. n + 1 >= 2 /\ n + 1 # 2 /\ ~(e < pos')
            BY <1>1, <1>2, <1>4, <2>2, <2>6
        <3> QED  BY <2>1, <2>3, <3>1 DEF PartsAt
    <2>7. CASE pos = e
        <3>1. b < pos /\ b + 6 < pos /\ pos <= e
            BY <1>1, <1>2, <2>7
        <3>2. n >= 2 /\ (n = 2 => BeginsWith(parts[2], Hello) /\ BeginsWith(query, Head(Proto)))
            BY <1>4, <3>1 DEF NamesKept, InValue, n
        <3>3. n + 1 >= 3 /\ n + 1 # 2
            BY <2>2, <3>2
        <3>4. n + 1 = 3 => BeginsWith(parts'[2], Hello) /\ BeginsWith(parts'[3], Head(Proto))
            BY <2>1, <2>2, <3>2
        <3> QED  BY <2>1, <2>2, <3>3, <3>4 DEF PartsAt
    <2> QED  BY <1>1, <1>2, <1>3, <2>4, <2>5, <2>6, <2>7
<1> QED  BY <1>5, <1>6 DEF QueryStep

LEMMA NamesStep ==
    ASSUME Typed, NEW CONSTANT a, NEW CONSTANT b, NEW CONSTANT e, Marks(input, a, b, e),
           NamesKept(a, b, e),
           Skip \/ HexChar \/ BeginHex \/ EndPart \/ AddChar
    PROVE  NamesKept(a, b, e)'
<1>1. /\ a \in Nat /\ b \in Nat /\ e \in Nat /\ a > 10 /\ b > a + 6 /\ e > b + 6
      /\ Named(input, a, Hello) /\ Named(input, b, Head(Proto))
    BY DEF Marks
<1>2. pos \in Nat
    BY PosIs
<1>3. CASE Skip
    <2>1. pos' = pos + 1 /\ UNCHANGED <<hex, query, parts>> /\ state \notin InQuery
        BY <1>3 DEF Skip, Split, InQuery
    <2>2. pos <= 10 \/ pos > e
        BY <1>2, <1>1, <2>1 DEF NamesKept, StateAt
    <2>3. StateAt(e)'
        BY <1>3, StateStep DEF NamesKept
    <2>4. PartsAt(a, b, e)'
        <3>1. (a < pos' => a < pos) /\ (b < pos' => b < pos) /\ (e < pos' => e < pos)
            BY <1>1, <1>2, <2>1, <2>2
        <3> QED  BY <2>1, <3>1 DEF NamesKept, PartsAt
    <2>5. /\ ~(a < pos' /\ pos' <= a + 6) /\ ~(b < pos' /\ pos' <= b + 6)
          /\ ~(a + 6 < pos' /\ pos' <= b) /\ ~(b + 6 < pos' /\ pos' <= e)
        BY <1>1, <1>2, <2>1, <2>2
    <2> QED  BY <2>3, <2>4, <2>5 DEF NamesKept, InName, InValue
<1>4. CASE HexChar \/ BeginHex \/ EndPart \/ AddChar
    <2>1. QueryStep /\ state \in InQuery
        BY <1>4, QueryStepIs DEF HexChar, BeginHex, EndPart, AddChar, Split
    <2>2. StateAt(e)'
        BY <2>1, StateStep DEF NamesKept
    <2>3. PartsAt(a, b, e)'
        BY <2>1, PartsStep
    <2>4. InName(a, Hello)' /\ InName(b, Head(Proto))'
        <3>1. InName(a, Hello) /\ InName(b, Head(Proto))
            BY DEF NamesKept
        <3>2. InName(a, Hello)'
            BY <1>1, <2>1, <3>1, InNameStep
        <3>3. InName(b, Head(Proto))'
            BY <1>1, <2>1, <3>1, InNameStep
        <3> QED  BY <3>2, <3>3
    <2>5. InValue(a, b, 1, Hello)' /\ InValue(b, e, 2, Head(Proto))'
        <3>1. /\ InName(a, Hello) /\ InName(b, Head(Proto))
              /\ InValue(a, b, 1, Hello) /\ InValue(b, e, 2, Head(Proto))
              /\ a < pos => Len(parts) >= 1
              /\ b < pos => Len(parts) >= 2
            BY DEF NamesKept, PartsAt
        <3>2. InValue(a, b, 1, Hello)'
            BY <1>1, <2>1, <3>1, InValueStep
        <3>3. InValue(b, e, 2, Head(Proto))'
            BY <1>1, <2>1, <3>1, InValueStep
        <3> QED  BY <3>2, <3>3
    <2> QED  BY <2>2, <2>3, <2>4, <2>5 DEF NamesKept
<1> QED  BY <1>3, <1>4

-----------------------------------------------------------------------------
(* Who says hello is welcome.                                              *)

Names == {Hello, Head(Proto)}

\* A text that begins with a name has it as its first word.
FirstWord(name) == IF words = <<>> THEN start = 1 ELSE words[1] = name

LEMMA FirstWordIs ==
    ASSUME Typed, GetNothing \/ GetQuoted \/ GetOpen \/ GetPlain,
           NEW CONSTANT name \in Names, BeginsWith(CurrentText, name), FirstWord(name)
    PROVE  FirstWord(name)'
<1>1. CASE words # <<>>
    <2>1. \E word : words' = Append(words, word)
        BY DEF GetNothing, GetQuoted, GetOpen, GetPlain, GetWord
    <2>2. words \in Seq(ByteText)
        BY DEF Typed
    <2>3. words'[1] = words[1] /\ words' # <<>>
        BY <1>1, <2>1, <2>2
    <2> QED  BY <1>1, <2>3 DEF FirstWord
<1>2. CASE words = <<>>
    <2> DEFINE t == CurrentText
    <2>1. start = 1 /\ t \in Seq(Bytes) /\ Len(t) > 5 /\ t[6] = Space
          /\ (\A i \in 1..5 : t[i] = name[i] /\ t[i] \in 97..122) /\ Len(name) = 5 /\ name \in Text
        BY <1>2, NamesAre DEF FirstWord, BeginsWith, Names, ByteText
    <2>2. NextWord
        BY DEF GetNothing, GetQuoted, GetOpen, GetPlain
    <2>3. /\ Begin \in 1..(Len(t) + 1)
          /\ \A i \in 1..Len(t) : i < Begin => t[i] \in Delimiters
        BY <2>1, <2>2, BeginIs
    <2> HIDE DEF t
    <2>4. \A i \in 1..5 : t[i] \notin Delimiters /\ t[i] # Quote
        <3>1. \A c \in 97..122 : c \notin Delimiters /\ c # Quote
            BY DEF Delimiters, Space, Tab, Return, LineFeed, Quote
        <3> QED  BY <2>1, <3>1
    <2>5. Begin = 1
        <3>1. 1 \in 1..Len(t) /\ t[1] \notin Delimiters
            BY <2>1, <2>4
        <3>2. ~(1 < Begin)
            BY <2>3, <3>1
        <3> QED  BY <2>3, <3>2
    <2>6. ~IsQuoted /\ ~(Begin > Len(CurrentText))
        BY <2>1, <2>4, <2>5 DEF IsQuoted, t
    <2>7. Ends \in SUBSET Nat /\ 6 \in Ends /\ \A i \in Ends : 6 <= i
        <3>1. Ends = {i \in 1..Len(t) : t[i] \in Delimiters}
            BY <2>5 DEF Ends, t
        <3>2. Space \in Delimiters
            BY DEF Delimiters
        <3>3. 6 \in 1..Len(t) /\ Len(t) \in Nat
            BY <2>1
        <3>4. ASSUME NEW i \in 1..Len(t), t[i] \in Delimiters PROVE 6 <= i
            <4>1. i \notin 1..5
                BY <2>4, <3>4
            <4> QED  BY <3>3, <4>1
        <3> QED  BY <2>1, <3>1, <3>2, <3>3, <3>4
    <2>8. Min(Ends) = 6
        <3>1. Ends \subseteq Int
            BY <2>7
        <3> QED  BY <2>7, <3>1, LeastOf
    <2>9. GetWord(SubSeq(t, 1, 6 - 1), 6 + 1)
        BY <2>5, <2>6, <2>7, <2>8 DEF GetNothing, GetQuoted, GetOpen, GetPlain, t
    <2>10. SubSeq(t, 1, 5) = name
        <3>1. /\ SubSeq(t, 1, 5) \in Seq(Bytes) /\ Len(SubSeq(t, 1, 5)) = 5
              /\ \A i \in 1..5 : SubSeq(t, 1, 5)[i] = t[i]
            BY <2>1
        <3>2. name \in Seq(Int)
            BY <2>1 DEF Text
        <3> QED  BY <2>1, <3>1, <3>2
    <2>11. words' = Append(words, name)
        BY <2>9, <2>10 DEF GetWord
    <2>12. words' # <<>> /\ words'[1] = name
        BY <1>2, <2>11
    <2> QED  BY <2>12 DEF FirstWord
<1> QED  BY <1>1, <1>2

Welcomed == user = RegisterUser(Tail(seen[1]))

Welcoming ==
    /\ Len(seen) \in 0..3
    /\ Len(seen) = 0 =>
        /\ Len(texts) = 3 /\ FirstWord(Hello)
        /\ BeginsWith(texts[1], Hello) /\ BeginsWith(texts[2], Head(Proto))
    /\ Len(seen) = 1 =>
        /\ Len(texts) = 2 /\ FirstWord(Head(Proto)) /\ Welcomed
        /\ BeginsWith(texts[1], Head(Proto))
    /\ Len(seen) = 2 => Len(texts) = 1 /\ Welcomed
    /\ Len(seen) = 3 => texts = <<>>

Polite ==
    /\ BeforeVersion /\ UserIsWelcome
    /\ Len(client.words) = 3 /\ ~client.cut =>
        /\ phase \in {"received", "splitting"} =>
             /\ \E a, b, e : Marks(input, a, b, e) /\ NamesKept(a, b, e)
             /\ seen = <<>> /\ words = <<>> /\ start = 1
        /\ phase = "words" => Welcoming

LEMMA PoliteBegin ==
    ASSUME Init
    PROVE  Polite
<1>1. /\ pos = 1 /\ state = "Preamble" /\ phase = "received"
      /\ seen = <<>> /\ words = <<>> /\ start = 1
    BY DEF Init
<1>2. ASSUME Len(client.words) = 3, ~client.cut
      PROVE  \E a, b, e : Marks(input, a, b, e) /\ NamesKept(a, b, e)
    <2>1. ASSUME NEW cmd, NEW offer, NEW gap, NEW ending, IsLine(cmd, offer, gap, ending)
          PROVE  FALSE
        <3>1. client.words = <<cmd>>
            BY <2>1 DEF IsLine, SentLine
        <3> QED  BY <1>2, <3>1
    <2>2. PICK cmd, offer, hello, gap, style : IsGet(cmd, offer, hello, gap, style)
        BY <2>1, ReceiveIs DEF Init
    <2>3. PICK u, v, w : Layout(input, u, v, w)
        BY <1>2, <2>2, WholeGet
    <2>4. PICK a, b, e : Marks(input, a, b, e)
        BY <2>3, MarksAre
    <2>5. a \in Nat /\ b \in Nat /\ e \in Nat /\ a > 10 /\ b > a + 6 /\ e > b + 6
        BY <2>4 DEF Marks
    <2>6. ~(a < 1) /\ ~(b < 1) /\ ~(e < 1) /\ ~(a + 6 < 1) /\ ~(b + 6 < 1)
        BY <2>5
    <2>7. NamesKept(a, b, e)
        BY <1>1, <2>6 DEF NamesKept, StateAt, PartsAt, InName, InValue
    <2> QED  BY <2>4, <2>7
<1>3. BeforeVersion
    BY CutBegin
<1>4. UserIsWelcome
    BY <1>1 DEF UserIsWelcome
<1> QED  BY <1>1, <1>2, <1>3, <1>4 DEF Polite

LEMMA MarksBeginGet ==
    ASSUME NEW a, NEW b, NEW e, Marks(input, a, b, e)
    PROVE  BeginsGet
<1>1. input \in Seq(Bytes) /\ Len(input) >= 4 /\ \A i \in 1..4 : input[i] = Begin10[i]
    BY DEF Marks, ByteText
<1>2. Get \in Seq(Bytes) /\ Len(Get) = 4 /\ \A i \in 1..4 : Begin10[i] = Get[i]
    BY WordsAreBytes DEF Get, Begin10, Target, ByteText
<1>3. SubSeq(input, 1, 4) = Get
    <2>1. SubSeq(input, 1, 4) \in Seq(Bytes) /\ Len(SubSeq(input, 1, 4)) = 4
          /\ \A i \in 1..4 : SubSeq(input, 1, 4)[i] = input[i]
        BY <1>1
    <2> QED  BY <1>1, <1>2, <2>1
<1> QED  BY <1>1, <1>2, <1>3 DEF BeginsGet, IsPrefix

TextsConcat(c, s, t) ==
    /\ c \in Seq(ByteText) /\ Len(c) = Len(s) + Len(t)
    /\ \A i \in 1..Len(s) : c[i] = s[i]
    /\ \A i \in 1..Len(t) : c[Len(s) + i] = t[i]

LEMMA TextsConcatIs ==
    ASSUME NEW s \in Seq(ByteText), NEW t \in Seq(ByteText)
    PROVE  TextsConcat(s \o t, s, t)
<1> DEFINE S == ByteText
<1> HIDE DEF S
<1>1. s \in Seq(S) /\ t \in Seq(S)
    BY DEF S
<1>2. s \o t \in Seq(S) /\ Len(s \o t) = Len(s) + Len(t)
    BY <1>1
<1>3. \A i \in 1..Len(s) : (s \o t)[i] = s[i]
    BY <1>1
<1>4. \A i \in 1..Len(t) : (s \o t)[Len(s) + i] = t[i]
    BY <1>1
<1> QED  BY <1>2, <1>3, <1>4 DEF TextsConcat, S

\* The texts of a GET, when it is split.
LEMMA SplitWelcomes ==
    ASSUME Typed, EndSplit, IsWhole, NEW CONSTANT a, NEW CONSTANT b, NEW CONSTANT e,
           Marks(input, a, b, e), NamesKept(a, b, e), seen = <<>>, words = <<>>, start = 1
    PROVE  Welcoming'
<1>1. pos > Len(input) /\ Len(input) = e + 8 /\ e \in Nat /\ pos \in Nat
    BY PosIs DEF EndSplit, Marks
<1>2. Len(parts) = 3 /\ parts \in Seq(ByteText)
    BY DEF IsWhole, Typed
<1>3. BeginsWith(parts[2], Hello) /\ BeginsWith(parts[3], Head(Proto))
    <2>1. e < pos
        BY <1>1
    <2> QED  BY <1>2, <2>1 DEF NamesKept, PartsAt
<1>4. texts' = Tail(parts) \o <<Head(parts)>>
    BY DEF EndSplit
<1>5. Len(texts') = 3 /\ texts'[1] = parts[2] /\ texts'[2] = parts[3]
    <2> DEFINE t == Tail(parts)  h == <<Head(parts)>>  c == t \o h
    <2>1. t \in Seq(ByteText) /\ Len(t) = 2 /\ t[1] = parts[2] /\ t[2] = parts[3]
        BY <1>2
    <2>2. h \in Seq(ByteText) /\ Len(h) = 1
        BY <1>2
    <2> HIDE DEF t, h
    <2>3. Len(c) = Len(t) + Len(h) /\ \A i \in 1..Len(t) : c[i] = t[i]
        <3>1. TextsConcat(c, t, h)
            BY <2>1, <2>2, TextsConcatIs
        <3> HIDE DEF c
        <3> QED  BY <3>1 DEF TextsConcat
    <2> HIDE DEF c
    <2>4. texts' = c
        BY <1>4 DEF c, t, h
    <2> QED  BY <2>1, <2>2, <2>3, <2>4
<1>6. seen' = <<>> /\ words' = <<>> /\ start' = 1
    BY DEF EndSplit, answerVars, wordVars
<1> QED  BY <1>3, <1>5, <1>6 DEF Welcoming, FirstWord

NamesApart ==
    /\ Hello # Cddb /\ Head(Proto) # Cddb /\ Head(Proto) # Hello
    /\ Lowered(Hello) = Hello /\ Lowered(Head(Proto)) = Head(Proto)

LEMMA NamesAreApart ==
    NamesApart
<1>1. Hello # Cddb /\ Head(Proto) # Cddb /\ Head(Proto) # Hello
    BY DEF Hello, Cddb, Proto
<1>2. ASSUME NEW name \in Names PROVE Lowered(name) = name
    <2>1. name \in Seq(Int) /\ Len(name) = 5 /\ \A i \in 1..5 : name[i] \in 97..122
        BY NamesAre DEF Names, Text
    <2>2. Lowered(name) = [i \in 1..5 |-> IF name[i] \in 65..90 THEN name[i] + 32 ELSE name[i]]
        BY <2>1 DEF Lowered
    <2>3. \A i \in 1..5 : name[i] \notin 65..90
        <3> TAKE i \in 1..5
        <3> DEFINE c == name[i]
        <3>1. c \in 97..122
            BY <2>1
        <3> HIDE DEF c
        <3>2. c \notin 65..90
            BY <3>1
        <3> QED  BY <3>2 DEF c
    <2> DEFINE low(i) == IF name[i] \in 65..90 THEN name[i] + 32 ELSE name[i]
    <2>4. \A i \in 1..5 : low(i) = name[i]
        BY <2>3, Zenon
    <2>5. Lowered(name) = [i \in 1..5 |-> low(i)]
        BY <2>2, Zenon
    <2> HIDE DEF low
    <2>6. Lowered(name) = [i \in 1..5 |-> name[i]]
        BY <2>4, <2>5
    <2> QED  BY <2>1, <2>6
<1> QED  BY <1>1, <1>2 DEF NamesApart, Names

\* A text that begins with a name is worked on as words that do.
LEMMA NamedAnswer ==
    ASSUME Typed, CddbRequest, NEW name \in Names, BeginsWith(texts[1], name), FirstWord(name)
    PROVE  Lower(words) # <<>> /\ Lower(words)[1] = name
<1>1. texts \in Seq(ByteText) /\ texts # <<>> /\ words \in Seq(ByteText) /\ Eol
      /\ IsLower(Lower(words), words)
    BY LowerIs DEF Typed, CddbRequest
<1>2. words # <<>>
    <2>1. CurrentText = texts[1]
        BY <1>1 DEF CurrentText
    <2>2. ~(start = 1)
        BY <1>1, <2>1 DEF Eol, BeginsWith, ByteText
    <2> QED  BY <2>2 DEF FirstWord
<1>3. words[1] = name /\ Len(words) > 0
    BY <1>1, <1>2 DEF FirstWord
<1> QED  BY <1>1, <1>3, NamesAreApart DEF NamesApart, Names, IsLower

\* The answer to a text of a GET.
LEMMA WelcomeAnswer ==
    ASSUME Typed, Welcoming, CddbRequest,
           UserIsWelcome
    PROVE  Welcoming' /\ UserIsWelcome'
<1> DEFINE ws == Lower(words)  n == Len(seen)
<1>1. /\ CommandOf(ws) /\ seen' = Append(seen, ws) /\ texts' = Tail(texts)
      /\ texts # <<>> /\ words' = <<>> /\ start' = 1 /\ Eol /\ client' = client
    BY DEF CddbRequest
<1>2. /\ texts \in Seq(ByteText) /\ seen \in Seq(Seq(ByteText)) /\ words \in Seq(ByteText)
      /\ IsLower(ws, words)
    BY LowerIs DEF Typed
<1>3. ws \in Seq(ByteText) /\ Len(ws) = Len(words) /\ (Len(words) > 0 => ws[1] = Lowered(words[1]))
    BY <1>2 DEF IsLower
<1> HIDE DEF ws
<1>4. /\ n \in 0..3 /\ n # 3 /\ Len(seen') = n + 1 /\ seen'[n + 1] = ws
      /\ \A i \in 1..n : seen'[i] = seen[i]
    BY <1>1, <1>2, <1>3 DEF Welcoming
<1>5. ASSUME NEW name \in Names, BeginsWith(texts[1], name), FirstWord(name)
      PROVE  ws # <<>> /\ ws[1] = name
    BY <1>5, NamedAnswer DEF ws
<1>6. CASE n = 0
    <2>1. ws # <<>> /\ ws[1] = Hello
        BY <1>5, <1>6 DEF Welcoming, Names
    <2>2. user' = RegisterUser(Tail(ws))
        BY <1>1, <2>1, NamesAreApart DEF CommandOf, IsCommand, IsHello, NamesApart
    <2>3. seen'[1] = ws /\ Len(seen') = 1
        BY <1>4, <1>6
    <2>4. Len(texts) = 3 /\ BeginsWith(texts[2], Head(Proto))
        BY <1>6 DEF Welcoming
    <2>5. Len(texts') = 2 /\ texts'[1] = texts[2]
        <3> DEFINE t == texts
        <3>1. t \in Seq(ByteText) /\ Len(t) = 3
            BY <1>2, <2>4
        <3> HIDE DEF t
        <3>2. Len(Tail(t)) = 2 /\ Tail(t)[1] = t[2]
            BY <3>1
        <3> QED  BY <1>1, <3>2 DEF t
    <2>6. Welcoming'
        BY <1>1, <2>2, <2>3, <2>4, <2>5 DEF Welcoming, Welcomed, FirstWord
    <2>7. UserIsWelcome'
        BY <2>2, <2>3 DEF UserIsWelcome
    <2> QED  BY <2>6, <2>7
<1>7. CASE n = 1
    <2>1. ws # <<>> /\ ws[1] = Head(Proto)
        BY <1>5, <1>7 DEF Welcoming, Names
    <2>2. user' = user
        BY <1>1, <2>1, NamesAreApart DEF CommandOf, IsCommand, IsHello, NamesApart
    <2>3. seen'[1] = seen[1] /\ Len(seen') = 2
        BY <1>4, <1>7
    <2>4. Len(texts) = 2 /\ Welcomed
        BY <1>7 DEF Welcoming
    <2>5. Len(texts') = 1
        BY <1>1, <1>2, <2>4
    <2>6. Welcoming'
        BY <2>2, <2>3, <2>4, <2>5 DEF Welcoming, Welcomed
    <2>7. UserIsWelcome'
        BY <2>2, <2>3, <2>4 DEF UserIsWelcome, Welcomed
    <2> QED  BY <2>6, <2>7
<1>8. CASE n = 2
    <2>1. seen'[1] = seen[1] /\ Len(seen') = 3 /\ seen'[3] = ws
        BY <1>4, <1>8
    <2>2. Len(texts) = 1 /\ Welcomed
        BY <1>8 DEF Welcoming
    <2>3. texts' = <<>>
        BY <1>1, <1>2, <2>2
    <2>4. Welcoming'
        BY <2>1, <2>3 DEF Welcoming
    <2>5. user' = user \/ IsCommand(ws, Hello) \/ IsHello(ws)
        BY <1>1 DEF CommandOf
    <2>6. UserIsWelcome'
        BY <2>1, <2>2, <2>5 DEF UserIsWelcome, Welcomed, IsCommand, IsHello
    <2> QED  BY <2>4, <2>6
<1> QED  BY <1>4, <1>6, <1>7, <1>8

LEMMA PoliteStep ==
    ASSUME Typed, Polite, Next
    PROVE  Polite'
<1>1. BeforeVersion'
    BY CutStep DEF Polite
<1>2. client' = client /\ input' = input
    BY DEF Next, Request, Skip, IllegalHexChar, HexChar, BeginHex, EndPart, AddChar, EndSplit,
           GetNothing, GetQuoted, GetOpen, GetPlain, CddbRequest, Answer, Split, Throw, GetWord
<1>3. CASE Len(client.words) # 3
    <2>1. UserIsWelcome'
        BY <1>2, <1>3 DEF UserIsWelcome
    <2> QED  BY <1>1, <1>2, <1>3, <2>1 DEF Polite
<1>4. CASE Len(client.words) = 3 /\ client.cut
    <2>1. seen' = <<>>
        BY <1>1, <1>2, <1>4 DEF BeforeVersion
    <2>2. UserIsWelcome'
        BY <2>1 DEF UserIsWelcome
    <2> QED  BY <1>1, <1>2, <1>4, <2>2 DEF Polite
<1>5. CASE Len(client.words) = 3 /\ ~client.cut
    <2>1. SUFFICES /\ UserIsWelcome'
                   /\ phase' \in {"received", "splitting"} =>
                        /\ \E a, b, e : Marks(input, a, b, e)' /\ NamesKept(a, b, e)'
                        /\ seen' = <<>> /\ words' = <<>> /\ start' = 1
                   /\ phase' = "words" => Welcoming'
        BY <1>1 DEF Polite
    <2>2. /\ UserIsWelcome
          /\ phase \in {"received", "splitting"} =>
               /\ \E a, b, e : Marks(input, a, b, e) /\ NamesKept(a, b, e)
               /\ seen = <<>> /\ words = <<>> /\ start = 1
          /\ phase = "words" => Welcoming
        BY <1>5 DEF Polite
    <2>3. ASSUME UNCHANGED <<seen, user>> PROVE UserIsWelcome'
        BY <1>2, <2>2, <2>3 DEF UserIsWelcome, IsCommand, IsHello
    <2>4. CASE Request
        <3>1. phase = "received" /\ UNCHANGED <<splitVars, wordVars, answerVars>>
            BY <2>4 DEF Request
        <3>2. PICK a, b, e : Marks(input, a, b, e) /\ NamesKept(a, b, e)
            BY <2>2, <3>1
        <3>3. phase' = "splitting"
            BY <2>4, <3>2, MarksBeginGet DEF Request
        <3>4. NamesKept(a, b, e)'
            BY <3>1, <3>2 DEF splitVars, NamesKept, StateAt, PartsAt, InName, InValue
        <3>5. Marks(input, a, b, e)'
            BY <1>2, <3>2
        <3> QED  BY <2>2, <2>3, <3>1, <3>3, <3>4, <3>5 DEF wordVars, answerVars
    <2>5. CASE Skip \/ HexChar \/ BeginHex \/ EndPart \/ AddChar
        <3>1. phase = "splitting" /\ phase' = phase /\ UNCHANGED <<wordVars, answerVars>>
            BY <2>5 DEF Skip, HexChar, BeginHex, EndPart, AddChar, Split
        <3>2. PICK a, b, e : Marks(input, a, b, e) /\ NamesKept(a, b, e)
            BY <2>2, <3>1
        <3>3. NamesKept(a, b, e)'
            BY <2>5, <3>2, NamesStep
        <3>4. Marks(input, a, b, e)'
            BY <1>2, <3>2
        <3> QED  BY <2>2, <2>3, <3>1, <3>3, <3>4 DEF wordVars, answerVars
    <2>6. CASE IllegalHexChar
        BY <2>3, <2>6 DEF IllegalHexChar, Throw, answerVars
    <2>7. CASE EndSplit
        <3>1. phase = "splitting" /\ UNCHANGED <<wordVars, answerVars>>
            BY <2>7 DEF EndSplit
        <3>2. PICK a, b, e : Marks(input, a, b, e) /\ NamesKept(a, b, e)
            BY <2>2, <3>1
        <3>3. CASE IsWhole
            <4>1. Welcoming' /\ phase' = "words"
                BY <2>2, <2>7, <3>1, <3>2, <3>3, SplitWelcomes DEF EndSplit
            <4> QED  BY <2>3, <3>1, <4>1 DEF answerVars
        <3>4. CASE ~IsWhole
            BY <2>3, <2>7, <3>1, <3>4 DEF EndSplit, answerVars
        <3> QED  BY <3>3, <3>4
    <2>8. CASE GetNothing \/ GetQuoted \/ GetOpen \/ GetPlain
        <3>1. phase = "words" /\ phase' = phase /\ UNCHANGED <<texts, answerVars>> /\ texts # <<>>
            BY <2>8 DEF GetNothing, GetQuoted, GetOpen, GetPlain, NextWord, GetWord
        <3>2. CurrentText = texts[1]
            <4>1. texts \in Seq(ByteText) /\ texts # <<>>
                BY <3>1 DEF Typed
            <4> QED  BY <4>1 DEF CurrentText
        <3>3. Welcoming
            BY <2>2, <3>1
        <3>4. Len(seen) = 0 => FirstWord(Hello)'
            BY <2>8, <3>2, <3>3, FirstWordIs DEF Welcoming, Names
        <3>5. Len(seen) = 1 => FirstWord(Head(Proto))'
            BY <2>8, <3>2, <3>3, FirstWordIs DEF Welcoming, Names
        <3>6. Welcoming'
            BY <3>1, <3>3, <3>4, <3>5 DEF Welcoming, answerVars, Welcomed
        <3> QED  BY <2>3, <3>1, <3>6 DEF answerVars
    <2>9. CASE CddbRequest
        <3>1. phase = "words" /\ phase' \in {"words", "thrown"}
            BY <2>9 DEF CddbRequest, CommandOf, QueryCommand, ReadCommand
        <3>2. Welcoming' /\ UserIsWelcome'
            BY <2>2, <2>9, <3>1, WelcomeAnswer
        <3> QED  BY <3>1, <3>2
    <2>10. CASE Answer
        BY <2>3, <2>10 DEF Answer, answerVars
    <2> QED  BY <2>4, <2>5, <2>6, <2>7, <2>8, <2>9, <2>10 DEF Next
<1> QED  BY <1>3, <1>4, <1>5

LEMMA PoliteStays ==
    ASSUME Polite, UNCHANGED vars
    PROVE  Polite'
<1>1. \A a, b, e : Marks(input, a, b, e) /\ NamesKept(a, b, e) =>
                        Marks(input, a, b, e)' /\ NamesKept(a, b, e)'
    BY DEF vars, splitVars, NamesKept, StateAt, PartsAt, InName, InValue
<1>2. BeforeVersion' /\ UserIsWelcome'
    BY DEF vars, splitVars, wordVars, answerVars, Polite, BeforeVersion, UserIsWelcome,
           IsCommand, IsHello
<1>3. Welcoming => Welcoming'
    BY DEF vars, wordVars, answerVars, Welcoming, Welcomed, FirstWord
<1>4. client' = client /\ input' = input /\ phase' = phase /\ seen' = seen
      /\ words' = words /\ start' = start
    BY DEF vars, wordVars, answerVars
<1> QED  BY <1>1, <1>2, <1>3, <1>4 DEF Polite

\* Who says hello in a GET is welcomed with its own words, whatever stands in
\* its words and whether or not its client escapes them: no value of a
\* parameter becomes a parameter of its own (split_http_cddb,
\* cddbserver.cpp:511).
THEOREM UsersAreWelcome == Spec => []UserIsWelcome
<1>1. Init => Typed /\ Polite
    BY TypedBegin, PoliteBegin
<1>2. Typed /\ Polite /\ [Next]_vars => Typed' /\ Polite'
    <2>1. Typed /\ Polite /\ UNCHANGED vars => Typed' /\ Polite'
        <3> HAVE Typed /\ Polite /\ UNCHANGED vars
        <3>1. Typed'
            BY DEF vars, splitVars, wordVars, answerVars, Typed
        <3> QED  BY <3>1, PoliteStays
    <2> QED  BY <2>1, TypedStep, PoliteStep
<1>3. Polite => UserIsWelcome
    BY DEF Polite
<1> QED  BY <1>1, <1>2, <1>3, PTL DEF Spec

-----------------------------------------------------------------------------
(* A value that is escaped is unescaped byte by byte.                      *)

\* The bytes that are read of the byte j + 1.
InByte(c, start0, part, byte) ==
    \/ c = start0 /\ hex.count = 0
    \/ Len(part) = 3 /\ c = start0 + 1 /\ hex.count = 2 /\ hex.char = 0
    \/ Len(part) = 3 /\ c = start0 + 2 /\ hex.count = 1 /\ hex.char = byte \div 16

\* Of a value v behind pre, c bytes of its url are read.
DecodedTo(c, v, style, pre, ps) ==
    /\ parts = ps /\ state = "Query"
    /\ \E j \in 0..Len(v) :
         /\ query = pre \o SubSeq(v, 1, j)
         /\ \/ c = EndsOf(UrlParts(v, style))[j] /\ hex.count = 0
            \/ /\ j < Len(v)
               /\ InByte(c, EndsOf(UrlParts(v, style))[j], UrlParts(v, style)[j + 1], v[j + 1])

\* A byte more of a value, and its escape sequence.
ReadsByte(byte) ==
    /\ parts' = parts /\ state' = state /\ hex'.count = 0 /\ query' = Append(query, byte)
ReadsHex(count, char) ==
    /\ parts' = parts /\ state' = state /\ hex'.count = count /\ hex'.char = char
    /\ query' = query

SplitAction == Skip \/ HexChar \/ BeginHex \/ EndPart \/ AddChar \/ IllegalHexChar

\* The three ways a byte is escaped, and the turns that read it.
LEMMA PlainByteRead ==
    ASSUME Typed, SplitAction, state = "Query", hex.count = 0, NEW byte,
           \/ Ch = byte /\ byte \in Alphanumeric
           \/ Ch = Plus /\ byte = Space
    PROVE  SplitStep /\ ReadsByte(byte)
<1>1. Ch \notin {Percent, Ampersand, Space}
    BY DEF Alphanumeric, Digits, Percent, Ampersand, Space, Plus
<1>2. AddChar
    BY <1>1 DEF SplitAction, Skip, HexChar, BeginHex, EndPart, IllegalHexChar, Split
<1>3. ~FirstEquals
    BY DEF FirstEquals
<1>4. (IF Ch = Plus \/ FirstEquals THEN Space ELSE Ch) = byte
    BY <1>3 DEF Alphanumeric, Digits, Plus
<1> QED  BY <1>2, <1>3, <1>4 DEF AddChar, Split, SplitStep, ReadsByte

LEMMA PercentRead ==
    ASSUME Typed, SplitAction, state = "Query", hex.count = 0, Ch = Percent
    PROVE  SplitStep /\ ReadsHex(2, 0)
<1>1. BeginHex
    BY DEF SplitAction, Skip, HexChar, AddChar, EndPart, IllegalHexChar, Split,
           Percent, Ampersand, Space
<1> QED  BY <1>1 DEF BeginHex, Split, SplitStep, ReadsHex

LEMMA FirstDigitRead ==
    ASSUME Typed, SplitAction, state = "Query", hex.count = 2, hex.char = 0, Ch \in HexDigits
    PROVE  SplitStep /\ ReadsHex(1, HexDigit(Ch))
<1>1. HexChar
    BY DEF SplitAction, Skip, BeginHex, AddChar, EndPart, IllegalHexChar, Split
<1>2. HexDigit(Ch) \in 0..15
    BY HexDigitBytes
<1> DEFINE d == HexDigit(Ch)
<1>3. hex.char * 16 + d = d
    <2> HIDE DEF d
    <2> QED  BY <1>2 DEF d
<1> HIDE DEF d
<1>4. hex' = [count |-> hex.count - 1, char |-> d]
    BY <1>1, <1>3 DEF HexChar, d
<1>5. hex'.count = 1 /\ hex'.char = d
    BY <1>4
<1> QED  BY <1>1, <1>5 DEF HexChar, Split, SplitStep, ReadsHex, d

LEMMA LastDigitRead ==
    ASSUME Typed, SplitAction, state = "Query", NEW byte \in Bytes,
           hex.count = 1, hex.char = byte \div 16, Ch \in HexDigits, HexDigit(Ch) = byte % 16
    PROVE  SplitStep /\ ReadsByte(byte)
<1>1. HexChar
    BY DEF SplitAction, Skip, BeginHex, AddChar, EndPart, IllegalHexChar, Split
<1>2. hex.char * 16 + HexDigit(Ch) = byte
    <2>1. (byte \div 16) * 16 + (byte % 16) = byte
        BY DEF Bytes
    <2> QED  BY <2>1
<1>3. hex' = [count |-> 0, char |-> byte] /\ query' = Append(query, byte)
    BY <1>1, <1>2 DEF HexChar
<1>4. hex'.count = 0
    BY <1>3
<1> QED  BY <1>1, <1>3, <1>4 DEF HexChar, Split, SplitStep, ReadsByte

\* A text grows by the next byte of a value.
LEMMA ValueGrows ==
    ASSUME NEW pre \in ByteText, NEW v \in ByteText, NEW j \in 0..Len(v), j < Len(v)
    PROVE  Append(pre \o SubSeq(v, 1, j), v[j + 1]) = pre \o SubSeq(v, 1, j + 1)
<1>1. v \in Seq(Bytes) /\ Len(v) \in Nat
    BY DEF ByteText
<1>2. j + 1 \in 1..Len(v) /\ (j + 1) - 1 = j
    BY <1>1
<1> DEFINE p == SubSeq(v, 1, j)  q == SubSeq(v, 1, j + 1)  b == v[j + 1]
<1>3. p \in Seq(Bytes) /\ q = Append(p, b) /\ b \in Bytes
    BY <1>1, <1>2, PrefixGrows
<1>4. p \in Text /\ pre \in Text /\ b \in Int
    <2>1. p \in ByteText
        BY <1>3 DEF ByteText
    <2> HIDE DEF p, q, b
    <2>2. b \in Int
        BY <1>3 DEF Bytes
    <2> QED  BY <2>1, <2>2, BytesAreText
<1> HIDE DEF p, q, b
<1>5. Append(pre \o p, b) = pre \o Append(p, b)
    BY <1>4, AppendConcat
<1> QED  BY <1>3, <1>5 DEF p, q, b

\* One turn of the splitter inside of a value.
LEMMA DecodeStep ==
    ASSUME Typed, SplitAction, NEW CONSTANT o \in Nat, NEW CONSTANT u, NEW CONSTANT v \in ByteText,
           NEW CONSTANT style \in Styles, style[2] # Unescaping, IsUrl(u, v, style),
           InPlace(input, o, u), NEW CONSTANT pre \in ByteText, NEW CONSTANT ps,
           o < pos, pos <= o + Len(u),
           DecodedTo(pos - 1 - o, v, style, pre, ps)
    PROVE  SplitStep /\ DecodedTo(pos - 1 - o, v, style, pre, ps)'
<1> DEFINE c == pos - 1 - o  P == UrlParts(v, style)  E == EndsOf(P)  n == Len(v)
<1>1. pos \in Nat /\ parts = ps /\ state = "Query" /\ n \in Nat /\ Len(u) \in Nat
    BY PosIs DEF DecodedTo, ByteText, IsUrl
<1>2. c \in Nat /\ c < Len(u) /\ o + (c + 1) = pos
    BY <1>1
<1>3. Ch = u[c + 1]
    <2>1. c + 1 \in 1..Len(u)
        BY <1>1, <1>2
    <2>2. input[o + (c + 1)] = u[c + 1]
        BY <2>1 DEF InPlace
    <2> QED  BY <1>2, <2>2 DEF Ch
<1>4. /\ Len(P) = n /\ E \in [0..n -> Nat] /\ E[n] = Len(u)
      /\ \A j \in 1..n : E[j] = E[j - 1] + Len(P[j])
      /\ \A j \in 1..n : \A i \in 1..Len(P[j]) : u[E[j - 1] + i] = P[j][i]
      /\ \A j \in 1..n : Len(P[j]) >= 1 /\ EscapedAs(P[j], v[j])
    BY DEF IsUrl, IsFlat, IsUrlChar
<1> HIDE DEF c, P, E, n
<1>5. PICK j \in 0..n :
        /\ query = pre \o SubSeq(v, 1, j)
        /\ \/ c = E[j] /\ hex.count = 0
           \/ j < n /\ InByte(c, E[j], P[j + 1], v[j + 1])
    BY DEF DecodedTo, c, P, E, n
<1>6. j < n
    <2>1. CASE j = n
        <3>1. c = Len(u)
            BY <1>4, <1>5, <2>1
        <3> QED  BY <1>2, <3>1
    <2> QED  BY <1>1, <2>1
<1> DEFINE k == j + 1  part == P[k]  byte == v[k]  q == query  m == E[j]
<1>7. /\ k \in 1..n /\ k - 1 = j /\ byte \in Bytes /\ m \in Nat
      /\ E[k] = m + Len(part) /\ (\A i \in 1..Len(part) : u[m + i] = part[i])
      /\ EscapedAs(part, byte)
    <2>1. k \in 1..n /\ k - 1 = j
        BY <1>1, <1>6
    <2>2. byte \in Bytes
        BY <2>1 DEF ByteText, n
    <2>3. m \in Nat
        BY <1>4
    <2> HIDE DEF k
    <2>4. /\ E[k] = E[k - 1] + Len(P[k])
          /\ \A i \in 1..Len(P[k]) : u[E[k - 1] + i] = P[k][i]
          /\ EscapedAs(P[k], v[k])
        BY <1>4, <2>1
    <2> QED  BY <2>1, <2>2, <2>3, <2>4
<1>8. Append(q, byte) = pre \o SubSeq(v, 1, k)
    BY <1>5, <1>6, ValueGrows DEF n
<1>9. InByte(c, m, part, byte)
    BY <1>5 DEF InByte
<1> HIDE DEF k, part, byte, m
<1>a. SplitStep => (pos - 1 - o)' = c + 1
    <2>1. SplitStep => pos' = pos + 1
        BY DEF SplitStep
    <2>2. pos' = pos + 1 => pos' - 1 - o = c + 1
        BY <1>1, <1>2 DEF c
    <2> QED  BY <2>1, <2>2
<1>10. ASSUME SplitStep, ReadsByte(byte), c + 1 = E[k]
       PROVE  DecodedTo(pos - 1 - o, v, style, pre, ps)'
    <2>1. parts' = ps /\ state' = "Query" /\ hex'.count = 0 /\ query' = pre \o SubSeq(v, 1, k)
        BY <1>1, <1>8, <1>10 DEF ReadsByte
    <2>2. (pos - 1 - o)' = E[k]
        BY <1>a, <1>10
    <2>3. k \in 0..n
        BY <1>1, <1>7
    <2> QED  BY <2>1, <2>2, <2>3 DEF DecodedTo, E, P, n
<1>11. ASSUME SplitStep, NEW count, NEW char, ReadsHex(count, char), Len(part) = 3,
              \/ count = 2 /\ char = 0 /\ c + 1 = m + 1
              \/ count = 1 /\ char = byte \div 16 /\ c + 1 = m + 2
       PROVE  DecodedTo(pos - 1 - o, v, style, pre, ps)'
    <2>1. parts' = ps /\ state' = "Query" /\ hex'.count = count /\ hex'.char = char /\ query' = q
        BY <1>1, <1>11 DEF ReadsHex
    <2>2. InByte(pos - 1 - o, m, part, byte)'
        BY <1>a, <1>11, <2>1 DEF InByte
    <2>3. InByte(pos - 1 - o, E[j], P[j + 1], v[j + 1])'
        BY <2>2 DEF m, part, byte, k
    <2>4. query' = pre \o SubSeq(v, 1, j)
        BY <1>5, <2>1
    <2> QED  BY <1>6, <2>1, <2>3, <2>4 DEF DecodedTo, E, P, n
<1>12. CASE c = m /\ hex.count = 0
    <2>1. Ch = part[1]
        <3>1. Len(part) >= 1 /\ Len(part) \in Nat
            BY <1>4, <1>7 DEF part, k, EscapedAs
        <3>2. u[m + 1] = part[1]
            BY <1>7, <3>1
        <3> QED  BY <1>3, <1>12, <3>2
    <2>2. CASE part = <<byte>> /\ byte \in Alphanumeric
        <3>1. Ch = byte /\ Len(part) = 1
            BY <2>1, <2>2
        <3>2. SplitStep /\ ReadsByte(byte)
            BY <1>1, <1>12, <2>2, <3>1, PlainByteRead
        <3> QED  BY <1>7, <1>10, <1>12, <3>1, <3>2
    <2>3. CASE part = <<Plus>> /\ byte = Space
        <3>1. Ch = Plus /\ Len(part) = 1
            BY <2>1, <2>3
        <3>2. SplitStep /\ ReadsByte(byte)
            BY <1>1, <1>12, <2>3, <3>1, PlainByteRead
        <3> QED  BY <1>7, <1>10, <1>12, <3>1, <3>2
    <2>4. CASE Len(part) = 3 /\ part[1] = Percent
        <3>1. SplitStep /\ ReadsHex(2, 0)
            BY <1>1, <1>12, <2>1, <2>4, PercentRead
        <3> QED  BY <1>11, <1>12, <2>4, <3>1
    <2> QED  BY <1>7, <2>2, <2>3, <2>4 DEF EscapedAs
<1>13. ASSUME Len(part) = 3
       PROVE  /\ part[2] \in HexDigits /\ part[3] \in HexDigits
              /\ HexDigit(part[2]) = byte \div 16 /\ HexDigit(part[3]) = byte % 16
              /\ u[m + 2] = part[2] /\ u[m + 3] = part[3]
    <2>1. Len(<<byte>>) = 1 /\ Len(<<Plus>>) = 1
        OBVIOUS
    <2>2. 2 \in 1..Len(part) /\ 3 \in 1..Len(part)
        BY <1>13
    <2>3. part # <<byte>> /\ part # <<Plus>>
        <3>1. part = <<byte>> => Len(part) = 1
            BY <2>1, Zenon
        <3>2. part = <<Plus>> => Len(part) = 1
            BY <2>1, Zenon
        <3> QED  BY <1>13, <3>1, <3>2
    <2>4. /\ part[2] \in HexDigits /\ part[3] \in HexDigits
          /\ HexDigit(part[2]) = byte \div 16 /\ HexDigit(part[3]) = byte % 16
        BY <1>7, <2>3 DEF EscapedAs
    <2>5. u[m + 2] = part[2] /\ u[m + 3] = part[3]
        BY <1>7, <2>2
    <2> QED  BY <2>4, <2>5
<1>14. CASE Len(part) = 3 /\ c = m + 1 /\ hex.count = 2 /\ hex.char = 0
    <2>1. Ch = part[2] /\ c + 1 = m + 2
        BY <1>3, <1>7, <1>13, <1>14
    <2>2. SplitStep /\ ReadsHex(1, HexDigit(Ch))
        BY <1>1, <1>13, <1>14, <2>1, FirstDigitRead
    <2> QED  BY <1>11, <1>13, <1>14, <2>1, <2>2
<1>15. CASE Len(part) = 3 /\ c = m + 2 /\ hex.count = 1 /\ hex.char = byte \div 16
    <2>1. Ch = part[3] /\ c + 1 = m + 3
        BY <1>3, <1>7, <1>13, <1>15
    <2>2. SplitStep /\ ReadsByte(byte)
        BY <1>1, <1>7, <1>13, <1>15, <2>1, LastDigitRead
    <2> QED  BY <1>7, <1>10, <1>15, <2>1, <2>2
<1> QED  BY <1>9, <1>12, <1>14, <1>15 DEF InByte, c

LEMMA ValueBegins ==
    ASSUME NEW CONSTANT v \in ByteText, NEW CONSTANT style \in Styles, NEW CONSTANT u,
           IsUrl(u, v, style), NEW CONSTANT pre \in ByteText, NEW CONSTANT ps,
           NEW CONSTANT o \in Nat, pos = o, pos' = pos + 1,
           parts' = ps, state' = "Query", hex'.count = 0, query' = pre
    PROVE  DecodedTo(pos - 1 - o, v, style, pre, ps)'
<1>1. Len(v) \in Nat /\ 0 \in 0..Len(v)
    BY DEF ByteText
<1>2. EndsOf(UrlParts(v, style))[0] = 0
    BY DEF IsUrl, IsFlat
<1>3. pre \o SubSeq(v, 1, 0) = pre
    <2>1. SubSeq(v, 1, 0) = <<>>
        BY WholePrefix DEF ByteText
    <2>2. pre \o <<>> = pre
        BY ConcatEmptySeq DEF ByteText
    <2> QED  BY <2>1, <2>2
<1>4. (pos - 1 - o)' = 0
    OBVIOUS
<1> QED  BY <1>1, <1>2, <1>3, <1>4 DEF DecodedTo

LEMMA ValueEnds ==
    ASSUME NEW v \in ByteText, NEW style \in Styles, NEW u, IsUrl(u, v, style), NEW pre,
           NEW ps, style[2] # Unescaping, DecodedTo(Len(u), v, style, pre, ps)
    PROVE  parts = ps /\ state = "Query" /\ hex.count = 0 /\ query = pre \o v
<1> DEFINE P == UrlParts(v, style)  E == EndsOf(P)  n == Len(v)
<1>1. n \in Nat /\ SubSeq(v, 1, n) = v
    BY WholePrefix DEF ByteText
<1>2. /\ E \in [0..n -> Nat] /\ E[n] = Len(u) /\ Len(u) \in Nat
      /\ \A j \in 1..n : E[j] = E[j - 1] + Len(P[j]) /\ E[j] <= Len(u)
      /\ \A j \in 1..n : Len(P[j]) >= 1 /\ Len(P[j]) \in Nat
    BY DEF IsUrl, IsFlat, IsUrlChar
<1> HIDE DEF P, E, n
<1>3. PICK j \in 0..n :
        /\ query = pre \o SubSeq(v, 1, j)
        /\ \/ Len(u) = E[j] /\ hex.count = 0
           \/ j < n /\ InByte(Len(u), E[j], P[j + 1], v[j + 1])
    BY DEF DecodedTo, P, E, n
<1>4. ASSUME j < n PROVE FALSE
    <2> DEFINE k == j + 1
    <2>1. k \in 1..n /\ k - 1 = j
        BY <1>1, <1>4
    <2>2. E[k] = E[j] + Len(P[k]) /\ E[k] <= Len(u) /\ Len(P[k]) >= 1 /\ E[j] \in Nat /\ E[k] \in Nat
        <3> HIDE DEF k
        <3> QED  BY <1>1, <1>2, <2>1
    <2>3. InByte(Len(u), E[j], P[k], v[k])
        BY <1>3 DEF InByte
    <2> HIDE DEF k
    <2> DEFINE x == E[j]  y == E[k]  z == Len(P[k])  h == Len(u)
    <2>4. /\ y = x + z /\ y <= h /\ z >= 1 /\ x \in Nat /\ y \in Nat /\ z \in Nat /\ h \in Nat
          /\ h = x \/ (z = 3 /\ (h = x + 1 \/ h = x + 2))
        <3>2. Len(P[k]) \in Nat
            BY <1>2, <2>1
        <3> QED  BY <1>2, <2>2, <2>3, <3>2 DEF InByte
    <2> HIDE DEF x, y, z, h
    <2> QED  BY <2>4
<1>5. j = n /\ hex.count = 0 /\ query = pre \o v
    <2>1. j = n
        BY <1>1, <1>4
    <2>2. hex.count = 0 /\ query = pre \o SubSeq(v, 1, n)
        BY <1>3, <2>1
    <2> QED  BY <1>1, <2>1, <2>2
<1>6. parts = ps /\ state = "Query"
    BY DEF DecodedTo
<1> QED  BY <1>5, <1>6

\* A value with the byte behind it.
LEMMA ValueStep ==
    ASSUME Typed, SplitAction, NEW CONSTANT o \in Nat, NEW CONSTANT u, NEW CONSTANT v \in ByteText,
           NEW CONSTANT style \in Styles, style[2] # Unescaping, IsUrl(u, v, style),
           InPlace(input, o, u), NEW CONSTANT pre \in ByteText, NEW CONSTANT ps,
           o < pos, pos <= o + Len(u) + 1, input[o + Len(u) + 1] \in {Ampersand, Space},
           DecodedTo(pos - 1 - o, v, style, pre, ps)
    PROVE  /\ SplitStep
           /\ pos <= o + Len(u) => DecodedTo(pos - 1 - o, v, style, pre, ps)'
           /\ pos > o + Len(u) => parts' = Append(ps, pre \o v) /\ hex'.count = 0
<1>1. pos \in Nat /\ Len(u) \in Nat
    BY PosIs DEF IsUrl
<1>2. CASE pos <= o + Len(u)
    <2>1. SplitStep /\ DecodedTo(pos - 1 - o, v, style, pre, ps)'
        BY <1>2, DecodeStep
    <2> QED  BY <1>1, <1>2, <2>1
<1>3. CASE pos > o + Len(u)
    <2>1. pos = o + Len(u) + 1 /\ pos - 1 - o = Len(u)
        BY <1>1, <1>3
    <2>2. parts = ps /\ state = "Query" /\ hex.count = 0 /\ query = pre \o v
        BY <2>1, ValueEnds
    <2>3. Ch \in {Ampersand, Space}
        BY <2>1 DEF Ch
    <2>4. EndPart
        BY <2>2, <2>3 DEF SplitAction, Skip, HexChar, BeginHex, AddChar, IllegalHexChar, Split,
           Percent, Ampersand, Space
    <2>5. SplitStep /\ parts' = Append(ps, pre \o v) /\ hex' = hex
        BY <2>2, <2>4 DEF EndPart, Split, SplitStep
    <2> QED  BY <1>1, <1>3, <2>2, <2>5
<1> QED  BY <1>1, <1>2, <1>3

\* A name with the equals sign behind it.
LEMMA NameStep ==
    ASSUME Typed, SplitAction, NEW CONSTANT m \in Nat, NEW CONSTANT name, Named(input, m, name),
           InName(m, name), m < pos, pos <= m + 6
    PROVE  /\ SplitStep /\ parts' = parts
           /\ pos > m + 5 =>
                state' = "Query" /\ hex'.count = 0 /\ query' = name \o <<Space>>
<1>1. pos \in Nat /\ query \in Seq(Bytes)
    BY PosIs DEF Typed, ByteText
<1>2. /\ state = "QueryReplaceEqual" /\ hex.count = 0
      /\ Len(query) = pos - m - 1 /\ \A i \in 1..(pos - m - 1) : query[i] = name[i]
    BY DEF InName
<1>3. pos = m + 6 => Ch = Equals
    BY DEF Named, Ch
<1>4. pos < m + 6 => Ch \in 97..122
    <2>1. pos < m + 6 => pos - m \in 1..5 /\ m + (pos - m) = pos
        BY <1>1
    <2> QED  BY <2>1 DEF Named, Ch
<1>5. Ch \notin {Percent, Ampersand, Space}
    <2>1. \A c \in 97..122 : c \notin {Percent, Ampersand, Space}
        BY DEF Percent, Ampersand, Space
    <2>2. Equals \notin {Percent, Ampersand, Space}
        BY DEF Percent, Ampersand, Space, Equals
    <2>3. pos = m + 6 \/ pos < m + 6
        BY <1>1
    <2> QED  BY <1>3, <1>4, <2>1, <2>2, <2>3
<1>6. AddChar
    BY <1>2, <1>5 DEF SplitAction, Skip, HexChar, BeginHex, EndPart, IllegalHexChar, Split, InQuery
<1>7. SplitStep /\ parts' = parts /\ hex' = hex
    BY <1>6 DEF AddChar, Split, SplitStep
<1>8. ASSUME pos > m + 5 PROVE state' = "Query" /\ hex'.count = 0 /\ query' = name \o <<Space>>
    <2>1. pos = m + 6
        BY <1>1, <1>8
    <2>2. FirstEquals
        BY <1>2, <1>3, <2>1 DEF FirstEquals
    <2>3. state' = "Query" /\ query' = Append(query, Space)
        BY <1>6, <2>2 DEF AddChar
    <2>4. query = name
        <3>1. query \in Seq(Int) /\ name \in Seq(Int) /\ Len(name) = 5
            <4>1. query \in ByteText
                BY <1>1 DEF ByteText
            <4>2. query \in Text
                BY <4>1, BytesAreText
            <4> QED  BY <4>2 DEF Named, Text
        <3>2. pos - m - 1 = 5
            BY <2>1
        <3>3. Len(query) = 5 /\ \A i \in 1..5 : query[i] = name[i]
            BY <1>2, <3>2
        <3>4. Len(query) = Len(name) /\ \A i \in 1..Len(query) : query[i] = name[i]
            BY <3>1, <3>3
        <3> HIDE DEF Named
        <3> QED  BY <3>1, <3>4, SeqEqual
    <2>5. Append(name, Space) = name \o <<Space>>
        <3>1. name \in Seq(Int) /\ Space \in Int
            BY DEF Named, Text, Space
        <3> QED  BY <3>1
    <2> QED  BY <1>2, <1>7, <2>3, <2>4, <2>5
<1> QED  BY <1>7, <1>8

\* A GET that a server can read: where its three values stand, what they are
\* escaped from, and their marks.
Params(a, b, e, us, vs, style) ==
    /\ Marks(input, a, b, e)
    /\ style \in Styles /\ style[2] # Unescaping
    /\ \A i \in 1..3 : vs[i] \in ByteText /\ IsUrl(us[i], vs[i], style)
    /\ a = 11 + Len(us[1]) /\ b = a + 7 + Len(us[2]) /\ e = b + 7 + Len(us[3])
    /\ InPlace(input, 10, us[1]) /\ InPlace(input, a + 6, us[2]) /\ InPlace(input, b + 6, us[3])

\* The first word of a parameter is its name.
Labelled(name) == name \o <<Space>>
PartsOf(vs) == <<vs[1], Labelled(Hello) \o vs[2], Labelled(Head(Proto)) \o vs[3]>>

\* What is read of it.
Decoded(a, b, e, vs, style) ==
    /\ pos <= 10 => parts = <<>> /\ hex.count = 0 /\ query = <<>>
    /\ 10 < pos /\ pos <= a => DecodedTo(pos - 1 - 10, vs[1], style, <<>>, <<>>)
    /\ a < pos /\ pos <= a + 6 => parts = <<vs[1]>>
    /\ a + 6 < pos /\ pos <= b =>
         DecodedTo(pos - 1 - (a + 6), vs[2], style, Labelled(Hello), <<vs[1]>>)
    /\ b < pos /\ pos <= b + 6 => parts = <<vs[1], Labelled(Hello) \o vs[2]>>
    /\ b + 6 < pos /\ pos <= e =>
         DecodedTo(pos - 1 - (b + 6), vs[3], style, Labelled(Head(Proto)),
                   <<vs[1], Labelled(Hello) \o vs[2]>>)
    /\ e < pos => parts = PartsOf(vs) /\ hex.count = 0

LEMMA LabelsAre ==
    Labelled(Hello) \in ByteText /\ Labelled(Head(Proto)) \in ByteText
<1>1. Hello \in ByteText /\ Head(Proto) \in ByteText /\ <<Space>> \in ByteText
    BY DEF Hello, Proto, Space, ByteText, Bytes
<1> QED  BY <1>1, ByteConcat DEF Labelled

LEMMA TwoParts ==
    ASSUME NEW S, NEW s \in S, NEW t \in S
    PROVE  Append(<<s>>, t) = <<s, t>>
<1> DEFINE l == Append(<<s>>, t)  k == <<s, t>>
<1>1. <<s>> \in Seq(S) /\ k \in Seq(S) /\ Len(k) = 2 /\ k[1] = s /\ k[2] = t
    OBVIOUS
<1>2. l \in Seq(S) /\ Len(l) = 2 /\ l[1] = s /\ l[2] = t
    BY <1>1
<1> HIDE DEF l, k
<1>3. l = k
    BY <1>1, <1>2
<1> QED  BY <1>3 DEF l, k

LEMMA ThreeParts ==
    ASSUME NEW S, NEW s \in S, NEW t \in S, NEW q \in S
    PROVE  Append(<<s, t>>, q) = <<s, t, q>>
<1> DEFINE l == Append(<<s, t>>, q)  k == <<s, t, q>>
<1>1. <<s, t>> \in Seq(S) /\ k \in Seq(S) /\ Len(k) = 3 /\ k[1] = s /\ k[2] = t /\ k[3] = q
    OBVIOUS
<1>2. l \in Seq(S) /\ Len(l) = 3 /\ l[1] = s /\ l[2] = t /\ l[3] = q
    BY <1>1
<1> HIDE DEF l, k
<1>3. l = k
    BY <1>1, <1>2
<1> QED  BY <1>3 DEF l, k

LEMMA DecodedStep ==
    ASSUME Typed, SplitAction, NEW CONSTANT a, NEW CONSTANT b, NEW CONSTANT e, NEW CONSTANT us,
           NEW CONSTANT vs, NEW CONSTANT style, Params(a, b, e, us, vs, style),
           NamesKept(a, b, e), Decoded(a, b, e, vs, style)
    PROVE  SplitStep /\ Decoded(a, b, e, vs, style)'
<1>1. /\ a \in Nat /\ b \in Nat /\ e \in Nat /\ a > 10 /\ b > a + 6 /\ e > b + 6
      /\ input[a] = Ampersand /\ input[b] = Ampersand /\ input[e] = Space
      /\ Named(input, a, Hello) /\ Named(input, b, Head(Proto))
      /\ input[10] = Equals
    <2>1. Begin10[10] = Equals
        BY DEF Begin10, Get, Target, Question, Equals
    <2>2. Marks(input, a, b, e)
        BY DEF Params
    <2>3. Named(input, a, Hello) /\ Named(input, b, Head(Proto))
        BY <2>2 DEF Marks
    <2>4. input[a] = Ampersand /\ input[b] = Ampersand
        BY <2>3 DEF Named
    <2>5. 10 \in 1..10
        OBVIOUS
    <2>6. input[10] = Equals
        BY <2>1, <2>2, <2>5 DEF Marks
    <2> QED  BY <2>2, <2>3, <2>4, <2>6 DEF Marks
<1>2. pos \in Nat /\ StateAt(e) /\ InName(a, Hello) /\ InName(b, Head(Proto))
    BY PosIs DEF NamesKept
<1>3. /\ \A i \in 1..3 : vs[i] \in ByteText /\ IsUrl(us[i], vs[i], style) /\ Len(us[i]) \in Nat
      /\ style \in Styles /\ style[2] # Unescaping
      /\ a = 11 + Len(us[1]) /\ b = a + 7 + Len(us[2]) /\ e = b + 7 + Len(us[3])
      /\ InPlace(input, 10, us[1]) /\ InPlace(input, a + 6, us[2]) /\ InPlace(input, b + 6, us[3])
    <2>1. \A i \in 1..3 : vs[i] \in ByteText /\ IsUrl(us[i], vs[i], style)
        BY DEF Params
    <2>2. \A i \in 1..3 : Len(us[i]) \in Nat
        BY <2>1 DEF IsUrl
    <2> QED  BY <2>1, <2>2 DEF Params
<1> DEFINE x == Len(us[1])  y == Len(us[2])  z == Len(us[3])
<1>m. /\ x \in Nat /\ y \in Nat /\ z \in Nat
      /\ a = 11 + x /\ b = a + 7 + y /\ e = b + 7 + z
    BY <1>3
<1> HIDE DEF x, y, z
<1> DEFINE h == Labelled(Hello)  r == Labelled(Head(Proto))
<1>4. h \in ByteText /\ r \in ByteText /\ <<>> \in ByteText
    BY LabelsAre DEF ByteText
<1> HIDE DEF h, r
<1>5. CASE pos <= 10
    <2>1. state \in {"Preamble", "QueryCmd"} /\ (pos = 10 => state = "QueryCmd")
        BY <1>1, <1>2, <1>5 DEF StateAt
    <2>2. Skip
        BY <2>1 DEF SplitAction, HexChar, BeginHex, EndPart, AddChar, IllegalHexChar, Split, InQuery
    <2>3. SplitStep /\ parts' = <<>> /\ hex'.count = 0 /\ query' = <<>>
        BY <1>5, <2>2 DEF Skip, Split, SplitStep, Decoded
    <2>4. pos' = pos + 1
        BY <2>3 DEF SplitStep
    <2>5. CASE pos < 10
        <3>1. pos' <= 10
            BY <1>2, <2>4, <2>5
        <3> QED  BY <1>1, <1>2, <2>3, <2>4, <3>1 DEF Decoded
    <2>6. CASE pos = 10
        <3>1. state' = "Query"
            BY <1>1, <2>1, <2>2, <2>6 DEF Skip, Ch, Question, Equals
        <3>2. DecodedTo(pos - 1 - 10, vs[1], style, <<>>, <<>>)'
            BY <1>3, <1>4, <2>3, <2>4, <2>6, <3>1, ValueBegins
        <3>3. ~(pos' <= 10) /\ ~(a < pos') /\ ~(a + 6 < pos') /\ ~(b < pos') /\ ~(b + 6 < pos')
              /\ ~(e < pos')
            BY <1>1, <2>4, <2>6
        <3> QED  BY <2>3, <3>2, <3>3 DEF Decoded
    <2> QED  BY <1>2, <1>5, <2>5, <2>6
<1>6. CASE 10 < pos /\ pos <= a
    <2>1. DecodedTo(pos - 1 - 10, vs[1], style, <<>>, <<>>)
        BY <1>6 DEF Decoded
    <2>2. /\ input[10 + Len(us[1]) + 1] \in {Ampersand, Space} /\ pos <= 10 + Len(us[1]) + 1
        BY <1>1, <1>3, <1>6
    <2>3. /\ SplitStep
          /\ pos <= 10 + Len(us[1]) => DecodedTo(pos - 1 - 10, vs[1], style, <<>>, <<>>)'
          /\ pos > 10 + Len(us[1]) => parts' = Append(<<>>, <<>> \o vs[1]) /\ hex'.count = 0
        <3>1. vs[1] \in ByteText /\ IsUrl(us[1], vs[1], style) /\ 10 \in Nat
            BY <1>3
        <3> QED  BY <1>3, <1>4, <1>6, <2>1, <2>2, <3>1, ValueStep
    <2>4. pos' = pos + 1
        BY <2>3 DEF SplitStep
    <2>5. CASE pos < a
        <3>1. ~(pos' <= 10) /\ ~(a < pos') /\ ~(a + 6 < pos') /\ ~(b < pos') /\ ~(b + 6 < pos')
              /\ ~(e < pos') /\ pos <= 10 + x
            BY <1>1, <1>2, <1>m, <1>6, <2>4, <2>5
        <3> QED  BY <2>3, <3>1 DEF Decoded, x
    <2>6. CASE pos = a
        <3>1. ~(pos' <= 10) /\ ~(pos' <= a) /\ ~(a + 6 < pos') /\ ~(b < pos') /\ ~(b + 6 < pos')
              /\ ~(e < pos') /\ pos > 10 + x
            BY <1>1, <1>2, <1>m, <2>4, <2>6
        <3>2. Append(<<>>, <<>> \o vs[1]) = <<vs[1]>>
            <4>1. <<>> \o vs[1] = vs[1]
                BY <1>3, ConcatEmptySeq DEF ByteText
            <4> QED  BY <4>1
        <3> QED  BY <2>3, <3>1, <3>2 DEF Decoded, x
    <2> QED  BY <1>1, <1>2, <1>6, <2>3, <2>5, <2>6
<1>7. CASE a < pos /\ pos <= a + 6
    <2>1. /\ SplitStep /\ parts' = parts
          /\ pos > a + 5 => state' = "Query" /\ hex'.count = 0 /\ query' = h
        BY <1>1, <1>2, <1>7, NameStep DEF h, Labelled
    <2>2. pos' = pos + 1 /\ parts' = <<vs[1]>>
        BY <1>7, <2>1 DEF SplitStep, Decoded
    <2>3. CASE pos < a + 6
        <3>1. ~(pos' <= 10) /\ ~(pos' <= a) /\ ~(a + 6 < pos') /\ ~(b < pos') /\ ~(b + 6 < pos')
              /\ ~(e < pos')
            BY <1>1, <1>2, <1>7, <2>2, <2>3
        <3> QED  BY <2>1, <2>2, <3>1 DEF Decoded
    <2>4. CASE pos = a + 6
        <3>1. a + 6 \in Nat /\ pos > a + 5
            BY <1>1, <2>4
        <3>2. DecodedTo(pos - 1 - (a + 6), vs[2], style, h, <<vs[1]>>)'
            <4>1. vs[2] \in ByteText /\ IsUrl(us[2], vs[2], style)
                BY <1>3
            <4> QED  BY <1>3, <1>4, <2>1, <2>2, <2>4, <3>1, <4>1, ValueBegins
        <3>3. ~(pos' <= 10) /\ ~(pos' <= a) /\ ~(pos' <= a + 6) /\ ~(b < pos') /\ ~(b + 6 < pos')
              /\ ~(e < pos')
            BY <1>1, <2>2, <2>4
        <3> QED  BY <2>1, <3>2, <3>3 DEF Decoded, h
    <2> QED  BY <1>1, <1>2, <1>7, <2>3, <2>4
<1>8. CASE a + 6 < pos /\ pos <= b
    <2>1. DecodedTo(pos - 1 - (a + 6), vs[2], style, h, <<vs[1]>>)
        BY <1>8 DEF Decoded, h
    <2>2. /\ input[(a + 6) + Len(us[2]) + 1] \in {Ampersand, Space}
          /\ pos <= (a + 6) + Len(us[2]) + 1 /\ a + 6 \in Nat
        <3>1. (a + 6) + y + 1 = b /\ a + 6 \in Nat
            BY <1>1, <1>m
        <3> QED  BY <1>1, <1>8, <3>1 DEF y
    <2>3. /\ SplitStep
          /\ pos <= (a + 6) + Len(us[2]) => DecodedTo(pos - 1 - (a + 6), vs[2], style, h, <<vs[1]>>)'
          /\ pos > (a + 6) + Len(us[2]) => parts' = Append(<<vs[1]>>, h \o vs[2]) /\ hex'.count = 0
        <3>1. vs[2] \in ByteText /\ IsUrl(us[2], vs[2], style)
            BY <1>3
        <3> QED  BY <1>3, <1>4, <1>8, <2>1, <2>2, <3>1, ValueStep
    <2>4. pos' = pos + 1
        BY <2>3 DEF SplitStep
    <2>5. CASE pos < b
        <3>1. ~(pos' <= 10) /\ ~(pos' <= a) /\ ~(pos' <= a + 6) /\ ~(b < pos') /\ ~(b + 6 < pos')
              /\ ~(e < pos') /\ pos <= (a + 6) + y
            BY <1>1, <1>2, <1>m, <1>8, <2>4, <2>5
        <3> QED  BY <2>3, <3>1 DEF Decoded, h, y
    <2>6. CASE pos = b
        <3>1. ~(pos' <= 10) /\ ~(pos' <= a) /\ ~(pos' <= a + 6) /\ ~(pos' <= b) /\ ~(b + 6 < pos')
              /\ ~(e < pos') /\ pos > (a + 6) + y
            BY <1>1, <1>2, <1>m, <2>4, <2>6
        <3>2. Append(<<vs[1]>>, h \o vs[2]) = <<vs[1], h \o vs[2]>>
            <4>1. vs[1] \in ByteText /\ h \o vs[2] \in ByteText
                BY <1>3, <1>4, ByteConcat
            <4> QED  BY <4>1, TwoParts
        <3> QED  BY <2>3, <3>1, <3>2 DEF Decoded, h, y
    <2> QED  BY <1>1, <1>2, <1>8, <2>3, <2>5, <2>6
<1>9. CASE b < pos /\ pos <= b + 6
    <2>1. /\ SplitStep /\ parts' = parts
          /\ pos > b + 5 => state' = "Query" /\ hex'.count = 0 /\ query' = r
        BY <1>1, <1>2, <1>9, NameStep DEF r, Labelled
    <2>2. pos' = pos + 1 /\ parts' = <<vs[1], h \o vs[2]>>
        BY <1>9, <2>1 DEF SplitStep, Decoded, h
    <2>3. CASE pos < b + 6
        <3>1. ~(pos' <= 10) /\ ~(pos' <= a) /\ ~(pos' <= a + 6) /\ ~(pos' <= b) /\ ~(b + 6 < pos')
              /\ ~(e < pos')
            BY <1>1, <1>2, <1>9, <2>2, <2>3
        <3> QED  BY <2>1, <2>2, <3>1 DEF Decoded, h
    <2>4. CASE pos = b + 6
        <3>1. b + 6 \in Nat /\ pos > b + 5
            BY <1>1, <2>4
        <3>2. DecodedTo(pos - 1 - (b + 6), vs[3], style, r, <<vs[1], h \o vs[2]>>)'
            <4>1. vs[3] \in ByteText /\ IsUrl(us[3], vs[3], style)
                BY <1>3
            <4> QED  BY <1>3, <1>4, <2>1, <2>2, <2>4, <3>1, <4>1, ValueBegins
        <3>3. ~(pos' <= 10) /\ ~(pos' <= a) /\ ~(pos' <= a + 6) /\ ~(pos' <= b) /\ ~(pos' <= b + 6)
              /\ ~(e < pos')
            BY <1>1, <2>2, <2>4
        <3> QED  BY <2>1, <3>2, <3>3 DEF Decoded, h, r
    <2> QED  BY <1>1, <1>2, <1>9, <2>3, <2>4
<1>10. CASE b + 6 < pos /\ pos <= e
    <2> DEFINE ps == <<vs[1], h \o vs[2]>>
    <2>1. DecodedTo(pos - 1 - (b + 6), vs[3], style, r, ps)
        BY <1>10 DEF Decoded, h, r
    <2>2. /\ input[(b + 6) + Len(us[3]) + 1] \in {Ampersand, Space}
          /\ pos <= (b + 6) + Len(us[3]) + 1 /\ b + 6 \in Nat
        <3>1. (b + 6) + z + 1 = e /\ b + 6 \in Nat
            BY <1>1, <1>m
        <3> QED  BY <1>1, <1>10, <3>1 DEF z
    <2>3. /\ SplitStep
          /\ pos <= (b + 6) + Len(us[3]) => DecodedTo(pos - 1 - (b + 6), vs[3], style, r, ps)'
          /\ pos > (b + 6) + Len(us[3]) => parts' = Append(ps, r \o vs[3]) /\ hex'.count = 0
        <3>1. vs[3] \in ByteText /\ IsUrl(us[3], vs[3], style)
            BY <1>3
        <3> HIDE DEF ps
        <3> QED  BY <1>3, <1>4, <1>10, <2>1, <2>2, <3>1, ValueStep
    <2>4. pos' = pos + 1
        BY <2>3 DEF SplitStep
    <2>5. CASE pos < e
        <3>1. ~(pos' <= 10) /\ ~(pos' <= a) /\ ~(pos' <= a + 6) /\ ~(pos' <= b) /\ ~(pos' <= b + 6)
              /\ ~(e < pos') /\ pos <= (b + 6) + z
            BY <1>1, <1>2, <1>m, <1>10, <2>4, <2>5
        <3> QED  BY <2>3, <3>1 DEF Decoded, h, r, z
    <2>6. CASE pos = e
        <3>1. ~(pos' <= 10) /\ ~(pos' <= a) /\ ~(pos' <= a + 6) /\ ~(pos' <= b) /\ ~(pos' <= b + 6)
              /\ ~(pos' <= e) /\ pos > (b + 6) + z
            BY <1>1, <1>2, <1>m, <2>4, <2>6
        <3>2. Append(ps, r \o vs[3]) = <<vs[1], h \o vs[2], r \o vs[3]>>
            <4>1. vs[1] \in ByteText /\ h \o vs[2] \in ByteText /\ r \o vs[3] \in ByteText
                BY <1>3, <1>4, ByteConcat
            <4> QED  BY <4>1, ThreeParts
        <3> QED  BY <2>3, <3>1, <3>2 DEF Decoded, PartsOf, h, r, z
    <2> QED  BY <1>1, <1>2, <1>10, <2>3, <2>5, <2>6
<1>11. CASE e < pos
    <2>1. state = "HttpVersion"
        BY <1>1, <1>2, <1>11 DEF StateAt
    <2>2. Skip
        BY <2>1 DEF SplitAction, HexChar, BeginHex, EndPart, AddChar, IllegalHexChar, Split, InQuery
    <2>3. SplitStep /\ parts' = PartsOf(vs) /\ hex'.count = 0
        BY <1>11, <2>2 DEF Skip, Split, SplitStep, Decoded
    <2>4. ~(pos' <= 10) /\ ~(pos' <= a) /\ ~(pos' <= a + 6) /\ ~(pos' <= b) /\ ~(pos' <= b + 6)
          /\ ~(pos' <= e)
        BY <1>1, <1>2, <1>11, <2>3 DEF SplitStep
    <2> QED  BY <2>3, <2>4 DEF Decoded
<1> QED  BY <1>1, <1>2, <1>5, <1>6, <1>7, <1>8, <1>9, <1>10, <1>11

\* The values of a GET and how they are written in it.
ValuesOf(cmd, hello, gap) == <<Joined(cmd, gap), Joined(Tail(hello), gap), Joined(Tail(Proto), gap)>>
UrlsOf(cmd, hello, gap, style) ==
    <<UrlOf(cmd, gap, style), UrlOf(Tail(hello), gap, style), UrlOf(Tail(Proto), gap, style)>>

LEMMA ParamsAre ==
    ASSUME NEW cmd, NEW offer, NEW hello, NEW gap, NEW style,
           IsGet(cmd, offer, hello, gap, style), ~client.cut, client.escaped
    PROVE  \E a, b, e : Params(a, b, e, UrlsOf(cmd, hello, gap, style),
                               ValuesOf(cmd, hello, gap), style)
<1> DEFINE us == UrlsOf(cmd, hello, gap, style)  vs == ValuesOf(cmd, hello, gap)
           u == us[1]  v == us[2]  w == us[3]  x == Len(u)  y == Len(v)  z == Len(w)
           a == 11 + x  b == a + 7 + y  e == b + 7 + z
<1>1. Layout(input, u, v, w)
    <2>1. u = UrlOf(cmd, gap, style) /\ v = UrlOf(Tail(hello), gap, style)
          /\ w = UrlOf(Tail(Proto), gap, style)
        BY DEF UrlsOf
    <2> HIDE DEF u, v, w
    <2> QED  BY <2>1, WholeGet
<1>2. cmd \in Seq(ByteText) /\ hello \in Line /\ Head(hello) = Hello /\ gap \in Seq(Delimiters)
      /\ style \in Styles
    BY DEF IsGet, Asks, Line, GapSet
<1>3. Tail(hello) \in Seq(ByteText) /\ Tail(Proto) \in Seq(ByteText)
    BY <1>2, WordsAreBytes DEF Line
<1>4. ASSUME NEW ws \in Seq(ByteText)
      PROVE  Joined(ws, gap) \in ByteText /\ IsUrl(UrlOf(ws, gap, style), Joined(ws, gap), style)
    <2>1. Joined(ws, gap) \in ByteText
        BY <1>2, JoinedType
    <2> QED  BY <1>2, <2>1, UrlIs DEF UrlOf
<1>5. \A i \in 1..3 : vs[i] \in ByteText /\ IsUrl(us[i], vs[i], style)
    <2>1. vs[1] \in ByteText /\ IsUrl(us[1], vs[1], style)
        BY <1>2, <1>4 DEF ValuesOf, UrlsOf
    <2>2. vs[2] \in ByteText /\ IsUrl(us[2], vs[2], style)
        BY <1>3, <1>4 DEF ValuesOf, UrlsOf
    <2>3. vs[3] \in ByteText /\ IsUrl(us[3], vs[3], style)
        BY <1>3, <1>4 DEF ValuesOf, UrlsOf
    <2> HIDE DEF us, vs
    <2> QED  BY <2>1, <2>2, <2>3
<1>6. style[2] # Unescaping
    <2> DEFINE plain == style[2] # Unescaping
    <2>1. SentGet(cmd, offer, hello, gap, style[1], style[2])
        BY DEF IsGet
    <2>2. \E c : client = [words |-> <<hello, Proto, cmd>>, offer |-> offer, behind |-> 0,
                           escaped |-> plain, cut |-> c]
        BY <2>1 DEF SentGet
    <2> HIDE DEF plain
    <2>3. client.escaped = plain
        BY <2>2
    <2> QED  BY <2>3 DEF plain
<1> HIDE DEF us, vs, u, v, w
<1>7. /\ InPlace(input, 10, u) /\ InPlace(input, 17 + x, v) /\ InPlace(input, 24 + x + y, w)
      /\ x \in Nat /\ y \in Nat /\ z \in Nat
    BY <1>1 DEF Layout
<1>8. Marks(input, 11 + x, 18 + x + y, 25 + x + y + z)
    BY <1>1, MarksAre
<1> HIDE DEF x, y, z
<1>9. 18 + x + y = b /\ 25 + x + y + z = e /\ 17 + x = a + 6 /\ 24 + x + y = b + 6
    BY <1>7
<1>10. Marks(input, a, b, e) /\ InPlace(input, a + 6, v) /\ InPlace(input, b + 6, w)
    BY <1>7, <1>8, <1>9
<1>11. Params(a, b, e, us, vs, style)
    BY <1>2, <1>5, <1>6, <1>7, <1>10 DEF Params, x, y, z, u, v, w
<1> HIDE DEF a, b, e
<1> QED  BY <1>11 DEF us, vs

\* The texts of a GET.
GetTexts(vs) == <<Labelled(Hello) \o vs[2], Labelled(Head(Proto)) \o vs[3], vs[1]>>

LEMMA DecodedEnd ==
    ASSUME Typed, EndSplit, NEW CONSTANT a, NEW CONSTANT b, NEW CONSTANT e, NEW CONSTANT us,
           NEW CONSTANT vs, NEW CONSTANT style, Params(a, b, e, us, vs, style),
           NamesKept(a, b, e), Decoded(a, b, e, vs, style)
    PROVE  phase' = "words" /\ texts' = GetTexts(vs)
<1>1. pos > Len(input) /\ Len(input) = e + 8 /\ e \in Nat /\ pos \in Nat
    BY PosIs DEF EndSplit, Params, Marks
<1>2. e < pos
    BY <1>1
<1>3. parts = PartsOf(vs) /\ hex.count = 0 /\ state = "HttpVersion"
    BY <1>2 DEF Decoded, NamesKept, StateAt
<1> DEFINE v == vs[1]  w == Labelled(Hello) \o vs[2]  x == Labelled(Head(Proto)) \o vs[3]
<1>4. v \in ByteText /\ w \in ByteText /\ x \in ByteText
    BY LabelsAre, ByteConcat DEF Params
<1>5. parts = <<v, w, x>> /\ GetTexts(vs) = <<w, x, v>>
    BY <1>3 DEF PartsOf, GetTexts
<1> HIDE DEF v, w, x
<1>6. Len(parts) = 3 /\ Head(parts) = v /\ Tail(parts) = <<w, x>>
    BY <1>4, <1>5
<1>7. <<w, x>> \o <<v>> = <<w, x, v>>
    <2> DEFINE S == ByteText
    <2> HIDE DEF S
    <2>1. v \in S /\ w \in S /\ x \in S
        BY <1>4 DEF S
    <2>2. Append(<<w, x>>, v) = <<w, x, v>>
        BY <2>1, ThreeParts
    <2>3. <<w, x>> \in Seq(S) /\ <<w, x>> \o <<v>> = Append(<<w, x>>, v)
        BY <2>1
    <2> QED  BY <2>2, <2>3
<1>8. IsWhole
    BY <1>3, <1>6 DEF IsWhole
<1> QED  BY <1>5, <1>6, <1>7, <1>8 DEF EndSplit

-----------------------------------------------------------------------------
(* Where the words of a text are.                                          *)

Gapped(t, from, to) == \A i \in from..to : i > 0 => t[i] \in Delimiters

\* A word stands behind d and up to end, the word in front of it up to before.
WordIn(t, word, before, end) ==
    \E d \in Nat :
        /\ before < d /\ end = d + Len(Written(word))
        /\ InPlace(t, d, Written(word)) /\ Gapped(t, before + 1, d)

\* The word j stands up to e[j]; there are delimiters behind the last one.
WordsIn(t, ws, e) ==
    /\ t \in ByteText /\ ws \in Seq(ByteText)
    /\ e \in [0..Len(ws) -> Int] /\ e[0] = -1 /\ e[Len(ws)] <= Len(t)
    /\ \A j \in 1..Len(ws) : WordIn(t, ws[j], e[j - 1], e[j])
    /\ Gapped(t, e[Len(ws)] + 1, Len(t))

\* More than the delimiter that is taken with a word is only left behind the
\* words of a line.
Spells(t, ws, behind) ==
    \E e : WordsIn(t, ws, e) /\ (Len(t) - e[Len(ws)] > 1 => behind > 1)

LEMMA DelimitersAreText ==
    ASSUME NEW g \in Seq(Delimiters)
    PROVE  g \in ByteText /\ g \in Text /\ Len(g) \in Nat /\ \A i \in 1..Len(g) : g[i] \in Delimiters
<1>1. Delimiters \subseteq Bytes
    BY DEF Delimiters, Bytes, Space, Tab, Return, LineFeed
<1>2. g \in ByteText
    BY <1>1, SeqMonotonic DEF ByteText
<1>3. g \in Text
    BY <1>2, BytesAreText
<1> QED  BY <1>2, <1>3

LEMMA JoinedWord ==
    ASSUME NEW l \in Text, NEW g \in Seq(Delimiters), NEW word \in ByteText, NEW k \in Nat,
           NEW before \in Int, before < k + Len(g), before = k \/ (before = -1 /\ k + Len(g) = 0),
           InPlace(l, k, g \o Written(word))
    PROVE  WordIn(l, word, before, k + Len(g \o Written(word)))
<1> DEFINE w == Written(word)  p == g \o w  d == k + Len(g)
<1>1. g \in Text /\ Len(g) \in Nat /\ (\A i \in 1..Len(g) : g[i] \in Delimiters)
    BY DelimitersAreText
<1>2. w \in Text /\ Len(w) \in Nat
    <2>1. w \in ByteText
        BY WrittenType
    <2>2. w \in Text
        BY <2>1, BytesAreText
    <2> HIDE DEF w
    <2> QED  BY <2>2 DEF Text
<1> HIDE DEF w
<1>3. p \in Text /\ IsConcat(p, g, w)
    BY <1>1, <1>2, ConcatIs, ConcatType
<1>4. InPlace(l, k, p)
    BY DEF w
<1> HIDE DEF p
<1>5. Len(p) = Len(g) + Len(w) /\ (\A i \in 1..Len(g) : p[i] = g[i])
    BY <1>3 DEF IsConcat
<1>6. InPlace(p, Len(g), w)
    BY <1>1, <1>2, NewPiece DEF p
<1>7. d \in Nat /\ k + Len(p) = d + Len(w)
    BY <1>1, <1>2, <1>5
<1>8. InPlace(l, d, w)
    BY <1>1, <1>2, <1>3, <1>4, <1>6, InnerPiece
<1>9. ASSUME NEW i \in (before + 1)..d, i > 0 PROVE l[i] \in Delimiters
    <2>1. before = k
        BY <1>1, <1>9
    <2>2. i - k \in 1..Len(g) /\ k + (i - k) = i /\ i - k \in 1..Len(p)
        BY <1>1, <1>2, <1>5, <1>9, <2>1
    <2>3. l[k + (i - k)] = p[i - k] /\ p[i - k] = g[i - k]
        BY <1>4, <1>5, <2>2 DEF InPlace
    <2> QED  BY <1>1, <2>2, <2>3
<1>10. Gapped(l, before + 1, d)
    BY <1>9 DEF Gapped
<1> HIDE DEF d
<1>11. before < d
    BY DEF d
<1> QED  BY <1>7, <1>8, <1>10, <1>11 DEF WordIn, p, w

\* The words that a client writes are in its text.
LEMMA JoinedWords ==
    ASSUME NEW ws \in Seq(ByteText), NEW gap \in GapSet
    PROVE  \E e : /\ WordsIn(Joined(ws, gap), ws, e)
                  /\ e[Len(ws)] = IF ws = <<>> THEN -1 ELSE Len(Joined(ws, gap))
<1> DEFINE l == Joined(ws, gap)  ss == JoinedParts(ws, gap)  E == EndsOf(ss)  n == Len(ws)
           e == [j \in 0..n |-> IF j = 0 THEN -1 ELSE E[j]]
<1>1. /\ gap \in Seq(Delimiters) /\ Len(gap) \in Nat /\ Len(gap) > 0 /\ n \in Nat
      /\ <<>> \in Seq(Delimiters) /\ Len(<<>>) = 0
    BY DEF GapSet
<1>2. ss \in Seq(ByteText) /\ l \in ByteText /\ l = FlattenSeq(ss)
    BY <1>1, JoinedType DEF Joined, JoinedParts
<1>3. Len(ss) = n /\ \A j \in 1..n : ss[j] = (IF j = 1 THEN <<>> ELSE gap) \o Written(ws[j])
    <2>1. DOMAIN ws = 1..n
        OBVIOUS
    <2>2. ss = [i \in 1..n |-> (IF i = 1 THEN <<>> ELSE gap) \o Written(ws[i])]
        BY <2>1 DEF JoinedParts
    <2> HIDE DEF ss
    <2>3. DOMAIN ss = 1..n
        BY <2>2
    <2>4. Len(ss) = n
        <3>1. Len(ss) \in Nat /\ DOMAIN ss = 1..Len(ss)
            BY <1>2
        <3> HIDE DEF n
        <3> QED  BY <1>1, <2>3, <3>1
    <2> QED  BY <2>2, <2>4
<1> HIDE DEF l, ss
<1>4. ss \in Seq(Text) /\ l \in Text
    <2>1. ByteText \subseteq Text
        BY BytesAreText
    <2> QED  BY <1>2, <2>1, SeqMonotonic
<1>5. IsFlat(l, ss, E)
    BY <1>2, <1>4, FlattenParts
<1> HIDE DEF E
<1>6. /\ E \in [0..n -> Nat] /\ E[0] = 0 /\ E[n] = Len(l)
      /\ \A j \in 1..n : E[j] = E[j - 1] + Len(ss[j]) /\ E[j] <= Len(l)
      /\ \A j \in 1..n : \A i \in 1..Len(ss[j]) : l[E[j - 1] + i] = ss[j][i]
    BY <1>3, <1>5 DEF IsFlat
<1>7. e \in [0..n -> Int] /\ e[0] = -1 /\ \A j \in 1..n : e[j] = E[j]
    BY <1>1, <1>6
<1> HIDE DEF e
<1>8. ASSUME NEW j \in 1..n PROVE WordIn(l, ws[j], e[j - 1], e[j])
    <2> DEFINE g == IF j = 1 THEN <<>> ELSE gap  word == ws[j]  k == E[j - 1]  before == e[j - 1]
    <2>1. g \in Seq(Delimiters) /\ word \in ByteText /\ ss[j] = g \o Written(word)
          /\ Len(g) \in Nat /\ (j = 1 => Len(g) = 0) /\ (j # 1 => Len(g) > 0)
        <3>1. word \in ByteText
            OBVIOUS
        <3>2. ss[j] = g \o Written(word)
            BY <1>3
        <3>3. g \in Seq(Delimiters) /\ Len(g) \in Nat /\ (j = 1 => Len(g) = 0)
              /\ (j # 1 => Len(g) > 0)
            BY <1>1
        <3> QED  BY <3>1, <3>2, <3>3
    <2> HIDE DEF g
    <2>2. k \in Nat /\ before \in Int
          /\ (j = 1 => k = 0 /\ before = -1) /\ (j # 1 => before = k)
        <3>1. j - 1 \in 0..n /\ (j = 1 => j - 1 = 0) /\ (j # 1 => j - 1 \in 1..n)
            BY <1>1
        <3> QED  BY <1>6, <1>7, <3>1
    <2>3. InPlace(l, k, ss[j]) /\ e[j] = k + Len(ss[j])
        BY <1>6, <1>7 DEF InPlace
    <2> HIDE DEF k, before, word
    <2>4. before < k + Len(g) /\ (before = k \/ (before = -1 /\ k + Len(g) = 0))
        <3> DEFINE x == Len(g)
        <3>1. x \in Nat /\ (j = 1 => x = 0) /\ (j # 1 => x > 0)
            BY <2>1
        <3> HIDE DEF x
        <3>2. before < k + x /\ (before = k \/ (before = -1 /\ k + x = 0))
            <4>1. CASE j = 1
                BY <2>2, <3>1, <4>1
            <4>2. CASE j # 1
                <5>1. before = k /\ k \in Nat /\ x \in Nat /\ x > 0
                    BY <2>2, <3>1, <4>2
                <5> QED  BY <5>1
            <4> QED  BY <4>1, <4>2
        <3> QED  BY <3>2 DEF x
    <2>5. WordIn(l, word, before, k + Len(ss[j]))
        BY <1>4, <2>1, <2>2, <2>3, <2>4, JoinedWord
    <2> QED  BY <2>3, <2>5 DEF word, before
<1>9. e[n] = (IF ws = <<>> THEN -1 ELSE Len(l)) /\ e[n] <= Len(l) /\ Len(l) \in Nat
    <2>1. ws = <<>> <=> n = 0
        OBVIOUS
    <2>2. Len(l) \in Nat
        BY <1>2 DEF ByteText
    <2>3. n # 0 => n \in 1..n
        BY <1>1
    <2> QED  BY <1>6, <1>7, <2>1, <2>2, <2>3
<1>10. Gapped(l, e[n] + 1, Len(l))
    <2>1. CASE ws = <<>>
        <3>1. e[n] = -1 /\ n = 0
            BY <1>9, <2>1
        <3>2. Len(l) = 0
            BY <1>6, <3>1
        <3> QED  BY <3>1, <3>2 DEF Gapped
    <2>2. CASE ws # <<>>
        BY <1>9, <2>2 DEF Gapped
    <2> QED  BY <2>1, <2>2
<1>11. WordsIn(l, ws, e)
    BY <1>2, <1>7, <1>8, <1>9, <1>10 DEF WordsIn
<1> QED  BY <1>9, <1>11 DEF l

LEMMA WordEnds ==
    ASSUME NEW t, NEW word \in ByteText, NEW before \in Int, before >= -1, NEW end,
           WordIn(t, word, before, end)
    PROVE  end \in Nat /\ end > before /\ end <= Len(t)
<1>1. Len(Written(word)) \in Nat
    BY WrittenType DEF ByteText
<1>2. PICK d \in Nat : before < d /\ end = d + Len(Written(word)) /\ d + Len(Written(word)) <= Len(t)
    BY DEF WordIn, InPlace
<1> QED  BY <1>1, <1>2

LEMMA WordsEnds ==
    ASSUME NEW t, NEW ws, NEW e, WordsIn(t, ws, e)
    PROVE  /\ Len(ws) \in Nat /\ Len(t) \in Nat /\ \A j \in 0..Len(ws) : e[j] \in Int /\ e[j] >= -1
           /\ \A j \in 1..Len(ws) : e[j] \in Nat /\ e[j] > e[j - 1] /\ e[j] <= Len(t)
<1> DEFINE n == Len(ws)
<1>1. n \in Nat /\ Len(t) \in Nat /\ e \in [0..n -> Int] /\ e[0] = -1
      /\ \A j \in 1..n : ws[j] \in ByteText /\ WordIn(t, ws[j], e[j - 1], e[j])
    BY DEF WordsIn, ByteText
<1>2. ASSUME NEW j \in 1..n, e[j - 1] >= -1
      PROVE  e[j] \in Nat /\ e[j] > e[j - 1] /\ e[j] <= Len(t)
    <2>1. e[j - 1] \in Int
        BY <1>1
    <2> QED  BY <1>1, <1>2, <2>1, WordEnds
<1> DEFINE T == {j \in 0..n : e[j] >= -1}
<1>3. 0 \in T
    BY <1>1
<1>4. ASSUME NEW j \in 1..n, j - 1 \in T PROVE j \in T
    BY <1>2, <1>4
<1>5. \A j \in 0..n : j \in T
    <2> HIDE DEF T, n
    <2> QED  BY <1>1, <1>3, <1>4, InductionUpTo
<1>6. \A j \in 1..n : e[j - 1] >= -1
    <2> TAKE j \in 1..n
    <2>1. j - 1 \in 0..n
        BY <1>1
    <2> QED  BY <1>5, <2>1
<1> QED  BY <1>1, <1>2, <1>5, <1>6

LEMMA ConcatBytes ==
    ASSUME NEW l \in Text, NEW r \in Text
    PROVE  /\ l \o r \in Text /\ Len(l) \in Nat /\ Len(r) \in Nat /\ Len(l \o r) = Len(l) + Len(r)
           /\ \A i \in 1..Len(l) : (l \o r)[i] = l[i]
           /\ \A i \in 1..Len(r) : (l \o r)[Len(l) + i] = r[i]
<1> DEFINE c == l \o r
<1>1. IsConcat(c, l, r) /\ c \in Text /\ Len(l) \in Nat /\ Len(r) \in Nat
    BY ConcatIs, ConcatType DEF Text
<1>2. InPlace(c, Len(l), r)
    BY NewPiece
<1> HIDE DEF c
<1>3. Len(c) = Len(l) + Len(r) /\ (\A i \in 1..Len(l) : c[i] = l[i])
      /\ \A i \in 1..Len(r) : c[Len(l) + i] = r[i]
    BY <1>1, <1>2 DEF IsConcat, InPlace
<1> QED  BY <1>1, <1>3 DEF c

\* A word is where it was when something follows its text.
LEMMA WordInMore ==
    ASSUME NEW l \in Text, NEW r \in Text, NEW word \in ByteText, NEW before \in Int, before >= -1,
           NEW end, WordIn(l, word, before, end)
    PROVE  WordIn(l \o r, word, before, end)
<1> DEFINE w == Written(word)  t == l \o r
<1>1. w \in Text /\ Len(w) \in Nat
    <2>1. w \in ByteText
        BY WrittenType
    <2> HIDE DEF w
    <2> QED  BY <2>1, BytesAreText DEF ByteText
<1>2. PICK d \in Nat : /\ before < d /\ end = d + Len(w)
                       /\ InPlace(l, d, w) /\ Gapped(l, before + 1, d)
    BY DEF WordIn
<1> HIDE DEF w
<1>3. InPlace(t, d, w)
    BY <1>1, <1>2, OldPiece
<1>4. Len(l) \in Nat /\ \A i \in 1..Len(l) : t[i] = l[i]
    BY ConcatBytes
<1> HIDE DEF t
<1>5. Gapped(t, before + 1, d)
    <2> SUFFICES ASSUME NEW i \in (before + 1)..d, i > 0 PROVE t[i] \in Delimiters
        BY DEF Gapped
    <2>1. d + Len(w) <= Len(l)
        BY <1>2 DEF InPlace
    <2>2. i \in 1..Len(l)
        BY <1>1, <1>4, <2>1
    <2> QED  BY <1>2, <1>4, <2>2 DEF Gapped
<1>6. WordIn(t, word, before, end)
    BY <1>2, <1>3, <1>5 DEF WordIn, w
<1> QED  BY <1>6 DEF t

\* It is behind another text that ends with a delimiter.
LEMMA WordInBehind ==
    ASSUME NEW p \in Text, NEW l \in Text, NEW word \in ByteText, NEW before \in Int, before >= -1,
           NEW end, WordIn(l, word, before, end), Len(p) > 0, p[Len(p)] \in Delimiters
    PROVE  WordIn(p \o l, word, before + Len(p), end + Len(p))
<1> DEFINE w == Written(word)  t == p \o l  m == Len(p)
<1>1. w \in Text /\ Len(w) \in Nat
    <2>1. w \in ByteText
        BY WrittenType
    <2> HIDE DEF w
    <2> QED  BY <2>1, BytesAreText DEF ByteText
<1>2. PICK d \in Nat : /\ before < d /\ end = d + Len(w)
                       /\ InPlace(l, d, w) /\ Gapped(l, before + 1, d)
    BY DEF WordIn
<1> HIDE DEF w
<1>3. /\ t \in Text /\ m \in Nat /\ m > 0 /\ Len(l) \in Nat /\ t[m] \in Delimiters
      /\ \A i \in 1..Len(l) : t[m + i] = l[i]
    <2>1. m \in 1..m
        <3>1. m \in Nat
            BY ConcatBytes
        <3> HIDE DEF m
        <3> QED  BY <3>1 DEF m
    <2> QED  BY <2>1, ConcatBytes
<1>4. InPlace(t, m, l)
    BY NewPiece
<1> HIDE DEF t, m
<1>5. InPlace(t, m + d, w)
    BY <1>1, <1>2, <1>3, <1>4, InnerPiece
<1>6. Gapped(t, (before + m) + 1, m + d)
    <2> SUFFICES ASSUME NEW i \in ((before + m) + 1)..(m + d), i > 0 PROVE t[i] \in Delimiters
        BY DEF Gapped
    <2>1. CASE i = m
        BY <1>3, <2>1
    <2>2. CASE i # m
        <3>1. d + Len(w) <= Len(l)
            BY <1>2 DEF InPlace
        <3>2. i - m \in (before + 1)..d /\ i - m > 0 /\ i - m \in 1..Len(l) /\ m + (i - m) = i
            BY <1>1, <1>2, <1>3, <2>2, <3>1
        <3>3. l[i - m] \in Delimiters
            BY <1>2, <3>2 DEF Gapped
        <3> QED  BY <1>3, <3>2, <3>3
    <2> QED  BY <2>1, <2>2
<1>7. m + d \in Nat /\ before + m < m + d /\ end + m = (m + d) + Len(w)
    BY <1>1, <1>2, <1>3
<1>8. WordIn(t, word, before + m, end + m)
    BY <1>5, <1>6, <1>7 DEF WordIn, w
<1> QED  BY <1>8 DEF t, m

LEMMA LineSpells ==
    ASSUME NEW ws \in Seq(ByteText), ws # <<>>, NEW gap \in GapSet, NEW ending \in Seq(Delimiters)
    PROVE  Spells(Joined(ws, gap) \o ending, ws, Len(ending))
<1> DEFINE l == Joined(ws, gap)  t == l \o ending  n == Len(ws)
<1>1. PICK e : WordsIn(l, ws, e) /\ e[n] = Len(l)
    BY JoinedWords
<1>2. l \in ByteText /\ l \in Text /\ ending \in ByteText /\ ending \in Text
      /\ \A i \in 1..Len(ending) : ending[i] \in Delimiters
    BY <1>1, DelimitersAreText, BytesAreText DEF WordsIn
<1> HIDE DEF l
<1>3. /\ Len(l) \in Nat /\ Len(ending) \in Nat /\ Len(t) = Len(l) + Len(ending)
      /\ \A i \in 1..Len(ending) : t[Len(l) + i] = ending[i]
    BY <1>2, ConcatBytes
<1>4. t \in ByteText
    BY <1>2, ByteConcat
<1>5. n \in Nat /\ \A j \in 0..n : e[j] \in Int /\ e[j] >= -1
    BY <1>1, WordsEnds
<1>6. /\ e \in [0..n -> Int] /\ e[0] = -1
      /\ \A j \in 1..n : ws[j] \in ByteText /\ WordIn(l, ws[j], e[j - 1], e[j])
    BY <1>1 DEF WordsIn
<1>7. ASSUME NEW j \in 1..n PROVE WordIn(t, ws[j], e[j - 1], e[j])
    <2>1. j - 1 \in 0..n
        BY <1>5
    <2>2. e[j - 1] \in Int /\ e[j - 1] >= -1 /\ ws[j] \in ByteText /\ WordIn(l, ws[j], e[j - 1], e[j])
        BY <1>5, <1>6, <2>1
    <2> QED  BY <1>2, <2>2, WordInMore
<1> HIDE DEF t
<1>8. Gapped(t, e[n] + 1, Len(t))
    <2> SUFFICES ASSUME NEW i \in (Len(l) + 1)..Len(t), i > 0 PROVE t[i] \in Delimiters
        BY <1>1 DEF Gapped
    <2>1. i - Len(l) \in 1..Len(ending) /\ Len(l) + (i - Len(l)) = i
        BY <1>3
    <2> QED  BY <1>2, <1>3, <2>1
<1>9. WordsIn(t, ws, e)
    BY <1>1, <1>3, <1>4, <1>6, <1>7, <1>8 DEF WordsIn
<1>10. Len(t) - e[n] = Len(ending)
    BY <1>1, <1>3
<1>11. Spells(t, ws, Len(ending))
    BY <1>9, <1>10 DEF Spells
<1> QED  BY <1>11 DEF t, l

LEMMA JoinedSpells ==
    ASSUME NEW ws \in Seq(ByteText), NEW gap \in GapSet
    PROVE  Spells(Joined(ws, gap), ws, 0)
<1>1. PICK e : /\ WordsIn(Joined(ws, gap), ws, e)
               /\ e[Len(ws)] = IF ws = <<>> THEN -1 ELSE Len(Joined(ws, gap))
    BY JoinedWords
<1> DEFINE m == Len(Joined(ws, gap))
<1>2. m \in Nat
    BY <1>1, WordsEnds
<1>3. ws = <<>> => m = 0
    <2>1. CASE ws = <<>>
        <3>1. \A i \in DOMAIN ws : FALSE
            BY <2>1
        <3>2. Joined(ws, gap) = FlattenSeq(<<>>)
            BY <2>1 DEF Joined
        <3>3. <<>> \in Seq(Text) /\ Len(<<>>) = 0
            OBVIOUS
        <3>4. IsFlat(FlattenSeq(<<>>), <<>>, EndsOf(<<>>))
            BY <3>3, FlattenParts
        <3> QED  BY <3>2, <3>3, <3>4 DEF IsFlat
    <2> QED  BY <2>1
<1> HIDE DEF m
<1>4. ~(m - e[Len(ws)] > 1)
    BY <1>1, <1>2, <1>3 DEF m
<1> QED  BY <1>1, <1>4 DEF Spells, m

LEMMA NamesAreBytes ==
    ASSUME NEW name \in Names
    PROVE  /\ name \in ByteText /\ name \in Text /\ Len(name) = 5
           /\ \A i \in 1..5 : name[i] \in 97..122
<1>1. Hello \in ByteText /\ Head(Proto) \in ByteText
    BY DEF Hello, Proto, ByteText, Bytes
<1>2. name \in {Hello, Head(Proto)}
    BY DEF Names
<1> QED  BY <1>1, <1>2, NamesAre

LEMMA NameIsWord ==
    ASSUME NEW name \in Names
    PROVE  /\ Labelled(name) \in ByteText /\ Labelled(name) \in Text /\ Len(Labelled(name)) = 6
           /\ Labelled(name)[6] \in Delimiters
           /\ WordIn(Labelled(name), name, -1, 5)
<1> DEFINE p == Labelled(name)
<1>1. name \in ByteText /\ name \in Text /\ Len(name) = 5 /\ \A i \in 1..5 : name[i] \in 97..122
    BY NamesAreBytes
<1>2. <<Space>> \in ByteText /\ <<Space>> \in Text /\ Len(<<Space>>) = 1 /\ <<Space>>[1] = Space
    BY DEF Space, ByteText, Bytes, Text
<1>3. p \in ByteText /\ p \in Text /\ Len(p) = 6 /\ p[6] = Space /\ \A i \in 1..5 : p[i] = name[i]
    <2> DEFINE b == <<Space>>
    <2> HIDE DEF b
    <2>1. p = name \o b
        BY DEF Labelled, b
    <2>2. b \in ByteText /\ b \in Text /\ Len(b) = 1 /\ b[1] = Space
        BY <1>2 DEF b
    <2>3. name \o b \in ByteText
        BY <1>1, <2>2, ByteConcat
    <2>4. /\ name \o b \in Text /\ Len(name \o b) = Len(name) + Len(b)
          /\ \A i \in 1..Len(name) : (name \o b)[i] = name[i]
          /\ \A i \in 1..Len(b) : (name \o b)[Len(name) + i] = b[i]
        BY <1>1, <2>2, ConcatBytes
    <2>5. Len(p) = 6 /\ \A i \in 1..5 : p[i] = name[i]
        BY <1>1, <2>1, <2>2, <2>4
    <2>6. p[6] = Space
        <3>1. 1 \in 1..Len(b) /\ Len(name) + 1 = 6
            BY <1>1, <2>2
        <3>2. p[Len(name) + 1] = b[1]
            BY <2>1, <2>4, <3>1
        <3> QED  BY <2>2, <3>1, <3>2
    <2> QED  BY <2>1, <2>3, <2>4, <2>5, <2>6
<1>4. \A c \in 97..122 : c \notin Delimiters /\ c # Quote
    BY DEF Delimiters, Space, Tab, Return, LineFeed, Quote
<1>5. IsPlain(name)
    <2>1. name # <<>> /\ Head(name) = name[1] /\ 1 \in 1..5
        BY <1>1 DEF Text
    <2>2. Range(name) \cap Delimiters = {}
        <3>1. DOMAIN name = 1..5
            BY <1>1 DEF Text
        <3> QED  BY <1>1, <1>4, <3>1 DEF Range
    <2> QED  BY <1>1, <1>4, <2>1, <2>2 DEF IsPlain
<1>6. Written(name) = name
    BY <1>5 DEF Written
<1> HIDE DEF p
<1>7. InPlace(p, 0, name)
    BY <1>1, <1>3 DEF InPlace
<1>8. Gapped(p, (-1) + 1, 0)
    BY DEF Gapped
<1>9. 0 \in Nat /\ -1 < 0 /\ 5 = 0 + Len(Written(name))
    BY <1>1, <1>6
<1>10. WordIn(p, name, -1, 5)
    BY <1>6, <1>7, <1>8, <1>9 DEF WordIn
<1> QED  BY <1>3, <1>10 DEF p, Delimiters

LEMMA NamedSpells ==
    ASSUME NEW name \in Names, NEW l \in ByteText, NEW ws \in Seq(ByteText), Spells(l, ws, 0)
    PROVE  Spells(Labelled(name) \o l, <<name>> \o ws, 0)
<1> DEFINE p == Labelled(name)  t == p \o l  vs == <<name>> \o ws  n == Len(ws)
<1>1. PICK e : WordsIn(l, ws, e) /\ ~(Len(l) - e[n] > 1)
    BY DEF Spells
<1>2. p \in ByteText /\ p \in Text /\ Len(p) = 6 /\ p[6] \in Delimiters /\ WordIn(p, name, -1, 5)
      /\ l \in Text
    BY NameIsWord, BytesAreText
<1> HIDE DEF p
<1>3. /\ t \in Text /\ Len(l) \in Nat /\ Len(t) = 6 + Len(l) /\ t[6] = p[6]
      /\ \A i \in 1..Len(l) : t[6 + i] = l[i]
    <2>1. 6 \in 1..Len(p) /\ Len(p) = 6
        BY <1>2
    <2>2. /\ t \in Text /\ Len(l) \in Nat /\ Len(t) = Len(p) + Len(l)
          /\ \A i \in 1..Len(p) : t[i] = p[i]
          /\ \A i \in 1..Len(l) : t[Len(p) + i] = l[i]
        BY <1>2, ConcatBytes
    <2> HIDE DEF t
    <2> QED  BY <2>1, <2>2
<1>4. t \in ByteText
    BY <1>2, ByteConcat
<1>5. n \in Nat /\ \A j \in 0..n : e[j] \in Int /\ e[j] >= -1
    BY <1>1, WordsEnds
<1>6. /\ e \in [0..n -> Int] /\ e[0] = -1 /\ e[n] <= Len(l) /\ Gapped(l, e[n] + 1, Len(l))
      /\ \A j \in 1..n : ws[j] \in ByteText /\ WordIn(l, ws[j], e[j - 1], e[j])
    BY <1>1 DEF WordsIn
<1>7. name \in ByteText
    BY NamesAreBytes
<1>8. vs \in Seq(ByteText) /\ Len(vs) = n + 1 /\ vs[1] = name /\ \A j \in 1..n : vs[j + 1] = ws[j]
    <2> DEFINE S == ByteText
    <2> HIDE DEF S
    <2>1. ws \in Seq(S) /\ name \in S
        BY <1>7 DEF S
    <2>2. vs \in Seq(S) /\ Len(vs) = n + 1 /\ vs[1] = name
        BY <2>1
    <2>3. \A j \in 1..n : vs[j + 1] = ws[j]
        BY <2>1
    <2> QED  BY <2>2, <2>3 DEF S
<1> HIDE DEF vs, t
<1> DEFINE f == [j \in 0..(n + 1) |-> IF j = 0 THEN -1 ELSE e[j - 1] + 6]
<1>9. f \in [0..(n + 1) -> Int] /\ f[0] = -1 /\ \A j \in 1..(n + 1) : f[j] = e[j - 1] + 6
    <2>1. ASSUME NEW j \in 1..(n + 1) PROVE e[j - 1] + 6 \in Int
        <3>1. j - 1 \in 0..n
            BY <1>5
        <3>2. e[j - 1] \in Int
            BY <1>5, <3>1
        <3> QED  BY <3>2
    <2>2. \A j \in 0..(n + 1) : j = 0 \/ j \in 1..(n + 1)
        BY <1>5
    <2>3. \A j \in 0..(n + 1) : (IF j = 0 THEN -1 ELSE e[j - 1] + 6) \in Int
        BY <2>1, <2>2
    <2>4. 0 \in 0..(n + 1) /\ \A j \in 1..(n + 1) : j \in 0..(n + 1) /\ j # 0
        BY <1>5
    <2> QED  BY <2>3, <2>4
<1> HIDE DEF f
<1>10. ASSUME NEW j \in 1..(n + 1) PROVE WordIn(t, vs[j], f[j - 1], f[j])
    <2>1. CASE j = 1
        <3>1. f[j - 1] = -1 /\ f[j] = 5
            BY <1>6, <1>9, <2>1
        <3>2. WordIn(t, name, -1, 5)
            BY <1>2, <1>7, WordInMore DEF t
        <3> QED  BY <1>8, <2>1, <3>1, <3>2
    <2>2. CASE j # 1
        <3> DEFINE k == j - 1
        <3>1. k \in 1..n /\ k - 1 \in 0..n /\ j - 1 = k /\ k \in 1..(n + 1) /\ j = k + 1
            BY <1>5, <2>2
        <3> HIDE DEF k
        <3>2. f[j - 1] = e[k - 1] + 6 /\ f[j] = e[k] + 6 /\ vs[j] = ws[k]
            BY <1>8, <1>9, <3>1
        <3>3. e[k - 1] \in Int /\ e[k - 1] >= -1 /\ ws[k] \in ByteText
              /\ WordIn(l, ws[k], e[k - 1], e[k])
            BY <1>5, <1>6, <3>1
        <3>4. WordIn(t, ws[k], e[k - 1] + Len(p), e[k] + Len(p))
            <4>1. Len(p) > 0 /\ p[Len(p)] \in Delimiters
                BY <1>2
            <4> QED  BY <1>2, <3>3, <4>1, WordInBehind DEF t
        <3> QED  BY <1>2, <3>2, <3>4
    <2> QED  BY <2>1, <2>2
<1>11. f[n + 1] = e[n] + 6 /\ e[n] \in Int /\ e[n] >= -1 /\ f[n + 1] <= Len(t)
    <2>1. n + 1 \in 1..(n + 1) /\ (n + 1) - 1 = n /\ n \in 0..n
        BY <1>5
    <2>2. f[n + 1] = e[n] + 6 /\ e[n] \in Int /\ e[n] >= -1
        BY <1>5, <1>9, <2>1
    <2> QED  BY <1>3, <1>6, <2>2
<1>12. Gapped(t, f[n + 1] + 1, Len(t))
    <2> SUFFICES ASSUME NEW i \in ((e[n] + 6) + 1)..Len(t), i > 0 PROVE t[i] \in Delimiters
        BY <1>11 DEF Gapped
    <2>1. CASE i = 6
        BY <1>2, <1>3, <2>1
    <2>2. CASE i # 6
        <3>1. i - 6 \in (e[n] + 1)..Len(l) /\ i - 6 > 0 /\ i - 6 \in 1..Len(l) /\ 6 + (i - 6) = i
            BY <1>3, <1>11, <2>2
        <3>2. l[i - 6] \in Delimiters
            BY <1>6, <3>1 DEF Gapped
        <3> QED  BY <1>3, <3>1, <3>2
    <2> QED  BY <2>1, <2>2
<1>13. WordsIn(t, vs, f)
    BY <1>4, <1>8, <1>9, <1>10, <1>11, <1>12 DEF WordsIn
<1>14. ~(Len(t) - f[n + 1] > 1)
    BY <1>1, <1>3, <1>11
<1>15. Spells(t, vs, 0)
    BY <1>8, <1>13, <1>14 DEF Spells
<1> QED  BY <1>15 DEF t, vs, p

-----------------------------------------------------------------------------
(* The tokenizer reads the words that a client wrote.                      *)

InQuotes(w, word) ==
    /\ w \in Text /\ Len(w) = Len(word) + 2 /\ w[1] = Quote /\ w[Len(word) + 2] = Quote
    /\ \A i \in 1..Len(word) : w[i + 1] = word[i]

LEMMA InQuotesIs ==
    ASSUME NEW word \in ByteText
    PROVE  InQuotes(<<Quote>> \o word \o <<Quote>>, word)
<1> DEFINE q == <<Quote>>  c == q \o word  w == c \o q
<1>1. q \in Text /\ Len(q) = 1 /\ q[1] = Quote /\ word \in Text /\ 1 \in 1..1
    BY BytesAreText DEF Text, Quote
<1> HIDE DEF q
<1>2. /\ c \in Text /\ Len(c) = 1 + Len(word) /\ Len(word) \in Nat /\ c[1] = Quote
      /\ \A i \in 1..Len(word) : c[1 + i] = word[i]
    <2>1. /\ c \in Text /\ Len(c) = Len(q) + Len(word) /\ Len(word) \in Nat
          /\ \A i \in 1..Len(q) : c[i] = q[i]
          /\ \A i \in 1..Len(word) : c[Len(q) + i] = word[i]
        BY <1>1, ConcatBytes
    <2> HIDE DEF c
    <2> QED  BY <1>1, <2>1
<1> HIDE DEF c
<1>3. /\ w \in Text /\ Len(w) = Len(c) + 1 /\ (\A i \in 1..Len(c) : w[i] = c[i])
      /\ w[Len(c) + 1] = Quote
    <2>1. /\ w \in Text /\ Len(w) = Len(c) + Len(q)
          /\ \A i \in 1..Len(c) : w[i] = c[i]
          /\ \A i \in 1..Len(q) : w[Len(c) + i] = q[i]
        BY <1>1, <1>2, ConcatBytes
    <2> HIDE DEF w
    <2> QED  BY <1>1, <2>1
<1> HIDE DEF w
<1>4. Len(w) = Len(word) + 2 /\ w[1] = Quote /\ w[Len(word) + 2] = Quote
    <2>1. 1 \in 1..Len(c) /\ Len(c) + 1 = Len(word) + 2
        BY <1>2
    <2> QED  BY <1>2, <1>3, <2>1
<1>5. ASSUME NEW i \in 1..Len(word) PROVE w[i + 1] = word[i]
    <2>1. i + 1 \in 1..Len(c) /\ i + 1 = 1 + i
        BY <1>2
    <2> QED  BY <1>2, <1>3, <2>1
<1>6. InQuotes(w, word)
    BY <1>3, <1>4, <1>5 DEF InQuotes
<1> QED  BY <1>6 DEF w, c, q

LEMMA PlainIs ==
    ASSUME NEW word \in ByteText, IsPlain(word)
    PROVE  /\ Len(word) \in Nat /\ Len(word) >= 1 /\ word[1] # Quote
           /\ \A i \in 1..Len(word) : word[i] \notin Delimiters
<1>1. DOMAIN word = 1..Len(word) /\ Len(word) \in Nat /\ word # <<>> /\ Head(word) = word[1]
    BY DEF ByteText, IsPlain
<1> QED  BY <1>1 DEF IsPlain, Range, ByteText

LEMMA WrittenIs ==
    ASSUME NEW word \in ByteText
    PROVE  /\ Written(word) \in Text /\ Len(Written(word)) \in Nat /\ Len(Written(word)) >= 1
           /\ Written(word)[1] \notin Delimiters
           /\ IsPlain(word) => Written(word) = word
           /\ ~IsPlain(word) => InQuotes(Written(word), word)
<1>1. CASE IsPlain(word)
    <2>1. Written(word) = word
        BY <1>1 DEF Written
    <2>2. 1 \in 1..Len(word)
        BY <1>1, PlainIs
    <2> QED  BY <1>1, <2>1, <2>2, PlainIs, BytesAreText
<1>2. CASE ~IsPlain(word)
    <2>1. InQuotes(Written(word), word)
        BY <1>2, InQuotesIs DEF Written
    <2>2. Quote \notin Delimiters
        BY DEF Quote, Delimiters, Space, Tab, Return, LineFeed
    <2>3. Len(word) \in Nat
        BY DEF ByteText
    <2> QED  BY <1>2, <2>1, <2>2, <2>3 DEF InQuotes
<1> QED  BY <1>1, <1>2

Getting == GetNothing \/ GetQuoted \/ GetOpen \/ GetPlain

\* The tokenizer skips the delimiters in front of a word.
LEMMA WordBegins ==
    ASSUME Typed, NextWord, NEW CONSTANT word \in ByteText, NEW CONSTANT before \in Int, before >= -1,
           NEW CONSTANT end, start = before + 2, WordIn(CurrentText, word, before, end)
    PROVE  /\ Begin \in Nat /\ Begin > 0 /\ Begin <= Len(CurrentText)
           /\ end = Begin - 1 + Len(Written(word)) /\ end <= Len(CurrentText)
           /\ InPlace(CurrentText, Begin - 1, Written(word))
<1> DEFINE t == CurrentText  w == Written(word)
<1>1. w \in Text /\ Len(w) \in Nat /\ Len(w) >= 1 /\ w[1] \notin Delimiters
    BY WrittenIs
<1> HIDE DEF w
<1>2. /\ t \in ByteText /\ start \in 1..Len(t) /\ Len(t) \in Nat
      /\ Begin \in start..(Len(t) + 1)
      /\ Begin <= Len(t) => t[Begin] \notin Delimiters
      /\ \A i \in start..Len(t) : i < Begin => t[i] \in Delimiters
    BY BeginIs DEF ByteText
<1>3. PICK d \in Nat : /\ before < d /\ end = d + Len(w)
                       /\ InPlace(t, d, w) /\ Gapped(t, before + 1, d)
    BY DEF WordIn, w
<1>4. d + Len(w) <= Len(t) /\ t[d + 1] = w[1] /\ (\A i \in (before + 1)..d : i > 0 => t[i] \in Delimiters)
    <2>1. 1 \in 1..Len(w)
        BY <1>1
    <2> QED  BY <1>3, <2>1 DEF InPlace, Gapped
<1> DEFINE B == Begin
<1> HIDE DEF t, B
<1>5. ~(d + 1 < B)
    <2> SUFFICES ASSUME d + 1 < B PROVE FALSE
        OBVIOUS
    <2>1. d + 1 \in start..Len(t)
        BY <1>1, <1>2, <1>3, <1>4
    <2>2. t[d + 1] \in Delimiters
        BY <1>2, <2>1 DEF B
    <2> QED  BY <1>1, <1>4, <2>2
<1>6. ~(B < d + 1)
    <2> SUFFICES ASSUME B < d + 1 PROVE FALSE
        OBVIOUS
    <2>1. B \in (before + 1)..d /\ B > 0 /\ B <= Len(t)
        BY <1>1, <1>2, <1>3, <1>4 DEF B
    <2> QED  BY <1>2, <1>4, <2>1 DEF B
<1>7. B = d + 1
    BY <1>2, <1>5, <1>6 DEF B
<1>8. B \in Nat /\ B > 0 /\ B <= Len(t) /\ end = B - 1 + Len(w) /\ end <= Len(t) /\ B - 1 = d
    BY <1>1, <1>2, <1>3, <1>4, <1>7
<1> QED  BY <1>3, <1>8 DEF B, t, w

\* A part of a text is a word that is in place.
LEMMA PlacedPart ==
    ASSUME NEW t \in ByteText, NEW word \in ByteText, NEW d \in Nat, InPlace(t, d, word)
    PROVE  SubSeq(t, d + 1, d + Len(word)) = word
<1> DEFINE m == Len(word)  p == SubSeq(t, d + 1, d + m)
<1>1. t \in Seq(Bytes) /\ word \in Seq(Bytes) /\ m \in Nat /\ Len(t) \in Nat
    BY DEF ByteText
<1>2. d + m <= Len(t) /\ \A i \in 1..m : t[d + i] = word[i]
    BY DEF InPlace
<1>3. p \in Seq(Bytes) /\ Len(p) = m /\ \A i \in 1..m : p[i] = t[d + i]
    <2> HIDE DEF m
    <2>1. p \in Seq(Bytes)
        BY <1>1, <1>2
    <2>2. Len(p) = m
        BY <1>1, <1>2
    <2>3. ASSUME NEW i \in 1..m PROVE p[i] = t[d + i]
        <3>1. i \in 1..((d + m) - (d + 1) + 1) /\ (d + 1) + i - 1 = d + i
            BY <1>1
        <3> QED  BY <1>1, <1>2, <3>1
    <2> QED  BY <2>1, <2>2, <2>3
<1> HIDE DEF p
<1>4. p = word
    BY <1>1, <1>2, <1>3, SeqEqual
<1> QED  BY <1>4 DEF p

LEMMA PlainRead ==
    ASSUME Typed, Getting, NEW CONSTANT word \in ByteText, IsPlain(word),
           NEW CONSTANT end, Begin \in Nat, Begin > 0, Begin <= Len(CurrentText),
           end = Begin - 1 + Len(Written(word)), end <= Len(CurrentText),
           InPlace(CurrentText, Begin - 1, Written(word)),
           end + 1 <= Len(CurrentText) => CurrentText[end + 1] \in Delimiters
    PROVE  GetWord(word, end + 2)
<1> DEFINE t == CurrentText  B == Begin  m == Len(word)  d == B - 1
<1>1. t \in ByteText /\ Len(t) \in Nat
    <2>1. NextWord
        BY DEF Getting, GetNothing, GetQuoted, GetOpen, GetPlain
    <2> QED  BY <2>1, BeginIs DEF ByteText
<1>2. /\ m \in Nat /\ m >= 1 /\ word[1] # Quote
      /\ \A i \in 1..m : word[i] \notin Delimiters
    BY PlainIs
<1>3. InPlace(t, d, word) /\ end = d + m
    BY WrittenIs
<1>4. d \in Nat /\ d + 1 = B /\ B <= Len(t) /\ end <= Len(t) /\ end \in Nat
    <2> HIDE DEF t, m, B
    <2>1. B \in Nat /\ B > 0 /\ B <= Len(t) /\ end <= Len(t)
        BY DEF B, t
    <2> QED  BY <1>2, <1>3, <2>1
<1>5. \A i \in 1..m : t[d + i] = word[i]
    BY <1>3 DEF InPlace
<1>6. end + 1 <= Len(t) => t[end + 1] \in Delimiters
    OBVIOUS
<1>7. Ends = {i \in B..Len(t) : t[i] \in Delimiters}
    BY DEF Ends
<1>8. ~IsQuoted /\ ~(B > Len(t))
    <2>1. t[B] # Quote
        <3> HIDE DEF d, B, t, m
        <3>1. 1 \in 1..m
            BY <1>2
        <3>2. t[d + 1] = word[1]
            BY <1>5, <3>1
        <3> QED  BY <1>2, <1>4, <3>2
    <2>2. ~IsQuoted
        BY <2>1 DEF IsQuoted
    <2> HIDE DEF B, t
    <2> QED  BY <1>1, <1>4, <2>2
<1>9. GetPlain
    BY <1>8 DEF Getting, GetNothing, GetQuoted, GetOpen
<1> DEFINE S == Ends  stop == IF S = {} THEN Len(t) + 1 ELSE Min(S)
<1>10. GetWord(SubSeq(t, B, stop - 1), stop + 1)
    BY <1>9 DEF GetPlain
<1> HIDE DEF d, B, t, m
<1>11. ASSUME NEW i \in B..Len(t), t[i] \in Delimiters PROVE end + 1 <= i
    <2> SUFFICES ASSUME i <= end PROVE FALSE
        BY <1>4
    <2>1. i - d \in 1..m /\ d + (i - d) = i
        BY <1>1, <1>2, <1>3, <1>4
    <2> QED  BY <1>2, <1>5, <1>11, <2>1
<1>12. stop = end + 1
    <2>1. CASE end = Len(t)
        <3>1. S = {}
            <4>1. \A i \in B..Len(t) : t[i] \notin Delimiters
                BY <1>1, <1>4, <1>11, <2>1
            <4> QED  BY <1>7, <4>1
        <3> QED  BY <2>1, <3>1
    <2>2. CASE end < Len(t)
        <3>1. end + 1 \in B..Len(t) /\ t[end + 1] \in Delimiters
            BY <1>1, <1>2, <1>3, <1>4, <1>6, <2>2
        <3>2. end + 1 \in S /\ S \subseteq Int /\ \A i \in S : end + 1 <= i
            <4>1. S \subseteq B..Len(t)
                BY <1>7
            <4>2. S \subseteq Int /\ end + 1 \in S
                BY <1>7, <3>1, <4>1
            <4>3. \A i \in S : i \in B..Len(t) /\ t[i] \in Delimiters
                BY <1>7
            <4>4. \A i \in B..Len(t) : i <= end => t[i] \notin Delimiters
                BY <1>1, <1>4, <1>11
            <4> HIDE DEF S
            <4>5. \A i \in S : end + 1 <= i
                BY <1>1, <1>4, <4>1, <4>3, <4>4
            <4> QED  BY <4>2, <4>5
        <3> HIDE DEF S
        <3>3. Min(S) = end + 1
            BY <3>2, LeastOf
        <3> QED  BY <3>2, <3>3
    <2> QED  BY <1>1, <1>4, <2>1, <2>2
<1> HIDE DEF stop
<1>13. SubSeq(t, B, stop - 1) = word /\ stop + 1 = end + 2
    <2>1. SubSeq(t, d + 1, d + m) = word
        <3>1. t \in ByteText /\ d \in Nat /\ InPlace(t, d, word)
            BY <1>1, <1>3, <1>4
        <3>2. SubSeq(t, d + 1, d + Len(word)) = word
            BY <3>1, PlacedPart
        <3> QED  BY <3>2 DEF m
    <2>2. stop - 1 = end /\ stop + 1 = end + 2
        <3>1. end \in Nat
            BY <1>4
        <3> QED  BY <1>12, <3>1
    <2>3. d + m = end /\ d + 1 = B
        BY <1>3, <1>4
    <2> QED  BY <2>1, <2>2, <2>3, Zenon
<1> QED  BY <1>10, <1>13

LEMMA QuotedRead ==
    ASSUME Typed, Getting, NEW CONSTANT word \in ByteText, ~IsPlain(word), CanBeSent(word),
           NEW CONSTANT end, Begin \in Nat, Begin > 0, Begin <= Len(CurrentText),
           end = Begin - 1 + Len(Written(word)), end <= Len(CurrentText),
           InPlace(CurrentText, Begin - 1, Written(word))
    PROVE  GetWord(word, end + 2)
<1> DEFINE t == CurrentText  B == Begin  m == Len(word)  d == B - 1  w == Written(word)
<1>1. t \in ByteText /\ Len(t) \in Nat
    <2>1. NextWord
        BY DEF Getting, GetNothing, GetQuoted, GetOpen, GetPlain
    <2> QED  BY <2>1, BeginIs DEF ByteText
<1>2. InQuotes(w, word) /\ m \in Nat
    BY WrittenIs DEF ByteText
<1>3. Len(w) = m + 2 /\ w[1] = Quote /\ w[m + 2] = Quote /\ \A i \in 1..m : w[i + 1] = word[i]
    BY <1>2 DEF InQuotes
<1>4. \A i \in 1..Len(w) : t[d + i] = w[i]
    BY DEF InPlace
<1>5. /\ d \in Nat /\ d + 1 = B /\ B <= Len(t) /\ end <= Len(t) /\ end \in Nat
      /\ end = d + (m + 2)
    <2>1. B \in Nat /\ B > 0 /\ B <= Len(t) /\ end <= Len(t) /\ end = B - 1 + Len(w)
        OBVIOUS
    <2> HIDE DEF t, m, B, w
    <2> QED  BY <1>2, <1>3, <2>1
<1>6. Quotes = {i \in (B + 1)..Len(t) : t[i] = Quote}
    BY DEF Quotes
<1>7. m > 0 => word[m] # Backslash /\ \A i \in 1..m : word[i] # Quote
    <2> SUFFICES ASSUME m > 0 PROVE word[m] # Backslash /\ \A i \in 1..m : word[i] # Quote
        OBVIOUS
    <2>1. word # <<>>
        OBVIOUS
    <2>2. Quote \notin Range(word) /\ Last(word) # Backslash
        BY <2>1 DEF CanBeSent
    <2>3. \A i \in 1..m : word[i] # Quote
        BY <2>2 DEF Range, ByteText
    <2> QED  BY <2>2, <2>3 DEF Last
<1> DEFINE others == {k \in 1..(end - 1) : t[k] # Backslash}
<1>8. Unescaped(end) <=> (end - 1 - (IF others = {} THEN 0 ELSE Max(others))) % 2 = 0
    BY DEF Unescaped
<1> HIDE DEF d, t, m, w
<1>9. t[B] = Quote /\ t[end] = Quote /\ \A i \in 1..m : t[d + (i + 1)] = word[i]
    <2>1. 1 \in 1..Len(w) /\ m + 2 \in 1..Len(w) /\ \A i \in 1..m : i + 1 \in 1..Len(w)
        BY <1>2, <1>3
    <2> QED  BY <1>3, <1>4, <1>5, <2>1
<1> HIDE DEF B
<1>10. t[end - 1] # Backslash /\ end - 1 \in 1..(end - 1)
    <2>1. CASE m = 0
        <3>1. end - 1 = B
            BY <1>5, <2>1
        <3> QED  BY <1>5, <1>9, <2>1, <3>1 DEF Quote, Backslash
    <2>2. CASE m > 0
        <3>1. m \in 1..m /\ end - 1 = d + (m + 1) /\ end - 1 \in 1..(end - 1)
            BY <1>2, <1>5, <2>2
        <3>2. t[d + (m + 1)] = word[m]
            BY <1>9, <3>1
        <3> QED  BY <1>7, <2>2, <3>1, <3>2
    <2> QED  BY <1>2, <2>1, <2>2
<1>11. Unescaped(end)
    <2>1. end - 1 \in others /\ others \in SUBSET (1..(end - 1)) /\ end - 1 \in Nat
        BY <1>10
    <2> HIDE DEF others
    <2>2. others # {}
        BY <2>1
    <2> DEFINE n == end - 1  x == Max(others)
    <2>3. n \in Nat /\ n \in others /\ others \in SUBSET (1..n)
        BY <2>1
    <2> HIDE DEF n
    <2>4. x \in others /\ \A y \in others : x >= y
        BY <2>2, <2>3, MaxIs
    <2>5. x \in 1..n /\ x >= n
        BY <2>3, <2>4
    <2> HIDE DEF x
    <2>6. n - x = 0
        BY <2>3, <2>5
    <2>7. Unescaped(end) <=> (n - x) % 2 = 0
        BY <1>8, <2>2 DEF n, x
    <2>8. 0 % 2 = 0
        OBVIOUS
    <2> QED  BY <2>6, <2>7, <2>8
<1>12. end \in Closing /\ Closing \subseteq Int /\ \A i \in Closing : end <= i
    <2>1. end \in (B + 1)..Len(t)
        BY <1>1, <1>2, <1>5
    <2>2. ASSUME NEW i \in Quotes PROVE end <= i /\ i \in Int
        <3>1. i \in (B + 1)..Len(t) /\ t[i] = Quote
            BY <1>6
        <3>2. CASE i < end
            <4>1. i - d - 1 \in 1..m /\ d + ((i - d - 1) + 1) = i /\ m > 0
                BY <1>1, <1>2, <1>5, <3>1, <3>2
            <4>2. word[i - d - 1] = Quote
                BY <1>9, <3>1, <4>1
            <4> QED  BY <1>7, <4>1, <4>2
        <3> QED  BY <1>1, <1>5, <3>1, <3>2
    <2>3. end \in Quotes
        BY <1>6, <1>9, <2>1
    <2> QED  BY <1>11, <2>2, <2>3 DEF Closing
<1>13. Min(Closing) = end
    BY <1>12, LeastOf
<1>14. IsQuoted
    BY <1>5, <1>9 DEF IsQuoted, B, t
<1>15. GetQuoted
    <2>1. ~(Begin > Len(CurrentText))
        BY <1>1, <1>5 DEF B, t
    <2> QED  BY <1>12, <1>14, <2>1 DEF Getting, GetNothing, GetOpen, GetPlain
<1>16. GetWord(SubSeq(t, B + 1, end - 1), end + 2)
    BY <1>13, <1>15 DEF GetQuoted, B, t
<1>17. SubSeq(t, B + 1, end - 1) = word
    <2>1. InPlace(t, d + 1, word)
        <3>1. (d + 1) + m <= Len(t)
            BY <1>1, <1>2, <1>5
        <3>2. ASSUME NEW i \in 1..m PROVE t[(d + 1) + i] = word[i]
            <4>1. (d + 1) + i = d + (i + 1)
                BY <1>2, <1>5
            <4> QED  BY <1>9, <4>1
        <3> QED  BY <3>1, <3>2 DEF InPlace, m
    <2>2. d + 1 \in Nat /\ (d + 1) + 1 = B + 1 /\ (d + 1) + m = end - 1
        BY <1>2, <1>5
    <2>3. SubSeq(t, (d + 1) + 1, (d + 1) + Len(word)) = word
        BY <1>1, <2>1, <2>2, PlacedPart
    <2> QED  BY <2>2, <2>3 DEF m
<1> QED  BY <1>16, <1>17

Sendable(ws) == \A i \in 1..Len(ws) : CanBeSent(ws[i])

\* The words rs that are read are the first ones of ws, or all of them and an
\* empty one for the delimiters behind them.
Progress(t, ws, e, rs, s) ==
    \/ \E k \in 0..Len(ws) :
         Len(rs) = k /\ (\A i \in 1..k : rs[i] = ws[i]) /\ s = e[k] + 2
    \/ rs = Append(ws, <<>>) /\ s = Len(t) + 1 /\ Len(t) - e[Len(ws)] > 1

Reading(t, ws, behind, rs, s) ==
    \E e : /\ WordsIn(t, ws, e) /\ (Len(t) - e[Len(ws)] > 1 => behind > 1)
           /\ Progress(t, ws, e, rs, s)

LEMMA ReadingBegins ==
    ASSUME NEW t, NEW ws, NEW behind, Spells(t, ws, behind)
    PROVE  Reading(t, ws, behind, <<>>, 1)
<1>1. PICK e : WordsIn(t, ws, e) /\ (Len(t) - e[Len(ws)] > 1 => behind > 1)
    BY DEF Spells
<1>2. Len(ws) \in Nat /\ e[0] = -1
    BY <1>1, WordsEnds DEF WordsIn
<1>3. 0 \in 0..Len(ws) /\ Len(<<>>) = 0 /\ 1 = e[0] + 2 /\ \A i \in 1..0 : FALSE
    BY <1>2
<1>4. Progress(t, ws, e, <<>>, 1)
    BY <1>3 DEF Progress
<1> QED  BY <1>1, <1>4 DEF Reading

LEMMA WordRead ==
    ASSUME Typed, Getting, NEW CONSTANT ws, NEW CONSTANT behind, Sendable(ws),
           Reading(CurrentText, ws, behind, words, start)
    PROVE  Reading(CurrentText, ws, behind, words', start')
<1> DEFINE t == CurrentText  n == Len(ws)
<1>1. NextWord
    BY DEF Getting, GetNothing, GetQuoted, GetOpen, GetPlain
<1>2. /\ t \in ByteText /\ start \in 1..Len(t) /\ Len(t) \in Nat
      /\ Begin \in start..(Len(t) + 1)
      /\ Begin <= Len(t) => t[Begin] \notin Delimiters
    BY <1>1, BeginIs DEF ByteText
<1>3. PICK e : /\ WordsIn(t, ws, e) /\ (Len(t) - e[n] > 1 => behind > 1)
               /\ Progress(t, ws, e, words, start)
    BY DEF Reading
<1>4. /\ n \in Nat /\ \A j \in 0..n : e[j] \in Int /\ e[j] >= -1
      /\ \A j \in 1..n : e[j] \in Nat /\ e[j] > e[j - 1] /\ e[j] <= Len(t)
    BY <1>3, WordsEnds
<1>5. /\ ws \in Seq(ByteText) /\ Gapped(t, e[n] + 1, Len(t))
      /\ \A j \in 1..n : ws[j] \in ByteText /\ WordIn(t, ws[j], e[j - 1], e[j])
    BY <1>3 DEF WordsIn
<1>6. words \in Seq(ByteText)
    BY DEF Typed
<1>7. PICK k \in 0..n : Len(words) = k /\ (\A i \in 1..k : words[i] = ws[i]) /\ start = e[k] + 2
    <2>1. ~(start = Len(t) + 1)
        BY <1>2
    <2> QED  BY <1>3, <2>1 DEF Progress
<1> HIDE DEF t, n
<1>8. SUFFICES Progress(t, ws, e, words', start')
    BY <1>3 DEF Reading, t, n
<1>9. CASE k < n
    <2> DEFINE j == k + 1  word == ws[j]  end == e[j]  before == e[k]
    <2>1. j \in 1..n /\ j - 1 = k /\ k \in 0..n
        BY <1>4, <1>9
    <2> HIDE DEF j
    <2>2. /\ word \in ByteText /\ before \in Int /\ before >= -1 /\ end \in Nat /\ end <= Len(t)
          /\ WordIn(t, word, before, end) /\ CanBeSent(word)
        BY <1>4, <1>5, <2>1 DEF Sendable, n
    <2> HIDE DEF word, end, before
    <2>3. start = before + 2
        BY <1>7 DEF before
    <2>4. /\ Begin \in Nat /\ Begin > 0 /\ Begin <= Len(CurrentText)
          /\ end = Begin - 1 + Len(Written(word)) /\ end <= Len(CurrentText)
          /\ InPlace(CurrentText, Begin - 1, Written(word))
        BY <1>1, <2>2, <2>3, WordBegins DEF t
    <2>5. end + 1 <= Len(t) => t[end + 1] \in Delimiters
        <3> SUFFICES ASSUME end + 1 <= Len(t) PROVE t[end + 1] \in Delimiters
            OBVIOUS
        <3>1. CASE j = n
            <4>1. end + 1 \in (end + 1)..Len(t) /\ end + 1 > 0
                BY <1>2, <2>2
            <4> QED  BY <1>5, <3>1, <4>1 DEF Gapped, end
        <3>2. CASE j # n
            <4>1. j + 1 \in 1..n /\ (j + 1) - 1 = j
                BY <1>4, <2>1, <3>2
            <4>2. WordIn(t, ws[j + 1], end, e[j + 1])
                BY <1>5, <4>1 DEF end
            <4>3. PICK d \in Nat : end < d /\ Gapped(t, end + 1, d)
                BY <4>2 DEF WordIn
            <4>4. end + 1 \in (end + 1)..d /\ end + 1 > 0
                BY <2>2, <4>3
            <4> QED  BY <4>3, <4>4 DEF Gapped
        <3> QED  BY <3>1, <3>2
    <2>6. GetWord(word, end + 2)
        <3>1. CASE IsPlain(word)
            BY <2>2, <2>4, <2>5, <3>1, PlainRead DEF t
        <3>2. CASE ~IsPlain(word)
            BY <2>2, <2>4, <3>2, QuotedRead
        <3> QED  BY <3>1, <3>2
    <2>7. words' = Append(words, word) /\ start' = e[j] + 2
        BY <2>6 DEF GetWord, end
    <2>8. Len(words') = k + 1 /\ words'[k + 1] = word /\ \A i \in 1..k : words'[i] = words[i]
        <3> DEFINE S == ByteText
        <3> HIDE DEF S
        <3>1. words \in Seq(S) /\ word \in S /\ Len(words) = k
            BY <1>6, <1>7, <2>2 DEF S
        <3> QED  BY <2>7, <3>1
    <2>9. Len(words') = j /\ \A i \in 1..j : words'[i] = ws[i]
        <3>1. ASSUME NEW i \in 1..j PROVE words'[i] = ws[i]
            <4>1. CASE i = j
                BY <2>8, <4>1 DEF word, j
            <4>2. CASE i # j
                <5>1. i \in 1..k
                    BY <2>1, <4>2 DEF j
                <5> QED  BY <1>7, <2>8, <5>1
            <4> QED  BY <4>1, <4>2
        <3> QED  BY <2>8, <3>1 DEF j
    <2>10. j \in 0..n
        BY <1>4, <2>1
    <2> QED  BY <2>7, <2>9, <2>10 DEF Progress, n
<1>10. CASE k = n
    <2>1. start = e[n] + 2 /\ e[n] \in Int /\ e[n] >= -1
        BY <1>4, <1>7, <1>10
    <2> DEFINE B == Begin  m == e[n]  len == Len(t)
    <2>2. B > len
        <3> SUFFICES ASSUME B <= len PROVE FALSE
            BY <1>2
        <3>1. B \in (m + 1)..len /\ B > 0
            <4> HIDE DEF B, m, len
            <4>1. B \in Int /\ start <= B /\ start = m + 2 /\ m \in Int /\ m >= -1 /\ len \in Nat
                  /\ B <= len
                BY <1>2, <2>1 DEF B, m, len
            <4> QED  BY <4>1
        <3> QED  BY <1>2, <1>5, <3>1 DEF Gapped
    <2>3. GetNothing
        <3>1. ~(Begin <= Len(CurrentText))
            BY <1>2, <2>2 DEF t
        <3> QED  BY <3>1 DEF Getting, GetQuoted, GetOpen, GetPlain, IsQuoted
    <2>4. words' = Append(words, <<>>) /\ start' = len + 1
        BY <2>3 DEF GetNothing, GetWord, t
    <2>5. words = ws
        BY <1>5, <1>6, <1>7, <1>10, SeqEqual DEF n
    <2>6. len - m > 1
        <3> HIDE DEF m, len
        <3>1. start <= len /\ start = m + 2 /\ m \in Int /\ len \in Nat
            BY <1>2, <2>1 DEF m, len
        <3> QED  BY <3>1
    <2> QED  BY <2>4, <2>5, <2>6 DEF Progress, n
<1> QED  BY <1>4, <1>9, <1>10

\* At its end all of the words are read.
LEMMA TextRead ==
    ASSUME NEW t, NEW ws, NEW behind, NEW rs \in Seq(ByteText), NEW s,
           Reading(t, ws, behind, rs, s), s > Len(t)
    PROVE  rs = ws \/ (behind > 1 /\ rs = Append(ws, <<>>))
<1> DEFINE n == Len(ws)
<1>1. PICK e : /\ WordsIn(t, ws, e) /\ (Len(t) - e[n] > 1 => behind > 1)
               /\ Progress(t, ws, e, rs, s)
    BY DEF Reading
<1>2. /\ n \in Nat /\ Len(t) \in Nat /\ \A j \in 0..n : e[j] \in Int /\ e[j] >= -1
      /\ \A j \in 1..n : e[j] \in Nat /\ e[j] > e[j - 1] /\ e[j] <= Len(t)
    BY <1>1, WordsEnds
<1>3. /\ ws \in Seq(ByteText)
      /\ \A j \in 1..n : ws[j] \in ByteText /\ WordIn(t, ws[j], e[j - 1], e[j])
    BY <1>1 DEF WordsIn
<1>4. CASE rs = Append(ws, <<>>) /\ Len(t) - e[n] > 1
    BY <1>1, <1>4
<1>5. CASE \E k \in 0..n : Len(rs) = k /\ (\A i \in 1..k : rs[i] = ws[i]) /\ s = e[k] + 2
    <2>1. PICK k \in 0..n : Len(rs) = k /\ (\A i \in 1..k : rs[i] = ws[i]) /\ s = e[k] + 2
        BY <1>5
    <2>2. CASE k < n
        <3> DEFINE j == k + 1  w == Written(ws[j])
        <3>1. j \in 1..n /\ j - 1 = k
            BY <1>2, <2>2
        <3> HIDE DEF j
        <3>2. ws[j] \in ByteText /\ WordIn(t, ws[j], e[k], e[j]) /\ e[k] \in Int
            BY <1>2, <1>3, <3>1
        <3>3. Len(w) \in Nat /\ Len(w) >= 1
            BY <3>2, WrittenIs
        <3>4. PICK d \in Nat : e[k] < d /\ d + Len(w) <= Len(t)
            BY <3>2 DEF WordIn, InPlace
        <3> DEFINE x == e[k]  m == Len(w)
        <3> HIDE DEF w, x, m
        <3>5. x \in Int /\ x < d /\ d + m <= Len(t) /\ m \in Nat /\ m >= 1 /\ x + 2 > Len(t)
            BY <2>1, <3>2, <3>3, <3>4 DEF x, m
        <3> QED  BY <1>2, <3>5
    <2>3. CASE k = n
        BY <1>3, <2>1, <2>3, SeqEqual
    <2> QED  BY <1>2, <2>2, <2>3
<1> QED  BY <1>1, <1>4, <1>5 DEF Progress

-----------------------------------------------------------------------------
(* A request is understood.                                                *)

\* The first word of a line is not the method of a GET.
LEMMA LineIsNoGet ==
    ASSUME NEW t, NEW ws, NEW behind, Spells(t, ws, behind), ws # <<>>, Head(ws) # SubSeq(Get, 1, 3)
    PROVE  ~IsPrefix(Get, t)
<1> SUFFICES ASSUME IsPrefix(Get, t) PROVE FALSE
    OBVIOUS
<1> DEFINE n == Len(ws)  word == ws[1]
<1>1. PICK e : WordsIn(t, ws, e)
    BY DEF Spells
<1>2. /\ t \in Seq(Bytes) /\ ws \in Seq(ByteText) /\ n \in Nat /\ n >= 1 /\ e[0] = -1
      /\ \A j \in 1..n : ws[j] \in ByteText /\ WordIn(t, ws[j], e[j - 1], e[j])
      /\ Gapped(t, e[n] + 1, Len(t)) /\ Len(t) \in Nat /\ word = Head(ws)
    BY <1>1 DEF WordsIn, ByteText
<1>3. Len(t) >= 4 /\ t[1] = 71 /\ t[2] = 69 /\ t[3] = 84 /\ t[4] = Space
    <2>1. Get \in Seq(Bytes) /\ Len(Get) = 4 /\ Get[1] = 71 /\ Get[2] = 69 /\ Get[3] = 84
          /\ Get[4] = Space
        BY DEF Get, Bytes, Space
    <2>2. Len(Get) <= Len(t) /\ SubSeq(t, 1, Len(Get)) = Get
        BY <1>2, <2>1 DEF IsPrefix
    <2>3. SubSeq(t, 1, 4) = Get /\ Len(t) >= 4
        BY <2>1, <2>2
    <2>4. \A i \in 1..4 : SubSeq(t, 1, 4)[i] = t[i]
        BY <1>2, <2>3
    <2> QED  BY <2>1, <2>3, <2>4
<1>4. 71 \notin Delimiters /\ 69 \notin Delimiters /\ 84 \notin Delimiters /\ Space \in Delimiters
      /\ Quote # 71
    BY DEF Delimiters, Space, Tab, Return, LineFeed, Quote
<1>5. word \in ByteText /\ WordIn(t, word, -1, e[1])
    <2>1. 1 \in 1..n /\ 1 - 1 = 0
        BY <1>2
    <2> QED  BY <1>2, <2>1
<1> HIDE DEF n, word
<1>6. PICK d \in Nat : /\ e[1] = d + Len(Written(word)) /\ InPlace(t, d, Written(word))
                       /\ Gapped(t, (-1) + 1, d)
    BY <1>5 DEF WordIn
<1>7. d = 0
    <2> SUFFICES ASSUME d # 0 PROVE FALSE
        OBVIOUS
    <2>1. 1 \in ((-1) + 1)..d
        OBVIOUS
    <2> QED  BY <1>3, <1>4, <1>6, <2>1 DEF Gapped
<1>8. /\ Len(Written(word)) \in Nat /\ Len(Written(word)) >= 1 /\ Len(Written(word)) <= Len(t)
      /\ \A i \in 1..Len(Written(word)) : t[i] = Written(word)[i]
    BY <1>5, <1>6, <1>7, WrittenIs DEF InPlace
<1>9. IsPlain(word)
    <2>1. Written(word)[1] = 71
        BY <1>3, <1>8
    <2> QED  BY <1>4, <1>5, <2>1, WrittenIs DEF InQuotes
<1> DEFINE m == Len(word)
<1>10. /\ m \in Nat /\ m >= 1 /\ m <= Len(t) /\ e[1] = m
       /\ \A i \in 1..m : t[i] = word[i] /\ word[i] \notin Delimiters
    BY <1>5, <1>6, <1>7, <1>8, <1>9, WrittenIs, PlainIs
<1> HIDE DEF m
<1>11. m + 1 <= Len(t) => t[m + 1] \in Delimiters
    <2> SUFFICES ASSUME m + 1 <= Len(t) PROVE t[m + 1] \in Delimiters
        OBVIOUS
    <2>1. CASE n = 1
        <3>1. m + 1 \in (e[n] + 1)..Len(t) /\ m + 1 > 0
            BY <1>2, <1>10, <2>1
        <3> QED  BY <1>2, <3>1 DEF Gapped
    <2>2. CASE n # 1
        <3>1. 2 \in 1..n /\ 2 - 1 = 1
            BY <1>2, <2>2
        <3>2. WordIn(t, ws[2], m, e[2])
            BY <1>2, <1>10, <3>1
        <3>3. PICK c \in Nat : m < c /\ Gapped(t, m + 1, c)
            BY <3>2 DEF WordIn
        <3>4. m + 1 \in (m + 1)..c /\ m + 1 > 0
            BY <1>10, <3>3
        <3> QED  BY <3>3, <3>4 DEF Gapped
    <2> QED  BY <2>1, <2>2
<1>12. m = 3
    <2>1. m # 1
        BY <1>3, <1>4, <1>11
    <2>2. m # 2
        BY <1>3, <1>4, <1>11
    <2>3. ~(m >= 4)
        <3> SUFFICES ASSUME m >= 4 PROVE FALSE
            OBVIOUS
        <3>1. 4 \in 1..m
            BY <1>10
        <3> QED  BY <1>3, <1>4, <1>10, <3>1
    <2> QED  BY <1>10, <2>1, <2>2, <2>3
<1>13. word = SubSeq(Get, 1, 3)
    <2> DEFINE g == SubSeq(Get, 1, 3)
    <2>1. g \in Seq(Bytes) /\ Len(g) = 3 /\ g[1] = 71 /\ g[2] = 69 /\ g[3] = 84
        BY DEF Get, Bytes
    <2> HIDE DEF g
    <2>2. word \in Seq(Bytes) /\ Len(word) = 3 /\ word[1] = 71 /\ word[2] = 69 /\ word[3] = 84
        <3>1. 1 \in 1..m /\ 2 \in 1..m /\ 3 \in 1..m
            BY <1>12
        <3>2. word \in Seq(Bytes) /\ Len(word) = 3
            BY <1>5, <1>12 DEF m, ByteText
        <3> QED  BY <1>3, <1>10, <3>1, <3>2
    <2>3. word = g
        BY <2>1, <2>2
    <2> QED  BY <2>3 DEF g
<1> QED  BY <1>2, <1>13 DEF word

LEMMA LowerMore ==
    ASSUME NEW ws \in Line
    PROVE  Lower(Append(ws, <<>>)) = Append(Lower(ws), <<>>)
<1> DEFINE more == Append(ws, <<>>)  l == Lower(ws)  k == Lower(more)  n == Len(ws)
           r == Append(l, <<>>)
<1>1. ws \in Seq(ByteText) /\ n \in Nat /\ n >= 1 /\ <<>> \in ByteText
    BY DEF Line, ByteText
<1>2. /\ more \in Seq(ByteText) /\ Len(more) = n + 1 /\ more[n + 1] = <<>>
      /\ \A i \in 1..n : more[i] = ws[i]
    <2> DEFINE S == ByteText
    <2> HIDE DEF S
    <2>1. ws \in Seq(S) /\ <<>> \in S
        BY <1>1 DEF S
    <2>2. /\ more \in Seq(S) /\ Len(more) = n + 1 /\ more[n + 1] = <<>>
          /\ \A i \in 1..n : more[i] = ws[i]
        BY <2>1
    <2> QED  BY <2>2 DEF S
<1> HIDE DEF more
<1>3. IsLower(k, more) /\ IsLower(l, ws)
    BY <1>1, <1>2, LowerIs
<1> HIDE DEF k, l, n
<1>4. /\ k \in Seq(ByteText) /\ l \in Seq(ByteText) /\ Len(k) = n + 1 /\ Len(l) = n
      /\ \A i \in 3..(n + 1) : k[i] = more[i]
      /\ \A i \in 3..n : l[i] = ws[i]
    BY <1>2, <1>3 DEF IsLower, n
<1>5. k[1] = Lowered(more[1]) /\ k[2] = IF k[1] = Cddb THEN Lowered(more[2]) ELSE more[2]
    BY <1>1, <1>2, <1>3 DEF IsLower
<1>6. l[1] = Lowered(ws[1]) /\ (n > 1 => l[2] = IF l[1] = Cddb THEN Lowered(ws[2]) ELSE ws[2])
    BY <1>1, <1>3 DEF IsLower, n
<1>7. Lowered(<<>>) = <<>>
    BY DEF Lowered
<1>8. r \in Seq(ByteText) /\ Len(r) = n + 1 /\ r[n + 1] = <<>> /\ \A i \in 1..n : r[i] = l[i]
    <2> DEFINE S == ByteText
    <2> HIDE DEF S
    <2>1. l \in Seq(S) /\ <<>> \in S /\ Len(l) = n
        BY <1>1, <1>4 DEF S
    <2>2. r \in Seq(S) /\ Len(r) = n + 1 /\ r[n + 1] = <<>> /\ \A i \in 1..n : r[i] = l[i]
        BY <2>1
    <2> QED  BY <2>2 DEF S
<1> HIDE DEF r
<1>9. ASSUME NEW i \in 1..(n + 1) PROVE k[i] = r[i]
    <2>1. k[1] = l[1]
        <3>1. 1 \in 1..n
            BY <1>1
        <3> QED  BY <1>2, <1>5, <1>6, <3>1
    <2>2. CASE i = 1
        <3>1. 1 \in 1..n
            BY <1>1
        <3> QED  BY <1>8, <2>1, <2>2, <3>1
    <2>3. CASE i = n + 1
        <3>1. CASE n = 1
            <4>1. i = 2 /\ more[2] = <<>>
                BY <1>2, <2>3, <3>1
            <4> QED  BY <1>5, <1>7, <1>8, <2>3, <4>1
        <3>2. CASE n # 1
            <4>1. i \in 3..(n + 1)
                BY <1>1, <2>3, <3>2
            <4> QED  BY <1>2, <1>4, <1>8, <2>3, <4>1
        <3> QED  BY <3>1, <3>2
    <2>4. CASE i = 2 /\ i # n + 1
        <3>1. 2 \in 1..n /\ n > 1
            BY <1>1, <2>4
        <3> QED  BY <1>2, <1>5, <1>6, <1>8, <2>1, <2>4, <3>1
    <2>5. CASE i > 2 /\ i # n + 1
        <3>1. i \in 1..n /\ i \in 3..n /\ i \in 3..(n + 1)
            BY <1>1, <2>5
        <3> QED  BY <1>2, <1>4, <1>8, <3>1
    <2> QED  BY <1>1, <2>2, <2>3, <2>4, <2>5
<1>10. k = r
    BY <1>4, <1>8, <1>9, SeqEqual
<1> QED  BY <1>10 DEF k, r, l, more

\* What a client has sent, all the time.
Sent ==
    /\ client.words \in Seq(Line)
    /\ \/ Len(client.words) = 1
       \/ Len(client.words) = 3 /\ client.words[2] = Proto /\ client.behind = 0
    /\ client.offer # NoId =>
        /\ client.offer \in Ids
        /\ client.words[Len(client.words)] = <<Cddb, Read, Generic, Hexadecimal(client.offer)>>

\* A line that is not split, and a GET that is.
Unsplit ==
    /\ ~BeginsGet
    /\ Len(client.words) = 1 /\ Spells(input, client.words[1], client.behind)

SplitOf(cmd, hello, gap, style, a, b, e) ==
    /\ cmd \in Line /\ hello \in Line /\ Head(hello) = Hello /\ gap \in GapSet
    /\ client.words = <<hello, Proto, cmd>> /\ client.behind = 0
    /\ Params(a, b, e, UrlsOf(cmd, hello, gap, style), ValuesOf(cmd, hello, gap), style)
    /\ NamesKept(a, b, e) /\ Decoded(a, b, e, ValuesOf(cmd, hello, gap), style)

Splitting == \E cmd, hello, gap, style, a, b, e : SplitOf(cmd, hello, gap, style, a, b, e)

\* The texts to be worked on spell what was sent behind what was seen.
TextsLeft ==
    /\ Len(seen) + Len(texts) = Len(client.words)
    /\ \A i \in 1..Len(texts) : Spells(texts[i], client.words[Len(seen) + i], client.behind)

\* Of words that can be sent, those of the first text are read as they were sent,
\* and those that were seen have arrived.
WordsRead ==
    texts # <<>> /\ Sendable(client.words[Len(seen) + 1]) =>
        Reading(texts[1], client.words[Len(seen) + 1], client.behind, words, start)

WordsSeen ==
    \A i \in 1..Len(seen) : Sendable(client.words[i]) => Arrived(client.words[i], seen[i])

IdRead ==
    client.offer # NoId /\ texts = <<>> => id = client.offer \/ Len(Last(seen)) > 4

NothingSeen == seen = <<>> /\ words = <<>> /\ start = 1

Understood ==
    /\ Sent
    /\ ~client.cut /\ client.escaped =>
        /\ phase = "received" => NothingSeen /\ (Unsplit \/ Splitting)
        /\ phase = "splitting" => NothingSeen /\ Splitting
        /\ phase \in {"words", "done"} => TextsLeft /\ WordsRead /\ WordsSeen /\ IdRead
        /\ phase = "done" => texts = <<>>
        /\ phase = "thrown" => client.offer = NoId

LEMMA HelloJoins ==
    ASSUME NEW ws \in Line
    PROVE  <<Head(ws)>> \o Tail(ws) = ws /\ Tail(ws) \in Seq(ByteText)
<1> DEFINE S == ByteText  h == <<Head(ws)>>  t == Tail(ws)  c == h \o t
<1>1. ws \in Seq(ByteText) /\ ws # <<>>
    BY DEF Line
<1> HIDE DEF S
<1>2. ws \in Seq(S)
    BY <1>1 DEF S
<1>3. h \in Seq(S) /\ Len(h) = 1 /\ h[1] = ws[1]
    BY <1>1, <1>2
<1>4. t \in Seq(S) /\ Len(t) = Len(ws) - 1 /\ (\A i \in 1..Len(t) : t[i] = ws[i + 1])
      /\ Len(ws) \in Nat
    BY <1>1, <1>2
<1> HIDE DEF h, t
<1>5. TextsConcat(c, h, t)
    BY <1>3, <1>4, TextsConcatIs DEF S
<1> HIDE DEF c
<1>6. c \in Seq(S) /\ Len(c) = Len(ws)
    BY <1>3, <1>4, <1>5 DEF TextsConcat, S
<1>7. ASSUME NEW i \in 1..Len(ws) PROVE c[i] = ws[i]
    <2>1. CASE i = 1
        <3>1. 1 \in 1..Len(h)
            BY <1>3
        <3> QED  BY <1>3, <1>5, <2>1, <3>1 DEF TextsConcat
    <2>2. CASE i # 1
        <3>1. i - 1 \in 1..Len(t) /\ Len(h) + (i - 1) = i /\ (i - 1) + 1 = i
            BY <1>3, <1>4, <2>2
        <3>2. c[Len(h) + (i - 1)] = t[i - 1] /\ t[i - 1] = ws[(i - 1) + 1]
            BY <1>4, <1>5, <3>1 DEF TextsConcat
        <3> QED  BY <3>1, <3>2
    <2> QED  BY <2>1, <2>2
<1>8. c = ws
    BY <1>2, <1>6, <1>7, SeqEqual DEF S
<1> QED  BY <1>4, <1>8 DEF c, h, t, S

LEMMA SentBegins ==
    ASSUME Receive
    PROVE  Sent
<1>1. ASSUME NEW cmd, NEW offer, NEW gap, NEW ending, IsLine(cmd, offer, gap, ending)
      PROVE  Sent
    <2>1. /\ client = [words |-> <<cmd>>, offer |-> offer, behind |-> Len(ending),
                       escaped |-> TRUE, cut |-> FALSE]
          /\ Asks(cmd, offer)
        BY <1>1 DEF IsLine, SentLine
    <2>2. client.words = <<cmd>> /\ client.offer = offer
        BY <2>1
    <2>3. cmd \in Line
        BY <2>1 DEF Asks
    <2>4. client.words \in Seq(Line) /\ Len(client.words) = 1 /\ client.words[1] = cmd
        BY <2>2, <2>3
    <2> QED  BY <2>1, <2>2, <2>4 DEF Sent, Asks
<1>2. ASSUME NEW cmd, NEW offer, NEW hello, NEW gap, NEW style,
             IsGet(cmd, offer, hello, gap, style)
      PROVE  Sent
    <2>1. SentGet(cmd, offer, hello, gap, style[1], style[2]) /\ Asks(cmd, offer) /\ hello \in Line
        BY <1>2 DEF IsGet
    <2> DEFINE plain == style[2] # Unescaping
    <2>2. \E c : client = [words |-> <<hello, Proto, cmd>>, offer |-> offer, behind |-> 0,
                           escaped |-> plain, cut |-> c]
        BY <2>1 DEF SentGet
    <2> HIDE DEF plain
    <2>3. client.words = <<hello, Proto, cmd>> /\ client.offer = offer /\ client.behind = 0
        BY <2>2
    <2>4. cmd \in Line /\ hello \in Line /\ Proto \in Line
        BY <2>1, WordsAreBytes DEF Asks
    <2> DEFINE p == Proto
    <2> HIDE DEF p
    <2>5. client.words \in Seq(Line) /\ Len(client.words) = 3 /\ client.words[3] = cmd
          /\ client.words[2] = p
        BY <2>3, <2>4 DEF p
    <2> QED  BY <2>1, <2>3, <2>5 DEF Sent, Asks, p
<1> QED  BY <1>1, <1>2, ReceiveIs

LEMMA UnderstoodBegins ==
    ASSUME Init
    PROVE  Understood
<1>1. pos = 1 /\ state = "Preamble" /\ hex = [count |-> 0, char |-> 0] /\ query = <<>>
      /\ parts = <<>> /\ phase = "received" /\ NothingSeen /\ Receive
    BY DEF Init, NothingSeen
<1>2. Sent
    BY <1>1, SentBegins
<1>3. ASSUME NEW cmd, NEW offer, NEW gap, NEW ending, IsLine(cmd, offer, gap, ending)
      PROVE  Unsplit
    <2>1. /\ client = [words |-> <<cmd>>, offer |-> offer, behind |-> Len(ending),
                       escaped |-> TRUE, cut |-> FALSE]
          /\ input = Joined(cmd, gap) \o ending
        BY <1>3 DEF IsLine, SentLine
    <2>2. client.words = <<cmd>> /\ client.behind = Len(ending)
        BY <2>1
    <2>3. cmd \in Seq(ByteText) /\ cmd # <<>> /\ Head(cmd) # SubSeq(Get, 1, 3)
          /\ gap \in GapSet /\ ending \in Seq(Delimiters)
        BY <1>3 DEF IsLine, Asks, Line
    <2>4. Spells(input, cmd, Len(ending))
        BY <2>1, <2>3, LineSpells
    <2>5. ~BeginsGet
        BY <2>3, <2>4, LineIsNoGet DEF BeginsGet
    <2> QED  BY <2>2, <2>4, <2>5 DEF Unsplit
<1>4. ASSUME NEW cmd, NEW offer, NEW hello, NEW gap, NEW style,
             IsGet(cmd, offer, hello, gap, style), ~client.cut, client.escaped
      PROVE  Splitting
    <2>1. SentGet(cmd, offer, hello, gap, style[1], style[2])
          /\ cmd \in Line /\ hello \in Line /\ Head(hello) = Hello /\ gap \in GapSet
        BY <1>4 DEF IsGet, Asks
    <2>2. client.words = <<hello, Proto, cmd>> /\ client.behind = 0
        <3> DEFINE plain == style[2] # Unescaping
        <3>1. \E c : client = [words |-> <<hello, Proto, cmd>>, offer |-> offer, behind |-> 0,
                               escaped |-> plain, cut |-> c]
            BY <2>1 DEF SentGet
        <3> HIDE DEF plain
        <3> QED  BY <3>1
    <2> DEFINE us == UrlsOf(cmd, hello, gap, style)  vs == ValuesOf(cmd, hello, gap)
    <2>3. PICK a, b, e : Params(a, b, e, us, vs, style)
        BY <1>4, ParamsAre
    <2>4. a \in Nat /\ b \in Nat /\ e \in Nat /\ a > 10 /\ b > a + 6 /\ e > b + 6
        BY <2>3 DEF Params, Marks
    <2>5. ~(a < 1) /\ ~(b < 1) /\ ~(e < 1) /\ ~(a + 6 < 1) /\ ~(b + 6 < 1) /\ ~(10 < 1)
        BY <2>4
    <2>6. NamesKept(a, b, e)
        BY <1>1, <2>5 DEF NamesKept, StateAt, PartsAt, InName, InValue
    <2>7. hex.count = 0
        BY <1>1
    <2> HIDE DEF us, vs
    <2>8. Decoded(a, b, e, vs, style)
        BY <1>1, <2>5, <2>7 DEF Decoded
    <2> QED  BY <2>1, <2>2, <2>3, <2>6, <2>8 DEF Splitting, SplitOf, us, vs
<1>5. ~client.cut /\ client.escaped => Unsplit \/ Splitting
    BY <1>1, <1>3, <1>4, ReceiveIs
<1> QED  BY <1>1, <1>2, <1>5 DEF Understood

\* The texts of a GET spell hello, protocol and command.
LEMMA GetSpells ==
    ASSUME NEW cmd \in Line, NEW hello \in Line, Head(hello) = Hello, NEW gap \in GapSet
    PROVE  LET g == GetTexts(ValuesOf(cmd, hello, gap))
           IN  Len(g) = 3 /\ Spells(g[1], hello, 0) /\ Spells(g[2], Proto, 0) /\ Spells(g[3], cmd, 0)
<1> DEFINE g == GetTexts(ValuesOf(cmd, hello, gap))
           x == Joined(Tail(hello), gap)  y == Joined(Tail(Proto), gap)
<1>1. Len(g) = 3 /\ g[1] = Labelled(Hello) \o x /\ g[2] = Labelled(Head(Proto)) \o y
      /\ g[3] = Joined(cmd, gap)
    BY DEF GetTexts, ValuesOf
<1>2. gap \in Seq(Delimiters) /\ Proto \in Line /\ cmd \in Seq(ByteText)
      /\ Hello \in Names /\ Head(Proto) \in Names
    BY WordsAreBytes DEF GapSet, Line, Names
<1>3. ASSUME NEW ws \in Line, Head(ws) \in Names
      PROVE  Spells(Labelled(Head(ws)) \o Joined(Tail(ws), gap), ws, 0)
    <2>1. Tail(ws) \in Seq(ByteText) /\ <<Head(ws)>> \o Tail(ws) = ws
        BY HelloJoins
    <2>2. Joined(Tail(ws), gap) \in ByteText /\ Spells(Joined(Tail(ws), gap), Tail(ws), 0)
        BY <1>2, <2>1, JoinedType, JoinedSpells
    <2>3. Spells(Labelled(Head(ws)) \o Joined(Tail(ws), gap), <<Head(ws)>> \o Tail(ws), 0)
        BY <1>3, <2>1, <2>2, NamedSpells
    <2> QED  BY <2>1, <2>3
<1>4. Spells(Labelled(Hello) \o x, hello, 0)
    BY <1>2, <1>3
<1>5. Spells(Labelled(Head(Proto)) \o y, Proto, 0)
    BY <1>2, <1>3
<1>6. Spells(Joined(cmd, gap), cmd, 0)
    BY <1>2, JoinedSpells
<1> HIDE DEF x, y
<1> QED  BY <1>1, <1>4, <1>5, <1>6

\* What is begun with: nothing is seen, and the texts spell what was sent.
LEMMA TextsBegin ==
    ASSUME NothingSeen', Len(texts') = Len(client'.words), texts' # <<>>, texts' \in Seq(ByteText),
           \A i \in 1..Len(texts') : Spells(texts'[i], client'.words[i], client'.behind)
    PROVE  (TextsLeft /\ WordsRead /\ WordsSeen /\ IdRead)'
<1>1. seen' = <<>> /\ words' = <<>> /\ start' = 1 /\ Len(seen') = 0
    BY DEF NothingSeen
<1>2. Len(texts') \in Nat /\ Len(texts') >= 1 /\ 1 \in 1..Len(texts')
    OBVIOUS
<1>3. \A i \in 1..Len(texts') : 0 + i = i
    OBVIOUS
<1>4. TextsLeft'
    BY <1>1, <1>2, <1>3 DEF TextsLeft
<1>5. Reading(texts'[1], client'.words[1], client'.behind, <<>>, 1)
    BY <1>2, ReadingBegins
<1>6. WordsRead'
    BY <1>1, <1>5 DEF WordsRead
<1>7. WordsSeen' /\ IdRead'
    BY <1>1 DEF WordsSeen, IdRead
<1> QED  BY <1>4, <1>6, <1>7

\* Words that are read arrive.
LEMMA WordsArrived ==
    ASSUME Typed, CddbRequest, NEW ws \in Line,
           Reading(texts[1], ws, client.behind, words, start)
    PROVE  Arrived(ws, Lower(words)) /\ (~(client.behind > 1) => words = ws)
<1>1. texts \in Seq(ByteText) /\ texts # <<>> /\ words \in Seq(ByteText) /\ start > Len(texts[1])
    <2>1. texts \in Seq(ByteText) /\ texts # <<>> /\ words \in Seq(ByteText) /\ Eol
        BY DEF Typed, CddbRequest
    <2>2. CurrentText = texts[1]
        BY <2>1 DEF CurrentText
    <2> QED  BY <2>1, <2>2 DEF Eol
<1>2. words = ws \/ (client.behind > 1 /\ words = Append(ws, <<>>))
    BY <1>1, TextRead
<1>3. Lower(Append(ws, <<>>)) = Append(Lower(ws), <<>>)
    BY LowerMore
<1> QED  BY <1>2, <1>3 DEF Arrived

LEMMA AnswerArrives ==
    ASSUME Typed, CddbRequest, Sent, TextsLeft, WordsRead, WordsSeen
    PROVE  TextsLeft' /\ WordsRead' /\ WordsSeen'
<1> DEFINE m == Len(seen)  n == Len(texts)  cw == client.words  ws == cw[m + 1]  lw == Lower(words)
           t == texts
<1>1. /\ seen' = Append(seen, lw) /\ texts' = Tail(t) /\ t # <<>>
      /\ start' = 1 /\ words' = <<>> /\ client' = client
    BY DEF CddbRequest
<1>2. seen \in Seq(Seq(ByteText)) /\ t \in Seq(ByteText) /\ words \in Seq(ByteText)
      /\ cw \in Seq(Line)
    BY DEF Typed, Sent
<1>3. lw \in Seq(ByteText)
    BY <1>2, LowerIs DEF IsLower
<1> HIDE DEF lw
<1>4. m \in Nat /\ n \in Nat /\ n >= 1 /\ m + n = Len(cw)
      /\ \A i \in 1..n : Spells(t[i], cw[m + i], client.behind)
    BY <1>1, <1>2 DEF TextsLeft
<1>5. Len(seen') = m + 1 /\ seen'[m + 1] = lw /\ \A i \in 1..m : seen'[i] = seen[i]
    <2> DEFINE S == Seq(ByteText)
    <2> HIDE DEF S
    <2>1. seen \in Seq(S) /\ lw \in S
        BY <1>2, <1>3 DEF S
    <2> QED  BY <1>1, <2>1
<1> HIDE DEF m, n, t
<1>6. Len(texts') = n - 1 /\ \A i \in 1..(n - 1) : texts'[i] = t[i + 1]
    <2> DEFINE S == ByteText
    <2> HIDE DEF S
    <2>1. t \in Seq(S) /\ t # <<>> /\ n = Len(t)
        BY <1>1, <1>2 DEF S, n, t
    <2> QED  BY <1>1, <2>1
<1>7. ASSUME NEW i \in 1..(n - 1)
      PROVE  Spells(texts'[i], cw[(m + 1) + i], client.behind)
    <2>1. i + 1 \in 1..n /\ m + (i + 1) = (m + 1) + i
        BY <1>4
    <2>2. Spells(t[i + 1], cw[m + (i + 1)], client.behind)
        BY <1>4, <2>1
    <2> QED  BY <1>6, <2>1, <2>2
<1>8. TextsLeft'
    <2>1. (m + 1) + (n - 1) = Len(cw)
        BY <1>4
    <2> QED  BY <1>1, <1>5, <1>6, <1>7, <2>1 DEF TextsLeft
<1>9. WordsRead'
    <2> SUFFICES ASSUME texts' # <<>>
                 PROVE  Reading(texts'[1], cw[(m + 1) + 1], client.behind, <<>>, 1)
        BY <1>1, <1>5 DEF WordsRead
    <2>1. texts' \in Seq(ByteText)
        BY <1>1, <1>2 DEF t
    <2>2. 1 \in 1..(n - 1)
        <3>1. Len(texts') \in Nat /\ Len(texts') # 0
            BY <2>1
        <3> QED  BY <1>4, <1>6, <3>1
    <2> QED  BY <1>7, <2>2, ReadingBegins
<1>10. WordsSeen'
    <2> SUFFICES ASSUME NEW i \in 1..(m + 1), Sendable(cw[i])
                 PROVE  \/ seen'[i] = Lower(cw[i])
                        \/ client.behind > 1 /\ seen'[i] = Append(Lower(cw[i]), <<>>)
        BY <1>1, <1>5 DEF WordsSeen, Arrived
    <2>1. CASE i = m + 1
        <3>1. cw[m + 1] \in Line
            <4>1. m + 1 \in 1..Len(cw)
                BY <1>4
            <4> QED  BY <1>2, <4>1
        <3>2. Reading(texts[1], cw[m + 1], client.behind, words, start)
            BY <1>1, <2>1 DEF WordsRead, m, t
        <3>3. Arrived(cw[m + 1], lw)
            BY <3>1, <3>2, WordsArrived DEF lw
        <3> QED  BY <1>1, <1>5, <2>1, <3>3 DEF Arrived
    <2>2. CASE i # m + 1
        <3>1. i \in 1..m
            BY <1>4, <2>2
        <3>2. Arrived(cw[i], seen[i])
            BY <3>1 DEF WordsSeen, m
        <3> QED  BY <1>1, <1>5, <3>1, <3>2 DEF Arrived
    <2> QED  BY <2>1, <2>2
<1> QED  BY <1>8, <1>9, <1>10

LEMMA PlainCanBeSent ==
    ASSUME NEW word \in ByteText, Len(word) > 0,
           \A i \in 1..Len(word) : word[i] \notin Delimiters /\ word[i] # Quote
    PROVE  CanBeSent(word)
<1>1. DOMAIN word = 1..Len(word) /\ Len(word) \in Nat /\ word # <<>> /\ Head(word) = word[1]
    BY DEF ByteText
<1>2. Head(word) # Quote
    BY <1>1
<1>3. Range(word) \cap Delimiters = {}
    BY <1>1 DEF Range
<1> QED  BY <1>1, <1>2, <1>3 DEF CanBeSent, IsPlain

OfferWords(n) == <<Cddb, Read, Generic, Hexadecimal(n)>>

LEMMA OfferCanBeSent ==
    ASSUME NEW n \in Ids
    PROVE  OfferWords(n) \in Line /\ Sendable(OfferWords(n))
<1> DEFINE h == Hexadecimal(n)
<1>1. h \in Seq(HexDigits) /\ h # <<>>
    BY HexadecimalIsRead
<1> HIDE DEF h
<1>2. \A c \in HexDigits \cup 97..122 : c \in Bytes /\ c \notin Delimiters /\ c # Quote
    BY DEF HexDigits, Digits, Bytes, Delimiters, Space, Tab, Return, LineFeed, Quote
<1>3. ASSUME NEW word \in Seq(HexDigits \cup 97..122), word # <<>>
      PROVE  word \in ByteText /\ CanBeSent(word)
    <2> DEFINE S == HexDigits \cup 97..122
    <2>1. S \subseteq Bytes
        BY <1>2
    <2>5. word \in Seq(S)
        OBVIOUS
    <2> HIDE DEF S
    <2>2. word \in Seq(S) /\ Len(word) > 0 /\ \A i \in 1..Len(word) : word[i] \in S
        BY <1>3, <2>5
    <2>3. word \in ByteText
        BY <2>1, <2>2, SeqMonotonic DEF ByteText
    <2>4. \A i \in 1..Len(word) : word[i] \notin Delimiters /\ word[i] # Quote
        BY <1>2, <2>2 DEF S
    <2> QED  BY <2>2, <2>3, <2>4, PlainCanBeSent
<1>4. /\ Cddb \in Seq(97..122) /\ Cddb # <<>> /\ Read \in Seq(97..122) /\ Read # <<>>
      /\ Generic \in Seq(97..122) /\ Generic # <<>>
    BY DEF Cddb, Read, Generic
<1>5. 97..122 \subseteq HexDigits \cup 97..122 /\ HexDigits \subseteq HexDigits \cup 97..122
    OBVIOUS
<1>6. \A s : s \in Seq(97..122) \/ s \in Seq(HexDigits) => s \in Seq(HexDigits \cup 97..122)
    BY <1>5, SeqMonotonic
<1>7. /\ Cddb \in ByteText /\ CanBeSent(Cddb) /\ Read \in ByteText /\ CanBeSent(Read)
      /\ Generic \in ByteText /\ CanBeSent(Generic) /\ h \in ByteText /\ CanBeSent(h)
    BY <1>1, <1>3, <1>4, <1>6
<1> DEFINE c == Cddb  r == Read  g == Generic  ws == <<c, r, g, h>>
<1> HIDE DEF c, r, g
<1>8. c \in ByteText /\ r \in ByteText /\ g \in ByteText /\ h \in ByteText
    BY <1>7 DEF c, r, g
<1>9. ws \in Line /\ Len(ws) = 4 /\ ws[1] = c /\ ws[2] = r /\ ws[3] = g /\ ws[4] = h
    BY <1>8 DEF Line
<1> HIDE DEF ws
<1>10. \A i \in 1..4 : i = 1 \/ i = 2 \/ i = 3 \/ i = 4
    OBVIOUS
<1>11. Sendable(ws)
    BY <1>7, <1>9, <1>10 DEF Sendable, c, r, g
<1>12. ws = OfferWords(n)
    BY DEF ws, OfferWords, c, r, g, h
<1> QED  BY <1>9, <1>11, <1>12

\* The command for an offer is a read, of the id that was offered.
LEMMA OfferAnswer ==
    ASSUME NEW n \in Ids, NEW lw, Arrived(OfferWords(n), lw), CommandOf(lw)
    PROVE  phase' = phase /\ (id' = n \/ Len(lw) > 4)
<1> DEFINE ws == OfferWords(n)  h == Hexadecimal(n)  l == Lower(ws)
<1>1. ws \in Seq(ByteText) /\ l \in Seq(ByteText) /\ IsLower(l, ws)
    BY OfferCanBeSent, LowerIs DEF IsLower, Line
<1>2. Len(ws) = 4 /\ ws[1] = Cddb /\ ws[2] = Read /\ ws[4] = h
    BY DEF OfferWords
<1>3. h \in Seq(HexDigits) /\ h # <<>> /\ HexNumber(h) = n
    BY HexadecimalIsRead
<1>4. IsHex(h)
    <2> HIDE DEF h
    <2> QED  BY <1>3 DEF IsHex
<1>5. Lowered(Cddb) = Cddb /\ Lowered(Read) = Read /\ Read # Query
    <2>1. ASSUME NEW word \in Seq(97..122) PROVE Lowered(word) = word
        <3>1. \A c \in 97..122 : c \notin 65..90
            OBVIOUS
        <3>2. \A i \in DOMAIN word : word[i] \in 97..122
            <4> DEFINE S == 97..122
            <4>1. word \in Seq(S)
                OBVIOUS
            <4> HIDE DEF S
            <4>2. \A i \in DOMAIN word : word[i] \in S
                BY <4>1
            <4> QED  BY <4>2 DEF S
        <3>3. Lowered(word) = [i \in DOMAIN word |-> word[i]]
            BY <3>1, <3>2 DEF Lowered
        <3> QED  BY <3>3
    <2>2. Cddb \in Seq(97..122) /\ Read \in Seq(97..122)
        BY DEF Cddb, Read
    <2>3. Read # Query
        BY DEF Read, Query
    <2> QED  BY <2>1, <2>2, <2>3
<1> HIDE DEF ws, h, l
<1>6. Len(l) = 4 /\ l[1] = Cddb /\ l[2] = Read /\ l[4] = h
    <2>1. 4 \in 3..4
        OBVIOUS
    <2> QED  BY <1>1, <1>2, <1>5, <2>1 DEF IsLower
<1>7. CASE lw = l
    <2>1. IsCommand(lw, Read) /\ ~IsCommand(lw, Query)
        BY <1>5, <1>6, <1>7 DEF IsCommand
    <2> QED  BY <1>3, <1>4, <1>6, <1>7, <2>1 DEF CommandOf, ReadCommand
<1>8. CASE lw = Append(l, <<>>)
    <2>1. Len(lw) = 5 /\ lw[1] = Cddb /\ lw[2] = Read
        <3> DEFINE S == ByteText
        <3>1. <<>> \in S
            BY DEF ByteText
        <3> HIDE DEF S
        <3>2. l \in Seq(S)
            BY <1>1 DEF S
        <3>3. Len(lw) = Len(l) + 1 /\ \A i \in 1..Len(l) : lw[i] = l[i]
            BY <1>8, <3>1, <3>2
        <3> QED  BY <1>6, <3>3
    <2>2. IsCommand(lw, Read) /\ ~IsCommand(lw, Query)
        BY <1>5, <2>1 DEF IsCommand
    <2> QED  BY <2>1, <2>2 DEF CommandOf, ReadCommand
<1> QED  BY <1>7, <1>8 DEF Arrived, l, ws

\* Neither the hello nor the protocol ends a request.
LEMMA HelloAnswer ==
    ASSUME Typed, CddbRequest, seen = <<>>, BeginsWith(texts[1], Hello), FirstWord(Hello)
    PROVE  phase' = phase
<1>1. CommandOf(Lower(words))
    BY DEF CddbRequest
<1>2. Lower(words)[1] = Hello
    BY NamedAnswer DEF Names
<1>3. Hello # Cddb /\ Hello # Head(Proto)
    BY NamesAreApart DEF NamesApart
<1> QED  BY <1>1, <1>2, <1>3 DEF CommandOf, IsCommand, ProtoThrows

LEMMA ProtoAnswer ==
    ASSUME Typed, CddbRequest, words = Proto
    PROVE  phase' = phase
<1> DEFINE lw == Lower(words)
<1>1. Len(Proto) = 2 /\ Proto[1] = Head(Proto) /\ IsNumber(Proto[2])
    BY DEF Proto, IsNumber, Digits
<1>2. IsLower(lw, Proto)
    <2>1. Proto \in Seq(ByteText)
        BY WordsAreBytes DEF Line
    <2> QED  BY <2>1, LowerIs
<1>3. CommandOf(lw)
    BY DEF CddbRequest
<1> HIDE DEF lw
<1>4. Head(Proto) # Cddb /\ Lowered(Head(Proto)) = Head(Proto)
    BY NamesAreApart DEF NamesApart
<1>5. lw[1] = Head(Proto) /\ lw[2] = Proto[2]
    BY <1>1, <1>2, <1>4 DEF IsLower
<1> QED  BY <1>1, <1>3, <1>4, <1>5 DEF CommandOf, IsCommand, ProtoThrows

LEMMA ProtoCanBeSent ==
    Sendable(Proto)
<1>1. Len(Proto) = 2 /\ Proto[1] = Head(Proto) /\ Proto[2] = <<54>>
    BY DEF Proto
<1>2. CanBeSent(Head(Proto))
    <2>1. Head(Proto) \in ByteText /\ Len(Head(Proto)) = 5 /\ \A i \in 1..5 : Head(Proto)[i] \in 97..122
        BY NamesAreBytes DEF Names
    <2>2. \A c \in 97..122 : c \notin Delimiters /\ c # Quote
        BY DEF Delimiters, Space, Tab, Return, LineFeed, Quote
    <2> DEFINE p == Head(Proto)
    <2> HIDE DEF p
    <2>3. p \in ByteText /\ Len(p) = 5 /\ \A i \in 1..5 : p[i] \in 97..122
        BY <2>1 DEF p
    <2>4. Len(p) > 0 /\ \A i \in 1..Len(p) : p[i] \notin Delimiters /\ p[i] # Quote
        BY <2>2, <2>3
    <2>5. CanBeSent(p)
        BY <2>3, <2>4, PlainCanBeSent
    <2> QED  BY <2>5 DEF p
<1>3. CanBeSent(<<54>>)
    <2> DEFINE p == <<54>>
    <2>1. p \in ByteText /\ Len(p) = 1 /\ p[1] = 54
        BY DEF ByteText, Bytes
    <2>2. 54 \notin Delimiters /\ 54 # Quote
        BY DEF Delimiters, Space, Tab, Return, LineFeed, Quote
    <2> HIDE DEF p
    <2>3. Len(p) > 0 /\ \A i \in 1..Len(p) : p[i] \notin Delimiters /\ p[i] # Quote
        BY <2>1, <2>2
    <2>4. CanBeSent(p)
        BY <2>1, <2>3, PlainCanBeSent
    <2> QED  BY <2>4 DEF p
<1>4. \A i \in 1..2 : i = 1 \/ i = 2
    OBVIOUS
<1> QED  BY <1>1, <1>2, <1>3, <1>4 DEF Sendable

\* What was offered is read with the last text, and no text before it ends
\* the request.
LEMMA OfferArrives ==
    ASSUME Typed, CddbRequest, Polite, Sent, TextsLeft, WordsRead,
           phase = "words", ~client.cut, client.offer # NoId
    PROVE  phase' = phase /\ IdRead'
<1> DEFINE m == Len(seen)  n == Len(texts)  cw == client.words  lw == Lower(words)
           offer == client.offer
<1>1. /\ CommandOf(lw) /\ seen' = Append(seen, lw) /\ texts' = Tail(texts) /\ texts # <<>>
      /\ client' = client
    BY DEF CddbRequest
<1>2. /\ seen \in Seq(Seq(ByteText)) /\ texts \in Seq(ByteText) /\ words \in Seq(ByteText)
      /\ cw \in Seq(Line) /\ offer \in Ids /\ cw[Len(cw)] = OfferWords(offer)
    BY DEF Typed, Sent, OfferWords
<1>3. lw \in Seq(ByteText)
    BY <1>2, LowerIs DEF IsLower
<1> HIDE DEF lw
<1>4. m \in Nat /\ n \in Nat /\ n >= 1 /\ m + n = Len(cw)
    BY <1>1, <1>2 DEF TextsLeft
<1>5. n # 1 => texts' # <<>>
    <2> DEFINE S == ByteText  t == texts
    <2> HIDE DEF S
    <2>1. t \in Seq(S) /\ t # <<>>
        BY <1>1, <1>2 DEF S
    <2> HIDE DEF t
    <2>2. Len(Tail(t)) = Len(t) - 1
        BY <2>1
    <2> QED  BY <1>1, <1>4, <2>2 DEF t
<1>6. Last(seen') = lw
    <2> DEFINE S == Seq(ByteText)
    <2> HIDE DEF S
    <2>1. seen \in Seq(S) /\ lw \in S
        BY <1>2, <1>3 DEF S
    <2>2. seen' \in Seq(S) /\ Len(seen') = Len(seen) + 1 /\ seen'[Len(seen) + 1] = lw
        BY <1>1, <2>1
    <2> QED  BY <2>2 DEF Last
<1>7. ASSUME Sendable(cw[m + 1])
      PROVE  Reading(texts[1], cw[m + 1], client.behind, words, start)
    BY <1>1, <1>7 DEF WordsRead
<1>8. CASE n = 1
    <2>1. m + 1 = Len(cw)
        BY <1>4, <1>8
    <2>2. OfferWords(offer) \in Line /\ Sendable(OfferWords(offer))
        BY <1>2, OfferCanBeSent
    <2>3. Reading(texts[1], OfferWords(offer), client.behind, words, start)
        BY <1>2, <1>7, <2>1, <2>2
    <2>4. Arrived(OfferWords(offer), lw)
        BY <2>2, <2>3, WordsArrived DEF lw
    <2>5. phase' = phase /\ (id' = offer \/ Len(lw) > 4)
        BY <1>1, <1>2, <2>4, OfferAnswer
    <2> QED  BY <1>1, <1>6, <2>5 DEF IdRead
<1>9. CASE n # 1
    <2>1. IdRead'
        BY <1>5, <1>9 DEF IdRead
    <2>2. Len(cw) = 3 /\ cw[2] = Proto /\ client.behind = 0
        BY <1>4, <1>9 DEF Sent
    <2>3. m = 0 \/ m = 1
        <3> HIDE DEF m, n
        <3> QED  BY <1>4, <1>9, <2>2
    <2>4. Welcoming
        BY <2>2 DEF Polite
    <2>5. CASE m = 0
        <3>1. BeginsWith(texts[1], Hello) /\ FirstWord(Hello)
            BY <2>4, <2>5 DEF Welcoming
        <3>2. seen = <<>>
            BY <1>2, <2>5
        <3> QED  BY <2>1, <3>1, <3>2, HelloAnswer
    <2>6. CASE m = 1
        <3>1. cw[m + 1] = Proto /\ Proto \in Line
            BY <2>2, <2>6, WordsAreBytes
        <3>2. Reading(texts[1], Proto, client.behind, words, start)
            BY <1>7, <3>1, ProtoCanBeSent
        <3>3. ~(client.behind > 1)
            BY <2>2
        <3>4. words = Proto
            BY <3>1, <3>2, <3>3, WordsArrived
        <3> QED  BY <2>1, <3>4, ProtoAnswer
    <2> QED  BY <2>3, <2>5, <2>6
<1> QED  BY <1>8, <1>9

LEMMA SplitStays ==
    ASSUME NEW cmd, NEW hello, NEW gap, NEW style, NEW a, NEW b, NEW e,
           SplitOf(cmd, hello, gap, style, a, b, e), UNCHANGED <<client, input, splitVars>>
    PROVE  SplitOf(cmd, hello, gap, style, a, b, e)'
<1> DEFINE us == UrlsOf(cmd, hello, gap, style)  vs == ValuesOf(cmd, hello, gap)
<1>1. client' = client /\ input' = input /\ pos' = pos /\ state' = state /\ hex' = hex
      /\ query' = query /\ parts' = parts
    BY DEF splitVars
<1> HIDE DEF us, vs
<1>2. Params(a, b, e, us, vs, style)'
    BY <1>1 DEF SplitOf, Params, us, vs
<1>3. NamesKept(a, b, e)'
    BY <1>1 DEF SplitOf, NamesKept, StateAt, PartsAt, InName, InValue
<1>4. Decoded(a, b, e, vs, style)
    BY DEF SplitOf, vs
<1>5. DecodedTo(pos - 1 - 10, vs[1], style, <<>>, <<>>) =>
        DecodedTo(pos - 1 - 10, vs[1], style, <<>>, <<>>)'
    BY <1>1 DEF DecodedTo, InByte
<1>6. DecodedTo(pos - 1 - (a + 6), vs[2], style, Labelled(Hello), <<vs[1]>>) =>
        DecodedTo(pos - 1 - (a + 6), vs[2], style, Labelled(Hello), <<vs[1]>>)'
    BY <1>1 DEF DecodedTo, InByte
<1>7. DecodedTo(pos - 1 - (b + 6), vs[3], style, Labelled(Head(Proto)),
                <<vs[1], Labelled(Hello) \o vs[2]>>) =>
        DecodedTo(pos - 1 - (b + 6), vs[3], style, Labelled(Head(Proto)),
                  <<vs[1], Labelled(Hello) \o vs[2]>>)'
    BY <1>1 DEF DecodedTo, InByte
<1>8. Decoded(a, b, e, vs, style)'
    BY <1>1, <1>4, <1>5, <1>6, <1>7 DEF Decoded
<1> QED  BY <1>1, <1>2, <1>3, <1>8 DEF SplitOf, us, vs

LEMMA UnderstoodStep ==
    ASSUME Typed, Polite, Understood, Next
    PROVE  Understood'
<1>1. client' = client /\ input' = input
    BY DEF Next, Request, Skip, IllegalHexChar, HexChar, BeginHex, EndPart, AddChar, EndSplit,
           GetNothing, GetQuoted, GetOpen, GetPlain, CddbRequest, Answer, Split, Throw, GetWord
<1>2. Sent'
    BY <1>1 DEF Understood, Sent
<1>3. CASE client.cut \/ ~client.escaped
    BY <1>1, <1>2, <1>3 DEF Understood
<1>4. CASE ~client.cut /\ client.escaped
    <2>1. /\ Sent
          /\ phase = "received" => NothingSeen /\ (Unsplit \/ Splitting)
          /\ phase = "splitting" => NothingSeen /\ Splitting
          /\ phase \in {"words", "done"} => TextsLeft /\ WordsRead /\ WordsSeen /\ IdRead
          /\ phase = "done" => texts = <<>>
          /\ phase = "thrown" => client.offer = NoId
        BY <1>4 DEF Understood
    <2>2. ASSUME NEW cmd, NEW hello, NEW gap, NEW style, NEW a, NEW b, NEW e,
                 SplitOf(cmd, hello, gap, style, a, b, e)
          PROVE  BeginsGet
        BY <2>2, MarksBeginGet DEF SplitOf, Params
    <2>3. CASE Request
        <3>1. phase = "received" /\ UNCHANGED <<splitVars, wordVars, answerVars>>
            BY <2>3 DEF Request
        <3>2. NothingSeen'
            BY <2>1, <3>1 DEF NothingSeen, wordVars, answerVars
        <3>3. CASE Unsplit
            <4>1. phase' = "words" /\ texts' = <<input>>
                BY <2>3, <3>3 DEF Request, Unsplit
            <4>2. input \in ByteText
                BY DEF Typed
            <4>3. Len(texts') = 1 /\ texts' # <<>> /\ texts' \in Seq(ByteText) /\ texts'[1] = input
                BY <4>1, <4>2
            <4>4. \A i \in 1..1 : i = 1
                OBVIOUS
            <4>5. /\ Len(texts') = Len(client'.words)
                  /\ \A i \in 1..Len(texts') : Spells(texts'[i], client'.words[i], client'.behind)
                BY <1>1, <3>3, <4>3, <4>4 DEF Unsplit
            <4>6. (TextsLeft /\ WordsRead /\ WordsSeen /\ IdRead)'
                BY <3>2, <4>3, <4>5, TextsBegin
            <4> QED  BY <1>2, <4>1, <4>6 DEF Understood
        <3>4. CASE Splitting
            <4>1. PICK cmd, hello, gap, style, a, b, e : SplitOf(cmd, hello, gap, style, a, b, e)
                BY <3>4 DEF Splitting
            <4>2. phase' = "splitting"
                BY <2>2, <2>3, <4>1 DEF Request
            <4>3. SplitOf(cmd, hello, gap, style, a, b, e)'
                BY <1>1, <3>1, <4>1, SplitStays
            <4>4. Splitting'
                BY <4>3 DEF Splitting
            <4> QED  BY <1>2, <3>2, <4>2, <4>4 DEF Understood
        <3> QED  BY <2>1, <3>1, <3>3, <3>4
    <2>4. CASE SplitAction
        <3>1. phase = "splitting"
            BY <2>4 DEF SplitAction, Skip, HexChar, BeginHex, EndPart, AddChar, IllegalHexChar, Split
        <3>2. PICK cmd, hello, gap, style, a, b, e : SplitOf(cmd, hello, gap, style, a, b, e)
            BY <2>1, <3>1 DEF Splitting
        <3> DEFINE us == UrlsOf(cmd, hello, gap, style)  vs == ValuesOf(cmd, hello, gap)
        <3>3. Params(a, b, e, us, vs, style) /\ NamesKept(a, b, e) /\ Decoded(a, b, e, vs, style)
              /\ Marks(input, a, b, e)
            BY <3>2 DEF SplitOf, Params
        <3>4. SplitStep /\ Decoded(a, b, e, vs, style)'
            BY <2>4, <3>3, DecodedStep
        <3>5. phase' = phase /\ UNCHANGED <<wordVars, answerVars>>
            BY <3>4 DEF SplitStep
        <3>6. NamesKept(a, b, e)'
            <4>1. ~IllegalHexChar
                BY <3>1, <3>5 DEF IllegalHexChar, Throw
            <4> QED  BY <2>4, <3>3, <4>1, NamesStep DEF SplitAction
        <3>7. Params(a, b, e, us, vs, style)'
            BY <1>1, <3>3 DEF Params
        <3>8. SplitOf(cmd, hello, gap, style, a, b, e)'
            BY <1>1, <3>2, <3>4, <3>6, <3>7 DEF SplitOf
        <3>9. NothingSeen' /\ Splitting'
            BY <2>1, <3>1, <3>5, <3>8 DEF NothingSeen, Splitting, wordVars, answerVars
        <3> QED  BY <1>2, <3>1, <3>5, <3>9 DEF Understood
    <2>5. CASE EndSplit
        <3>1. phase = "splitting" /\ UNCHANGED <<wordVars, answerVars>>
            BY <2>5 DEF EndSplit
        <3>2. NothingSeen'
            BY <2>1, <3>1 DEF NothingSeen, wordVars, answerVars
        <3>3. PICK cmd, hello, gap, style, a, b, e : SplitOf(cmd, hello, gap, style, a, b, e)
            BY <2>1, <3>1 DEF Splitting
        <3> DEFINE g == GetTexts(ValuesOf(cmd, hello, gap))
        <3>4. phase' = "words" /\ texts' = g
            BY <2>5, <3>3, DecodedEnd DEF SplitOf
        <3>5. /\ Len(g) = 3 /\ Spells(g[1], hello, 0) /\ Spells(g[2], Proto, 0)
              /\ Spells(g[3], cmd, 0)
            BY <3>3, GetSpells DEF SplitOf
        <3>6. client.words = <<hello, Proto, cmd>> /\ client.behind = 0
            BY <3>3 DEF SplitOf
        <3> DEFINE p == Proto
        <3> HIDE DEF g, p
        <3>7. /\ Len(client.words) = 3 /\ client.words[1] = hello /\ client.words[2] = p
              /\ client.words[3] = cmd
            BY <3>6 DEF p
        <3>8. \A i \in 1..3 : i = 1 \/ i = 2 \/ i = 3
            OBVIOUS
        <3>9. /\ Len(texts') = Len(client'.words)
              /\ \A i \in 1..Len(texts') : Spells(texts'[i], client'.words[i], client'.behind)
            BY <1>1, <3>4, <3>5, <3>6, <3>7, <3>8 DEF p
        <3>10. texts' \in Seq(ByteText) /\ texts' # <<>>
            <4>1. Typed'
                BY TypedStep
            <4>2. texts' \in Seq(ByteText)
                BY <4>1 DEF Typed
            <4>3. Len(texts') = 3
                BY <3>4, <3>5
            <4> QED  BY <4>2, <4>3
        <3>11. (TextsLeft /\ WordsRead /\ WordsSeen /\ IdRead)'
            BY <3>2, <3>9, <3>10, TextsBegin
        <3> QED  BY <1>2, <3>4, <3>11 DEF Understood
    <2>6. CASE Getting
        <3>1. phase = "words" /\ phase' = phase /\ texts # <<>> /\ UNCHANGED <<texts, answerVars>>
            BY <2>6 DEF Getting, GetNothing, GetQuoted, GetOpen, GetPlain, NextWord, GetWord
        <3>2. CurrentText = texts[1]
            <4>1. texts \in Seq(ByteText)
                BY DEF Typed
            <4> QED  BY <3>1, <4>1 DEF CurrentText
        <3>3. TextsLeft' /\ WordsSeen' /\ IdRead'
            BY <1>1, <2>1, <3>1 DEF TextsLeft, WordsSeen, IdRead, Arrived, answerVars
        <3>4. WordsRead'
            <4>1. PICK ws : ws = client.words[Len(seen) + 1]
                OBVIOUS
            <4>2. PICK behind : behind = client.behind
                OBVIOUS
            <4>3. Sendable(ws) => Reading(CurrentText, ws, behind, words, start)
                BY <2>1, <3>1, <3>2, <4>1, <4>2 DEF WordsRead
            <4>4. Sendable(ws) => Reading(CurrentText, ws, behind, words', start')
                BY <2>6, <4>3, WordRead
            <4>5. seen' = seen /\ texts' = texts
                BY <3>1 DEF answerVars
            <4> QED  BY <1>1, <3>2, <4>1, <4>2, <4>4, <4>5 DEF WordsRead
        <3> QED  BY <1>2, <3>1, <3>3, <3>4 DEF Understood
    <2>7. CASE CddbRequest
        <3>1. phase = "words" /\ phase' \in {"words", "thrown"}
            BY <2>7 DEF CddbRequest, CommandOf, QueryCommand, ReadCommand
        <3>2. TextsLeft' /\ WordsRead' /\ WordsSeen'
            BY <2>1, <2>7, <3>1, AnswerArrives
        <3>3. CASE client.offer # NoId
            <4>1. phase' = phase /\ IdRead'
                BY <1>4, <2>1, <2>7, <3>1, <3>3, OfferArrives
            <4> QED  BY <1>2, <3>1, <3>2, <4>1 DEF Understood
        <3>4. CASE client.offer = NoId
            <4>1. IdRead'
                BY <1>1, <3>4 DEF IdRead
            <4> QED  BY <1>1, <1>2, <3>1, <3>2, <3>4, <4>1 DEF Understood
        <3> QED  BY <3>3, <3>4
    <2>8. CASE Answer
        <3>1. phase = "words" /\ texts = <<>> /\ phase' = "done"
              /\ UNCHANGED <<texts, wordVars, answerVars>>
            BY <2>8 DEF Answer
        <3>2. TextsLeft' /\ WordsRead' /\ WordsSeen' /\ IdRead'
            BY <1>1, <2>1, <3>1 DEF TextsLeft, WordsRead, WordsSeen, IdRead, Arrived, wordVars, answerVars
        <3> QED  BY <1>2, <3>1, <3>2 DEF Understood
    <2> QED  BY <2>3, <2>4, <2>5, <2>6, <2>7, <2>8 DEF Next, SplitAction, Getting
<1> QED  BY <1>3, <1>4

LEMMA UnderstoodStays ==
    ASSUME Understood, UNCHANGED vars
    PROVE  Understood'
<1>1. /\ client' = client /\ input' = input /\ phase' = phase /\ seen' = seen /\ words' = words
      /\ start' = start /\ texts' = texts /\ id' = id /\ UNCHANGED splitVars
    BY DEF vars, wordVars, answerVars
<1>2. Sent => Sent'
    BY <1>1 DEF Sent
<1>3. (Unsplit => Unsplit') /\ (NothingSeen => NothingSeen')
    BY <1>1 DEF Unsplit, BeginsGet, NothingSeen
<1>4. Splitting => Splitting'
    <2> SUFFICES ASSUME NEW cmd, NEW hello, NEW gap, NEW style, NEW a, NEW b, NEW e,
                        SplitOf(cmd, hello, gap, style, a, b, e)
                 PROVE  SplitOf(cmd, hello, gap, style, a, b, e)'
        BY DEF Splitting
    <2> QED  BY <1>1, SplitStays
<1>5. TextsLeft /\ WordsRead /\ WordsSeen /\ IdRead => TextsLeft' /\ WordsRead' /\ WordsSeen' /\ IdRead'
    BY <1>1 DEF TextsLeft, WordsRead, WordsSeen, IdRead, Arrived
<1> QED  BY <1>1, <1>2, <1>3, <1>4, <1>5 DEF Understood

LEMMA UnderstoodIsUnderstood ==
    ASSUME Typed, Understood
    PROVE  WordsArrive /\ OfferedIsRead
<1>1. WordsArrive
    <2> SUFFICES ASSUME phase = "done", ~client.cut, client.escaped,
                        \A ws \in Range(client.words) : \A word \in Range(ws) : CanBeSent(word)
                 PROVE  /\ Len(seen) = Len(client.words)
                        /\ \A i \in DOMAIN seen : Arrived(client.words[i], seen[i])
        BY DEF WordsArrive
    <2>1. TextsLeft /\ WordsSeen /\ texts = <<>> /\ client.words \in Seq(Line)
          /\ seen \in Seq(Seq(ByteText))
        BY DEF Understood, Sent, Typed
    <2>2. Len(seen) = Len(client.words) /\ DOMAIN seen = 1..Len(seen)
        BY <2>1 DEF TextsLeft
    <2>3. ASSUME NEW i \in 1..Len(seen) PROVE Sendable(client.words[i])
        <3>1. client.words[i] \in Line /\ client.words[i] \in Range(client.words)
            BY <2>1, <2>2 DEF Range
        <3>2. client.words[i] \in Seq(ByteText)
            BY <3>1 DEF Line
        <3> DEFINE ws == client.words[i]
        <3> HIDE DEF ws
        <3>3. ws \in Seq(ByteText) /\ \A j \in 1..Len(ws) : ws[j] \in Range(ws)
            BY <3>2 DEF Range, ws
        <3> QED  BY <3>1, <3>3 DEF Sendable, ws
    <2> QED  BY <2>1, <2>2, <2>3 DEF WordsSeen
<1>2. OfferedIsRead
    <2> SUFFICES ASSUME phase \in {"done", "thrown"}, ~client.cut, client.escaped, client.offer # NoId
                 PROVE  id = client.offer \/ (seen # <<>> /\ Len(Last(seen)) > 4)
        BY DEF OfferedIsRead
    <2>1. phase = "done" /\ texts = <<>> /\ TextsLeft /\ IdRead /\ Sent
        BY DEF Understood
    <2>2. seen # <<>>
        <3>1. Len(texts) = 0 /\ (Len(client.words) = 1 \/ Len(client.words) = 3)
            BY <2>1 DEF Sent
        <3>2. Len(seen) + Len(texts) = Len(client.words)
            BY <2>1 DEF TextsLeft
        <3>3. seen \in Seq(Seq(ByteText)) /\ Len(seen) \in Nat
            BY DEF Typed
        <3> DEFINE k == Len(seen)  l == Len(client.words)
        <3> HIDE DEF k, l
        <3>4. k + 0 = l /\ k \in Nat /\ (l = 1 \/ l = 3)
            BY <3>1, <3>2, <3>3 DEF k, l
        <3>5. k # 0
            BY <3>4
        <3> QED  BY <3>5 DEF k
    <2> QED  BY <2>1, <2>2 DEF IdRead
<1> QED  BY <1>1, <1>2

\* For any commands, hellos, gaps, endings and offers: the words that can be
\* sent are those the server works on, in a line or a GET, a query reads only
\* numbers that are there, who says hello is welcome, and what was offered is
\* what is read (cddbserver.cpp:511, cddbserver.cpp:367, helper.hpp:216).
THEOREM RequestsAreUnderstood == Spec => []RequestUnderstood
<1> DEFINE IInv == Typed /\ NumbersAreWords /\ Polite /\ Understood
<1>1. Init => IInv
    BY TypedBegin, PoliteBegin, UnderstoodBegins DEF Init, NumbersAreWords
<1>2. IInv /\ [Next]_vars => IInv'
    <2>1. IInv /\ Next => IInv'
        BY TypedStep, NumbersStep, PoliteStep, UnderstoodStep
    <2>2. IInv /\ UNCHANGED vars => IInv'
        <3> SUFFICES ASSUME IInv, UNCHANGED vars PROVE IInv'
            OBVIOUS
        <3>1. Typed' /\ NumbersAreWords'
            BY DEF vars, splitVars, wordVars, answerVars, Typed, NumbersAreWords
        <3>2. Polite'
            BY PoliteStays
        <3>3. Understood'
            BY UnderstoodStays
        <3> QED  BY <3>1, <3>2, <3>3
    <2> QED  BY <2>1, <2>2
<1>3. IInv => RequestUnderstood
    <2> SUFFICES ASSUME IInv PROVE RequestUnderstood
        OBVIOUS
    <2>1. UserIsWelcome /\ NumbersAreWords
        BY DEF Polite
    <2>2. TypeOK
        BY TypedIsTypeOK
    <2>3. WordsArrive /\ OfferedIsRead
        BY UnderstoodIsUnderstood
    <2> QED  BY <2>1, <2>2, <2>3 DEF RequestUnderstood
<1> QED  BY <1>1, <1>2, <1>3, PTL DEF Spec

=============================================================================
