-------------------------- MODULE DiskRecord_proofs --------------------------
(***************************************************************************)
(* Proofs about DiskRecord, for any files and any size of a word: a valid  *)
(* record has the shape the importer takes for granted, start frames       *)
(* survive their way through lengths, so that everyone computes the same   *)
(* digest, and a file that was written is read back.                       *)
(***************************************************************************)
EXTENDS DiskRecord, WellFoundedInduction, TLAPS

Words == 0..(W - 1)

-----------------------------------------------------------------------------
(* Start frames and lengths.                                               *)

LEMMA ModWord ==
    ASSUME NEW a \in Int
    PROVE  a % W \in Words
BY WordAssumption DEF Words

\* Going forward by the difference of two words leads to the second one,
\* also where the difference wraps.
LEMMA ModDifference ==
    ASSUME NEW a \in Words, NEW b \in Words
    PROVE  (a + ((b - a) % W)) % W = b
<1>1. CASE b >= a
    <2>1. (b - a) % W = b - a
        BY <1>1, WordAssumption DEF Words
    <2> QED  BY <2>1, WordAssumption DEF Words
<1>2. CASE b < a
    <2>1. (b - a) % W = b - a + W
        BY <1>2, WordAssumption DEF Words
    <2>2. (b + W) % W = b
        BY WordAssumption DEF Words
    <2> QED  BY <2>1, <2>2, WordAssumption DEF Words
<1> QED  BY <1>1, <1>2, WordAssumption DEF Words

LEMMA LengthsType ==
    ASSUME NEW starts \in Seq(Words), NEW S \in Words
    PROVE  /\ LengthsOf(S, starts) \in Seq(Words)
           /\ Len(LengthsOf(S, starts)) = Len(starts)
           /\ DOMAIN LengthsOf(S, starts) = 1..Len(starts)
<1> DEFINE n == Len(starts)
           len(i) == IF i < n THEN (starts[i + 1] - starts[i]) % W
                     ELSE (S * FramesPerSecond - starts[n] - starts[1]) % W
<1>1. n \in Nat /\ DOMAIN starts = 1..n
    OBVIOUS
<1>2. ASSUME NEW i \in 1..n PROVE len(i) \in Words
    <2>1. starts[i] \in Int /\ starts[n] \in Int /\ starts[1] \in Int
        BY <1>1, WordAssumption DEF Words
    <2>2. CASE i < n
        <3>1. starts[i + 1] \in Int
            BY <1>1, <2>2, WordAssumption DEF Words
        <3>2. (starts[i + 1] - starts[i]) % W \in Words
            BY <2>1, <3>1, ModWord
        <3> QED  BY <2>2, <3>2
    <2>3. CASE ~(i < n)
        <3>1. S * FramesPerSecond \in Int
            BY WordAssumption DEF Words, FramesPerSecond
        <3>2. (S * FramesPerSecond - starts[n] - starts[1]) % W \in Words
            BY <2>1, <3>1, ModWord
        <3> QED  BY <2>3, <3>2
    <2> QED  BY <2>2, <2>3
<1>3. LengthsOf(S, starts) = [i \in 1..n |-> len(i)]
    BY DEF LengthsOf
<1>4. [i \in 1..n |-> len(i)] \in [1..n -> Words]
    BY <1>2
<1> HIDE DEF len
<1> QED  BY <1>1, <1>3, <1>4

\* Where there is a counterexample there is a first one.
LEMMA LeastNatural ==
    ASSUME NEW T \in SUBSET Nat, T # {}
    PROVE  \E x \in T : \A y \in T : x <= y
<1> DEFINE R == {ss \in Nat \X Nat : ss[1] < ss[2]}
<1>1. IsWellFoundedOn(R, Nat)
    BY NatLessThanWellFounded DEF OpToRel
<1>2. \A x, y \in Nat : <<y, x>> \in R <=> y < x
    OBVIOUS
<1> HIDE DEF R
<1>3. PICK x \in T : \A y \in T : ~(<<y, x>> \in R)
    BY <1>1, WFMin
<1>4. ASSUME NEW y \in T PROVE x <= y
    <2>1. x \in Nat /\ y \in Nat /\ ~(y < x)
        BY <1>2, <1>3
    <2> QED  BY <2>1
<1> QED  BY <1>4

\* Induction up to n, for a set of numbers.
LEMMA InductionUpTo ==
    ASSUME NEW n \in Nat, NEW T, 0 \in T, \A i \in 1..n : i - 1 \in T => i \in T
    PROVE  \A i \in 0..n : i \in T
<1> DEFINE U == {i \in 0..n : i \notin T}
<1> SUFFICES ASSUME U # {} PROVE FALSE
    OBVIOUS
<1>1. U \in SUBSET Nat
    OBVIOUS
<1>2. PICK x \in U : \A y \in U : x <= y
    <2> HIDE DEF U
    <2> QED  BY <1>1, LeastNatural
<1>3. x \in 1..n /\ x - 1 \in 0..n /\ x \notin T
    BY <1>2
<1>4. x - 1 \notin U
    <2> HIDE DEF U
    <2> QED  BY <1>2, <1>3
<1> QED  BY <1>3, <1>4

\* A recursion over 0..n whose values stay in a set defines a function: where
\* there is a number it does not reach, there is a first one.
StaysIn(V, n, step) == \A i \in 1..n, v \in V : step[<<i, v>>] \in V
IsRecursion(f, n, v0, step) ==
    f[0] = v0 /\ \A i \in 1..n : f[i] = step[<<i, f[i - 1]>>]

LEMMA RecursionExists ==
    ASSUME NEW V, NEW v0 \in V, NEW n \in Nat, NEW step, StaysIn(V, n, step)
    PROVE  \E f \in [0..n -> V] : IsRecursion(f, n, v0, step)
<1> DEFINE Recursive(f, m) == IsRecursion(f, m, v0, step)
           T == {m \in 0..n : \A f \in [0..m -> V] : ~Recursive(f, m)}
<1>1. T = {}
    <2> SUFFICES ASSUME T # {} PROVE FALSE
        OBVIOUS
    <2>1. T \in SUBSET Nat
        OBVIOUS
    <2>2. PICK m \in T : \A k \in T : m <= k
        <3> HIDE DEF T
        <3> QED  BY <2>1, LeastNatural
    <2>3. CASE m = 0
        <3>1. [i \in 0..0 |-> v0] \in [0..0 -> V]
            OBVIOUS
        <3>2. Recursive([i \in 0..0 |-> v0], 0)
            BY DEF IsRecursion
        <3> QED  BY <2>2, <2>3, <3>1, <3>2
    <2>4. CASE m # 0
        <3>1. m \in 1..n /\ m - 1 \in 0..n /\ m - 1 \notin T
            <4>1. m \in 0..n /\ m - 1 \in 0..n
                BY <2>2, <2>4
            <4> HIDE DEF T
            <4> QED  BY <2>2, <2>4, <4>1
        <3>2. PICK f \in [0..(m - 1) -> V] : Recursive(f, m - 1)
            BY <3>1
        <3> DEFINE g == [i \in 0..m |-> IF i = m THEN step[<<m, f[m - 1]>>] ELSE f[i]]
        <3>3. f[m - 1] \in V /\ step[<<m, f[m - 1]>>] \in V
            BY <3>1 DEF StaysIn
        <3>4. g \in [0..m -> V]
            BY <3>1, <3>3
        <3>5. ASSUME NEW i \in 1..m PROVE g[i] = step[<<i, g[i - 1]>>]
            <4>1. i - 1 \in 0..m /\ i - 1 # m /\ g[i - 1] = f[i - 1]
                BY <3>1
            <4>2. CASE i = m
                BY <4>1, <4>2
            <4>3. CASE i # m
                <5>1. i \in 1..(m - 1) /\ g[i] = f[i]
                    BY <3>1, <4>3
                <5> QED  BY <3>2, <4>1, <5>1 DEF IsRecursion
            <4> QED  BY <4>2, <4>3
        <3>6. g[0] = v0
            BY <3>1, <3>2 DEF IsRecursion
        <3>7. Recursive(g, m)
            BY <3>5, <3>6 DEF IsRecursion
        <3> HIDE DEF g, Recursive
        <3> QED  BY <2>2, <3>4, <3>7
    <2> QED  BY <2>3, <2>4
<1>2. n \in 0..n
    OBVIOUS
<1>3. \E f \in [0..n -> V] : Recursive(f, n)
    <2> HIDE DEF Recursive
    <2> QED  BY <1>1, <1>2
<1> QED  BY <1>3

\* Two functions that agree at first, and at each point if they do so before
\* it, are the same.
SameSteps(n, f, g) ==
    /\ f[1] = g[1]
    /\ \A i \in 1..(n - 1) : f[i] = g[i] => f[i + 1] = g[i + 1]

LEMMA AgreeUpTo ==
    ASSUME NEW n \in Nat, NEW f, NEW g, SameSteps(n, f, g)
    PROVE  \A i \in 1..n : f[i] = g[i]
<1> DEFINE T == {i \in 1..n : f[i] # g[i]}
<1> SUFFICES ASSUME T # {} PROVE FALSE
    OBVIOUS
<1>1. T \in SUBSET Nat
    OBVIOUS
<1>2. PICK x \in T : \A y \in T : x <= y
    BY <1>1, LeastNatural
<1>3. x \in 1..n /\ x # 1 /\ f[x] # g[x]
    BY DEF SameSteps
<1>4. x - 1 \in 1..(n - 1) /\ (x - 1) + 1 = x
    BY <1>3
<1>5. x - 1 \notin T
    <2> HIDE DEF T
    <2> QED  BY <1>2, <1>3
<1>6. f[x - 1] = g[x - 1]
    BY <1>4, <1>5
<1>7. f[(x - 1) + 1] = g[(x - 1) + 1]
    BY <1>4, <1>6 DEF SameSteps
<1> QED  BY <1>3, <1>4, <1>7

LEMMA LengthAt ==
    ASSUME NEW starts \in Seq(Words), NEW S \in Words,
           NEW i \in 1..(Len(starts) - 1)
    PROVE  LengthsOf(S, starts)[i] = (starts[i + 1] - starts[i]) % W
<1>1. i \in 1..Len(starts) /\ i < Len(starts)
    OBVIOUS
<1> QED  BY <1>1 DEF LengthsOf

\* A function that follows the recursion of StartsOf for the lengths of some
\* starts is these starts.
LEMMA RecursionIsStarts ==
    ASSUME NEW starts \in Seq(Words), starts # <<>>, NEW S \in Words,
           NEW f, f = [i \in 1..Len(starts) |-> f[i]],
           f[1] = starts[1],
           \A i \in 1..(Len(starts) - 1) :
                f[i + 1] = (f[i] + LengthsOf(S, starts)[i]) % W
    PROVE  f = starts
<1>1. Len(starts) \in Nat /\ DOMAIN starts = 1..Len(starts)
    OBVIOUS
<1>2. ASSUME NEW i \in 1..(Len(starts) - 1), f[i] = starts[i]
      PROVE  f[i + 1] = starts[i + 1]
    <2>1. starts[i] \in Words /\ starts[i + 1] \in Words
        BY <1>1
    <2>2. f[i + 1] = (starts[i] + ((starts[i + 1] - starts[i]) % W)) % W
        BY <1>2, LengthAt
    <2> QED  BY <2>1, <2>2, ModDifference
<1>3. SameSteps(Len(starts), f, starts)
    BY <1>2 DEF SameSteps
<1>4. \A i \in 1..Len(starts) : f[i] = starts[i]
    BY <1>1, <1>3, AgreeUpTo
<1>5. starts = [i \in 1..Len(starts) |-> starts[i]]
    BY <1>1
<1> QED  BY <1>4, <1>5

\* The equation of StartsOf, and what it says of first and next values.
Follows(f, n, first, lengths) ==
    f = [i \in 1..n |-> IF i = 1 THEN first
                        ELSE (f[i - 1] + lengths[i - 1]) % W]

LEMMA UnfoldRecursion ==
    ASSUME NEW n \in Nat, n > 0, NEW first, NEW lengths, NEW f,
           Follows(f, n, first, lengths)
    PROVE  /\ f = [i \in 1..n |-> f[i]]
           /\ f[1] = first
           /\ \A i \in 1..(n - 1) : f[i + 1] = (f[i] + lengths[i]) % W
<1>1. f = [i \in 1..n |-> f[i]] /\ f[1] = first
    BY DEF Follows
<1>2. ASSUME NEW i \in 1..(n - 1) PROVE f[i + 1] = (f[i] + lengths[i]) % W
    <2>1. i + 1 \in 1..n /\ i + 1 # 1 /\ (i + 1) - 1 = i
        OBVIOUS
    <2> QED  BY <2>1 DEF Follows
<1> QED  BY <1>1, <1>2

\* The starts follow that recursion themselves.
LEMMA StartsAreRecursive ==
    ASSUME NEW starts \in Seq(Words), starts # <<>>, NEW S \in Words
    PROVE  Follows(starts, Len(starts), starts[1], LengthsOf(S, starts))
<1> DEFINE n == Len(starts)
           next(i) == IF i = 1 THEN starts[1]
                      ELSE (starts[i - 1] + LengthsOf(S, starts)[i - 1]) % W
<1>1. n \in Nat /\ DOMAIN starts = 1..n
    OBVIOUS
<1>2. ASSUME NEW i \in 1..n, i # 1
      PROVE  (starts[i - 1] + LengthsOf(S, starts)[i - 1]) % W = starts[i]
    <2>1. i - 1 \in 1..(n - 1) /\ starts[i - 1] \in Words /\ starts[i] \in Words
        BY <1>1, <1>2
    <2>2. LengthsOf(S, starts)[i - 1] = (starts[(i - 1) + 1] - starts[i - 1]) % W
        BY <2>1, LengthAt
    <2>3. (i - 1) + 1 = i
        BY <1>1
    <2> QED  BY <2>1, <2>2, <2>3, ModDifference
<1>3. \A i \in 1..n : next(i) = starts[i]
    BY <1>2
<1>4. starts = [i \in 1..n |-> starts[i]]
    BY <1>1
<1> HIDE DEF next
<1>5. starts = [i \in 1..n |-> next(i)]
    BY <1>3, <1>4
<1> QED  BY <1>5 DEF next, Follows

\* The start frames that are written are those that were read, for any disc
\* length and any numbers, in order or not (cddbdefines.hpp:71, 86).
THEOREM StartsComeBack ==
    ASSUME NEW starts \in Seq(Words), starts # <<>>, NEW S \in Words
    PROVE  StartsOf(StartFrame(starts), LengthsOf(S, starts)) = starts
<1> DEFINE n == Len(starts)
           lengths == LengthsOf(S, starts)
           g == CHOOSE f : f = [i \in 1..n |-> IF i = 1 THEN starts[1]
                                    ELSE (f[i - 1] + lengths[i - 1]) % W]
<1>1. \E f : Follows(f, n, starts[1], lengths)
    BY StartsAreRecursive
<1>2. Follows(g, n, starts[1], lengths)
    <2> HIDE DEF n, lengths
    <2> QED  BY <1>1 DEF Follows
<1>3. g = starts
    <2> HIDE DEF g
    <2>1. n \in Nat /\ n > 0
        OBVIOUS
    <2>2. /\ g = [i \in 1..n |-> g[i]]
          /\ g[1] = starts[1]
          /\ \A i \in 1..(n - 1) : g[i + 1] = (g[i] + lengths[i]) % W
        <3> HIDE DEF n, lengths
        <3> QED  BY <1>2, <2>1, UnfoldRecursion
    <2> QED  BY <2>2, RecursionIsStarts
<1>4. StartFrame(starts) = starts[1]
    BY DEF StartFrame
<1>5. DOMAIN LengthsOf(S, starts) = 1..Len(starts)
    BY LengthsType
<1>6. StartsOf(StartFrame(starts), LengthsOf(S, starts)) = g
    BY <1>4, <1>5 DEF StartsOf
<1> QED  BY <1>3, <1>6

-----------------------------------------------------------------------------
(* The parser.                                                             *)

\* The lengths of a record that is complete come from start frames.
FromStarts(r) ==
    \E starts \in Seq(Words), S \in Words :
        /\ r.frames = LengthsOf(S, starts)
        /\ r.seconds = StartFrame(starts)
        /\ \A i \in DOMAIN starts : starts[i] # 0

Shape ==
    /\ phase = "reading" => \A i \in DOMAIN rec.frames : rec.frames[i] # 0
    /\ phase = "done" => FromStarts(rec) /\ Len(rec.songs) <= W
    /\ phase = "done" /\ valid => rec.artist # NoText /\ rec.title # NoText

Inv == TypeOK /\ Shape /\ ValidRecord /\ SongsInPlace

LEMMA LineTypes ==
    ASSUME NEW l \in Lines
    PROVE  /\ l.kind \in {"length", "revision", "number"} => l.number \in Words
           /\ l.kind = "song" => l.number \in Words /\ l.song \in SongTexts
           /\ l.kind = "title" => l.artist \in Artists /\ l.title \in Titles
BY DEF Lines, Comments, KeyValues, Words

\* The recursion over the lines of a file is defined.
LEMMA ListedRecursion ==
    ASSUME NEW lines \in Seq(Lines)
    PROVE  /\ ListedUpTo(lines) \in [0..Len(lines) -> Seq(Words)]
           /\ ListedUpTo(lines)[0] = <<>>
           /\ \A j \in 1..Len(lines) :
                ListedUpTo(lines)[j] = IF InList(lines, j) THEN Append(ListedUpTo(lines)[j - 1], lines[j].number)
                                ELSE ListedUpTo(lines)[j - 1]
<1> DEFINE n == Len(lines)
           V == Seq(Words)
           next(i, v) == IF InList(lines, i) THEN Append(v, lines[i].number) ELSE v
           step == [p \in (1..n) \X V |-> next(p[1], p[2])]
           body(f, j) == IF j = 0 THEN <<>> ELSE next(j, f[j - 1])
<1>1. n \in Nat /\ <<>> \in V
    OBVIOUS
<1>2. ASSUME NEW i \in 1..n, NEW v \in V
      PROVE  next(i, v) \in V
    <2>1. InList(lines, i) => lines[i].number \in Words
        BY LineTypes DEF InList, Frames
    <2> QED  BY <2>1
<1> HIDE DEF next
<1>3. \A i \in 1..n, v \in V : step[<<i, v>>] = next(i, v)
    OBVIOUS
<1> HIDE DEF step
<1>4. StaysIn(V, n, step)
    BY <1>2, <1>3 DEF StaysIn
<1>5. PICK f \in [0..n -> V] : IsRecursion(f, n, <<>>, step)
    <2> HIDE DEF n, V
    <2> QED  BY <1>1, <1>4, RecursionExists
<1>6. ASSUME NEW j \in 0..n PROVE f[j] = body(f, j)
    <2>1. CASE j = 0
        BY <1>5, <2>1 DEF IsRecursion
    <2>2. CASE j # 0
        <3>1. j \in 1..n /\ j - 1 \in 0..n
            BY <2>2
        <3>2. f[j] = step[<<j, f[j - 1]>>] /\ f[j - 1] \in V
            BY <1>5, <3>1 DEF IsRecursion
        <3> QED  BY <1>3, <2>2, <3>1, <3>2
    <2> QED  BY <2>1, <2>2
<1>7. ListedUpTo(lines) = CHOOSE g : g = [j \in 0..n |-> body(g, j)]
    BY DEF ListedUpTo, next
<1> HIDE DEF body
<1>8. f = [j \in 0..n |-> body(f, j)]
    BY <1>6
<1>9. ListedUpTo(lines) = [j \in 0..n |-> body(ListedUpTo(lines), j)]
    BY <1>7, <1>8
<1>10. \A j \in 0..n : ListedUpTo(lines)[j] = body(ListedUpTo(lines), j)
    BY <1>9
<1>11. ListedUpTo(lines)[0] = <<>>
    BY <1>1, <1>10 DEF body
<1>12. ASSUME NEW j \in 1..n PROVE ListedUpTo(lines)[j] = next(j, ListedUpTo(lines)[j - 1])
    <2>1. j \in 0..n /\ j # 0
        OBVIOUS
    <2> QED  BY <1>10, <2>1 DEF body
<1>13. \A j \in 0..n : ListedUpTo(lines)[j] \in V
    <2> DEFINE T == {j \in 0..n : ListedUpTo(lines)[j] \in V}
    <2> HIDE DEF V
    <2>1. 0 \in T
        BY <1>1, <1>11
    <2>2. ASSUME NEW j \in 1..n, j - 1 \in T PROVE j \in T
        BY <1>2, <1>12, <2>2
    <2>3. \A j \in 0..n : j \in T
        <3> HIDE DEF T
        <3> QED  BY <1>1, <2>1, <2>2, InductionUpTo
    <2> QED  BY <2>3
<1>14. ListedUpTo(lines) \in [0..n -> V]
    BY <1>9, <1>13
<1> QED  BY <1>11, <1>12, <1>14 DEF next

LEMMA RecordFields ==
    ASSUME NEW r \in Records
    PROVE  /\ r.artist \in Artists \cup {NoText} /\ r.title \in Titles \cup {NoText}
           /\ r.songs \in Seq(SongTexts) /\ r.listBase \in Words
           /\ r.frames \in Seq(Words) /\ r.seconds \in Words
           /\ r.revision \in Words /\ r.readTracks \in BOOLEAN
BY DEF Records, Words

LEMMA EmptyRecordType == EmptyRecord \in Records
<1>1. <<>> \in Seq(SongTexts) /\ <<>> \in Seq(0..(W - 1)) /\ 0 \in 0..(W - 1)
    BY WordAssumption
<1> QED  BY <1>1 DEF EmptyRecord, Records

LEMMA InitInv == Init => Inv
<1> SUFFICES ASSUME Init PROVE Inv
    OBVIOUS
<1>1. file \in Seq(Lines) /\ Len(file) \in Nat
    BY FilesAssumption DEF Init
<1>2. pos \in 1..(Len(file) + 1)
    BY <1>1 DEF Init
<1>3. <<>> \in Seq(Records)
    OBVIOUS
<1>4. TypeOK
    BY <1>1, <1>2, <1>3, EmptyRecordType DEF Init, TypeOK
<1>5. Shape /\ ValidRecord /\ SongsInPlace
    BY DEF Init, EmptyRecord, Shape, ValidRecord, SongsInPlace
<1> QED  BY <1>4, <1>5 DEF Inv

\* A line that is read is one of the file, and the next one is in it or past
\* its end.
LEMMA ReadLine ==
    ASSUME TypeOK, NEW kinds, Read(kinds)
    PROVE  /\ Line \in Lines /\ Line.kind \in kinds
           /\ phase = "reading" /\ pos \in DOMAIN file
           /\ pos' \in 1..(Len(file) + 1)
           /\ pos \in 1..(pos' - 1) /\ 1..(pos - 1) \subseteq 1..(pos' - 1)
<1>1. file \in Seq(Lines) /\ Len(file) \in Nat /\ pos \in 1..Len(file)
    BY DEF TypeOK, Read
<1>2. pos \in DOMAIN file /\ Line \in Lines
    BY <1>1 DEF Line
<1>3. pos' = pos + 1
    BY DEF Read
<1>4. /\ pos' \in 1..(Len(file) + 1) /\ pos \in 1..(pos' - 1)
      /\ 1..(pos - 1) \subseteq 1..(pos' - 1)
    BY <1>1, <1>3
<1> QED  BY <1>2, <1>4 DEF Read

\* A step that leaves the songs and the base alone keeps them in place.
LEMMA SongsStay ==
    ASSUME TypeOK, SongsInPlace, NEW kinds, Read(kinds), file' = file,
           rec'.songs = rec.songs, rec'.listBase = rec.listBase
    PROVE  SongsInPlace'
<1>1. 1..(pos - 1) \subseteq 1..(pos' - 1) /\ phase = "reading"
    BY ReadLine
<1> SUFFICES ASSUME NEW i \in DOMAIN rec'.songs
             PROVE  \E j \in 1..(pos' - 1) :
                        /\ file[j].kind = "song"
                        /\ file[j].number = rec.listBase + i - 1
                        /\ file[j].song = rec.songs[i]
    BY DEF SongsInPlace, Passed
<1>2. PICK j \in 1..(pos - 1) :
            /\ file[j].kind = "song"
            /\ file[j].number = rec.listBase + i - 1
            /\ file[j].song = rec.songs[i]
    BY <1>1 DEF SongsInPlace, Passed
<1> QED  BY <1>1, <1>2

LEMMA AddCommentInv == Inv /\ AddComment => Inv'
<1> SUFFICES ASSUME Inv, AddComment PROVE Inv'
    OBVIOUS
<1> DEFINE kinds == {"offsets", "blank", "length", "revision", "number"}
           seconds == IF Line.kind = "length" THEN Line.number ELSE rec.seconds
           revision == IF Line.kind = "revision" THEN Line.number % 65536
                       ELSE rec.revision
           reads == (Line.kind = "offsets")
<1>1. Read(kinds) /\ file' = file /\ valid' = valid /\ phase' = phase
      /\ written' = written /\ TypeOK /\ SongsInPlace
    BY DEF AddComment, Inv
<1>2. Line \in Lines /\ phase = "reading" /\ pos' \in 1..(Len(file) + 1)
    BY <1>1, ReadLine
<1>3. rec \in Records
    BY <1>1 DEF TypeOK
<1>4. seconds \in Words
    BY <1>2, <1>3, LineTypes, RecordFields
<1>5. revision \in Words
    <2>1. CASE Line.kind = "revision"
        <3>1. Line.number \in Words
            BY <1>2, <2>1, LineTypes
        <3> QED  BY <2>1, <3>1, WordAssumption DEF Words
    <2>2. CASE Line.kind # "revision"
        BY <1>3, <2>2, RecordFields
    <2> QED  BY <2>1, <2>2
<1>6. rec' = [rec EXCEPT !.readTracks = reads, !.seconds = seconds, !.revision = revision]
    BY DEF AddComment
<1> HIDE DEF seconds, revision
<1>7. rec' \in Records /\ rec'.songs = rec.songs /\ rec'.listBase = rec.listBase
      /\ rec'.frames = rec.frames
    BY <1>3, <1>4, <1>5, <1>6 DEF Records, Words
<1>8. TypeOK'
    BY <1>1, <1>2, <1>7 DEF TypeOK
<1>9. SongsInPlace'
    BY <1>1, <1>7, SongsStay
<1>10. Shape' /\ ValidRecord'
    BY <1>1, <1>2, <1>7 DEF Inv, Shape, ValidRecord
<1> QED  BY <1>8, <1>9, <1>10 DEF Inv

\* A start frame that is taken is not 0.
LEMMA AddFrameInv == Inv /\ AddFrame => Inv'
<1> SUFFICES ASSUME Inv, AddFrame PROVE Inv'
    OBVIOUS
<1> DEFINE kinds == {"offsets", "blank", "length", "revision", "number"}
           isFrame == (Line.kind = "number" /\ Line.number # 0)
           seconds == IF Line.kind = "length" THEN Line.number ELSE rec.seconds
           frames == IF isFrame THEN Append(rec.frames, Line.number) ELSE rec.frames
<1>1. Read(kinds) /\ file' = file /\ valid' = valid /\ phase' = phase
      /\ written' = written /\ TypeOK /\ SongsInPlace
    BY DEF AddFrame, Inv
<1>2. Line \in Lines /\ phase = "reading" /\ pos' \in 1..(Len(file) + 1)
    BY <1>1, ReadLine
<1>3. rec \in Records /\ rec.frames \in Seq(Words)
    BY <1>1, RecordFields DEF TypeOK
<1>4. seconds \in Words
    BY <1>2, <1>3, LineTypes, RecordFields
<1>5. frames \in Seq(Words) /\ \A i \in DOMAIN frames : frames[i] # 0
    <2>1. \A i \in DOMAIN rec.frames : rec.frames[i] # 0
        BY <1>2 DEF Inv, Shape
    <2>2. CASE isFrame
        <3>1. Line.number \in Words /\ Line.number # 0
            BY <1>2, <2>2, LineTypes
        <3>2. frames = Append(rec.frames, Line.number)
            BY <2>2
        <3> HIDE DEF frames, isFrame
        <3> QED  BY <1>3, <2>1, <3>1, <3>2
    <2>3. CASE ~isFrame
        BY <1>3, <2>1, <2>3
    <2> QED  BY <2>2, <2>3
<1>6. rec' = [rec EXCEPT !.readTracks = isFrame, !.seconds = seconds, !.frames = frames]
    BY DEF AddFrame
<1>7. isFrame \in BOOLEAN
    OBVIOUS
<1> HIDE DEF seconds, frames, isFrame
<1>8. rec' \in Records /\ rec'.songs = rec.songs /\ rec'.listBase = rec.listBase
      /\ rec'.frames = frames
    BY <1>3, <1>4, <1>5, <1>6, <1>7 DEF Records, Words
<1>9. TypeOK'
    BY <1>1, <1>2, <1>8 DEF TypeOK
<1>10. SongsInPlace'
    BY <1>1, <1>8, SongsStay
<1>11. Shape' /\ ValidRecord'
    BY <1>1, <1>2, <1>5, <1>8 DEF Shape, ValidRecord
<1> QED  BY <1>9, <1>10, <1>11 DEF Inv

LEMMA IgnoreInv == Inv /\ Ignore => Inv'
<1> SUFFICES ASSUME Inv, Ignore PROVE Inv'
    OBVIOUS
<1>1. Read({"nothing"}) /\ TypeOK /\ SongsInPlace /\ file' = file /\ rec' = rec
      /\ valid' = valid /\ phase' = phase /\ written' = written
    BY DEF Ignore, Inv
<1>2. phase = "reading" /\ pos' \in 1..(Len(file) + 1)
    BY <1>1, ReadLine
<1>3. TypeOK'
    BY <1>1, <1>2 DEF TypeOK
<1>4. SongsInPlace'
    BY <1>1, SongsStay
<1>5. Shape' /\ ValidRecord'
    BY <1>1, <1>2 DEF Inv, Shape, ValidRecord
<1> QED  BY <1>3, <1>4, <1>5 DEF Inv

\* A song is taken only if its number is the next one after those of the songs
\* before it.
LEMMA TakeSongInv ==
    ASSUME Inv, AddKeyValue, Line.kind = "song"
    PROVE  rec' \in Records /\ rec'.frames = rec.frames /\ SongsInPlace'
<1> DEFINE kinds == {"title", "song", "genre", "year", "other"}
           base == IF rec.songs = <<>> THEN Line.number ELSE rec.listBase
           songs == IF Len(rec.songs) = Line.number - base
                    THEN Append(rec.songs, Line.song) ELSE rec.songs
<1>1. Read(kinds) /\ file' = file /\ TypeOK /\ SongsInPlace
    BY DEF AddKeyValue, Inv
<1>2. /\ Line \in Lines /\ phase = "reading" /\ pos \in DOMAIN file
      /\ pos \in 1..(pos' - 1) /\ 1..(pos - 1) \subseteq 1..(pos' - 1)
    BY <1>1, ReadLine
<1>3. Line.number \in Words /\ Line.song \in SongTexts
    BY <1>2, LineTypes
<1>4. rec \in Records /\ rec.songs \in Seq(SongTexts) /\ rec.listBase \in Words
    BY <1>1, RecordFields DEF TypeOK
<1>5. rec' = [rec EXCEPT !.readTracks = FALSE, !.listBase = base, !.songs = songs]
    <2>1. rec' = TakeSong(rec, Line)
        BY DEF AddKeyValue
    <2> QED  BY <2>1 DEF TakeSong
<1>6. base \in Words /\ songs \in Seq(SongTexts)
    BY <1>3, <1>4
<1>7. ASSUME NEW i \in DOMAIN songs
      PROVE  \E j \in 1..(pos' - 1) :
                /\ file[j].kind = "song"
                /\ file[j].number = base + i - 1
                /\ file[j].song = songs[i]
    <2>1. CASE i \in DOMAIN rec.songs
        <3>1. base = rec.listBase /\ songs[i] = rec.songs[i]
            BY <1>3, <1>4, <2>1
        <3>2. PICK j \in 1..(pos - 1) :
                /\ file[j].kind = "song"
                /\ file[j].number = rec.listBase + i - 1
                /\ file[j].song = rec.songs[i]
            BY <1>2, <2>1, <1>1 DEF SongsInPlace, Passed
        <3> HIDE DEF base, songs
        <3> QED  BY <1>2, <3>1, <3>2
    <2>2. CASE i \notin DOMAIN rec.songs
        <3>1. /\ Len(rec.songs) = Line.number - base
              /\ i = Len(rec.songs) + 1 /\ songs[i] = Line.song
            BY <1>3, <1>4, <2>2
        <3>2. Line.number = base + i - 1 /\ Line = file[pos]
            BY <1>3, <1>4, <1>6, <3>1 DEF Words, Line
        <3> HIDE DEF base, songs
        <3> QED  BY <1>2, <3>1, <3>2
    <2> QED  BY <2>1, <2>2
<1> HIDE DEF base, songs
<1>8. rec' \in Records /\ rec'.songs = songs /\ rec'.listBase = base
      /\ rec'.frames = rec.frames
    BY <1>4, <1>5, <1>6 DEF Records, Words
<1>9. SongsInPlace'
    BY <1>1, <1>7, <1>8 DEF SongsInPlace, Passed
<1> QED  BY <1>8, <1>9

LEMMA AddKeyValueInv == Inv /\ AddKeyValue => Inv'
<1> SUFFICES ASSUME Inv, AddKeyValue PROVE Inv'
    OBVIOUS
<1> DEFINE kinds == {"title", "song", "genre", "year", "other"}
<1>1. Read(kinds) /\ file' = file /\ valid' = valid /\ phase' \in {phase, "thrown"}
      /\ written' = written /\ TypeOK /\ SongsInPlace
    BY DEF AddKeyValue, Inv
<1>2. Line \in Lines /\ phase = "reading" /\ pos' \in 1..(Len(file) + 1)
    BY <1>1, ReadLine
<1>3. rec \in Records
    BY <1>1 DEF TypeOK
<1>4. rec' \in Records /\ rec'.frames = rec.frames /\ SongsInPlace'
    <2>1. CASE Line.kind = "song"
        BY <2>1, TakeSongInv
    <2>2. CASE Line.kind = "title"
        <3>1. rec' = [rec EXCEPT !.readTracks = FALSE,
                        !.artist = Line.artist, !.title = Line.title]
            BY <2>2 DEF AddKeyValue
        <3>2. Line.artist \in Artists /\ Line.title \in Titles
            BY <1>2, <2>2, LineTypes
        <3>3. rec' \in Records /\ rec'.frames = rec.frames
              /\ rec'.songs = rec.songs /\ rec'.listBase = rec.listBase
            BY <1>3, <3>1, <3>2 DEF Records
        <3> QED  BY <1>1, <3>3, SongsStay
    <2>3. CASE Line.kind \notin {"song", "title"}
        <3>1. rec' = [rec EXCEPT !.readTracks = FALSE]
            BY <2>3 DEF AddKeyValue
        <3>2. rec' \in Records /\ rec'.frames = rec.frames
              /\ rec'.songs = rec.songs /\ rec'.listBase = rec.listBase
            BY <1>3, <3>1 DEF Records
        <3> QED  BY <1>1, <3>2, SongsStay
    <2> QED  BY <2>1, <2>2, <2>3
<1>5. TypeOK'
    BY <1>1, <1>2, <1>4 DEF TypeOK
<1>6. Shape' /\ ValidRecord'
    BY <1>1, <1>2, <1>4 DEF Inv, Shape, ValidRecord
<1> QED  BY <1>4, <1>5, <1>6 DEF Inv

LEMMA CleanupType ==
    ASSUME NEW r \in Records
    PROVE  /\ Cleanup(r) \in Seq(SongTexts)
           /\ Len(Cleanup(r)) = Len(r.songs)
<1>1. r.songs \in Seq(SongTexts) /\ Len(r.songs) \in Nat
      /\ DOMAIN r.songs = 1..Len(r.songs)
    BY RecordFields
<1>2. ASSUME NEW i \in DOMAIN r.songs
      PROVE  CleanSong(r.songs[i], r.artist) \in SongTexts
    <2>1. r.songs[i] \in SongTexts
        BY <1>1
    <2>2. ASSUME NEW t \in SongTexts PROVE CleanSong(t, r.artist) \in SongTexts
        <3>1. t.by \in Seq(Artists) /\ t.text \in Songs
            BY DEF SongTexts
        <3>2. CASE t.by # <<>> /\ Head(t.by) = r.artist
            <4>1. Tail(t.by) \in Seq(Artists)
                BY <3>1, <3>2
            <4> QED  BY <3>2, <4>1 DEF CleanSong, SongTexts
        <3>3. CASE ~(t.by # <<>> /\ Head(t.by) = r.artist)
            BY <3>3 DEF CleanSong
        <3> QED  BY <3>2, <3>3
    <2> QED  BY <2>1, <2>2
<1>3. Cleanup(r) \in [1..Len(r.songs) -> SongTexts]
    BY <1>1, <1>2 DEF Cleanup
<1> QED  BY <1>1, <1>3

\* The record has been verified with the disc length, and has the start frame
\* of the first track for it after that.
LEMMA FinishInv == Inv /\ Finish => Inv'
<1> SUFFICES ASSUME Inv, Finish PROVE Inv'
    OBVIOUS
<1> DEFINE songs == Cleanup(rec)
           frames == LengthsOf(rec.seconds, rec.frames)
           seconds == StartFrame(rec.frames)
<1>1. /\ file' = file /\ pos' = pos /\ written' = written
      /\ phase = "reading" /\ phase' = "done" /\ TypeOK
    BY DEF Finish, Inv
<1>2. rec \in Records /\ rec.frames \in Seq(Words) /\ rec.seconds \in Words
    BY <1>1, RecordFields DEF TypeOK
<1>3. songs \in Seq(SongTexts) /\ Len(songs) = Len(rec.songs)
    BY <1>2, CleanupType
<1>4. frames \in Seq(Words) /\ Len(frames) = Len(rec.frames)
    BY <1>2, LengthsType
<1>5. /\ seconds \in Words
      /\ rec.frames = <<>> => seconds = 0
      /\ rec.frames # <<>> => seconds # 0
    <2>1. CASE rec.frames = <<>>
        BY <2>1, WordAssumption DEF StartFrame, Words
    <2>2. CASE rec.frames # <<>>
        <3>1. 1 \in DOMAIN rec.frames /\ rec.frames[1] \in Words
            BY <1>2, <2>2
        <3>2. rec.frames[1] # 0
            BY <1>1, <3>1 DEF Inv, Shape
        <3> QED  BY <2>2, <3>1, <3>2 DEF StartFrame
    <2> QED  BY <2>1, <2>2
<1>6. rec' = [rec EXCEPT !.songs = songs, !.frames = frames, !.seconds = seconds]
    BY DEF Finish
<1>7. valid' \in BOOLEAN /\ (valid' => VerifyRecord(rec))
    BY DEF Finish
<1>8. FromStarts(rec')
    <2>1. rec'.frames = LengthsOf(rec.seconds, rec.frames)
          /\ rec'.seconds = StartFrame(rec.frames)
        BY <1>2, <1>6 DEF Records
    <2>2. \A i \in DOMAIN rec.frames : rec.frames[i] # 0
        BY <1>1 DEF Inv, Shape
    <2> QED  BY <1>2, <2>1, <2>2 DEF FromStarts
<1> HIDE DEF songs, frames, seconds
<1>9. rec' \in Records /\ rec'.songs = songs /\ rec'.frames = frames
      /\ rec'.seconds = seconds
    BY <1>2, <1>3, <1>4, <1>5, <1>6 DEF Records, Words
<1>10. TypeOK'
    BY <1>1, <1>7, <1>9 DEF TypeOK
<1>11. ValidRecord'
    <2>1. frames = <<>> <=> rec.frames = <<>>
        BY <1>2, <1>4
    <2>2. valid' => rec.frames = <<>> \/ Len(rec.songs) = Len(rec.frames)
        BY <1>7 DEF VerifyRecord
    <2> QED  BY <1>3, <1>4, <1>5, <1>9, <2>1, <2>2 DEF ValidRecord
<1>12. Len(songs) <= W
    <2>1. rec.songs \in Seq(SongTexts) /\ rec.listBase \in Words
        BY <1>2, RecordFields
    <2> DEFINE n == Len(rec.songs)
    <2>2. CASE n = 0
        BY <1>3, <2>2, WordAssumption
    <2>3. CASE n # 0
        <3>1. n \in DOMAIN rec.songs /\ n \in Nat
            BY <2>1, <2>3
        <3>2. PICK j \in 1..(pos - 1) :
                file[j].kind = "song" /\ file[j].number = rec.listBase + n - 1
            BY <1>1, <3>1 DEF Inv, SongsInPlace, Passed
        <3>3. file \in Seq(Lines) /\ pos \in 1..(Len(file) + 1)
            BY <1>1 DEF TypeOK
        <3>4. file[j] \in Lines
            BY <3>2, <3>3
        <3>5. file[j].number \in Words
            BY <3>2, <3>4, LineTypes
        <3> QED  BY <1>3, <2>1, <3>1, <3>2, <3>5, WordAssumption DEF Words
    <2> QED  BY <2>2, <2>3
<1>13. valid' => rec'.artist # NoText /\ rec'.title # NoText
    <2>1. rec'.artist = rec.artist /\ rec'.title = rec.title
        BY <1>2, <1>6 DEF Records
    <2> QED  BY <1>7, <2>1 DEF VerifyRecord
<1>14. Shape' /\ SongsInPlace'
    BY <1>1, <1>8, <1>9, <1>12, <1>13 DEF Shape, SongsInPlace
<1> QED  BY <1>10, <1>11, <1>14 DEF Inv

\* The frames that are written are the starts the lengths came from; a record
\* without lengths has 0 for each of its songs.
LEMMA RowsHaveStarts ==
    ASSUME NEW r \in Records, FromStarts(r)
    PROVE  /\ FramesOfRows(r) \in Seq(Words)
           /\ StartsOf(r.seconds, FramesOfRows(r)) \in Seq(Words)
           /\ Len(StartsOf(r.seconds, FramesOfRows(r))) = Len(FramesOfRows(r))
           /\ r.frames = <<>> => StartsOf(r.seconds, FramesOfRows(r)) = FramesOfRows(r)
<1>1. PICK starts \in Seq(Words), S \in Words :
        r.frames = LengthsOf(S, starts) /\ r.seconds = StartFrame(starts)
    BY DEF FromStarts
<1>2. r.frames \in Seq(Words) /\ Len(r.frames) = Len(starts)
    BY <1>1, LengthsType
<1>3. CASE r.frames # <<>>
    <2>1. starts # <<>> /\ FramesOfRows(r) = r.frames
        BY <1>2, <1>3 DEF FramesOfRows
    <2>2. StartsOf(r.seconds, FramesOfRows(r)) = starts
        BY <1>1, <2>1, StartsComeBack
    <2> QED  BY <1>2, <2>1, <2>2
<1>4. CASE r.frames = <<>>
    <2> DEFINE zeros == [i \in DOMAIN r.songs |-> 0]
    <2>1. r.songs \in Seq(SongTexts)
        BY RecordFields
    <2>2. 0 \in Words
        BY WordAssumption DEF Words
    <2>3. zeros \in Seq(Words) /\ FramesOfRows(r) = zeros
        BY <1>4, <2>1, <2>2 DEF FramesOfRows
    <2>4. r.seconds = 0
        BY <1>1, <1>2, <1>4 DEF StartFrame
    <2>5. CASE zeros = <<>>
        <3>1. StartsOf(0, <<>>) = <<>>
            BY DEF StartsOf
        <3> QED  BY <2>3, <2>4, <2>5, <3>1
    <2>6. CASE zeros # <<>>
        <3>1. zeros[1] = 0
            BY <2>1, <2>6
        <3>2. LengthsOf(0, zeros) = zeros
            BY <2>1, WordAssumption DEF LengthsOf, FramesPerSecond
        <3>3. StartsOf(StartFrame(zeros), LengthsOf(0, zeros)) = zeros
            BY <2>2, <2>3, <2>6, StartsComeBack
        <3>4. StartFrame(zeros) = 0
            BY <2>6, <3>1 DEF StartFrame
        <3> QED  BY <2>3, <2>4, <3>2, <3>3, <3>4
    <2> QED  BY <2>5, <2>6
<1> QED  BY <1>3, <1>4

LEMMA DiscLengthType ==
    ASSUME NEW r \in Records, FromStarts(r)
    PROVE  DiscLengthOf(r.seconds, FramesOfRows(r)) \in Words
<1> DEFINE lengths == FramesOfRows(r)
           n == Len(lengths)
           starts == StartsOf(r.seconds, lengths)
<1>1. lengths \in Seq(Words) /\ starts \in Seq(Words) /\ Len(starts) = n
    BY RowsHaveStarts
<1>2. r.seconds \in Words
    BY RecordFields
<1>3. CASE lengths = <<>>
    BY <1>3, WordAssumption DEF DiscLengthOf, Words
<1>4. CASE lengths # <<>>
    <2>1. starts[n] \in Words /\ lengths[n] \in Words
        BY <1>1, <1>4
    <2>2. DiscLengthOf(r.seconds, lengths)
            = ((starts[n] + lengths[n] - r.seconds) % W) \div FramesPerSecond
        BY <1>4 DEF DiscLengthOf
    <2>3. (starts[n] + lengths[n] - r.seconds) \in Int
        BY <1>2, <2>1, WordAssumption DEF Words
    <2> HIDE DEF lengths, n, starts
    <2>4. (starts[n] + lengths[n] - r.seconds) % W \in Words
        BY <2>3, ModWord
    <2>5. \A a \in Words : a \div FramesPerSecond \in Words
        BY WordAssumption DEF Words, FramesPerSecond
    <2>6. ((starts[n] + lengths[n] - r.seconds) % W) \div FramesPerSecond \in Words
        BY <2>4, <2>5
    <2> QED  BY <2>2, <2>6 DEF lengths
<1> QED  BY <1>3, <1>4

\* The pieces of the file: what is in front of the start frames, these, what
\* is between them and the songs, and these.
Opening == << Number("number", 0), Comment("blank"), Comment("offsets") >>
FrameLines(starts) == [i \in DOMAIN starts |-> Number("number", starts[i])]
Middle(r, discLength) ==
    << Comment("blank"), Number("length", discLength),
       Comment("blank"), Number("revision", r.revision),
       Number("number", 0), Comment("blank"), Comment("other"),
       TitleLine(r.artist, r.title), YearLine, Comment("genre") >>
SongLines(songs) == [i \in DOMAIN songs |-> SongLine(i - 1, songs[i])]

LEMMA CddbFilePieces ==
    ASSUME NEW r
    PROVE  CddbFile(FromDatabase(r)) =
             Opening \o FrameLines(StartsOf(r.seconds, FramesOfRows(r)))
               \o Middle(r, DiscLengthOf(r.seconds, FramesOfRows(r)))
               \o SongLines(r.songs) \o << Comment("nothing") >>
<1> DEFINE row == FromDatabase(r)
<1>1. /\ row.artist = r.artist /\ row.title = r.title /\ row.songs = r.songs
      /\ row.frames = FramesOfRows(r) /\ row.seconds = r.seconds
      /\ row.revision = r.revision
    BY DEF FromDatabase, EmptyRecord
<1> HIDE DEF row
<1>2. CddbFile(row) =
             Opening \o FrameLines(StartsOf(r.seconds, FramesOfRows(r)))
               \o Middle(r, DiscLengthOf(r.seconds, FramesOfRows(r)))
               \o SongLines(r.songs) \o << Comment("nothing") >>
    BY <1>1, Zenon DEF CddbFile, Opening, FrameLines, Middle, SongLines
<1> QED  BY <1>2 DEF row

LEMMA PieceTypes ==
    ASSUME NEW starts \in Seq(Words), NEW songs \in Seq(SongTexts), Len(songs) <= W,
           NEW r \in Records, r.artist # NoText, r.title # NoText,
           NEW discLength \in Words
    PROVE  /\ Opening \in Seq(Lines) /\ Len(Opening) = 3
           /\ FrameLines(starts) \in Seq(Lines) /\ Len(FrameLines(starts)) = Len(starts)
           /\ Middle(r, discLength) \in Seq(Lines) /\ Len(Middle(r, discLength)) = 10
           /\ SongLines(songs) \in Seq(Lines) /\ Len(SongLines(songs)) = Len(songs)
           /\ << Comment("nothing") >> \in Seq(Lines)
<1>1. \A kind \in {"offsets", "blank", "other", "genre", "nothing"} :
            Comment(kind) \in Lines
    BY DEF Comment, Lines, Comments, KeyValues
<1>2. \A kind \in {"length", "revision", "number"} : \A n \in Words :
            Number(kind, n) \in Lines
    BY DEF Number, Lines, Comments, Words
<1>3. 0 \in Words /\ r.revision \in Words
    BY RecordFields, WordAssumption DEF Words
<1>4. Opening \in Seq(Lines) /\ Len(Opening) = 3
    BY <1>1, <1>2, <1>3 DEF Opening
<1>5. FrameLines(starts) \in Seq(Lines) /\ Len(FrameLines(starts)) = Len(starts)
    <2>1. FrameLines(starts) \in [1..Len(starts) -> Lines]
        BY <1>2 DEF FrameLines
    <2> QED  BY <2>1
<1>6. TitleLine(r.artist, r.title) \in Lines /\ YearLine \in Lines
    <2>1. r.artist \in Artists /\ r.title \in Titles
        BY RecordFields
    <2> QED  BY <2>1 DEF TitleLine, YearLine, Lines, KeyValues
<1>7. Middle(r, discLength) \in Seq(Lines) /\ Len(Middle(r, discLength)) = 10
    BY <1>1, <1>2, <1>3, <1>6 DEF Middle
<1>8. SongLines(songs) \in Seq(Lines) /\ Len(SongLines(songs)) = Len(songs)
    <2>1. ASSUME NEW i \in DOMAIN songs PROVE SongLine(i - 1, songs[i]) \in Lines
        <3>1. i - 1 \in 0..(W - 1) /\ songs[i] \in SongTexts
            BY WordAssumption
        <3> QED  BY <3>1 DEF SongLine, Lines, KeyValues
    <2>2. SongLines(songs) \in [1..Len(songs) -> Lines]
        BY <2>1 DEF SongLines
    <2>3. Len(songs) \in Nat
        OBVIOUS
    <2> QED  BY <2>2, <2>3
<1>9. << Comment("nothing") >> \in Seq(Lines)
    BY <1>1
<1> QED  BY <1>4, <1>5, <1>7, <1>8, <1>9

\* What is written are lines a parser can be given.
LEMMA CddbFileType ==
    ASSUME NEW r \in Records, FromStarts(r), Len(r.songs) <= W,
           r.artist # NoText, r.title # NoText
    PROVE  CddbFile(FromDatabase(r)) \in Seq(Lines)
<1> DEFINE starts == StartsOf(r.seconds, FramesOfRows(r))
           discLength == DiscLengthOf(r.seconds, FramesOfRows(r))
<1>1. starts \in Seq(Words) /\ discLength \in Words /\ r.songs \in Seq(SongTexts)
    BY RowsHaveStarts, DiscLengthType, RecordFields
<1> HIDE DEF starts, discLength
<1>2. /\ Opening \in Seq(Lines) /\ FrameLines(starts) \in Seq(Lines)
      /\ Middle(r, discLength) \in Seq(Lines) /\ SongLines(r.songs) \in Seq(Lines)
      /\ << Comment("nothing") >> \in Seq(Lines)
    BY <1>1, PieceTypes
<1>3. \A a, b \in Seq(Lines) : a \o b \in Seq(Lines)
    OBVIOUS
<1>4. CddbFile(FromDatabase(r)) =
        Opening \o FrameLines(starts) \o Middle(r, discLength) \o SongLines(r.songs)
          \o << Comment("nothing") >>
    BY CddbFilePieces DEF starts, discLength
<1> QED  BY <1>2, <1>3, <1>4

LEMMA WriteFileInv == Inv /\ WriteFile => Inv'
<1> SUFFICES ASSUME Inv, WriteFile PROVE Inv'
    OBVIOUS
<1>1. rec \in Records /\ FromStarts(rec) /\ Len(rec.songs) <= W
      /\ rec.artist # NoText /\ rec.title # NoText
    BY DEF Inv, TypeOK, Shape, WriteFile
<1>2. file' = CddbFile(FromDatabase(rec)) /\ file' \in Seq(Lines) /\ Len(file') \in Nat
    BY <1>1, CddbFileType DEF WriteFile
<1>3. pos' \in 1..(Len(file') + 1)
    BY <1>2 DEF WriteFile
<1>4. written' \in Seq(Records)
    BY <1>1 DEF WriteFile
<1>5. TypeOK'
    BY <1>2, <1>3, <1>4, EmptyRecordType DEF WriteFile, TypeOK
<1>6. Shape' /\ ValidRecord' /\ SongsInPlace'
    BY DEF WriteFile, EmptyRecord, Shape, ValidRecord, SongsInPlace
<1> QED  BY <1>5, <1>6 DEF Inv

LEMMA NextInv == Inv /\ [Next]_vars => Inv'
<1> SUFFICES ASSUME Inv, [Next]_vars PROVE Inv'
    OBVIOUS
<1>1. CASE AddComment    BY <1>1, AddCommentInv
<1>2. CASE AddFrame      BY <1>2, AddFrameInv
<1>3. CASE AddKeyValue   BY <1>3, AddKeyValueInv
<1>4. CASE Ignore        BY <1>4, IgnoreInv
<1>5. CASE Finish        BY <1>5, FinishInv
<1>6. CASE WriteFile     BY <1>6, WriteFileInv
<1>7. CASE UNCHANGED vars
    BY <1>7 DEF vars, Inv, TypeOK, Shape, ValidRecord, SongsInPlace, Passed
<1> QED  BY <1>1, <1>2, <1>3, <1>4, <1>5, <1>6, <1>7 DEF Next

\* The invariant of the parser holds after every line of every file.
THEOREM RecordInvariance == Spec => []Inv
BY InitInv, NextInv, PTL DEF Spec

\* Lines, start frames and lengths stay in their types, also in the files
\* that are written.
THEOREM RecordTypes == Spec => []TypeOK
<1>1. Inv => TypeOK
    BY DEF Inv
<1> QED  BY RecordInvariance, <1>1, PTL

\* A valid record is what the importer takes for granted.
THEOREM ValidRecordsAreSound == Spec => []ValidRecord
<1>1. Inv => ValidRecord
    BY DEF Inv
<1> QED  BY RecordInvariance, <1>1, PTL

\* No song becomes that of another track.
THEOREM SongsStayInPlace == Spec => []SongsInPlace
<1>1. Inv => SongsInPlace
    BY DEF Inv
<1> QED  BY RecordInvariance, <1>1, PTL
-----------------------------------------------------------------------------
(* The list of start frames and the disc length.                           *)

IsLastLength(lines, j, n) ==
    /\ lines[j].kind = "length"
    /\ \A k \in 1..n : lines[k].kind = "length" => k <= j

\* While the lines are read: the list so far, and whether it is open; the
\* last disc length.
ListInv ==
    phase = "reading" =>
        /\ OneList => /\ rec.frames = Listed
                      /\ rec.readTracks <=> ListIsOpen(file, pos)
        /\ \A j \in Passed :
                IsLastLength(file, j, pos - 1) => rec.seconds = file[j].number

\* After that: lengths and first start of the list that was read, with the
\* last disc length of the file.
ListDone ==
    phase = "done" =>
        \E S \in Words :
            /\ OneList => /\ rec.frames = LengthsOf(S, Listed)
                          /\ rec.seconds = StartFrame(Listed)
            /\ \A j \in DOMAIN file :
                    IsLastLength(file, j, Len(file)) => S = file[j].number

LEMMA ListGoesOn ==
    ASSUME NEW lines \in Seq(Lines), NEW j \in 1..Len(lines)
    PROVE  ListIsOpen(lines, j + 1) <=>
             \/ lines[j].kind = "offsets"
             \/ ListIsOpen(lines, j) /\ (Frames(lines[j]) \/ lines[j].kind = "nothing")
<1> DEFINE goes(l) == Frames(lines[l]) \/ lines[l].kind = "nothing"
           opens(k) == lines[k].kind = "offsets"
<1>1. j \in Nat /\ (j + 1) - 1 = j
    OBVIOUS
<1>2. ListIsOpen(lines, j + 1) <=>
        \E k \in 1..j : opens(k) /\ \A l \in (k + 1)..j : goes(l)
    BY <1>1 DEF ListIsOpen
<1>3. ListIsOpen(lines, j) <=>
        \E k \in 1..(j - 1) : opens(k) /\ \A l \in (k + 1)..(j - 1) : goes(l)
    BY DEF ListIsOpen
<1> HIDE DEF goes, opens
<1>4. ASSUME NEW k \in 1..j, opens(k), \A l \in (k + 1)..j : goes(l)
      PROVE  \/ opens(j)
             \/ /\ goes(j)
                /\ \E m \in 1..(j - 1) : opens(m) /\ \A l \in (m + 1)..(j - 1) : goes(l)
    <2>1. CASE k = j
        BY <1>4, <2>1
    <2>2. CASE k # j
        <3>1. k \in 1..(j - 1) /\ j \in (k + 1)..j
              /\ \A l \in (k + 1)..(j - 1) : l \in (k + 1)..j
            BY <2>2
        <3> QED  BY <1>4, <3>1
    <2> QED  BY <2>1, <2>2
<1>5. ASSUME opens(j)
      PROVE  \E k \in 1..j : opens(k) /\ \A l \in (k + 1)..j : goes(l)
    BY <1>5
<1>6. ASSUME goes(j), NEW k \in 1..(j - 1), opens(k),
             \A l \in (k + 1)..(j - 1) : goes(l)
      PROVE  \E m \in 1..j : opens(m) /\ \A l \in (m + 1)..j : goes(l)
    <2>1. k \in 1..j /\ \A l \in (k + 1)..j : l = j \/ l \in (k + 1)..(j - 1)
        OBVIOUS
    <2> QED  BY <1>6, <2>1
<1> QED  BY <1>2, <1>3, <1>4, <1>5, <1>6 DEF goes, opens

\* What one line does to the list.
LEMMA ListStep ==
    ASSUME TypeOK, NEW kinds, Read(kinds), file' = file
    PROVE  /\ Listed' = IF Frames(Line) /\ ListIsOpen(file, pos)
                        THEN Append(Listed, Line.number) ELSE Listed
           /\ ListIsOpen(file, pos)' <=>
                 \/ Line.kind = "offsets"
                 \/ ListIsOpen(file, pos) /\ (Frames(Line) \/ Line.kind = "nothing")
           /\ OneList /\ ListIsOpen(file, pos) => Line.kind # "offsets"
           /\ OneList' <=> OneList
<1>1. file \in Seq(Lines) /\ pos \in 1..Len(file) /\ Len(file) \in Nat
    BY ReadLine DEF TypeOK
<1>2. pos' = pos + 1 /\ Line = file[pos]
    BY DEF Read, Line
<1>3. ListIsOpen(file, pos)' <=> ListIsOpen(file, pos + 1)
    <2>1. \A lines, j : file' = lines /\ pos' = j =>
                (ListIsOpen(file, pos)' <=> ListIsOpen(lines, j))
        BY DEF ListIsOpen, Frames
    <2> QED  BY <1>2, <2>1
<1>4. Listed = ListedUpTo(file)[pos - 1] /\ Listed' = ListedUpTo(file)[pos]
    <2>1. Listed' = ListedUpTo(file')[pos' - 1]
        BY DEF Listed
    <2>2. pos' - 1 = pos
        BY <1>1, <1>2
    <2> QED  BY <2>1, <2>2 DEF Listed
<1>5. ListedUpTo(file)[pos] = IF InList(file, pos)
                              THEN Append(ListedUpTo(file)[pos - 1], file[pos].number)
                              ELSE ListedUpTo(file)[pos - 1]
    BY <1>1, ListedRecursion
<1>6. ListIsOpen(file, pos) /\ OneList => Line.kind # "offsets"
    <2> SUFFICES ASSUME ListIsOpen(file, pos), OneList, Line.kind = "offsets"
                 PROVE  FALSE
        OBVIOUS
    <2>1. PICK k \in 1..(pos - 1) : file[k].kind = "offsets"
        BY DEF ListIsOpen
    <2>2. k \in DOMAIN file /\ pos \in DOMAIN file /\ k # pos
        BY <1>1
    <2> QED  BY <1>2, <2>1, <2>2 DEF OneList
<1>7. OneList' <=> OneList
    BY DEF OneList
<1> QED  BY <1>1, <1>2, <1>3, <1>4, <1>5, <1>6, <1>7, ListGoesOn DEF InList

\* What one line does to the disc length.
LEMMA LengthStep ==
    ASSUME TypeOK, NEW kinds, Read(kinds), file' = file, ListInv, phase' = "reading",
           rec'.seconds = IF Line.kind = "length" THEN Line.number ELSE rec.seconds
    PROVE  \A j \in 1..(pos' - 1) :
                IsLastLength(file, j, pos' - 1) => rec'.seconds = file[j].number
<1>1. file \in Seq(Lines) /\ pos \in 1..Len(file) /\ phase = "reading"
    BY ReadLine DEF TypeOK
<1>2. pos' = pos + 1 /\ Line = file[pos]
    BY DEF Read, Line
<1> SUFFICES ASSUME NEW j \in 1..pos, IsLastLength(file, j, pos)
             PROVE  rec'.seconds = file[j].number
    BY <1>1, <1>2
<1>3. CASE Line.kind = "length"
    <2>1. j = pos
        BY <1>1, <1>2, <1>3 DEF IsLastLength
    <2> QED  BY <1>2, <1>3, <2>1
<1>4. CASE Line.kind # "length"
    <2>1. j # pos
        BY <1>2, <1>4 DEF IsLastLength
    <2>2. j \in 1..(pos - 1) /\ \A k \in 1..(pos - 1) : k \in 1..pos
        BY <1>1, <2>1
    <2>3. IsLastLength(file, j, pos - 1)
        BY <2>2 DEF IsLastLength
    <2> QED  BY <1>1, <1>4, <2>2, <2>3 DEF ListInv, Passed
<1> QED  BY <1>3, <1>4

\* A line that is read leaves the list as it should be, if the members of the
\* record follow it.
LEMMA ListIsKept ==
    ASSUME TypeOK, ListInv, NEW kinds, Read(kinds), file' = file,
           phase' \in {"reading", "thrown"},
           rec'.seconds = IF Line.kind = "length" THEN Line.number ELSE rec.seconds,
           OneList /\ rec.frames = Listed /\ (rec.readTracks <=> ListIsOpen(file, pos))
             => /\ rec'.frames = IF Frames(Line) /\ ListIsOpen(file, pos)
                                 THEN Append(Listed, Line.number) ELSE Listed
                /\ rec'.readTracks <=>
                     \/ Line.kind = "offsets"
                     \/ ListIsOpen(file, pos) /\ (Frames(Line) \/ Line.kind = "nothing")
    PROVE  ListInv' /\ ListDone'
<1>1. phase = "reading"
    BY DEF Read
<1>2. CASE phase' = "reading"
    <2>1. \A j \in 1..(pos' - 1) :
                IsLastLength(file, j, pos' - 1) => rec'.seconds = file[j].number
        BY <1>2, LengthStep
    <2>2. \A j \in Passed' :
                IsLastLength(file, j, pos - 1)' => rec'.seconds = file'[j].number
        <3>1. \A j \in 1..(pos' - 1) : IsLastLength(file, j, pos - 1)'
                    <=> IsLastLength(file, j, pos' - 1)
            BY DEF IsLastLength
        <3> QED  BY <2>1, <3>1 DEF Passed
    <2>3. OneList' => /\ rec'.frames = Listed'
                      /\ rec'.readTracks <=> ListIsOpen(file, pos)'
        BY <1>1, ListStep DEF ListInv
    <2> QED  BY <1>2, <2>2, <2>3 DEF ListInv, ListDone
<1>3. CASE phase' = "thrown"
    BY <1>3 DEF ListInv, ListDone
<1> QED  BY <1>2, <1>3

LEMMA AddCommentList == TypeOK /\ ListInv /\ AddComment => ListInv' /\ ListDone'
<1> SUFFICES ASSUME TypeOK, ListInv, AddComment PROVE ListInv' /\ ListDone'
    OBVIOUS
<1> DEFINE kinds == {"offsets", "blank", "length", "revision", "number"}
           seconds == IF Line.kind = "length" THEN Line.number ELSE rec.seconds
           revision == IF Line.kind = "revision" THEN Line.number % 65536
                       ELSE rec.revision
<1>1. Read(kinds) /\ file' = file /\ phase' = "reading" /\ ~rec.readTracks
    BY DEF AddComment, Read
<1>2. Line.kind # "nothing"
    BY <1>1, ReadLine
<1>3. rec' = [rec EXCEPT !.readTracks = (Line.kind = "offsets"), !.seconds = seconds,
                         !.revision = revision]
    BY DEF AddComment
<1>4. rec \in Records
    BY DEF TypeOK
<1> HIDE DEF seconds, revision
<1>5. rec'.frames = rec.frames /\ (rec'.readTracks <=> Line.kind = "offsets")
      /\ rec'.seconds = seconds
    BY <1>3, <1>4 DEF Records
<1> QED  BY <1>1, <1>2, <1>5, ListIsKept DEF seconds

LEMMA AddFrameList == TypeOK /\ ListInv /\ AddFrame => ListInv' /\ ListDone'
<1> SUFFICES ASSUME TypeOK, ListInv, AddFrame PROVE ListInv' /\ ListDone'
    OBVIOUS
<1> DEFINE kinds == {"offsets", "blank", "length", "revision", "number"}
           isFrame == Frames(Line)
           seconds == IF Line.kind = "length" THEN Line.number ELSE rec.seconds
           frames == IF isFrame THEN Append(rec.frames, Line.number) ELSE rec.frames
<1>1. Read(kinds) /\ file' = file /\ phase' = "reading" /\ rec.readTracks
    BY DEF AddFrame, Read
<1>2. Line.kind # "nothing"
    <2>1. Line.kind \in kinds
        BY <1>1, ReadLine
    <2> QED  BY <2>1
<1>3. rec' = [rec EXCEPT !.readTracks = isFrame, !.seconds = seconds, !.frames = frames]
    BY DEF AddFrame, Frames
<1>4. rec \in Records
    BY DEF TypeOK
<1>5. OneList /\ ListIsOpen(file, pos) => Line.kind # "offsets"
    BY <1>1, ListStep
<1> HIDE DEF seconds, frames, isFrame
<1>6. rec'.frames = frames /\ rec'.readTracks = isFrame /\ rec'.seconds = seconds
    BY <1>3, <1>4 DEF Records
<1> QED  BY <1>1, <1>2, <1>5, <1>6, ListIsKept DEF seconds, frames, isFrame

LEMMA AddKeyValueList == TypeOK /\ ListInv /\ AddKeyValue => ListInv' /\ ListDone'
<1> SUFFICES ASSUME TypeOK, ListInv, AddKeyValue PROVE ListInv' /\ ListDone'
    OBVIOUS
<1> DEFINE kinds == {"title", "song", "genre", "year", "other"}
<1>1. Read(kinds) /\ file' = file /\ phase' \in {"reading", "thrown"}
    BY DEF AddKeyValue, Read
<1>2. Line.kind \in kinds
    BY <1>1, ReadLine
<1>3. rec \in Records
    BY DEF TypeOK
<1>4. rec'.frames = rec.frames /\ rec'.readTracks = FALSE /\ rec'.seconds = rec.seconds
    <2>1. CASE Line.kind = "song"
        <3> DEFINE base == IF rec.songs = <<>> THEN Line.number ELSE rec.listBase
                   songs == IF Len(rec.songs) = Line.number - base
                            THEN Append(rec.songs, Line.song) ELSE rec.songs
        <3>1. rec' = [rec EXCEPT !.readTracks = FALSE, !.listBase = base, !.songs = songs]
            BY <2>1 DEF AddKeyValue, TakeSong
        <3> HIDE DEF base, songs
        <3> QED  BY <1>3, <3>1 DEF Records
    <2>2. CASE Line.kind = "title"
        <3>1. rec' = [rec EXCEPT !.readTracks = FALSE,
                        !.artist = Line.artist, !.title = Line.title]
            BY <2>2 DEF AddKeyValue
        <3> QED  BY <1>3, <3>1 DEF Records
    <2>3. CASE Line.kind \notin {"song", "title"}
        <3>1. rec' = [rec EXCEPT !.readTracks = FALSE]
            BY <2>3 DEF AddKeyValue
        <3> QED  BY <1>3, <3>1 DEF Records
    <2> QED  BY <2>1, <2>2, <2>3
<1>5. ~Frames(Line) /\ Line.kind \notin {"offsets", "nothing", "length"}
    BY <1>2 DEF Frames
<1> QED  BY <1>1, <1>4, <1>5, ListIsKept

LEMMA IgnoreList == TypeOK /\ ListInv /\ Ignore => ListInv' /\ ListDone'
<1> SUFFICES ASSUME TypeOK, ListInv, Ignore PROVE ListInv' /\ ListDone'
    OBVIOUS
<1>1. Read({"nothing"}) /\ file' = file /\ phase' = "reading" /\ rec' = rec
    BY DEF Ignore, Read
<1>2. Line.kind = "nothing"
    BY <1>1, ReadLine
<1> QED  BY <1>1, <1>2, ListIsKept DEF Frames

\* Every line has been read when the lengths are computed.
LEMMA FinishList == TypeOK /\ ListInv /\ Finish => ListInv' /\ ListDone'
<1> SUFFICES ASSUME TypeOK, ListInv, Finish PROVE ListInv' /\ ListDone'
    OBVIOUS
<1>1. phase = "reading" /\ phase' = "done" /\ file' = file /\ pos' = pos
    BY DEF Finish
<1>2. file \in Seq(Lines) /\ pos = Len(file) + 1 /\ Len(file) \in Nat
    BY DEF Finish, TypeOK
<1>3. rec \in Records /\ rec.seconds \in Words /\ rec.frames \in Seq(Words)
    BY RecordFields DEF TypeOK
<1> DEFINE songs == Cleanup(rec)
           frames == LengthsOf(rec.seconds, rec.frames)
           seconds == StartFrame(rec.frames)
<1>4. rec' = [rec EXCEPT !.songs = songs, !.frames = frames, !.seconds = seconds]
    BY DEF Finish
<1> HIDE DEF songs, frames, seconds
<1>5. rec'.frames = frames /\ rec'.seconds = seconds
    BY <1>3, <1>4 DEF Records
<1>6. OneList' => rec'.frames = LengthsOf(rec.seconds, Listed')
                  /\ rec'.seconds = StartFrame(Listed')
    <2>1. OneList' = OneList /\ Listed' = Listed
        BY <1>1 DEF OneList, Listed
    <2> QED  BY <1>1, <1>5, <2>1 DEF ListInv, frames, seconds
<1>7. \A j \in DOMAIN file' :
            IsLastLength(file, j, Len(file))' => rec.seconds = file'[j].number
    <2>1. DOMAIN file' = Passed /\ pos - 1 = Len(file)
        BY <1>1, <1>2 DEF Passed
    <2>2. \A j \in Passed : IsLastLength(file, j, Len(file))'
                <=> IsLastLength(file, j, pos - 1)
        BY <1>1, <2>1 DEF IsLastLength
    <2> QED  BY <1>1, <2>1, <2>2 DEF ListInv
<1> QED  BY <1>1, <1>3, <1>6, <1>7 DEF ListInv, ListDone

LEMMA InitList == Init => ListInv /\ ListDone
<1> SUFFICES ASSUME Init PROVE ListInv /\ ListDone
    OBVIOUS
<1>1. file \in Seq(Lines) /\ pos = 1 /\ rec = EmptyRecord /\ phase = "reading"
    BY FilesAssumption DEF Init
<1>2. Listed = <<>> /\ ~ListIsOpen(file, pos) /\ Passed = {}
    BY <1>1, ListedRecursion DEF Listed, ListIsOpen, Passed
<1> QED  BY <1>1, <1>2 DEF ListInv, ListDone, EmptyRecord

LEMMA WriteFileList == Inv /\ WriteFile => ListInv' /\ ListDone'
<1> SUFFICES ASSUME Inv, WriteFile PROVE ListInv' /\ ListDone'
    OBVIOUS
<1>1. TypeOK'
    BY WriteFileInv DEF Inv
<1>2. file' \in Seq(Lines) /\ pos' = 1 /\ rec' = EmptyRecord /\ phase' = "reading"
    BY <1>1 DEF WriteFile, TypeOK
<1>3. Listed' = <<>> /\ ~ListIsOpen(file, pos)' /\ Passed' = {}
    <2>1. ListedUpTo(file')[0] = <<>>
        BY <1>2, ListedRecursion
    <2> QED  BY <1>2, <2>1 DEF Listed, ListIsOpen, Passed
<1> QED  BY <1>2, <1>3 DEF ListInv, ListDone, EmptyRecord

LEMMA NextList == Inv /\ ListInv /\ ListDone /\ [Next]_vars => ListInv' /\ ListDone'
<1> SUFFICES ASSUME Inv, ListInv, ListDone, [Next]_vars PROVE ListInv' /\ ListDone'
    OBVIOUS
<1>0. TypeOK
    BY DEF Inv
<1>1. CASE AddComment    BY <1>0, <1>1, AddCommentList
<1>2. CASE AddFrame      BY <1>0, <1>2, AddFrameList
<1>3. CASE AddKeyValue   BY <1>0, <1>3, AddKeyValueList
<1>4. CASE Ignore        BY <1>0, <1>4, IgnoreList
<1>5. CASE Finish        BY <1>0, <1>5, FinishList
<1>6. CASE WriteFile     BY <1>6, WriteFileList
<1>7. CASE UNCHANGED vars
    <2>1. /\ file' = file /\ pos' = pos /\ rec' = rec /\ phase' = phase
        BY <1>7 DEF vars
    <2>2. /\ OneList' = OneList /\ Listed' = Listed /\ Passed' = Passed
          /\ ListIsOpen(file, pos)' = ListIsOpen(file, pos)
        BY <2>1 DEF OneList, Listed, Passed
    <2>3. ListInv'
        BY <2>1, <2>2 DEF ListInv
    <2>4. ListDone'
        BY <2>1, <2>2 DEF ListDone
    <2> QED  BY <2>3, <2>4
<1> QED  BY <1>1, <1>2, <1>3, <1>4, <1>5, <1>6, <1>7 DEF Next

\* While a file is read, the record has exactly the start frames of its list,
\* for any lines in any order with one list (diskrecord.cpp:191).
THEOREM FramesStayListed == Spec => []FramesAreListed
<1>1. ListInv => FramesAreListed
    BY DEF ListInv, FramesAreListed
<1> QED  BY RecordInvariance, InitList, NextList, <1>1, PTL DEF Spec

\* A client that sends the frames and the length of the disc gets the digests
\* the importer has stored (diskrecord.cpp:150), for any word size.
THEOREM DigestsStayAgreed == Spec => []DigestsAgree
<1>1. ListDone => DigestsAgree
    <2> SUFFICES ASSUME ListDone, phase = "done", OneList,
                        NEW j \in Lengths, NEW big \in BOOLEAN,
                        \A k \in Lengths : k <= j
                 PROVE  Discids(rec, big) = QueryDiscids(Listed, file[j].number, big)
        BY DEF DigestsAgree
    <2>1. IsLastLength(file, j, Len(file)) /\ j \in DOMAIN file
        BY DEF Lengths, IsLastLength
    <2>2. /\ rec.frames = LengthsOf(file[j].number, Listed)
          /\ rec.seconds = StartFrame(Listed)
        BY <2>1 DEF ListDone
    <2> QED  BY <2>2 DEF Discids, QueryDiscids
<1> QED  BY RecordInvariance, InitList, NextList, <1>1, PTL DEF Spec

-----------------------------------------------------------------------------
(* The file a client gets is read again.                                   *)

\* What each line of the file is.
IsFileOf(lines, r, starts, discLength) ==
    LET n == Len(starts)
        m == Len(r.songs)
    IN  /\ lines \in Seq(Lines) /\ Len(lines) = 14 + n + m
        /\ lines[1] = Number("number", 0) /\ lines[2] = Comment("blank")
        /\ lines[3] = Comment("offsets")
        /\ \A i \in 1..n : lines[3 + i] = Number("number", starts[i])
        /\ lines[4 + n] = Comment("blank") /\ lines[5 + n] = Number("length", discLength)
        /\ lines[6 + n] = Comment("blank") /\ lines[7 + n] = Number("revision", r.revision)
        /\ lines[8 + n] = Number("number", 0) /\ lines[9 + n] = Comment("blank")
        /\ lines[10 + n] = Comment("other") /\ lines[11 + n] = TitleLine(r.artist, r.title)
        /\ lines[12 + n] = YearLine /\ lines[13 + n] = Comment("genre")
        /\ \A i \in 1..m : lines[13 + n + i] = SongLine(i - 1, r.songs[i])
        /\ lines[14 + n + m] = Comment("nothing")

IsConcat(c, a, b, n, k) ==
    /\ Len(c) = n + k
    /\ \A i \in 1..n : c[i] = a[i]
    /\ \A i \in 1..k : c[n + i] = b[i]

LEMMA Concat ==
    ASSUME NEW S, NEW a \in Seq(S), NEW b \in Seq(S)
    PROVE  a \o b \in Seq(S) /\ IsConcat(a \o b, a, b, Len(a), Len(b))
<1>1. a \o b \in Seq(S) /\ Len(a \o b) = Len(a) + Len(b)
    OBVIOUS
<1>2. ASSUME NEW i \in 1..Len(a) PROVE (a \o b)[i] = a[i]
    OBVIOUS
<1>3. ASSUME NEW i \in 1..Len(b) PROVE (a \o b)[Len(a) + i] = b[i]
    OBVIOUS
<1> QED  BY <1>1, <1>2, <1>3 DEF IsConcat

LEMMA LinesOfFile ==
    ASSUME NEW r \in Records, Len(r.songs) <= W, r.artist # NoText, r.title # NoText,
           NEW starts \in Seq(Words), NEW discLength \in Words
    PROVE  IsFileOf(Opening \o FrameLines(starts) \o Middle(r, discLength)
                      \o SongLines(r.songs) \o << Comment("nothing") >>,
                    r, starts, discLength)
<1> DEFINE n == Len(starts)
           m == Len(r.songs)
           a == Opening
           b == FrameLines(starts)
           c == Middle(r, discLength)
           d == SongLines(r.songs)
           e == << Comment("nothing") >>
           file1 == a \o b
           file2 == file1 \o c
           file3 == file2 \o d
           file4 == file3 \o e
<1>1. n \in Nat /\ m \in Nat /\ r.songs \in Seq(SongTexts)
    BY RecordFields
<1>2. /\ a \in Seq(Lines) /\ Len(a) = 3 /\ b \in Seq(Lines) /\ Len(b) = n
      /\ c \in Seq(Lines) /\ Len(c) = 10 /\ d \in Seq(Lines) /\ Len(d) = m
      /\ e \in Seq(Lines) /\ Len(e) = 1
    BY <1>1, PieceTypes
<1>3. /\ a[1] = Number("number", 0) /\ a[2] = Comment("blank") /\ a[3] = Comment("offsets")
    BY DEF Opening
<1>4. \A i \in 1..n : b[i] = Number("number", starts[i])
    BY DEF FrameLines
<1>5. /\ c[1] = Comment("blank") /\ c[2] = Number("length", discLength)
      /\ c[3] = Comment("blank") /\ c[4] = Number("revision", r.revision)
      /\ c[5] = Number("number", 0) /\ c[6] = Comment("blank")
      /\ c[7] = Comment("other") /\ c[8] = TitleLine(r.artist, r.title)
      /\ c[9] = YearLine /\ c[10] = Comment("genre")
    BY DEF Middle
<1>6. \A i \in 1..m : d[i] = SongLine(i - 1, r.songs[i])
    BY <1>1 DEF SongLines
<1>7. e[1] = Comment("nothing")
    OBVIOUS
<1> HIDE DEF a, b, c, d, e, n, m
<1>8. /\ file1 \in Seq(Lines) /\ Len(file1) = 3 + n
      /\ \A i \in 1..3 : file1[i] = a[i]
      /\ \A i \in 1..n : file1[3 + i] = b[i]
    <2>1. file1 \in Seq(Lines) /\ IsConcat(file1, a, b, 3, n)
        BY <1>2, Concat
    <2> QED  BY <2>1 DEF IsConcat
<1> HIDE DEF file1
<1>9. /\ file2 \in Seq(Lines) /\ Len(file2) = 13 + n
      /\ \A i \in 1..(3 + n) : file2[i] = file1[i]
      /\ \A i \in 1..10 : file2[3 + n + i] = c[i]
    <2>1. file2 \in Seq(Lines) /\ IsConcat(file2, file1, c, 3 + n, 10)
        <3>1. file2 \in Seq(Lines) /\ IsConcat(file2, file1, c, Len(file1), Len(c))
            BY <1>2, <1>8, Concat
        <3> QED  BY <1>2, <1>8, <3>1
    <2>2. (3 + n) + 10 = 13 + n
        BY <1>1
    <2> QED  BY <2>1, <2>2 DEF IsConcat
<1> HIDE DEF file2
<1>10. /\ file3 \in Seq(Lines) /\ Len(file3) = 13 + n + m
       /\ \A i \in 1..(13 + n) : file3[i] = file2[i]
       /\ \A i \in 1..m : file3[13 + n + i] = d[i]
    <2>1. file3 \in Seq(Lines) /\ IsConcat(file3, file2, d, 13 + n, m)
        BY <1>2, <1>9, Concat
    <2> QED  BY <2>1 DEF IsConcat
<1> HIDE DEF file3
<1>11. /\ file4 \in Seq(Lines) /\ Len(file4) = 14 + n + m
       /\ \A i \in 1..(13 + n + m) : file4[i] = file3[i]
       /\ file4[14 + n + m] = e[1]
    <2>1. file4 \in Seq(Lines) /\ IsConcat(file4, file3, e, 13 + n + m, 1)
        <3>1. file4 \in Seq(Lines) /\ IsConcat(file4, file3, e, Len(file3), Len(e))
            BY <1>2, <1>10, Concat
        <3> QED  BY <1>2, <1>10, <3>1
    <2>2. (13 + n + m) + 1 = 14 + n + m /\ 1 \in 1..1
        BY <1>1
    <2>3. file4[(13 + n + m) + 1] = e[1]
        BY <2>1, <2>2 DEF IsConcat
    <2> QED  BY <2>1, <2>2, <2>3 DEF IsConcat
<1> HIDE DEF file4
<1>12. file4[1] = a[1] /\ file4[2] = a[2] /\ file4[3] = a[3]
    BY <1>1, <1>8, <1>9, <1>10, <1>11
<1>13. \A i \in 1..n : file4[3 + i] = b[i]
    <2> SUFFICES ASSUME NEW i \in 1..n PROVE file4[3 + i] = b[i]
        OBVIOUS
    <2>1. 3 + i \in 1..(3 + n) /\ 3 + i \in 1..(13 + n) /\ 3 + i \in 1..(13 + n + m)
        BY <1>1
    <2> QED  BY <1>8, <1>9, <1>10, <1>11, <2>1
<1>14. \A i \in 1..10 : file4[3 + n + i] = c[i]
    <2> SUFFICES ASSUME NEW i \in 1..10 PROVE file4[3 + n + i] = c[i]
        OBVIOUS
    <2>1. 3 + n + i \in 1..(13 + n) /\ 3 + n + i \in 1..(13 + n + m)
        BY <1>1
    <2> QED  BY <1>9, <1>10, <1>11, <2>1
<1>15. \A i \in 1..m : file4[13 + n + i] = d[i]
    <2> SUFFICES ASSUME NEW i \in 1..m PROVE file4[13 + n + i] = d[i]
        OBVIOUS
    <2>1. 13 + n + i \in 1..(13 + n + m)
        BY <1>1
    <2> QED  BY <1>10, <1>11, <2>1
<1>16. /\ file4[4 + n] = c[1] /\ file4[5 + n] = c[2] /\ file4[6 + n] = c[3]
       /\ file4[7 + n] = c[4] /\ file4[8 + n] = c[5] /\ file4[9 + n] = c[6]
       /\ file4[10 + n] = c[7] /\ file4[11 + n] = c[8] /\ file4[12 + n] = c[9]
       /\ file4[13 + n] = c[10]
    <2>1. /\ 3 + n + 1 = 4 + n /\ 3 + n + 2 = 5 + n /\ 3 + n + 3 = 6 + n
          /\ 3 + n + 4 = 7 + n /\ 3 + n + 5 = 8 + n /\ 3 + n + 6 = 9 + n
          /\ 3 + n + 7 = 10 + n /\ 3 + n + 8 = 11 + n /\ 3 + n + 9 = 12 + n
          /\ 3 + n + 10 = 13 + n
        BY <1>1
    <2>2. \A i \in {1, 2, 3, 4, 5, 6, 7, 8, 9, 10} : file4[3 + n + i] = c[i]
        BY <1>14
    <2> QED  BY <2>1, <2>2
<1>17. IsFileOf(file4, r, starts, discLength)
    BY <1>3, <1>4, <1>5, <1>6, <1>7, <1>11, <1>12, <1>13, <1>15, <1>16
    DEF IsFileOf, n, m
<1> QED  BY <1>17 DEF a, b, c, d, e, file1, file2, file3, file4

\* A record that came from a file was made of the start frames that are
\* written, or had none: then the file has 0 for each song.
IsSource(r, starts) ==
    /\ r.frames = <<>> => r.seconds = 0 /\ \A i \in DOMAIN starts : starts[i] = 0
    /\ r.frames # <<>> =>
        /\ r.seconds = StartFrame(starts)
        /\ \A i \in DOMAIN starts : starts[i] # 0
        /\ \E S \in Words : r.frames = LengthsOf(S, starts)

WrittenStarts(r) == StartsOf(r.seconds, FramesOfRows(r))
WrittenLength(r) == DiscLengthOf(r.seconds, FramesOfRows(r))

\* The first k elements.
Prefix(s, t, k) == Len(s) = k /\ \A i \in 1..k : s[i] = t[i]

FramesBefore(r, n, p) ==
    IF r.frames = <<>> \/ p <= 4 THEN 0 ELSE IF p > 4 + n THEN n ELSE p - 4
SongsBefore(n, m, p) ==
    IF p <= 14 + n THEN 0 ELSE IF p > 14 + n + m THEN m ELSE p - (14 + n)

\* What has been read when line p is next.
Progress(x, p, r, starts, discLength) ==
    LET n == Len(starts)
        m == Len(r.songs)
    IN  /\ Prefix(x.frames, starts, FramesBefore(r, n, p))
        /\ x.readTracks <=> p = 4 \/ (p \in 5..(4 + n) /\ r.frames # <<>>)
        /\ x.seconds = IF p > 5 + n THEN discLength ELSE 0
        /\ x.revision = IF p > 7 + n THEN r.revision ELSE 0
        /\ p > 11 + n => x.artist = r.artist /\ x.title = r.title
        /\ Prefix(x.songs, r.songs, SongsBefore(n, m, p))
        /\ x.songs # <<>> => x.listBase = 0

IsReadBack(x, r) ==
    /\ x.artist = r.artist /\ x.title = r.title
    /\ x.songs = Cleanup(r)
    /\ x.revision = r.revision
    /\ x.seconds = r.seconds
    /\ Len(x.frames) = Len(r.frames)
    /\ \A i \in 1..(Len(r.frames) - 1) : x.frames[i] = r.frames[i]

ReadBack ==
    /\ rec.revision < 65536
    /\ written # <<>> =>
        LET r == written[1]
        IN  /\ r \in Records /\ r.revision < 65536
            /\ WrittenStarts(r) \in Seq(Words) /\ WrittenLength(r) \in Words
            /\ IsSource(r, WrittenStarts(r))
            /\ IsFileOf(file, r, WrittenStarts(r), WrittenLength(r))
            /\ phase = "reading" =>
                    Progress(rec, pos, r, WrittenStarts(r), WrittenLength(r))
            /\ phase = "done" => IsReadBack(rec, r)

\* What a step that reads a line does, for each of the three kinds of lines.
LEMMA CommentRead ==
    ASSUME TypeOK, Next, phase = "reading", pos <= Len(file),
           Line.kind \in {"offsets", "blank", "length", "revision", "number"}
    PROVE  /\ file' = file /\ written' = written /\ phase' = "reading" /\ pos' = pos + 1
           /\ rec'.artist = rec.artist /\ rec'.title = rec.title
           /\ rec'.songs = rec.songs /\ rec'.listBase = rec.listBase
           /\ rec'.frames = IF rec.readTracks /\ Frames(Line)
                            THEN Append(rec.frames, Line.number) ELSE rec.frames
           /\ rec'.seconds = IF Line.kind = "length" THEN Line.number ELSE rec.seconds
           /\ rec'.revision = IF ~rec.readTracks /\ Line.kind = "revision"
                              THEN Line.number % 65536 ELSE rec.revision
           /\ rec'.readTracks <=> IF rec.readTracks THEN Frames(Line) ELSE Line.kind = "offsets"
<1> DEFINE seconds == IF Line.kind = "length" THEN Line.number ELSE rec.seconds
           revision == IF Line.kind = "revision" THEN Line.number % 65536
                       ELSE rec.revision
           frames == IF Frames(Line) THEN Append(rec.frames, Line.number) ELSE rec.frames
           opens == (Line.kind = "offsets")
           stays == Frames(Line)
<1>1. AddComment \/ AddFrame
    BY DEF Next, AddKeyValue, Ignore, Finish, WriteFile, Read, TypeOK
<1>2. rec \in Records
    BY DEF TypeOK
<1>3. CASE AddComment
    <2>1. rec' = [rec EXCEPT !.readTracks = opens, !.seconds = seconds, !.revision = revision]
          /\ ~rec.readTracks
        BY <1>3 DEF AddComment
    <2>2. file' = file /\ written' = written /\ phase' = "reading" /\ pos' = pos + 1
        BY <1>3 DEF AddComment, Read
    <2> HIDE DEF seconds, revision
    <2>3. /\ rec'.artist = rec.artist /\ rec'.title = rec.title
          /\ rec'.songs = rec.songs /\ rec'.listBase = rec.listBase
          /\ rec'.frames = rec.frames /\ rec'.seconds = seconds
          /\ rec'.revision = revision /\ (rec'.readTracks <=> opens)
        BY <1>2, <2>1 DEF Records
    <2> QED  BY <2>1, <2>2, <2>3 DEF seconds, revision
<1>4. CASE AddFrame
    <2>1. rec' = [rec EXCEPT !.readTracks = stays, !.seconds = seconds, !.frames = frames]
          /\ rec.readTracks
        BY <1>4 DEF AddFrame, Frames
    <2>2. file' = file /\ written' = written /\ phase' = "reading" /\ pos' = pos + 1
        BY <1>4 DEF AddFrame, Read
    <2> HIDE DEF seconds, frames, stays
    <2>3. /\ rec'.artist = rec.artist /\ rec'.title = rec.title
          /\ rec'.songs = rec.songs /\ rec'.listBase = rec.listBase
          /\ rec'.frames = frames /\ rec'.seconds = seconds
          /\ rec'.revision = rec.revision /\ rec'.readTracks = stays
        BY <1>2, <2>1 DEF Records
    <2> QED  BY <2>1, <2>2, <2>3 DEF seconds, frames, stays
<1> QED  BY <1>1, <1>3, <1>4

LEMMA KeyRead ==
    ASSUME TypeOK, Next, phase = "reading", pos <= Len(file),
           Line.kind \in {"title", "song", "genre", "year", "other"},
           Line.kind = "year" => Line.good
    PROVE  /\ file' = file /\ written' = written /\ phase' = "reading" /\ pos' = pos + 1
           /\ rec'.frames = rec.frames /\ rec'.seconds = rec.seconds
           /\ rec'.revision = rec.revision /\ ~rec'.readTracks
           /\ Line.kind = "title" => rec'.artist = Line.artist /\ rec'.title = Line.title
           /\ Line.kind # "title" => rec'.artist = rec.artist /\ rec'.title = rec.title
           /\ Line.kind # "song" => rec'.songs = rec.songs /\ rec'.listBase = rec.listBase
           /\ Line.kind = "song" =>
                /\ rec'.listBase = IF rec.songs = <<>> THEN Line.number ELSE rec.listBase
                /\ rec'.songs = IF Len(rec.songs) = Line.number - rec'.listBase
                                THEN Append(rec.songs, Line.song) ELSE rec.songs
<1>1. AddKeyValue
    BY DEF Next, AddComment, AddFrame, Ignore, Finish, WriteFile, Read, TypeOK
<1>2. rec \in Records
    BY DEF TypeOK
<1>3. file' = file /\ written' = written /\ phase' = "reading" /\ pos' = pos + 1
    BY <1>1 DEF AddKeyValue, Read
<1>4. CASE Line.kind = "song"
    <2> DEFINE base == IF rec.songs = <<>> THEN Line.number ELSE rec.listBase
               songs == IF Len(rec.songs) = Line.number - base
                        THEN Append(rec.songs, Line.song) ELSE rec.songs
    <2>1. rec' = [rec EXCEPT !.readTracks = FALSE, !.listBase = base, !.songs = songs]
        BY <1>1, <1>4 DEF AddKeyValue, TakeSong
    <2> HIDE DEF base, songs
    <2>2. /\ rec'.frames = rec.frames /\ rec'.seconds = rec.seconds
          /\ rec'.revision = rec.revision /\ rec'.readTracks = FALSE
          /\ rec'.artist = rec.artist /\ rec'.title = rec.title
          /\ rec'.listBase = base /\ rec'.songs = songs
        BY <1>2, <2>1 DEF Records
    <2> QED  BY <1>3, <1>4, <2>2 DEF base, songs
<1>5. CASE Line.kind = "title"
    <2>1. rec' = [rec EXCEPT !.readTracks = FALSE,
                    !.artist = Line.artist, !.title = Line.title]
        BY <1>1, <1>5 DEF AddKeyValue
    <2> QED  BY <1>2, <1>3, <1>5, <2>1 DEF Records
<1>6. CASE Line.kind \notin {"song", "title"}
    <2>1. rec' = [rec EXCEPT !.readTracks = FALSE]
        BY <1>1, <1>6 DEF AddKeyValue
    <2> QED  BY <1>2, <1>3, <1>6, <2>1 DEF Records
<1> QED  BY <1>4, <1>5, <1>6

LEMMA NothingRead ==
    ASSUME TypeOK, Next, phase = "reading", pos <= Len(file), Line.kind = "nothing"
    PROVE  /\ file' = file /\ written' = written /\ phase' = "reading" /\ pos' = pos + 1
           /\ rec' = rec
<1>1. Ignore
    BY DEF Next, AddComment, AddFrame, AddKeyValue, Finish, WriteFile, Read, TypeOK
<1> QED  BY <1>1 DEF Ignore, Read


LEMMA SongsBeforeIs ==
    ASSUME NEW n \in Nat, NEW m \in Nat, NEW p \in Nat
    PROVE  /\ p <= 14 + n => SongsBefore(n, m, p) = 0
           /\ p \in (14 + n)..(14 + n + m) => SongsBefore(n, m, p) = p - (14 + n)
           /\ p > 14 + n + m => SongsBefore(n, m, p) = m
<1>1. CASE p <= 14 + n
    BY <1>1 DEF SongsBefore
<1>2. CASE p > 14 + n + m
    <2>1. ~(p <= 14 + n)
        BY <1>2
    <2> QED  BY <1>2, <2>1 DEF SongsBefore
<1>3. CASE ~(p <= 14 + n) /\ ~(p > 14 + n + m)
    BY <1>3 DEF SongsBefore
<1> QED  BY <1>1, <1>2, <1>3

LEMMA FramesBeforeIs ==
    ASSUME NEW r, NEW n \in Nat, NEW p \in Nat
    PROVE  /\ p <= 4 \/ r.frames = <<>> => FramesBefore(r, n, p) = 0
           /\ p \in 4..(4 + n) /\ r.frames # <<>> => FramesBefore(r, n, p) = p - 4
           /\ p >= 4 + n => FramesBefore(r, n, p) = IF r.frames = <<>> THEN 0 ELSE n
<1>1. CASE p <= 4 \/ r.frames = <<>>
    BY <1>1 DEF FramesBefore
<1>2. CASE ~(p <= 4 \/ r.frames = <<>>) /\ p > 4 + n
    BY <1>2 DEF FramesBefore
<1>3. CASE ~(p <= 4 \/ r.frames = <<>>) /\ ~(p > 4 + n)
    BY <1>3 DEF FramesBefore
<1> QED  BY <1>1, <1>2, <1>3

\* Past the last frame no more are read.
LEMMA FramesBeforeStays ==
    ASSUME NEW r, NEW n \in Nat, NEW p \in Nat, p >= 4 + n
    PROVE  FramesBefore(r, n, p + 1) = FramesBefore(r, n, p)
<1>1. p + 1 \in Nat /\ p + 1 >= 4 + n
    OBVIOUS
<1>2. FramesBefore(r, n, p) = IF r.frames = <<>> THEN 0 ELSE n
    BY FramesBeforeIs
<1>3. FramesBefore(r, n, p + 1) = IF r.frames = <<>> THEN 0 ELSE n
    BY <1>1, FramesBeforeIs
<1> QED  BY <1>2, <1>3

\* A line of the file that has been written is next.
Rereads(r, starts, discLength) ==
    /\ r \in Records /\ r.revision < 65536
    /\ starts \in Seq(Words) /\ discLength \in Words
    /\ IsSource(r, starts) /\ IsFileOf(file, r, starts, discLength)
    /\ phase = "reading" /\ pos <= Len(file)
    /\ Progress(rec, pos, r, starts, discLength)

OneLineOn(r, starts, discLength) ==
    /\ file' = file /\ written' = written /\ phase' = "reading" /\ pos' = pos + 1
    /\ Progress(rec', pos', r, starts, discLength)

LEMMA FrameAndSongLines ==
    ASSUME NEW lines, NEW r, NEW starts, NEW discLength,
           IsFileOf(lines, r, starts, discLength)
    PROVE  /\ \A i \in 1..Len(starts) : lines[3 + i] = Number("number", starts[i])
           /\ \A i \in 1..Len(r.songs) :
                lines[13 + Len(starts) + i] = SongLine(i - 1, r.songs[i])
<1>1. \A i \in 1..Len(starts) : lines[3 + i] = Number("number", starts[i])
    BY Zenon DEF IsFileOf
<1>2. \A i \in 1..Len(r.songs) :
            lines[13 + Len(starts) + i] = SongLine(i - 1, r.songs[i])
    BY Zenon DEF IsFileOf
<1> QED  BY <1>1, <1>2

LEMMA SizesOfFile ==
    ASSUME TypeOK, NEW r, NEW starts, NEW discLength, Rereads(r, starts, discLength)
    PROVE  /\ Len(starts) \in Nat /\ DOMAIN starts = 1..Len(starts)
           /\ Len(r.songs) \in Nat /\ DOMAIN r.songs = 1..Len(r.songs)
           /\ Len(file) = 14 + Len(starts) + Len(r.songs)
           /\ pos \in 1..(14 + Len(starts) + Len(r.songs))
           /\ rec.frames \in Seq(Words) /\ rec.songs \in Seq(SongTexts)
           /\ rec.readTracks \in BOOLEAN
           /\ \A i \in DOMAIN starts : starts[i] \in Words
           /\ \A i \in DOMAIN r.songs : r.songs[i] \in SongTexts
<1> DEFINE n == Len(starts)
           m == Len(r.songs)
<1>1. r.songs \in Seq(SongTexts) /\ starts \in Seq(Words) /\ n \in Nat /\ m \in Nat
    BY RecordFields DEF Rereads
<1>2. Len(file) = 14 + n + m
    BY DEF Rereads, IsFileOf
<1>3. pos \in 1..(14 + n + m)
    <2>1. pos \in 1..(Len(file) + 1) /\ pos <= Len(file)
        BY DEF Rereads, TypeOK
    <2> HIDE DEF n, m
    <2> QED  BY <1>1, <1>2, <2>1
<1>4. rec.frames \in Seq(Words) /\ rec.songs \in Seq(SongTexts) /\ rec.readTracks \in BOOLEAN
    BY RecordFields DEF TypeOK
<1>5. DOMAIN starts = 1..n /\ DOMAIN r.songs = 1..m
    BY <1>1
<1>6. /\ \A i \in DOMAIN starts : starts[i] \in Words
      /\ \A i \in DOMAIN r.songs : r.songs[i] \in SongTexts
    BY <1>1
<1> QED  BY <1>1, <1>2, <1>3, <1>4, <1>5, <1>6

\* In front of the start frames.
LEMMA OpeningRead ==
    ASSUME TypeOK, Next, NEW r, NEW starts, NEW discLength,
           Rereads(r, starts, discLength), pos \in 1..3
    PROVE  OneLineOn(r, starts, discLength)
<1> DEFINE n == Len(starts)
           m == Len(r.songs)
<1>1. n \in Nat /\ m \in Nat
    BY SizesOfFile
<1>2. Line = IF pos = 1 THEN Number("number", 0)
             ELSE IF pos = 2 THEN Comment("blank") ELSE Comment("offsets")
    <2>1. /\ file[1] = Number("number", 0) /\ file[2] = Comment("blank")
          /\ file[3] = Comment("offsets")
        BY DEF Rereads, IsFileOf
    <2>2. pos = 1 \/ pos = 2 \/ pos = 3
        OBVIOUS
    <2> QED  BY <2>1, <2>2 DEF Line
<1>3. Line.kind = IF pos = 1 THEN "number" ELSE IF pos = 2 THEN "blank" ELSE "offsets"
    BY <1>2 DEF Number, Comment
<1>4. ~rec.readTracks
    BY <1>1 DEF Rereads, Progress
<1>5. /\ file' = file /\ written' = written /\ phase' = "reading" /\ pos' = pos + 1
      /\ rec'.artist = rec.artist /\ rec'.title = rec.title
      /\ rec'.songs = rec.songs /\ rec'.listBase = rec.listBase
      /\ rec'.frames = rec.frames /\ rec'.seconds = rec.seconds
      /\ rec'.revision = rec.revision /\ (rec'.readTracks <=> pos = 3)
    BY <1>3, <1>4, CommentRead DEF Rereads
<1>6. /\ FramesBefore(r, n, pos) = 0 /\ FramesBefore(r, n, pos + 1) = 0
      /\ SongsBefore(n, m, pos) = 0 /\ SongsBefore(n, m, pos + 1) = 0
    <2>1. /\ pos \in Nat /\ pos + 1 \in Nat /\ pos <= 4 /\ pos + 1 <= 4
          /\ pos <= 14 + n /\ pos + 1 <= 14 + n
        BY <1>1
    <2> HIDE DEF n, m
    <2>2. FramesBefore(r, n, pos) = 0 /\ FramesBefore(r, n, pos + 1) = 0
        BY <1>1, <2>1, FramesBeforeIs
    <2>3. SongsBefore(n, m, pos) = 0 /\ SongsBefore(n, m, pos + 1) = 0
        BY <1>1, <2>1, SongsBeforeIs
    <2> QED  BY <2>2, <2>3
<1>7. Prefix(rec'.frames, starts, 0) /\ Prefix(rec'.songs, r.songs, 0)
    BY <1>5, <1>6 DEF Rereads, Progress
<1>8. rec.seconds = 0 /\ rec.revision = 0 /\ rec.songs = <<>>
    BY <1>1, <1>6, SizesOfFile DEF Rereads, Progress, Prefix
<1>9. Progress(rec', pos + 1, r, starts, discLength)
    BY <1>1, <1>5, <1>6, <1>7, <1>8 DEF Progress
<1> QED  BY <1>5, <1>9 DEF OneLineOn

\* A start frame is taken; a 0 ends the list at once.
LEMMA FramesRead ==
    ASSUME TypeOK, Next, NEW r, NEW starts, NEW discLength,
           Rereads(r, starts, discLength), pos \in 4..(3 + Len(starts))
    PROVE  OneLineOn(r, starts, discLength)
<1> DEFINE n == Len(starts)
           m == Len(r.songs)
           i == pos - 3
<1>1. /\ n \in Nat /\ m \in Nat /\ DOMAIN starts = 1..n
      /\ pos \in Nat /\ i \in 1..n /\ 3 + i = pos
    BY SizesOfFile
<1>2. Line = Number("number", starts[i])
    <2>1. \A k \in 1..Len(starts) : file[3 + k] = Number("number", starts[k])
        BY FrameAndSongLines DEF Rereads
    <2> QED  BY <1>1, <2>1 DEF Line
<1>3. Line.kind = "number" /\ Line.number = starts[i]
    BY <1>2 DEF Number
<1>4. rec.readTracks <=> r.frames # <<>> \/ pos = 4
    BY <1>1 DEF Rereads, Progress
<1>5. Frames(Line) <=> r.frames # <<>>
    BY <1>1, <1>3 DEF Frames, Rereads, IsSource
<1>6. /\ file' = file /\ written' = written /\ phase' = "reading" /\ pos' = pos + 1
      /\ rec'.artist = rec.artist /\ rec'.title = rec.title
      /\ rec'.songs = rec.songs /\ rec'.listBase = rec.listBase
      /\ rec'.frames = IF r.frames # <<>> THEN Append(rec.frames, starts[i]) ELSE rec.frames
      /\ rec'.seconds = rec.seconds /\ rec'.revision = rec.revision
      /\ rec'.readTracks <=> r.frames # <<>>
    BY <1>3, <1>4, <1>5, CommentRead DEF Rereads
<1>7. /\ SongsBefore(n, m, pos) = 0 /\ SongsBefore(n, m, pos + 1) = 0
    <2>1. pos + 1 \in Nat /\ pos <= 14 + n /\ pos + 1 <= 14 + n
        BY <1>1
    <2> HIDE DEF n, m
    <2> QED  BY <1>1, <2>1, SongsBeforeIs
<1>8. Prefix(rec'.frames, starts, FramesBefore(r, n, pos + 1))
    <2>1. Prefix(rec.frames, starts, FramesBefore(r, n, pos))
        BY DEF Rereads, Progress
    <2>2. CASE r.frames = <<>>
        BY <1>6, <2>1, <2>2 DEF FramesBefore
    <2>3. CASE r.frames # <<>>
        <3>1. FramesBefore(r, n, pos) = i - 1 /\ FramesBefore(r, n, pos + 1) = i
            BY <1>1, <2>3 DEF FramesBefore
        <3>2. Len(rec.frames) = i - 1 /\ \A k \in 1..(i - 1) : rec.frames[k] = starts[k]
            BY <2>1, <3>1 DEF Prefix
        <3>3. rec'.frames = Append(rec.frames, starts[i]) /\ rec.frames \in Seq(Words)
            BY <1>6, <2>3, SizesOfFile
        <3>4. Len(rec'.frames) = i
            BY <1>1, <3>2, <3>3
        <3>5. ASSUME NEW k \in 1..i PROVE rec'.frames[k] = starts[k]
            <4>1. starts[i] \in Words
                BY <1>1 DEF Rereads
            <4>2. CASE k = i
                BY <1>1, <3>2, <3>3, <4>1, <4>2
            <4>3. CASE k # i
                BY <1>1, <3>2, <3>3, <4>1, <4>3
            <4> QED  BY <4>2, <4>3
        <3> QED  BY <3>1, <3>4, <3>5 DEF Prefix
    <2> QED  BY <2>2, <2>3
<1>9. Prefix(rec'.songs, r.songs, 0) /\ rec.songs = <<>>
    BY <1>6, <1>7, SizesOfFile DEF Rereads, Progress, Prefix
<1>10. rec.seconds = 0 /\ rec.revision = 0
    BY <1>1 DEF Rereads, Progress
<1>11. Progress(rec', pos + 1, r, starts, discLength)
    BY <1>1, <1>6, <1>7, <1>8, <1>9, <1>10 DEF Progress
<1> QED  BY <1>6, <1>11 DEF OneLineOn

\* Between the start frames and the songs: comments.
LEMMA MiddleRead ==
    ASSUME TypeOK, Next, NEW r, NEW starts, NEW discLength,
           Rereads(r, starts, discLength),
           pos \in (4 + Len(starts))..(9 + Len(starts))
    PROVE  OneLineOn(r, starts, discLength)
<1> DEFINE n == Len(starts)
           m == Len(r.songs)
           i == pos - n
<1>1. n \in Nat /\ m \in Nat /\ pos \in Nat /\ i \in 4..9 /\ i + n = pos
    BY SizesOfFile
<1>2. Line = CASE i = 5 -> Number("length", discLength)
               [] i = 7 -> Number("revision", r.revision)
               [] i = 8 -> Number("number", 0)
               [] OTHER -> Comment("blank")
    <2>1. i \in {4, 5, 6, 7, 8, 9} /\ pos = i + n
        BY <1>1
    <2>2. /\ file[4 + n] = Comment("blank") /\ file[5 + n] = Number("length", discLength)
          /\ file[6 + n] = Comment("blank") /\ file[7 + n] = Number("revision", r.revision)
          /\ file[8 + n] = Number("number", 0) /\ file[9 + n] = Comment("blank")
        BY DEF Rereads, IsFileOf
    <2> HIDE DEF n, i
    <2> QED  BY <2>1, <2>2 DEF Line
<1>3. /\ Line.kind \in {"blank", "length", "revision", "number"}
      /\ (Line.kind = "length" <=> i = 5) /\ (i = 5 => Line.number = discLength)
      /\ (Line.kind = "revision" <=> i = 7) /\ (i = 7 => Line.number = r.revision)
      /\ (Line.kind = "number" <=> i = 8) /\ (i = 8 => Line.number = 0)
    BY <1>1, <1>2 DEF Number, Comment
<1>4. rec.readTracks => i = 4
    BY <1>1 DEF Rereads, Progress
<1>5. ~Frames(Line)
    BY <1>3 DEF Frames
<1>6. r.revision % 65536 = r.revision
    <2>1. r.revision \in Nat /\ r.revision < 65536
        BY RecordFields, WordAssumption DEF Rereads, Words
    <2>2. \A a \in Nat : a < 65536 => a % 65536 = a
        OBVIOUS
    <2> QED  BY <2>1, <2>2
<1>7. /\ file' = file /\ written' = written /\ phase' = "reading" /\ pos' = pos + 1
      /\ rec'.artist = rec.artist /\ rec'.title = rec.title
      /\ rec'.songs = rec.songs /\ rec'.listBase = rec.listBase
      /\ rec'.frames = rec.frames
      /\ rec'.seconds = IF i = 5 THEN discLength ELSE rec.seconds
      /\ rec'.revision = IF i = 7 THEN r.revision ELSE rec.revision
      /\ ~rec'.readTracks
    BY <1>3, <1>4, <1>5, <1>6, CommentRead DEF Rereads
<1>8. /\ SongsBefore(n, m, pos) = 0 /\ SongsBefore(n, m, pos + 1) = 0
      /\ FramesBefore(r, n, pos + 1) = FramesBefore(r, n, pos)
    <2>1. /\ pos + 1 \in Nat /\ pos <= 14 + n /\ pos + 1 <= 14 + n
          /\ pos >= 4 + n /\ pos + 1 >= 4 + n
        BY <1>1
    <2>2. pos \in Nat /\ n \in Nat /\ m \in Nat
        BY <1>1
    <2> HIDE DEF n, m, i
    <2>3. SongsBefore(n, m, pos) = 0 /\ SongsBefore(n, m, pos + 1) = 0
        BY <2>1, <2>2, SongsBeforeIs
    <2>4. FramesBefore(r, n, pos + 1) = FramesBefore(r, n, pos)
        BY <2>1, <2>2, FramesBeforeStays
    <2> QED  BY <2>3, <2>4
<1>9. /\ Prefix(rec'.frames, starts, FramesBefore(r, n, pos + 1))
      /\ Prefix(rec'.songs, r.songs, 0) /\ rec.songs = <<>>
    BY <1>7, <1>8, SizesOfFile DEF Rereads, Progress, Prefix
<1>10. /\ rec.seconds = IF i > 5 THEN discLength ELSE 0
       /\ rec.revision = IF i > 7 THEN r.revision ELSE 0
    BY <1>1 DEF Rereads, Progress
<1>11. Progress(rec', pos + 1, r, starts, discLength)
    BY <1>1, <1>7, <1>8, <1>9, <1>10 DEF Progress
<1> QED  BY <1>7, <1>11 DEF OneLineOn

\* The keys in front of the songs.
LEMMA KeysRead ==
    ASSUME TypeOK, Next, NEW r, NEW starts, NEW discLength,
           Rereads(r, starts, discLength),
           pos \in (10 + Len(starts))..(13 + Len(starts))
    PROVE  OneLineOn(r, starts, discLength)
<1> DEFINE n == Len(starts)
           m == Len(r.songs)
           i == pos - n
<1>1. n \in Nat /\ m \in Nat /\ pos \in Nat /\ i \in 10..13 /\ i + n = pos
    BY SizesOfFile
<1>2. Line = CASE i = 10 -> Comment("other")
               [] i = 11 -> TitleLine(r.artist, r.title)
               [] i = 12 -> YearLine
               [] OTHER -> Comment("genre")
    <2>1. i \in {10, 11, 12, 13} /\ pos = i + n
        BY <1>1
    <2>2. /\ file[10 + n] = Comment("other") /\ file[11 + n] = TitleLine(r.artist, r.title)
          /\ file[12 + n] = YearLine /\ file[13 + n] = Comment("genre")
        BY DEF Rereads, IsFileOf
    <2> HIDE DEF n, i
    <2> QED  BY <2>1, <2>2 DEF Line
<1>3. /\ Line.kind \in {"other", "title", "year", "genre"}
      /\ Line.kind = "year" => Line.good
      /\ Line.kind = "title" <=> i = 11
      /\ i = 11 => Line.artist = r.artist /\ Line.title = r.title
    BY <1>1, <1>2 DEF TitleLine, YearLine, Comment
<1>4. /\ file' = file /\ written' = written /\ phase' = "reading" /\ pos' = pos + 1
      /\ rec'.songs = rec.songs /\ rec'.listBase = rec.listBase
      /\ rec'.frames = rec.frames /\ rec'.seconds = rec.seconds
      /\ rec'.revision = rec.revision /\ ~rec'.readTracks
      /\ i = 11 => rec'.artist = r.artist /\ rec'.title = r.title
      /\ i # 11 => rec'.artist = rec.artist /\ rec'.title = rec.title
    BY <1>3, KeyRead DEF Rereads
<1>5. /\ SongsBefore(n, m, pos) = 0 /\ SongsBefore(n, m, pos + 1) = 0
      /\ FramesBefore(r, n, pos + 1) = FramesBefore(r, n, pos)
    <2>1. /\ pos + 1 \in Nat /\ pos <= 14 + n /\ pos + 1 <= 14 + n
          /\ pos >= 4 + n /\ pos + 1 >= 4 + n
        BY <1>1
    <2>2. pos \in Nat /\ n \in Nat /\ m \in Nat
        BY <1>1
    <2> HIDE DEF n, m, i
    <2>3. SongsBefore(n, m, pos) = 0 /\ SongsBefore(n, m, pos + 1) = 0
        BY <2>1, <2>2, SongsBeforeIs
    <2>4. FramesBefore(r, n, pos + 1) = FramesBefore(r, n, pos)
        BY <2>1, <2>2, FramesBeforeStays
    <2> QED  BY <2>3, <2>4
<1>6. /\ Prefix(rec'.frames, starts, FramesBefore(r, n, pos + 1))
      /\ Prefix(rec'.songs, r.songs, 0) /\ rec.songs = <<>>
    BY <1>4, <1>5, SizesOfFile DEF Rereads, Progress, Prefix
<1>7. /\ rec.seconds = discLength /\ rec.revision = r.revision
      /\ i > 11 => rec.artist = r.artist /\ rec.title = r.title
    BY <1>1 DEF Rereads, Progress
<1>8. Progress(rec', pos + 1, r, starts, discLength)
    BY <1>1, <1>4, <1>5, <1>6, <1>7 DEF Progress
<1> QED  BY <1>4, <1>8 DEF OneLineOn

\* The songs have the numbers from 0 on, so that each one is taken.
LEMMA SongsRead ==
    ASSUME TypeOK, Next, NEW r, NEW starts, NEW discLength,
           Rereads(r, starts, discLength),
           pos \in (14 + Len(starts))..(13 + Len(starts) + Len(r.songs))
    PROVE  OneLineOn(r, starts, discLength)
<1> DEFINE n == Len(starts)
           m == Len(r.songs)
           i == pos - (13 + n)
<1>1. n \in Nat /\ m \in Nat /\ pos \in Nat /\ i \in 1..m /\ 13 + n + i = pos
      /\ DOMAIN r.songs = 1..m
    <2>1. n \in Nat /\ m \in Nat /\ pos \in 1..(14 + n + m) /\ DOMAIN r.songs = 1..m
        BY SizesOfFile
    <2>2. pos \in (14 + n)..(13 + n + m)
        OBVIOUS
    <2> HIDE DEF n, m
    <2> QED  BY <2>1, <2>2
<1>2. Line = SongLine(i - 1, r.songs[i])
    <2>1. file[13 + n + i] = SongLine(i - 1, r.songs[i])
        <3>1. \A k \in 1..Len(r.songs) :
                    file[13 + Len(starts) + k] = SongLine(k - 1, r.songs[k])
            BY FrameAndSongLines DEF Rereads
        <3> QED  BY <1>1, <3>1
    <2> QED  BY <1>1, <2>1 DEF Line
<1>3. Line.kind = "song" /\ Line.number = i - 1 /\ Line.song = r.songs[i]
    BY <1>2 DEF SongLine
<1>4. SongsBefore(n, m, pos) = i - 1 /\ SongsBefore(n, m, pos + 1) = i
    <2>1. /\ pos \in (14 + n)..(14 + n + m) /\ pos + 1 \in (14 + n)..(14 + n + m)
          /\ pos - (14 + n) = i - 1 /\ pos + 1 - (14 + n) = i /\ pos + 1 \in Nat
        <3> HIDE DEF n, m
        <3> QED  BY <1>1
    <2> HIDE DEF n, m, i
    <2> QED  BY <1>1, <2>1, SongsBeforeIs
<1>5. Len(rec.songs) = i - 1 /\ \A k \in 1..(i - 1) : rec.songs[k] = r.songs[k]
    BY <1>4 DEF Rereads, Progress, Prefix
<1>6. rec.songs \in Seq(SongTexts)
    BY SizesOfFile
<1>7. rec.songs = <<>> => i - 1 = 0
    BY <1>1, <1>5, <1>6
<1>8. (IF rec.songs = <<>> THEN Line.number ELSE rec.listBase) = 0
    BY <1>3, <1>7 DEF Rereads, Progress
<1>9. /\ file' = file /\ written' = written /\ phase' = "reading" /\ pos' = pos + 1
      /\ rec'.artist = rec.artist /\ rec'.title = rec.title
      /\ rec'.frames = rec.frames /\ rec'.seconds = rec.seconds
      /\ rec'.revision = rec.revision /\ ~rec'.readTracks
      /\ rec'.listBase = 0 /\ rec'.songs = Append(rec.songs, r.songs[i])
    <2>1. Len(rec.songs) = Line.number - 0
        <3> HIDE DEF i
        <3> QED  BY <1>1, <1>3, <1>5
    <2> HIDE DEF i
    <2>2. /\ phase = "reading" /\ pos <= Len(file) /\ Line.kind # "title"
          /\ Line.kind \in {"title", "song", "genre", "year", "other"}
          /\ Line.kind = "year" => Line.good
        BY <1>3 DEF Rereads
    <2>3. /\ file' = file /\ written' = written /\ phase' = "reading" /\ pos' = pos + 1
          /\ rec'.artist = rec.artist /\ rec'.title = rec.title
          /\ rec'.frames = rec.frames /\ rec'.seconds = rec.seconds
          /\ rec'.revision = rec.revision /\ ~rec'.readTracks
        BY <2>2, KeyRead
    <2>4. /\ rec'.listBase = IF rec.songs = <<>> THEN Line.number ELSE rec.listBase
          /\ rec'.songs = IF Len(rec.songs) = Line.number - rec'.listBase
                          THEN Append(rec.songs, Line.song) ELSE rec.songs
        BY <1>3, <2>2, KeyRead
    <2>5. rec'.listBase = 0
        BY <1>8, <2>4
    <2>6. rec'.songs = Append(rec.songs, r.songs[i])
        BY <1>3, <2>1, <2>4, <2>5
    <2> QED  BY <2>3, <2>5, <2>6
<1>10. Prefix(rec'.songs, r.songs, i)
    <2>1. Len(rec'.songs) = i
        BY <1>1, <1>5, <1>6, <1>9
    <2>2. r.songs[i] \in SongTexts
        BY <1>1, RecordFields DEF Rereads
    <2>3. ASSUME NEW k \in 1..i PROVE rec'.songs[k] = r.songs[k]
        <3>1. CASE k = i
            BY <1>1, <1>5, <1>6, <1>9, <2>2, <3>1
        <3>2. CASE k # i
            BY <1>1, <1>5, <1>6, <1>9, <2>2, <3>2
        <3> QED  BY <3>1, <3>2
    <2> QED  BY <2>1, <2>3 DEF Prefix
<1>11. /\ FramesBefore(r, n, pos + 1) = FramesBefore(r, n, pos)
       /\ Prefix(rec.frames, starts, FramesBefore(r, n, pos))
       /\ rec.seconds = discLength /\ rec.revision = r.revision
       /\ rec.artist = r.artist /\ rec.title = r.title
    BY <1>1 DEF FramesBefore, Rereads, Progress
<1>12. Progress(rec', pos + 1, r, starts, discLength)
    BY <1>1, <1>4, <1>9, <1>10, <1>11 DEF Progress
<1> QED  BY <1>9, <1>12 DEF OneLineOn

LEMMA LastLineRead ==
    ASSUME TypeOK, Next, NEW r, NEW starts, NEW discLength,
           Rereads(r, starts, discLength), pos >= 14 + Len(starts) + Len(r.songs)
    PROVE  OneLineOn(r, starts, discLength)
<1> DEFINE n == Len(starts)
           m == Len(r.songs)
<1>1. n \in Nat /\ m \in Nat /\ pos \in Nat /\ pos = 14 + n + m
    <2>1. n \in Nat /\ m \in Nat /\ pos \in 1..(14 + n + m)
        BY SizesOfFile
    <2> HIDE DEF n, m
    <2>2. pos >= 14 + n + m
        BY DEF n, m
    <2> QED  BY <2>1, <2>2
<1> HIDE DEF n, m
<1>2. Line = Comment("nothing")
    <2>1. file[14 + n + m] = Comment("nothing")
        BY DEF Rereads, IsFileOf, n, m
    <2> QED  BY <1>1, <2>1 DEF Line
<1>3. /\ file' = file /\ written' = written /\ phase' = "reading" /\ pos' = pos + 1
      /\ rec' = rec
    BY <1>2, NothingRead DEF Comment, Rereads
<1>4. /\ SongsBefore(n, m, pos + 1) = SongsBefore(n, m, pos)
      /\ FramesBefore(r, n, pos + 1) = FramesBefore(r, n, pos)
    <2>1. /\ pos \in (14 + n)..(14 + n + m) /\ pos - (14 + n) = m
          /\ pos + 1 \in Nat /\ pos + 1 > 14 + n + m
          /\ pos >= 4 + n /\ pos + 1 >= 4 + n
        BY <1>1
    <2>2. SongsBefore(n, m, pos) = m
        BY <1>1, <2>1, SongsBeforeIs
    <2>3. SongsBefore(n, m, pos + 1) = m
        BY <1>1, <2>1, SongsBeforeIs
    <2>4. FramesBefore(r, n, pos + 1) = FramesBefore(r, n, pos)
        BY <1>1, <2>1, FramesBeforeStays
    <2> QED  BY <2>2, <2>3, <2>4
<1>5. /\ Prefix(rec.frames, starts, FramesBefore(r, n, pos + 1))
      /\ Prefix(rec.songs, r.songs, SongsBefore(n, m, pos + 1))
    BY <1>4 DEF Rereads, Progress, n, m
<1>6. /\ ~rec.readTracks /\ rec.seconds = discLength /\ rec.revision = r.revision
      /\ rec.artist = r.artist /\ rec.title = r.title
      /\ rec.songs # <<>> => rec.listBase = 0
    <2>1. /\ pos > 5 + n /\ pos > 7 + n /\ pos > 11 + n /\ pos # 4
          /\ pos \notin 5..(4 + n)
        BY <1>1
    <2> QED  BY <2>1 DEF Rereads, Progress, n, m
<1>7. Progress(rec', pos + 1, r, starts, discLength)
    <2>1. /\ pos + 1 > 5 + n /\ pos + 1 > 7 + n /\ pos + 1 > 11 + n /\ pos + 1 # 4
          /\ pos + 1 \notin 5..(4 + n)
        BY <1>1
    <2> QED  BY <1>3, <1>5, <1>6, <2>1 DEF Progress, n, m
<1> QED  BY <1>3, <1>7 DEF OneLineOn


LEMMA ReadsOn ==
    ASSUME TypeOK, Next, NEW r, NEW starts, NEW discLength,
           Rereads(r, starts, discLength)
    PROVE  OneLineOn(r, starts, discLength)
<1> DEFINE n == Len(starts)
           m == Len(r.songs)
<1>1. n \in Nat /\ m \in Nat /\ pos \in 1..(14 + n + m)
    BY SizesOfFile
<1>2. \/ pos \in 1..3 \/ pos \in 4..(3 + n) \/ pos \in (4 + n)..(9 + n)
      \/ pos \in (10 + n)..(13 + n) \/ pos \in (14 + n)..(13 + n + m)
      \/ pos >= 14 + n + m
    <2> HIDE DEF n, m
    <2> QED  BY <1>1
<1>3. CASE pos \in 1..3                         BY <1>3, OpeningRead
<1>4. CASE pos \in 4..(3 + n)                   BY <1>4, FramesRead
<1>5. CASE pos \in (4 + n)..(9 + n)             BY <1>5, MiddleRead
<1>6. CASE pos \in (10 + n)..(13 + n)           BY <1>6, KeysRead
<1>7. CASE pos \in (14 + n)..(13 + n + m)       BY <1>7, SongsRead
<1>8. CASE pos >= 14 + n + m                    BY <1>8, LastLineRead
<1> HIDE DEF n, m
<1> QED  BY <1>2, <1>3, <1>4, <1>5, <1>6, <1>7, <1>8

\* A function whose first elements are all it has is the other one.
LEMMA WholePrefix ==
    ASSUME NEW S, NEW s \in Seq(S), NEW t \in Seq(S), Prefix(s, t, Len(t))
    PROVE  s = t
BY DEF Prefix

\* All lines have been read: the lengths are computed of the same starts, with
\* another disc length.
LEMMA FinishReadBack ==
    ASSUME TypeOK, Finish, NEW r \in Records, NEW starts \in Seq(Words),
           NEW discLength \in Words, IsSource(r, starts),
           IsFileOf(file, r, starts, discLength),
           Progress(rec, pos, r, starts, discLength)
    PROVE  IsReadBack(rec', r)
<1> DEFINE n == Len(starts)
           m == Len(r.songs)
           songs == Cleanup(rec)
           frames == LengthsOf(rec.seconds, rec.frames)
           seconds == StartFrame(rec.frames)
<1>1. /\ n \in Nat /\ m \in Nat /\ r.songs \in Seq(SongTexts)
      /\ rec \in Records /\ rec.songs \in Seq(SongTexts) /\ rec.frames \in Seq(Words)
      /\ r.frames \in Seq(Words)
    BY RecordFields DEF TypeOK
<1>2. pos \in Nat /\ pos > 14 + n + m
    <2>1. pos \in 1..(Len(file) + 1) /\ pos > Len(file) /\ Len(file) = 14 + n + m
        BY DEF TypeOK, Finish, IsFileOf
    <2> HIDE DEF n, m
    <2> QED  BY <1>1, <2>1
<1>3. /\ FramesBefore(r, n, pos) = IF r.frames = <<>> THEN 0 ELSE n
      /\ SongsBefore(n, m, pos) = m
    <2> HIDE DEF n, m
    <2>1. pos >= 4 + n
        BY <1>1, <1>2
    <2>2. FramesBefore(r, n, pos) = IF r.frames = <<>> THEN 0 ELSE n
        BY <1>1, <1>2, <2>1, FramesBeforeIs
    <2>3. SongsBefore(n, m, pos) = m
        BY <1>1, <1>2, SongsBeforeIs
    <2> QED  BY <2>2, <2>3
<1>4. rec.songs = r.songs
    <2>1. Prefix(rec.songs, r.songs, m)
        BY <1>3 DEF Progress
    <2> QED  BY <1>1, <2>1, WholePrefix
<1>5. rec.frames = IF r.frames = <<>> THEN <<>> ELSE starts
    <2>1. CASE r.frames = <<>>
        <3>1. Prefix(rec.frames, starts, 0)
            BY <1>3, <2>1 DEF Progress
        <3> QED  BY <1>1, <2>1, <3>1 DEF Prefix
    <2>2. CASE r.frames # <<>>
        <3>1. Prefix(rec.frames, starts, n)
            BY <1>3, <2>2 DEF Progress
        <3> QED  BY <1>1, <2>2, <3>1, WholePrefix
    <2> QED  BY <2>1, <2>2
<1>6. /\ rec.artist = r.artist /\ rec.title = r.title
      /\ rec.revision = r.revision /\ rec.seconds = discLength
    <2> HIDE DEF n, m
    <2>1. pos > 5 + n /\ pos > 7 + n /\ pos > 11 + n
        BY <1>1, <1>2
    <2> QED  BY <2>1 DEF Progress, n
<1>7. rec' = [rec EXCEPT !.songs = songs, !.frames = frames, !.seconds = seconds]
    BY DEF Finish
<1> HIDE DEF songs, frames, seconds
<1>8. /\ rec'.artist = rec.artist /\ rec'.title = rec.title
      /\ rec'.revision = rec.revision /\ rec'.songs = songs
      /\ rec'.frames = frames /\ rec'.seconds = seconds
    BY <1>1, <1>7 DEF Records
<1>9. songs = Cleanup(r)
    BY <1>4, <1>6 DEF songs, Cleanup
<1>10. frames = LengthsOf(discLength, rec.frames)
    BY <1>6 DEF frames
<1>11. CASE r.frames = <<>>
    <2>1. frames \in Seq(Words) /\ Len(frames) = 0
        BY <1>1, <1>5, <1>10, <1>11, LengthsType
    <2>2. seconds = 0 /\ r.seconds = 0
        BY <1>5, <1>11 DEF seconds, StartFrame, IsSource
    <2>3. Len(r.frames) = 0
        BY <1>11
    <2> QED  BY <1>6, <1>8, <1>9, <2>1, <2>2, <2>3 DEF IsReadBack
<1>12. CASE r.frames # <<>>
    <2>1. PICK S \in Words : r.frames = LengthsOf(S, starts)
        BY <1>12 DEF IsSource
    <2>2. seconds = r.seconds
        BY <1>5, <1>12 DEF seconds, IsSource
    <2>3. frames = LengthsOf(discLength, starts)
        BY <1>5, <1>10, <1>12
    <2>4. Len(frames) = n /\ Len(r.frames) = n
        BY <2>1, <2>3, LengthsType
    <2>5. ASSUME NEW i \in 1..(n - 1) PROVE frames[i] = r.frames[i]
        BY <2>1, <2>3, LengthAt
    <2> QED  BY <1>6, <1>8, <1>9, <2>2, <2>4, <2>5 DEF IsReadBack
<1> QED  BY <1>11, <1>12

\* A record that is written is one that has been read.
LEMMA WriteReadBack ==
    ASSUME Inv, ReadBack, WriteFile
    PROVE  ReadBack'
<1> DEFINE r == rec
<1>1. /\ rec \in Records /\ FromStarts(rec) /\ Len(rec.songs) <= W
      /\ rec.artist # NoText /\ rec.title # NoText /\ rec.revision < 65536
    BY DEF Inv, TypeOK, Shape, WriteFile, ReadBack
<1>2. WrittenStarts(rec) \in Seq(Words) /\ WrittenLength(rec) \in Words
    BY <1>1, RowsHaveStarts, DiscLengthType DEF WrittenStarts, WrittenLength
<1>3. IsSource(rec, WrittenStarts(rec))
    <2>1. PICK starts \in Seq(Words), S \in Words :
            /\ rec.frames = LengthsOf(S, starts)
            /\ rec.seconds = StartFrame(starts)
            /\ \A i \in DOMAIN starts : starts[i] # 0
        BY <1>1 DEF FromStarts
    <2>2. Len(rec.frames) = Len(starts) /\ rec.frames \in Seq(Words)
        BY <2>1, LengthsType
    <2>3. CASE rec.frames = <<>>
        <3>1. WrittenStarts(rec) = [i \in DOMAIN rec.songs |-> 0]
            BY <1>1, <2>3, RowsHaveStarts DEF WrittenStarts, FramesOfRows
        <3>2. rec.seconds = 0
            BY <2>1, <2>2, <2>3 DEF StartFrame
        <3> QED  BY <2>3, <3>1, <3>2 DEF IsSource
    <2>4. CASE rec.frames # <<>>
        <3>1. starts # <<>> /\ FramesOfRows(rec) = rec.frames
            BY <2>2, <2>4 DEF FramesOfRows
        <3>2. WrittenStarts(rec) = starts
            BY <2>1, <3>1, StartsComeBack DEF WrittenStarts
        <3> QED  BY <2>1, <2>4, <3>2 DEF IsSource
    <2> QED  BY <2>3, <2>4
<1>4. /\ file' = CddbFile(FromDatabase(rec)) /\ pos' = 1 /\ rec' = EmptyRecord
      /\ phase' = "reading" /\ written' = <<rec>>
    BY DEF WriteFile
<1>5. IsFileOf(file', rec, WrittenStarts(rec), WrittenLength(rec))
    <2> DEFINE starts == WrittenStarts(rec)
               discLength == WrittenLength(rec)
    <2>1. file' = Opening \o FrameLines(starts) \o Middle(rec, discLength)
                    \o SongLines(rec.songs) \o << Comment("nothing") >>
        BY <1>4, CddbFilePieces DEF WrittenStarts, WrittenLength
    <2> HIDE DEF starts, discLength
    <2>2. starts \in Seq(Words) /\ discLength \in Words
        BY <1>2 DEF starts, discLength
    <2>3. IsFileOf(Opening \o FrameLines(starts) \o Middle(rec, discLength)
                     \o SongLines(rec.songs) \o << Comment("nothing") >>,
                   rec, starts, discLength)
        BY <1>1, <2>2, LinesOfFile
    <2>4. IsFileOf(file', rec, starts, discLength)
        BY <2>1, <2>3
    <2> QED  BY <2>4 DEF starts, discLength
<1>6. Progress(EmptyRecord, 1, rec, WrittenStarts(rec), WrittenLength(rec))
    <2> DEFINE n == Len(WrittenStarts(rec))
               m == Len(rec.songs)
    <2>1. n \in Nat /\ m \in Nat
        BY <1>1, <1>2, RecordFields
    <2>2. FramesBefore(rec, n, 1) = 0 /\ SongsBefore(n, m, 1) = 0
        <3> HIDE DEF n, m
        <3>1. 1 \in Nat /\ 1 <= 4 /\ 1 <= 14 + n
            BY <2>1
        <3>2. FramesBefore(rec, n, 1) = 0
            BY <2>1, <3>1, FramesBeforeIs
        <3>3. SongsBefore(n, m, 1) = 0
            BY <2>1, <3>1, SongsBeforeIs
        <3> QED  BY <3>2, <3>3
    <2>3. Prefix(<<>>, WrittenStarts(rec), 0) /\ Prefix(<<>>, rec.songs, 0)
        BY DEF Prefix
    <2>4. ~(1 > 5 + n) /\ ~(1 > 7 + n) /\ ~(1 > 11 + n)
        BY <2>1
    <2> QED  BY <2>2, <2>3, <2>4 DEF Progress, EmptyRecord
<1>7. written'[1] = rec
    BY <1>4
<1>8. rec'.revision < 65536
    BY <1>4 DEF EmptyRecord
<1> QED  BY <1>1, <1>2, <1>3, <1>4, <1>5, <1>6, <1>7, <1>8 DEF ReadBack

\* The revision is a number of 16 bits.
LEMMA RevisionStays ==
    ASSUME TypeOK, rec.revision < 65536, Next
    PROVE  rec'.revision < 65536
<1>1. rec \in Records
    BY DEF TypeOK
<1>2. CASE AddComment \/ AddFrame
    <2>1. /\ phase = "reading" /\ pos <= Len(file)
          /\ Line.kind \in {"offsets", "blank", "length", "revision", "number"}
        BY <1>2 DEF AddComment, AddFrame, Read
    <2>2. rec'.revision = IF ~rec.readTracks /\ Line.kind = "revision"
                          THEN Line.number % 65536 ELSE rec.revision
        BY <2>1, CommentRead
    <2>3. CASE Line.kind = "revision"
        <3>1. file \in Seq(Lines) /\ pos \in 1..Len(file)
            BY <2>1 DEF TypeOK
        <3>2. Line \in Lines
            BY <3>1 DEF Line
        <3>3. Line.number \in Int
            BY <2>3, <3>2, LineTypes, WordAssumption DEF Words
        <3>4. Line.number % 65536 < 65536
            BY <3>3
        <3> QED  BY <2>2, <3>4
    <2>4. CASE Line.kind # "revision"
        BY <2>2, <2>4
    <2> QED  BY <2>3, <2>4
<1>3. CASE AddKeyValue
    <2>1. CASE Line.kind = "song"
        <3> DEFINE base == IF rec.songs = <<>> THEN Line.number ELSE rec.listBase
                   songs == IF Len(rec.songs) = Line.number - base
                            THEN Append(rec.songs, Line.song) ELSE rec.songs
        <3>1. rec' = [rec EXCEPT !.readTracks = FALSE, !.listBase = base, !.songs = songs]
            BY <1>3, <2>1 DEF AddKeyValue, TakeSong
        <3> HIDE DEF base, songs
        <3> QED  BY <1>1, <3>1 DEF Records
    <2>2. CASE Line.kind = "title"
        <3>1. rec' = [rec EXCEPT !.readTracks = FALSE,
                        !.artist = Line.artist, !.title = Line.title]
            BY <1>3, <2>2 DEF AddKeyValue
        <3> QED  BY <1>1, <3>1 DEF Records
    <2>3. CASE Line.kind \notin {"song", "title"}
        <3>1. rec' = [rec EXCEPT !.readTracks = FALSE]
            BY <1>3, <2>3 DEF AddKeyValue
        <3> QED  BY <1>1, <3>1 DEF Records
    <2> QED  BY <2>1, <2>2, <2>3
<1>4. CASE Ignore
    BY <1>4 DEF Ignore
<1>5. CASE Finish
    <2> DEFINE songs == Cleanup(rec)
               frames == LengthsOf(rec.seconds, rec.frames)
               seconds == StartFrame(rec.frames)
    <2>1. rec' = [rec EXCEPT !.songs = songs, !.frames = frames, !.seconds = seconds]
        BY <1>5 DEF Finish
    <2> HIDE DEF songs, frames, seconds
    <2> QED  BY <1>1, <2>1 DEF Records
<1>6. CASE WriteFile
    BY <1>6 DEF WriteFile, EmptyRecord
<1> QED  BY <1>2, <1>3, <1>4, <1>5, <1>6 DEF Next

LEMMA NextReadBack == Inv /\ ReadBack /\ [Next]_vars => ReadBack'
<1> SUFFICES ASSUME Inv, ReadBack, [Next]_vars PROVE ReadBack'
    OBVIOUS
<1> DEFINE r == written[1]
           starts == WrittenStarts(r)
           discLength == WrittenLength(r)
<1>1. TypeOK
    BY DEF Inv
<1>2. CASE WriteFile
    BY <1>2, WriteReadBack
<1>3. CASE UNCHANGED vars
    <2>1. /\ file' = file /\ pos' = pos /\ rec' = rec /\ phase' = phase
          /\ written' = written
        BY <1>3 DEF vars
    <2> QED  BY <2>1 DEF ReadBack
<1>4. CASE Next /\ ~WriteFile /\ written = <<>>
    <2>1. written' = <<>>
        BY <1>4 DEF Next, AddComment, AddFrame, AddKeyValue, Ignore, Finish
    <2>2. rec'.revision < 65536
        BY <1>1, <1>4, RevisionStays DEF ReadBack
    <2> QED  BY <2>1, <2>2 DEF ReadBack
<1>5. CASE Next /\ ~WriteFile /\ written # <<>>
    <2>1. phase = "reading"
        BY <1>5 DEF Next, AddComment, AddFrame, AddKeyValue, Ignore, Finish, Read
    <2>2. rec'.revision < 65536
        BY <1>1, <1>5, RevisionStays DEF ReadBack
    <2>3. /\ r \in Records /\ r.revision < 65536
          /\ starts \in Seq(Words) /\ discLength \in Words /\ IsSource(r, starts)
          /\ IsFileOf(file, r, starts, discLength)
          /\ Progress(rec, pos, r, starts, discLength)
        BY <1>5, <2>1 DEF ReadBack
    <2> HIDE DEF r, starts, discLength
    <2>4. CASE pos <= Len(file)
        <3>1. Rereads(r, starts, discLength)
            BY <2>1, <2>3, <2>4 DEF Rereads
        <3>2. OneLineOn(r, starts, discLength)
            BY <1>1, <1>5, <3>1, ReadsOn
        <3>3. written' = written /\ file' = file /\ phase' = "reading"
              /\ Progress(rec', pos', r, starts, discLength)
            BY <3>2 DEF OneLineOn
        <3> QED  BY <2>2, <2>3, <3>3 DEF ReadBack, r, starts, discLength
    <2>5. CASE ~(pos <= Len(file))
        <3>1. Finish
            BY <1>5, <2>5 DEF Next, AddComment, AddFrame, AddKeyValue, Ignore, Read
        <3>2. IsReadBack(rec', r)
            BY <1>1, <2>3, <3>1, FinishReadBack
        <3>3. written' = written /\ file' = file /\ phase' = "done"
            BY <3>1 DEF Finish
        <3> QED  BY <2>2, <2>3, <3>2, <3>3 DEF ReadBack, r, starts, discLength
    <2> QED  BY <2>4, <2>5
<1> QED  BY <1>2, <1>3, <1>4, <1>5

\* What a client reads of any record is what the importer has read, for any
\* numbers of tracks and songs: the texts, the revision, the start frames, and
\* all lengths but the last one.
THEOREM WrittenIsReadBack == Spec => []FileReadsBack
<1>1. Init => ReadBack
    BY DEF Init, ReadBack, EmptyRecord
<1>2. ReadBack => FileReadsBack
    BY DEF ReadBack, IsReadBack, FileReadsBack
<1> QED  BY RecordInvariance, NextReadBack, <1>1, <1>2, PTL DEF Spec

=============================================================================
