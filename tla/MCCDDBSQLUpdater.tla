-------------------------- MODULE MCCDDBSQLUpdater --------------------------
(***************************************************************************)
(* A handful of discs for CDDBSQLUpdater: versions of one disc that differ *)
(* in case, in accents and in wording, a disc of another artist with the   *)
(* same track lengths, nearly the same ones, and ones with the same digest.*)
(***************************************************************************)
EXTENDS CDDBSQLUpdater, TLC

MCNames == {"Abba", "ABba", "Aebba", "AbbaGold", "Gold", "Zappa"}
MCSongs == {"Song", "Sing"}
MCGenres == {"pop", "rock"}

\* normalize() drops case and accents, so three of the names have one hash.
Normalized(name) == IF name \in {"ABba", "Aebba"} THEN "Abba" ELSE name

MCNormalizedHash(t) == <<Normalized(t.name), Len(t.songs)>>
MCHashes == {"Abba", "AbbaGold", "Gold", "Zappa"} \X (0..1)

\* Characters in the name, and the different ones among them; a song adds
\* characters of its own.
NameEntropy == [n \in MCNames |->
    CASE n = "Abba" -> 3 [] n = "ABba" -> 3 [] n = "Aebba" -> 4
      [] n = "AbbaGold" -> 6 [] n = "Gold" -> 6 [] n = "Zappa" -> 4]
NameLength == [n \in MCNames |->
    CASE n = "AbbaGold" -> 8 [] n = "Zappa" -> 5 [] OTHER -> 4]
NameUppercase == [n \in MCNames |->
    CASE n \in {"ABba", "AbbaGold"} -> 2 [] OTHER -> 1]

MCEntropy(t) == NameEntropy[t.name] + 3 * Len(t.songs)
MCCharCount(t) == NameLength[t.name] + 4 * Len(t.songs)
MCEqualLowercase(a, b) ==
    {a.name, b.name} \subseteq {"Abba", "ABba"} /\ a.songs = b.songs

\* Similar titles share enough n-grams; that is not transitive.
MCSimilarTitle(a, b) ==
    \/ Normalized(a) = Normalized(b)
    \/ {Normalized(a), Normalized(b)} = {"Abba", "AbbaGold"}
    \/ {Normalized(a), Normalized(b)} = {"Gold", "AbbaGold"}

\* Track lengths 7 and 8 are the same at the resolution of the fuzzy id; 9
\* and 7 have the same digest.
MCDiscId(seconds, frames) ==
    IF frames = <<>> THEN "none" ELSE IF frames = <<8>> THEN "d8" ELSE "d7"
MCDiscIds == {"none", "d7", "d8"}
MCFuzzyId(seconds, frames) ==
    IF frames = <<>> THEN "none" ELSE IF frames = <<9>> THEN "f9" ELSE "f7"
MCFuzzyIds == {"none", "f7", "f9"}

\* The short name was corrected once, and the longest one has another song.
Disc(name, genre, length) ==
    [ name |-> name, genre |-> genre,
      songs |-> IF name = "AbbaGold" THEN <<"Sing">> ELSE <<"Song">>,
      seconds |-> 2, frames |-> <<length>>, uppercase |-> 1,
      revision |-> IF name = "Abba" THEN 1 ELSE 0 ]

Frameless(name, songs) ==
    [ name |-> name, songs |-> songs, genre |-> "pop",
      seconds |-> 0, frames |-> <<>>, uppercase |-> 1, revision |-> 0 ]

\* Versions of a disc, and a disc that only shares its track lengths.
Versions == { Disc("Abba", "pop", 7), Disc("ABba", "pop", 7),
              Disc("Aebba", "rock", 7), Disc("AbbaGold", "pop", 7),
              Disc("Gold", "rock", 7), Disc("Zappa", "rock", 7) }

\* The same text with other track lengths, digests that collide, and records
\* without track lengths, with a song and without.
Lengths == { Disc("Abba", "pop", 7), Disc("Abba", "pop", 8),
             Disc("Zappa", "rock", 7), Disc("AbbaGold", "pop", 9),
             Frameless("Abba", <<>>), Frameless("Aebba", <<"Song">>) }

AllDiscs == Versions \cup Lengths

\* Any two entries, and three different versions in any order.
Pairs == UNION { [1..n -> AllDiscs \cup {BadEntry}] : n \in 0..2 }
ThreeVersions == { a \in [1..3 -> Versions] : IsInjective(a) }
MCArchives == Pairs \cup ThreeVersions
=============================================================================
