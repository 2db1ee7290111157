---------------------------- MODULE MCCDDBSystem ----------------------------
(***************************************************************************)
(* Discs for CDDBSystem: near each other and far away, with the same text, *)
(* the same track lengths or the same digest.                              *)
(***************************************************************************)
EXTENDS CDDBSystem

MCNames == {"Abba", "AbbaGold", "Zappa"}
MCSongs == {"Song"}
MCGenres == {"pop", "rock"}

MCNormalizedHash(t) == <<t.name, Len(t.songs)>>
MCHashes == MCNames \X (1..2)
MCEntropy(t) == CASE t.name = "Abba" -> 3 [] t.name = "AbbaGold" -> 6 [] OTHER -> 4
MCCharCount(t) == 4
MCEqualLowercase(a, b) == a = b
MCSimilarTitle(a, b) == a = b \/ {a, b} = {"Abba", "AbbaGold"}

\* <<100>> collides with <<200>> and with the two tracks; 100, 101 and 104
\* have one fuzzy id.  <<4>> has the one of a record without track lengths.
MCDiscId(seconds, frames) ==
    CASE frames \in {<<100>>, <<200>>, <<100, 104>>} -> "d100"
      [] frames = <<101>> -> "d101"
      [] frames = <<104>> -> "d104"
      [] frames \in {<<0>>, <<4>>} -> "d4"
      [] OTHER -> "d0"
MCDiscIds == {"d0", "d100", "d101", "d104", "d4"}

MCFuzzyId(seconds, frames) ==
    CASE frames \in {<<100>>, <<101>>, <<104>>} -> "f100"
      [] frames \in {<<200>>, <<100, 104>>, <<101, 103>>} -> "f200"
      [] OTHER -> "f0"
MCFuzzyIds == {"f0", "f100", "f200"}

Disc(name, frames) ==
    [ name |-> name, genre |-> IF name = "Zappa" THEN "rock" ELSE "pop",
      songs |-> IF Len(frames) = 2 THEN <<"Song", "Song">> ELSE <<"Song">>,
      seconds |-> IF frames = <<>> THEN 0 ELSE 2, frames |-> frames,
      revision |-> 0, uppercase |-> 1 ]

FramedDiscs == { Disc("Abba", <<100>>), Disc("AbbaGold", <<100>>),
                 Disc("Zappa", <<100>>), Disc("Abba", <<101>>),
                 Disc("Zappa", <<104>>), Disc("Zappa", <<200>>),
                 Disc("Abba", <<100, 104>>) }

Discs == FramedDiscs \cup {Disc("Abba", <<>>)}

MCAsked == { [seconds |-> 2, frames |-> f] :
                f \in {<<4>>, <<100>>, <<101>>, <<200>>, <<101, 103>>} }

CONSTANT MaxEntries     \* bound of the model: entries in an archive
MCArchives == UNION { [1..n -> Records] : n \in 1..MaxEntries }
=============================================================================
