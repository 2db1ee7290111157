------------------------------ MODULE MCTexts ------------------------------
(***************************************************************************)
(* Files for Texts: versions of one disc that differ in case, blanks,      *)
(* accents, order of lines and spelling, and texts that end in all         *)
(* sequences of bytes from the boundaries of UTF-8.                        *)
(***************************************************************************)
EXTENDS Texts

\* DTITLE=ABBA / WATERLOO\nTTITLE0=ABBA / SOS CD2\nDGENRE=POP\n
Loud ==
    <<68, 84, 73, 84, 76, 69, 61, 65, 66, 66, 65, 32, 47, 32, 87, 65, 84,
      69, 82, 76, 79, 79, 10, 84, 84, 73, 84, 76, 69, 48, 61, 65, 66, 66,
      65, 32, 47, 32, 83, 79, 83, 32, 67, 68, 50, 10, 68, 71, 69, 78, 82,
      69, 61, 80, 79, 80, 10>>

\* DTITLE=Abba / Waterloo\nTTITLE0=Sos Cd2\n
Quiet ==
    <<68, 84, 73, 84, 76, 69, 61, 65, 98, 98, 97, 32, 47, 32, 87, 97, 116,
      101, 114, 108, 111, 111, 10, 84, 84, 73, 84, 76, 69, 48, 61, 83, 111,
      115, 32, 67, 100, 50, 10>>

\* DTITLE=Abba / Waterlop\nTTITLE1=Sos cd2
Typo ==
    <<68, 84, 73, 84, 76, 69, 61, 65, 98, 98, 97, 32, 47, 32, 87, 97, 116,
      101, 114, 108, 111, 112, 10, 84, 84, 73, 84, 76, 69, 49, 61, 83, 111,
      115, 32, 99, 100, 50>>

\* DTITLE=Aba / Watrlop\n
TwoTypos ==
    <<68, 84, 73, 84, 76, 69, 61, 65, 98, 97, 32, 47, 32, 87, 97, 116, 114,
      108, 111, 112, 10>>

\* accents in ISO 8859-1, lines end with CR LF
French ==
    <<68, 84, 73, 84, 76, 69, 61, 192, 98, 98, 97, 32, 47, 32, 87, 97, 116,
      101, 114, 108, 246, 246, 13, 10, 84, 84, 73, 84, 76, 69, 48, 61, 83,
      214, 83, 32, 99, 100, 50, 13, 10>>

\* # Abba\n DTITLE \t=  ABBA  /  WATER  LOO   \rTTITLE0=ABBA /  CD  CDX\n
Spaced ==
    <<35, 32, 65, 98, 98, 97, 10, 32, 68, 84, 73, 84, 76, 69, 32, 9, 61, 32,
      32, 65, 66, 66, 65, 32, 32, 47, 32, 32, 87, 65, 84, 69, 82, 32, 32,
      76, 79, 79, 32, 32, 32, 13, 84, 84, 73, 84, 76, 69, 48, 61, 65, 66,
      66, 65, 32, 47, 32, 32, 67, 68, 32, 32, 67, 68, 88, 10>>

\* \nDTITLE x=No\nADDITIONALKEYS=No\n=No\nDYEAR=\nTTITLE1x=A\nTTITLE3=C\nTTITLE2=B\nDTITLE=Abba
Lines ==
    <<10, 68, 84, 73, 84, 76, 69, 32, 120, 61, 78, 111, 10, 65, 68, 68, 73,
      84, 73, 79, 78, 65, 76, 75, 69, 89, 83, 61, 78, 111, 10, 61, 78, 111,
      10, 68, 89, 69, 65, 82, 61, 10, 84, 84, 73, 84, 76, 69, 49, 120, 61,
      65, 10, 84, 84, 73, 84, 76, 69, 51, 61, 67, 10, 84, 84, 73, 84, 76, 69,
      50, 61, 66, 10, 68, 84, 73, 84, 76, 69, 61, 65, 98, 98, 97>>

\* DTITLE=Waterloo Waterloo Waterloo\nDTITLE=Waterloo A\n
TooLong ==
    <<68, 84, 73, 84, 76, 69, 61, 87, 97, 116, 101, 114, 108, 111, 111, 32,
      87, 97, 116, 101, 114, 108, 111, 111, 32, 87, 97, 116, 101, 114, 108,
      111, 111, 10, 68, 84, 73, 84, 76, 69, 61, 87, 97, 116, 101, 114, 108,
      111, 111, 32, 65, 10>>

\* DTITLE=Ooo / Oooooooo\nTTITLE0=Ooo / Ooo / O\n
Repeats ==
    <<68, 84, 73, 84, 76, 69, 61, 79, 111, 111, 32, 47, 32, 79, 111, 111,
      111, 111, 111, 111, 111, 10, 84, 84, 73, 84, 76, 69, 48, 61, 79, 111,
      111, 32, 47, 32, 79, 111, 111, 32, 47, 32, 79, 10>>

\* two words of Cyrillic capitals
Russian ==
    <<68, 84, 73, 84, 76, 69, 61, 208, 144, 208, 145, 32, 47, 32, 208, 145,
      208, 144, 208, 145, 208, 144, 208, 145, 208, 144, 10>>

\* DTITLE=Ab / L and twice U+0178\n
Umlaut ==
    <<68, 84, 73, 84, 76, 69, 61, 65, 98, 32, 47, 32, 76, 197, 184, 197,
      184, 10>>

\* DTITLE=A /\n
Short ==
    <<68, 84, 73, 84, 76, 69, 61, 65, 32, 47, 10>>

\* DTITLE=Medley\n and DTITLE=Medlex\n
Medley == TextLine(TitleKey, <<77, 101, 100, 108, 101, 121>>)
Medlex == TextLine(TitleKey, <<77, 101, 100, 108, 101, 120>>)

\* DTITLE={1} / }{0{\n and twelve songs
Twelve ==
    <<68, 84, 73, 84, 76, 69, 61, 123, 49, 125, 32, 47, 32, 125, 123, 48,
      123, 10>>
      \o FlattenSeq([i \in 1..12 |->
            TextLine(SongKey \o (IF i < 11 THEN <<47 + i>> ELSE <<49, 37 + i>>), <<64 + i>>)])

MCVersions ==
    { Twelve, Medley, Medlex, Loud, Quiet, Typo, TwoTypos, French, Spaced,
      Lines, TooLong, Repeats, Russian, Umlaut, Short }

\* A title and some bytes.
Titles(begin, ends) == { TextLine(TitleKey, begin \o e) : e \in ends }
Defg == <<68, 101, 102, 103>>
DEFG == <<68, 69, 70, 71>>

\* Blank, letters, and the first and last bytes of each kind.
Boundary == {32, 65, 97, 128, 160, 191, 193, 195, 224, 239, 240, 248, 255}
Long == { <<a, b, c, d, 65>> : a \in {240, 244, 247, 248}, b \in {128, 143, 144, 191},
                               c \in {128, 191}, d \in {128, 191} }

MCFiles == MCVersions \cup Titles(DEFG, [1..3 -> Boundary] \cup Long)
            \cup Titles(Defg, [1..2 -> Boundary])
            \cup Titles(DEFG, {<<63, 244, 144, 128, 128, 65>>})

MCUpper == 65..90 \cup (192..222 \ {215}) \cup {376} \cup 1040..1071
MCLowerOf == [ch \in MCUpper |-> IF ch = 376 THEN 255 ELSE ch + 32]
MCAlpha == MCUpper \cup 97..122 \cup {170, 181, 186} \cup (223..255 \ {247})
            \cup 1072..1103
MCAlnum == MCAlpha \cup 48..57
MCIgnored == (0..191 \ MCAlnum) \cup {215, 247}
=============================================================================
