------------------------------- MODULE Texts -------------------------------
(***************************************************************************)
(* The texts of a record, character by character: how the parser cuts the  *)
(* lines of a file (src/diskrecord.cpp:67), the check of their encoding,   *)
(* cleanup() with its title case, entropy, the normalized text that the    *)
(* importer hashes, and the n-grams it compares titles by                  *)
(* (src/helper.hpp).  Comments, numbers and frames are those of            *)
(* DiskRecord.  A character is its codepoint; what the C library says of   *)
(* it is a constant.                                                       *)
(***************************************************************************)
EXTENDS Unicode, Format, FiniteSets, SequencesExt

CONSTANTS
    Files,                      \* files, as sequences of bytes
    Versions,                   \* those that another one may follow
    MaxKeyLen, MaxValueLen,     \* 15 and 255: longer ones are dropped
    Upper, Alpha, Alnum,        \* iswupper, iswalpha, iswalnum
    Ignored,                    \* iswpunct, iswcntrl or iswspace
    LowerOf                     \* towlower, on Upper

ASSUME FilesAssumption ==
    /\ Versions \subseteq Files
    /\ \A f \in Files : f \in Seq(Bytes)

\* No letter is a blank or a mark, also in lower case, and up to 255 case is
\* that of ISO 8859-1, as it is in all locales but the Turkish ones.
ASSUME LibraryAssumption ==
    /\ 32 \in Ignored
    /\ 65..90 \subseteq Upper
    /\ Upper \subseteq Nat /\ Upper \cap Ignored = {}
    /\ \A ch \in Upper :
        /\ LowerOf[ch] \in Nat /\ LowerOf[ch] > 64 /\ IsUnicode(LowerOf[ch])
        /\ LowerOf[ch] \notin Ignored
        /\ LowerOf[ch] \in Upper => LowerOf[LowerOf[ch]] = LowerOf[ch]
        /\ ch < 256 => ch \in 65..90 \cup (192..222 \ {215}) /\ LowerOf[ch] = ch + 32
    /\ 63 \notin Alnum         \* '?', which to_utf8 writes for what is no character

\* A key has room for a song number of nine digits at most.
ASSUME LimitsAssumption == MaxKeyLen \in 6..15 /\ MaxValueLen \in Nat

Blank == 32
LineFeed == 10
Newlines == {10, 13}
Spaces == {32} \cup 9..13       \* std::isspace of a byte
Hash == 35  Equals == 61  LetterC == 67  LetterD == 68  Zero == 48

TitleKey == <<68, 84, 73, 84, 76, 69>>      \* DTITLE
GenreKey == <<68, 71, 69, 78, 82, 69>>      \* DGENRE
SongKey  == <<84, 84, 73, 84, 76, 69>>      \* TTITLE, with a number behind
Slash == <<32, 47, 32>>                     \* " / "

-----------------------------------------------------------------------------
(* Blanks (src/helper.hpp:299).                                            *)

TrimRight(s) ==
    LET last == { n \in 0..Len(s) : n = 0 \/ s[n] # Blank }
    IN  SubSeq(s, 1, CHOOSE n \in last : \A k \in last : k <= n)

TrimLeft(s) ==
    LET first == { n \in 1..(Len(s) + 1) : n > Len(s) \/ s[n] # Blank }
    IN  SubSeq(s, CHOOSE n \in first : \A k \in first : n <= k, Len(s))

\* Of several blanks in a row only one stays.
TrimMultiple(s) ==
    LET kept[i \in 0..Len(s)] ==
            IF i = 0 THEN <<>>
            ELSE IF s[i] = Blank /\ i > 1 /\ s[i - 1] = Blank THEN kept[i - 1]
            ELSE Append(kept[i - 1], s[i])
    IN  kept[Len(s)]

TrimAll(s) == TrimMultiple(TrimLeft(TrimRight(s)))

-----------------------------------------------------------------------------
(* Encodings.                                                              *)

\* What from_utf8 has after some bytes of a text: the bytes of the character
\* that are still to come, its bits, the least character of so many bytes, and
\* the characters before it.  It goes through the steps of Unicode's decoder.
Fresh == [left |-> 0, bits |-> 0, limit |-> 0, chars |-> <<>>, good |-> TRUE]

Refused(d) == [d EXCEPT !.good = FALSE]
AddChar(d, ch) ==
    [left |-> 0, bits |-> 0, limit |-> 0, chars |-> Append(d.chars, ch), good |-> d.good]
FirstByte(d, n, bits, limit) ==
    [left |-> n, bits |-> bits, limit |-> limit, chars |-> d.chars, good |-> d.good]
LaterByte(d, bits) ==
    IF d.left > 1 THEN [d EXCEPT !.left = @ - 1, !.bits = bits]
    ELSE IF bits < d.limit THEN Refused(d)
    ELSE AddChar(d, bits)

NextByte(d, b) ==
    IF ~d.good THEN d
    ELSE IF d.left = 0
    THEN IF b < 128 THEN AddChar(d, b)
         ELSE IF b \in 192..223 THEN FirstByte(d, 1, b - 192, 128)
         ELSE IF b \in 224..239 THEN FirstByte(d, 2, b - 224, 2048)
         ELSE IF b \in 240..247 THEN FirstByte(d, 3, b - 240, 65536)
         ELSE Refused(d)
    ELSE IF Continuation(b) THEN LaterByte(d, d.bits * 64 + (b - 128))
    ELSE Refused(d)

Decoded(s) ==
    LET after[i \in 0..Len(s)] ==
            IF i = 0 THEN Fresh ELSE NextByte(after[i - 1], s[i])
    IN  after[Len(s)]

\* A character that is not complete is left out.
FromUtf8(s) == Decoded(s).chars

WideToUtf8(w) == FlattenSeq([i \in DOMAIN w |-> ToUtf8(w[i])])

\* Bytes that are no UTF-8 are taken for ISO 8859-1, whose characters have
\* the codepoints of its bytes.
Encoded(value, isUtf8) == IF isUtf8 THEN value ELSE WideToUtf8(value)

-----------------------------------------------------------------------------
(* Upper and lower case.                                                   *)

MostlyUppercase(w) ==
    LET letters == { i \in DOMAIN w : w[i] \in Alpha }
        upper   == { i \in letters : w[i] \in Upper }
    IN  Cardinality(letters \ upper) < Cardinality(upper)

\* Begin of a word.  A word may begin with CD.
StartsWord(w, i) == w[i] \in Alnum /\ (i = 1 \/ w[i - 1] \notin Alnum)
IsCD(w, i) == w[i] = LetterD /\ w[i - 1] = LetterC /\ StartsWord(w, i - 1)

ToTitleCase(w) ==
    [i \in DOMAIN w |->
        IF w[i] \in Alnum \cap Upper /\ ~StartsWord(w, i) /\ ~IsCD(w, i)
        THEN LowerOf[w[i]] ELSE w[i]]

Titled(w) == IF MostlyUppercase(w) THEN ToTitleCase(w) ELSE w

\* The text is written again only if something changed.
ConvertToTitlecase(value) ==
    LET w == FromUtf8(value)
    IN  IF Decoded(value).good /\ Titled(w) # w THEN WideToUtf8(Titled(w)) ELSE value

-----------------------------------------------------------------------------
(* Entropy: the characters, how many there are, and whether they look like *)
(* those of another code page: control characters and rare ones, then the  *)
(* letters of ISO 8859-1.                                                  *)

CalcBadEncoding(chars) ==
    LET rare == Cardinality(chars \cap (0..31 \cup 127..191))
    IN  rare > 4 \/ rare + Cardinality(chars \cap 192..255) > Cardinality(chars) \div 3

Measure(wides) ==
    LET all   == FlattenSeq(wides)
        chars == ToSet(all)
    IN  [entropy |-> Cardinality(chars), count |-> Len(all),
         bad |-> CalcBadEncoding(chars)]

Wides(texts) == [i \in DOMAIN texts |-> FromUtf8(texts[i])]

\* The texts that count, in some order.
TextsOf(r) == <<r.artist, r.title>> \o r.songs

\* calc_entropy of a record that is a row of the database.
CalcEntropy(r) == Measure(Wides(TextsOf(r)))

-----------------------------------------------------------------------------
(* Normalized texts: without accents, case, blanks and punctuation.        *)

\* substmap: letters of ISO 8859-1 without their accents; the multiplication
\* and division signs, thorn and sharp s are blanks.
Subst(ch) ==
    LET base == IF ch < 224 THEN ch - 192 ELSE ch - 224
        plain == CASE base < 7 -> 65 [] base = 7 -> 67 [] base \in 8..11 -> 69
                   [] base \in 12..15 -> 73 [] base = 16 -> 68 [] base = 17 -> 78
                   [] base \in 18..22 \cup {24} -> 79 [] base \in 25..28 -> 85
                   [] base = 29 -> 89 [] OTHER -> Blank
    IN  IF ch = 255 THEN 121
        ELSE IF plain = Blank \/ ch < 224 THEN plain ELSE plain + 32

Plain(ch) == IF ch \in 192..255 THEN Subst(ch) ELSE ch

\* (The fault knows the letters of ASCII only.)
LowerAscii(ch) == IF ch \in 65..90 THEN ch + 32 ELSE ch
Lower(ch) == IF ch \in Upper THEN LowerOf[ch] ELSE ch

\* A character that is left out, or the one that stays of it.
Normalized(ch) ==
    LET plain == Plain(ch)
        lower == Lower(plain)
    IN  IF ch < 48 \/ ch \in 58..64 \/ plain \in Ignored
              \/ lower \in 91..96 \cup 123..191
        THEN <<>> ELSE <<lower>>

NormalizedChars(w) == FlattenSeq([i \in DOMAIN w |-> Normalized(w[i])])
Normalize(s) == NormalizedChars(FromUtf8(s))

\* What calc_normalized_hash feeds, in this order and with nothing between.
NormalizedHash(r) ==
    LET texts == TextsOf(r)
    IN  FlattenSeq([i \in DOMAIN texts |-> Normalize(texts[i])])

\* equal_lowercase_strings.  (The fault forgets the songs.)
Lowered(w) == [i \in DOMAIN w |-> Lower(w[i])]
SameTitleLowercase(r, s) ==
    /\ Lowered(FromUtf8(r.artist)) = Lowered(FromUtf8(s.artist))
    /\ Lowered(FromUtf8(r.title)) = Lowered(FromUtf8(s.title))
EqualLowercase(r, s) ==
    /\ Len(r.songs) = Len(s.songs)
    /\ \A i \in DOMAIN TextsOf(r) :
            Lowered(FromUtf8(TextsOf(r)[i])) = Lowered(FromUtf8(TextsOf(s)[i]))

-----------------------------------------------------------------------------
(* Similarity (NGrams<3, false>).  The last characters go to the last      *)
(* three n-grams, which are longer for that, and a character is narrowed   *)
(* to a byte.                                                              *)

NumberOfGrams(s) == IF Len(s) < 3 THEN 0 ELSE Len(s) - 2

\* (The fault adds every character to all n-grams before it.)
GramsToTheEnd(s) ==
    [i \in 1..NumberOfGrams(s) |->
        [k \in 1..(Len(s) - i + 1) |-> s[i + k - 1] % 256]]

Grams(s) ==
    LET n == NumberOfGrams(s)
        last(i) == IF i >= n - 2 THEN Len(s) ELSE i + 2
    IN  [i \in 1..n |-> [k \in 1..(last(i) - i + 1) |-> s[i + k - 1] % 256]]

\* Percentage of the n-grams on the left that are found on the right, each of
\* them once.
Compare(left, right) ==
    LET mine == Grams(left)
        theirs == Grams(right)
        find(used, gram) ==
            LET free == { i \in DOMAIN mine \ used : mine[i] = gram }
            IN  IF free = {} THEN used ELSE used \cup {Min(free)}
        found[k \in 0..Len(theirs)] ==
            IF k = 0 THEN {} ELSE find(found[k - 1], theirs[k])
    IN  IF mine = <<>> THEN 0
        ELSE (Cardinality(found[Len(theirs)]) * 100) \div Len(mine)

CompareNormalized(left, right) == Compare(Normalize(left), Normalize(right))

SameTitle(r, s) ==
    \/ CompareNormalized(r.artist \o r.title, s.artist \o s.title) >= 25
    \/ CompareNormalized(r.artist, s.artist) >= 25
    \/ CompareNormalized(r.title, s.title) >= 25

-----------------------------------------------------------------------------
(* The parser.                                                             *)

VARIABLES
    file, pos,  \* the bytes, and the one that is next
    line,       \* the state of the line, its key and its value
    rec,        \* the texts
    taken,      \* the texts before cleanup()
    measured,   \* entropy, number of characters and encoding
    phase,      \* "reading", "checking" a value's encoding, "done"
    earlier     \* the record of the file before: none or one

vars == <<file, pos, line, rec, taken, measured, phase, earlier, decoder>>

EmptyLine == [state |-> "Start", key |-> <<>>, value |-> <<>>]
EmptyRecord == [artist |-> <<>>, title |-> <<>>, genre |-> <<>>,
                songs |-> <<>>, base |-> 0]

Init ==
    /\ file \in Files /\ pos = 1
    /\ line = EmptyLine
    /\ rec = EmptyRecord /\ taken = EmptyRecord
    /\ measured = Measure(<<>>)
    /\ phase = "reading"
    /\ earlier = <<>>
    /\ DecoderInit

AtNewline == file[pos] \in Newlines

\* The next byte goes to a line in the state.
Feed(state) ==
    /\ phase = "reading"
    /\ pos <= Len(file) /\ ~AtNewline
    /\ line.state = state
    /\ pos' = pos + 1
    /\ UNCHANGED <<file, rec, taken, measured, phase, earlier, decoder>>

Ch == file[pos]

BeginLine ==
    /\ Feed("Start")
    /\ line' = IF Ch = Hash THEN [line EXCEPT !.state = "Comment"]
               ELSE IF Ch \in Spaces THEN line
               ELSE [line EXCEPT !.state = "Key", !.key = <<Ch>>]

ReadKey ==
    /\ Feed("Key")
    /\ line' = IF Ch \in Spaces THEN [line EXCEPT !.state = "Limiter"]
               ELSE IF Ch = Equals THEN [line EXCEPT !.state = "Start2"]
               ELSE [line EXCEPT !.key = Append(@, Ch)]

ReadLimiter ==
    /\ Feed("Limiter")
    /\ line' = IF Ch \in Spaces THEN line
               ELSE [line EXCEPT !.state = IF Ch = Equals THEN "Start2" ELSE "Skip"]

BeginValue ==
    /\ Feed("Start2")
    /\ line' = IF Ch \in Spaces THEN line
               ELSE [line EXCEPT !.state = "Value", !.value = <<Ch>>]

\* lastch is the last byte of the value: one that is left out is a blank too.
ReadValue ==
    /\ Feed("Value")
    /\ line' = IF Ch = Blank /\ Last(line.value) = Blank THEN line
               ELSE [line EXCEPT !.value = Append(@, Ch)]

ReadRest ==
    /\ Feed("Skip") \/ Feed("Comment")
    /\ UNCHANGED line

\* (The fault drops a value of the greatest length.)
FitsLess(key, value) ==
    /\ key # <<>> /\ Len(key) <= MaxKeyLen
    /\ value # <<>> /\ Len(value) < MaxValueLen
Fits(key, value) ==
    /\ key # <<>> /\ Len(key) <= MaxKeyLen
    /\ value # <<>> /\ Len(value) <= MaxValueLen

\* The last line may have no newline.  A line in state Skip has no value.
EndLine ==
    /\ phase = "reading"
    /\ IF pos <= Len(file) THEN AtNewline ELSE line.state = "Value"
    /\ pos' = pos + 1
    /\ LET value == TrimRight(line.value)
       IN  IF line.state = "Value" /\ Fits(line.key, value)
           THEN phase' = "checking" /\ line' = [line EXCEPT !.value = value]
           ELSE line' = EmptyLine /\ UNCHANGED phase
    /\ UNCHANGED <<file, rec, taken, measured, earlier, decoder>>

\* valid_utf8.
CheckByte ==
    /\ phase = "checking"
    /\ Len(narrow) < Len(line.value)
    /\ Decode(line.value[Len(narrow) + 1])
    /\ UNCHANGED <<file, pos, line, rec, taken, measured, phase, earlier>>

FindSlash(s) ==
    { p \in 1..(Len(s) - 2) : SubSeq(s, p, p + 2) = Slash }

\* Artist and title are cut at the first slash, and the same without one.
TakeTitle(r, value) ==
    IF FindSlash(value) = {}
    THEN [r EXCEPT !.artist = value, !.title = value]
    ELSE LET p == CHOOSE p \in FindSlash(value) : \A q \in FindSlash(value) : p <= q
         IN  [r EXCEPT !.artist = SubSeq(value, 1, p - 1),
                       !.title = SubSeq(value, p + 3, Len(value))]

\* strtoul: the number of the digits up to another character.  (It takes a
\* sign, too.)
SongNumber(key) ==
    LET first == Len(SongKey) + 1
        ends == { n \in Len(SongKey)..Len(key) :
                    \A k \in first..n : key[k] \in Zero..(Zero + 9) }
    IN  ParseNonnegativeInt(SubSeq(key, first, Max(ends)))

TakeSong(r, number, value) ==
    LET base == IF r.songs = <<>> THEN number ELSE r.base
    IN  [r EXCEPT !.base = base,
                  !.songs = IF Len(@) = number - base THEN Append(@, value) ELSE @]

TakeValue ==
    /\ phase = "checking"
    /\ ~ok \/ Len(narrow) = Len(line.value)
    /\ LET value == Encoded(line.value, ok)
       IN  rec' = CASE line.key = TitleKey -> TakeTitle(rec, value)
                    [] line.key = GenreKey -> [rec EXCEPT !.genre = value]
                    [] IsPrefix(SongKey, line.key) ->
                            TakeSong(rec, SongNumber(line.key), value)
                    [] OTHER -> rec
    /\ line' = EmptyLine
    /\ phase' = "reading"
    /\ narrow' = <<>> /\ wide' = <<>> /\ again' = <<>>
    /\ remaining' = 0 /\ codepoint' = 0 /\ lowerLimit' = 0 /\ ok' = TRUE
    /\ UNCHANGED <<file, pos, taken, measured, earlier>>

\* The artist in front of a song is taken away, once.
WithoutArtist(song, artist) ==
    IF IsPrefix(artist \o Slash, song)
    THEN SubSeq(song, Len(artist) + 4, Len(song)) ELSE song

Clean(text) == ConvertToTitlecase(TrimAll(text))

Cleanup(r) ==
    [r EXCEPT !.artist = Clean(@), !.title = Clean(@), !.genre = Clean(@),
              !.songs = [i \in DOMAIN @ |-> Clean(WithoutArtist(@[i], r.artist))]]

\* Entropy is that of the wide strings, with the case they get.  (The fault
\* adds them before.)
EntropyBeforeCase(r) ==
    LET song(i) == WithoutArtist(r.songs[i], r.artist)
        texts == <<r.artist, r.title>> \o [i \in DOMAIN r.songs |-> song(i)]
    IN  Measure([i \in DOMAIN texts |-> FromUtf8(TrimAll(texts[i]))])
CleanupEntropy(r) ==
    LET song(i) == WithoutArtist(r.songs[i], r.artist)
        texts == <<r.artist, r.title>> \o [i \in DOMAIN r.songs |-> song(i)]
    IN  Measure([i \in DOMAIN texts |-> Titled(FromUtf8(TrimAll(texts[i])))])

Finish ==
    /\ phase = "reading"
    /\ pos > Len(file) /\ line.state # "Value"
    /\ taken' = rec
    /\ rec' = Cleanup(rec)
    /\ measured' = CleanupEntropy(rec)
    /\ phase' = "done"
    /\ UNCHANGED <<file, pos, line, earlier, decoder>>

\* Of verify_record and what follows, the part that is about texts.
Valid == rec.artist # <<>> /\ rec.title # <<>> /\ ~measured.bad

-----------------------------------------------------------------------------
(* cddb_file(): the lines that are texts.                                  *)

TextLine(key, value) == key \o <<Equals>> \o value \o <<LineFeed>>

\* "DTITLE={0} / {1}\n", "DGENRE={0}\n", "TTITLE{0}={1}\n"
FirstField == <<OpenBrace, 48, CloseBrace>>
SecondField == <<OpenBrace, 49, CloseBrace>>
TitleLine == TextLine(TitleKey, FirstField \o Slash \o SecondField)
GenreLine == TextLine(GenreKey, FirstField)
SongLine == TextLine(SongKey \o FirstField, SecondField)

CddbFile(r) ==
    <<Hash, LineFeed>>
      \o Format(TitleLine, <<TextArg(r.artist), TextArg(r.title)>>)
      \o Format(GenreLine, <<TextArg(r.genre)>>)
      \o FlattenSeq([i \in DOMAIN r.songs |->
                        Format(SongLine, <<NumberArg(i - 1), TextArg(r.songs[i])>>)])

\* Another file is read: the one that is written of this record, or another
\* version of the disc.
NextFile ==
    /\ phase = "done" /\ Valid /\ earlier = <<>>
    /\ earlier' = <<[texts |-> rec, measured |-> measured]>>
    /\ file' \in {CddbFile(rec)} \cup (IF file \in Versions THEN Versions ELSE {})
    /\ pos' = 1
    /\ line' = EmptyLine
    /\ rec' = EmptyRecord /\ taken' = EmptyRecord
    /\ measured' = Measure(<<>>)
    /\ phase' = "reading"
    /\ UNCHANGED decoder

Next ==
    \/ BeginLine \/ ReadKey \/ ReadLimiter \/ BeginValue \/ ReadValue
    \/ ReadRest \/ EndLine \/ CheckByte \/ TakeValue \/ Finish \/ NextFile

Spec == Init /\ [][Next]_vars

-----------------------------------------------------------------------------
(* Properties.                                                             *)

IsText(s) == s \in Seq(Bytes \ Newlines)

\* No text has a newline in it, so that each is one line when it is written,
\* and the songs are counted from their base.
TextsTypeOK ==
    /\ pos \in 1..(Len(file) + 2)
    /\ line.state \in {"Start", "Comment", "Key", "Limiter", "Start2", "Value", "Skip"}
    /\ IsText(line.key) /\ IsText(line.value)
    /\ phase \in {"reading", "checking", "done"}
    /\ IsText(rec.genre)
    /\ \A i \in DOMAIN TextsOf(rec) : IsText(TextsOf(rec)[i])

AllChars(r) ==
    UNION { ToSet(FromUtf8(TextsOf(r)[i])) : i \in DOMAIN TextsOf(r) }

\* The text is UTF-8 to its end.
IsUtf8(s) == WideToUtf8(FromUtf8(s)) = s

\* Characters that Unicode does not have are written as '?'; and accents are
\* taken off before the case is lowered, so that upper case letters beyond
\* ISO 8859-1 with a lower case in it, like U+0178, keep theirs.
Normal(ch) ==
    /\ IsUnicode(ch)
    /\ ch \in Upper /\ ch > 255 => LowerOf[ch] \notin 192..255

\* cleanup() changes nothing that the importer looks at when it searches for
\* the same disc: the normalized texts, with other blanks, in other case, are
\* what the file has (diskrecord.cpp:318, cddbupdater.cpp:326).
CleanupKeepsHash ==
    phase = "done" /\ (\A ch \in AllChars(taken) : Normal(ch))
        => NormalizedHash(rec) =
            NormalizedHash([taken EXCEPT !.songs =
                [i \in DOMAIN @ |-> WithoutArtist(@[i], taken.artist)]])

\* Two versions that the importer would call the same but for letter case
\* (cddbupdater.cpp:447) meet by their normalized texts, where it searches
\* first.
CaseVersionsMeet ==
    phase = "done" /\ earlier # <<>> =>
        LET old == earlier[1].texts
        IN  EqualLowercase(rec, old)
              /\ (\A ch \in AllChars(rec) \cup AllChars(old) : Normal(ch))
            => NormalizedHash(rec) = NormalizedHash(old)

\* The importer compares the entropy of a file with that of a row
\* (cddbupdater.cpp:427): for one and the same record they are the same,
\* although they are counted in two places.
RowHasEntropyOfFile ==
    phase = "done" /\ (\A ch \in AllChars(taken) : IsUnicode(ch))
        => CalcEntropy(rec) = measured

\* The parser cuts artist and title where cddb_file() has put them together,
\* the line is not too long, nothing is left for a second cleanup() to take
\* away, as where title case cut off half a character behind a blank, and the
\* artist does not end in one; a key has room for the numbers of the songs.
Readable(r) ==
    /\ Len(r.artist \o Slash \o r.title) <= MaxValueLen
    /\ ~IsSuffix(<<Blank, 47>>, r.artist) /\ IsUtf8(r.artist)
    /\ \A i \in DOMAIN TextsOf(r) : TrimAll(TextsOf(r)[i]) = TextsOf(r)[i]
    /\ \A i \in DOMAIN r.songs :
        /\ Len(SongKey) + CountDigits(i - 1) <= MaxKeyLen
        /\ Len(r.songs[i]) \in 1..MaxValueLen /\ Head(r.songs[i]) \notin Spaces
        /\ ~IsPrefix(r.artist \o Slash, r.songs[i])

\* What is served and read again is the record that was imported, to the last
\* character, and weighs what its row weighs when it meets it
\* (diskrecord.cpp:542).
ReadBack ==
    phase = "done" /\ earlier # <<>> =>
        LET old == earlier[1].texts
        IN  (file = CddbFile(old) /\ Readable(old)) =>
                /\ TextsOf(rec) = TextsOf(old)
                /\ measured = CalcEntropy(old)

\* What is stored can be written as lines, and is read back from them.
TextsReadBack == TextsTypeOK /\ ReadBack

OneTypo(s, t) ==
    /\ Len(s) = Len(t)
    /\ Cardinality({ i \in DOMAIN s : s[i] # t[i] }) <= 1

\* With one letter wrong among six in artist or title a version still passes
\* for the same disc (cddbupdater.cpp:394), and no title is more like another
\* one than that one itself, whichever is the longer one.
SimilarTitles ==
    phase = "done" /\ earlier # <<>> =>
        LET old == earlier[1].texts
            similar(s, t) == CompareNormalized(s, t)
        IN  /\ \A s, t \in {rec.title, old.title, rec.artist} : similar(s, t) <= 100
            /\ \/ Len(Normalize(rec.title)) >= 6
                    /\ OneTypo(Normalize(rec.title), Normalize(old.title))
               \/ Len(Normalize(rec.artist)) >= 6
                    /\ OneTypo(Normalize(rec.artist), Normalize(old.artist))
               => SameTitle(old, rec)
=============================================================================
