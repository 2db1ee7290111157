----------------------------- MODULE DiskRecord -----------------------------
(***************************************************************************)
(* The record of a disc (src/diskrecord.cpp) and the files it is read from *)
(* and written to: the parser goes through the lines of a file in any      *)
(* order, and cddb_file() writes what the database has of a valid record.  *)
(* A text is a value here that is already in the form cleanup() gives it,  *)
(* and short enough for a line.                                            *)
(***************************************************************************)
EXTENDS CDDBDefines

CONSTANTS
    Artists, Titles, Songs,
    Files,              \* files that may be in an archive
    BadEncoding(_, _)   \* of artist and songs

\* A song may begin with "Artist / ", more than once.
SongTexts == [by : Seq(Artists), text : Songs]

(* The lines of a file.  Comments: "number" is one that is not one of the  *)
(* others and begins with a number, or with anything else, which reads as  *)
(* 0.  Keys: "genre" and "other" stand for all values that are not looked  *)
(* at here, and for texts that are too long; "nothing" is a line the       *)
(* parser takes no notice of, a key without a value or a long comment.     *)
Comments ==
    [kind : {"offsets", "blank"}]
      \cup [kind : {"length", "revision", "number"}, number : 0..(W - 1)]

KeyValues ==
    [kind : {"genre", "other"}]
      \cup [kind : {"year"}, good : BOOLEAN]
      \cup [kind : {"title"}, artist : Artists, title : Titles]
      \cup [kind : {"song"}, number : 0..(W - 1), song : SongTexts]

Lines == Comments \cup KeyValues \cup [kind : {"nothing"}]

ASSUME FilesAssumption == Files \subseteq Seq(Lines)

-----------------------------------------------------------------------------
NoText == "none"        \* an empty string

Records ==
    [ artist     : Artists \cup {NoText},
      title      : Titles \cup {NoText},
      songs      : Seq(SongTexts),
      listBase   : 0..(W - 1),
      frames     : Seq(0..(W - 1)),     \* starts, after the last line lengths
      seconds    : 0..(W - 1),          \* disc length, later the first start
      revision   : 0..(W - 1),
      readTracks : BOOLEAN ]

EmptyRecord ==
    [ artist |-> NoText, title |-> NoText, songs |-> <<>>, listBase |-> 0,
      frames |-> <<>>, seconds |-> 0, revision |-> 0, readTracks |-> FALSE ]

VARIABLES
    file, pos,      \* the lines, and the one that is next
    rec,            \* the members of the DiskRecord
    valid,          \* m_valid
    phase,          \* "reading", "done", "thrown"
    written         \* the records whose file is read again: none or one

vars == <<file, pos, rec, valid, phase, written>>

Init ==
    /\ file \in Files
    /\ pos = 1
    /\ rec = EmptyRecord
    /\ valid = FALSE
    /\ phase = "reading"
    /\ written = <<>>

Line == file[pos]

Read(kinds) ==
    /\ phase = "reading"
    /\ pos <= Len(file)
    /\ Line.kind \in kinds
    /\ pos' = pos + 1

-----------------------------------------------------------------------------
(* The parser.                                                             *)

\* A comment, outside of the list of start frames.
AddComment ==
    /\ Read({"offsets", "blank", "length", "revision", "number"})
    /\ ~rec.readTracks
    /\ rec' = [rec EXCEPT
            !.readTracks = (Line.kind = "offsets"),
            !.seconds = IF Line.kind = "length" THEN Line.number ELSE @,
            !.revision = IF Line.kind = "revision" THEN Line.number % 65536 ELSE @]
    /\ UNCHANGED <<file, valid, phase, written>>

\* A comment in the list: a start frame, or the end of the list.  (The fault
\* goes on after it.)
AddFrameForever ==
    /\ Read({"offsets", "blank", "length", "revision", "number"})
    /\ rec.readTracks
    /\ rec' = [rec EXCEPT
            !.seconds = IF Line.kind = "length" THEN Line.number ELSE @,
            !.frames = IF Line.kind = "number" /\ Line.number # 0
                       THEN Append(@, Line.number) ELSE @]
    /\ UNCHANGED <<file, valid, phase, written>>

AddFrame ==
    /\ Read({"offsets", "blank", "length", "revision", "number"})
    /\ rec.readTracks
    /\ LET isFrame == Line.kind = "number" /\ Line.number # 0
       IN  rec' = [rec EXCEPT
            !.readTracks = isFrame,
            !.seconds = IF Line.kind = "length" THEN Line.number ELSE @,
            !.frames = IF isFrame THEN Append(@, Line.number) ELSE @]
    /\ UNCHANGED <<file, valid, phase, written>>

\* The base of the list of songs is the number of the first one; a song that
\* is not the next one is dropped.  (The fault takes it.)
TakeAnySong(r, line) ==
    LET base == IF r.songs = <<>> THEN line.number ELSE r.listBase
    IN  [r EXCEPT !.readTracks = FALSE, !.listBase = base,
                  !.songs = Append(@, line.song)]

TakeSong(r, line) ==
    LET base == IF r.songs = <<>> THEN line.number ELSE r.listBase
    IN  [r EXCEPT !.readTracks = FALSE, !.listBase = base,
                  !.songs = IF Len(@) = line.number - base
                            THEN Append(@, line.song) ELSE @]

\* A key with a value ends the list of start frames in any case.
AddKeyValue ==
    /\ Read({"title", "song", "genre", "year", "other"})
    /\ rec' = CASE Line.kind = "song"  -> TakeSong(rec, Line)
                [] Line.kind = "title" ->
                    [rec EXCEPT !.readTracks = FALSE,
                        !.artist = Line.artist, !.title = Line.title]
                [] OTHER -> [rec EXCEPT !.readTracks = FALSE]
    /\ phase' = IF Line.kind = "year" /\ ~Line.good THEN "thrown" ELSE phase
    /\ UNCHANGED <<file, valid, written>>

Ignore ==
    /\ Read({"nothing"})
    /\ UNCHANGED <<file, rec, valid, phase, written>>

\* cleanup(): the artist in front of a song is taken away, once.
CleanSong(song, artist) ==
    IF song.by # <<>> /\ Head(song.by) = artist
    THEN [song EXCEPT !.by = Tail(@)] ELSE song

Cleanup(r) ==
    [i \in DOMAIN r.songs |-> CleanSong(r.songs[i], r.artist)]

VerifyRecord(r) ==
    /\ r.artist # NoText
    /\ r.title # NoText
    /\ r.frames = <<>> \/ Len(r.songs) = Len(r.frames)
    /\ r.seconds # 0

\* After the last line.  (The fault keeps the disc length in seconds if there
\* are no frames.)
FinishWithSeconds ==
    /\ phase = "reading" /\ pos > Len(file)
    /\ valid' = (VerifyRecord(rec) /\ ~BadEncoding(rec.artist, Cleanup(rec)))
    /\ rec' = [rec EXCEPT !.songs = Cleanup(rec),
                          !.frames = LengthsOf(rec.seconds, @),
                          !.seconds = IF rec.frames = <<>> THEN @ ELSE rec.frames[1]]
    /\ phase' = "done"
    /\ UNCHANGED <<file, pos, written>>

Finish ==
    /\ phase = "reading" /\ pos > Len(file)
    /\ valid' = (VerifyRecord(rec) /\ ~BadEncoding(rec.artist, Cleanup(rec)))
    /\ rec' = [rec EXCEPT !.songs = Cleanup(rec),
                          !.frames = LengthsOf(rec.seconds, @),
                          !.seconds = StartFrame(rec.frames)]
    /\ phase' = "done"
    /\ UNCHANGED <<file, pos, written>>

-----------------------------------------------------------------------------
(* What a client gets: the record goes through the database, where each of *)
(* its songs is a row, and cddb_file() makes lines of it.                  *)

\* A song of a record without frames has 0 in its row.
FramesOfRows(r) ==
    IF r.frames = <<>> THEN [i \in DOMAIN r.songs |-> 0] ELSE r.frames

Comment(kind) == [kind |-> kind]
Number(kind, n) == [kind |-> kind, number |-> n]
TitleLine(artist, title) == [kind |-> "title", artist |-> artist, title |-> title]
YearLine == [kind |-> "year", good |-> TRUE]
SongLine(n, song) == [kind |-> "song", number |-> n, song |-> song]

\* The record that is built of the rows.
FromDatabase(r) ==
    [EmptyRecord EXCEPT !.artist = r.artist, !.title = r.title, !.songs = r.songs,
                        !.frames = FramesOfRows(r), !.seconds = r.seconds,
                        !.revision = r.revision]

CddbFile(r) ==
    LET starts == StartsOf(r.seconds, r.frames)
    IN  << Number("number", 0), Comment("blank"), Comment("offsets") >>
         \o [i \in DOMAIN starts |-> Number("number", starts[i])]
         \o << Comment("blank"),
               Number("length", DiscLengthOf(r.seconds, r.frames)),
               Comment("blank"), Number("revision", r.revision),
               Number("number", 0), Comment("blank"), Comment("other"),
               TitleLine(r.artist, r.title), YearLine, Comment("genre") >>
         \o [i \in DOMAIN r.songs |-> SongLine(i - 1, r.songs[i])]
         \o << Comment("nothing") >>

\* A file is written of a valid record, and read again (once: bound of the
\* model).
WriteFile ==
    /\ phase = "done" /\ valid
    /\ written = <<>>
    /\ written' = <<rec>>
    /\ file' = CddbFile(FromDatabase(rec))
    /\ pos' = 1
    /\ rec' = EmptyRecord
    /\ valid' = FALSE
    /\ phase' = "reading"

-----------------------------------------------------------------------------
(* The disc is found by its digests.                                       *)

\* DISCID and FUZZYID, written by the importer.
Discids(r, bigEndian) ==
    << PrivateDiscid(r.seconds, r.frames, bigEndian),
       PrivateFuzzyDiscid(r.frames, bigEndian) >>

\* Those the server looks for, when a client sends start frames and the disc
\* length.  (The fault feeds the length to the digest.)
QueryDiscidsOfLength(starts, discLength, bigEndian) ==
    << PrivateDiscid(discLength, LengthsOf(discLength, starts), bigEndian),
       PrivateFuzzyDiscid(LengthsOf(discLength, starts), bigEndian) >>

QueryDiscids(starts, discLength, bigEndian) ==
    << PrivateDiscid(StartFrame(starts), LengthsOf(discLength, starts), bigEndian),
       PrivateFuzzyDiscid(LengthsOf(discLength, starts), bigEndian) >>

Next ==
    \/ AddComment \/ AddFrame \/ AddKeyValue \/ Ignore
    \/ Finish \/ WriteFile

Spec == Init /\ [][Next]_vars

-----------------------------------------------------------------------------
(* Properties.                                                             *)

TypeOK ==
    /\ file \in Seq(Lines)
    /\ pos \in 1..(Len(file) + 1)
    /\ rec \in Records
    /\ valid \in BOOLEAN
    /\ phase \in {"reading", "done", "thrown"}
    /\ written \in Seq(Records)

\* The importer takes for granted that a valid record has as many lengths as
\* songs, or none at all and then 0 for its start frame, which goes into both
\* digests (CDDBSQLUpdater, RecordsAssumption; diskrecord.cpp:171).
ValidRecord ==
    phase = "done" /\ valid =>
        /\ rec.frames = <<>> => rec.seconds = 0
        /\ rec.frames # <<>> =>
            /\ Len(rec.frames) = Len(rec.songs)
            /\ rec.seconds # 0

Frames(l) == l.kind = "number" /\ l.number # 0

\* A line of the list: nothing but start frames, and lines without notice,
\* is between it and the line that opens the list.
ListIsOpen(lines, j) ==
    \E k \in 1..(j - 1) :
        /\ lines[k].kind = "offsets"
        /\ \A l \in (k + 1)..(j - 1) : Frames(lines[l]) \/ lines[l].kind = "nothing"

InList(lines, j) == Frames(lines[j]) /\ ListIsOpen(lines, j)

\* The numbers of the list, among the first lines.
ListedUpTo(lines) ==
    LET f[j \in 0..Len(lines)] ==
            IF j = 0 THEN <<>>
            ELSE IF InList(lines, j) THEN Append(f[j - 1], lines[j].number)
            ELSE f[j - 1]
    IN  f

Passed == 1..(pos - 1)

OneList ==
    \A j, k \in DOMAIN file :
        file[j].kind = "offsets" /\ file[k].kind = "offsets" => j = k

Listed == ListedUpTo(file)[pos - 1]

\* The numbers in other comments are not taken for start frames, whatever the
\* order of the lines (diskrecord.cpp:191), and none is lost: the first disc
\* that is served with another number of tracks than it has is not found.
FramesAreListed == phase = "reading" /\ OneList => rec.frames = Listed

\* However many lines are missing, doubled or in another order, song i is the
\* one with the i-th number: a lost line never makes a song the one of
\* another track (diskrecord.cpp:256).
SongsInPlace ==
    phase = "reading" =>
        \A i \in DOMAIN rec.songs :
            \E j \in Passed :
                /\ file[j].kind = "song"
                /\ file[j].number = rec.listBase + i - 1
                /\ file[j].song = rec.songs[i]

Lengths == {j \in DOMAIN file : file[j].kind = "length"}

\* A client that has the disc a file describes asks for the digests that the
\* importer has computed from the file, although m_seconds is the length of
\* the disc first and its first start frame then (diskrecord.cpp:150), on
\* machines of the same byte order.
DigestsAgree ==
    phase = "done" /\ valid /\ OneList =>
        \A j \in Lengths, big \in BOOLEAN :
            (\A k \in Lengths : k <= j) =>
                Discids(rec, big) = QueryDiscids(Listed, file[j].number, big)

\* "The hash values that CppCDDB uses for the database search are big endian
\* on all platforms" (README.md:15): a database may be copied to a machine of
\* another byte order.
PortableDigests ==
    phase = "done" /\ valid =>
        \A importer, server \in BOOLEAN : Discids(rec, importer) = Discids(rec, server)

\* What a client reads is the disc that was imported: the same texts, except
\* that one more artist may be taken off a song, the same revision, the same
\* start frames and all lengths but the last one, because the disc length that
\* is written is shorter by the start of the first track, twice
\* (cddbdefines.hpp:98).
FileReadsBack ==
    phase = "done" /\ written # <<>> =>
        LET r == written[1]
        IN  /\ rec.artist = r.artist /\ rec.title = r.title
            /\ rec.songs = Cleanup(r)
            /\ rec.revision = r.revision
            /\ rec.seconds = r.seconds
            /\ Len(rec.frames) = Len(r.frames)
            /\ \A i \in 1..(Len(r.frames) - 1) : rec.frames[i] = r.frames[i]
=============================================================================
