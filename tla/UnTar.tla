-------------------------------- MODULE UnTar --------------------------------
(***************************************************************************)
(* The reader of the archive (src/untar.cpp): entry() reads headers until  *)
(* it finds a file, and the file with it.  Whoever writes the archive puts *)
(* every member into whole blocks of 512 bytes: a header, and then its     *)
(* data with some padding.  The reader keeps no list of where members      *)
(* start: it is right as long as it stays in step.                         *)
(*                                                                         *)
(* An archive may be compressed (src/unbzip2.cpp).  Parallel compressors   *)
(* write more than one stream, and the reader knows only the first one.    *)
(***************************************************************************)
EXTENDS Integers, Sequences

CONSTANT Archives   \* sequences of members

HeaderLen == 512

\* What tar writes.  "longname" is the type 'L' of GNU tar, whose data is the
\* name of the member that follows; "other" stands for all types the reader
\* does not know, some of which have data as well (the headers of pax).
Types == {"file", "directory", "link", "fifo", "longname", "other"}

Members ==
    [ type  : Types,
      size  : Nat,          \* of the data
      fork  : BOOLEAN,      \* the name begins with "./._"
      zeros : BOOLEAN ]     \* the data is nothing but zeros

\* Only these types have data, and names and attributes are ASCII
\* (the sum of a header is over signed chars); a long name has characters.
ASSUME ArchivesAssumption ==
    /\ Archives \subseteq Seq(Members)
    /\ \A a \in Archives : \A i \in DOMAIN a :
        /\ a[i].type \notin {"file", "longname", "other"} => a[i].size = 0
        /\ a[i].type = "longname" => a[i].size > 0
        /\ a[i].zeros => a[i].type \in {"file", "other"}

\* The bytes a member takes up in the archive.
Span(m) == HeaderLen * (1 + (m.size + HeaderLen - 1) \div HeaderLen)

VARIABLES
    tape,       \* the archive
    bunzip,     \* m_bunzip: it is compressed
    stream,     \* how many members the first stream of bzip2 has, the end of
                \* the archive among them
    next, at,   \* the position in it: byte "at" of member "next"
    entrytype,  \* m_entrytype
    keep,       \* m_keep_members_once
    phase,      \* "reading", "end", "bad" after a wrong checksum, "short"
                \* after a read that returned less than was asked for
    delivered   \* the members whose data entry() returned

vars == <<tape, bunzip, stream, next, at, entrytype, keep, phase, delivered>>

Init ==
    /\ tape \in Archives
    /\ bunzip \in BOOLEAN
    /\ stream \in 0..(Len(tape) + 1)
    /\ ~bunzip => stream = Len(tape) + 1
    /\ next = 1
    /\ at = 0
    /\ entrytype = "unknown"
    /\ keep = FALSE
    /\ phase = "reading"
    /\ delivered = {}

-----------------------------------------------------------------------------
(* The reader.                                                             *)

\* There is something left to read.
Reading == phase = "reading" /\ next <= stream

\* The read moves on by len bytes, to the next member or into its middle.
\* (Bound of the model: how far into it does not matter.)
Advance(len) ==
    LET to == at + len
    IN  CASE to < Span(tape[next]) -> next' = next /\ at' = to
          [] to = Span(tape[next]) -> next' = next + 1 /\ at' = 0
          [] OTHER                 -> next' = next + 1 /\ at' = 1

\* A block of zeros: the end of the archive, or what looks like it.
AtZeros == next \in DOMAIN tape => at # 0 /\ tape[next].zeros

AtHeader == at = 0 /\ next <= Len(tape)

\* The type of the header at this position, as analyze() sees it; reset()
\* has forgotten the last one unless it was to be kept.
NewType ==
    CASE tape[next].type = "file" /\ keep /\ entrytype = "longname1" -> "longname2"
      [] tape[next].type = "longname" -> "longname1"
      [] tape[next].type = "other" -> "unknown"
      [] OTHER -> tape[next].type

\* The bytes up to the next block.  (The fault always finds some.)
PaddingOfFullBlock(size) == HeaderLen - (size % HeaderLen)
Padding(size) == (HeaderLen - (size % HeaderLen)) % HeaderLen

\* A header of a file: read the data and the padding; a file is returned
\* unless it is a resource fork.  (The fault returns these, too.)
ReadFileOrFork ==
    /\ Reading
    /\ AtHeader
    /\ NewType = "file"
    /\ Advance(HeaderLen + tape[next].size + Padding(tape[next].size))
    /\ entrytype' = "file"
    /\ keep' = FALSE
    /\ delivered' = delivered \cup {next}
    /\ UNCHANGED <<tape, bunzip, stream, phase>>

ReadFile ==
    /\ Reading
    /\ AtHeader
    /\ NewType = "file"
    /\ Advance(HeaderLen + tape[next].size + Padding(tape[next].size))
    /\ entrytype' = "file"
    /\ keep' = FALSE
    /\ delivered' = IF tape[next].fork THEN delivered ELSE delivered \cup {next}
    /\ UNCHANGED <<tape, bunzip, stream, phase>>

\* Any other header: go on with the next block.
SkipEntry ==
    /\ Reading
    /\ AtHeader
    /\ NewType # "file"
    /\ Advance(HeaderLen)
    /\ entrytype' = NewType
    /\ keep' = (NewType \in {"longname1", "longname2"})
    /\ UNCHANGED <<tape, bunzip, stream, phase, delivered>>

\* How reading ends.
Stop(how) ==
    /\ phase = "reading"
    /\ phase' = how
    /\ UNCHANGED <<tape, bunzip, stream, next, at, entrytype, keep, delivered>>

EndHeader == Reading /\ AtZeros /\ Stop("end")

\* Anything else than a header, with a sum that is none.
BadHeader == Reading /\ ~AtZeros /\ ~AtHeader /\ Stop("bad")

\* read() asks once: a pipe may have less than that by now, and a file may
\* be cut off.  (The fault takes that for the end of the archive.)
ShortReadIsEnd == Stop("end")
ShortRead == Stop("short")

\* A file that cannot be opened, or does not begin like one of bzip2: nothing
\* was read.
CannotOpen == next = 1 /\ at = 0 /\ Stop("short")

\* The end of the first stream has been read; bzip2 refuses to read on, also
\* where another stream follows.  (The fault takes that for the end of the
\* archive.)
StreamEndIsEnd == bunzip /\ next > stream /\ Stop("end")
StreamEnd == bunzip /\ next > stream /\ Stop("short")

Entry == ReadFile \/ SkipEntry \/ EndHeader \/ BadHeader

Next == Entry \/ ShortRead \/ CannotOpen \/ StreamEnd

Spec == Init /\ [][Next]_vars

-----------------------------------------------------------------------------
(* Properties.                                                             *)

TypeOK ==
    /\ tape \in Archives
    /\ bunzip \in BOOLEAN
    /\ stream \in 0..(Len(tape) + 1)
    /\ next \in 1..(Len(tape) + 1)
    /\ at \in Nat
    /\ entrytype \in {"unknown", "file", "directory", "link", "fifo",
                      "longname1", "longname2"}
    /\ keep \in BOOLEAN
    /\ phase \in {"reading", "end", "bad", "short"}
    /\ delivered \subseteq DOMAIN tape

\* The files a reader of the archive should get.
Wanted == {i \in DOMAIN tape : tape[i].type = "file" /\ ~tape[i].fork}

\* At any time, however reading goes on or fails, the files returned are all
\* those the reader has passed, and only those: the import of what came
\* before a bad block is not wrong (untar.cpp:214).
PassedAreDelivered == delivered = {i \in Wanted : i < next}

\* The reader stands in data it did not skip, and they are zeros.
InZeroData ==
    /\ at # 0
    /\ next \in DOMAIN tape
    /\ tape[next].type = "other"
    /\ tape[next].zeros

\* An archive that was cut off, or goes on in another stream of bzip2
\* (unbzip2.cpp:64), or has data the reader does not skip is not taken for one
\* that ends here: import() commits after the last entry only.  The exception
\* are zero data of a type the reader does not know (untar.cpp:182).
EndIsComplete == phase = "end" => delivered = Wanted \/ InZeroData

\* A header has a wrong sum only where data follows a header that is not the
\* one of a file: with files, directories and links of any size the reader
\* stays in step.
WholeIsRead ==
    phase = "bad" =>
        \E i \in DOMAIN tape : tape[i].type \in {"longname", "other"} /\ tape[i].size > 0
=============================================================================
