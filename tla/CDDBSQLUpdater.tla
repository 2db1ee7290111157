--------------------------- MODULE CDDBSQLUpdater ---------------------------
(***************************************************************************)
(* The importer of the CDDB server (src/cddbupdater.cpp): it reads the     *)
(* disc records of a freedb archive one after the other, in one SQLite     *)
(* transaction, and turns them into the tables CD, TRACKS, DISCID,         *)
(* FUZZYID, NAMEHASH and GENRE, where every disc should be stored once.    *)
(*                                                                         *)
(* A step is a whole iteration of the import loop: one thread runs it, and *)
(* nobody sees the open transaction.  What other connections see is the    *)
(* database of the last COMMIT.                                            *)
(***************************************************************************)
EXTENDS Integers, Sequences, FiniteSets, FiniteSetsExt, Functions

CONSTANTS
    Records,        \* the disc records DiskRecord finds valid
    BadEntry,       \* an archive entry that is not a valid disc record
    Archives,       \* the archives that may be imported
    Names,          \* artist and title of a disc
    Songs,          \* song titles
    Genres,         \* genre strings
    Hashes,         \* values of the hash over the normalized text
    DiscIds,        \* values of the private disc id
    FuzzyIds,       \* values of the private fuzzy disc id
    MaxImports,     \* bound of the model: how many imports are started
    NormalizedHash(_),      \* of a text
    Entropy(_),             \* of a text: how many different characters
    CharCount(_),           \* of a text: how many characters
    EqualLowercase(_, _),   \* two texts that differ in case only
    SimilarTitle(_, _),     \* two names whose n-grams match well enough
    DiscId(_, _),           \* of a start frame and the track lengths
    FuzzyId(_, _)           \* of the same, at a lower resolution

-----------------------------------------------------------------------------
(* The disc records and the tables.                                        *)

DiskRecord == [ name      : Names,
                songs     : Seq(Songs),
                genre     : Genres,
                seconds   : Nat,        \* m_seconds: the start frame
                frames    : Seq(Nat),   \* the length of each track
                revision  : Nat,
                uppercase : Nat ]       \* m_uppercasecount

\* What the parser guarantees of a record it finds valid: as many frames as
\* songs, or no frames at all, and only then no start frame
\* (DiskRecord, ValidRecord).
ASSUME RecordsAssumption ==
    /\ Records \subseteq DiskRecord
    /\ \A r \in Records :
        /\ r.frames = <<>> => r.seconds = 0
        /\ r.frames # <<>> => Len(r.frames) = Len(r.songs) /\ r.seconds # 0
    /\ BadEntry \notin Records
    /\ Archives \subseteq Seq(Records \cup {BadEntry})

Text(r) == [name |-> r.name, songs |-> r.songs]

\* The digests are functions of the text and of the track lengths.
ASSUME DigestAssumption ==
    \A r \in Records :
        /\ NormalizedHash(Text(r)) \in Hashes
        /\ DiscId(r.seconds, r.frames) \in DiscIds
        /\ FuzzyId(r.seconds, r.frames) \in FuzzyIds

\* Characters are counted, and a letter is one in any case (Texts).
ASSUME CountAssumption ==
    /\ \A r \in Records : Entropy(Text(r)) \in Nat /\ CharCount(Text(r)) \in Nat
    /\ \A r, s \in Records :
        EqualLowercase(Text(r), Text(s)) => CharCount(Text(r)) = CharCount(Text(s))

ASSUME MaxImportsAssumption == MaxImports \in Nat

CdIds == Nat \ {0}

Rows == [ song : Songs, frames : Nat ]

Cds == [ name : Names, genre : Nat, seconds : Nat, revision : Nat, tracks : Nat ]

\* A table with a primary key: a function on the keys that are taken.
IsTable(t, Keys, Values) == DOMAIN t \subseteq Keys /\ t \in [DOMAIN t -> Values]

IsDatabase(db) ==
    /\ db = [ cd |-> db.cd, tracks |-> db.tracks, discid |-> db.discid,
              fuzzyid |-> db.fuzzyid, namehash |-> db.namehash,
              genre |-> db.genre, fuzzyindex |-> db.fuzzyindex ]
    /\ IsTable(db.cd, CdIds, Cds)
    /\ IsTable(db.tracks, CdIds, Seq(Rows))
    /\ db.discid \in [DiscIds -> Seq(CdIds)]     \* in the order of the rowids
    /\ db.fuzzyid \in [FuzzyIds -> Seq(CdIds)]
    /\ IsTable(db.namehash, Hashes, CdIds)
    /\ IsTable(db.genre, CdIds, Genres)
    /\ db.fuzzyindex \in BOOLEAN                 \* does fuzzyid_id_idx exist

EmptyTable == [k \in {} |-> 0]

EmptyDatabase ==
    [ cd |-> EmptyTable, tracks |-> EmptyTable,
      discid  |-> [d \in DiscIds |-> <<>>],
      fuzzyid |-> [f \in FuzzyIds |-> <<>>],
      namehash |-> EmptyTable, genre |-> EmptyTable, fuzzyindex |-> TRUE ]

Insert(table, key, row) ==
    [k \in DOMAIN table \cup {key} |-> IF k = key THEN row ELSE table[k]]

Delete(table, key) == Restrict(table, DOMAIN table \ {key})

\* SQLite's choice for an INTEGER PRIMARY KEY without AUTOINCREMENT: a
\* deleted last row gives its id to the next one.
NewRowid(table) == IF DOMAIN table = {} THEN 1 ELSE Max(DOMAIN table) + 1

Counters ==
    { "rct", "lct", "dcrcct", "frct", "realcddidcollct", "samecdframesct",
      "realdidcollct", "sameframesct", "entropy_gt", "entropy_eq",
      "entropy_lt", "duplicate", "duplicate_lower", "upper_count_gt",
      "upper_count_eqlt", "overall_count_gt", "overall_count_eqlt",
      "added", "updated" }

-----------------------------------------------------------------------------
VARIABLES
    committed,  \* the database as of the last COMMIT
    work,       \* the updater object: what its transaction sees of the
                \* database, its genre cache and its report
    phase,      \* "off", "importing", "damaged"
    archive,    \* the entries of the file being imported
    pos,        \* how many of them the loop has taken
    initial,    \* the import was started with -i
    published,  \* history: the records whose import was committed
    imports     \* how many imports were started (bound of the model)

vars == <<committed, work, phase, archive, pos, initial, published, imports>>

\* The one line of the report that is a sum.
UsedForUpdates(rep) ==
    rep["entropy_gt"] + rep["upper_count_gt"] + rep["overall_count_gt"]

Bump(rep, counters) ==
    [c \in Counters |-> IF c \in counters THEN rep[c] + 1 ELSE rep[c]]

\* The constructor loads the genre map from the table GENRE; import() clears
\* the report.  (The fault starts with an empty map.)
GenreMapNotLoaded(db) == [g \in {} |-> 0]

GenreMap(db) ==
    [g \in Range(db.genre) |->
        CHOOSE id \in DOMAIN db.genre : db.genre[id] = g]

Fresh(db) ==
    [ db |-> db, genres |-> GenreMap(db), rep |-> [c \in Counters |-> 0] ]

Init ==
    /\ committed = EmptyDatabase
    /\ work = Fresh(EmptyDatabase)
    /\ phase = "off"
    /\ archive = <<>>
    /\ pos = 0
    /\ initial = FALSE
    /\ published = {}
    /\ imports = 0

-----------------------------------------------------------------------------
(* The operations on the tables.                                           *)

\* The genre string as a number, entered into GENRE when it is new.
MapGenre(w, g) ==
    IF g \in DOMAIN w.genres
    THEN w
    ELSE LET id == NewRowid(w.db.genre)
         IN  [w EXCEPT !.db.genre = Insert(@, id, g),
                       !.genres   = Insert(@, g, id)]

CdRow(r, genre) ==
    [name |-> r.name, genre |-> genre, seconds |-> r.seconds,
     revision |-> r.revision, tracks |-> Len(r.songs)]

TrackRow(r, ct) ==
    [song |-> r.songs[ct], frames |-> IF r.frames = <<>> THEN 0 ELSE r.frames[ct]]

\* The rows of TRACKS of a record, and the lengths in them, which are 0 if
\* the record had none.
TrackRows(r) == [ct \in 1..Len(r.songs) |-> TrackRow(r, ct)]
StoredFrames(r) == [ct \in DOMAIN r.songs |-> TrackRow(r, ct).frames]

HashOf(r) == NormalizedHash(Text(r))

\* write_record(rec, false): the caller knows that the hash is not taken.
WriteRecord(w, r) ==
    LET m    == MapGenre(w, r.genre)
        cdid == NewRowid(m.db.cd)
    IN  [m EXCEPT
            !.db.cd       = Insert(@, cdid, CdRow(r, m.genres[r.genre])),
            !.db.namehash = Insert(@, HashOf(r), cdid),
            !.db.tracks   = Insert(@, cdid, TrackRows(r)),
            !.rep         = Bump(@, {"added"})]

\* The UPDATE of a track changes a row that exists, and adds none.  (The
\* fault leaves out the tracks.)
UpdateRecordCdOnly(w, cdid, r) ==
    LET m == MapGenre(w, r.genre)
    IN  [m EXCEPT !.db.cd[cdid] = CdRow(r, m.genres[r.genre]),
                  !.rep         = Bump(@, {"updated"})]

UpdateRecord(w, cdid, r) ==
    LET m == MapGenre(w, r.genre)
    IN  [m EXCEPT
            !.db.cd[cdid]     = CdRow(r, m.genres[r.genre]),
            !.db.tracks[cdid] = [ct \in DOMAIN @ |->
                IF ct <= Len(r.songs) THEN TrackRow(r, ct) ELSE @[ct]],
            !.rep             = Bump(@, {"updated"})]

\* (One fault keeps the hash, the other one the count.)
DeleteRecordNotHash(w, cdid, hash) ==
    [w EXCEPT !.db.cd       = Delete(@, cdid),
              !.db.tracks   = Delete(@, cdid),
              !.rep["added"] = @ - 1]

DeleteRecordUncounted(w, cdid, hash) ==
    [w EXCEPT !.db.cd       = Delete(@, cdid),
              !.db.tracks   = Delete(@, cdid),
              !.db.namehash = Delete(@, hash)]

DeleteRecord(w, cdid, hash) ==
    [w EXCEPT !.db.cd       = Delete(@, cdid),
              !.db.tracks   = Delete(@, cdid),
              !.db.namehash = Delete(@, hash),
              !.rep["added"] = @ - 1]

\* The first row of DISCID for this id, if there is one.
KnownDiscId(db, d) == db.discid[d] # <<>>
CheckDiscId(db, d) == Head(db.discid[d])

\* (The fault writes one of the two links.)
WriteLinksNotFuzzy(w, r, cdid) ==
    [w EXCEPT !.db.discid[DiscId(r.seconds, r.frames)] = Append(@, cdid)]

WriteLinks(w, r, cdid) ==
    [w EXCEPT
        !.db.discid[DiscId(r.seconds, r.frames)]   = Append(@, cdid),
        !.db.fuzzyid[FuzzyId(r.seconds, r.frames)] = Append(@, cdid)]

\* The string of a genre, read from the table: an id that is not there has an
\* empty one.
NoGenre == ""
GenreName(db, id) == IF id \in DOMAIN db.genre THEN db.genre[id] ELSE NoGenre

\* A record built from the tables never has its m_uppercasecount computed.
ReadRecord(db, cdid) ==
    [ name      |-> db.cd[cdid].name,
      genre     |-> GenreName(db, db.cd[cdid].genre),
      songs     |-> [ct \in DOMAIN db.tracks[cdid] |-> db.tracks[cdid][ct].song],
      seconds   |-> db.cd[cdid].seconds,
      frames    |-> [ct \in DOMAIN db.tracks[cdid] |-> db.tracks[cdid][ct].frames],
      revision  |-> db.cd[cdid].revision,
      uppercase |-> 0 ]

-----------------------------------------------------------------------------
(* The two stages of an iteration: by the text, and by the disc id.        *)

KnownTitle(w, r) == HashOf(r) \in DOMAIN w.db.namehash

\* A record whose normalized text is not known is written as a new CD ...
TitleStage(w, r) ==
    IF KnownTitle(w, r)
    THEN [w EXCEPT !.rep = Bump(@, {"rct", "dcrcct"})]
    ELSE LET x == WriteRecord(w, r) IN [x EXCEPT !.rep = Bump(@, {"rct"})]

\* ... and cdid is that CD, or else the one that is known by this text.
CdidOf(w, r) ==
    IF KnownTitle(w, r) THEN w.db.namehash[HashOf(r)] ELSE NewRowid(w.db.cd)

SameFrames(r, ex) == ex.seconds = r.seconds /\ ex.frames = r.frames

\* Which of two versions of a disc to keep, and the counters that say why.
Verdict(r, ex) ==
    LET new == Text(r)  old == Text(ex)
        Replace(c) == [update |-> TRUE,  counts |-> c]
        Keep(c)    == [update |-> FALSE, counts |-> c]
    IN  CASE Entropy(new) > Entropy(old) -> Replace({"entropy_gt"})
          [] Entropy(new) < Entropy(old) -> Keep({"entropy_lt"})
          [] Entropy(new) = Entropy(old) /\ new = old -> Keep({"duplicate"})
          [] Entropy(new) = Entropy(old) /\ new # old /\ EqualLowercase(new, old) ->
                IF r.uppercase > ex.uppercase
                THEN Replace({"duplicate_lower", "upper_count_gt"})
                ELSE Keep({"duplicate_lower", "upper_count_eqlt"})
          [] OTHER ->
                IF CharCount(new) > CharCount(old)
                THEN Replace({"entropy_eq", "overall_count_gt"})
                ELSE Keep({"entropy_eq", "overall_count_eqlt"})

\* The record is another version of CD ecd: what was written of it as a new
\* CD is deleted again, and CD ecd takes its data when they look better.
\* (One fault lets the last version win, the other one deletes the wrong CD.)
MergeLastWins(w, r, ecd, cdid, written) ==
    LET c == [w EXCEPT !.rep = Bump(@, {"samecdframesct", "entropy_gt"})]
        d == IF written THEN DeleteRecord(c, cdid, HashOf(r)) ELSE c
    IN  UpdateRecord(d, ecd, r)

MergeDeletesExisting(w, r, ecd, cdid, written) ==
    LET c == [w EXCEPT !.rep = Bump(@, {"samecdframesct", "entropy_lt"})]
    IN  IF written THEN DeleteRecord(c, ecd, HashOf(r)) ELSE c

Merge(w, r, ecd, cdid, written) ==
    LET v == Verdict(r, ReadRecord(w.db, ecd))
        c == [w EXCEPT !.rep = Bump(@, v.counts \cup {"samecdframesct"})]
        d == IF written THEN DeleteRecord(c, cdid, HashOf(r)) ELSE c
    IN  IF v.update THEN UpdateRecord(d, ecd, r) ELSE d

-----------------------------------------------------------------------------
(* The program: imports, one after the other.                              *)

\* cppcddbd -i file (initial) or -u file.  The initial import drops the
\* index on FUZZYID until it has ended.
StartImport(a, init) ==
    /\ phase = "off"
    /\ imports < MaxImports
    /\ init => committed.fuzzyindex     \* else DROP INDEX throws
    /\ phase' = "importing"
    /\ imports' = imports + 1
    /\ archive' = a
    /\ pos' = 0
    /\ initial' = init
    /\ work' = IF init
               THEN [Fresh(committed) EXCEPT !.db.fuzzyindex = FALSE]
               ELSE Fresh(committed)
    /\ UNCHANGED <<committed, published>>

\* The loop takes the next entry.
TakeEntry(e) ==
    /\ phase = "importing"
    /\ pos < Len(archive)
    /\ archive[pos + 1] = e
    /\ pos' = pos + 1
    /\ UNCHANGED <<committed, phase, archive, initial, published, imports>>

SkipInvalid ==
    /\ TakeEntry(BadEntry)
    /\ work' = [work EXCEPT !.rep = Bump(@, {"rct", "frct"})]

\* Nobody has the disc id yet: link it to the CD.
LinkNewDiscId(r) ==
    LET w == TitleStage(work, r)
    IN  /\ TakeEntry(r)
        /\ ~KnownDiscId(w.db, DiscId(r.seconds, r.frames))
        /\ work' = WriteLinks(w, r, CdidOf(work, r))

\* The first CD with this disc id has other track lengths, the digest
\* collides: link it to this CD as well.
\* (The fault forgets that a collision makes the disc id valid.)
LinkCollisionUnlinked(r) ==
    LET w == TitleStage(work, r)
        d == DiscId(r.seconds, r.frames)
    IN  /\ TakeEntry(r)
        /\ KnownDiscId(w.db, d)
        /\ ~SameFrames(r, ReadRecord(w.db, CheckDiscId(w.db, d)))
        /\ work' = [w EXCEPT !.rep = Bump(@, {"realdidcollct"})]

LinkCollision(r) ==
    LET w   == TitleStage(work, r)
        d   == DiscId(r.seconds, r.frames)
        ex  == ReadRecord(w.db, CheckDiscId(w.db, d))
        c   == IF SimilarTitle(ex.name, r.name)
               THEN "realcddidcollct" ELSE "realdidcollct"
    IN  /\ TakeEntry(r)
        /\ KnownDiscId(w.db, d)
        /\ ~SameFrames(r, ex)
        /\ work' = WriteLinks([w EXCEPT !.rep = Bump(@, {c})], r, CdidOf(work, r))

\* The same track lengths and nearly the same title: the same disc again.
MergeDuplicate(r) ==
    LET w   == TitleStage(work, r)
        d   == DiscId(r.seconds, r.frames)
        ecd == CheckDiscId(w.db, d)
        ex  == ReadRecord(w.db, ecd)
    IN  /\ TakeEntry(r)
        /\ KnownDiscId(w.db, d)
        /\ SameFrames(r, ex)
        /\ SimilarTitle(ex.name, r.name)
        /\ work' = Merge(w, r, ecd, CdidOf(work, r), ~KnownTitle(work, r))

\* The same track lengths, another title: the CD stays, without a link.
KeepUnlinked(r) ==
    LET w   == TitleStage(work, r)
        d   == DiscId(r.seconds, r.frames)
        ex  == ReadRecord(w.db, CheckDiscId(w.db, d))
    IN  /\ TakeEntry(r)
        /\ KnownDiscId(w.db, d)
        /\ SameFrames(r, ex)
        /\ ~SimilarTitle(ex.name, r.name)
        /\ work' = [w EXCEPT !.rep = Bump(@, {"sameframesct"})]

\* The end of an import, good or bad: the file is closed.
CloseArchive == archive' = <<>> /\ pos' = 0 /\ initial' = FALSE

\* What is committed: an initial import creates the index again.
Indexed == [work.db EXCEPT !.fuzzyindex = @ \/ initial]

\* The archive has ended: rebuild the index, commit, drop the updater.
Commit ==
    /\ phase = "importing"
    /\ pos = Len(archive)
    /\ committed' = Indexed
    /\ published' = published \cup (Range(archive) \ {BadEntry})
    /\ work' = Fresh(committed')
    /\ phase' = "off"
    /\ CloseArchive
    /\ UNCHANGED imports

\* An exception (a broken archive, a year that is no number, an error of
\* SQLite) ends the program, and SQLite rolls the transaction back; or the
\* process is killed before a page of the transaction was written.
Abort ==
    /\ phase = "importing"
    /\ phase' = "off"
    /\ work' = Fresh(committed)
    /\ CloseArchive
    /\ UNCHANGED <<committed, published, imports>>

\* What the file may hold when the process or the machine ends while pages of
\* the transaction are written: of the CDs, of their tracks and of the links
\* to them, each time the old rows or the new ones.
Mixed(cds, songs, links) ==
    [cds EXCEPT !.tracks     = songs.tracks,
                !.discid     = links.discid,
                !.fuzzyid    = links.fuzzyid,
                !.fuzzyindex = links.fuzzyindex]

Torn == {Mixed(cds, songs, links) : cds, songs, links \in {committed, work.db}}

\* With synchronous=OFF and the journal in the memory of the process nothing
\* undoes this at the next start.  What the program does with such a file is
\* not modelled, and nothing is promised of it.
Crash ==
    /\ phase = "importing"
    /\ phase' = "damaged"
    /\ committed' \in Torn
    /\ work' = Fresh(committed')
    /\ CloseArchive
    /\ UNCHANGED <<published, imports>>

ImportEntry ==
    \/ SkipInvalid
    \/ \E r \in Records :
        \/ LinkNewDiscId(r)
        \/ LinkCollision(r)
        \/ MergeDuplicate(r)
        \/ KeepUnlinked(r)

Next ==
    \/ \E a \in Archives, init \in BOOLEAN : StartImport(a, init)
    \/ ImportEntry
    \/ Commit
    \/ Abort
    \/ Crash

Spec == Init /\ [][Next]_vars

-----------------------------------------------------------------------------
(* Properties.                                                             *)

\* The variables have the types the declarations of the code give them.
TypeOK ==
    /\ IsDatabase(committed)
    /\ work = [db |-> work.db, genres |-> work.genres, rep |-> work.rep]
    /\ IsDatabase(work.db)
    /\ IsTable(work.genres, Genres, CdIds)
    /\ work.rep \in [Counters -> Int]
    /\ phase \in {"off", "importing", "damaged"}
    /\ archive \in Seq(Records \cup {BadEntry})
    /\ pos \in 0..Len(archive)
    /\ initial \in BOOLEAN
    /\ published \subseteq Records
    /\ imports \in 0..MaxImports

\* No import was killed while it wrote: all that follows is about a database
\* of which this can be said.
Whole == phase # "damaged"

\* No link, hash or track outlives the CD row it names, although
\* delete_record gives row ids free for the next CD; read_record therefore
\* never throws "cannot read record" (cddbupdater.cpp:239).
RefersToCds(db) ==
    /\ DOMAIN db.tracks = DOMAIN db.cd
    /\ \A d \in DiscIds  : Range(db.discid[d]) \subseteq DOMAIN db.cd
    /\ \A f \in FuzzyIds : Range(db.fuzzyid[f]) \subseteq DOMAIN db.cd
    /\ Range(db.namehash) \subseteq DOMAIN db.cd

LinksSound == Whole => RefersToCds(committed) /\ RefersToCds(work.db)

\* The genre cache and the table GENRE are inverse to each other, and the
\* genre of every CD is a row of that table: a CD never shows the genre of
\* another one (the cache is filled before the transaction that it follows
\* is committed).
GenresAgree == Whole =>
    /\ {<<id, work.db.genre[id]>> : id \in DOMAIN work.db.genre}
            = {<<work.genres[g], g>> : g \in DOMAIN work.genres}
    /\ \A c \in DOMAIN work.db.cd : work.db.cd[c].genre \in DOMAIN work.db.genre

\* A CD without a link is one whose track lengths the first CD of some disc
\* id has too: only a "real world" collision (cddbupdater.cpp:359) loses its
\* link.  (Frames are stored as 0 when the record had none.)
TrackLengths(db, c) ==
    LET rows == db.tracks[c]
    IN  [ seconds |-> db.cd[c].seconds,
          frames  |-> [i \in {i \in DOMAIN rows : rows[i].frames > 0} |-> rows[i].frames] ]

Linked(db, c) == \E d \in DiscIds : c \in Range(db.discid[d])

UnlinkedHaveTwin == Whole =>
    \A c \in DOMAIN work.db.cd :
        \/ Linked(work.db, c)
        \/ \E d \in DiscIds :
            /\ KnownDiscId(work.db, d)
            /\ CheckDiscId(work.db, d) # c
            /\ TrackLengths(work.db, CheckDiscId(work.db, d))
                    = TrackLengths(work.db, c)

\* What is stored of a CD is one record of an archive: the number of songs
\* that the CD claims, its texts, its songs with their lengths and its genre
\* all come from the same record.  The one exception is a record without
\* lengths that replaced one without songs: update_record writes the songs
\* with an UPDATE of rows that are not there (cddbupdater.cpp:179).
IsVersion(db, c, r) ==
    LET stored == ReadRecord(db, c)
    IN  /\ stored.name = r.name
        /\ stored.genre = r.genre
        /\ stored.seconds = r.seconds
        /\ stored.revision = r.revision
        /\ db.cd[c].tracks = Len(r.songs)
        /\ \/ stored.songs = r.songs /\ stored.frames = StoredFrames(r)
           \/ stored.songs = <<>> /\ r.frames = <<>>

StoredFrom(db, S) == \A c \in DOMAIN db.cd : \E r \in S : IsVersion(db, c, r)

\* Whoever reads between two imports has the index for fuzzy lookups, the
\* aborted initial imports included.
IndexKept == committed.fuzzyindex

\* What an import leaves behind is whole, however it ended, if it was not
\* killed while it wrote: the index is there, every CD is a record of an
\* archive that was committed, and no CD mixes two of them, whatever was
\* replaced, deleted and numbered again in several tables.
CommittedWhole == Whole => IndexKept /\ StoredFrom(committed, published)

\* The report adds up to what the transaction did to the tables.
ReportBalances == Whole =>
    LET rep == work.rep
    IN  /\ rep["rct"] = pos
        /\ rep["added"] = Cardinality(DOMAIN work.db.cd)
                            - Cardinality(DOMAIN committed.cd)
        /\ rep["updated"] = UsedForUpdates(rep)
        /\ rep["samecdframesct"] = rep["entropy_gt"] + rep["entropy_lt"]
                + rep["entropy_eq"] + rep["duplicate"] + rep["duplicate_lower"]

\* A later version of a disc never makes its texts poorer: no import lowers
\* the entropy of a CD with songs, whatever it replaces of them, and at the
\* same entropy it never leaves fewer characters.
StoredText(db, c) == Text(ReadRecord(db, c))

NotPoorer(new, old) ==
    \/ Entropy(new) > Entropy(old)
    \/ Entropy(new) = Entropy(old) /\ CharCount(new) >= CharCount(old)

TextsNotPoorer ==
    [][Whole' =>
        \A c \in DOMAIN committed.cd :
            committed.tracks[c] # <<>>
                => NotPoorer(StoredText(committed', c), StoredText(committed, c))]_committed

\* The importer publishes as CDDBStore promises it: what a lookup found
\* before an import it finds after it, and it never finds a CD that is gone,
\* until an import is killed while it writes.
Published ==
    [ lengths |-> [c \in DOMAIN committed.cd |->
                    [ seconds |-> committed.cd[c].seconds,
                      frames  |-> [ct \in DOMAIN committed.tracks[c] |->
                                    committed.tracks[c][ct].frames] ]],
      exact   |-> committed.discid,
      fuzzy   |-> committed.fuzzyid ]

Store == INSTANCE CDDBStore WITH store <- Published, damaged <- ~Whole

StoreSpec == Store!Spec
=============================================================================
