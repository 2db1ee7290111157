# A verification project for CppCDDB

CppCDDB is a CDDB (freedb) server: it imports the disc records of a freedb
archive into an SQLite database, and answers the queries of CD players from
it.  This directory models it in TLA+: modules for the parts of the program,
configurations that check them with TLC on small instances, and proofs of
their most important properties for instances of any size, checked by TLAPS.
Paths below are relative to the repository (`src/` here).

    tlc -config Import.cfg MCCDDBSQLUpdater.tla
    tlapm CDDBSystem_proofs.tla

## 1. The system

    archive (.tar.bz2) -> UnBZip2 -> UnTar -> DiskRecord -> CDDBSQLUpdater -> SQLite file
                                                              StringIntMapCache     |
    client <-> ASIOServer <-> CDDBSQLServer  <-------- SQLiteCpp (one connection) --+

| Part | State | Operations | What makes it correct |
|---|---|---|---|
| **CDDBSQLUpdater** (`cddbupdater.cpp`) | tables CD, TRACKS, DISCID, FUZZYID, NAMEHASH, GENRE in one open transaction; the report | `import` with `check_title_hash`, `write_record`, `update_record`, `delete_record`, `check_discid`, `write_discid`, `write_fuzzy_discid`, `read_record` | every disc once, found by its track lengths, with the better of its texts; no dangling ids although row ids are reused; no CD a mixture of two records; an aborted import leaves no trace |
| **main, SchemaInit** (`main.cpp`, `cddbupdater.cpp`) | the database file and its schema; the objects constructed so far | `main`, the constructors, what an exception destroys | who works has all tables; every start ends |
| **StringIntMapCache** (`cddbstringintmap.cpp`) | genre string -> id, as in the table GENRE | constructor, `map` | inverse to the table |
| **DiskRecord** (`diskrecord.cpp`) | one record: texts, track lengths, revision | parse, `cleanup`, `valid`, `normalized_hash`, `entropy`, `cddb_file` | as many frames as songs, or none; equal discs get equal hashes; what is served is read again |
| **utf8.hpp, helper.hpp** | a decoder; n-grams, a tokenizer | `valid_utf8`, `from_utf8`, `to_utf8`; `NGrams`, `Entropy`, `StringTokenizer`, `to_title_case`, trimming | no byte lost or invented; similarity is one of equals; words are those of the client |
| **cddbdefines.hpp** | none | start frames <-> track lengths, the private disc id and the fuzzy one | importer and server compute the same digest of the same disc |
| **UnTar, UnBZip2** | the header of the current entry; file, pipe or stream of bzip2 | `entry`, `file` | the files of the archive, in order, and no others; a cut archive is an error |
| **CDDBSQLServer** (`cddbserver.cpp`) | one SQLite connection with prepared statements all sessions share, the mutex `m_sqlmutex`; for each session `Parameters` (handshake, terminate, is_http) | `init`, `request`, `split_http_cddb`, `cddb_request`, `cddb_query` (exact, then fuzzy), `build_cddb_file` | lookups exclude each other; data only after a hello; offered discs match and can be read; everyone is answered |
| **ASIOServer** (`asioserver.cpp`) | listener threads, detached session threads, `m_quit` | `start`, `stop`, `server`, `session`, destructor | both kinds of clients are served; no listener uses a destroyed object |
| **SQLiteCpp** (`sqlitecpp/`) | a prepared statement shared by Statement and Columns; what the Statement believes of its execution | `bind`, `executeStep`, `exec`, `reset`, `clearBindings`, `getColumn`, copies and destructors | finalized once and when it is not used any more; executed once |
| **SQLite** | locks on the file | - | (external) |
| **CppFormat** (`format.cpp`, `format.hpp`) | none | `format` | texts arrive as they are, and a number is read back as itself |
| **exceptions** | - | - | (trivial) |

The parts talk by plain calls.  The only state shared between threads is that
of CDDBSQLServer and ASIOServer; the only state shared between processes is the
database file: one `cppcddbd` may import into it while another one serves.

What is hard here:

* **the order of records**: what is stored of a disc depends on everything that
  was read before it, through three keys (hash of the text, disc id, row id);
* **transactions**: an import is one transaction of many minutes, in which an
  index is dropped, row ids are freed and taken again, and a cache outside of
  the database is filled; it may be aborted at any entry;
* **lookups during imports**: the lookups of one query are separate read
  transactions, and a client reads what it was offered later;
* **failing lookups**: statements live as long as the server, and an exception
  between `bind` and `reset` leaves one in the middle of its execution;
* **threads**: sessions, listeners and the destructor of the server;
* **starting at the same time**: the schema is created statement by statement, each
  committed on its own, and only one of its tables is looked for;
* **texts**: each goes through encodings, cases and lines more than once, and two
  versions of a disc meet only if both come out the same.

`PROJECT.json` lists the hazards line by line with the properties about them.

## 2. The modules

| Module | Models |
|---|---|
| `CDDBSQLUpdater` | the importer: the tables, the loop of `import`, transaction, abort, crash |
| `CDDBStore` | what an importer promises to readers: a store that only grows |
| `CDDBSystem` | importer and one client of the server: query, fuzzy query, read |
| `CDDBSQLServer` | sessions, request lines, mutex, shared statements, file locks of an importing process |
| `Requests` | what a line or a GET is split into, byte by byte, and read as |
| `ASIOServer` | listeners, session threads and the end of the server object |
| `UnTar` | the reader of the archive: headers, data, padding, streams of bzip2, and how reading ends |
| `DiskRecord` | the parser of a record, line by line, the track lengths, and the file a client gets |
| `CDDBDefines` | the arithmetic of frames, and what the digests are fed with |
| `Texts` | the texts of a record, character by character |
| `Unicode` | UTF-8, byte by byte |
| `Format` | how texts and numbers are written into lines |
| `Startup` | processes that start on one database: `main`, SchemaInit, constructors and destructors |
| `SQLiteStatement` | Statement, Column, and the counted pointer they share |
| `MC...` | the instances TLC checks |
| `..._proofs` | the theorems |

`CDDBSystem` extends `CDDBSQLUpdater`, which implements `CDDBStore`; `DiskRecord`
extends `CDDBDefines`, `Texts` extends `Unicode` and `Format`, `Requests` extends
`Format`.  The other modules meet at
assumptions that one makes and another one establishes: the records of the importer
are valid records of `DiskRecord`, its empty database is what `Startup` leaves, the
lookups of `CDDBSQLServer` are those of `CDDBSystem`, its lines those of `Requests`.

### CDDBSQLUpdater, CDDBStore

`committed` is the database of the last COMMIT; `work` is the updater object:
the database its transaction sees, the genre cache and the report.  A table
with a primary key is a function on the keys in use (`cd`, `namehash`,
`genre`), TRACKS a sequence of rows for each CD, and DISCID and FUZZYID the
sequence of CDs of each id, in the order of their rowids, which is the order
in which SQLite returns them.  `ERRORS` is left out: only `error()` writes it,
and nothing sets `m_debug`.  Artist and title are one value, `name`: no code in
`import` tells them apart.  The year is data without influence and left out.

One iteration of the loop is one step, because one thread runs it in one
transaction.  The four ways through it are `LinkNewDiscId`, `LinkCollision`,
`MergeDuplicate` and `KeepUnlinked`, after the common `TitleStage`;
`SkipInvalid` is a record that is not `valid()`.  `StartImport` is the updater's
constructor and the head of `import` (`-i` drops the index), `Commit` its end,
`Abort` every exception between the two, and the end of the process before it wrote
a page.  `Crash` is its end while it writes: with `synchronous=OFF` and the journal in
its memory nothing undoes that, and the file is one of `Torn`, which mixes the old and
the new rows of CD, TRACKS and the links.  The phase is then `damaged`; what the program
does with such a file is not modelled, and the properties say nothing of it (`Whole`).

What is stored of a CD is compared with the records themselves (`IsVersion`): texts,
songs, lengths, genre and the number of tracks of a row have to come from one record of
a committed archive, over all replacements and reused row ids.

Digests and the comparison of titles are CONSTANT operators with any values:
two texts may have one hash, two discs one id, and the similarity of titles is
neither symmetric nor transitive by assumption.

`CDDBStore` is the abstract view of a reader: track lengths of CDs, and CDs for
ids.  A step adds CDs and appends links, changes no lengths and removes nothing.
`StoreSpec` is this specification under the mapping `Published`.

### CDDBSystem

It adds a session: `CddbQuery`, `QueryByDiscid` and `QueryByFuzzyDiscid` are a
`cddb query` with its two critical sections, `BuildCddbFile` is `cddb read` of
one of the discs offered, with the name of its genre.  Each step reads the database
committed at that moment.  `std::sort` is not stable, so discs with equal difference
come in any order.  A category is ignored, as in the code.  `PublishedIsFound` asks the two
lookups, with their filter on lengths, for each record that was ever committed.

### CDDBSQLServer, Requests

`CDDBSQLServer` has the threads and locks of the server.  A statement is `ready`
(reset), at a `row`, `done`, `failed` (its step was an error), `stuck` (at a row, of
a lookup that threw) or `refused` (its first step met a lock and threw).  SQLite counts
the last two as readers like one at a row, because nobody resets them: `shared`, the
SHARED lock of the connection, is given back when a statement ends and no other one runs.
`writer` is the lock of another process on the file: while it is `pending` or `exclusive`
and the connection has no lock, a first step waits for the busy timeout of 1000 ms and
throws.  A line is a command, a lone `\r`, or a GET with its three parts.  What
a lookup finds is open here.

`Requests` is how a line becomes such a command.  A client writes words with blanks,
quotes and escapes; `split_http_cddb` is a machine over the bytes of a GET, one action
for each of its branches, `StringTokenizer` one over the bytes of a text, one step for
each word, and `CddbRequest` reads the words: which are taken for numbers, and when
`std::stoul` throws.  A client may read a disc by the digits of an offer, `OfferLine`.
A GET may be cut off anywhere.  The counts are modulo `W`.

### ASIOServer

The owner starts the server with or without blocking, may stop it, destroy it at any
time, and may be in haste: destroy a server that does not block while its thread opens
the first socket.  The second listener runs where a socket for IPv6 does not accept
IPv4; sessions are detached.  The object is destroyed layer by layer (derived class,
base class, members), `std::terminate` ends the process when a thread throws or a
joinable thread is destroyed.  `stack` is what the system supports.  `main()` uses only
the blocking way, and `SilentOnlyBroken` speaks of it alone.

### UnTar

The archive is a sequence of members, and the position of the reader a member and an
offset in it.  A header of a file takes header, data and padding along (`ReadFile`), any
other one only its block (`SkipEntry`), as the loop of `entry` does.  What stands at the
position decides what `analyze` says: a header, zeros (the end, or zero data of a member
that was not skipped, which the reader cannot tell from it), or a wrong sum (`BadHeader`).
`ShortRead`, a `read` that returns less than it was asked for, is possible at any time,
and where the first `stream` of a compressed archive ends it is the only way on
(`unbzip2.cpp:64`).  `import()` wants files only and no resource forks.

A header whose data is not skipped brings the reader out of step.  The name after
a GNU long-name header is one: `analyze` checks the sum of that block before it
looks for a name in it, so that `Longname2` is never reached and the import ends
with an exception.  Archives of freedb have no long names.

### DiskRecord, CDDBDefines

A file is a sequence of lines, and a line is of the kind the parser takes it for:
`AddComment` and `AddFrame` are a comment outside and inside of the list of start
frames, `AddKeyValue` a key with its value, `Ignore` a line without effect, `Finish`
what the parser does after the last line.  Texts are in the form `cleanup()` gives
them; what it does to the set of songs, taking the artist off in front of a song, is
`Cleanup`.  A year that is not a number throws.  A second line that opens the list
while it is open closes it, and a revision inside of the list is lost, as in the code.

`CDDBDefines` has the conversions in arithmetic modulo `W`, 2^32 in the program, and
the digests as the bytes that are fed to the hash, on a machine of either byte order.
`WriteFile` is the way of a valid record to a client and back: rows of TRACKS,
`FromDatabase`, `cddb_file`, and the lines of this file are parsed again.  The disc
length is written without the lead-in and read as if it contained it, so that a file
that is read again has another last track length, and with it another disc id;
`FileReadsBack` says what does come back.

### Texts, Unicode, Format

`Texts` is the same parser for the keys and values in a line: a machine over bytes
(`ReadKey`, `ReadLimiter`, `ReadValue`, ...), `TakeValue` what `DTITLE`, `TTITLEn` and
`DGENRE` do with a value, `Finish` the check of the encoding, `cleanup` with its title
case, and the entropy.  What the importer asks of a record is made of operators:
`NormalizedHash`, `EqualLowercase`, `SameTitle` with the n-grams.  `NextFile` writes a
record as `cddb_file` does and reads it again, or reads another version of the disc;
`earlier` is the record that was read before.  What the C library says of a character
(`iswupper`, `iswalpha`, `towlower`...) is a constant.

`Unicode` is the decoder of `valid_utf8` and `from_utf8`, a state machine of one byte
per step with one action for each kind of byte, and `to_utf8`.

`Format` is `fmt::format` as operators: a format string passed once from left to right,
numbers written two digits at a time into a buffer whose size `count_digits` takes from
a table, or in hexadecimal digits.  Its loops are recursive functions of the number of
turns; `DigitPairs` bounds those of a number, of which 64 bits need 10.  `CddbFile` and
`OfferLine` write with it.

### Startup

Each process has a plan (`-i`, `-u`, the server), and the objects it has constructed
in order: the database, then its statements.  `TableExists`, `Create` and `Created` are
SchemaInit; each `Create` is a commit of its own.  `Prepare` is a constructor that
prepares statements on tables that must be there; `BeginImport` to `EndImport` the
transaction that locks others out.  Everything may fail (`...Fails`, `...Throws`), and
then `DestroyObject` takes the objects apart in reverse order, as C++ does.  `Kill` may
come at any step.

### SQLiteStatement

`ptr` says which sqlite3_stmt each Statement and Column points to, `refs` is
`*mpRefCount`, `engine` where SQLite is in the execution, `ok` and `done` what the
Statement believes.  There is an action for each member function that changes any of
it, also in the way in which it throws.  The history `runs` counts executions since the
last reset, and `excused` says that something happened after which SQLite begins again.

## 3. What is checked

| Run | Question and properties | Bounds |
|---|---|---|
| `Import` | Versions of one disc that differ in case, accents and wording, same texts with other lengths, colliding digests, records without lengths, in every order, aborted or killed: `LinksSound`, `GenresAgree`, `ReportBalances`, `UnlinkedHaveTwin`, `CommittedWhole` (`IndexKept`, `StoredFrom`), `TextsNotPoorer`, and that the importer implements `CDDBStore` (`StoreSpec`) | 2 imports; archives of any two of 11 discs and an invalid entry, and of three different ones of the six versions |
| `LookupDuringImport` | A client while imports are committed: `AnswersMatch` (`SystemTypeOK`, `OffersMatch`, `FileMatchesQuery`, `FileHasGenre`), `OfferedCanBeRead`, `StableAnswer`, `OwnLengthsAnswered`, `PublishedIsFound` | 2 imports of up to 2 entries, 8 records, 5 questions; `MaxTrackDiff` 5, `MaxListed` 2 |
| `SharedServer` | Two sessions, every kind of line, an importing process, a disk that may fail: `OneLookupAtATime`, `IdleHoldsNoLock`, `DataAfterHandshake`, `Served`, and no deadlock | 2 sessions; `hello` and `proto` of a GET are no lookups |
| `ServerLife` | Three kinds of systems, an owner that blocks or not, stops or destroys the server, failures of any listener: `NoListenerOutlives`, `SilentOnlyBroken`, `BothAreServed` | 3 clients |
| `ReadArchive` | Members of all types in any order, compressed or not: `PassedAreDelivered`, `EndIsComplete`, `WholeIsRead` | 3 members; files of 0, 1, 511, 512, 513 and 1024 bytes |
| `DiscFile` | A file with lines lost, exchanged or added, and the file that is written of it: `ValidRecord`, `FramesAreListed`, `SongsInPlace`, `FileReadsBack`, `DigestsAgree` | a file of 9 lines with every two changes (a line removed, two exchanged, one of 11 lines added); `W` = 10000 |
| `Texts` | Versions of a disc that meet or do not, texts on their way through parser, database and file: `RoundTrip`, `CleanupKeepsHash`, `CaseVersionsMeet`, `RowHasEntropyOfFile`, `TextsReadBack`, `SimilarTitles` | 15 versions, each before each; twelve songs, for numbers of one and of two digits, by an artist with braces; titles that end in every three bytes from the boundaries of UTF-8; keys of 8 and values of 23 bytes instead of 15 and 255 |
| `Requests` | Requests as lines and as GETs, with quotes, escapes and gaps, cut off anywhere: `RequestUnderstood` (`WordsArrive`, `NumbersAreWords`, `UserIsWelcome`, `OfferedIsRead`), `CutGetIsRefused` | 13 commands, the reading of 5 offers, 2 hellos, 2 gaps, 3 endings, a cut at each of 4 to 120 bytes; `W` = 16 |
| `Startup` | Processes that start on one database and may be killed: `TablesComplete` (`WorkersHaveTables`, `HalfMadeNeedsKill`), `StartEnds` | 2 processes with any options; the schema of the program |
| `Statements` | Any use of Statements and Columns, every call may fail: `HandlesCounted`, `ExecutionKnown` (`RowToRead`, `ExecutedOnce`) | 2 Statements, 2 Columns, 3 prepared statements (interchangeable), results of up to 2 rows |
| `StuckStatement`, `PortableDigest` | Statements of a comment and of the README that the code does not keep; see section 5 | as `SharedServer` without disk errors, and `DiscFile` |

Why the bounds are enough:

* *Importer.*  The decisions of an iteration depend on at most two CDs: the one with
  the text, and the first one with the disc id.  Two imports of two entries build every
  such pair, and meet it both in their transaction and as committed data; a longer
  archive repeats the same decisions.  Only the texts of a disc are replaced more than
  once, so three entries are needed of its versions alone.
* *Client.*  `MaxTrackDiff` is 5 instead of 300 and the lengths are chosen around it:
  the same, near, and far.  `MaxListed` is 2 instead of 10, so that a list is cut.
* *Sessions and listeners.*  With two sessions one is in a lookup while the other one
  waits, asks or leaves.  With three clients one may come before, between and after the
  two sockets are there.
* *Archives.*  Whether the reader is in step is decided between one member and the next;
  a file and an entry of an unknown type have data of zeros or of something else.
* *Files.*  The parser knows of the lines before only whether the list is open, and how
  many songs there are: two changes open and close the list, or drop and number songs,
  in every order.  Start frames of 9990 and lengths of 1 second take the arithmetic below
  0 and above `W`, which is no multiple of the 75 frames of a second, as 2^32 is none.
* *Texts.*  The decoder remembers at most three bytes, and the bytes are the first and
  last ones of each kind, with those where a sequence would be too long or too large.
  Keys and values reach, pass and miss their limits, also by the growth of a conversion.
* *Requests.*  The state of the tokenizer is inside or outside of quotes, after an escape
  or not; the commands take it through all, and end in each.
* *Startup.*  What one process sees of another one is the schema and the lock, and both
  change one statement at a time; a third process sees nothing that a second does not.
* *Statements.*  An object is copied from one and read by another one; the third prepared
  statement is the one that takes the place of another.

Fairness.  None for importer, client, parsers and statements: an import may stop
anywhere and a client may never send a line.  `CDDBSQLServer` assumes that a thread in a
critical section goes on (WF), that a list of links ends (WF on the last row) and
that a thread that waits for the mutex gets it at some time (SF): `std::mutex`
does not promise it, the kernels it runs on do in practice, and clients that stop
asking make WF enough.  `ASIOServer` assumes that the owner, the second listener and
running requests go on (`m_timeout` bounds a request); `accept` may wait forever, and
nobody has to stop the server.  `Startup` assumes that a process that has started takes
its next step (WF); starting, killing, and the end of serving are free.

The runs say `CHECK_DEADLOCK FALSE` where the program may stop: all imports
done, a damaged file, the process ended, the input read.  `SharedServer` and
`StuckStatement` check for deadlock.

## 4. What is proved

Theorems hold for any values of the constants that satisfy the named assumptions.
None of the properties is inductive: each module has an invariant that is, shown with
a lemma or a step for each action, and the properties follow from it.

**CDDBSystem_proofs, the importer.**  All properties of `Import`, of a file that no kill
has torn (`Whole`).  Assumed:
`RecordsAssumption` (what the parser guarantees), `DigestAssumption` (digests are
functions into their ranges), `CountAssumption` (counts are numbers) and
`MaxImportsAssumption`.

* `Inv` is for types, links and genres.  Rows are deleted in the middle of an iteration.
  That no link is left behind needs that the row that is deleted is the one that was
  written in the same iteration: it has the largest row id and no link yet, and its hash
  is the one that is deleted.  That `Max + 1` is a new row id needs row ids to be finite
  and, for the genres, the cache to be the inverse of the table.  For the refinement, a
  transaction in progress must keep the committed CDs with their lengths, and the links
  as prefixes; this conjunct relates `work` and `committed`.
* `KeptInv` is for what is found.  Every CD is found by its own lengths, or has a twin
  that is.  As stated this is not inductive: a new version of a text may have other
  lengths and get another digest.  So it is said of every record with these lengths, not
  of one.  `VersionsInv` says that a CD is one record in all of its columns and tables;
  for the transaction in progress this is any record, and for the committed database one
  that was published, because all of them came from the archive.  Besides, the lengths of
  a CD are those of one record and the texts of a CD with songs those of one record, so
  that "richer" compares two records and is transitive; and row ids are dense, which makes
  their largest one the count that the report has to balance.

**CDDBSystem_proofs, the client.**  All properties of `LookupDuringImport`, on top of the
above and of `AskedAssumption`, `StoredAssumption`, `LimitsAssumption`.  `SystemInv` says
of the offers of a client that they are near and readable in the committed database, and
of a finished query that what it owed is there.  `PublishedStayFound` is about the lookups
and about both: a record is answered under its ids, through the filter on lengths, or its
ids lead to the CD that has its text with other lengths.  The step of the importer is the point:
every commit `Keeps` what was committed, so it adds answers and takes none away, and
the first link of an id stays the first.

**CDDBSQLServer_proofs.**  `LookupsAreExclusive`, `DataNeedsHandshake`,
`IdleServerHoldsNoLock`, `ServerTypes`, for any number of sessions.  `Owned`
strengthens them: a statement at a row or done is the one the holder of the mutex is
working on; `LockHasReader`: who has SQLite's lock has a statement that runs; `Greeted`: a
session in a lookup has said hello.

**CDDBSQLServer_proofs, the listeners** (`ASIOServer`).  `LifeTypes`, `ListenersAreJoined`,
`SilenceNeedsFailure`, for any
number of clients; the invariant ties the layers of the object to its owner, and the
threads to the layer that joins them.

**UnTar_proofs.**  `ReaderTypes`, `FilesAreDelivered`, `EndIsTheEnd`, `StaysInStep`, for
archives of any length and files of any size.  `PaddingFills` is the arithmetic of
blocks; `InStep` says that the reader is only ever inside of a member after a header
whose data it does not skip.  `EndIsTheEnd` has an exception, zero data of an unknown
type, and no other one.

**DiskRecord_proofs.**  `RecordTypes`, `ValidRecordsAreSound`, `SongsStayInPlace`, for any
files and any width of the numbers, and `StartsComeBack`: the start frames computed from
the track lengths are those the lengths were computed from, up to the wrap around.  The
function is recursive, and the induction theorems of the library take an operator, which
the prover cannot give them; the proof takes the least index where the two would differ.
The invariant `Shape` adds that start frames are not 0 while a file is read and that the
lengths of a finished record come from start frames.  `ValidRecordsAreSound` is the part of
`RecordsAssumption` that the parser has to guarantee.

On top of these, `FramesStayListed`: `ListInv` ties the frames of the record to the lines
between the comment that opens the list and the line that is read, so that none is taken
twice or from outside, and `ListDone` keeps this for a finished record.
`DigestsStayAgreed`: the bytes that are fed to the hash are the same for the record of a
file, the query of a client and the row that is read, because `StartsComeBack`.
`WrittenIsReadBack`: `IsFileOf` says line by line what `WriteFile` writes, and `Progress`
how much of the record has come back when the parser is at a line; a lemma for each
section of the file takes `Progress` over one line, and `Finish` closes it.

**Format_proofs.**  The lemmas about `Format` that the proofs about texts share: a loop that is
a recursive function up to a bound exists and stays in its type, what `FlattenSeq` gives, where
each part of it ends and that it is compatible with appending, that numbers and fields become
bytes, and a field with one digit as its index becomes its argument.  No theorem of its own.

**Requests_proofs.**  `RequestsAreUnderstood` and `CutGetsAreRefused`, for any commands,
hellos, gaps and endings, lines and GETs of any length, and for `RequestsAreTyped`,
`QueriesReadTheirWords` and `UsersAreWelcome`, which are parts of the first, also for clients
that escape nothing.  Under `ClientAssumption` (words are sequences of bytes, none of them
is the method of HTTP, gaps and endings are delimiters, ids have 31 bits) and
`WordAssumption`.  The argument follows a request through its machines:

* `Hexadecimal` and `HexNumber` are inverse (`HexadecimalIsRead`), and the second word of an
  offer is the id it was made for (`OfferedIdIs`, from the loop of `Format` over the line).
* A GET is laid out as `Layout` says, so that its marks, two ampersands, two equals signs
  and the blank before the version, are where they are in any of them (`Marks`).  A GET that
  is cut off has no blank behind its method, and so is never whole (`BeforeVersion`).
* `NamesKept` is inductive for any values of the parameters, escaped or not: where the
  splitter is among the marks determines its state, and with three parts the second and the
  third begin with their names.  `Polite` takes this to the first words of the texts.
* `Decoded` is inductive for values that are escaped: the query holds what `Url` was applied
  to, up to the byte that is being read, in both kinds of escape sequences and all three
  bytes of them.
* `Spells` says where the words of a text stand, in quotes or not, with delimiters in
  between; it holds of what a client joins.  `Reading` says how far the tokenizer has come:
  it is behind the delimiter of the last word it has read, or took what is left of the
  ending for a word.  Only words that can be sent are read as they were.
* `Understood` has all of this for the texts in their order: those that are left spell what
  was sent behind what was seen, and what was seen has arrived; and before the last text of
  a client that reads an offer nothing throws, because its first word is the hello and the
  second text is the protocol.

**Texts_proofs.**  For texts of any length in any bytes, under `FilesAssumption` (files are
sequences of bytes), `LimitsAssumption` (a key holds its six letters and a number of at most
nine digits, which is what its 15 bytes allow) and `LibraryAssumption`, which says of the C
library that no letter is a blank or a mark, also in lower case, that a letter is lowered once
for all, that `?` is neither letter nor digit, and that up to 255 case is that of ISO 8859-1.
Its locales satisfy this but for the Turkish ones, where the letter I has no dot in lower case.

* `DecoderTypes` and `NothingIsLost`: for every sequence of bytes that is accepted, the
  characters read so far encode to the bytes read so far, but for those of a character
  that is not complete.  `Decoded` is the decoder as one recursion; that it and the
  machine agree is proved, and the rest uses the recursion.
* `TextsInvariant`: the types of the parser, with every text of the record in bytes, and
  every text of a record that was found valid accepted by the decoder.  This needs that
  what `cddb_file` writes for `NextFile` is made of bytes, through the loops of `Format`,
  and that `Cleanup` keeps texts accepted: taking blanks off at either end, cutting the
  artist off in front of a song, and the title case, which writes what the decoder reads
  in another case.
* `RowKeepsEntropy`: the entropy a row is stored with is that of the record in the form
  of a file, which is how the importer compares the two.
* `CleanTextsHashTheSame`: the normalized hash is fed with the same bytes before and after
  `Cleanup`.  The normal form has no blanks, and the lemmas say that leaving blanks out
  (`Like`) and the title case do not change what the decoder reads but for blanks and case.
* `CaseVersionsAlwaysMeet`: two versions of a disc that are equal in lower case feed the
  normalized hash the same bytes.
* `TyposAreForgiven`: `found` in `Compare` only grows and never has more n-grams than there
  are, so that nothing is more alike than 100; a wrong letter is in at most three of them, or
  in the last ones, which are longer, and what is left is a quarter of the n-grams or more.
* `TextsAreLines`: `LinesInv`, no text has a newline in it.  Decoding in title case cannot make
  one, because no byte below 128 belongs to a longer character (`Mirrors`).  With it the songs
  are numbered from a base, of which nine digits can be read.
* `RecordsAreReadBack`, for all stored records that are `Readable`, which says what the file
  format cannot carry.  `StableInv` knows what a stored record has gone through: title case is
  settled, so that a second `Cleanup` finds nothing to do (`CleanAgain`); and the artist has no
  slash between blanks, as it ended before the first one, neither did one come about since
  (`Firm`).  So the lines are taken as they are (`StoredLines`), but for the genre, which may be
  too long or none.  The file is `Laid` out line by line from `Offsets`, by the loops of
  `Format`.  `ResumeInv` ties the position in the file to the record: before line n what has
  been read is the record with n - 1 lines (`ReadAs`), within a line its key and value are as
  far as the character (`InLine`), and while a value is checked it is that of the line.  It was
  checked by TLC before it was proved, with the offsets written out.  There is one lemma for
  each action; `TitleCut` is where artist and title are cut where they were put together, and
  `AcceptedPasses` takes the machine of `valid_utf8` through a value that is in UTF-8.

**SQLiteStatement_proofs.**  `StatementTypes`, `HandlesStayCounted`,
`ExecutionStaysKnown`, for any number of objects and rows.  `Counted`: the counter of a
prepared statement is the number of objects that point to it; `Alone`: no two Statements
point to the same one, so that what one believes is not changed by another one; `Begun`
and `Informed` tie what it believes to where SQLite is.

**SQLiteStatement_proofs, the start** (`Startup`).  `WorkersFindTables`, for any number of
processes and any schema.  Without a killed process there is at most one maker of the
schema, the tables that are there are exactly those it has created, the first one is
there whenever any is, and who imports has found all; the objects of a process are the
database first, then statements.

**Only model-checked**: liveness (`Served`, `BothAreServed`, `StartEnds`).  Liveness under
fairness and ENABLED are out of the reach of the prover.  Induction over data is too, as the
library states it; where it is needed the proofs take it from a least counterexample, as a lemma
over the numbers up to a bound.

## 5. Where the code and its documentation disagree

Checked by a run each, with the counterexample TLC prints:

* `StuckStatement`: a lookup that meets the lock of an import for more than a second
  leaves its statement without `reset()`; the server can never bind it again, and SQLite
  counts it as a reader, so that the next lookup of another kind keeps its lock on the
  file, and no import can be committed while the server runs (`IdleHoldsNoLock` has this exception).
* `PortableDigest`: the README (line 15) says that the hash values are big endian on all
  platforms; a parenthesis in the wrong place makes a comma expression, which feeds a 1
  instead of the number of tracks, and in the byte order of the machine
  (`cddbdefines.hpp:40`).

Seen while modelling, with a comment against the code in some cases.  Where a property is
named, it has the case as its exception, holds, and so says that there is no other one:

* *What is stored.*  "now write all the songs of a disc" (`cddbupdater.cpp:176`) is an
  UPDATE of rows that are not there when a record replaces one without songs (line 179),
  so that the CD claims songs that it does not have.  Only a record without track lengths
  can do so (`CommittedWhole`; `TextsNotPoorer` speaks of CDs with songs).  The uppercase
  letters of the stored version count as 0, so the version with fewer of them may win.  A
  comment puts the revision first, the code never looks at it.
* *What is found.*  A CD whose track lengths another disc has is stored and never offered
  (`cddbupdater.cpp:493`; `UnlinkedHaveTwin`, `OwnLengthsAnswered`).  `cddb read` takes the
  first CD of an id and compares no lengths (`FileMatchesQuery` needs the digest to be its
  own).  A record with a known text and other lengths adds a disc id, on purpose and as
  "valid" (`cddbupdater.cpp:347`), and not its lengths, so that a query with them may be
  answered 202 (`PublishedIsFound`).  A CD without
  lengths can be offered, to a disc of very short tracks under the same digest, and then
  not be read.
* *The import itself.*  The two collision counters of the report are printed under each
  other's label (`cddbupdater.cpp:545`), which `ReportBalances` does not see; `lct` is
  never counted.  An import of less than a millisecond divides by zero before COMMIT
  (`cddbupdater.cpp:520`).  An archive with a name of three characters is always taken for
  compressed (`cddbupdater.cpp:277`), and an archive in more than one bzip2 stream ends in
  an exception.
* *The start.*  A schema that was left half made is never completed: only the first table
  is looked for.  If the index of fuzzy ids is what is missing, every `-i` fails.
  An update that starts while another process makes the schema may run without indexes.
* *Files and texts.*  The disc length of a served file is too short for its own parser
  (`cddbdefines.hpp:98`), so that it gets another disc id when it is imported, and a record
  without start frames is served as a file that is not valid (`FileReadsBack`).  A value in
  ISO 8859-1 is converted line by line (`diskrecord.cpp:230`), and may also be valid
  UTF-8 by accident.  A conversion may make a text longer than the 255 bytes that are
  read back.  Title case drops an incomplete sequence at the end of a text and may leave
  a blank there (`TextsReadBack`).  A character that is no codepoint of Unicode is counted
  as it is and written as `?`, so that its row weighs less than its file did; what is read
  back is therefore compared with the row.
* *Requests.*  The character after a closing quote is lost, and a blank before the CR at
  the end of a query adds a word, which rejects it.
* *The archive.*  "this is the only valid exit condition from reading a tar archive - end
  header reached" (`untar.cpp:222`), but one block of zeros is taken for this header, and
  the data of an entry of unknown type are not skipped: if they begin with zeros, the import
  ends there and commits (`EndIsComplete`).
* *The server.*  Without IPv6 the acceptor throws before the branch for this case
  (`asioserver.cpp:84`), and the server ends (`BothAreServed`).  The destructor waits for
  listeners that are blocked in `accept` (`asioserver.cpp:127`), and for no session.  A
  server that does not block, and is destroyed while its first thread starts the second
  one, ends the process; `main()` does not use it that way.

## 6. Not modelled

* SQLite itself, but for its locks and the results of its calls; what the
  program does with a file that a kill has torn (`synchronous=OFF`, journal in memory).
* The exception classes, options and help of `main`, the wording of replies, the
  measurement of time: they decide only how something looks.
* Most of CppFormat, two fifths of the lines of the repository: the program uses neither
  its widths, fills and signs nor floating-point numbers, named arguments, printf or
  files.
* Code that the program does not use: `get_filename`, `get_last_path`, `ends_with`,
  `toupper`, `printall`, `map(str)` of the cache, `calc_hash`, `error()` (nothing sets
  `m_debug`), `CDList::add`; Transaction, Backup, `createFunction` and `loadExtension` of
  SQLiteCpp.
* The values that a Column converts, and the hash functions over texts and lengths: the
  models have what is fed to them, and leave open which results collide.

## 7. Plan

Done: 1. `CDDBSQLUpdater` with `CDDBStore`; 2. `CDDBSystem`; 3. `CDDBSQLServer`;
4. `ASIOServer`; 5. `UnTar` with `UnBZip2`; 6. `DiskRecord`; 7. `CDDBDefines` with the
digests; 8. `Startup`; 9. `Texts` and `Unicode`; 10. `Requests`; 11. `SQLiteStatement`;
12. `Format`;
and the proofs named above.

All invariants that the runs check are proved.  What the repository gets next decides what comes
next: a change of the parser meets `ResumeInv`, one of the schema `Inv` of the importer.

A question that comes later joins the run of the module it belongs to.
