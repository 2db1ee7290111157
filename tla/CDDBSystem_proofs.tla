------------------------- MODULE CDDBSystem_proofs --------------------------
(***************************************************************************)
(* Theorems about the importer, for any archives and any digests, and      *)
(* about a client of the database it imports into.                         *)
(***************************************************************************)
EXTENDS CDDBSystem, SequenceTheorems, FiniteSetTheorems, TLAPS

-----------------------------------------------------------------------------
(* Tables.                                                                 *)

LEMMA InsertTable ==
    ASSUME NEW K, NEW V, NEW t, IsTable(t, K, V), NEW k \in K, NEW v \in V
    PROVE  /\ IsTable(Insert(t, k, v), K, V)
           /\ DOMAIN Insert(t, k, v) = DOMAIN t \cup {k}
           /\ Insert(t, k, v)[k] = v
           /\ \A x \in DOMAIN t : x # k => Insert(t, k, v)[x] = t[x]
    BY DEF IsTable, Insert

LEMMA DeleteTable ==
    ASSUME NEW K, NEW V, NEW t, IsTable(t, K, V), NEW k
    PROVE  /\ IsTable(Delete(t, k), K, V)
           /\ DOMAIN Delete(t, k) = DOMAIN t \ {k}
           /\ \A x \in DOMAIN t : x # k => Delete(t, k)[x] = t[x]
    BY DEF IsTable, Delete, Restrict

\* What was inserted under a new key and then deleted has not been there.
LEMMA DeleteInserted ==
    ASSUME NEW K, NEW V, NEW t, IsTable(t, K, V), NEW k \in K, NEW v \in V,
           k \notin DOMAIN t
    PROVE  Delete(Insert(t, k, v), k) = t
    BY DEF IsTable, Delete, Restrict, Insert

LEMMA MaxOfInterval ==
    ASSUME NEW n \in Nat \ {0}
    PROVE  Max(1..n) = n
<1>1. \E x \in 1..n : \A y \in 1..n : x >= y
    <2>1. n \in 1..n /\ \A y \in 1..n : n >= y
        OBVIOUS
    <2> QED  BY <2>1
<1>2. Max(1..n) \in 1..n /\ \A y \in 1..n : Max(1..n) >= y
    BY <1>1 DEF Max
<1> QED  BY <1>2

\* In a table whose rowids have no gap the next rowid is the next number, and
\* leaves no gap.
Dense(t) == \E n \in Nat : DOMAIN t = 1..n

LEMMA NewRowidIsNext ==
    ASSUME NEW t, NEW n \in Nat, DOMAIN t = 1..n
    PROVE  NewRowid(t) = n + 1
<1>1. CASE n = 0
    BY <1>1 DEF NewRowid
<1>2. CASE n # 0
    BY <1>2, MaxOfInterval DEF NewRowid
<1> QED  BY <1>1, <1>2

LEMMA NewRowidIsNew ==
    ASSUME NEW t, Dense(t)
    PROVE  /\ NewRowid(t) \in CdIds
           /\ NewRowid(t) \notin DOMAIN t
           /\ \A v : Dense(Insert(t, NewRowid(t), v))
<1>1. PICK n \in Nat : DOMAIN t = 1..n
    BY DEF Dense
<1>2. NewRowid(t) = n + 1
    BY <1>1, NewRowidIsNext
<1>3. 1..(n + 1) = 1..n \cup {n + 1}
    OBVIOUS
<1> QED  BY <1>1, <1>2, <1>3 DEF CdIds, Dense, Insert

-----------------------------------------------------------------------------
(* The inductive invariant.                                                *)

\* A database as it is between two iterations.
DbInv(db) ==
    /\ IsDatabase(db)
    /\ Dense(db.cd)
    /\ Dense(db.genre)
    /\ RefersToCds(db)
    /\ \A c \in DOMAIN db.cd : db.cd[c].genre \in DOMAIN db.genre
    /\ \A i, j \in DOMAIN db.genre : db.genre[i] = db.genre[j] => i = j

\* The genre cache is the inverse of the table.
CacheInv(w) ==
    /\ IsTable(w.genres, Genres, CdIds)
    /\ \A id \in DOMAIN w.db.genre :
            /\ w.db.genre[id] \in DOMAIN w.genres
            /\ w.genres[w.db.genre[id]] = id
    /\ \A g \in DOMAIN w.genres :
            /\ w.genres[g] \in DOMAIN w.db.genre
            /\ w.db.genre[w.genres[g]] = g

WorkInv(w) ==
    /\ w = [db |-> w.db, genres |-> w.genres, rep |-> w.rep]
    /\ DbInv(w.db)
    /\ CacheInv(w)
    /\ w.rep \in [Counters -> Int]

LEMMA FreshInv ==
    ASSUME NEW db, DbInv(db)
    PROVE  WorkInv(Fresh(db))
<1>1. \A g \in Range(db.genre) :
        /\ GenreMap(db)[g] \in DOMAIN db.genre
        /\ db.genre[GenreMap(db)[g]] = g
    BY DEF GenreMap, Range
<1>2. IsTable(GenreMap(db), Genres, CdIds)
    BY <1>1 DEF GenreMap, Range, DbInv, IsDatabase, IsTable
<1>3. DOMAIN GenreMap(db) = Range(db.genre)
    BY DEF GenreMap
<1>4. CacheInv(Fresh(db))
    BY <1>1, <1>2, <1>3 DEF CacheInv, Fresh, Range, DbInv
<1> QED  BY <1>4 DEF Fresh, WorkInv

LEMMA BumpType ==
    ASSUME NEW rep \in [Counters -> Int], NEW C
    PROVE  Bump(rep, C) \in [Counters -> Int]
    BY DEF Bump

\* The rows of a table stay as they are.
Grows(s, t) == \A k \in DOMAIN s : k \in DOMAIN t /\ t[k] = s[k]

\* A genre that is looked up is in the cache from then on; nothing else but
\* the genres changes, and no number gets another name.
SameButGenres(x, w) ==
    /\ x.db.cd = w.db.cd
    /\ x.db.tracks = w.db.tracks
    /\ x.db.discid = w.db.discid
    /\ x.db.fuzzyid = w.db.fuzzyid
    /\ x.db.namehash = w.db.namehash
    /\ x.db.fuzzyindex = w.db.fuzzyindex

LEMMA MapGenreInv ==
    ASSUME NEW w, WorkInv(w), NEW g \in Genres
    PROVE  /\ WorkInv(MapGenre(w, g))
           /\ g \in DOMAIN MapGenre(w, g).genres
           /\ MapGenre(w, g).genres[g] \in DOMAIN MapGenre(w, g).db.genre
           /\ MapGenre(w, g).db.genre[MapGenre(w, g).genres[g]] = g
           /\ Grows(w.db.genre, MapGenre(w, g).db.genre)
           /\ SameButGenres(MapGenre(w, g), w)
           /\ MapGenre(w, g).rep = w.rep
<1> DEFINE m == MapGenre(w, g)
<1>1. CASE g \in DOMAIN w.genres
    BY <1>1 DEF MapGenre, WorkInv, CacheInv, SameButGenres, Grows
<1>2. CASE g \notin DOMAIN w.genres
    <2> DEFINE id == NewRowid(w.db.genre)
               gt == Insert(w.db.genre, id, g)
               gc == Insert(w.genres, g, id)
    <2>1. /\ id \in CdIds /\ id \notin DOMAIN w.db.genre
          /\ Dense(gt)
        BY NewRowidIsNew DEF WorkInv, DbInv
    <2>2. /\ IsTable(gt, CdIds, Genres) /\ DOMAIN gt = DOMAIN w.db.genre \cup {id}
          /\ gt[id] = g /\ \A x \in DOMAIN w.db.genre : gt[x] = w.db.genre[x]
        <3> HIDE DEF id
        <3>1. IsTable(w.db.genre, CdIds, Genres)
            BY DEF WorkInv, DbInv, IsDatabase
        <3> QED  BY <2>1, <3>1 DEF IsTable, Insert
    <2>3. /\ IsTable(gc, Genres, CdIds) /\ DOMAIN gc = DOMAIN w.genres \cup {g}
          /\ gc[g] = id /\ \A x \in DOMAIN w.genres : gc[x] = w.genres[x]
        <3> HIDE DEF id
        <3> QED  BY <1>2, <2>1, InsertTable DEF WorkInv, CacheInv
    <2>4. /\ SameButGenres(m, w) /\ m.rep = w.rep
          /\ m.db.genre = gt /\ m.genres = gc
          /\ m = [db |-> m.db, genres |-> m.genres, rep |-> m.rep]
          /\ m.db = [ cd |-> m.db.cd, tracks |-> m.db.tracks,
                      discid |-> m.db.discid, fuzzyid |-> m.db.fuzzyid,
                      namehash |-> m.db.namehash, genre |-> m.db.genre,
                      fuzzyindex |-> m.db.fuzzyindex ]
        BY <1>2 DEF MapGenre, WorkInv, DbInv, IsDatabase, SameButGenres
    <2> HIDE DEF m, gt, gc, id
    <2>5. DbInv(m.db)
        <3>1. IsDatabase(m.db)
            BY <2>2, <2>4 DEF WorkInv, DbInv, IsDatabase, SameButGenres
        <3>2. \A i, j \in DOMAIN gt : gt[i] = gt[j] => i = j
            BY <1>2, <2>1, <2>2 DEF WorkInv, DbInv, CacheInv
        <3>3. RefersToCds(m.db) /\ Dense(m.db.cd) /\ Dense(m.db.genre)
            BY <2>1, <2>4 DEF WorkInv, DbInv, RefersToCds, SameButGenres
        <3>4. \A c \in DOMAIN m.db.cd : m.db.cd[c].genre \in DOMAIN m.db.genre
            BY <2>2, <2>4 DEF WorkInv, DbInv, SameButGenres
        <3> QED  BY <3>1, <3>2, <3>3, <3>4, <2>4 DEF DbInv
    <2>6. CacheInv(m)
        BY <1>2, <2>1, <2>2, <2>3, <2>4 DEF WorkInv, CacheInv
    <2>7. WorkInv(m)
        BY <2>4, <2>5, <2>6 DEF WorkInv
    <2> QED  BY <2>2, <2>3, <2>4, <2>7 DEF m, Grows
<1> QED  BY <1>1, <1>2

-----------------------------------------------------------------------------
(* The operations keep the invariant.                                      *)

LEMMA RecordType ==
    ASSUME NEW r \in Records
    PROVE  /\ r.name \in Names /\ r.songs \in Seq(Songs) /\ r.genre \in Genres
           /\ r.seconds \in Nat /\ r.revision \in Nat /\ r.frames \in Seq(Nat)
           /\ r.frames = <<>> \/ Len(r.frames) = Len(r.songs)
           /\ HashOf(r) \in Hashes
           /\ DiscId(r.seconds, r.frames) \in DiscIds
           /\ FuzzyId(r.seconds, r.frames) \in FuzzyIds
<1>1. r \in DiskRecord
    BY RecordsAssumption
<1> QED  BY <1>1, RecordsAssumption, DigestAssumption DEF DiskRecord, HashOf

LEMMA TrackRowType ==
    ASSUME NEW r \in Records, NEW ct \in 1..Len(r.songs)
    PROVE  TrackRow(r, ct) \in Rows
<1>1. CASE r.frames = <<>>
    BY <1>1, RecordType DEF TrackRow, Rows
<1>2. CASE r.frames # <<>>
    <2>1. Len(r.frames) = Len(r.songs)
        BY <1>2, RecordType
    <2> QED  BY <1>2, <2>1, RecordType DEF TrackRow, Rows
<1> QED  BY <1>1, <1>2

LEMMA TrackRowsType ==
    ASSUME NEW r \in Records
    PROVE  TrackRows(r) \in Seq(Rows)
<1>1. Len(r.songs) \in Nat
    BY RecordType
<1>2. \A ct \in 1..Len(r.songs) : TrackRow(r, ct) \in Rows
    BY TrackRowType
<1> QED  BY <1>1, <1>2 DEF TrackRows

\* What the row of a CD has of its record.
IsRowOf(db, c, r) ==
    /\ db.cd[c].name = r.name
    /\ db.cd[c].seconds = r.seconds
    /\ db.cd[c].revision = r.revision
    /\ db.cd[c].tracks = Len(r.songs)
    /\ GenreName(db, db.cd[c].genre) = r.genre

\* A new CD: its row, its tracks and its hash, under a rowid of its own.
LEMMA WriteRecordInv ==
    ASSUME NEW w, WorkInv(w), NEW r \in Records
    PROVE  LET x    == WriteRecord(w, r)
               cdid == NewRowid(w.db.cd)
           IN  /\ WorkInv(x)
               /\ cdid \in CdIds /\ cdid \notin DOMAIN w.db.cd
               /\ x.db.cd = Insert(w.db.cd, cdid, x.db.cd[cdid])
               /\ x.db.cd[cdid] \in Cds
               /\ IsRowOf(x.db, cdid, r)
               /\ Grows(w.db.genre, x.db.genre)
               /\ x.db.tracks = Insert(w.db.tracks, cdid, TrackRows(r))
               /\ x.db.namehash = Insert(w.db.namehash, HashOf(r), cdid)
               /\ x.db.discid = w.db.discid
               /\ x.db.fuzzyid = w.db.fuzzyid
               /\ x.db.fuzzyindex = w.db.fuzzyindex
               /\ x.rep = Bump(w.rep, {"added"})
<1> DEFINE m    == MapGenre(w, r.genre)
           cdid == NewRowid(w.db.cd)
           row  == CdRow(r, m.genres[r.genre])
           x    == WriteRecord(w, r)
<1>0. r.genre \in Genres /\ HashOf(r) \in Hashes
    BY RecordType
<1>1. /\ WorkInv(m) /\ SameButGenres(m, w) /\ m.genres[r.genre] \in DOMAIN m.db.genre
      /\ m.db.genre[m.genres[r.genre]] = r.genre
      /\ Grows(w.db.genre, m.db.genre)
    BY <1>0, MapGenreInv
<1>2. /\ x.db.cd = Insert(w.db.cd, cdid, row)
      /\ x.db.tracks = Insert(w.db.tracks, cdid, TrackRows(r))
      /\ x.db.namehash = Insert(w.db.namehash, HashOf(r), cdid)
      /\ x.db.discid = w.db.discid
      /\ x.db.fuzzyid = w.db.fuzzyid
      /\ x.db.fuzzyindex = w.db.fuzzyindex
      /\ x.db.genre = m.db.genre
      /\ x.genres = m.genres
      /\ x.rep = Bump(m.rep, {"added"})
      /\ x = [db |-> x.db, genres |-> x.genres, rep |-> x.rep]
      /\ x.db = [ cd |-> x.db.cd, tracks |-> x.db.tracks,
                  discid |-> x.db.discid, fuzzyid |-> x.db.fuzzyid,
                  namehash |-> x.db.namehash, genre |-> x.db.genre,
                  fuzzyindex |-> x.db.fuzzyindex ]
    <2> HIDE DEF m
    <2>1. /\ m = [db |-> m.db, genres |-> m.genres, rep |-> m.rep]
          /\ m.db = [ cd |-> m.db.cd, tracks |-> m.db.tracks,
                      discid |-> m.db.discid, fuzzyid |-> m.db.fuzzyid,
                      namehash |-> m.db.namehash, genre |-> m.db.genre,
                      fuzzyindex |-> m.db.fuzzyindex ]
          /\ NewRowid(m.db.cd) = cdid
        BY <1>1 DEF WorkInv, DbInv, IsDatabase, SameButGenres
    <2>2. x = [m EXCEPT !.db.cd = Insert(@, cdid, row),
                        !.db.namehash = Insert(@, HashOf(r), cdid),
                        !.db.tracks = Insert(@, cdid, TrackRows(r)),
                        !.rep = Bump(@, {"added"})]
        BY <2>1 DEF WriteRecord, m
    <2> HIDE DEF x, cdid, row
    <2> QED  BY <1>1, <2>1, <2>2 DEF SameButGenres
<1>3. cdid \in CdIds /\ cdid \notin DOMAIN w.db.cd /\ Dense(x.db.cd)
    BY <1>2, NewRowidIsNew DEF WorkInv, DbInv
<1>15. m.rep = w.rep
    BY <1>0, MapGenreInv
<1>16. /\ row.name = r.name /\ row.seconds = r.seconds /\ row.revision = r.revision
       /\ row.tracks = Len(r.songs) /\ row.genre = m.genres[r.genre]
    BY DEF CdRow
<1>4. row \in Cds /\ row.genre \in DOMAIN m.db.genre
    BY <1>1, RecordType DEF CdRow, Cds, WorkInv, DbInv, IsDatabase, IsTable, CdIds
<1> HIDE DEF m, cdid, row, x
<1>5. IsTable(w.db.cd, CdIds, Cds) /\ IsTable(w.db.tracks, CdIds, Seq(Rows))
      /\ IsTable(w.db.namehash, Hashes, CdIds) /\ RefersToCds(w.db)
    BY DEF WorkInv, DbInv, IsDatabase
<1>6. /\ IsTable(x.db.cd, CdIds, Cds)
      /\ DOMAIN x.db.cd = DOMAIN w.db.cd \cup {cdid}
      /\ x.db.cd[cdid] = row
      /\ \A c \in DOMAIN w.db.cd : x.db.cd[c] = w.db.cd[c]
    BY <1>2, <1>3, <1>4, <1>5 DEF IsTable, Insert
<1>7. /\ IsTable(x.db.tracks, CdIds, Seq(Rows))
      /\ DOMAIN x.db.tracks = DOMAIN w.db.tracks \cup {cdid}
    BY <1>2, <1>3, <1>5, TrackRowsType DEF IsTable, Insert
<1>8. /\ IsTable(x.db.namehash, Hashes, CdIds)
      /\ Range(x.db.namehash) \subseteq Range(w.db.namehash) \cup {cdid}
    <2>1. /\ IsTable(x.db.namehash, Hashes, CdIds)
          /\ DOMAIN x.db.namehash = DOMAIN w.db.namehash \cup {HashOf(r)}
          /\ x.db.namehash[HashOf(r)] = cdid
          /\ \A h \in DOMAIN w.db.namehash : h # HashOf(r) => x.db.namehash[h] = w.db.namehash[h]
        BY <1>0, <1>2, <1>3, <1>5 DEF IsTable, Insert
    <2> QED  BY <2>1 DEF Range
<1>9. IsDatabase(x.db)
    BY <1>1, <1>2, <1>6, <1>7, <1>8 DEF IsDatabase, WorkInv, DbInv, SameButGenres
<1>10. RefersToCds(x.db)
    BY <1>2, <1>5, <1>6, <1>7, <1>8 DEF RefersToCds
<1>11. \A c \in DOMAIN x.db.cd : x.db.cd[c].genre \in DOMAIN x.db.genre
    BY <1>1, <1>2, <1>4, <1>6 DEF WorkInv, DbInv, SameButGenres
<1>12. DbInv(x.db)
    BY <1>1, <1>2, <1>3, <1>9, <1>10, <1>11 DEF DbInv, WorkInv
<1>13. CacheInv(x) /\ x.rep \in [Counters -> Int]
    BY <1>1, <1>2, BumpType DEF WorkInv, CacheInv
<1>14. WorkInv(x)
    BY <1>2, <1>12, <1>13 DEF WorkInv
<1>17. IsRowOf(x.db, cdid, r)
    BY <1>1, <1>2, <1>6, <1>16 DEF IsRowOf, GenreName
<1> QED  BY <1>1, <1>2, <1>3, <1>4, <1>6, <1>14, <1>15, <1>17 DEF x, cdid

\* What the clients see of a database, and what an iteration may do to it: the
\* lengths of a CD stay, and so do links, hashes and the names of genres.
Lengths(db, c) ==
    [ seconds |-> db.cd[c].seconds,
      frames  |-> [ct \in DOMAIN db.tracks[c] |-> db.tracks[c][ct].frames] ]

Begins(s, t) == Store!IsPrefix(s, t)

Keeps(x, y) ==
    /\ DOMAIN y.cd \subseteq DOMAIN x.cd
    /\ \A c \in DOMAIN y.cd : Lengths(x, c) = Lengths(y, c)
    /\ \A d \in DiscIds : Begins(y.discid[d], x.discid[d])
    /\ \A f \in FuzzyIds : Begins(y.fuzzyid[f], x.fuzzyid[f])
    /\ Grows(y.namehash, x.namehash)
    /\ Grows(y.genre, x.genre)

LEMMA PrefixReflexive ==
    ASSUME NEW S, NEW s \in Seq(S)
    PROVE  Begins(s, s)
    BY DEF Begins, Store!IsPrefix

LEMMA PrefixAppend ==
    ASSUME NEW S, NEW s \in Seq(S), NEW t \in Seq(S), NEW e \in S, Begins(s, t)
    PROVE  Begins(s, Append(t, e))
    BY DEF Begins, Store!IsPrefix

LEMMA KeepsReflexive ==
    ASSUME NEW db, IsDatabase(db)
    PROVE  Keeps(db, db)
    BY PrefixReflexive DEF Keeps, IsDatabase, Grows

\* An iteration that leaves the links and the CDs it finds alone.
SameLinks(x, y) == x.discid = y.discid /\ x.fuzzyid = y.fuzzyid

\* What the tables say of CD ecd is replaced by the record; when the record
\* has the same track lengths, nobody sees another length.
LEMMA UpdateRecordInv ==
    ASSUME NEW w, WorkInv(w), NEW r \in Records, NEW ecd \in DOMAIN w.db.cd,
           SameFrames(r, ReadRecord(w.db, ecd))
    PROVE  LET x == UpdateRecord(w, ecd, r)
           IN  /\ WorkInv(x)
               /\ DOMAIN x.db.cd = DOMAIN w.db.cd
               /\ \A c \in DOMAIN w.db.cd : Lengths(x.db, c) = Lengths(w.db, c)
               /\ SameLinks(x.db, w.db)
               /\ \A c \in DOMAIN w.db.cd : c # ecd =>
                    x.db.cd[c] = w.db.cd[c] /\ x.db.tracks[c] = w.db.tracks[c]
               /\ IsRowOf(x.db, ecd, r)
               /\ w.db.tracks[ecd] # <<>> => x.db.tracks[ecd] = TrackRows(r)
               /\ w.db.tracks[ecd] = <<>> => r.frames = <<>>
               /\ x.db.namehash = w.db.namehash
               /\ Grows(w.db.genre, x.db.genre)
               /\ x.db.fuzzyindex = w.db.fuzzyindex
               /\ x.rep = Bump(w.rep, {"updated"})
<1> DEFINE m     == MapGenre(w, r.genre)
           row   == CdRow(r, m.genres[r.genre])
           old   == w.db.tracks[ecd]
           rows  == [ct \in DOMAIN old |->
                        IF ct <= Len(r.songs) THEN TrackRow(r, ct) ELSE old[ct]]
           x     == UpdateRecord(w, ecd, r)
<1>0. r.genre \in Genres
    BY RecordType
<1>1. /\ WorkInv(m) /\ SameButGenres(m, w) /\ m.genres[r.genre] \in DOMAIN m.db.genre
      /\ m.db.genre[m.genres[r.genre]] = r.genre
      /\ Grows(w.db.genre, m.db.genre)
    BY <1>0, MapGenreInv
<1> HIDE DEF m
<1>2. /\ x.db.cd = [w.db.cd EXCEPT ![ecd] = row]
      /\ x.db.tracks = [w.db.tracks EXCEPT ![ecd] = rows]
      /\ x.db.namehash = w.db.namehash
      /\ SameLinks(x.db, w.db)
      /\ x.db.fuzzyindex = w.db.fuzzyindex
      /\ x.db.genre = m.db.genre
      /\ x.genres = m.genres
      /\ x.rep = Bump(m.rep, {"updated"})
      /\ x = [db |-> x.db, genres |-> x.genres, rep |-> x.rep]
      /\ x.db = [ cd |-> x.db.cd, tracks |-> x.db.tracks,
                  discid |-> x.db.discid, fuzzyid |-> x.db.fuzzyid,
                  namehash |-> x.db.namehash, genre |-> x.db.genre,
                  fuzzyindex |-> x.db.fuzzyindex ]
    <2>1. /\ m = [db |-> m.db, genres |-> m.genres, rep |-> m.rep]
          /\ m.db = [ cd |-> m.db.cd, tracks |-> m.db.tracks,
                      discid |-> m.db.discid, fuzzyid |-> m.db.fuzzyid,
                      namehash |-> m.db.namehash, genre |-> m.db.genre,
                      fuzzyindex |-> m.db.fuzzyindex ]
          /\ m.db.tracks[ecd] = old
          /\ ecd \in DOMAIN m.db.cd /\ ecd \in DOMAIN m.db.tracks
        BY <1>1 DEF WorkInv, DbInv, IsDatabase, SameButGenres, RefersToCds
    <2>2. x = [m EXCEPT !.db.cd = [@ EXCEPT ![ecd] = row],
                        !.db.tracks = [@ EXCEPT ![ecd] = rows],
                        !.rep = Bump(@, {"updated"})]
        BY <2>1 DEF UpdateRecord, m
    <2> HIDE DEF x, row, rows, old
    <2> QED  BY <1>1, <2>1, <2>2 DEF SameButGenres, SameLinks
<1>3. /\ row \in Cds /\ row.genre \in DOMAIN m.db.genre
      /\ row.name = r.name /\ row.seconds = r.seconds /\ row.revision = r.revision
      /\ row.tracks = Len(r.songs) /\ row.genre = m.genres[r.genre]
    BY <1>1, RecordType DEF CdRow, Cds, WorkInv, DbInv, IsDatabase, IsTable, CdIds
<1>4. /\ IsTable(w.db.cd, CdIds, Cds) /\ IsTable(w.db.tracks, CdIds, Seq(Rows))
      /\ RefersToCds(w.db) /\ DOMAIN w.db.tracks = DOMAIN w.db.cd
    BY DEF WorkInv, DbInv, IsDatabase, RefersToCds
<1>5. old \in Seq(Rows)
    BY <1>4 DEF IsTable
<1>6. rows \in Seq(Rows)
    <2>1. \A ct \in 1..Len(old) : rows[ct] \in Rows
        BY <1>5, TrackRowType
    <2> HIDE DEF old
    <2> QED  BY <1>5, <2>1
<1>7. w.db.cd[ecd].seconds = r.seconds
      /\ [ct \in DOMAIN old |-> old[ct].frames] = r.frames
    BY DEF SameFrames, ReadRecord
<1>18. ASSUME old # <<>> PROVE rows = TrackRows(r)
    <2>1. r.frames # <<>> /\ Len(r.frames) = Len(old)
        BY <1>5, <1>7, <1>18
    <2>2. Len(r.frames) = Len(r.songs)
        BY <2>1, RecordType
    <2> HIDE DEF old
    <2>3. DOMAIN old = 1..Len(r.songs) /\ Len(r.songs) \in Nat
        <3>1. DOMAIN old = 1..Len(old) /\ Len(old) \in Nat
            BY <1>5
        <3>2. Len(old) = Len(r.songs)
            BY <2>1, <2>2
        <3> QED  BY <3>1, <3>2
    <2>4. \A ct \in DOMAIN old : ct <= Len(r.songs)
        BY <2>3
    <2>5. rows = [ct \in DOMAIN old |-> TrackRow(r, ct)]
        BY <2>4, Zenon
    <2> HIDE DEF rows
    <2> QED  BY <2>3, <2>5 DEF TrackRows
<1>8. \A ct \in DOMAIN old : rows[ct].frames = old[ct].frames
    <2> SUFFICES ASSUME NEW ct \in DOMAIN old, ct <= Len(r.songs)
                 PROVE  TrackRow(r, ct).frames = old[ct].frames
        OBVIOUS
    <2>1. r.frames # <<>>
        BY <1>7
    <2> QED  BY <1>7, <2>1 DEF TrackRow
<1> HIDE DEF x, row, rows, old
<1>9. /\ IsTable(x.db.cd, CdIds, Cds) /\ DOMAIN x.db.cd = DOMAIN w.db.cd
      /\ x.db.cd[ecd] = row
      /\ \A c \in DOMAIN w.db.cd : c # ecd => x.db.cd[c] = w.db.cd[c]
    BY <1>2, <1>3, <1>4 DEF IsTable
<1>10. /\ IsTable(x.db.tracks, CdIds, Seq(Rows))
       /\ DOMAIN x.db.tracks = DOMAIN w.db.tracks
       /\ x.db.tracks[ecd] = rows
       /\ \A c \in DOMAIN w.db.cd : c # ecd => x.db.tracks[c] = w.db.tracks[c]
    BY <1>2, <1>4, <1>6 DEF IsTable
<1>11. \A c \in DOMAIN w.db.cd : Lengths(x.db, c) = Lengths(w.db, c)
    <2> SUFFICES ASSUME NEW c \in DOMAIN w.db.cd
                 PROVE  Lengths(x.db, c) = Lengths(w.db, c)
        OBVIOUS
    <2>1. CASE c = ecd
        <3>1. DOMAIN rows = DOMAIN old
            BY DEF rows
        <3> QED  BY <1>3, <1>7, <1>8, <1>9, <1>10, <2>1, <3>1 DEF Lengths, old
    <2>2. CASE c # ecd
        BY <1>9, <1>10, <2>2 DEF Lengths
    <2> QED  BY <2>1, <2>2
<1>12. IsDatabase(x.db)
    BY <1>1, <1>2, <1>9, <1>10 DEF IsDatabase, WorkInv, DbInv, SameButGenres, SameLinks
<1>13. RefersToCds(x.db) /\ Dense(x.db.cd)
    BY <1>2, <1>4, <1>9, <1>10 DEF RefersToCds, WorkInv, DbInv, Dense, SameLinks
<1>14. \A c \in DOMAIN x.db.cd : x.db.cd[c].genre \in DOMAIN x.db.genre
    BY <1>1, <1>2, <1>3, <1>9 DEF WorkInv, DbInv, SameButGenres
<1>15. DbInv(x.db)
    BY <1>1, <1>2, <1>12, <1>13, <1>14 DEF DbInv, WorkInv
<1>16. CacheInv(x) /\ x.rep \in [Counters -> Int]
    BY <1>1, <1>2, BumpType DEF WorkInv, CacheInv
<1>17. WorkInv(x)
    BY <1>2, <1>15, <1>16 DEF WorkInv
<1>19. m.rep = w.rep
    BY <1>0, MapGenreInv DEF m
<1>20. w.db.tracks[ecd] # <<>> => x.db.tracks[ecd] = TrackRows(r)
    BY <1>10, <1>18 DEF old
<1>21. IsRowOf(x.db, ecd, r)
    BY <1>1, <1>2, <1>3, <1>9 DEF IsRowOf, GenreName
<1>22. w.db.tracks[ecd] = <<>> => r.frames = <<>>
    BY <1>7 DEF old
<1> QED  BY <1>1, <1>2, <1>9, <1>10, <1>11, <1>17, <1>19, <1>20, <1>21, <1>22 DEF x

\* The counters are apart from the tables.
LEMMA CountInv ==
    ASSUME NEW w, WorkInv(w), NEW C
    PROVE  LET x == [w EXCEPT !.rep = Bump(@, C)]
           IN  WorkInv(x) /\ x.db = w.db /\ x.rep = Bump(w.rep, C)
<1> DEFINE x == [w EXCEPT !.rep = Bump(@, C)]
<1>1. /\ x.db = w.db /\ x.genres = w.genres /\ x.rep = Bump(w.rep, C)
      /\ x = [db |-> x.db, genres |-> x.genres, rep |-> x.rep]
    BY DEF WorkInv
<1>2. x.rep \in [Counters -> Int]
    BY <1>1, BumpType DEF WorkInv
<1> HIDE DEF x
<1>3. CacheInv(x)
    BY <1>1 DEF WorkInv, CacheInv
<1>4. WorkInv(x)
    BY <1>1, <1>2, <1>3 DEF WorkInv
<1> QED  BY <1>1, <1>4 DEF x

\* The first stage leaves a CD for the record, and the others as they were.
LEMMA TitleStageInv ==
    ASSUME NEW w, WorkInv(w), NEW r \in Records
    PROVE  LET x    == TitleStage(w, r)
               cdid == CdidOf(w, r)
           IN  /\ WorkInv(x)
               /\ cdid \in DOMAIN x.db.cd
               /\ SameLinks(x.db, w.db)
               /\ DOMAIN w.db.cd \subseteq DOMAIN x.db.cd
               /\ \A c \in DOMAIN w.db.cd : Lengths(x.db, c) = Lengths(w.db, c)
               /\ \A c \in DOMAIN w.db.cd :
                    x.db.cd[c] = w.db.cd[c] /\ x.db.tracks[c] = w.db.tracks[c]
               /\ x.db.fuzzyindex = w.db.fuzzyindex
               /\ Grows(w.db.namehash, x.db.namehash)
               /\ Grows(w.db.genre, x.db.genre)
               /\ HashOf(r) \in DOMAIN x.db.namehash
               /\ x.db.namehash[HashOf(r)] = cdid
               /\ KnownTitle(w, r) =>
                    x.db = w.db /\ x.rep = Bump(w.rep, {"rct", "dcrcct"})
               /\ ~KnownTitle(w, r) =>
                    /\ cdid \notin DOMAIN w.db.cd
                    /\ DOMAIN x.db.cd = DOMAIN w.db.cd \cup {cdid}
                    /\ IsRowOf(x.db, cdid, r)
                    /\ x.db.tracks[cdid] = TrackRows(r)
                    /\ x.rep = Bump(Bump(w.rep, {"added"}), {"rct"})
<1> DEFINE x == TitleStage(w, r)
           cdid == CdidOf(w, r)
<1>1. CASE KnownTitle(w, r)
    <2>1. WorkInv(x) /\ x.db = w.db /\ x.rep = Bump(w.rep, {"rct", "dcrcct"})
        BY <1>1, CountInv DEF TitleStage
    <2>2. cdid \in DOMAIN w.db.cd
        BY <1>1 DEF CdidOf, KnownTitle, WorkInv, DbInv, RefersToCds, Range
    <2>3. HashOf(r) \in DOMAIN w.db.namehash /\ w.db.namehash[HashOf(r)] = cdid
        BY <1>1 DEF CdidOf, KnownTitle
    <2> QED  BY <1>1, <2>1, <2>2, <2>3 DEF SameLinks, Grows
<1>2. CASE ~KnownTitle(w, r)
    <2> DEFINE y == WriteRecord(w, r)
               id == NewRowid(w.db.cd)
    <2>1. /\ WorkInv(y)
          /\ id \in CdIds /\ id \notin DOMAIN w.db.cd
          /\ y.db.cd = Insert(w.db.cd, id, y.db.cd[id])
          /\ IsRowOf(y.db, id, r)
          /\ Grows(w.db.genre, y.db.genre)
          /\ y.db.tracks = Insert(w.db.tracks, id, TrackRows(r))
          /\ y.db.namehash = Insert(w.db.namehash, HashOf(r), id)
          /\ y.db.discid = w.db.discid
          /\ y.db.fuzzyid = w.db.fuzzyid
          /\ y.db.fuzzyindex = w.db.fuzzyindex
          /\ y.rep = Bump(w.rep, {"added"})
        BY WriteRecordInv
    <2>2. x = [y EXCEPT !.rep = Bump(@, {"rct"})] /\ cdid = id
        BY <1>2 DEF TitleStage, CdidOf
    <2> HIDE DEF y, id, x, cdid
    <2>3. WorkInv(x) /\ x.db = y.db /\ x.rep = Bump(y.rep, {"rct"})
        BY <2>1, <2>2, CountInv
    <2>4. DOMAIN w.db.tracks = DOMAIN w.db.cd
        BY DEF WorkInv, DbInv, RefersToCds
    <2>5. \A c \in DOMAIN w.db.cd : Lengths(y.db, c) = Lengths(w.db, c)
        BY <2>1, <2>4 DEF Insert, Lengths
    <2>6. DOMAIN y.db.cd = DOMAIN w.db.cd \cup {id}
          /\ y.db.tracks[id] = TrackRows(r)
          /\ \A c \in DOMAIN w.db.cd :
                y.db.cd[c] = w.db.cd[c] /\ y.db.tracks[c] = w.db.tracks[c]
        <3>1. DOMAIN y.db.cd = DOMAIN w.db.cd \cup {id}
              /\ \A c \in DOMAIN w.db.cd : y.db.cd[c] = w.db.cd[c]
            BY <2>1 DEF Insert
        <3>2. y.db.tracks[id] = TrackRows(r)
              /\ \A c \in DOMAIN w.db.cd : y.db.tracks[c] = w.db.tracks[c]
            BY <2>1, <2>4 DEF Insert
        <3> QED  BY <3>1, <3>2
    <2>7. /\ Grows(w.db.namehash, y.db.namehash)
          /\ HashOf(r) \in DOMAIN y.db.namehash /\ y.db.namehash[HashOf(r)] = id
        BY <1>2, <2>1 DEF Insert, Grows, KnownTitle
    <2> QED  BY <1>2, <2>1, <2>2, <2>3, <2>5, <2>6, <2>7 DEF SameLinks, x, cdid
<1> QED  BY <1>1, <1>2

LEMMA UpdatedTables ==
    ASSUME NEW y, NEW x, NEW a, NEW b, NEW c,
           y = [ cd |-> y.cd, tracks |-> y.tracks, discid |-> y.discid,
                 fuzzyid |-> y.fuzzyid, namehash |-> y.namehash,
                 genre |-> y.genre, fuzzyindex |-> y.fuzzyindex ],
           x = [y EXCEPT !.cd = a, !.tracks = b, !.namehash = c]
    PROVE  /\ x.cd = a /\ x.tracks = b /\ x.namehash = c
           /\ x.discid = y.discid /\ x.fuzzyid = y.fuzzyid
           /\ x.genre = y.genre /\ x.fuzzyindex = y.fuzzyindex
           /\ x = [ cd |-> x.cd, tracks |-> x.tracks, discid |-> x.discid,
                    fuzzyid |-> x.fuzzyid, namehash |-> x.namehash,
                    genre |-> x.genre, fuzzyindex |-> x.fuzzyindex ]
    OBVIOUS

\* Deleting the record that was just written undoes the writing, but for the
\* genre it may have brought: no row that was there before is touched, and
\* nothing refers to the deleted one.
LEMMA DeleteWrittenInv ==
    ASSUME NEW w, WorkInv(w), NEW r \in Records, ~KnownTitle(w, r), NEW C
    PROVE  LET t == TitleStage(w, r)
               c == [t EXCEPT !.rep = Bump(@, C)]
               x == DeleteRecord(c, CdidOf(w, r), HashOf(r))
           IN  /\ WorkInv(x)
               /\ x.db.cd = w.db.cd /\ x.db.tracks = w.db.tracks
               /\ x.db.namehash = w.db.namehash
               /\ Grows(w.db.genre, x.db.genre)
               /\ SameLinks(x.db, w.db)
               /\ x.db.fuzzyindex = w.db.fuzzyindex
               /\ x.rep = [Bump(t.rep, C) EXCEPT !["added"] = @ - 1]
<1> DEFINE y  == WriteRecord(w, r)
           id == NewRowid(w.db.cd)
           t  == TitleStage(w, r)
           c  == [t EXCEPT !.rep = Bump(@, C)]
           x  == DeleteRecord(c, CdidOf(w, r), HashOf(r))
<1>1. /\ WorkInv(y)
      /\ id \in CdIds /\ id \notin DOMAIN w.db.cd
      /\ y.db.cd = Insert(w.db.cd, id, y.db.cd[id])
      /\ y.db.cd[id] \in Cds
      /\ y.db.tracks = Insert(w.db.tracks, id, TrackRows(r))
      /\ y.db.namehash = Insert(w.db.namehash, HashOf(r), id)
      /\ Grows(w.db.genre, y.db.genre)
      /\ SameLinks(y.db, w.db)
      /\ y.db.fuzzyindex = w.db.fuzzyindex
    BY WriteRecordInv DEF SameLinks
<1>2. t = [y EXCEPT !.rep = Bump(@, {"rct"})] /\ CdidOf(w, r) = id
    BY DEF TitleStage, CdidOf
<1> HIDE DEF y, id
<1>3. WorkInv(t) /\ t.db = y.db
    BY <1>1, <1>2, CountInv
<1> HIDE DEF t
<1>4. WorkInv(c) /\ c.db = y.db /\ c.rep = Bump(t.rep, C)
    BY <1>3, CountInv
<1> HIDE DEF c
<1>5. /\ x.db.cd = Delete(y.db.cd, id)
      /\ x.db.tracks = Delete(y.db.tracks, id)
      /\ x.db.namehash = Delete(y.db.namehash, HashOf(r))
      /\ x.db.discid = y.db.discid
      /\ x.db.fuzzyid = y.db.fuzzyid
      /\ x.db.fuzzyindex = y.db.fuzzyindex
      /\ x.db.genre = y.db.genre
      /\ x.genres = c.genres
      /\ x.rep = [c.rep EXCEPT !["added"] = @ - 1]
      /\ x = [db |-> x.db, genres |-> x.genres, rep |-> x.rep]
      /\ x.db = [ cd |-> x.db.cd, tracks |-> x.db.tracks,
                  discid |-> x.db.discid, fuzzyid |-> x.db.fuzzyid,
                  namehash |-> x.db.namehash, genre |-> x.db.genre,
                  fuzzyindex |-> x.db.fuzzyindex ]
    <2>1. /\ c = [db |-> c.db, genres |-> c.genres, rep |-> c.rep]
          /\ y.db = [ cd |-> y.db.cd, tracks |-> y.db.tracks,
                      discid |-> y.db.discid, fuzzyid |-> y.db.fuzzyid,
                      namehash |-> y.db.namehash, genre |-> y.db.genre,
                      fuzzyindex |-> y.db.fuzzyindex ]
        BY <1>1, <1>4 DEF WorkInv, DbInv, IsDatabase
    <2>2. x = DeleteRecord(c, id, HashOf(r))
        BY <1>2
    <2> HIDE DEF x
    <2>3. x = [db     |-> [c.db EXCEPT
                                !.cd       = Delete(c.db.cd, id),
                                !.tracks   = Delete(c.db.tracks, id),
                                !.namehash = Delete(c.db.namehash, HashOf(r))],
               genres |-> c.genres,
               rep    |-> [c.rep EXCEPT !["added"] = @ - 1]]
        BY <1>4, <2>1, <2>2 DEF DeleteRecord
    <2>4. /\ x.db = [c.db EXCEPT !.cd       = Delete(c.db.cd, id),
                                 !.tracks   = Delete(c.db.tracks, id),
                                 !.namehash = Delete(c.db.namehash, HashOf(r))]
          /\ x.genres = c.genres
          /\ x.rep = [c.rep EXCEPT !["added"] = @ - 1]
          /\ x = [db |-> x.db, genres |-> x.genres, rep |-> x.rep]
        BY <2>3
    <2>5. x.db = [y.db EXCEPT !.cd       = Delete(y.db.cd, id),
                              !.tracks   = Delete(y.db.tracks, id),
                              !.namehash = Delete(y.db.namehash, HashOf(r))]
        BY <1>4, <2>4
    <2> QED  BY <2>1, <2>4, <2>5, UpdatedTables
<1>6. /\ IsTable(w.db.cd, CdIds, Cds) /\ IsTable(w.db.tracks, CdIds, Seq(Rows))
      /\ IsTable(w.db.namehash, Hashes, CdIds) /\ Dense(w.db.cd)
      /\ RefersToCds(w.db)
    BY DEF WorkInv, DbInv, IsDatabase
<1>7. x.db.cd = w.db.cd
    <2>1. id \notin DOMAIN w.db.cd
        BY <1>1
    <2>2. ASSUME NEW v
          PROVE  Delete(Insert(w.db.cd, id, v), id) = w.db.cd
        BY <1>6, <2>1 DEF IsTable, Insert, Delete, Restrict
    <2> QED  BY <1>1, <1>5, <2>2
<1>8. x.db.tracks = w.db.tracks
    <2>1. id \notin DOMAIN w.db.tracks
        BY <1>1, <1>6 DEF RefersToCds
    <2>2. Delete(Insert(w.db.tracks, id, TrackRows(r)), id) = w.db.tracks
        BY <1>6, <2>1 DEF IsTable, Insert, Delete, Restrict
    <2> QED  BY <1>1, <1>5, <2>2
<1>9. x.db.namehash = w.db.namehash
    <2>1. HashOf(r) \notin DOMAIN w.db.namehash
        BY DEF KnownTitle
    <2>2. Delete(Insert(w.db.namehash, HashOf(r), id), HashOf(r)) = w.db.namehash
        BY <1>6, <2>1 DEF IsTable, Insert, Delete, Restrict
    <2> QED  BY <1>1, <1>5, <2>2
<1> HIDE DEF x
<1>10. SameLinks(x.db, w.db) /\ RefersToCds(x.db)
    BY <1>1, <1>5, <1>6, <1>7, <1>8, <1>9 DEF SameLinks, RefersToCds
<1>11. IsDatabase(x.db)
    BY <1>1, <1>5, <1>6, <1>7, <1>8, <1>9 DEF WorkInv, DbInv, IsDatabase
<1>12. \A k \in DOMAIN x.db.cd : x.db.cd[k].genre \in DOMAIN x.db.genre
    <2>1. \A k \in DOMAIN w.db.cd : k \in DOMAIN y.db.cd /\ y.db.cd[k] = w.db.cd[k]
        BY <1>1 DEF Insert
    <2> QED  BY <1>1, <1>5, <1>7, <2>1 DEF WorkInv, DbInv
<1>13. DbInv(x.db)
    BY <1>1, <1>5, <1>6, <1>7, <1>10, <1>11, <1>12 DEF WorkInv, DbInv
<1>14. CacheInv(x) /\ x.rep \in [Counters -> Int]
    BY <1>4, <1>5 DEF WorkInv, CacheInv, Counters
<1>15. WorkInv(x)
    BY <1>5, <1>13, <1>14 DEF WorkInv
<1>16. x.rep = [Bump(t.rep, C) EXCEPT !["added"] = @ - 1]
    BY <1>4, <1>5
<1>17. x.db.fuzzyindex = w.db.fuzzyindex /\ Grows(w.db.genre, x.db.genre)
    BY <1>1, <1>5
<1> HIDE DEF c
<1> QED  BY <1>7, <1>8, <1>9, <1>10, <1>15, <1>16, <1>17 DEF x, c, t

LEMMA KeepsTransitive ==
    ASSUME NEW x, NEW y, NEW z, IsDatabase(x), IsDatabase(y), IsDatabase(z),
           Keeps(x, y), Keeps(y, z)
    PROVE  Keeps(x, z)
<1>1. ASSUME NEW s \in Seq(CdIds), NEW t \in Seq(CdIds), NEW u \in Seq(CdIds),
             Begins(s, t), Begins(t, u)
      PROVE  Begins(s, u)
    BY <1>1 DEF Begins, Store!IsPrefix
<1>2. \A d \in DiscIds : Begins(z.discid[d], x.discid[d])
    <2> SUFFICES ASSUME NEW d \in DiscIds
                 PROVE  Begins(z.discid[d], x.discid[d])
        OBVIOUS
    <2>1. /\ Begins(z.discid[d], y.discid[d]) /\ Begins(y.discid[d], x.discid[d])
          /\ z.discid[d] \in Seq(CdIds) /\ y.discid[d] \in Seq(CdIds)
          /\ x.discid[d] \in Seq(CdIds)
        BY DEF Keeps, IsDatabase
    <2> QED  BY <1>1, <2>1
<1>3. \A f \in FuzzyIds : Begins(z.fuzzyid[f], x.fuzzyid[f])
    <2> SUFFICES ASSUME NEW f \in FuzzyIds
                 PROVE  Begins(z.fuzzyid[f], x.fuzzyid[f])
        OBVIOUS
    <2>1. /\ Begins(z.fuzzyid[f], y.fuzzyid[f]) /\ Begins(y.fuzzyid[f], x.fuzzyid[f])
          /\ z.fuzzyid[f] \in Seq(CdIds) /\ y.fuzzyid[f] \in Seq(CdIds)
          /\ x.fuzzyid[f] \in Seq(CdIds)
        BY DEF Keeps, IsDatabase
    <2> QED  BY <1>1, <2>1
<1>4. /\ DOMAIN z.cd \subseteq DOMAIN x.cd
      /\ \A c \in DOMAIN z.cd : Lengths(x, c) = Lengths(z, c)
    BY DEF Keeps
<1>5. Grows(z.namehash, x.namehash) /\ Grows(z.genre, x.genre)
    BY DEF Keeps, Grows
<1> QED  BY <1>2, <1>3, <1>4, <1>5 DEF Keeps

\* The same track lengths, in terms of what clients see.
LEMMA SameFramesLengths ==
    ASSUME NEW db, NEW c, NEW r
    PROVE  SameFrames(r, ReadRecord(db, c))
            <=> /\ Lengths(db, c).seconds = r.seconds
                /\ Lengths(db, c).frames = r.frames
    BY DEF SameFrames, ReadRecord, Lengths

LEMMA LinkAdded ==
    ASSUME NEW T, NEW s \in Seq(CdIds), \A i \in DOMAIN s : s[i] \in T,
           NEW e \in CdIds, e \in T
    PROVE  /\ Begins(s, Append(s, e))
           /\ \A i \in DOMAIN Append(s, e) : Append(s, e)[i] \in T
    BY PrefixReflexive, PrefixAppend

LEMMA LastLink ==
    ASSUME NEW s \in Seq(CdIds), NEW e \in CdIds
    PROVE  Append(s, e) # <<>> /\ e \in Range(Append(s, e))
<1>1. Len(Append(s, e)) = Len(s) + 1 /\ Append(s, e)[Len(s) + 1] = e
    OBVIOUS
<1>2. Len(s) + 1 \in DOMAIN Append(s, e)
    OBVIOUS
<1> QED  BY <1>1, <1>2 DEF Range

\* A link to a CD that exists is added at the end.
LEMMA WriteLinksInv ==
    ASSUME NEW w, WorkInv(w), NEW r \in Records, NEW cdid \in DOMAIN w.db.cd
    PROVE  LET x == WriteLinks(w, r, cdid)
           IN  /\ WorkInv(x) /\ Keeps(x.db, w.db)
               /\ x.db.cd = w.db.cd /\ x.db.tracks = w.db.tracks
               /\ x.db.fuzzyindex = w.db.fuzzyindex
               /\ x.rep = w.rep
               /\ x.db.namehash = w.db.namehash /\ x.db.genre = w.db.genre
               /\ Linked(x.db, cdid)
               /\ cdid \in Range(x.db.discid[DiscId(r.seconds, r.frames)])
               /\ cdid \in Range(x.db.fuzzyid[FuzzyId(r.seconds, r.frames)])
<1> DEFINE x == WriteLinks(w, r, cdid)
           d == DiscId(r.seconds, r.frames)
           f == FuzzyId(r.seconds, r.frames)
<1>1. d \in DiscIds /\ f \in FuzzyIds
    BY RecordType
<1> HIDE DEF d, f
<1>2. /\ IsDatabase(w.db) /\ RefersToCds(w.db)
      /\ cdid \in CdIds
    BY DEF WorkInv, DbInv, IsDatabase, IsTable
<1>3. /\ x.db.discid = [w.db.discid EXCEPT ![d] = Append(@, cdid)]
      /\ x.db.fuzzyid = [w.db.fuzzyid EXCEPT ![f] = Append(@, cdid)]
      /\ x.db.cd = w.db.cd
      /\ x.db.tracks = w.db.tracks
      /\ x.db.namehash = w.db.namehash
      /\ x.db.fuzzyindex = w.db.fuzzyindex
      /\ x.db.genre = w.db.genre
      /\ x.genres = w.genres
      /\ x.rep = w.rep
      /\ x = [db |-> x.db, genres |-> x.genres, rep |-> x.rep]
      /\ x.db = [ cd |-> x.db.cd, tracks |-> x.db.tracks,
                  discid |-> x.db.discid, fuzzyid |-> x.db.fuzzyid,
                  namehash |-> x.db.namehash, genre |-> x.db.genre,
                  fuzzyindex |-> x.db.fuzzyindex ]
    <2> DEFINE dt == [w.db.discid EXCEPT ![d] = Append(w.db.discid[d], cdid)]
               ft == [w.db.fuzzyid EXCEPT ![f] = Append(w.db.fuzzyid[f], cdid)]
    <2>1. /\ w = [db |-> w.db, genres |-> w.genres, rep |-> w.rep]
          /\ w.db = [ cd |-> w.db.cd, tracks |-> w.db.tracks,
                      discid |-> w.db.discid, fuzzyid |-> w.db.fuzzyid,
                      namehash |-> w.db.namehash, genre |-> w.db.genre,
                      fuzzyindex |-> w.db.fuzzyindex ]
        BY <1>2 DEF WorkInv, IsDatabase
    <2>2. x = [w EXCEPT !.db.discid = dt, !.db.fuzzyid = ft]
        BY <2>1 DEF WriteLinks, d, f
    <2> HIDE DEF x, dt, ft
    <2>3. /\ x.db.discid = dt
          /\ x.db.fuzzyid = ft
        BY <2>1, <2>2
    <2> QED  BY <2>1, <2>2, <2>3 DEF dt, ft
<1> HIDE DEF x
<1>4. /\ x.db.discid \in [DiscIds -> Seq(CdIds)]
      /\ x.db.fuzzyid \in [FuzzyIds -> Seq(CdIds)]
    BY <1>1, <1>2, <1>3 DEF IsDatabase
<1>5. ASSUME NEW e \in DiscIds
      PROVE  /\ Range(x.db.discid[e]) \subseteq DOMAIN w.db.cd
             /\ Begins(w.db.discid[e], x.db.discid[e])
    <2>1. w.db.discid[e] \in Seq(CdIds) /\ Range(w.db.discid[e]) \subseteq DOMAIN w.db.cd
        BY <1>2 DEF IsDatabase, RefersToCds
    <2>2. x.db.discid[e] \in {w.db.discid[e], Append(w.db.discid[e], cdid)}
        BY <1>2, <1>3 DEF IsDatabase
    <2> DEFINE T == DOMAIN w.db.cd
               s == w.db.discid[e]
               u == x.db.discid[e]
    <2>3. Range(s) \subseteq T /\ cdid \in T /\ s \in Seq(CdIds) /\ cdid \in CdIds
          /\ u \in {s, Append(s, cdid)}
        BY <1>2, <2>1, <2>2
    <2> HIDE DEF T, s, u
    <2>4. CASE u = s
        BY <2>3, <2>4, PrefixReflexive DEF T, s, u
    <2>5. CASE u = Append(s, cdid)
        <3>1. \A i \in DOMAIN s : s[i] \in T
            BY <2>3 DEF Range
        <3>2. /\ Begins(s, Append(s, cdid))
              /\ \A i \in DOMAIN Append(s, cdid) : Append(s, cdid)[i] \in T
            BY <2>3, <3>1, LinkAdded
        <3>3. Range(u) \subseteq T
            BY <2>5, <3>2 DEF Range
        <3> QED  BY <2>5, <3>2, <3>3 DEF T, s, u
    <2> QED  BY <2>3, <2>4, <2>5
<1>6. ASSUME NEW e \in FuzzyIds
      PROVE  /\ Range(x.db.fuzzyid[e]) \subseteq DOMAIN w.db.cd
             /\ Begins(w.db.fuzzyid[e], x.db.fuzzyid[e])
    <2>1. w.db.fuzzyid[e] \in Seq(CdIds) /\ Range(w.db.fuzzyid[e]) \subseteq DOMAIN w.db.cd
        BY <1>2 DEF IsDatabase, RefersToCds
    <2>2. x.db.fuzzyid[e] \in {w.db.fuzzyid[e], Append(w.db.fuzzyid[e], cdid)}
        BY <1>2, <1>3 DEF IsDatabase
    <2> DEFINE T == DOMAIN w.db.cd
               s == w.db.fuzzyid[e]
               u == x.db.fuzzyid[e]
    <2>3. Range(s) \subseteq T /\ cdid \in T /\ s \in Seq(CdIds) /\ cdid \in CdIds
          /\ u \in {s, Append(s, cdid)}
        BY <1>2, <2>1, <2>2
    <2> HIDE DEF T, s, u
    <2>4. CASE u = s
        BY <2>3, <2>4, PrefixReflexive DEF T, s, u
    <2>5. CASE u = Append(s, cdid)
        <3>1. \A i \in DOMAIN s : s[i] \in T
            BY <2>3 DEF Range
        <3>2. /\ Begins(s, Append(s, cdid))
              /\ \A i \in DOMAIN Append(s, cdid) : Append(s, cdid)[i] \in T
            BY <2>3, <3>1, LinkAdded
        <3>3. Range(u) \subseteq T
            BY <2>5, <3>2 DEF Range
        <3> QED  BY <2>5, <3>2, <3>3 DEF T, s, u
    <2> QED  BY <2>3, <2>4, <2>5
<1>7. Keeps(x.db, w.db)
    BY <1>3, <1>5, <1>6 DEF Keeps, Lengths, Grows
<1>8. DbInv(x.db)
    <2>1. IsDatabase(x.db)
        BY <1>2, <1>3, <1>4 DEF IsDatabase
    <2>2. RefersToCds(x.db)
        BY <1>2, <1>3, <1>5, <1>6 DEF RefersToCds
    <2> QED  BY <1>3, <2>1, <2>2 DEF WorkInv, DbInv
<1>9. CacheInv(x)
    BY <1>3 DEF WorkInv, CacheInv
<1>10. WorkInv(x)
    BY <1>3, <1>8, <1>9 DEF WorkInv
<1>11. /\ Linked(x.db, cdid)
       /\ cdid \in Range(x.db.discid[d]) /\ cdid \in Range(x.db.fuzzyid[f])
    <2>1. /\ x.db.discid[d] = Append(w.db.discid[d], cdid)
          /\ x.db.fuzzyid[f] = Append(w.db.fuzzyid[f], cdid)
          /\ w.db.discid[d] \in Seq(CdIds) /\ w.db.fuzzyid[f] \in Seq(CdIds)
        BY <1>1, <1>2, <1>3 DEF IsDatabase
    <2>2. cdid \in Range(x.db.discid[d]) /\ cdid \in Range(x.db.fuzzyid[f])
        BY <1>2, <2>1, LastLink
    <2> QED  BY <1>1, <2>2 DEF Linked
<1> QED  BY <1>3, <1>7, <1>10, <1>11 DEF x, d, f

\* What a merge counts.
MergedReport(rep, v, known) ==
    LET c == Bump(rep, v.counts \cup {"samecdframesct"})
        d == IF known THEN c ELSE [c EXCEPT !["added"] = @ - 1]
    IN  IF v.update THEN Bump(d, {"updated"}) ELSE d

\* A merge leaves the CDs that were there before the record came, and changes
\* at most the one that has the disc id.
LEMMA MergeInv ==
    ASSUME NEW w, WorkInv(w), NEW r \in Records, NEW ecd \in DOMAIN w.db.cd,
           SameFrames(r, ReadRecord(TitleStage(w, r).db, ecd))
    PROVE  LET x == Merge(TitleStage(w, r), r, ecd, CdidOf(w, r), ~KnownTitle(w, r))
               v == Verdict(r, ReadRecord(TitleStage(w, r).db, ecd))
           IN  /\ WorkInv(x) /\ Keeps(x.db, w.db)
               /\ DOMAIN x.db.cd = DOMAIN w.db.cd
               /\ x.db.fuzzyindex = w.db.fuzzyindex
               /\ \A k \in DOMAIN w.db.cd : k # ecd \/ ~v.update =>
                    x.db.cd[k] = w.db.cd[k] /\ x.db.tracks[k] = w.db.tracks[k]
               /\ v.update => IsRowOf(x.db, ecd, r)
               /\ v.update /\ w.db.tracks[ecd] # <<>>
                    => x.db.tracks[ecd] = TrackRows(r)
               /\ v.update /\ w.db.tracks[ecd] = <<>> => r.frames = <<>>
               /\ x.rep = MergedReport(TitleStage(w, r).rep, v, KnownTitle(w, r))
<1> DEFINE t == TitleStage(w, r)
           v == Verdict(r, ReadRecord(t.db, ecd))
           C == v.counts \cup {"samecdframesct"}
           c == [t EXCEPT !.rep = Bump(@, C)]
           d == IF ~KnownTitle(w, r) THEN DeleteRecord(c, CdidOf(w, r), HashOf(r)) ELSE c
           x == Merge(t, r, ecd, CdidOf(w, r), ~KnownTitle(w, r))
<1>1. /\ WorkInv(t)
      /\ \A k \in DOMAIN w.db.cd : Lengths(t.db, k) = Lengths(w.db, k)
      /\ DOMAIN w.db.cd \subseteq DOMAIN t.db.cd
      /\ SameLinks(t.db, w.db)
      /\ t.db.fuzzyindex = w.db.fuzzyindex
      /\ KnownTitle(w, r) => t.db = w.db
    BY TitleStageInv
<1>2. x = IF v.update THEN UpdateRecord(d, ecd, r) ELSE d
    BY DEF Merge
<1> HIDE DEF x, v
<1>3. /\ WorkInv(d)
      /\ d.db.cd = w.db.cd /\ d.db.tracks = w.db.tracks
      /\ d.db.namehash = w.db.namehash /\ Grows(w.db.genre, d.db.genre)
      /\ SameLinks(d.db, w.db)
      /\ d.db.fuzzyindex = w.db.fuzzyindex
      /\ d.rep = IF KnownTitle(w, r) THEN Bump(t.rep, C)
                 ELSE [Bump(t.rep, C) EXCEPT !["added"] = @ - 1]
    <2>1. CASE KnownTitle(w, r)
        <3> HIDE DEF t, C
        <3>1. WorkInv(c) /\ c.db = t.db /\ c.rep = Bump(t.rep, C)
            BY <1>1, CountInv
        <3>2. d = c
            BY <2>1
        <3> HIDE DEF d, c
        <3> QED  BY <1>1, <2>1, <3>1, <3>2 DEF Grows
    <2>2. CASE ~KnownTitle(w, r)
        <3>1. WorkInv(d) /\ d.db.cd = w.db.cd /\ d.db.tracks = w.db.tracks
              /\ d.db.namehash = w.db.namehash /\ Grows(w.db.genre, d.db.genre)
              /\ SameLinks(d.db, w.db)
              /\ d.db.fuzzyindex = w.db.fuzzyindex
              /\ d.rep = [Bump(t.rep, C) EXCEPT !["added"] = @ - 1]
            <4> HIDE DEF C
            <4> QED  BY <2>2, DeleteWrittenInv
        <3> HIDE DEF d
        <3> QED  BY <2>2, <3>1
    <2> QED  BY <2>1, <2>2
<1>4. SameFrames(r, ReadRecord(d.db, ecd))
    <2> HIDE DEF d, t
    <2>1. SameFrames(r, ReadRecord(t.db, ecd))
        BY DEF t
    <2>2. Lengths(t.db, ecd) = Lengths(d.db, ecd)
        BY <1>1, <1>3 DEF Lengths
    <2> QED  BY <2>1, <2>2, SameFramesLengths
<1> HIDE DEF d, t, C
<1>5. /\ WorkInv(x)
      /\ DOMAIN x.db.cd = DOMAIN d.db.cd
      /\ \A k \in DOMAIN d.db.cd : Lengths(x.db, k) = Lengths(d.db, k)
      /\ SameLinks(x.db, d.db)
      /\ x.db.fuzzyindex = d.db.fuzzyindex
      /\ \A k \in DOMAIN d.db.cd : k # ecd \/ ~v.update =>
            x.db.cd[k] = d.db.cd[k] /\ x.db.tracks[k] = d.db.tracks[k]
      /\ v.update => IsRowOf(x.db, ecd, r)
      /\ v.update /\ d.db.tracks[ecd] # <<>> => x.db.tracks[ecd] = TrackRows(r)
      /\ v.update /\ d.db.tracks[ecd] = <<>> => r.frames = <<>>
      /\ x.db.namehash = d.db.namehash /\ Grows(d.db.genre, x.db.genre)
      /\ x.rep = IF v.update THEN Bump(d.rep, {"updated"}) ELSE d.rep
    <2>1. CASE v.update
        <3>1. ecd \in DOMAIN d.db.cd
            BY <1>3
        <3>2. x = UpdateRecord(d, ecd, r)
            BY <1>2, <2>1
        <3> HIDE DEF v
        <3> QED  BY <1>3, <1>4, <2>1, <3>1, <3>2, UpdateRecordInv
    <2>2. CASE ~v.update
        <3>1. x = d
            BY <1>2, <2>2
        <3> QED  BY <1>3, <2>2, <3>1 DEF SameLinks, Grows
    <2> QED  BY <2>1, <2>2
<1>6. Keeps(x.db, w.db)
    <2>1. /\ \A e \in DiscIds : Begins(w.db.discid[e], x.db.discid[e])
          /\ \A e \in FuzzyIds : Begins(w.db.fuzzyid[e], x.db.fuzzyid[e])
        BY <1>3, <1>5, PrefixReflexive DEF SameLinks, WorkInv, DbInv, IsDatabase
    <2>2. \A k \in DOMAIN w.db.cd : Lengths(d.db, k) = Lengths(w.db, k)
        BY <1>3 DEF Lengths
    <2>3. Grows(w.db.namehash, x.db.namehash) /\ Grows(w.db.genre, x.db.genre)
        BY <1>3, <1>5 DEF Grows
    <2> QED  BY <1>3, <1>5, <2>1, <2>2, <2>3 DEF Keeps
<1>7. x.rep = MergedReport(t.rep, v, KnownTitle(w, r))
    BY <1>3, <1>5 DEF MergedReport, C
<1> HIDE DEF x, v
<1>8. /\ DOMAIN x.db.cd = DOMAIN w.db.cd
      /\ x.db.fuzzyindex = w.db.fuzzyindex
      /\ \A k \in DOMAIN w.db.cd : k # ecd \/ ~v.update =>
            x.db.cd[k] = w.db.cd[k] /\ x.db.tracks[k] = w.db.tracks[k]
      /\ v.update => IsRowOf(x.db, ecd, r)
      /\ v.update /\ w.db.tracks[ecd] # <<>> => x.db.tracks[ecd] = TrackRows(r)
      /\ v.update /\ w.db.tracks[ecd] = <<>> => r.frames = <<>>
    BY <1>3, <1>5
<1> QED  BY <1>5, <1>6, <1>7, <1>8 DEF x, t, v

-----------------------------------------------------------------------------
(* The specification keeps the invariant.                                  *)

\* The open transaction has all that was published, and more.
Inv ==
    /\ DbInv(committed)
    /\ WorkInv(work)
    /\ Keeps(work.db, committed)
    /\ phase \in {"off", "importing", "damaged"}
    /\ archive \in Seq(Records \cup {BadEntry})
    /\ pos \in 0..Len(archive)
    /\ initial \in BOOLEAN
    /\ published \subseteq Records
    /\ imports \in 0..MaxImports

LEMMA EmptyDatabaseInv == DbInv(EmptyDatabase)
<1> DEFINE db == EmptyDatabase
<1>1. IsTable(EmptyTable, CdIds, Cds) /\ IsTable(EmptyTable, CdIds, Seq(Rows))
      /\ IsTable(EmptyTable, Hashes, CdIds) /\ IsTable(EmptyTable, CdIds, Genres)
    BY DEF IsTable, EmptyTable
<1>2. IsDatabase(db)
    BY <1>1 DEF IsDatabase, EmptyDatabase
<1>3. DOMAIN EmptyTable = 1..0
    BY DEF EmptyTable
<1>4. Dense(db.cd) /\ Dense(db.genre)
    BY <1>3 DEF Dense, EmptyDatabase
<1>5. RefersToCds(db)
    BY DEF RefersToCds, EmptyDatabase, EmptyTable, Range
<1> QED  BY <1>2, <1>4, <1>5 DEF DbInv, EmptyDatabase, EmptyTable

LEMMA InitInv == Init => Inv
<1> SUFFICES ASSUME Init PROVE Inv
    OBVIOUS
<1>1. DbInv(committed) /\ WorkInv(work) /\ work.db = committed
    BY EmptyDatabaseInv, FreshInv DEF Init, Fresh
<1>2. Keeps(work.db, committed)
    BY <1>1, KeepsReflexive DEF DbInv
<1>3. archive \in Seq(Records \cup {BadEntry}) /\ pos \in 0..Len(archive)
    BY DEF Init
<1>4. imports \in 0..MaxImports
    BY MaxImportsAssumption DEF Init
<1> QED  BY <1>1, <1>2, <1>3, <1>4 DEF Init, Inv

\* The tables and the index that comes and goes with an initial import.
LEMMA IndexInv ==
    ASSUME NEW db, DbInv(db), NEW b \in BOOLEAN
    PROVE  LET x == [db EXCEPT !.fuzzyindex = b]
           IN  DbInv(x) /\ Keeps(x, db)
<1> DEFINE x == [db EXCEPT !.fuzzyindex = b]
<1>1. /\ x.cd = db.cd /\ x.tracks = db.tracks /\ x.namehash = db.namehash
      /\ SameLinks(x, db) /\ x.genre = db.genre /\ x.fuzzyindex = b
      /\ x = [ cd |-> x.cd, tracks |-> x.tracks, discid |-> x.discid,
               fuzzyid |-> x.fuzzyid, namehash |-> x.namehash,
               genre |-> x.genre, fuzzyindex |-> x.fuzzyindex ]
    BY DEF DbInv, IsDatabase, SameLinks
<1> HIDE DEF x
<1>2. IsDatabase(x) /\ RefersToCds(x)
    BY <1>1 DEF DbInv, IsDatabase, RefersToCds, SameLinks
<1>3. Keeps(db, db)
    BY KeepsReflexive DEF DbInv
<1>4. DbInv(x)
    BY <1>1, <1>2 DEF DbInv
<1>5. Keeps(x, db)
    BY <1>1, <1>3 DEF Keeps, Lengths, SameLinks
<1> QED  BY <1>4, <1>5 DEF x

\* A record that is imported, in each of the four ways.
LEMMA RecordInv ==
    ASSUME Inv, NEW r \in Records,
           \/ LinkNewDiscId(r) \/ LinkCollision(r)
           \/ MergeDuplicate(r) \/ KeepUnlinked(r)
    PROVE  WorkInv(work') /\ Keeps(work'.db, work.db)
<1> DEFINE t == TitleStage(work, r)
           d == DiscId(r.seconds, r.frames)
<1>1. WorkInv(work)
    BY DEF Inv
<1>2. /\ WorkInv(t)
      /\ CdidOf(work, r) \in DOMAIN t.db.cd
      /\ SameLinks(t.db, work.db)
      /\ DOMAIN work.db.cd \subseteq DOMAIN t.db.cd
      /\ \A c \in DOMAIN work.db.cd : Lengths(t.db, c) = Lengths(work.db, c)
      /\ Grows(work.db.namehash, t.db.namehash) /\ Grows(work.db.genre, t.db.genre)
    BY <1>1, TitleStageInv
<1>3. Keeps(t.db, work.db)
    <2>1. /\ \A e \in DiscIds : Begins(work.db.discid[e], t.db.discid[e])
          /\ \A e \in FuzzyIds : Begins(work.db.fuzzyid[e], t.db.fuzzyid[e])
        BY <1>1, <1>2, PrefixReflexive DEF SameLinks, WorkInv, DbInv, IsDatabase
    <2> QED  BY <1>2, <2>1 DEF Keeps
<1>4. ASSUME NEW x, WorkInv(x), Keeps(x.db, t.db)
      PROVE  Keeps(x.db, work.db)
    BY <1>1, <1>2, <1>3, <1>4, KeepsTransitive DEF WorkInv, DbInv
<1>5. CASE LinkNewDiscId(r)
    <2>1. work' = WriteLinks(t, r, CdidOf(work, r))
        BY <1>5 DEF LinkNewDiscId
    <2> HIDE DEF t
    <2> QED  BY <1>2, <1>4, <2>1, WriteLinksInv
<1>6. CASE LinkCollision(r)
    <2>1. PICK c : work' = WriteLinks([t EXCEPT !.rep = Bump(@, {c})], r, CdidOf(work, r))
        BY <1>6 DEF LinkCollision
    <2> DEFINE x == [t EXCEPT !.rep = Bump(@, {c})]
    <2> HIDE DEF t
    <2>2. WorkInv(x) /\ x.db = t.db
        BY <1>2, CountInv
    <2> HIDE DEF x
    <2>3. WorkInv(work') /\ Keeps(work'.db, x.db)
        BY <1>2, <2>1, <2>2, WriteLinksInv DEF x
    <2> QED  BY <1>4, <2>2, <2>3
<1>7. CASE MergeDuplicate(r)
    <2> DEFINE ecd == CheckDiscId(t.db, d)
    <2>1. /\ t.db.discid[d] # <<>>
          /\ SameFrames(r, ReadRecord(t.db, ecd))
          /\ work' = Merge(t, r, ecd, CdidOf(work, r), ~KnownTitle(work, r))
        BY <1>7 DEF MergeDuplicate, KnownDiscId
    <2>2. d \in DiscIds
        BY RecordType
    <2> HIDE DEF t, d
    <2>3. ecd \in DOMAIN work.db.cd
        <3>1. /\ work.db.discid[d] \in Seq(CdIds)
              /\ Range(work.db.discid[d]) \subseteq DOMAIN work.db.cd
              /\ t.db.discid = work.db.discid
            BY <1>1, <1>2, <2>2 DEF WorkInv, DbInv, IsDatabase, RefersToCds, SameLinks
        <3> QED  BY <2>1, <3>1 DEF CheckDiscId, Range
    <2> HIDE DEF ecd
    <2> QED  BY <1>1, <2>1, <2>3, MergeInv DEF t
<1>8. CASE KeepUnlinked(r)
    <2>1. work' = [t EXCEPT !.rep = Bump(@, {"sameframesct"})]
        BY <1>8 DEF KeepUnlinked
    <2> HIDE DEF t
    <2> QED  BY <1>2, <1>3, <2>1, CountInv
<1> QED  BY <1>5, <1>6, <1>7, <1>8

LEMMA NextInv == Inv /\ [Next]_vars /\ Whole' => Inv'
<1> SUFFICES ASSUME Inv, [Next]_vars, Whole' PROVE Inv'
    OBVIOUS
<1>1. WorkInv(Fresh(committed)) /\ Fresh(committed).db = committed
      /\ Keeps(committed, committed)
    BY FreshInv, KeepsReflexive DEF Inv, DbInv, Fresh
<1>0. CloseArchive => /\ archive' \in Seq(Records \cup {BadEntry})
                      /\ pos' \in 0..Len(archive')
                      /\ initial' \in BOOLEAN
    <2>1. <<>> \in Seq(Records \cup {BadEntry}) /\ 0 \in 0..Len(<<>>)
        OBVIOUS
    <2> QED  BY <2>1 DEF CloseArchive
<1>2. ASSUME NEW a \in Archives, NEW init \in BOOLEAN, StartImport(a, init)
      PROVE  Inv'
    <2> DEFINE f == Fresh(committed)
    <2>1. WorkInv(work') /\ Keeps(work'.db, committed)
        <3>1. CASE init
            <4>1. work' = [f EXCEPT !.db.fuzzyindex = FALSE]
                BY <1>2, <3>1 DEF StartImport
            <4> DEFINE x == [f.db EXCEPT !.fuzzyindex = FALSE]
            <4> HIDE DEF f
            <4>2. /\ work'.db = x /\ work'.genres = f.genres /\ work'.rep = f.rep
                  /\ work' = [db |-> work'.db, genres |-> work'.genres, rep |-> work'.rep]
                BY <1>1, <4>1 DEF WorkInv, f
            <4>3. DbInv(x) /\ Keeps(x, f.db) /\ x.genre = f.db.genre
                BY <1>1, IndexInv DEF WorkInv, DbInv, IsDatabase, f
            <4> HIDE DEF x
            <4>4. CacheInv(work')
                BY <1>1, <4>2, <4>3 DEF WorkInv, CacheInv, f
            <4> QED  BY <1>1, <4>2, <4>3, <4>4 DEF WorkInv, f
        <3>2. CASE ~init
            BY <1>1, <1>2, <3>2 DEF StartImport
        <3> QED  BY <3>1, <3>2
    <2>2. a \in Seq(Records \cup {BadEntry})
        BY RecordsAssumption
    <2>3. imports' \in 0..MaxImports
        BY <1>2, MaxImportsAssumption DEF StartImport, Inv
    <2> QED  BY <1>2, <2>1, <2>2, <2>3 DEF StartImport, Inv
<1>3. ASSUME NEW e, TakeEntry(e), WorkInv(work'), Keeps(work'.db, work.db)
      PROVE  Inv'
    <2>1. Keeps(work'.db, committed)
        BY <1>3, KeepsTransitive DEF Inv, WorkInv, DbInv
    <2>2. pos' \in 0..Len(archive)
        BY <1>3 DEF TakeEntry, Inv
    <2> QED  BY <1>3, <2>1, <2>2 DEF TakeEntry, Inv
<1>4. ASSUME SkipInvalid
      PROVE  Inv'
    <2>1. WorkInv(work') /\ work'.db = work.db
        BY <1>4, CountInv DEF SkipInvalid, Inv
    <2>2. Keeps(work'.db, work.db)
        BY <2>1, KeepsReflexive DEF WorkInv, DbInv
    <2> QED  BY <1>3, <1>4, <2>1, <2>2 DEF SkipInvalid
<1>5. ASSUME NEW r \in Records,
             \/ LinkNewDiscId(r) \/ LinkCollision(r)
             \/ MergeDuplicate(r) \/ KeepUnlinked(r)
      PROVE  Inv'
    <2>1. WorkInv(work') /\ Keeps(work'.db, work.db)
        BY <1>5, RecordInv
    <2>2. TakeEntry(r)
        BY <1>5 DEF LinkNewDiscId, LinkCollision, MergeDuplicate, KeepUnlinked
    <2> QED  BY <1>3, <2>1, <2>2
<1>6. ASSUME Commit
      PROVE  Inv'
    <2> DEFINE b == work.db.fuzzyindex \/ initial
    <2>1. committed' = [work.db EXCEPT !.fuzzyindex = b] /\ b \in BOOLEAN
        BY <1>6 DEF Commit, Indexed, Inv, WorkInv, DbInv, IsDatabase
    <2> HIDE DEF b
    <2>2. DbInv(committed')
        BY <2>1, IndexInv DEF Inv, WorkInv
    <2>3. WorkInv(work') /\ work'.db = committed'
        BY <1>6, <2>2, FreshInv DEF Commit, Fresh
    <2>4. Keeps(work'.db, committed')
        BY <2>2, <2>3, KeepsReflexive DEF DbInv
    <2>5. published' \subseteq Records
        <3>1. Range(archive) \subseteq Records \cup {BadEntry}
            BY DEF Inv, Range
        <3> QED  BY <1>6, <3>1 DEF Commit, Inv
    <2> QED  BY <1>0, <1>6, <2>2, <2>3, <2>4, <2>5 DEF Commit, Inv
<1>7. ASSUME Abort
      PROVE  Inv'
    BY <1>0, <1>1, <1>7 DEF Abort, Inv
<1>8. CASE UNCHANGED vars
    BY <1>8 DEF vars, Inv
<1> QED  BY <1>2, <1>4, <1>5, <1>6, <1>7, <1>8 DEF Next, ImportEntry, Crash, Whole

\* Nothing is done with a file that was damaged.
LEMMA DamagedStays == ~Whole /\ [Next]_vars => UNCHANGED vars
    BY DEF Whole, Next, ImportEntry, StartImport, SkipInvalid, LinkNewDiscId,
           LinkCollision, MergeDuplicate, KeepUnlinked, TakeEntry, Commit, Abort, Crash

\* A torn file still has tables, but they need not fit together.
LEMMA CrashTypes == Inv /\ Crash => TypeOK'
<1> SUFFICES ASSUME Inv, Crash PROVE TypeOK'
    OBVIOUS
<1>1. PICK cds \in {committed, work.db}, songs \in {committed, work.db},
           links \in {committed, work.db} :
        committed' = Mixed(cds, songs, links)
    BY DEF Crash, Torn
<1>2. IsDatabase(cds) /\ IsDatabase(songs) /\ IsDatabase(links)
    BY DEF Inv, WorkInv, DbInv
<1>3. IsDatabase(committed')
    BY <1>1, <1>2 DEF IsDatabase, Mixed
<1>4. IsTable(GenreMap(committed'), Genres, CdIds)
    <2> DEFINE t == committed'.genre
    <2>1. IsTable(t, CdIds, Genres)
        BY <1>3 DEF IsDatabase
    <2>2. \A g \in Range(t) : \E id \in DOMAIN t : t[id] = g
        BY DEF Range
    <2>3. Range(t) \subseteq Genres
        BY <2>1 DEF Range, IsTable
    <2> QED  BY <2>1, <2>2, <2>3 DEF GenreMap, IsTable
<1>5. /\ work' = [db |-> work'.db, genres |-> work'.genres, rep |-> work'.rep]
      /\ work'.db = committed' /\ work'.genres = GenreMap(committed')
      /\ work'.rep \in [Counters -> Int]
    BY DEF Crash, Fresh
<1>6. /\ archive' \in Seq(Records \cup {BadEntry}) /\ pos' \in 0..Len(archive')
      /\ initial' \in BOOLEAN /\ phase' = "damaged"
      /\ published' = published /\ imports' = imports
    <2>1. <<>> \in Seq(Records \cup {BadEntry}) /\ 0 \in 0..Len(<<>>)
        OBVIOUS
    <2> QED  BY <2>1 DEF Crash, CloseArchive
<1> QED  BY <1>3, <1>4, <1>5, <1>6 DEF TypeOK, Inv

-----------------------------------------------------------------------------
(* What is kept of every CD, whatever comes after it.                      *)

\* Among the CDs with the disc id of a record one has its track lengths, and
\* among those with the fuzzy id too.
Answered(db, s) ==
    /\ \E e \in Range(db.discid[DiscId(s.seconds, s.frames)]) :
            SameFrames(s, ReadRecord(db, e))
    /\ \E e \in Range(db.fuzzyid[FuzzyId(s.seconds, s.frames)]) :
            SameFrames(s, ReadRecord(db, e))

\* Both ids of a record lead to the CD that is known by its text.
LinkedByText(db, r) ==
    /\ HashOf(r) \in DOMAIN db.namehash
    /\ LET c == db.namehash[HashOf(r)]
       IN  /\ c \in Range(db.discid[DiscId(r.seconds, r.frames)])
           /\ c \in Range(db.fuzzyid[FuzzyId(r.seconds, r.frames)])

Found(db, r) == Answered(db, r) \/ LinkedByText(db, r)

\* A CD is found by its track lengths: by those of any record that has them.
CdsAreFound(db) ==
    \A c \in DOMAIN db.cd : \A s \in Records :
        SameFrames(s, ReadRecord(db, c)) => Answered(db, s)

\* The track lengths of a CD are those of one record, with 0 for lengths that
\* it has not.
IsLengthsOf(db, c, s) ==
    Lengths(db, c) = [seconds |-> s.seconds, frames |-> StoredFrames(s)]

LengthsAreWritten(db) ==
    \A c \in DOMAIN db.cd : \E s \in Records : IsLengthsOf(db, c, s)

\* The texts of a CD with songs are those of one record.
IsTextOf(db, c, s) ==
    /\ StoredText(db, c) = Text(s)
    /\ db.cd[c].tracks = Len(s.songs)
    /\ Len(db.tracks[c]) = Len(s.songs)

TextsAreWhole(db) ==
    \A c \in DOMAIN db.cd :
        db.tracks[c] # <<>> => \E s \in Records : IsTextOf(db, c, s)

HasTwin(db, c) ==
    \E d \in DiscIds :
        /\ KnownDiscId(db, d)
        /\ CheckDiscId(db, d) # c
        /\ TrackLengths(db, CheckDiscId(db, d)) = TrackLengths(db, c)

Reachable(db, c) == Linked(db, c) \/ HasTwin(db, c)

Good(db) ==
    /\ CdsAreFound(db)
    /\ LengthsAreWritten(db)
    /\ TextsAreWhole(db)
    /\ \A c \in DOMAIN db.cd : Reachable(db, c)

\* A row is as it was, or it is one of the record.  (A CD without songs gets
\* none by an update, and only from a record without lengths.)
RowsFrom(x, y, r) ==
    \A c \in DOMAIN x.cd :
        \/ c \in DOMAIN y.cd /\ x.cd[c] = y.cd[c] /\ x.tracks[c] = y.tracks[c]
        \/ /\ IsRowOf(x, c, r)
           /\ \/ x.tracks[c] = TrackRows(r)
              \/ c \in DOMAIN y.cd /\ y.tracks[c] = <<>> /\ r.frames = <<>>

LEMMA WrittenText ==
    ASSUME NEW db, NEW c, NEW r \in Records, IsRowOf(db, c, r),
           db.tracks[c] = TrackRows(r)
    PROVE  /\ IsTextOf(db, c, r)
           /\ Lengths(db, c).seconds = r.seconds
           /\ r.frames # <<>> => Lengths(db, c).frames = r.frames
<1>1. r.songs \in Seq(Songs) /\ r.frames \in Seq(Nat) /\ Len(r.songs) \in Nat
    BY RecordType
<1>2. DOMAIN TrackRows(r) = 1..Len(r.songs)
      /\ \A ct \in 1..Len(r.songs) : TrackRows(r)[ct] = TrackRow(r, ct)
    BY DEF TrackRows
<1>3. [ct \in DOMAIN TrackRows(r) |-> TrackRows(r)[ct].song] = r.songs
    <2>1. \A ct \in 1..Len(r.songs) : TrackRow(r, ct).song = r.songs[ct]
        BY DEF TrackRow
    <2>2. r.songs = [ct \in 1..Len(r.songs) |-> r.songs[ct]]
        BY <1>1
    <2> QED  BY <1>2, <2>1, <2>2
<1>4. Len(TrackRows(r)) = Len(r.songs)
    BY <1>1, <1>2, TrackRowsType
<1>5. StoredText(db, c) = Text(r)
    BY <1>3 DEF StoredText, Text, ReadRecord, IsRowOf
<1>6. ASSUME r.frames # <<>>
      PROVE  [ct \in DOMAIN TrackRows(r) |-> TrackRows(r)[ct].frames] = r.frames
    <2>1. \A ct \in 1..Len(r.songs) : TrackRow(r, ct).frames = r.frames[ct]
        BY <1>6 DEF TrackRow
    <2>2. Len(r.frames) = Len(r.songs)
        BY <1>6, RecordType
    <2>3. r.frames = [ct \in 1..Len(r.songs) |-> r.frames[ct]]
        BY <1>1, <2>2
    <2> QED  BY <1>2, <2>1, <2>3
<1> QED  BY <1>4, <1>5, <1>6 DEF IsTextOf, IsRowOf, Lengths

LEMMA StoredLengths ==
    ASSUME NEW db, NEW c, NEW r \in Records, IsRowOf(db, c, r),
           db.tracks[c] = TrackRows(r)
    PROVE  IsLengthsOf(db, c, r)
<1>1. r.songs \in Seq(Songs)
    BY RecordType
<1>2. /\ DOMAIN TrackRows(r) = DOMAIN r.songs
      /\ \A ct \in DOMAIN r.songs : TrackRows(r)[ct] = TrackRow(r, ct)
    BY <1>1 DEF TrackRows
<1>3. [ct \in DOMAIN TrackRows(r) |-> TrackRows(r)[ct].frames] = StoredFrames(r)
    BY <1>2 DEF StoredFrames
<1> QED  BY <1>3 DEF IsLengthsOf, Lengths, IsRowOf

\* Who has the track lengths that were stored of a record has those of the
\* record: without them its start frame is 0, and only then.
LEMMA WrittenLengths ==
    ASSUME NEW db, NEW c, NEW r \in Records, IsRowOf(db, c, r),
           db.tracks[c] = TrackRows(r),
           NEW s \in Records, SameFrames(s, ReadRecord(db, c))
    PROVE  s.seconds = r.seconds /\ s.frames = r.frames
<1>1. Lengths(db, c).seconds = s.seconds /\ Lengths(db, c).frames = s.frames
    BY SameFramesLengths
<1>2. s.seconds = r.seconds
    BY <1>1, WrittenText
<1>3. CASE r.frames # <<>>
    BY <1>1, <1>2, <1>3, WrittenText
<1>4. CASE r.frames = <<>>
    <2>1. s.seconds = 0
        BY <1>2, <1>4, RecordsAssumption
    <2>2. s.frames = <<>>
        BY <2>1, RecordsAssumption
    <2> QED  BY <1>2, <1>4, <2>2
<1> QED  BY <1>3, <1>4

LEMMA PrefixKeeps ==
    ASSUME NEW s \in Seq(CdIds), NEW t \in Seq(CdIds), Begins(s, t), s # <<>>
    PROVE  t # <<>> /\ Head(t) = Head(s) /\ Range(s) \subseteq Range(t)
<1>1. Len(s) <= Len(t) /\ \A i \in 1..Len(s) : s[i] = t[i]
    BY DEF Begins, Store!IsPrefix
<1>2. Len(s) >= 1
    OBVIOUS
<1>3. t # <<>> /\ Head(t) = Head(s)
    BY <1>1, <1>2
<1>4. \A i \in DOMAIN s : i \in DOMAIN t /\ t[i] = s[i]
    BY <1>1
<1> QED  BY <1>3, <1>4 DEF Range

LEMMA LinkStays ==
    ASSUME NEW x, NEW y, IsDatabase(x), IsDatabase(y), Keeps(x, y),
           NEW d \in DiscIds, NEW f \in FuzzyIds
    PROVE  /\ Range(y.discid[d]) \subseteq Range(x.discid[d])
           /\ Range(y.fuzzyid[f]) \subseteq Range(x.fuzzyid[f])
<1>1. /\ Begins(y.discid[d], x.discid[d]) /\ Begins(y.fuzzyid[f], x.fuzzyid[f])
      /\ y.discid[d] \in Seq(CdIds) /\ x.discid[d] \in Seq(CdIds)
      /\ y.fuzzyid[f] \in Seq(CdIds) /\ x.fuzzyid[f] \in Seq(CdIds)
    BY DEF Keeps, IsDatabase
<1>2. Range(<<>>) = {}
    BY DEF Range
<1>3. Range(y.discid[d]) \subseteq Range(x.discid[d])
    BY <1>1, <1>2, PrefixKeeps
<1>4. Range(y.fuzzyid[f]) \subseteq Range(x.fuzzyid[f])
    BY <1>1, <1>2, PrefixKeeps
<1> QED  BY <1>3, <1>4

LEMMA AnsweredStays ==
    ASSUME NEW x, NEW y, IsDatabase(x), IsDatabase(y), RefersToCds(y), Keeps(x, y),
           NEW s \in Records, Answered(y, s)
    PROVE  Answered(x, s)
<1> DEFINE d == DiscId(s.seconds, s.frames)
           f == FuzzyId(s.seconds, s.frames)
<1>1. d \in DiscIds /\ f \in FuzzyIds
    BY RecordType
<1>2. ASSUME NEW e \in DOMAIN y.cd, SameFrames(s, ReadRecord(y, e))
      PROVE  SameFrames(s, ReadRecord(x, e))
    BY <1>2, SameFramesLengths DEF Keeps
<1>3. /\ Range(y.discid[d]) \subseteq DOMAIN y.cd
      /\ Range(y.fuzzyid[f]) \subseteq DOMAIN y.cd
    BY <1>1 DEF RefersToCds
<1>4. /\ Range(y.discid[d]) \subseteq Range(x.discid[d])
      /\ Range(y.fuzzyid[f]) \subseteq Range(x.fuzzyid[f])
    BY <1>1, LinkStays
<1>5. /\ \E e \in Range(y.discid[d]) : SameFrames(s, ReadRecord(y, e))
      /\ \E e \in Range(y.fuzzyid[f]) : SameFrames(s, ReadRecord(y, e))
    BY DEF Answered
<1> HIDE DEF d, f
<1>6. /\ \E e \in Range(x.discid[d]) : SameFrames(s, ReadRecord(x, e))
      /\ \E e \in Range(x.fuzzyid[f]) : SameFrames(s, ReadRecord(x, e))
    BY <1>2, <1>3, <1>4, <1>5
<1> QED  BY <1>6 DEF Answered, d, f

LEMMA FoundStays ==
    ASSUME NEW x, NEW y, IsDatabase(x), IsDatabase(y), RefersToCds(y), Keeps(x, y),
           NEW s \in Records, Found(y, s)
    PROVE  Found(x, s)
<1>1. CASE Answered(y, s)
    BY <1>1, AnsweredStays DEF Found
<1>2. CASE LinkedByText(y, s)
    <2>1. DiscId(s.seconds, s.frames) \in DiscIds /\ FuzzyId(s.seconds, s.frames) \in FuzzyIds
        BY RecordType
    <2>2. HashOf(s) \in DOMAIN x.namehash
          /\ x.namehash[HashOf(s)] = y.namehash[HashOf(s)]
        BY <1>2 DEF LinkedByText, Keeps, Grows
    <2>3. LinkedByText(x, s)
        BY <1>2, <2>1, <2>2, LinkStays DEF LinkedByText
    <2> QED  BY <2>3 DEF Found
<1> QED  BY <1>1, <1>2 DEF Found

LEMMA LengthsFixTracks ==
    ASSUME NEW x, NEW y, NEW c, NEW k, Lengths(x, c) = Lengths(y, k)
    PROVE  /\ TrackLengths(x, c) = TrackLengths(y, k)
           /\ DOMAIN x.tracks[c] = DOMAIN y.tracks[k]
<1>1. x.cd[c].seconds = y.cd[k].seconds
    BY DEF Lengths
<1> DEFINE X == [ct \in DOMAIN x.tracks[c] |-> x.tracks[c][ct].frames]
           Y == [ct \in DOMAIN y.tracks[k] |-> y.tracks[k][ct].frames]
<1>2. X = Y
    BY DEF Lengths
<1>3. DOMAIN x.tracks[c] = DOMAIN y.tracks[k]
    BY <1>2
<1>4. \A ct \in DOMAIN x.tracks[c] : x.tracks[c][ct].frames = y.tracks[k][ct].frames
    <2> SUFFICES ASSUME NEW ct \in DOMAIN x.tracks[c]
                 PROVE  x.tracks[c][ct].frames = y.tracks[k][ct].frames
        OBVIOUS
    <2>1. X[ct] = x.tracks[c][ct].frames /\ Y[ct] = y.tracks[k][ct].frames
        BY <1>3
    <2> HIDE DEF X, Y
    <2> QED  BY <1>2, <2>1
<1>5. {i \in DOMAIN x.tracks[c] : x.tracks[c][i].frames > 0}
        = {i \in DOMAIN y.tracks[k] : y.tracks[k][i].frames > 0}
    BY <1>3, <1>4
<1>6. [i \in {i \in DOMAIN x.tracks[c] : x.tracks[c][i].frames > 0} |-> x.tracks[c][i].frames]
        = [i \in {i \in DOMAIN y.tracks[k] : y.tracks[k][i].frames > 0}
                |-> y.tracks[k][i].frames]
    BY <1>4, <1>5
<1> QED  BY <1>1, <1>3, <1>6 DEF TrackLengths

LEMMA ReachableStays ==
    ASSUME NEW x, NEW y, IsDatabase(x), IsDatabase(y), RefersToCds(y), Keeps(x, y),
           NEW c \in DOMAIN y.cd, Reachable(y, c)
    PROVE  Reachable(x, c)
<1>1. ASSUME NEW d \in DiscIds, y.discid[d] # <<>>
      PROVE  /\ KnownDiscId(x, d) /\ CheckDiscId(x, d) = CheckDiscId(y, d)
             /\ Range(y.discid[d]) \subseteq Range(x.discid[d])
    <2>1. /\ Begins(y.discid[d], x.discid[d])
          /\ y.discid[d] \in Seq(CdIds) /\ x.discid[d] \in Seq(CdIds)
        BY DEF Keeps, IsDatabase
    <2> QED  BY <1>1, <2>1, PrefixKeeps DEF KnownDiscId, CheckDiscId
<1>2. CASE Linked(y, c)
    <2>1. PICK d \in DiscIds : c \in Range(y.discid[d])
        BY <1>2 DEF Linked
    <2>2. y.discid[d] # <<>>
        BY <2>1 DEF Range
    <2> QED  BY <1>1, <2>1, <2>2 DEF Reachable, Linked
<1>3. CASE HasTwin(y, c)
    <2>1. PICK d \in DiscIds :
            /\ KnownDiscId(y, d) /\ CheckDiscId(y, d) # c
            /\ TrackLengths(y, CheckDiscId(y, d)) = TrackLengths(y, c)
        BY <1>3 DEF HasTwin
    <2> DEFINE e == CheckDiscId(y, d)
    <2>2. KnownDiscId(x, d) /\ CheckDiscId(x, d) = e
        BY <1>1, <2>1 DEF KnownDiscId
    <2>3. e \in DOMAIN y.cd
        <3>1. y.discid[d] \in Seq(CdIds) /\ y.discid[d] # <<>>
              /\ Range(y.discid[d]) \subseteq DOMAIN y.cd
            BY <2>1 DEF IsDatabase, RefersToCds, KnownDiscId
        <3> QED  BY <3>1 DEF CheckDiscId, Range
    <2>4. TrackLengths(x, e) = TrackLengths(y, e)
          /\ TrackLengths(x, c) = TrackLengths(y, c)
        BY <2>3, LengthsFixTracks DEF Keeps
    <2> HIDE DEF e
    <2>5. CheckDiscId(x, d) # c /\ TrackLengths(x, CheckDiscId(x, d)) = TrackLengths(x, c)
        BY <2>1, <2>2, <2>4 DEF e
    <2> QED  BY <2>2, <2>5 DEF Reachable, HasTwin
<1> QED  BY <1>2, <1>3 DEF Reachable

LEMMA GoodStays ==
    ASSUME NEW x, NEW y, NEW r \in Records, IsDatabase(x), IsDatabase(y),
           RefersToCds(x), RefersToCds(y), Keeps(x, y), RowsFrom(x, y, r),
           Good(y),
           \A c \in DOMAIN x.cd \ DOMAIN y.cd :
                /\ Reachable(x, c)
                /\ SameFrames(r, ReadRecord(x, c)) => Answered(x, r)
    PROVE  Good(x)
<1>1. CdsAreFound(x)
    <2> SUFFICES ASSUME NEW c \in DOMAIN x.cd, NEW s \in Records,
                        SameFrames(s, ReadRecord(x, c))
                 PROVE  Answered(x, s)
        BY DEF CdsAreFound
    <2>1. CASE c \in DOMAIN y.cd
        <3>1. SameFrames(s, ReadRecord(y, c))
            BY <2>1, SameFramesLengths DEF Keeps
        <3> QED  BY <2>1, <3>1, AnsweredStays DEF Good, CdsAreFound
    <2>2. CASE c \notin DOMAIN y.cd
        <3>1. IsRowOf(x, c, r) /\ x.tracks[c] = TrackRows(r)
            BY <2>2 DEF RowsFrom
        <3>2. s.seconds = r.seconds /\ s.frames = r.frames
            BY <3>1, WrittenLengths
        <3>3. SameFrames(r, ReadRecord(x, c))
            BY <3>2 DEF SameFrames
        <3>4. Answered(x, r)
            BY <2>2, <3>3
        <3> QED  BY <3>2, <3>4 DEF Answered, SameFrames
    <2> QED  BY <2>1, <2>2
<1>4. LengthsAreWritten(x)
    <2> SUFFICES ASSUME NEW c \in DOMAIN x.cd
                 PROVE  \E s \in Records : IsLengthsOf(x, c, s)
        BY DEF LengthsAreWritten
    <2>1. CASE c \in DOMAIN y.cd
        BY <2>1 DEF Good, LengthsAreWritten, IsLengthsOf, Keeps
    <2>2. CASE c \notin DOMAIN y.cd
        BY <2>2, StoredLengths DEF RowsFrom
    <2> QED  BY <2>1, <2>2
<1>2. TextsAreWhole(x)
    <2> SUFFICES ASSUME NEW c \in DOMAIN x.cd, x.tracks[c] # <<>>
                 PROVE  \E s \in Records : IsTextOf(x, c, s)
        BY DEF TextsAreWhole
    <2>1. CASE c \in DOMAIN y.cd /\ x.cd[c] = y.cd[c] /\ x.tracks[c] = y.tracks[c]
        <3>1. PICK s \in Records : IsTextOf(y, c, s)
            BY <2>1 DEF Good, TextsAreWhole
        <3>2. IsTextOf(x, c, s)
            BY <2>1, <3>1 DEF IsTextOf, StoredText, Text, ReadRecord
        <3> QED  BY <3>2
    <2>2. CASE IsRowOf(x, c, r) /\ x.tracks[c] = TrackRows(r)
        BY <2>2, WrittenText
    <2>3. CASE c \in DOMAIN y.cd /\ y.tracks[c] = <<>>
        <3>1. DOMAIN x.tracks[c] = DOMAIN y.tracks[c]
            BY <2>3, LengthsFixTracks DEF Keeps
        <3>2. x.tracks[c] \in Seq(Rows)
            BY DEF IsDatabase, IsTable, RefersToCds
        <3>3. ASSUME NEW t \in Seq(Rows), NEW u, u = <<>>, DOMAIN t = DOMAIN u
              PROVE  t = <<>>
            BY <3>3
        <3>4. x.tracks[c] = <<>>
            BY <2>3, <3>1, <3>2, <3>3
        <3> QED  BY <3>4
    <2> QED  BY <2>1, <2>2, <2>3 DEF RowsFrom
<1>3. \A c \in DOMAIN x.cd : Reachable(x, c)
    BY ReachableStays DEF Good
<1> QED  BY <1>1, <1>2, <1>3, <1>4 DEF Good

\* A CD is one of the records that were there, or it is the record.
LEMMA VersionsStay ==
    ASSUME NEW x, NEW y, NEW r \in Records, DbInv(x), DbInv(y), Keeps(x, y),
           RowsFrom(x, y, r), NEW S, StoredFrom(y, S), NEW T, S \subseteq T, r \in T
    PROVE  StoredFrom(x, T)
<1> SUFFICES ASSUME NEW c \in DOMAIN x.cd
             PROVE  \E s \in T : IsVersion(x, c, s)
    BY DEF StoredFrom
<1>1. CASE c \in DOMAIN y.cd /\ x.cd[c] = y.cd[c] /\ x.tracks[c] = y.tracks[c]
    <2>1. PICK s \in S : IsVersion(y, c, s)
        BY <1>1 DEF StoredFrom
    <2>2. GenreName(x, x.cd[c].genre) = GenreName(y, y.cd[c].genre)
        BY <1>1 DEF DbInv, Keeps, Grows, GenreName
    <2>3. ReadRecord(x, c) = ReadRecord(y, c)
        BY <1>1, <2>2 DEF ReadRecord
    <2>4. IsVersion(x, c, s)
        BY <1>1, <2>1, <2>3 DEF IsVersion
    <2> QED  BY <2>1, <2>4
<1>3. CASE IsRowOf(x, c, r) /\ x.tracks[c] = TrackRows(r)
    <2>1. IsTextOf(x, c, r) /\ IsLengthsOf(x, c, r)
        BY <1>3, WrittenText, StoredLengths
    <2>2. /\ ReadRecord(x, c).songs = r.songs
          /\ ReadRecord(x, c).frames = StoredFrames(r)
        BY <2>1 DEF IsTextOf, StoredText, Text, IsLengthsOf, Lengths, ReadRecord
    <2> QED  BY <1>3, <2>2 DEF IsVersion, IsRowOf, ReadRecord
<1>4. CASE IsRowOf(x, c, r) /\ c \in DOMAIN y.cd /\ y.tracks[c] = <<>> /\ r.frames = <<>>
    <2>1. DOMAIN x.tracks[c] = {}
        BY <1>4, LengthsFixTracks DEF Keeps
    <2>2. ReadRecord(x, c).songs = <<>>
        BY <2>1 DEF ReadRecord
    <2> QED  BY <1>4, <2>2 DEF IsVersion, IsRowOf, ReadRecord
<1> QED  BY <1>1, <1>3, <1>4 DEF RowsFrom

\* Every verdict has one of seven reasons.
LEMMA VerdictReasons ==
    ASSUME NEW r, NEW ex
    PROVE  LET v == Verdict(r, ex)
           IN  \/ /\ v.update
                  /\ v.counts \in { {"entropy_gt"}, {"duplicate_lower", "upper_count_gt"},
                                    {"entropy_eq", "overall_count_gt"} }
               \/ /\ ~v.update
                  /\ v.counts \in { {"entropy_lt"}, {"duplicate"},
                                    {"duplicate_lower", "upper_count_eqlt"},
                                    {"entropy_eq", "overall_count_eqlt"} }
    BY DEF Verdict

\* A record replaces a version whose texts are not better than its own.
LEMMA VerdictImproves ==
    ASSUME NEW r \in Records, NEW s \in Records, NEW ex, Text(ex) = Text(s),
           Verdict(r, ex).update
    PROVE  NotPoorer(Text(r), Text(ex))
<1> DEFINE new == Text(r)
           old == Text(s)
<1>1. /\ Entropy(new) \in Nat /\ Entropy(old) \in Nat
      /\ CharCount(new) \in Nat /\ CharCount(old) \in Nat
      /\ EqualLowercase(new, old) => CharCount(new) = CharCount(old)
    BY CountAssumption
<1>2. CASE Entropy(new) > Entropy(old)
    BY <1>2 DEF NotPoorer
<1>3. CASE Entropy(new) < Entropy(old)
    BY <1>1, <1>3 DEF Verdict
<1>4. CASE Entropy(new) = Entropy(old)
    <2>1. CASE new = old
        BY <1>1, <1>4, <2>1 DEF Verdict
    <2>2. CASE new # old /\ EqualLowercase(new, old)
        BY <1>1, <1>4, <2>2 DEF NotPoorer
    <2>3. CASE new # old /\ ~EqualLowercase(new, old)
        <3>1. CharCount(new) > CharCount(old)
            BY <1>1, <1>4, <2>3 DEF Verdict
        <3> QED  BY <1>1, <1>4, <3>1 DEF NotPoorer
    <2> QED  BY <2>1, <2>2, <2>3
<1> QED  BY <1>1, <1>2, <1>3, <1>4

\* No CD with songs has poorer texts in x than in y.
Improves(x, y) ==
    \A c \in DOMAIN y.cd :
        y.tracks[c] # <<>> => NotPoorer(StoredText(x, c), StoredText(y, c))

LEMMA ImprovesReflexive ==
    ASSUME NEW x, NEW y, TextsAreWhole(y),
           \A c \in DOMAIN y.cd : x.cd[c] = y.cd[c] /\ x.tracks[c] = y.tracks[c]
    PROVE  Improves(x, y)
<1> SUFFICES ASSUME NEW c \in DOMAIN y.cd, y.tracks[c] # <<>>
             PROVE  NotPoorer(StoredText(x, c), StoredText(y, c))
    BY DEF Improves
<1>1. PICK s \in Records : IsTextOf(y, c, s)
    BY DEF TextsAreWhole
<1>2. StoredText(x, c) = Text(s) /\ StoredText(y, c) = Text(s)
    BY <1>1 DEF IsTextOf, StoredText, Text, ReadRecord
<1> QED  BY <1>2, CountAssumption DEF NotPoorer

LEMMA ImprovesTransitive ==
    ASSUME NEW x, NEW y, NEW z, TextsAreWhole(x), TextsAreWhole(y), TextsAreWhole(z),
           IsDatabase(x), IsDatabase(y), IsDatabase(z),
           RefersToCds(x), RefersToCds(y), RefersToCds(z),
           Keeps(x, y), Keeps(y, z), Improves(x, y), Improves(y, z)
    PROVE  Improves(x, z)
<1> SUFFICES ASSUME NEW c \in DOMAIN z.cd, z.tracks[c] # <<>>
             PROVE  NotPoorer(StoredText(x, c), StoredText(z, c))
    BY DEF Improves
<1>1. c \in DOMAIN y.cd /\ c \in DOMAIN x.cd
    BY DEF Keeps
<1>2. /\ DOMAIN y.tracks[c] = DOMAIN z.tracks[c]
      /\ DOMAIN x.tracks[c] = DOMAIN y.tracks[c]
    BY <1>1, LengthsFixTracks DEF Keeps
<1>3. /\ x.tracks[c] \in Seq(Rows) /\ y.tracks[c] \in Seq(Rows)
      /\ z.tracks[c] \in Seq(Rows)
    BY <1>1 DEF IsDatabase, IsTable, RefersToCds
<1>4. ASSUME NEW t \in Seq(Rows), NEW u \in Seq(Rows), DOMAIN t = DOMAIN u, u # <<>>
      PROVE  t # <<>>
    BY <1>4
<1>5. y.tracks[c] # <<>> /\ x.tracks[c] # <<>>
    BY <1>2, <1>3, <1>4
<1>6. PICK r \in Records, s \in Records, t \in Records :
        /\ StoredText(x, c) = Text(r)
        /\ StoredText(y, c) = Text(s)
        /\ StoredText(z, c) = Text(t)
    BY <1>1, <1>5 DEF TextsAreWhole, IsTextOf
<1>7. NotPoorer(Text(r), Text(s)) /\ NotPoorer(Text(s), Text(t))
    BY <1>1, <1>5, <1>6 DEF Improves
<1>8. NotPoorer(Text(r), Text(t))
    BY <1>7, CountAssumption DEF NotPoorer
<1> QED  BY <1>6, <1>8

-----------------------------------------------------------------------------
(* The report.                                                             *)

\* n entries were read, and there are k CDs more than before.
Balanced(rep, n, k) ==
    /\ rep["rct"] = n
    /\ rep["added"] = k
    /\ rep["updated"] = UsedForUpdates(rep)
    /\ rep["samecdframesct"] = rep["entropy_gt"] + rep["entropy_lt"]
            + rep["entropy_eq"] + rep["duplicate"] + rep["duplicate_lower"]

LEMMA CountAside ==
    ASSUME NEW rep \in [Counters -> Int], NEW n \in Int, NEW k \in Int,
           Balanced(rep, n, k),
           NEW c \in {"frct", "dcrcct", "realcddidcollct", "realdidcollct",
                      "sameframesct"}
    PROVE  Balanced(Bump(rep, {c}), n, k)
    BY DEF Balanced, Bump, UsedForUpdates, Counters

LEMMA CountRead ==
    ASSUME NEW rep \in [Counters -> Int], NEW n \in Int, NEW k \in Int,
           Balanced(rep, n, k),
           NEW C \in {{"rct"}, {"rct", "dcrcct"}, {"rct", "frct"}}
    PROVE  Balanced(Bump(rep, C), n + 1, k)
    BY DEF Balanced, Bump, UsedForUpdates, Counters

LEMMA CountAdded ==
    ASSUME NEW rep \in [Counters -> Int], NEW n \in Int, NEW k \in Int,
           Balanced(rep, n, k)
    PROVE  Balanced(Bump(rep, {"added"}), n, k + 1)
    BY DEF Balanced, Bump, UsedForUpdates, Counters

LEMMA CountMerged ==
    ASSUME NEW rep \in [Counters -> Int], NEW n \in Int, NEW k \in Int,
           Balanced(rep, n, k), NEW r, NEW ex, NEW known \in BOOLEAN
    PROVE  Balanced(MergedReport(rep, Verdict(r, ex), known), n,
                    IF known THEN k ELSE k - 1)
<1> DEFINE v == Verdict(r, ex)
           c == Bump(rep, v.counts \cup {"samecdframesct"})
           d == IF known THEN c ELSE [c EXCEPT !["added"] = @ - 1]
           m == IF known THEN k ELSE k - 1
<1>1. \/ /\ v.update
         /\ v.counts \in { {"entropy_gt"}, {"duplicate_lower", "upper_count_gt"},
                           {"entropy_eq", "overall_count_gt"} }
      \/ /\ ~v.update
         /\ v.counts \in { {"entropy_lt"}, {"duplicate"},
                           {"duplicate_lower", "upper_count_eqlt"},
                           {"entropy_eq", "overall_count_eqlt"} }
    BY VerdictReasons
<1> DEFINE same(x) == x["samecdframesct"] = x["entropy_gt"] + x["entropy_lt"]
                        + x["entropy_eq"] + x["duplicate"] + x["duplicate_lower"]
<1> HIDE DEF v
<1>2. /\ c \in [Counters -> Int]
      /\ c["rct"] = n /\ c["added"] = k
      /\ same(c)
      /\ v.update  => c["updated"] + 1 = UsedForUpdates(c)
      /\ ~v.update => c["updated"] = UsedForUpdates(c)
    BY <1>1 DEF Balanced, Bump, UsedForUpdates, Counters
<1> HIDE DEF c
<1>3. /\ d \in [Counters -> Int]
      /\ d["rct"] = n /\ d["added"] = m
      /\ same(d)
      /\ v.update  => d["updated"] + 1 = UsedForUpdates(d)
      /\ ~v.update => d["updated"] = UsedForUpdates(d)
    BY <1>2 DEF UsedForUpdates, Counters
<1> HIDE DEF d
<1>4. CASE v.update
    <2>1. Balanced(Bump(d, {"updated"}), n, m)
        BY <1>3, <1>4 DEF Balanced, Bump, UsedForUpdates, Counters
    <2> QED  BY <1>4, <2>1 DEF MergedReport, c, d, v
<1>5. CASE ~v.update
    <2>1. Balanced(d, n, m)
        BY <1>3, <1>5 DEF Balanced
    <2> QED  BY <1>5, <2>1 DEF MergedReport, c, d, v
<1> QED  BY <1>4, <1>5

\* How many CDs there are.
Size(db) == Cardinality(DOMAIN db.cd)

LEMMA SizeGrows ==
    ASSUME NEW db, Dense(db.cd), NEW x, NEW c, c \notin DOMAIN db.cd,
           DOMAIN x.cd = DOMAIN db.cd \cup {c}
    PROVE  Size(x) = Size(db) + 1
<1>1. PICK n \in Nat : DOMAIN db.cd = 1..n
    BY DEF Dense
<1>2. IsFiniteSet(DOMAIN db.cd)
    BY <1>1, FS_Interval
<1>3. Cardinality(DOMAIN db.cd \cup {c}) = Cardinality(DOMAIN db.cd) + 1
    BY <1>2, FS_AddElement
<1> QED  BY <1>3 DEF Size

LEMMA SizeIsNumber ==
    ASSUME NEW db, Dense(db.cd)
    PROVE  Size(db) \in Nat
<1>1. PICK n \in Nat : DOMAIN db.cd = 1..n
    BY DEF Dense
<1>2. IsFiniteSet(DOMAIN db.cd)
    BY <1>1, FS_Interval
<1> QED  BY <1>2, FS_CardinalityType DEF Size

-----------------------------------------------------------------------------
(* A record that is imported leaves every CD, its texts and the report as  *)
(* they should be.                                                         *)

\* What an iteration does to the database and the report, with n entries read
\* before it and m CDs before the import.
Kept(x, y, r, n, m) ==
    /\ Good(x.db)
    /\ Improves(x.db, y.db)
    /\ Found(x.db, r)
    /\ RowsFrom(x.db, y.db, r)
    /\ x.db.fuzzyindex = y.db.fuzzyindex
    /\ Balanced(x.rep, n + 1, Size(x.db) - m)

\* What is known after the first stage.
LEMMA TitleStageKept ==
    ASSUME NEW w, WorkInv(w), NEW r \in Records, NEW n \in Int, NEW m \in Int,
           Balanced(w.rep, n, Size(w.db) - m)
    PROVE  LET t == TitleStage(w, r)
           IN  /\ RowsFrom(t.db, w.db, r)
               /\ \A c \in DOMAIN t.db.cd \ DOMAIN w.db.cd : c = CdidOf(w, r)
               /\ Balanced(t.rep, n + 1, Size(t.db) - m)
               /\ Size(t.db) = IF KnownTitle(w, r) THEN Size(w.db) ELSE Size(w.db) + 1
<1> DEFINE t == TitleStage(w, r)
           c == CdidOf(w, r)
<1>1. /\ \A k \in DOMAIN w.db.cd :
            t.db.cd[k] = w.db.cd[k] /\ t.db.tracks[k] = w.db.tracks[k]
      /\ KnownTitle(w, r) =>
            t.db = w.db /\ t.rep = Bump(w.rep, {"rct", "dcrcct"})
      /\ ~KnownTitle(w, r) =>
            /\ c \notin DOMAIN w.db.cd
            /\ DOMAIN t.db.cd = DOMAIN w.db.cd \cup {c}
            /\ IsRowOf(t.db, c, r)
            /\ t.db.tracks[c] = TrackRows(r)
            /\ t.rep = Bump(Bump(w.rep, {"added"}), {"rct"})
    BY TitleStageInv
<1>2. /\ Dense(w.db.cd) /\ w.rep \in [Counters -> Int]
      /\ Size(w.db) - m \in Int
    <2>1. Dense(w.db.cd) /\ w.rep \in [Counters -> Int]
        BY DEF WorkInv, DbInv
    <2> QED  BY <2>1, SizeIsNumber
<1> HIDE DEF t, c
<1>3. CASE KnownTitle(w, r)
    <2>1. Balanced(t.rep, n + 1, Size(w.db) - m)
        BY <1>1, <1>2, <1>3, CountRead
    <2> QED  BY <1>1, <1>3, <2>1 DEF RowsFrom, t
<1>4. CASE ~KnownTitle(w, r)
    <2>1. Size(t.db) = Size(w.db) + 1
        BY <1>1, <1>2, <1>4, SizeGrows
    <2> DEFINE a == Bump(w.rep, {"added"})
               k == Size(w.db) - m
    <2>2. a \in [Counters -> Int] /\ Balanced(a, n, k + 1) /\ k + 1 \in Int
        BY <1>2, BumpType, CountAdded
    <2> HIDE DEF a
    <2>3. Balanced(t.rep, n + 1, k + 1)
        BY <1>1, <1>4, <2>2, CountRead DEF a
    <2>4. k + 1 = Size(t.db) - m
        BY <1>2, <2>1, SizeIsNumber
    <2>5. Balanced(t.rep, n + 1, Size(t.db) - m)
        BY <2>3, <2>4
    <2>6. RowsFrom(t.db, w.db, r)
        BY <1>1, <1>4 DEF RowsFrom
    <2>7. \A e \in DOMAIN t.db.cd \ DOMAIN w.db.cd : e = c
        BY <1>1, <1>4
    <2> QED  BY <1>4, <2>1, <2>5, <2>6, <2>7 DEF t, c
<1> QED  BY <1>3, <1>4

\* A record that gets links: the CD is linked, and the record found.
LEMMA LinkKept ==
    ASSUME NEW w, WorkInv(w), Good(w.db), NEW r \in Records,
           NEW n \in Int, NEW m \in Int, Balanced(w.rep, n, Size(w.db) - m),
           NEW z, WorkInv(z), z.db = TitleStage(w, r).db,
           Balanced(z.rep, n + 1, Size(z.db) - m),
           WorkInv(WriteLinks(z, r, CdidOf(w, r))),
           Keeps(WriteLinks(z, r, CdidOf(w, r)).db, w.db)
    PROVE  Kept(WriteLinks(z, r, CdidOf(w, r)), w, r, n, m)
<1> DEFINE t == TitleStage(w, r)
           c == CdidOf(w, r)
           x == WriteLinks(z, r, c)
<1>1. /\ c \in DOMAIN t.db.cd
      /\ t.db.fuzzyindex = w.db.fuzzyindex
      /\ \A k \in DOMAIN w.db.cd :
            t.db.cd[k] = w.db.cd[k] /\ t.db.tracks[k] = w.db.tracks[k]
      /\ HashOf(r) \in DOMAIN t.db.namehash /\ t.db.namehash[HashOf(r)] = c
    BY TitleStageInv
<1>2. /\ RowsFrom(t.db, w.db, r)
      /\ \A k \in DOMAIN t.db.cd \ DOMAIN w.db.cd : k = c
    BY TitleStageKept
<1> HIDE DEF t, c
<1>3. /\ x.db.cd = t.db.cd /\ x.db.tracks = t.db.tracks
      /\ x.db.fuzzyindex = t.db.fuzzyindex
      /\ x.rep = z.rep
      /\ x.db.namehash = t.db.namehash /\ x.db.genre = t.db.genre
      /\ Linked(x.db, c)
      /\ c \in Range(x.db.discid[DiscId(r.seconds, r.frames)])
      /\ c \in Range(x.db.fuzzyid[FuzzyId(r.seconds, r.frames)])
    BY <1>1, WriteLinksInv DEF t
<1>4. WorkInv(x) /\ Keeps(x.db, w.db)
    BY DEF c
<1> HIDE DEF x
<1>5. RowsFrom(x.db, w.db, r)
    BY <1>2, <1>3 DEF RowsFrom, IsRowOf, GenreName
<1>11. Found(x.db, r)
    BY <1>1, <1>3 DEF Found, LinkedByText
<1>6. \A k \in DOMAIN x.db.cd \ DOMAIN w.db.cd :
        /\ Reachable(x.db, k)
        /\ SameFrames(r, ReadRecord(x.db, k)) => Answered(x.db, r)
    BY <1>2, <1>3 DEF Reachable, Answered
<1>7. /\ IsDatabase(x.db) /\ IsDatabase(w.db)
      /\ RefersToCds(x.db) /\ RefersToCds(w.db)
    BY <1>4 DEF WorkInv, DbInv
<1>8. Good(x.db)
    BY <1>3, <1>4, <1>5, <1>6, <1>7, GoodStays
<1>9. Improves(x.db, w.db)
    <2>1. \A k \in DOMAIN w.db.cd :
            x.db.cd[k] = w.db.cd[k] /\ x.db.tracks[k] = w.db.tracks[k]
        BY <1>1, <1>3
    <2> QED  BY <2>1, ImprovesReflexive DEF Good
<1>10. Balanced(x.rep, n + 1, Size(x.db) - m)
    BY <1>3 DEF Size, t
<1> QED  BY <1>1, <1>3, <1>5, <1>8, <1>9, <1>10, <1>11 DEF Kept, x, c

\* The CD that has the disc id and the track lengths of a record.
LEMMA ExistingCd ==
    ASSUME NEW w, WorkInv(w), Good(w.db), NEW r \in Records,
           LET t == TitleStage(w, r).db
               d == DiscId(r.seconds, r.frames)
           IN  KnownDiscId(t, d) /\ SameFrames(r, ReadRecord(t, CheckDiscId(t, d)))
    PROVE  LET t   == TitleStage(w, r).db
               d   == DiscId(r.seconds, r.frames)
               ecd == CheckDiscId(t, d)
           IN  /\ d \in DiscIds
               /\ ecd \in DOMAIN w.db.cd
               /\ Answered(w.db, r)
               /\ t.cd[ecd] = w.db.cd[ecd] /\ t.tracks[ecd] = w.db.tracks[ecd]
               /\ KnownDiscId(w.db, d) /\ CheckDiscId(w.db, d) = ecd
<1> DEFINE t   == TitleStage(w, r).db
           d   == DiscId(r.seconds, r.frames)
           ecd == CheckDiscId(t, d)
<1>1. KnownDiscId(t, d) /\ SameFrames(r, ReadRecord(t, ecd))
    OBVIOUS
<1>2. d \in DiscIds
    BY RecordType
<1>3. /\ SameLinks(t, w.db)
      /\ \A k \in DOMAIN w.db.cd : t.cd[k] = w.db.cd[k] /\ t.tracks[k] = w.db.tracks[k]
      /\ \A k \in DOMAIN w.db.cd : Lengths(t, k) = Lengths(w.db, k)
    BY TitleStageInv
<1> HIDE DEF t, d
<1>4. KnownDiscId(w.db, d) /\ CheckDiscId(w.db, d) = ecd
    BY <1>1, <1>3 DEF KnownDiscId, CheckDiscId, SameLinks
<1> HIDE DEF ecd
<1>5. ecd \in DOMAIN w.db.cd
    <2>1. /\ w.db.discid[d] \in Seq(CdIds) /\ w.db.discid[d] # <<>>
          /\ Range(w.db.discid[d]) \subseteq DOMAIN w.db.cd
          /\ ecd = Head(w.db.discid[d])
        BY <1>2, <1>4 DEF WorkInv, DbInv, IsDatabase, RefersToCds, KnownDiscId, CheckDiscId
    <2> QED  BY <2>1 DEF Range
<1>6. SameFrames(r, ReadRecord(w.db, ecd))
    BY <1>1, <1>3, <1>5, SameFramesLengths
<1>7. Answered(w.db, r)
    BY <1>5, <1>6 DEF Good, CdsAreFound
<1> QED  BY <1>2, <1>3, <1>4, <1>5, <1>7 DEF ecd, d, t

\* Another disc with the same track lengths: a new CD has it for a twin.
LEMMA KeepUnlinkedKept ==
    ASSUME Inv, Good(work.db), NEW r \in Records, KeepUnlinked(r),
           NEW n \in Int, NEW m \in Int, Balanced(work.rep, n, Size(work.db) - m)
    PROVE  Kept(work', work, r, n, m)
<1> DEFINE w   == work
           t   == TitleStage(w, r)
           d   == DiscId(r.seconds, r.frames)
           ecd == CheckDiscId(t.db, d)
           c   == CdidOf(w, r)
<1>1. /\ KnownDiscId(t.db, d) /\ SameFrames(r, ReadRecord(t.db, ecd))
      /\ work' = [t EXCEPT !.rep = Bump(@, {"sameframesct"})]
    BY DEF KeepUnlinked
<1>2. WorkInv(w)
    BY DEF Inv
<1>3. /\ WorkInv(t)
      /\ t.db.fuzzyindex = w.db.fuzzyindex
      /\ \A k \in DOMAIN w.db.cd :
            t.db.cd[k] = w.db.cd[k] /\ t.db.tracks[k] = w.db.tracks[k]
      /\ SameLinks(t.db, w.db)
      /\ ~KnownTitle(w, r) => IsRowOf(t.db, c, r) /\ t.db.tracks[c] = TrackRows(r)
      /\ KnownTitle(w, r) => t.db = w.db
    BY <1>2, TitleStageInv
<1>4. /\ RowsFrom(t.db, w.db, r)
      /\ \A k \in DOMAIN t.db.cd \ DOMAIN w.db.cd : k = c
      /\ Balanced(t.rep, n + 1, Size(t.db) - m)
    BY <1>2, TitleStageKept
<1>5. /\ d \in DiscIds /\ ecd \in DOMAIN w.db.cd /\ Answered(w.db, r)
    BY <1>1, <1>2, ExistingCd
<1>6. Keeps(work'.db, w.db) /\ WorkInv(work')
    BY RecordInv
<1> HIDE DEF t, d, ecd, c
<1>7. work'.db = t.db /\ work'.rep = Bump(t.rep, {"sameframesct"})
    BY <1>1, <1>3, CountInv
<1>8. /\ IsDatabase(t.db) /\ IsDatabase(w.db) /\ RefersToCds(t.db) /\ RefersToCds(w.db)
      /\ Dense(t.db.cd) /\ t.rep \in [Counters -> Int] /\ Keeps(t.db, w.db)
    BY <1>2, <1>3, <1>6, <1>7 DEF WorkInv, DbInv
<1>9. Answered(t.db, r) /\ Found(t.db, r)
    BY <1>5, <1>8, AnsweredStays DEF Found
<1>10. ASSUME NEW k \in DOMAIN t.db.cd \ DOMAIN w.db.cd
       PROVE  Reachable(t.db, k)
    <2>1. k = c /\ ecd # c /\ ~KnownTitle(w, r)
        BY <1>3, <1>4, <1>5
    <2>2. IsRowOf(t.db, c, r) /\ t.db.tracks[c] = TrackRows(r)
        BY <1>3, <2>1
    <2>3. Lengths(t.db, ecd).seconds = r.seconds /\ Lengths(t.db, ecd).frames = r.frames
        BY <1>1, SameFramesLengths
    <2>4. TrackLengths(t.db, ecd) = TrackLengths(t.db, c)
        <3>1. CASE r.frames # <<>>
            <4>1. Lengths(t.db, c).seconds = r.seconds /\ Lengths(t.db, c).frames = r.frames
                BY <2>2, <3>1, WrittenText
            <4>2. Lengths(t.db, c) = Lengths(t.db, ecd)
                BY <2>3, <4>1 DEF Lengths
            <4> QED  BY <4>2, LengthsFixTracks
        <3>2. CASE r.frames = <<>>
            <4>1. \A i \in DOMAIN TrackRows(r) : ~(TrackRows(r)[i].frames > 0)
                BY <3>2 DEF TrackRows, TrackRow
            <4>2. TrackLengths(t.db, c) = [seconds |-> r.seconds, frames |-> [i \in {} |-> 0]]
                <5> DEFINE R == t.db.tracks[c]
                <5>1. {i \in DOMAIN R : R[i].frames > 0} = {}
                    BY <2>2, <4>1
                <5>2. t.db.cd[c].seconds = r.seconds
                    BY <2>2 DEF IsRowOf
                <5>3. [i \in {i \in DOMAIN R : R[i].frames > 0} |-> R[i].frames]
                        = [i \in {} |-> 0]
                    BY <5>1
                <5> QED  BY <5>2, <5>3, Zenon DEF TrackLengths
            <4>3. [ct \in DOMAIN t.db.tracks[ecd] |-> t.db.tracks[ecd][ct].frames] = <<>>
                BY <2>3, <3>2 DEF Lengths
            <4>4. DOMAIN t.db.tracks[ecd] = {}
                <5> DEFINE L == [ct \in DOMAIN t.db.tracks[ecd]
                                    |-> t.db.tracks[ecd][ct].frames]
                <5>1. DOMAIN L = DOMAIN t.db.tracks[ecd]
                    OBVIOUS
                <5>2. L = <<>>
                    BY <4>3
                <5> HIDE DEF L
                <5>3. DOMAIN L = 1..0
                    BY <5>2
                <5> QED  BY <5>1, <5>3
            <4>5. TrackLengths(t.db, ecd) = [seconds |-> r.seconds, frames |-> [i \in {} |-> 0]]
                <5> DEFINE R == t.db.tracks[ecd]
                <5>1. t.db.cd[ecd].seconds = r.seconds
                    BY <2>3 DEF Lengths
                <5>2. [i \in {i \in DOMAIN R : R[i].frames > 0} |-> R[i].frames]
                        = [i \in {} |-> 0]
                    BY <4>4
                <5> QED  BY <5>1, <5>2, Zenon DEF TrackLengths
            <4> QED  BY <4>2, <4>5
        <3> QED  BY <3>1, <3>2
    <2> QED  BY <1>1, <1>5, <2>1, <2>4 DEF Reachable, HasTwin, ecd
<1>11. Good(t.db)
    BY <1>4, <1>8, <1>9, <1>10, GoodStays
<1>12. Improves(t.db, w.db)
    BY <1>3, ImprovesReflexive DEF Good
<1>13. Balanced(work'.rep, n + 1, Size(t.db) - m)
    <2>1. Size(t.db) - m \in Int /\ n + 1 \in Int
        BY <1>8, SizeIsNumber
    <2> QED  BY <1>4, <1>7, <1>8, <2>1, CountAside
<1> QED  BY <1>3, <1>4, <1>7, <1>9, <1>11, <1>12, <1>13 DEF Kept

\* Another version of a disc: nothing is left of it, or it takes the place of
\* the one that is there.
LEMMA MergeKept ==
    ASSUME Inv, Good(work.db), NEW r \in Records, MergeDuplicate(r),
           NEW n \in Int, NEW m \in Int, Balanced(work.rep, n, Size(work.db) - m)
    PROVE  Kept(work', work, r, n, m)
<1> DEFINE w   == work
           t   == TitleStage(w, r)
           d   == DiscId(r.seconds, r.frames)
           ecd == CheckDiscId(t.db, d)
           ex  == ReadRecord(t.db, ecd)
           v   == Verdict(r, ex)
           x   == work'
<1>1. /\ KnownDiscId(t.db, d) /\ SameFrames(r, ex)
      /\ x = Merge(t, r, ecd, CdidOf(w, r), ~KnownTitle(w, r))
    BY DEF MergeDuplicate
<1>2. WorkInv(w)
    BY DEF Inv
<1>3. /\ d \in DiscIds /\ ecd \in DOMAIN w.db.cd /\ Answered(w.db, r)
      /\ t.db.cd[ecd] = w.db.cd[ecd] /\ t.db.tracks[ecd] = w.db.tracks[ecd]
    BY <1>1, <1>2, ExistingCd
<1>4. /\ Balanced(t.rep, n + 1, Size(t.db) - m)
      /\ Size(t.db) = IF KnownTitle(w, r) THEN Size(w.db) ELSE Size(w.db) + 1
    BY <1>2, TitleStageKept
<1>5. WorkInv(t)
    BY <1>2, TitleStageInv
<1> HIDE DEF d, ecd
<1>6. /\ WorkInv(x) /\ Keeps(x.db, w.db)
      /\ DOMAIN x.db.cd = DOMAIN w.db.cd
      /\ x.db.fuzzyindex = w.db.fuzzyindex
      /\ \A k \in DOMAIN w.db.cd : k # ecd \/ ~v.update =>
            x.db.cd[k] = w.db.cd[k] /\ x.db.tracks[k] = w.db.tracks[k]
      /\ v.update => IsRowOf(x.db, ecd, r)
      /\ v.update /\ w.db.tracks[ecd] # <<>> => x.db.tracks[ecd] = TrackRows(r)
      /\ v.update /\ w.db.tracks[ecd] = <<>> => r.frames = <<>>
      /\ x.rep = MergedReport(t.rep, v, KnownTitle(w, r))
    BY <1>1, <1>2, <1>3, MergeInv
<1> HIDE DEF t, x
<1>7. /\ IsDatabase(x.db) /\ IsDatabase(w.db) /\ RefersToCds(x.db) /\ RefersToCds(w.db)
      /\ Dense(t.db.cd) /\ Dense(w.db.cd) /\ t.rep \in [Counters -> Int]
    BY <1>2, <1>5, <1>6 DEF WorkInv, DbInv
<1>8. Found(x.db, r)
    BY <1>3, <1>6, <1>7, AnsweredStays DEF Found
<1>9. RowsFrom(x.db, w.db, r)
    BY <1>3, <1>6 DEF RowsFrom
<1>10. Good(x.db)
    BY <1>6, <1>7, <1>9, GoodStays
<1>11. Improves(x.db, w.db)
    <2> SUFFICES ASSUME NEW k \in DOMAIN w.db.cd, w.db.tracks[k] # <<>>
                 PROVE  NotPoorer(StoredText(x.db, k), StoredText(w.db, k))
        BY DEF Improves
    <2>1. PICK s \in Records : IsTextOf(w.db, k, s)
        BY DEF Good, TextsAreWhole
    <2>2. StoredText(w.db, k) = Text(s)
        BY <2>1 DEF IsTextOf
    <2>3. CASE k # ecd \/ ~v.update
        <3>1. StoredText(x.db, k) = Text(s)
            BY <1>6, <2>2, <2>3 DEF StoredText, Text, ReadRecord
        <3> QED  BY <2>2, <3>1, CountAssumption DEF NotPoorer
    <2>4. CASE k = ecd /\ v.update
        <3>1. StoredText(x.db, k) = Text(r)
            BY <1>6, <2>4, WrittenText DEF IsTextOf
        <3>2. Text(ex) = Text(s)
            BY <1>3, <2>2, <2>4 DEF StoredText, Text, ReadRecord
        <3>3. NotPoorer(Text(r), Text(s))
            BY <2>4, <3>2, VerdictImproves
        <3> QED  BY <2>2, <3>1, <3>3
    <2> QED  BY <2>3, <2>4
<1>12. Balanced(x.rep, n + 1, Size(x.db) - m)
    <2> DEFINE k == Size(t.db) - m
    <2>1. k \in Int /\ n + 1 \in Int /\ KnownTitle(w, r) \in BOOLEAN
        BY <1>7, SizeIsNumber DEF KnownTitle
    <2>2. Balanced(x.rep, n + 1, IF KnownTitle(w, r) THEN k ELSE k - 1)
        BY <1>4, <1>6, <1>7, <2>1, CountMerged
    <2>3. Size(x.db) = Size(w.db) /\ Size(w.db) \in Nat /\ Size(t.db) \in Nat
        BY <1>6, <1>7, SizeIsNumber DEF Size
    <2>4. Size(x.db) - m = IF KnownTitle(w, r) THEN k ELSE k - 1
        BY <1>4, <2>3
    <2> QED  BY <2>2, <2>4
<1> QED  BY <1>6, <1>8, <1>9, <1>10, <1>11, <1>12 DEF Kept, x

LEMMA RecordKept ==
    ASSUME Inv, Good(work.db), NEW r \in Records,
           \/ LinkNewDiscId(r) \/ LinkCollision(r)
           \/ MergeDuplicate(r) \/ KeepUnlinked(r),
           NEW n \in Int, NEW m \in Int, Balanced(work.rep, n, Size(work.db) - m)
    PROVE  Kept(work', work, r, n, m)
<1> DEFINE t == TitleStage(work, r)
<1>1. WorkInv(work)
    BY DEF Inv
<1>2. WorkInv(t) /\ Balanced(t.rep, n + 1, Size(t.db) - m)
    BY <1>1, TitleStageInv, TitleStageKept
<1>3. WorkInv(work') /\ Keeps(work'.db, work.db)
    BY RecordInv
<1>4. CASE LinkNewDiscId(r)
    <2>1. work' = WriteLinks(t, r, CdidOf(work, r))
        BY <1>4 DEF LinkNewDiscId
    <2> QED  BY <1>1, <1>2, <1>3, <2>1, LinkKept
<1>5. CASE LinkCollision(r)
    <2>1. PICK c \in {"realcddidcollct", "realdidcollct"} :
            work' = WriteLinks([t EXCEPT !.rep = Bump(@, {c})], r, CdidOf(work, r))
        BY <1>5 DEF LinkCollision
    <2> DEFINE z == [t EXCEPT !.rep = Bump(@, {c})]
    <2> HIDE DEF t
    <2>2. WorkInv(z) /\ z.db = t.db /\ z.rep = Bump(t.rep, {c})
        BY <1>2, CountInv
    <2> HIDE DEF z
    <2>3. Balanced(z.rep, n + 1, Size(z.db) - m)
        <3>1. Size(t.db) - m \in Int /\ n + 1 \in Int /\ t.rep \in [Counters -> Int]
            BY <1>2, SizeIsNumber DEF WorkInv, DbInv
        <3> QED  BY <1>2, <2>2, <3>1, CountAside
    <2>4. work' = WriteLinks(z, r, CdidOf(work, r))
        BY <2>1 DEF z
    <2> QED  BY <1>1, <1>3, <2>2, <2>3, <2>4, LinkKept DEF t
<1> QED  BY <1>4, <1>5, MergeKept, KeepUnlinkedKept

-----------------------------------------------------------------------------
(* The invariant of the texts, the links and the report.                   *)

\* The index on FUZZYID is there, but for an initial import in progress.
IndexInv2 == committed.fuzzyindex /\ (work.db.fuzzyindex \/ initial)

TakenAreFound ==
    \A i \in 1..pos : archive[i] \in Records => Found(work.db, archive[i])

PublishedAreFound == \A r \in published : Found(committed, r)

ReportInv == Balanced(work.rep, pos, Size(work.db) - Size(committed))

\* The records of committed archives, and those that the import has taken.
Taken == published \cup {r \in Records : \E i \in 1..pos : archive[i] = r}

VersionsInv == StoredFrom(committed, published) /\ StoredFrom(work.db, Taken)

KeptInv ==
    /\ Inv
    /\ Good(committed) /\ Good(work.db)
    /\ Improves(work.db, committed)
    /\ IndexInv2
    /\ PublishedAreFound
    /\ TakenAreFound
    /\ VersionsInv
    /\ ReportInv

\* What is kept of the CDs does not depend on the index.
LEMMA SameTables ==
    ASSUME NEW x, NEW y, x.cd = y.cd, x.tracks = y.tracks, SameLinks(x, y),
           x.namehash = y.namehash, x.genre = y.genre
    PROVE  /\ Good(y) => Good(x)
           /\ \A z : Improves(y, z) => Improves(x, z)
           /\ \A r : Found(y, r) => Found(x, r)
           /\ \A S : StoredFrom(y, S) => StoredFrom(x, S)
           /\ Size(x) = Size(y)
<1>1. \A c : /\ StoredText(x, c) = StoredText(y, c)
             /\ TrackLengths(x, c) = TrackLengths(y, c)
             /\ Linked(x, c) <=> Linked(y, c)
    BY DEF StoredText, Text, ReadRecord, TrackLengths, Linked, SameLinks
<1>2. \A c, s : SameFrames(s, ReadRecord(x, c)) <=> SameFrames(s, ReadRecord(y, c))
    BY DEF SameFrames, ReadRecord
<1>3. \A r : /\ Answered(x, r) <=> Answered(y, r)
             /\ LinkedByText(x, r) <=> LinkedByText(y, r)
    BY <1>2 DEF Answered, LinkedByText, SameLinks
<1>4. \A d : (KnownDiscId(x, d) <=> KnownDiscId(y, d)) /\ CheckDiscId(x, d) = CheckDiscId(y, d)
    BY DEF KnownDiscId, CheckDiscId, SameLinks
<1>5. \A c : Reachable(y, c) => Reachable(x, c)
    BY <1>1, <1>4 DEF Reachable, HasTwin
<1>6. CdsAreFound(y) => CdsAreFound(x)
    BY <1>2, <1>3 DEF CdsAreFound
<1>10. LengthsAreWritten(y) => LengthsAreWritten(x)
    BY DEF LengthsAreWritten, IsLengthsOf, Lengths
<1>7. TextsAreWhole(y) => TextsAreWhole(x)
    BY <1>1 DEF TextsAreWhole, IsTextOf
<1>8. Good(y) => Good(x)
    BY <1>5, <1>6, <1>7, <1>10 DEF Good
<1>9. \A z : Improves(y, z) => Improves(x, z)
    BY <1>1 DEF Improves
<1>11. \A c : ReadRecord(x, c) = ReadRecord(y, c)
    BY DEF ReadRecord, GenreName
<1>12. \A S : StoredFrom(y, S) => StoredFrom(x, S)
    BY <1>11 DEF StoredFrom, IsVersion
<1> QED  BY <1>3, <1>8, <1>9, <1>12 DEF Size, Found

\* The updater object as its constructor makes it.
LEMMA FreshKept ==
    ASSUME NEW db, DbInv(db), Good(db)
    PROVE  /\ Good(Fresh(db).db) /\ Improves(Fresh(db).db, db)
           /\ Fresh(db).db = db
           /\ Balanced(Fresh(db).rep, 0, 0)
           /\ Size(db) - Size(db) = 0
<1>1. Fresh(db).db = db /\ Fresh(db).rep = [c \in Counters |-> 0]
    BY DEF Fresh
<1>2. Improves(db, db)
    BY ImprovesReflexive DEF Good
<1>3. Balanced(Fresh(db).rep, 0, 0)
    BY <1>1 DEF Balanced, UsedForUpdates, Counters
<1>4. Size(db) \in Nat
    BY SizeIsNumber DEF DbInv
<1> QED  BY <1>1, <1>2, <1>3, <1>4

LEMMA InitKept == Init => KeptInv
<1> SUFFICES ASSUME Init PROVE KeptInv
    OBVIOUS
<1>1. Inv
    BY InitInv
<1>2. committed = EmptyDatabase /\ work = Fresh(committed)
    BY DEF Init
<1>3. committed.cd = EmptyTable /\ committed.fuzzyindex = TRUE /\ DOMAIN EmptyTable = {}
    BY <1>2 DEF EmptyDatabase, EmptyTable
<1>4. Good(committed)
    BY <1>3 DEF Good, CdsAreFound, LengthsAreWritten, TextsAreWhole
<1>5. /\ Good(work.db) /\ Improves(work.db, committed) /\ work.db = committed
      /\ Balanced(work.rep, 0, Size(work.db) - Size(committed))
    BY <1>1, <1>2, <1>4, FreshKept DEF Inv
<1>6. pos = 0 /\ published = {}
    BY DEF Init
<1>7. VersionsInv
    BY <1>3, <1>5 DEF VersionsInv, StoredFrom
<1> QED  BY <1>1, <1>3, <1>4, <1>5, <1>6, <1>7
        DEF KeptInv, IndexInv2, PublishedAreFound, TakenAreFound, ReportInv

\* Between two imports nothing is open.
LEMMA ClosedKept ==
    ASSUME Inv', Good(committed'), committed'.fuzzyindex, PublishedAreFound',
           StoredFrom(committed', published'), work' = Fresh(committed'), pos' = 0
    PROVE  KeptInv'
<1>1. DbInv(committed')
    BY DEF Inv
<1>2. /\ Good(work'.db) /\ Improves(work'.db, committed') /\ work'.db = committed'
      /\ Balanced(work'.rep, 0, Size(work'.db) - Size(committed'))
    BY <1>1, FreshKept
<1>3. TakenAreFound'
    BY DEF TakenAreFound
<1>4. IndexInv2'
    BY <1>2 DEF IndexInv2
<1>5. VersionsInv'
    <2>1. Taken' = published'
        BY DEF Taken
    <2> QED  BY <1>2, <2>1 DEF VersionsInv
<1> QED  BY <1>2, <1>3, <1>4, <1>5 DEF KeptInv, ReportInv

\* One more entry was taken.
LEMMA TakenKept ==
    ASSUME KeptInv, Inv', NEW e, TakeEntry(e),
           Keeps(work'.db, work.db), Good(work'.db), Improves(work'.db, work.db),
           work'.db.fuzzyindex = work.db.fuzzyindex,
           e \in Records => Found(work'.db, e),
           StoredFrom(work'.db, Taken'),
           Balanced(work'.rep, pos + 1, Size(work'.db) - Size(committed))
    PROVE  KeptInv'
<1>1. /\ pos' = pos + 1 /\ archive[pos + 1] = e /\ archive' = archive
      /\ committed' = committed /\ published' = published /\ initial' = initial
    BY DEF TakeEntry
<1>2. /\ IsDatabase(committed) /\ IsDatabase(work.db) /\ IsDatabase(work'.db)
      /\ RefersToCds(committed) /\ RefersToCds(work.db) /\ RefersToCds(work'.db)
      /\ Keeps(work.db, committed)
    BY DEF KeptInv, Inv, WorkInv, DbInv
<1>3. Improves(work'.db, committed)
    BY <1>2, ImprovesTransitive DEF KeptInv, Good
<1>4. TakenAreFound'
    <2> SUFFICES ASSUME NEW i \in 1..(pos + 1), archive[i] \in Records
                 PROVE  Found(work'.db, archive[i])
        BY <1>1 DEF TakenAreFound
    <2>1. pos \in Nat
        BY DEF KeptInv, Inv
    <2>2. CASE i = pos + 1
        BY <1>1, <2>2
    <2>3. CASE i # pos + 1
        <3>1. i \in 1..pos
            BY <2>1, <2>3
        <3>2. Found(work.db, archive[i])
            BY <3>1 DEF KeptInv, TakenAreFound
        <3> QED  BY <1>2, <3>2, FoundStays
    <2> QED  BY <2>2, <2>3
<1>5. IndexInv2' /\ PublishedAreFound' /\ ReportInv' /\ Good(committed')
    BY <1>1 DEF KeptInv, IndexInv2, PublishedAreFound, ReportInv
<1>6. VersionsInv'
    BY <1>1 DEF KeptInv, VersionsInv
<1> QED  BY <1>1, <1>3, <1>4, <1>5, <1>6 DEF KeptInv

\* Taking an entry makes the records that were taken one more.
LEMMA TakenGrows ==
    ASSUME Inv, NEW e, TakeEntry(e)
    PROVE  Taken \subseteq Taken' /\ (e \in Records => e \in Taken')
<1>1. pos \in Nat /\ pos' = pos + 1 /\ archive' = archive /\ published' = published
      /\ archive[pos + 1] = e
    BY DEF Inv, TakeEntry
<1>2. \A i \in 1..pos : i \in 1..pos'
    BY <1>1
<1>3. pos + 1 \in 1..pos'
    BY <1>1
<1> QED  BY <1>1, <1>2, <1>3 DEF Taken

LEMMA NextKept == KeptInv /\ [Next]_vars /\ Whole' => KeptInv'
<1> SUFFICES ASSUME KeptInv, [Next]_vars, Whole' PROVE KeptInv'
    OBVIOUS
<1>1. Inv /\ Inv'
    BY NextInv DEF KeptInv
<1>2. DbInv(committed) /\ Good(committed) /\ Good(work.db)
    BY <1>1 DEF KeptInv, Inv
<1>3. ASSUME NEW a \in Archives, NEW init \in BOOLEAN, StartImport(a, init)
      PROVE  KeptInv'
    <2> DEFINE f == Fresh(committed)
    <2>1. /\ f.db = committed /\ Balanced(f.rep, 0, 0)
          /\ Good(f.db) /\ Improves(f.db, committed)
          /\ Size(committed) - Size(committed) = 0
        BY <1>2, FreshKept
    <2>2. WorkInv(f)
        BY <1>2, FreshInv
    <2> HIDE DEF f
    <2>3. /\ work'.db.cd = f.db.cd /\ work'.db.tracks = f.db.tracks
          /\ SameLinks(work'.db, f.db) /\ work'.rep = f.rep
          /\ work'.db.namehash = f.db.namehash /\ work'.db.genre = f.db.genre
          /\ work'.db.fuzzyindex = (f.db.fuzzyindex /\ ~init)
        <3>1. CASE init
            <4>1. work' = [f EXCEPT !.db.fuzzyindex = FALSE]
                BY <1>3, <3>1 DEF StartImport, f
            <4>2. work'.db = [f.db EXCEPT !.fuzzyindex = FALSE] /\ work'.rep = f.rep
                BY <2>2, <4>1 DEF WorkInv
            <4> QED  BY <2>2, <3>1, <4>2 DEF WorkInv, DbInv, IsDatabase, SameLinks
        <3>2. CASE ~init
            <4>1. work' = f
                BY <1>3, <3>2 DEF StartImport, f
            <4> QED  BY <2>2, <3>2, <4>1 DEF WorkInv, DbInv, IsDatabase, SameLinks
        <3> QED  BY <3>1, <3>2
    <2>4. /\ pos' = 0 /\ initial' = init
          /\ committed' = committed /\ published' = published
        BY <1>3 DEF StartImport
    <2>5. Good(work'.db) /\ Improves(work'.db, committed) /\ Size(work'.db) = Size(f.db)
        BY <2>1, <2>3, SameTables
    <2>6. ReportInv'
        BY <2>1, <2>3, <2>4, <2>5 DEF ReportInv
    <2>7. IndexInv2'
        BY <2>1, <2>3, <2>4 DEF KeptInv, IndexInv2
    <2>8. TakenAreFound' /\ PublishedAreFound'
        BY <2>4 DEF KeptInv, TakenAreFound, PublishedAreFound
    <2>9. VersionsInv'
        <3>1. Taken' = published'
            BY <2>4 DEF Taken
        <3>2. StoredFrom(work'.db, published)
            BY <2>1, <2>3, SameTables DEF KeptInv, VersionsInv
        <3> QED  BY <2>4, <3>1, <3>2 DEF KeptInv, VersionsInv
    <2> QED  BY <1>1, <1>2, <2>4, <2>5, <2>6, <2>7, <2>8, <2>9 DEF KeptInv
<1>4. Size(work.db) - Size(committed) \in Int /\ pos \in Int
      /\ work.rep \in [Counters -> Int]
    <2>1. Dense(work.db.cd) /\ Dense(committed.cd) /\ pos \in Int
          /\ work.rep \in [Counters -> Int]
        BY <1>1 DEF Inv, WorkInv, DbInv
    <2>2. Size(work.db) \in Nat /\ Size(committed) \in Nat
        BY <2>1, SizeIsNumber
    <2> QED  BY <2>1, <2>2
<1>5. CASE SkipInvalid
    <2>1. work'.db = work.db /\ work'.rep = Bump(work.rep, {"rct", "frct"})
          /\ TakeEntry(BadEntry)
        BY <1>1, <1>5, CountInv DEF SkipInvalid, Inv
    <2>2. Keeps(work'.db, work.db) /\ Improves(work'.db, work.db)
        BY <1>1, <1>2, <2>1, KeepsReflexive, ImprovesReflexive
            DEF Inv, WorkInv, DbInv, Good
    <2>3. Balanced(work'.rep, pos + 1, Size(work'.db) - Size(committed))
        BY <1>4, <2>1, CountRead DEF KeptInv, ReportInv
    <2>4. BadEntry \notin Records
        BY RecordsAssumption
    <2>5. Taken \subseteq Taken'
        BY <1>1, <2>1, TakenGrows
    <2>6. StoredFrom(work'.db, Taken')
        BY <2>1, <2>5 DEF KeptInv, VersionsInv, StoredFrom
    <2> QED  BY <1>1, <1>2, <2>1, <2>2, <2>3, <2>4, <2>6, TakenKept
<1>6. ASSUME NEW r \in Records,
             \/ LinkNewDiscId(r) \/ LinkCollision(r)
             \/ MergeDuplicate(r) \/ KeepUnlinked(r)
      PROVE  KeptInv'
    <2>1. Size(committed) \in Int
        BY <1>2, SizeIsNumber DEF DbInv
    <2>2. Kept(work', work, r, pos, Size(committed))
        BY <1>1, <1>2, <1>4, <1>6, <2>1, RecordKept DEF KeptInv, ReportInv
    <2>3. Keeps(work'.db, work.db)
        BY <1>1, <1>6, RecordInv
    <2>4. TakeEntry(r)
        BY <1>6 DEF LinkNewDiscId, LinkCollision, MergeDuplicate, KeepUnlinked
    <2>5. Taken \subseteq Taken' /\ r \in Taken'
        BY <1>1, <2>4, TakenGrows
    <2>6. DbInv(work.db) /\ DbInv(work'.db) /\ StoredFrom(work.db, Taken)
        BY <1>1 DEF Inv, WorkInv, KeptInv, VersionsInv
    <2>7. StoredFrom(work'.db, Taken')
        BY <2>2, <2>3, <2>5, <2>6, VersionsStay DEF Kept
    <2> QED  BY <1>1, <2>2, <2>3, <2>4, <2>7, TakenKept DEF Kept
<1>7. CASE Commit
    <2>1. /\ committed' = [work.db EXCEPT !.fuzzyindex = @ \/ initial]
          /\ work' = Fresh(committed') /\ pos' = 0
          /\ published' = published \cup (Range(archive) \ {BadEntry})
          /\ pos = Len(archive)
        BY <1>7 DEF Commit, Indexed, CloseArchive
    <2>2. /\ committed'.cd = work.db.cd /\ committed'.tracks = work.db.tracks
          /\ SameLinks(committed', work.db) /\ committed'.fuzzyindex
          /\ committed'.namehash = work.db.namehash /\ committed'.genre = work.db.genre
        BY <1>1, <2>1 DEF Inv, WorkInv, DbInv, IsDatabase, SameLinks, KeptInv, IndexInv2
    <2>3. Good(committed')
        BY <1>2, <2>2, SameTables
    <2>4. PublishedAreFound'
        <3> SUFFICES ASSUME NEW r \in published' PROVE Found(work.db, r)
            BY <2>2, SameTables DEF PublishedAreFound
        <3>1. CASE r \in published
            <4>1. r \in Records /\ Found(committed, r)
                BY <1>1, <3>1 DEF Inv, KeptInv, PublishedAreFound
            <4>2. /\ IsDatabase(work.db) /\ IsDatabase(committed)
                  /\ RefersToCds(committed) /\ Keeps(work.db, committed)
                BY <1>1 DEF Inv, WorkInv, DbInv
            <4> QED  BY <4>1, <4>2, FoundStays
        <3>2. CASE r \in Range(archive) \ {BadEntry}
            <4>1. archive \in Seq(Records \cup {BadEntry})
                BY <1>1 DEF Inv
            <4>2. PICK i \in 1..Len(archive) : archive[i] = r
                BY <3>2, <4>1 DEF Range
            <4>3. r \in Records
                BY <3>2, <4>1, <4>2
            <4> QED  BY <2>1, <4>2, <4>3 DEF KeptInv, TakenAreFound
        <3> QED  BY <2>1, <3>1, <3>2
    <2>5. StoredFrom(committed', published')
        <3>1. StoredFrom(committed', Taken)
            BY <2>2, SameTables DEF KeptInv, VersionsInv
        <3>2. Taken \subseteq published'
            <4>1. archive \in Seq(Records \cup {BadEntry}) /\ BadEntry \notin Records
                BY <1>1, RecordsAssumption DEF Inv
            <4>2. \A i \in 1..pos : archive[i] \in Range(archive)
                BY <2>1, <4>1 DEF Range
            <4> QED  BY <2>1, <4>1, <4>2 DEF Taken
        <3> QED  BY <3>1, <3>2 DEF StoredFrom
    <2> QED  BY <1>1, <2>1, <2>2, <2>3, <2>4, <2>5, ClosedKept
<1>8. CASE Abort
    <2>1. committed' = committed /\ published' = published
          /\ work' = Fresh(committed') /\ pos' = 0
        BY <1>8 DEF Abort, CloseArchive
    <2>2. PublishedAreFound' /\ committed'.fuzzyindex /\ StoredFrom(committed', published')
        BY <2>1 DEF KeptInv, PublishedAreFound, IndexInv2, VersionsInv
    <2> QED  BY <1>1, <1>2, <2>1, <2>2, ClosedKept
<1>9. CASE UNCHANGED vars
    BY <1>1, <1>9 DEF vars, KeptInv, IndexInv2, PublishedAreFound, TakenAreFound,
                      VersionsInv, Taken, ReportInv
<1> QED  BY <1>3, <1>5, <1>6, <1>7, <1>8, <1>9 DEF Next, ImportEntry, Crash, Whole

-----------------------------------------------------------------------------
(* What follows for the specification.                                     *)

\* Until a kill tears the file, rows, links, hashes and the cache of genres are
\* consistent at any time, and what is committed stays in what the transaction
\* sees.
TypeInv == TypeOK /\ (Whole => Inv)

LEMMA InvTypes == Inv => TypeOK
    BY DEF Inv, TypeOK, WorkInv, DbInv, CacheInv

LEMMA TypeStep == TypeInv /\ [Next]_vars => TypeInv'
<1> SUFFICES ASSUME TypeInv, [Next]_vars PROVE TypeInv'
    OBVIOUS
<1>1. CASE ~Whole
    <2>1. UNCHANGED vars
        BY <1>1, DamagedStays
    <2>2. TypeOK' /\ ~Whole'
        BY <1>1, <2>1 DEF TypeInv, TypeOK, Whole, vars
    <2> QED  BY <2>2 DEF TypeInv
<1>2. CASE Whole /\ Whole'
    <2>1. Inv'
        BY <1>2, NextInv DEF TypeInv
    <2>2. Inv' => TypeOK'
        BY InvTypes, PTL
    <2> QED  BY <2>1, <2>2 DEF TypeInv
<1>3. CASE Whole /\ ~Whole'
    <2>1. Crash
        BY <1>3 DEF Whole, Next, ImportEntry, StartImport, SkipInvalid, LinkNewDiscId,
           LinkCollision, MergeDuplicate, KeepUnlinked, TakeEntry, Commit, Abort, vars
    <2>2. TypeOK'
        BY <1>3, <2>1, CrashTypes DEF TypeInv
    <2> QED  BY <1>3, <2>2 DEF TypeInv
<1> QED  BY <1>1, <1>2, <1>3

THEOREM Invariance == Spec => []TypeInv
<1>1. Init => TypeInv
    BY InitInv, InvTypes DEF TypeInv
<1> QED  BY <1>1, TypeStep, PTL DEF Spec

\* The variables keep their types, for any archives, digests and number of
\* imports (cddbupdater.cpp, import): counters and row ids included, and
\* after a kill too.
THEOREM TypeCorrectness == Spec => []TypeOK
<1>1. TypeInv => TypeOK
    BY DEF TypeInv
<1> QED  BY <1>1, Invariance, PTL

\* No link, hash or track ever refers to a CD row that is gone, in the
\* database as published and as the importer sees it, although delete_record
\* frees row ids and SQLite gives them out again: read_record never throws.
THEOREM LinksStaySound == Spec => []LinksSound
<1>1. TypeInv => LinksSound
    BY DEF TypeInv, Inv, LinksSound, WorkInv, DbInv
<1> QED  BY <1>1, Invariance, PTL

\* The cache that maps genres to numbers and the table GENRE always agree, so
\* no CD is given the number of another genre.
THEOREM GenresStayAgreed == Spec => []GenresAgree
<1>1. TypeInv => GenresAgree
    BY DEF TypeInv, Inv, GenresAgree, WorkInv, DbInv, CacheInv
<1> QED  BY <1>1, Invariance, PTL

\* The importer implements CDDBStore: whatever is imported, aborted, merged or
\* updated, a CD that was published stays, with its track lengths, and every
\* lookup finds again what it found, in the same order; only a kill during an
\* import may end this.
THEOREM ImporterImplementsStore == Spec => StoreSpec
<1>1. Init => Store!Init
    BY DEF Init, Store!Init, Published, EmptyDatabase, EmptyTable, Whole
<1>2. TypeInv /\ TypeInv' /\ [Next]_vars
        => [Store!Publish \/ Store!Damage]_<<Published, ~Whole>>
    <2> SUFFICES ASSUME TypeInv, TypeInv', [Next]_vars
                 PROVE  \/ UNCHANGED <<Published, ~Whole>>
                        \/ Store!Publish \/ Store!Damage
        OBVIOUS
    <2>1. CASE UNCHANGED <<committed, phase>>
        BY <2>1 DEF Published, Whole
    <2>2. CASE Whole /\ ~Whole'
        BY <2>2 DEF Store!Damage
    <2>3. CASE UNCHANGED committed /\ Whole /\ Whole'
        BY <2>3 DEF Published
    <2>4. CASE Commit
        <3>1. /\ committed' = [work.db EXCEPT !.fuzzyindex = @ \/ initial]
              /\ Whole /\ Whole'
            BY <2>4 DEF Commit, Indexed, Whole
        <3>0. Inv /\ Inv'
            BY <3>1 DEF TypeInv
        <3>2. /\ DbInv(work.db) /\ Keeps(work.db, committed)
              /\ committed'.cd = work.db.cd
              /\ committed'.tracks = work.db.tracks
              /\ SameLinks(committed', work.db)
            BY <3>0, <3>1 DEF Inv, WorkInv, DbInv, IsDatabase, SameLinks
        <3>3. RefersToCds(committed')
            BY <3>0 DEF Inv, DbInv
        <3>4. Store!Complete(Published')
            BY <3>3 DEF Store!Complete, Store!Range, Published, RefersToCds, Range
        <3>5. \A c \in DOMAIN committed.cd :
                c \in DOMAIN committed'.cd /\ Lengths(committed', c) = Lengths(committed, c)
            BY <3>2 DEF Keeps, Lengths
        <3>6. /\ \A d \in DiscIds : Store!IsPrefix(committed.discid[d], committed'.discid[d])
              /\ \A f \in FuzzyIds : Store!IsPrefix(committed.fuzzyid[f], committed'.fuzzyid[f])
            BY <3>2 DEF Keeps, Begins, SameLinks
        <3>7. Store!Extends(Published', Published)
            BY <3>5, <3>6 DEF Store!Extends, Published, Lengths
        <3> QED  BY <3>1, <3>4, <3>7 DEF Store!Publish
    <2> QED  BY <2>1, <2>2, <2>3, <2>4 DEF Next, ImportEntry, StartImport, SkipInvalid,
                LinkNewDiscId, LinkCollision, MergeDuplicate, KeepUnlinked,
                TakeEntry, Abort, Crash, Whole, vars
<1> QED  BY <1>1, <1>2, Invariance, PTL DEF Spec, StoreSpec, Store!Spec

\* On top of that, every CD is found by the lengths of its records, is one of
\* them, and is counted (cddbupdater.cpp, import).
THEOREM KeptInvariance == Spec => [](Whole => KeptInv)
<1>1. (Whole => KeptInv) /\ [Next]_vars => (Whole => KeptInv)'
    <2> SUFFICES ASSUME Whole => KeptInv, [Next]_vars, Whole' PROVE KeptInv'
        OBVIOUS
    <2>1. Whole
        BY DamagedStays DEF Whole, vars
    <2> QED  BY <2>1, NextKept
<1> QED  BY <1>1, InitKept, PTL DEF Spec

\* A CD that has no link has the track lengths of one that is found first by
\* some disc id (cddbupdater.cpp:359).
THEOREM UnlinkedCdsHaveTwin == Spec => []UnlinkedHaveTwin
<1>1. (Whole => KeptInv) => UnlinkedHaveTwin
    BY DEF KeptInv, Good, Reachable, HasTwin, UnlinkedHaveTwin
<1> QED  BY <1>1, KeptInvariance, PTL

\* Whatever ends an import but a kill that tears the file: the fuzzy index is
\* there for its readers, and every CD is one record of a committed archive,
\* with the texts, the songs, the lengths and the genre of the same record,
\* however often it was replaced and its row id given out again
\* (cddbupdater.cpp:157, 220, 525).
THEOREM ImportsLeaveWhole == Spec => []CommittedWhole
<1>1. (Whole => KeptInv) => CommittedWhole
    BY DEF KeptInv, IndexInv2, IndexKept, VersionsInv, CommittedWhole
<1> QED  BY <1>1, KeptInvariance, PTL

\* The report counts what was done to the tables, the CD that is written and
\* deleted in one iteration included (cddbupdater.cpp:545).
THEOREM ReportsBalance == Spec => []ReportBalances
<1>1. (Whole => KeptInv) => ReportBalances
    BY DEF KeptInv, ReportInv, Balanced, Size, ReportBalances
<1> QED  BY <1>1, KeptInvariance, PTL

\* No import makes the texts of a CD with songs poorer, however many versions
\* of it the archive has, and in whatever order (cddbupdater.cpp:430).
THEOREM TextsStayRich == Spec => TextsNotPoorer
<1> DEFINE A == Whole' =>
                    \A c \in DOMAIN committed.cd :
                        committed.tracks[c] # <<>>
                            => NotPoorer(StoredText(committed', c), StoredText(committed, c))
<1>1. (Whole => KeptInv) /\ [Next]_vars => [A]_committed
    <2> SUFFICES ASSUME Whole => KeptInv, [Next]_vars, Whole'
                 PROVE  UNCHANGED committed \/ A
        OBVIOUS
    <2>3. KeptInv
        BY DamagedStays DEF Whole, vars
    <2>1. CASE Commit
        <3>1. committed' = [work.db EXCEPT !.fuzzyindex = @ \/ initial]
            BY <2>1 DEF Commit, Indexed
        <3>2. committed'.cd = work.db.cd /\ committed'.tracks = work.db.tracks
              /\ SameLinks(committed', work.db)
              /\ committed'.namehash = work.db.namehash
              /\ committed'.genre = work.db.genre
            BY <2>3, <3>1 DEF KeptInv, Inv, WorkInv, DbInv, IsDatabase, SameLinks
        <3>3. Improves(committed', committed)
            BY <2>3, <3>2, SameTables DEF KeptInv
        <3> QED  BY <3>3 DEF Improves
    <2>2. CASE UNCHANGED committed
        BY <2>2
    <2> QED  BY <2>1, <2>2 DEF Next, ImportEntry, StartImport, SkipInvalid,
                LinkNewDiscId, LinkCollision, MergeDuplicate, KeepUnlinked,
                TakeEntry, Abort, Crash, Whole, vars
<1> HIDE DEF A
<1>2. Spec => [][A]_committed
    BY <1>1, KeptInvariance, PTL DEF Spec
<1> QED  BY <1>2 DEF TextsNotPoorer, A

-----------------------------------------------------------------------------
(* A client of the database.  What it sees of it only grows.               *)

\* A commit publishes what the transaction sees; nothing else does.
LEMMA CommittedKept ==
    ASSUME KeptInv, [Next]_vars, Whole'
    PROVE  KeptInv' /\ Keeps(committed', committed)
<1>1. KeptInv'
    BY NextKept
<1>2. CASE Commit
    <2>1. committed' = [work.db EXCEPT !.fuzzyindex = @ \/ initial]
        BY <1>2 DEF Commit, Indexed
    <2>2. /\ committed'.cd = work.db.cd /\ committed'.tracks = work.db.tracks
          /\ SameLinks(committed', work.db)
          /\ committed'.namehash = work.db.namehash
          /\ committed'.genre = work.db.genre
        BY <2>1 DEF KeptInv, Inv, WorkInv, DbInv, IsDatabase, SameLinks
    <2>3. Keeps(work.db, committed)
        BY DEF KeptInv, Inv
    <2>4. Keeps(committed', committed)
        BY <2>2, <2>3 DEF Keeps, Lengths, SameLinks
    <2> QED  BY <1>1, <2>4
<1>3. CASE UNCHANGED committed
    <2>1. Keeps(committed, committed)
        BY KeepsReflexive DEF KeptInv, Inv, DbInv
    <2> QED  BY <1>1, <1>3, <2>1
<1> QED  BY <1>2, <1>3 DEF Next, ImportEntry, StartImport, SkipInvalid,
            LinkNewDiscId, LinkCollision, MergeDuplicate, KeepUnlinked,
            TakeEntry, Abort, Crash, Whole, vars

\* The same lengths, track by track.
LEMMA SameLengths ==
    ASSUME NEW x, NEW y, NEW c, NEW k, Lengths(x, c) = Lengths(y, k),
           x.tracks[c] \in Seq(Rows), y.tracks[k] \in Seq(Rows)
    PROVE  /\ Len(x.tracks[c]) = Len(y.tracks[k])
           /\ Stored(x, c) = Stored(y, k)
           /\ x.cd[c].seconds = y.cd[k].seconds
<1>1. Stored(x, c) = Lengths(x, c).frames /\ Stored(y, k) = Lengths(y, k).frames
    BY DEF Stored, Lengths
<1>2. x.cd[c].seconds = Lengths(x, c).seconds /\ y.cd[k].seconds = Lengths(y, k).seconds
    BY DEF Lengths
<1>3. DOMAIN x.tracks[c] = DOMAIN y.tracks[k]
    BY LengthsFixTracks
<1>4. Len(x.tracks[c]) = Len(y.tracks[k])
    BY <1>3
<1> QED  BY <1>1, <1>2, <1>4

\* The tables of a database, row by row.
LEMMA CdType ==
    ASSUME NEW db, IsDatabase(db), RefersToCds(db), NEW c \in DOMAIN db.cd
    PROVE  /\ c \in CdIds /\ db.cd[c].seconds \in Nat
           /\ db.tracks[c] \in Seq(Rows)
           /\ Stored(db, c) \in Seq(Nat) /\ Len(Stored(db, c)) = Len(db.tracks[c])
           /\ \A ct \in DOMAIN db.tracks[c] : Stored(db, c)[ct] = db.tracks[c][ct].frames
<1>1. c \in CdIds /\ db.cd[c] \in Cds /\ db.tracks[c] \in Seq(Rows)
    BY DEF IsDatabase, IsTable, RefersToCds
<1>2. /\ Len(db.tracks[c]) \in Nat /\ DOMAIN db.tracks[c] = 1..Len(db.tracks[c])
    BY <1>1
<1>3. Stored(db, c) \in [1..Len(db.tracks[c]) -> Nat]
    <2>1. \A ct \in 1..Len(db.tracks[c]) : db.tracks[c][ct] \in Rows
        BY <1>1
    <2>2. \A row \in Rows : row.frames \in Nat
        BY DEF Rows
    <2> QED  BY <1>2, <2>1, <2>2 DEF Stored
<1>4. Stored(db, c) \in Seq(Nat) /\ Len(Stored(db, c)) = Len(db.tracks[c])
    BY <1>2, <1>3
<1>5. \A ct \in DOMAIN db.tracks[c] : Stored(db, c)[ct] = db.tracks[c][ct].frames
    BY DEF Stored
<1>6. db.cd[c].seconds \in Nat
    BY <1>1 DEF Cds
<1> QED  BY <1>1, <1>4, <1>5, <1>6

\* A CD that matches goes on matching, whatever its new texts are.
LEMMA MatchesStays ==
    ASSUME NEW x, NEW y, DbInv(x), DbInv(y), Keeps(x, y), TextsAreWhole(x),
           NEW c \in DOMAIN y.cd, NEW frames \in Seq(Nat) \ {<<>>},
           Matches(y, c, frames)
    PROVE  Matches(x, c, frames)
<1>1. c \in DOMAIN x.cd /\ Lengths(x, c) = Lengths(y, c)
    BY DEF Keeps
<1>2. /\ x.tracks[c] \in Seq(Rows) /\ Len(Stored(x, c)) = Len(x.tracks[c])
      /\ y.tracks[c] \in Seq(Rows)
    BY <1>1, CdType DEF DbInv
<1>3. Stored(x, c) = Stored(y, c)
    BY <1>1, <1>2, SameLengths
<1>4. Len(x.tracks[c]) = Len(frames) /\ Len(frames) # 0
    BY <1>2, <1>3 DEF Matches
<1>5. x.tracks[c] # <<>>
    BY <1>4
<1>6. x.cd[c].tracks = Len(frames)
    BY <1>1, <1>4, <1>5 DEF TextsAreWhole, IsTextOf
<1> QED  BY <1>3, <1>6 DEF Matches

\* A lookup that finds something finds it again.
LEMMA MatchingStays ==
    ASSUME NEW x, NEW y, DbInv(x), DbInv(y), Keeps(x, y), TextsAreWhole(x),
           NEW s \in Seq(CdIds), NEW t \in Seq(CdIds), Begins(s, t),
           Range(s) \subseteq DOMAIN y.cd,
           NEW frames \in Seq(Nat) \ {<<>>}
    PROVE  Matching(y, s, frames) \subseteq Matching(x, t, frames)
<1> SUFFICES ASSUME NEW c \in Range(s), Matches(y, c, frames)
             PROVE  c \in Range(t) /\ Matches(x, c, frames)
    BY DEF Matching
<1>1. s # <<>>
    BY DEF Range
<1>2. Range(s) \subseteq Range(t)
    BY <1>1, PrefixKeeps
<1> QED  BY <1>2, MatchesStays

LEMMA QueryType ==
    ASSUME NEW q \in Asked
    PROVE  /\ q.frames \in Seq(Nat) \ {<<>>}
           /\ DiscId(q.seconds, q.frames) \in DiscIds
           /\ FuzzyId(q.seconds, q.frames) \in FuzzyIds
    BY AskedAssumption

LEMMA AnswersStay ==
    ASSUME NEW x, NEW y, DbInv(x), DbInv(y), Keeps(x, y), TextsAreWhole(x),
           NEW q \in Asked
    PROVE  /\ Exact(y, q) \subseteq Exact(x, q)
           /\ Fuzzy(y, q) \subseteq Fuzzy(x, q)
<1> DEFINE d == DiscId(q.seconds, q.frames)
           f == FuzzyId(q.seconds, q.frames)
<1>1. q.frames \in Seq(Nat) \ {<<>>} /\ d \in DiscIds /\ f \in FuzzyIds
    BY QueryType
<1>2. /\ y.discid[d] \in Seq(CdIds) /\ x.discid[d] \in Seq(CdIds)
      /\ Begins(y.discid[d], x.discid[d]) /\ Range(y.discid[d]) \subseteq DOMAIN y.cd
    BY <1>1 DEF DbInv, IsDatabase, RefersToCds, Keeps
<1>3. /\ y.fuzzyid[f] \in Seq(CdIds) /\ x.fuzzyid[f] \in Seq(CdIds)
      /\ Begins(y.fuzzyid[f], x.fuzzyid[f]) /\ Range(y.fuzzyid[f]) \subseteq DOMAIN y.cd
    BY <1>1 DEF DbInv, IsDatabase, RefersToCds, Keeps
<1>4. Exact(y, q) \subseteq Exact(x, q)
    BY <1>1, <1>2, MatchingStays DEF Exact
<1>5. Fuzzy(y, q) \subseteq Fuzzy(x, q)
    BY <1>1, <1>3, MatchingStays DEF Fuzzy
<1> QED  BY <1>4, <1>5

\* The elements of a sequence are finitely many, and two of them are two.
LEMMA RangeFinite ==
    ASSUME NEW s \in Seq(CdIds)
    PROVE  IsFiniteSet(Range(s))
<1>1. IsFiniteSet(1..Len(s))
    BY FS_Interval
<1>2. s \in [1..Len(s) -> Range(s)] /\ \A e \in Range(s) : \E i \in 1..Len(s) : s[i] = e
    BY DEF Range
<1>3. s \in Surjection(1..Len(s), Range(s))
    BY <1>2 DEF Surjection
<1> QED  BY <1>1, <1>3, FS_Surjection

LEMMA TwoElements ==
    ASSUME NEW S, IsFiniteSet(S), NEW a \in S, NEW b \in S, a # b
    PROVE  Cardinality(S) > 1
<1>1. Cardinality({a}) = 1 /\ IsFiniteSet({a})
    BY FS_Singleton
<1>2. Cardinality({a} \cup {b}) = 2
    BY <1>1, FS_AddElement
<1>3. {a} \cup {b} \in SUBSET S
    OBVIOUS
<1>4. Cardinality({a} \cup {b}) <= Cardinality(S)
    BY <1>3, FS_Subset
<1>5. Cardinality(S) \in Nat
    BY FS_CardinalityType
<1> QED  BY <1>2, <1>4, <1>5

\* The matches are sorted, and none is lost if there is one.
LEMMA SortedType ==
    ASSUME NEW db, DbInv(db), NEW d \in Seq(CdIds), NEW frames,
           NEW s \in Sorted(db, Matching(db, d, frames), frames)
    PROVE  /\ s \in Seq(Matching(db, d, frames))
           /\ s = <<>> => Matching(db, d, frames) = {}
<1> DEFINE S == Matching(db, d, frames)
<1>1. S \in SUBSET Range(d)
    BY DEF Matching
<1>2. IsFiniteSet(S)
    BY <1>1, RangeFinite, FS_Subset
<1>3. Cardinality(S) \in Nat /\ (Cardinality(S) = 0 <=> S = {})
    BY <1>2, FS_CardinalityType, FS_EmptySet
<1>4. s \in SetToSeqs(S)
    BY DEF Sorted
<1> HIDE DEF S
<1>5. s \in [1..Cardinality(S) -> S]
    BY <1>4 DEF SetToSeqs
<1>6. s \in Seq(S) /\ Len(s) = Cardinality(S)
    BY <1>3, <1>5
<1>7. s = <<>> => S = {}
    BY <1>3, <1>6
<1> QED  BY <1>6, <1>7 DEF S

LEMMA MinOfTwo ==
    ASSUME NEW a \in Nat, NEW b \in Nat
    PROVE  /\ Min({a, b}) \in {a, b}
           /\ Min({a, b}) <= a /\ Min({a, b}) <= b
<1>1. \E x \in {a, b} : \A y \in {a, b} : x <= y
    OBVIOUS
<1> QED  BY <1>1 DEF Min

-----------------------------------------------------------------------------
(* The invariant of a session, on the database it reads.                   *)

\* IsNear, on any database.
Near(db, q, c) ==
    /\ c \in DOMAIN db.cd
    /\ Len(Stored(db, c)) = Len(q.frames)
    /\ \A ct \in DOMAIN q.frames : AbsDiff(Stored(db, c)[ct], q.frames[ct]) <= MaxTrackDiff

\* By its id, the CD or one of the same lengths is found.
Readable(db, id, c) ==
    db.cd[c].seconds # 0 =>
        \E e \in Range(db.discid[id]) : Lengths(db, e) = Lengths(db, c)

IsOffer(db, q, o) ==
    /\ o \in [id : DiscIds, cd : CdIds]
    /\ Near(db, q, o.cd)
    /\ Readable(db, o.id, o.cd)

\* A file is that of the first CD of the id it was asked for.
IsFile(db, o, file) ==
    /\ db.cd[o.cd].seconds # 0 => file.found
    /\ file.found => /\ file.id = o.id
                     /\ db.discid[o.id] # <<>>
                     /\ file.cd = Head(db.discid[o.id])
                     /\ file.genre \in Genres

SessionInv(db, s) ==
    /\ s = [state |-> s.state, query |-> s.query, offers |-> s.offers,
            due |-> s.due, file |-> s.file]
    /\ s.state \in {"idle", "exact", "fuzzy", "answered", "read"}
    /\ s.query \in Asked \cup {NoQuery}
    /\ s.state # "idle" => s.query \in Asked
    /\ s.offers \in Seq([id : DiscIds, cd : CdIds])
    /\ \A i \in DOMAIN s.offers : IsOffer(db, s.query, s.offers[i])
    /\ s.due \in BOOLEAN
    /\ s.state \in {"idle", "exact", "fuzzy"} => s.offers = <<>>
    /\ s.state = "exact" /\ s.due => Exact(db, s.query) \cup Fuzzy(db, s.query) # {}
    /\ s.state = "fuzzy" /\ s.due => Fuzzy(db, s.query) # {}
    /\ s.state \in {"answered", "read"} /\ s.due => s.offers # <<>>
    /\ s.state # "read" => s.file = NoFile
    /\ s.state = "read" => \E i \in DOMAIN s.offers : IsFile(db, s.offers[i], s.file)

\* Imports do not disturb it.
LEMMA CdStays ==
    ASSUME NEW x, NEW y, DbInv(x), DbInv(y), Keeps(x, y), NEW c \in DOMAIN y.cd
    PROVE  /\ c \in DOMAIN x.cd /\ Lengths(x, c) = Lengths(y, c)
           /\ Stored(x, c) = Stored(y, c) /\ x.cd[c].seconds = y.cd[c].seconds
<1>1. c \in DOMAIN x.cd /\ Lengths(x, c) = Lengths(y, c)
    BY DEF Keeps
<1>2. x.tracks[c] \in Seq(Rows) /\ y.tracks[c] \in Seq(Rows)
    BY <1>1, CdType DEF DbInv
<1> QED  BY <1>1, <1>2, SameLengths

LEMMA LinksStay ==
    ASSUME NEW x, NEW y, DbInv(x), DbInv(y), Keeps(x, y), NEW d \in DiscIds,
           y.discid[d] # <<>>
    PROVE  /\ x.discid[d] # <<>> /\ Head(x.discid[d]) = Head(y.discid[d])
           /\ Range(y.discid[d]) \subseteq Range(x.discid[d])
           /\ Range(y.discid[d]) \subseteq DOMAIN y.cd
<1>1. /\ Begins(y.discid[d], x.discid[d]) /\ Range(y.discid[d]) \subseteq DOMAIN y.cd
      /\ y.discid[d] \in Seq(CdIds) /\ x.discid[d] \in Seq(CdIds)
    BY DEF Keeps, DbInv, IsDatabase, RefersToCds
<1> QED  BY <1>1, PrefixKeeps

LEMMA OfferStays ==
    ASSUME NEW x, NEW y, DbInv(x), DbInv(y), Keeps(x, y),
           NEW q, NEW o, IsOffer(y, q, o)
    PROVE  IsOffer(x, q, o)
<1>1. o.cd \in DOMAIN y.cd /\ o.id \in DiscIds
    BY DEF IsOffer, Near
<1>2. /\ o.cd \in DOMAIN x.cd /\ Lengths(x, o.cd) = Lengths(y, o.cd)
      /\ Stored(x, o.cd) = Stored(y, o.cd) /\ x.cd[o.cd].seconds = y.cd[o.cd].seconds
    BY <1>1, CdStays
<1>3. Near(x, q, o.cd)
    BY <1>2 DEF IsOffer, Near
<1>4. ASSUME x.cd[o.cd].seconds # 0
      PROVE  \E e \in Range(x.discid[o.id]) : Lengths(x, e) = Lengths(x, o.cd)
    <2>1. PICK e \in Range(y.discid[o.id]) : Lengths(y, e) = Lengths(y, o.cd)
        BY <1>2, <1>4 DEF IsOffer, Readable
    <2>2. y.discid[o.id] # <<>>
        BY <2>1 DEF Range
    <2>3. e \in Range(x.discid[o.id]) /\ e \in DOMAIN y.cd
        BY <1>1, <2>1, <2>2, LinksStay
    <2>4. Lengths(x, e) = Lengths(y, e)
        BY <2>3, CdStays
    <2> QED  BY <1>2, <2>1, <2>3, <2>4
<1> QED  BY <1>3, <1>4 DEF IsOffer, Readable

LEMMA SessionStays ==
    ASSUME NEW x, NEW y, DbInv(x), DbInv(y), Keeps(x, y), TextsAreWhole(x),
           NEW s, SessionInv(y, s)
    PROVE  SessionInv(x, s)
<1>1. ASSUME NEW i \in DOMAIN s.offers
      PROVE  IsOffer(x, s.query, s.offers[i])
    <2>1. IsOffer(y, s.query, s.offers[i])
        BY DEF SessionInv
    <2> QED  BY <2>1, OfferStays
<1>2. ASSUME s.state \in {"exact", "fuzzy"}
      PROVE  /\ Exact(y, s.query) \subseteq Exact(x, s.query)
             /\ Fuzzy(y, s.query) \subseteq Fuzzy(x, s.query)
    <2>1. s.query \in Asked
        BY <1>2 DEF SessionInv
    <2> QED  BY <2>1, AnswersStay
<1>3. ASSUME NEW i \in DOMAIN s.offers, IsFile(y, s.offers[i], s.file)
      PROVE  IsFile(x, s.offers[i], s.file)
    <2> DEFINE o == s.offers[i]
    <2>1. IsOffer(y, s.query, o)
        BY DEF SessionInv
    <2>2. o.cd \in DOMAIN y.cd /\ o.id \in DiscIds
        BY <2>1 DEF IsOffer, Near
    <2>3. x.cd[o.cd].seconds = y.cd[o.cd].seconds
        BY <2>2, CdStays
    <2> HIDE DEF o
    <2>4. IsFile(y, o, s.file)
        BY <1>3 DEF o
    <2>5. s.file.found => x.discid[o.id] # <<>> /\ Head(x.discid[o.id]) = Head(y.discid[o.id])
        BY <2>2, <2>4, LinksStay DEF IsFile
    <2>6. IsFile(x, o, s.file)
        BY <2>3, <2>4, <2>5 DEF IsFile
    <2> QED  BY <2>6 DEF o
<1>4. s.state = "read" => \E i \in DOMAIN s.offers : IsFile(x, s.offers[i], s.file)
    BY <1>3 DEF SessionInv
<1>5. s.state = "exact" /\ s.due => Exact(x, s.query) \cup Fuzzy(x, s.query) # {}
    BY <1>2 DEF SessionInv
<1>6. s.state = "fuzzy" /\ s.due => Fuzzy(x, s.query) # {}
    BY <1>2 DEF SessionInv
<1> QED  BY <1>1, <1>4, <1>5, <1>6 DEF SessionInv

\* A CD with track lengths is found by them, or one of the same lengths is.
LEMMA OwnLengthsRead ==
    ASSUME NEW db, DbInv(db), Good(db), NEW c \in DOMAIN db.cd
    PROVE  LET id == DiscId(db.cd[c].seconds, Stored(db, c))
           IN  id \in DiscIds /\ Readable(db, id, c)
<1>1. PICK s \in Records : IsLengthsOf(db, c, s)
    BY DEF Good, LengthsAreWritten
<1>2. db.cd[c].seconds = s.seconds /\ Stored(db, c) = StoredFrames(s)
    <2>1. db.cd[c].seconds = Lengths(db, c).seconds /\ Stored(db, c) = Lengths(db, c).frames
        BY DEF Lengths, Stored
    <2> QED  BY <1>1, <2>1 DEF IsLengthsOf
<1>3. DiscId(db.cd[c].seconds, Stored(db, c)) \in DiscIds
    BY <1>2, StoredAssumption
<1>4. ASSUME db.cd[c].seconds # 0
      PROVE  \E e \in Range(db.discid[DiscId(db.cd[c].seconds, Stored(db, c))]) :
                Lengths(db, e) = Lengths(db, c)
    <2>1. s.frames # <<>> /\ Len(s.frames) = Len(s.songs)
        BY <1>2, <1>4, RecordsAssumption
    <2>2. StoredFrames(s) = s.frames
        <3>1. s.songs \in Seq(Songs) /\ s.frames \in Seq(Nat)
            BY RecordType
        <3>2. DOMAIN s.songs = 1..Len(s.songs) /\ s.frames = [ct \in 1..Len(s.songs) |-> s.frames[ct]]
            BY <2>1, <3>1
        <3>3. \A ct \in DOMAIN s.songs : TrackRow(s, ct).frames = s.frames[ct]
            BY <2>1 DEF TrackRow
        <3> QED  BY <3>2, <3>3 DEF StoredFrames
    <2>3. Lengths(db, c).seconds = s.seconds /\ Lengths(db, c).frames = s.frames
        BY <1>1, <2>2 DEF IsLengthsOf
    <2>4. SameFrames(s, ReadRecord(db, c))
        BY <2>3, SameFramesLengths
    <2>5. Answered(db, s)
        BY <2>4 DEF Good, CdsAreFound
    <2>6. PICK e \in Range(db.discid[DiscId(s.seconds, s.frames)]) : SameFrames(s, ReadRecord(db, e))
        BY <2>5 DEF Answered
    <2>7. Lengths(db, e).seconds = s.seconds /\ Lengths(db, e).frames = s.frames
        BY <2>6, SameFramesLengths
    <2>8. Lengths(db, e) = Lengths(db, c)
        BY <2>3, <2>7 DEF Lengths
    <2> QED  BY <1>2, <2>2, <2>6, <2>8
<1> QED  BY <1>3, <1>4 DEF Readable

-----------------------------------------------------------------------------
(* The invariant is kept.                                                  *)

SystemInv == KeptInv /\ SessionInv(committed, client)

LEMMA SystemInitInv == SystemInit => SystemInv
<1> SUFFICES ASSUME SystemInit PROVE SystemInv
    OBVIOUS
<1>1. KeptInv
    BY InitKept DEF SystemInit
<1>2. client = Idle
    BY DEF SystemInit
<1>3. SessionInv(committed, client)
    BY <1>2 DEF SessionInv, Idle
<1> QED  BY <1>1, <1>3 DEF SystemInv

\* An id of a link leads to a CD.
LEMMA LinkedCd ==
    ASSUME NEW db, DbInv(db), NEW d \in DiscIds, NEW c \in Range(db.discid[d])
    PROVE  c \in DOMAIN db.cd /\ c \in CdIds
<1>1. c \in DOMAIN db.cd
    BY DEF DbInv, RefersToCds
<1> QED  BY <1>1, CdType DEF DbInv

\* A CD that matches is near, and can be offered under a readable id.
LEMMA MatchIsOffer ==
    ASSUME NEW db, DbInv(db), NEW q \in Asked, NEW c \in DOMAIN db.cd,
           Matches(db, c, q.frames), NEW id \in DiscIds, Readable(db, id, c)
    PROVE  IsOffer(db, q, Offer(id, c))
<1>1. c \in CdIds
    BY CdType DEF DbInv
<1> QED  BY <1>1 DEF IsOffer, Near, Matches, Offer

LEMMA FunctionIsSeq ==
    ASSUME NEW S, NEW n \in Nat, NEW s \in [1..n -> S]
    PROVE  s \in Seq(S) /\ Len(s) = n
    OBVIOUS

LEMMA ExactAreOffers ==
    ASSUME NEW db, DbInv(db), NEW q \in Asked,
           NEW cds \in Sorted(db, Exact(db, q), q.frames)
    PROVE  LET o == ExactOffers(db, q, cds)
           IN  /\ o \in Seq([id : DiscIds, cd : CdIds])
               /\ \A i \in DOMAIN o : IsOffer(db, q, o[i])
               /\ o = <<>> <=> cds = <<>>
               /\ cds = <<>> => Exact(db, q) = {}
<1> DEFINE d == DiscId(q.seconds, q.frames)
           o == ExactOffers(db, q, cds)
<1>1. d \in DiscIds
    BY QueryType
<1>2. db.discid[d] \in Seq(CdIds)
    BY <1>1 DEF DbInv, IsDatabase
<1>3. cds \in Seq(Exact(db, q)) /\ (cds = <<>> => Exact(db, q) = {})
    BY <1>2, SortedType DEF Exact
<1>4. ASSUME NEW c \in Exact(db, q)
      PROVE  IsOffer(db, q, Offer(d, c)) /\ Offer(d, c) \in [id : DiscIds, cd : CdIds]
    <2>1. c \in Range(db.discid[d]) /\ Matches(db, c, q.frames)
        BY DEF Exact, Matching
    <2>2. c \in DOMAIN db.cd
        BY <1>1, <2>1, LinkedCd
    <2>3. Readable(db, d, c)
        BY <2>1 DEF Readable
    <2> HIDE DEF d
    <2>4. IsOffer(db, q, Offer(d, c))
        BY <1>1, <2>1, <2>2, <2>3, MatchIsOffer
    <2> QED  BY <2>4 DEF IsOffer
<1>5. DOMAIN cds = 1..Len(cds) /\ Len(cds) \in Nat
      /\ \A i \in DOMAIN cds : cds[i] \in Exact(db, q)
    BY <1>3
<1>6. o = [i \in 1..Len(cds) |-> Offer(d, cds[i])]
    BY <1>5 DEF ExactOffers
<1> HIDE DEF o, d
<1>7. \A i \in 1..Len(cds) : o[i] = Offer(d, cds[i])
    BY <1>6
<1>8. \A i \in 1..Len(cds) : o[i] \in [id : DiscIds, cd : CdIds] /\ IsOffer(db, q, o[i])
    BY <1>4, <1>5, <1>7
<1>9. o \in Seq([id : DiscIds, cd : CdIds]) /\ Len(o) = Len(cds)
    <2>1. o \in [1..Len(cds) -> [id : DiscIds, cd : CdIds]]
        BY <1>6, <1>8
    <2> QED  BY <1>5, <2>1, FunctionIsSeq
<1>10. o = <<>> <=> cds = <<>>
    BY <1>3, <1>9
<1> QED  BY <1>3, <1>6, <1>8, <1>9, <1>10 DEF o

LEMMA FuzzyAreOffers ==
    ASSUME NEW db, DbInv(db), Good(db), NEW q \in Asked,
           NEW cds \in Sorted(db, Fuzzy(db, q), q.frames)
    PROVE  LET o == FuzzyOffers(db, q, cds)
           IN  /\ o \in Seq([id : DiscIds, cd : CdIds])
               /\ \A i \in DOMAIN o : IsOffer(db, q, o[i])
               /\ o = <<>> => Fuzzy(db, q) = {}
<1> DEFINE f == FuzzyId(q.seconds, q.frames)
           own(c) == DiscId(db.cd[c].seconds, Stored(db, c))
           n == Min({Len(cds), MaxListed})
           o == FuzzyOffers(db, q, cds)
<1>1. f \in FuzzyIds
    BY QueryType
<1>2. db.fuzzyid[f] \in Seq(CdIds) /\ Range(db.fuzzyid[f]) \subseteq DOMAIN db.cd
    BY <1>1 DEF DbInv, IsDatabase, RefersToCds
<1>3. cds \in Seq(Fuzzy(db, q)) /\ (cds = <<>> => Fuzzy(db, q) = {})
    BY <1>2, SortedType DEF Fuzzy
<1>4. ASSUME NEW c \in Fuzzy(db, q)
      PROVE  IsOffer(db, q, Offer(own(c), c)) /\ Offer(own(c), c) \in [id : DiscIds, cd : CdIds]
    <2>1. c \in DOMAIN db.cd /\ Matches(db, c, q.frames)
        BY <1>2 DEF Fuzzy, Matching
    <2>2. own(c) \in DiscIds /\ Readable(db, own(c), c)
        BY <2>1, OwnLengthsRead
    <2> HIDE DEF own
    <2>3. IsOffer(db, q, Offer(own(c), c))
        BY <2>1, <2>2, MatchIsOffer
    <2> QED  BY <2>3 DEF IsOffer
<1>5. DOMAIN cds = 1..Len(cds) /\ Len(cds) \in Nat
      /\ \A i \in DOMAIN cds : cds[i] \in Fuzzy(db, q)
    BY <1>3
<1>6. n \in Nat /\ n <= Len(cds) /\ (n = 0 => Len(cds) = 0)
    <2>1. MaxListed \in Nat /\ MaxListed # 0
        BY LimitsAssumption
    <2> QED  BY <1>5, <2>1, MinOfTwo
<1>7. o = [i \in 1..n |-> Offer(own(cds[i]), cds[i])]
    BY DEF FuzzyOffers
<1> HIDE DEF o, own, n
<1>8. \A i \in 1..n : o[i] = Offer(own(cds[i]), cds[i]) /\ cds[i] \in Fuzzy(db, q)
    BY <1>5, <1>6, <1>7
<1>9. \A i \in 1..n : o[i] \in [id : DiscIds, cd : CdIds] /\ IsOffer(db, q, o[i])
    BY <1>4, <1>8
<1>10. o \in Seq([id : DiscIds, cd : CdIds]) /\ Len(o) = n
    <2>1. o \in [1..n -> [id : DiscIds, cd : CdIds]]
        BY <1>7, <1>9
    <2> QED  BY <1>6, <2>1, FunctionIsSeq
<1>11. o = <<>> => Fuzzy(db, q) = {}
    BY <1>3, <1>6, <1>10
<1> QED  BY <1>7, <1>9, <1>10, <1>11 DEF o

\* A step of the session leaves the database alone.
LEMMA SessionStep ==
    ASSUME SystemInv, Session
    PROVE  SystemInv'
<1>1. DbInv(committed) /\ Good(committed) /\ KeptInv
    BY DEF SystemInv, KeptInv, Inv
<1>2. UNCHANGED vars /\ Whole /\ Whole'
    <2>1. UNCHANGED vars /\ Whole
        BY DEF Session, CddbQuery, QueryByDiscid, QueryByFuzzyDiscid, BuildCddbFile, Quit, Turn
    <2> QED  BY <2>1 DEF Whole, vars
<1>3. KeptInv' /\ committed' = committed
    BY <1>1, <1>2, NextKept DEF vars
<1>4. SessionInv(committed, client)
    BY DEF SystemInv
<1>5. ASSUME NEW q \in Asked, CddbQuery(q)
      PROVE  SessionInv(committed, client')
    <2>1. client' = [state |-> "exact", query |-> q, offers |-> <<>>,
                     due |-> Exact(committed, q) \cup Fuzzy(committed, q) # {}, file |-> NoFile]
        BY <1>5 DEF CddbQuery, Idle
    <2> DEFINE found == Exact(committed, q) \cup Fuzzy(committed, q) # {}
    <2> HIDE DEF found
    <2>2. client' = [state |-> "exact", query |-> q, offers |-> <<>>,
                     due |-> found, file |-> NoFile]
        BY <2>1 DEF found
    <2>3. found \in BOOLEAN /\ (found => Exact(committed, q) \cup Fuzzy(committed, q) # {})
        BY DEF found
    <2> QED  BY <2>2, <2>3 DEF SessionInv
<1>6. ASSUME QueryByDiscid
      PROVE  SessionInv(committed, client')
    <2>1. client.state = "exact" /\ client.query \in Asked
        BY <1>4, <1>6 DEF QueryByDiscid, Turn, SessionInv
    <2> DEFINE q == client.query
    <2>2. PICK cds \in Sorted(committed, Exact(committed, q), q.frames) :
            client' = [client EXCEPT
                !.state  = IF cds = <<>> THEN "fuzzy" ELSE "answered",
                !.offers = ExactOffers(committed, q, cds)]
        BY <1>6 DEF QueryByDiscid
    <2> DEFINE o == ExactOffers(committed, q, cds)
    <2>3. /\ o \in Seq([id : DiscIds, cd : CdIds])
          /\ \A i \in DOMAIN o : IsOffer(committed, q, o[i])
          /\ o = <<>> <=> cds = <<>>
          /\ cds = <<>> => Exact(committed, q) = {}
        BY <1>1, <2>1, ExactAreOffers
    <2>4. client' = [state |-> IF cds = <<>> THEN "fuzzy" ELSE "answered",
                     query |-> q, offers |-> o, due |-> client.due, file |-> NoFile]
        BY <1>4, <2>1, <2>2 DEF SessionInv
    <2> HIDE DEF o
    <2>5. CASE cds = <<>>
        BY <1>4, <2>1, <2>3, <2>4, <2>5 DEF SessionInv
    <2>6. CASE cds # <<>>
        BY <1>4, <2>1, <2>3, <2>4, <2>6 DEF SessionInv
    <2> QED  BY <2>5, <2>6
<1>7. ASSUME QueryByFuzzyDiscid
      PROVE  SessionInv(committed, client')
    <2>1. client.state = "fuzzy" /\ client.query \in Asked
        BY <1>4, <1>7 DEF QueryByFuzzyDiscid, Turn, SessionInv
    <2> DEFINE q == client.query
    <2>2. PICK cds \in Sorted(committed, Fuzzy(committed, q), q.frames) :
            client' = [client EXCEPT
                !.state  = "answered",
                !.offers = FuzzyOffers(committed, q, cds)]
        BY <1>7 DEF QueryByFuzzyDiscid
    <2> DEFINE o == FuzzyOffers(committed, q, cds)
    <2>3. /\ o \in Seq([id : DiscIds, cd : CdIds])
          /\ \A i \in DOMAIN o : IsOffer(committed, q, o[i])
          /\ o = <<>> => Fuzzy(committed, q) = {}
        BY <1>1, <2>1, FuzzyAreOffers
    <2>4. client' = [state |-> "answered",
                     query |-> q, offers |-> o, due |-> client.due, file |-> NoFile]
        BY <1>4, <2>1, <2>2 DEF SessionInv
    <2> HIDE DEF o
    <2> QED  BY <1>4, <2>1, <2>3, <2>4 DEF SessionInv
<1>8. ASSUME NEW i \in 1..Len(client.offers), BuildCddbFile(i)
      PROVE  SessionInv(committed, client')
    <2> DEFINE o == client.offers[i]
               file == File(committed, o.id)
    <2>1. /\ client.state = "answered" /\ i \in DOMAIN client.offers
          /\ client' = [client EXCEPT !.state = "read", !.file = file]
        BY <1>8 DEF BuildCddbFile, Turn
    <2>2. IsOffer(committed, client.query, o)
        BY <1>4, <2>1 DEF SessionInv
    <2>3. o.cd \in DOMAIN committed.cd /\ o.id \in DiscIds
        BY <2>2 DEF IsOffer, Near
    <2> HIDE DEF o
    <2>4. committed.cd[o.cd].seconds # 0 => committed.discid[o.id] # <<>>
        BY <2>2 DEF IsOffer, Readable, Range
    <2>5. committed.discid[o.id] # <<>> =>
            file = [found |-> TRUE, id |-> o.id, cd |-> Head(committed.discid[o.id]),
                    genre |-> GenreName(committed, committed.cd[Head(committed.discid[o.id])].genre)]
        BY DEF File, KnownDiscId, CheckDiscId
    <2>6. committed.discid[o.id] = <<>> => file = NoFile
        BY DEF File, KnownDiscId
    <2>7. ASSUME committed.discid[o.id] # <<>>
          PROVE  GenreName(committed, committed.cd[Head(committed.discid[o.id])].genre) \in Genres
        <3> DEFINE c == Head(committed.discid[o.id])
        <3>1. committed.discid[o.id] \in Seq(CdIds)
            BY <1>1, <2>3 DEF DbInv, IsDatabase
        <3>2. c \in Range(committed.discid[o.id])
            BY <2>7, <3>1 DEF Range
        <3>3. c \in DOMAIN committed.cd
            BY <1>1, <2>3, <3>2, LinkedCd
        <3> HIDE DEF c
        <3>4. committed.cd[c].genre \in DOMAIN committed.genre
            BY <1>1, <3>3 DEF DbInv
        <3>5. GenreName(committed, committed.cd[c].genre) \in Genres
            BY <1>1, <3>4 DEF DbInv, IsDatabase, IsTable, GenreName
        <3> QED  BY <3>5 DEF c
    <2> HIDE DEF file
    <2>8. IsFile(committed, o, file)
        BY <2>4, <2>5, <2>6, <2>7 DEF IsFile, NoFile
    <2>9. client' = [state |-> "read", query |-> client.query, offers |-> client.offers,
                     due |-> client.due, file |-> file]
        BY <1>4, <2>1 DEF SessionInv
    <2>10. IsFile(committed, client.offers[i], file)
        BY <2>8 DEF o
    <2> QED  BY <1>4, <2>1, <2>9, <2>10 DEF SessionInv
<1>9. ASSUME Quit
      PROVE  SessionInv(committed, client')
    <2>1. client' = Idle
        BY <1>9 DEF Quit
    <2> QED  BY <2>1 DEF SessionInv, Idle
<1>10. SessionInv(committed, client')
    BY <1>5, <1>6, <1>7, <1>8, <1>9 DEF Session
<1> QED  BY <1>3, <1>10 DEF SystemInv

LEMMA SystemNextInv == SystemInv /\ [SystemNext]_systemVars /\ Whole' => SystemInv'
<1> SUFFICES ASSUME SystemInv, [SystemNext]_systemVars, Whole' PROVE SystemInv'
    OBVIOUS
<1>1. CASE Session
    BY <1>1, SessionStep
<1>2. CASE [Next]_vars /\ UNCHANGED client
    <2>1. KeptInv' /\ Keeps(committed', committed)
        BY <1>2, CommittedKept DEF SystemInv
    <2>2. DbInv(committed) /\ DbInv(committed') /\ TextsAreWhole(committed')
        BY <2>1 DEF SystemInv, KeptInv, Inv, Good
    <2>3. SessionInv(committed', client)
        BY <2>1, <2>2, SessionStays DEF SystemInv
    <2> QED  BY <1>2, <2>1, <2>3 DEF SystemInv
<1> QED  BY <1>1, <1>2 DEF SystemNext, systemVars

\* A file that was damaged is never whole again.
LEMMA WholeBefore == [SystemNext]_systemVars /\ Whole' => Whole
<1> SUFFICES ASSUME [SystemNext]_systemVars, Whole', ~Whole PROVE FALSE
    OBVIOUS
<1>1. CASE [Next]_vars
    BY <1>1, DamagedStays DEF Whole, vars
<1>2. CASE Session
    BY <1>2 DEF Session, CddbQuery, QueryByDiscid, QueryByFuzzyDiscid, BuildCddbFile,
                Quit, Turn
<1> QED  BY <1>1, <1>2 DEF SystemNext, systemVars

-----------------------------------------------------------------------------
(* What follows for the client.                                            *)

\* Whatever is imported while a client asks, reads and quits, its answers are
\* of CDs near its disc, and lead to a CD with the same track lengths, until
\* an import is killed while it writes.
THEOREM SystemInvariance == SystemSpec => [](Whole => SystemInv)
<1>1. (Whole => SystemInv) /\ [SystemNext]_systemVars => (Whole => SystemInv)'
    <2> SUFFICES ASSUME Whole => SystemInv, [SystemNext]_systemVars, Whole' PROVE SystemInv'
        OBVIOUS
    <2>1. SystemInv
        BY WholeBefore
    <2> QED  BY <2>1, SystemNextInv
<1> QED  BY <1>1, SystemInitInv, PTL DEF SystemSpec

\* What a client is told and shows is its disc (cddbserver.cpp, query and
\* read), for any records, digests and questions.
THEOREM AnswersStayRight == SystemSpec => []AnswersMatch
<1>1. (Whole => SystemInv) => AnswersMatch
    <2> SUFFICES ASSUME SystemInv
                 PROVE  SystemTypeOK /\ OffersMatch /\ FileMatchesQuery /\ FileHasGenre
        BY DEF AnswersMatch
    <2>1. SessionInv(committed, client) /\ DbInv(committed)
        BY DEF SystemInv, KeptInv, Inv
    <2>2. ASSUME client.file.found
          PROVE  /\ client.file.cd \in DOMAIN committed.cd
                 /\ client.file.genre \in Genres
        <3>1. client.state = "read"
            BY <2>1, <2>2 DEF SessionInv, NoFile
        <3>2. PICK i \in DOMAIN client.offers : IsFile(committed, client.offers[i], client.file)
            BY <2>1, <3>1 DEF SessionInv
        <3>3. client.offers[i].id \in DiscIds
            BY <2>1 DEF SessionInv, IsOffer
        <3>4. /\ committed.discid[client.offers[i].id] \in Seq(CdIds)
              /\ committed.discid[client.offers[i].id] # <<>>
              /\ client.file.cd = Head(committed.discid[client.offers[i].id])
              /\ client.file.genre \in Genres
            BY <2>1, <2>2, <3>2, <3>3 DEF IsFile, DbInv, IsDatabase
        <3>5. client.file.cd \in Range(committed.discid[client.offers[i].id])
            BY <3>4 DEF Range
        <3> QED  BY <2>1, <3>3, <3>4, <3>5, LinkedCd
    <2>3. SystemTypeOK
        BY <2>1, <2>2 DEF SystemTypeOK, SessionInv
    <2>4. client.query.frames \in Seq(Nat)
        <3>1. NoQuery.frames \in Seq(Nat)
            BY DEF NoQuery
        <3> QED  BY <2>1, <3>1, QueryType DEF SessionInv
    <2>5. ASSUME NEW c, Near(committed, client.query, c)
          PROVE  IsNear(c)
        <3>1. c \in DOMAIN committed.cd
            BY <2>5 DEF Near
        <3>2. /\ committed.tracks[c] \in Seq(Rows)
              /\ Len(committed.tracks[c]) = Len(client.query.frames)
              /\ \A ct \in DOMAIN committed.tracks[c] :
                    Stored(committed, c)[ct] = committed.tracks[c][ct].frames
            BY <2>1, <2>5, <3>1, CdType DEF DbInv, Near
        <3>3. DOMAIN committed.tracks[c] = DOMAIN client.query.frames
            BY <2>4, <3>2
        <3> QED  BY <2>5, <3>1, <3>2, <3>3 DEF Near, IsNear
    <2>6. OffersMatch
        BY <2>1, <2>5 DEF OffersMatch, SessionInv, IsOffer
    <2>7. FileMatchesQuery
        <3> SUFFICES ASSUME client.state = "read",
                            \A i \in DOMAIN client.offers : HasLengths(client.offers[i].cd)
                     PROVE  /\ client.file.found
                            /\ \/ IsNear(client.file.cd)
                               \/ Cardinality(Range(committed.discid[client.file.id])) > 1
            BY DEF FileMatchesQuery
        <3>1. PICK i \in DOMAIN client.offers : IsFile(committed, client.offers[i], client.file)
            BY <2>1 DEF SessionInv
        <3> DEFINE o == client.offers[i]
                   d == committed.discid[o.id]
        <3>2. IsOffer(committed, client.query, o) /\ committed.cd[o.cd].seconds # 0
            BY <2>1 DEF SessionInv, HasLengths
        <3>3. IsFile(committed, o, client.file)
            BY <3>1
        <3> HIDE DEF o
        <3>4. PICK e \in Range(d) : Lengths(committed, e) = Lengths(committed, o.cd)
            BY <3>2 DEF IsOffer, Readable
        <3>5. o.id \in DiscIds /\ o.cd \in DOMAIN committed.cd
            BY <3>2 DEF IsOffer, Near
        <3>6. e \in DOMAIN committed.cd
            BY <2>1, <3>4, <3>5, LinkedCd
        <3>7. Stored(committed, e) = Stored(committed, o.cd)
            BY <2>1, <3>4, <3>5, <3>6, CdType, SameLengths DEF DbInv
        <3>8. IsNear(e)
            BY <2>5, <3>2, <3>6, <3>7 DEF IsOffer, Near
        <3>9. /\ client.file.found /\ client.file.id = o.id
              /\ client.file.cd = Head(d) /\ d # <<>>
            BY <3>2, <3>3 DEF IsFile
        <3>10. d \in Seq(CdIds)
            BY <2>1, <3>5 DEF DbInv, IsDatabase
        <3>11. Head(d) \in Range(d) /\ IsFiniteSet(Range(d))
            BY <3>9, <3>10, RangeFinite DEF Range
        <3>12. CASE e = Head(d)
            BY <3>8, <3>9, <3>12
        <3>13. CASE e # Head(d)
            BY <3>4, <3>9, <3>11, <3>13, TwoElements
        <3> QED  BY <3>9, <3>12, <3>13
    <2>8. FileHasGenre
        BY <2>2 DEF FileHasGenre
    <2> QED  BY <2>3, <2>6, <2>7, <2>8
<1> QED  BY <1>1, SystemInvariance, PTL

\* A disc that was offered can be read, although the importer may have taken
\* the link of the CD itself away (cddbupdater.cpp:359).
THEOREM OffersStayReadable == SystemSpec => []OfferedCanBeRead
<1>1. (Whole => SystemInv) => OfferedCanBeRead
    BY DEF SystemInv, SessionInv, IsOffer, Readable, Range,
           OfferedCanBeRead, HasLengths, KnownDiscId
<1> QED  BY <1>1, SystemInvariance, PTL

\* Whoever could have been answered is, although the two lookups of a query
\* are not one (cddbserver.cpp, handle_cddb_query).
THEOREM AnswersAreStable == SystemSpec => []StableAnswer
<1>1. (Whole => SystemInv) => StableAnswer
    BY DEF SystemInv, SessionInv, StableAnswer
<1> QED  BY <1>1, SystemInvariance, PTL

\* A CD with track lengths matches them.
LEMMA MatchesOwnLengths ==
    ASSUME NEW db, DbInv(db), Good(db), NEW e \in DOMAIN db.cd, db.tracks[e] # <<>>
    PROVE  Matches(db, e, Stored(db, e))
<1>1. /\ db.tracks[e] \in Seq(Rows) /\ Stored(db, e) \in Seq(Nat)
      /\ Len(Stored(db, e)) = Len(db.tracks[e])
    BY CdType, SameLengths DEF DbInv
<1>2. db.cd[e].tracks = Len(Stored(db, e))
    BY <1>1 DEF Good, TextsAreWhole, IsTextOf
<1>3. \A ct \in DOMAIN Stored(db, e) :
        AbsDiff(Stored(db, e)[ct], Stored(db, e)[ct]) <= MaxTrackDiff
    BY <1>1, LimitsAssumption DEF AbsDiff
<1> QED  BY <1>2, <1>3 DEF Matches

\* A CD with a start frame has tracks.
LEMMA LengthsHaveTracks ==
    ASSUME NEW db, Good(db), NEW e \in DOMAIN db.cd, db.cd[e].seconds # 0
    PROVE  db.tracks[e] # <<>>
<1>1. PICK s \in Records : IsLengthsOf(db, e, s)
    BY DEF Good, LengthsAreWritten
<1>2. db.cd[e].seconds = s.seconds /\ Stored(db, e) = StoredFrames(s)
    <2>1. db.cd[e].seconds = Lengths(db, e).seconds /\ Stored(db, e) = Lengths(db, e).frames
        BY DEF Lengths, Stored
    <2> QED  BY <1>1, <2>1 DEF IsLengthsOf
<1>3. s.frames # <<>> /\ Len(s.frames) = Len(s.songs)
    BY <1>2, RecordsAssumption
<1>4. s.songs # <<>> /\ s.songs \in Seq(Songs) /\ s.frames \in Seq(Nat)
    BY <1>3, RecordType
<1>5. 1 \in DOMAIN s.songs
    BY <1>4
<1>6. DOMAIN Stored(db, e) = DOMAIN s.songs
    BY <1>2 DEF StoredFrames
<1> QED  BY <1>5, <1>6 DEF Stored

\* The track lengths of a CD find a CD with these lengths exactly.
THEOREM OwnLengthsFound == SystemSpec => []OwnLengthsAnswered
<1>1. (Whole => SystemInv) => OwnLengthsAnswered
    <2> SUFFICES ASSUME SystemInv, NEW c \in DOMAIN committed.cd, HasLengths(c)
                 PROVE  LET q == [seconds |-> committed.cd[c].seconds,
                                  frames  |-> Stored(committed, c)]
                        IN  \E e \in Exact(committed, q) : Stored(committed, e) = q.frames
        BY DEF OwnLengthsAnswered
    <2> DEFINE id == DiscId(committed.cd[c].seconds, Stored(committed, c))
    <2>1. DbInv(committed) /\ Good(committed)
        BY DEF SystemInv, KeptInv, Inv
    <2>2. id \in DiscIds /\ Readable(committed, id, c)
        BY <2>1, OwnLengthsRead
    <2>3. PICK e \in Range(committed.discid[id]) : Lengths(committed, e) = Lengths(committed, c)
        BY <2>2 DEF Readable, HasLengths
    <2>4. e \in DOMAIN committed.cd
        BY <2>1, <2>2, <2>3, LinkedCd
    <2>5. /\ Stored(committed, e) = Stored(committed, c)
          /\ committed.cd[e].seconds = committed.cd[c].seconds
        BY <2>1, <2>3, <2>4, CdType, SameLengths DEF DbInv
    <2>6. Matches(committed, e, Stored(committed, c))
        BY <2>1, <2>4, <2>5, LengthsHaveTracks, MatchesOwnLengths DEF HasLengths
    <2> QED  BY <2>3, <2>5, <2>6 DEF Exact, Matching
<1> QED  BY <1>1, SystemInvariance, PTL

\* A CD with the lengths of a question matches it.
LEMMA MatchesLengths ==
    ASSUME NEW db, DbInv(db), Good(db), NEW e \in DOMAIN db.cd,
           NEW frames \in Seq(Nat) \ {<<>>}, Stored(db, e) = frames
    PROVE  Matches(db, e, frames)
<1>1. db.tracks[e] # <<>>
    BY DEF Stored
<1> QED  BY <1>1, MatchesOwnLengths

\* Every valid record of a committed archive can be found by its own track
\* lengths, exactly and by the fuzzy lookup, after any merges, deletions and
\* imports, or its text was known under other track lengths and both of its
\* ids lead to that CD (cddbupdater.cpp:220, 287, 347).
THEOREM PublishedStayFound == SystemSpec => []PublishedIsFound
<1>1. (Whole => SystemInv) => PublishedIsFound
    <2> SUFFICES ASSUME SystemInv, NEW r \in published, r.frames # <<>>
                 PROVE  LET q == [seconds |-> r.seconds, frames |-> r.frames]
                        IN  \/ /\ AnsweredExactly(Exact(committed, q), r.frames)
                               /\ AnsweredExactly(Fuzzy(committed, q), r.frames)
                            \/ KnownWithOtherLengths(r)
        BY DEF PublishedIsFound
    <2> DEFINE d == DiscId(r.seconds, r.frames)
               f == FuzzyId(r.seconds, r.frames)
               q == [seconds |-> r.seconds, frames |-> r.frames]
    <2>1. DbInv(committed) /\ Good(committed) /\ r \in Records /\ Found(committed, r)
        BY DEF SystemInv, KeptInv, Inv, PublishedAreFound
    <2>2. d \in DiscIds /\ f \in FuzzyIds
        BY <2>1, RecordType
    <2>3. /\ Range(committed.discid[d]) \subseteq DOMAIN committed.cd
          /\ Range(committed.fuzzyid[f]) \subseteq DOMAIN committed.cd
        BY <2>1, <2>2 DEF DbInv, RefersToCds
    <2>4. /\ Exact(committed, q) = {c \in Range(committed.discid[d]) : Matches(committed, c, r.frames)}
          /\ Fuzzy(committed, q) = {c \in Range(committed.fuzzyid[f]) : Matches(committed, c, r.frames)}
        BY DEF Exact, Fuzzy, Matching
    <2>5. CASE Answered(committed, r)
        <3>1. PICK e \in Range(committed.discid[d]) : SameFrames(r, ReadRecord(committed, e))
            BY <2>5 DEF Answered
        <3>2. PICK k \in Range(committed.fuzzyid[f]) : SameFrames(r, ReadRecord(committed, k))
            BY <2>5 DEF Answered
        <3> HIDE DEF d, f, q
        <3>3. Matches(committed, e, r.frames) /\ Stored(committed, e) = r.frames
            <4>1. e \in DOMAIN committed.cd /\ Stored(committed, e) = r.frames
                BY <2>3, <3>1, SameFramesLengths DEF Stored, Lengths
            <4> QED  BY <2>1, <4>1, RecordType, MatchesLengths
        <3>4. Matches(committed, k, r.frames) /\ Stored(committed, k) = r.frames
            <4>1. k \in DOMAIN committed.cd /\ Stored(committed, k) = r.frames
                BY <2>3, <3>2, SameFramesLengths DEF Stored, Lengths
            <4> QED  BY <2>1, <4>1, RecordType, MatchesLengths
        <3>5. /\ AnsweredExactly(Exact(committed, q), r.frames)
              /\ AnsweredExactly(Fuzzy(committed, q), r.frames)
            BY <2>4, <3>1, <3>2, <3>3, <3>4 DEF AnsweredExactly
        <3> QED  BY <3>5 DEF q
    <2>6. CASE LinkedByText(committed, r)
        <3> DEFINE c == committed.namehash[HashOf(r)]
        <3>1. /\ HashOf(r) \in DOMAIN committed.namehash
              /\ c \in Range(committed.discid[d]) /\ c \in Range(committed.fuzzyid[f])
            BY <2>6 DEF LinkedByText
        <3>2. CASE Stored(committed, c) # r.frames
            BY <3>1, <3>2 DEF KnownWithOtherLengths
        <3>3. CASE Stored(committed, c) = r.frames
            <4> HIDE DEF c
            <4>1. c \in DOMAIN committed.cd
                BY <2>3, <3>1
            <4>2. Matches(committed, c, r.frames)
                BY <2>1, <4>1, <3>3, RecordType, MatchesLengths
            <4> HIDE DEF d, f, q
            <4>3. /\ AnsweredExactly(Exact(committed, q), r.frames)
                  /\ AnsweredExactly(Fuzzy(committed, q), r.frames)
                BY <2>4, <3>1, <3>3, <4>2 DEF AnsweredExactly
            <4> QED  BY <4>3 DEF q
        <3> QED  BY <3>2, <3>3
    <2> QED  BY <2>1, <2>5, <2>6 DEF Found
<1> QED  BY <1>1, SystemInvariance, PTL
=============================================================================
