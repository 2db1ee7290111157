----------------------------- MODULE CDDBSystem -----------------------------
(***************************************************************************)
(* The importer and a client of the server (src/cddbserver.cpp) on one     *)
(* database.  A client asks for its disc by the track lengths, the server  *)
(* looks for the exact disc id and then for the fuzzy one, each in a       *)
(* critical section and a read transaction of its own, and the client may  *)
(* read one of the discs it was offered.  Imports may be committed in      *)
(* between.                                                                *)
(***************************************************************************)
EXTENDS CDDBSQLUpdater, SequencesExt

CONSTANTS
    Asked,          \* what clients ask for: start frame and track lengths
    MaxTrackDiff,   \* m_max_trackdiff: how far a track may be off
    MaxListed       \* how many close matches are listed (10 in the code)

ASSUME AskedAssumption ==
    /\ Asked \subseteq [seconds : Nat, frames : Seq(Nat) \ {<<>>}]
    /\ \A q \in Asked : /\ DiscId(q.seconds, q.frames) \in DiscIds
                        /\ FuzzyId(q.seconds, q.frames) \in FuzzyIds

\* A CD that is offered has a disc id of the lengths in its rows.
ASSUME StoredAssumption ==
    \A r \in Records : DiscId(r.seconds, StoredFrames(r)) \in DiscIds

ASSUME LimitsAssumption == MaxTrackDiff \in Nat /\ MaxListed \in Nat \ {0}

VARIABLE client     \* the session: its state, what was asked and answered

systemVars == <<vars, client>>

-----------------------------------------------------------------------------
(* The lookups, on the database db.                                        *)

AbsDiff(a, b) == IF a > b THEN a - b ELSE b - a

Stored(db, c) == [ct \in DOMAIN db.tracks[c] |-> db.tracks[c][ct].frames]

\* CDList::add_if: as many tracks, and no track is off by too much.  (The
\* fault only counts the tracks.)
MatchesByCount(db, c, frames) ==
    /\ db.cd[c].tracks = Len(frames)
    /\ Len(Stored(db, c)) = Len(frames)

Matches(db, c, frames) ==
    /\ db.cd[c].tracks = Len(frames)
    /\ Len(Stored(db, c)) = Len(frames)
    /\ \A ct \in DOMAIN frames : AbsDiff(Stored(db, c)[ct], frames[ct]) <= MaxTrackDiff

Diff(db, c, frames) ==
    FoldSeq(LAMBDA ct, sum : sum + AbsDiff(Stored(db, c)[ct], frames[ct]), 0,
            [ct \in DOMAIN frames |-> ct])

\* The CDs of a list of links that match, each of them once.  (The fault
\* looks at the first link only.)
FirstMatching(db, links, frames) ==
    {c \in {links[i] : i \in DOMAIN links \cap {1}} : Matches(db, c, frames)}

Matching(db, links, frames) == {c \in Range(links) : Matches(db, c, frames)}

\* Sorted by the difference; std::sort leaves the order of equals open.
Sorted(db, cds, frames) ==
    {s \in SetToSeqs(cds) : \A i, j \in DOMAIN s :
        i < j => Diff(db, s[i], frames) <= Diff(db, s[j], frames)}

\* The CDs an exact and a fuzzy query find.
Exact(db, q) == Matching(db, db.discid[DiscId(q.seconds, q.frames)], q.frames)
Fuzzy(db, q) == Matching(db, db.fuzzyid[FuzzyId(q.seconds, q.frames)], q.frames)

Offer(id, c) == [id |-> id, cd |-> c]

\* "200" and "210": with the id that was asked for.
ExactOffers(db, q, cds) == [i \in DOMAIN cds |-> Offer(DiscId(q.seconds, q.frames), cds[i])]

\* "211": each CD with an id of its own.  (The fault shows the id
\* of the query instead.)
FuzzyOffersAsked(db, q, cds) ==
    [i \in 1..Min({Len(cds), MaxListed}) |->
        Offer(DiscId(q.seconds, q.frames), cds[i])]

FuzzyOffers(db, q, cds) ==
    [i \in 1..Min({Len(cds), MaxListed}) |->
        Offer(DiscId(db.cd[cds[i]].seconds, Stored(db, cds[i])), cds[i])]

\* What "cddb read" shows: the CD of the first link, whatever the category.
NoFile == [found |-> FALSE]
File(db, id) ==
    IF KnownDiscId(db, id)
    THEN LET c == CheckDiscId(db, id)
         IN  [found |-> TRUE, id |-> id, cd |-> c, genre |-> GenreName(db, db.cd[c].genre)]
    ELSE NoFile

-----------------------------------------------------------------------------
(* The session.                                                            *)

NoQuery == [seconds |-> 0, frames |-> <<>>]

Idle == [state |-> "idle", query |-> NoQuery, offers |-> <<>>, due |-> FALSE,
         file |-> NoFile]

SystemInit == Init /\ client = Idle

\* The client's turn, on a database that is whole.
Turn(state) ==
    /\ client.state = state
    /\ Whole
    /\ UNCHANGED vars

\* due (history): there is an answer at the time of the question.
CddbQuery(q) ==
    /\ Turn("idle")
    /\ client' = [Idle EXCEPT !.state = "exact", !.query = q,
                    !.due = Exact(committed, q) \cup Fuzzy(committed, q) # {}]

\* The first critical section; a disc it finds ends the query.  (The fault
\* ends it in any case.)
QueryByDiscidOnly ==
    /\ Turn("exact")
    /\ \E cds \in Sorted(committed, Exact(committed, client.query), client.query.frames) :
        client' = [client EXCEPT
            !.state  = "answered",
            !.offers = ExactOffers(committed, client.query, cds)]

QueryByDiscid ==
    /\ Turn("exact")
    /\ \E cds \in Sorted(committed, Exact(committed, client.query), client.query.frames) :
        client' = [client EXCEPT
            !.state  = IF cds = <<>> THEN "fuzzy" ELSE "answered",
            !.offers = ExactOffers(committed, client.query, cds)]

\* The second one; when it finds nothing either, the answer is "202".
QueryByFuzzyDiscid ==
    /\ Turn("fuzzy")
    /\ \E cds \in Sorted(committed, Fuzzy(committed, client.query), client.query.frames) :
        client' = [client EXCEPT
            !.state  = "answered",
            !.offers = FuzzyOffers(committed, client.query, cds)]

\* "cddb read" of one of the discs that were offered.
BuildCddbFile(i) ==
    /\ Turn("answered")
    /\ i \in DOMAIN client.offers
    /\ client' = [client EXCEPT !.state = "read",
                                !.file  = File(committed, client.offers[i].id)]

Quit ==
    /\ client.state \in {"answered", "read"}
    /\ Turn(client.state)
    /\ client' = Idle

Session ==
    \/ \E q \in Asked : CddbQuery(q)
    \/ QueryByDiscid
    \/ QueryByFuzzyDiscid
    \/ \E i \in 1..Len(client.offers) : BuildCddbFile(i)
    \/ Quit

SystemNext == (Next /\ UNCHANGED client) \/ Session

SystemSpec == SystemInit /\ [][SystemNext]_systemVars

-----------------------------------------------------------------------------
(* Properties.                                                             *)

\* The types of the session.
SystemTypeOK ==
    /\ client.state \in {"idle", "exact", "fuzzy", "answered", "read"}
    /\ client.query \in Asked \cup {NoQuery}
    /\ client.offers \in Seq([id : DiscIds, cd : CdIds])
    /\ client.due \in BOOLEAN
    /\ client.file.found => client.file.cd \in DOMAIN committed.cd

\* The CD has the track lengths the client's disc has, nearly.
IsNear(c) ==
    /\ c \in DOMAIN committed.cd
    /\ Len(committed.tracks[c]) = Len(client.query.frames)
    /\ \A ct \in DOMAIN client.query.frames :
        AbsDiff(committed.tracks[c][ct].frames, client.query.frames[ct]) <= MaxTrackDiff

\* A CD that was offered matches the disc the client holds track by track,
\* and still does after the imports that were committed since: merging a
\* better version never puts other track lengths behind an answer.
OffersMatch == \A i \in DOMAIN client.offers : IsNear(client.offers[i].cd)

\* The record of the CD had track lengths: only then is there a start frame.
HasLengths(c) == committed.cd[c].seconds # 0

\* No disc that was offered, by an exact or a fuzzy match, is "No such CD
\* entry in database" when it is read: for a close match this needs a link
\* for the id the server computes from the tables.  (A CD without lengths
\* matches a disc of very short tracks only, and under a digest that is not
\* its own.)
OfferedCanBeRead == Whole =>
    \A i \in DOMAIN client.offers :
        HasLengths(client.offers[i].cd) => KnownDiscId(committed, client.offers[i].id)

\* A disc that could be found when the client asked is not answered "202",
\* although the exact and the fuzzy lookup see different databases.
StableAnswer ==
    Whole /\ client.state \in {"answered", "read"} /\ client.due => client.offers # <<>>

\* Who asks with the very track lengths of a CD gets an exact match with
\* these lengths: of the CD itself, or of its twin when it has no link.
OwnLengthsAnswered == Whole =>
    \A c \in DOMAIN committed.cd : HasLengths(c) =>
        LET q == [seconds |-> committed.cd[c].seconds, frames |-> Stored(committed, c)]
        IN  \E e \in Exact(committed, q) : Stored(committed, e) = q.frames

\* What a read shows matches the disc the client asked for, unless the id it
\* was offered is one of several CDs: "cddb read" takes the CD of the first
\* link and compares no track lengths, so only a digest of its own makes an
\* answer of the query safe to read.
FileMatchesQuery ==
    client.state = "read" /\ (\A i \in DOMAIN client.offers : HasLengths(client.offers[i].cd)) =>
        /\ client.file.found
        /\ \/ IsNear(client.file.cd)
           \/ Cardinality(Range(committed.discid[client.file.id])) > 1

\* The genre of a file has a name, although the importer numbers genres and
\* writes the CDs that refer to them in statements of their own.
FileHasGenre == client.file.found => client.file.genre \in Genres

\* What a client is told and shows is its disc, at any time of its session.
AnswersMatch == Whole =>
    SystemTypeOK /\ OffersMatch /\ FileMatchesQuery /\ FileHasGenre

\* Every valid record of a committed archive is found by its own track
\* lengths, exactly and by the fuzzy lookup, whatever was merged, linked or
\* deleted since; but one whose text was known under other track lengths is
\* stored under these, and is only linked to that CD: a CD has one set of
\* track lengths, and add_if compares them with the ones of the question.
AnsweredExactly(cds, frames) == \E c \in cds : Stored(committed, c) = frames

KnownWithOtherLengths(r) ==
    /\ HashOf(r) \in DOMAIN committed.namehash
    /\ LET c == committed.namehash[HashOf(r)]
       IN  /\ Stored(committed, c) # r.frames
           /\ c \in Range(committed.discid[DiscId(r.seconds, r.frames)])
           /\ c \in Range(committed.fuzzyid[FuzzyId(r.seconds, r.frames)])

PublishedIsFound == Whole =>
    \A r \in published : r.frames # <<>> =>
        LET q == [seconds |-> r.seconds, frames |-> r.frames]
        IN  \/ /\ AnsweredExactly(Exact(committed, q), r.frames)
               /\ AnsweredExactly(Fuzzy(committed, q), r.frames)
            \/ KnownWithOtherLengths(r)
=============================================================================
