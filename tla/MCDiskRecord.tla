---------------------------- MODULE MCDiskRecord ----------------------------
(***************************************************************************)
(* Files for DiskRecord: a file of a disc with two tracks, in which lines  *)
(* are missing, out of order or too many.                                  *)
(***************************************************************************)
EXTENDS DiskRecord

MCArtists == {"Abba", "Zappa"}
MCTitles == {"Gold"}
MCSongs == {"Song", "Other"}

MCBadEncoding(artist, songs) ==
    artist = "Zappa" /\ \E i \in DOMAIN songs : songs[i].text = "Other"

Title(artist) == [kind |-> "title", artist |-> artist, title |-> "Gold"]
Song(n, by, text) ==
    [kind |-> "song", number |-> n, song |-> [by |-> by, text |-> text]]
Offset(n) == [kind |-> "number", number |-> n]
DiscLength(n) == [kind |-> "length", number |-> n]

WholeFile ==
    << [kind |-> "offsets"], Offset(150), Offset(350), [kind |-> "blank"],
       DiscLength(10), [kind |-> "revision", number |-> 1], Title("Abba"),
       Song(0, <<"Abba">>, "Song"), Song(1, <<>>, "Other") >>

\* Offsets and lengths that leave the arithmetic of 32 bits, the second list
\* of numbers that starts at 1, and lines of all other kinds.
MoreLines ==
    { [kind |-> "offsets"], Offset(0), Offset(9990), [kind |-> "blank"],
      DiscLength(1), Title("Zappa"), Song(0, <<"Abba", "Abba">>, "Other"),
      Song(2, <<>>, "Song"), [kind |-> "year", good |-> FALSE],
      [kind |-> "other"], [kind |-> "nothing"] }

Remove(f, i) == SubSeq(f, 1, i - 1) \o SubSeq(f, i + 1, Len(f))
Insert(f, i, line) == SubSeq(f, 1, i) \o <<line>> \o SubSeq(f, i + 1, Len(f))
Exchange(f, i, j) == [f EXCEPT ![i] = f[j], ![j] = f[i]]

\* One change of a file.
Changes(f) ==
    { Remove(f, i) : i \in DOMAIN f }
      \cup { Insert(f, i, line) : i \in 0..Len(f), line \in MoreLines }
      \cup { Exchange(f, i, j) : i, j \in DOMAIN f }

MCFiles == UNION { Changes(f) : f \in Changes(WholeFile) }
=============================================================================
