----------------------------- MODULE MCRequests -----------------------------
(***************************************************************************)
(* Requests of clients, among them queries whose number of tracks is not   *)
(* that of their words, also if it comes round at W, and names that need   *)
(* quotes, or escapes in a GET.                                            *)
(***************************************************************************)
EXTENDS Requests

\* CDDB Query 1a 2 15 30 9
TwoTracks ==
    <<<<67, 68, 68, 66>>, <<81, 117, 101, 114, 121>>, <<49, 97>>, <<50>>,
      <<49, 53>>, <<51, 48>>, <<57>>>>

\* cddb query 1a 1 15 9
OneTrack ==
    <<<<99, 100, 100, 98>>, <<113, 117, 101, 114, 121>>, <<49, 97>>,
      <<49>>, <<49, 53>>, <<57>>>>

\* cddb query 1a 2 15 9
WrongCount ==
    <<<<99, 100, 100, 98>>, <<113, 117, 101, 114, 121>>, <<49, 97>>,
      <<50>>, <<49, 53>>, <<57>>>>

\* cddb query 1a 15
Wraps ==
    <<<<99, 100, 100, 98>>, <<113, 117, 101, 114, 121>>, <<49, 97>>, <<49,
      53>>>>

\* cddb query 1a 17 15 9
WrapsFar ==
    <<<<99, 100, 100, 98>>, <<113, 117, 101, 114, 121>>, <<49, 97>>, <<49,
      55>>, <<49, 53>>, <<57>>>>

\* cddb query 1a x 15 9
NoNumber ==
    <<<<99, 100, 100, 98>>, <<113, 117, 101, 114, 121>>, <<49, 97>>,
      <<120>>, <<49, 53>>, <<57>>>>

\* cddb READ rock 0F
ReadDisc ==
    <<<<99, 100, 100, 98>>, <<82, 69, 65, 68>>, <<114, 111, 99, 107>>,
      <<48, 70>>>>

\* cddb hello a b c=d e&f+g 100%
Greeting ==
    <<<<99, 100, 100, 98>>, <<104, 101, 108, 108, 111>>, <<97, 32, 98>>,
      <<99, 61, 100>>, <<101, 38, 102, 43, 103>>, <<49, 48, 48, 37>>>>

\* cddb hello a"b \ c
Broken ==
    <<<<99, 100, 100, 98>>, <<104, 101, 108, 108, 111>>, <<97, 34, 98, 32,
      92>>, <<99>>>>

\* cddb hello a b\ c, and with the last two words changed about
Open ==
    <<<<99, 100, 100, 98>>, <<104, 101, 108, 108, 111>>, <<97, 32, 98,
      92>>, <<99>>>>
OpenEnd == SubSeq(Open, 1, 2) \o <<Open[4], Open[3]>>

\* A word of no bytes
Empty ==
    <<<<>>>>

\* STAT
Status ==
    <<<<83, 84, 65, 84>>>>

MCRequested ==
    { TwoTracks, OneTrack, WrongCount, Wraps, WrapsFar, NoNumber,
      ReadDisc, Greeting, Broken, Open, OpenEnd, Empty, Status }

\* One digit, two, letters among them, many
MCOffered == { 0, 10, 16, 305441741, 67108863 }
MCHellos == { Tail(Greeting), <<Hello, <<106>>>> }
MCGaps == { <<Space>>, <<Space, Tab>> }
MCEndings == { <<>>, <<Return>>, <<Space, Return>> }
MCCuts == 4..120
=============================================================================
