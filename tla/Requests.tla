------------------------------ MODULE Requests ------------------------------
(***************************************************************************)
(* How the server understands what a client sends: a line of words, or an  *)
(* HTTP GET whose three parameters are the command, the hello and the      *)
(* protocol.  A GET is split and unescaped byte by byte (split_http_cddb   *)
(* in cddbserver.cpp), every text is split into words (StringTokenizer in  *)
(* helper.hpp), and the words are read as a command (cddb_request).  Bytes *)
(* are numbers, texts sequences of bytes.                                  *)
(*                                                                         *)
(* The client is external: it writes its words with delimiters between     *)
(* them, quotes a word that is not plain, and escapes the parameters of a  *)
(* GET.  It reads a disc by the digits that it was offered.  A connection  *)
(* that breaks leaves a prefix of a GET.  Sessions are  *)
(* past their handshake: CDDBSQLServer models that.                        *)
(***************************************************************************)
EXTENDS Integers, Sequences, SequencesExt, Format

CONSTANTS
    W,          \* uint32_t counts modulo W
    Requested,  \* the commands, each a sequence of words
    Offered,    \* ids of discs that were offered before
    Hellos,     \* the words of hello in a GET, "hello" the first
    Gaps,       \* what a client writes between two words
    Endings,    \* what is left behind the last word of a line
    Cuts        \* where a GET may end too early

VARIABLES
    client,  \* what was sent: [words, offer, behind, escaped, cut]
    input, pos, state, hex, query, parts,   \* split_http_cddb
    texts,   \* the texts still to be worked on
    start, words,                           \* StringTokenizer
    seen,    \* the words of the texts worked on
    asked,   \* the words of the last query that were read as numbers
    id,      \* the id that was read of the last command, NoId without one
    user,    \* who the server welcomed
    phase

splitVars == <<pos, state, hex, query, parts>>
wordVars == <<start, words>>
answerVars == <<seen, asked, id, user>>
vars == <<client, input, splitVars, texts, wordVars, answerVars, phase>>

Tab == 9
LineFeed == 10
Return == 13
Space == 32
Quote == 34
Percent == 37
Ampersand == 38
Plus == 43
Equals == 61
Question == 63
Backslash == 92
Bytes == 0..255
Delimiters == {Space, Tab, Return, LineFeed}

Cddb == <<99, 100, 100, 98>>
Hello == <<104, 101, 108, 108, 111>>
Query == <<113, 117, 101, 114, 121>>
Read == <<114, 101, 97, 100>>
Get == <<71, 69, 84, 32>>

Digits == 48..57
Alphanumeric == Digits \cup 65..90 \cup 97..122

NoId == -1
MaxId == 2147483647

ASSUME WordAssumption == W \in Nat \ {0}

\* No command is the method of HTTP, and ids have 31 bits.
ASSUME ClientAssumption ==
    /\ \A ws \in Requested \cup Hellos : ws \in Seq(Seq(Bytes)) \ {<<>>}
    /\ \A cmd \in Requested : Head(cmd) # SubSeq(Get, 1, 3)
    /\ \A hello \in Hellos : Head(hello) = Hello
    /\ Offered \subseteq 0..MaxId
    /\ \A gap \in Gaps : gap \in Seq(Delimiters) \ {<<>>}
    /\ \A ending \in Endings : ending \in Seq(Delimiters)
    /\ \A cut \in Cuts : cut \in Nat /\ cut >= 4

-----------------------------------------------------------------------------
(* The server's offers, "generic {0:x} {1} / {2}\n".                       *)

Generic == <<103, 101, 110, 101, 114, 105, 99>>
OfferFormat ==
    Generic \o <<32, 123, 48, 58, 120, 125, 32, 123, 49, 125, 32, 47, 32, 123,
                 50, 125, 10>>

\* Of an artist and a title with a brace
OfferLine(n) ==
    Format(OfferFormat, <<NumberArg(n), TextArg(<<65>>), TextArg(<<123>>)>>)

-----------------------------------------------------------------------------
(* The client.                                                             *)

\* The second word of an offer
OfferedId(line) ==
    LET blanks == {i \in DOMAIN line : line[i] = Space}
    IN  SubSeq(line, Min(blanks) + 1, Min(blanks \ {Min(blanks)}) - 1)

ReadOffered(n) == <<Cddb, Read, Generic, OfferedId(OfferLine(n))>>

IsPlain(word) ==
    word # <<>> /\ Head(word) # Quote /\ Range(word) \cap Delimiters = {}

Written(word) == IF IsPlain(word) THEN word ELSE <<Quote>> \o word \o <<Quote>>

Joined(ws, gap) ==
    FlattenSeq([i \in DOMAIN ws |-> (IF i = 1 THEN <<>> ELSE gap) \o Written(ws[i])])

\* A client that escapes nothing but blanks
Unescaping == 0

\* The digit n in one of the two cases: a is the letter for ten
UrlDigit(n, a) == IF n < 10 THEN 48 + n ELSE a + n - 10

UrlChar(byte, blank, a) ==
    IF byte = Space THEN blank
    ELSE IF byte \in Alphanumeric \/ a = Unescaping THEN <<byte>>
    ELSE <<Percent, UrlDigit(byte \div 16, a), UrlDigit(byte % 16, a)>>

Url(text, blank, a) == FlattenSeq([i \in DOMAIN text |-> UrlChar(text[i], blank, a)])

Proto == << <<112, 114, 111, 116, 111>>, <<54>> >>

Parameter(ws, gap, blank, a) ==
    <<Ampersand>> \o Head(ws) \o <<Equals>> \o Url(Joined(Tail(ws), gap), blank, a)

\* name=value&name=value up to the blank before HTTP/1.1
Target == <<47, Question, 99, 109, 100, Equals>>
GetLine(cmd, hello, gap, blank, a) ==
    Get \o Target \o Url(Joined(cmd, gap), blank, a)
        \o Parameter(hello, gap, blank, a) \o Parameter(Proto, gap, blank, a)

Version == <<Space, 72, 84, 84, 80, 47, 49, 46, 49>>

SentLine(cmd, offer, gap, ending) ==
    /\ client = [words |-> <<cmd>>, offer |-> offer, behind |-> Len(ending),
                 escaped |-> TRUE, cut |-> FALSE]
    /\ input = Joined(cmd, gap) \o ending

SentGet(cmd, offer, hello, gap, blank, a) ==
    LET line == GetLine(cmd, hello, gap, blank, a)
        sent(isCut) == [words |-> <<hello, Proto, cmd>>, offer |-> offer, behind |-> 0,
                        escaped |-> a # Unescaping, cut |-> isCut]
    IN  \/ client = sent(FALSE) /\ input = line \o Version
        \/ \E cut \in Cuts :
             /\ cut <= Len(line)
             /\ client = sent(TRUE) /\ input = SubSeq(line, 1, cut)

\* The commands, each with the offer it is about
Commands == {<<cmd, NoId>> : cmd \in Requested} \cup {<<ReadOffered(n), n>> : n \in Offered}

\* One call of request for a line of the stream
Receive ==
    \E cmd \in Commands, gap \in Gaps :
      \/ \E ending \in Endings : SentLine(cmd[1], cmd[2], gap, ending)
      \/ \E hello \in Hellos, style \in {<< <<Plus>>, 65>>,
                                         << <<Percent, 50, 48>>, 97>>,
                                         << <<Plus>>, Unescaping>>} :
           SentGet(cmd[1], cmd[2], hello, gap, style[1], style[2])

Init ==
    /\ Receive
    /\ pos = 1 /\ state = "Preamble" /\ hex = [count |-> 0, char |-> 0]
    /\ query = <<>> /\ parts = <<>>
    /\ texts = <<>> /\ start = 1 /\ words = <<>>
    /\ seen = <<>> /\ asked = <<>> /\ id = NoId /\ user = <<>>
    /\ phase = "received"

-----------------------------------------------------------------------------
(* request and split_http_cddb.                                            *)

BeginsGet == IsPrefix(Get, input)

Request ==
    /\ phase = "received"
    /\ \/ BeginsGet /\ phase' = "splitting" /\ UNCHANGED texts
       \/ ~BeginsGet /\ phase' = "words" /\ texts' = <<input>>
    /\ UNCHANGED <<client, input, splitVars, wordVars, answerVars>>

Ch == input[pos]

Split(states) ==
    /\ phase = "splitting" /\ pos <= Len(input) /\ state \in states
    /\ pos' = pos + 1
    /\ UNCHANGED <<client, input, texts, wordVars, answerVars, phase>>

InQuery == {"QueryReplaceEqual", "Query"}

\* What is no parameter: before the '?', the name of the command, the version
Skip ==
    /\ Split({"Preamble", "QueryCmd", "HttpVersion"})
    /\ state' = IF state = "Preamble" /\ Ch = Question THEN "QueryCmd"
                ELSE IF state = "QueryCmd" /\ Ch = Equals THEN "Query"
                ELSE state
    /\ UNCHANGED <<hex, query, parts>>

HexDigits == Digits \cup 65..70 \cup 97..102

\* Fault: letters in lower case count on from those in upper case
HexDigitLower(ch) == IF ch \in Digits THEN ch - 48 ELSE ch - 65 + 10

HexDigit(ch) ==
    IF ch \in Digits THEN ch - 48
    ELSE IF ch \in 97..102 THEN ch - 97 + 10
    ELSE ch - 65 + 10

Throw ==
    /\ phase' = "thrown"
    /\ UNCHANGED <<client, input, splitVars, texts, wordVars, answerVars>>

IllegalHexChar ==
    /\ phase = "splitting" /\ pos <= Len(input)
    /\ state \in InQuery /\ hex.count # 0 /\ Ch \notin HexDigits
    /\ Throw

HexChar ==
    LET char == hex.char * 16 + HexDigit(Ch)
    IN  /\ Split(InQuery)
        /\ hex.count # 0 /\ Ch \in HexDigits
        /\ hex' = [count |-> hex.count - 1, char |-> char]
        /\ query' = IF hex.count = 1 THEN Append(query, char) ELSE query
        /\ UNCHANGED <<state, parts>>

BeginHex ==
    /\ Split(InQuery)
    /\ hex.count = 0 /\ Ch = Percent
    /\ hex' = [count |-> 2, char |-> 0]
    /\ UNCHANGED <<state, query, parts>>

\* The moved query is empty again
EndPart ==
    /\ Split(InQuery)
    /\ hex.count = 0 /\ Ch \in {Ampersand, Space}
    /\ parts' = Append(parts, query) /\ query' = <<>>
    /\ state' = IF Ch = Ampersand THEN "QueryReplaceEqual" ELSE "HttpVersion"
    /\ UNCHANGED hex

\* The first '=' of a parameter divides its name from its value
FirstEquals == Ch = Equals /\ state = "QueryReplaceEqual"

AddChar ==
    /\ Split(InQuery)
    /\ hex.count = 0 /\ Ch \notin {Percent, Ampersand, Space}
    /\ query' = Append(query, IF Ch = Plus \/ FirstEquals THEN Space ELSE Ch)
    /\ state' = IF FirstEquals THEN "Query" ELSE state
    /\ UNCHANGED <<hex, parts>>

\* Fault: a protocol is not asked for, nor what follows it
WithoutVersion == hex.count = 0 /\ Len(parts) >= 2

IsWhole == hex.count = 0 /\ state = "HttpVersion" /\ Len(parts) = 3

\* The hello first, then the protocol, and finally the command
EndSplit ==
    /\ phase = "splitting" /\ pos > Len(input)
    /\ IF IsWhole
       THEN phase' = "words" /\ texts' = Tail(parts) \o <<Head(parts)>>
       ELSE phase' = "thrown" /\ UNCHANGED texts
    /\ UNCHANGED <<client, input, splitVars, wordVars, answerVars>>

-----------------------------------------------------------------------------
(* StringTokenizer: a word of the first text.                              *)

CurrentText == Head(texts)
Eol == start > Len(CurrentText)

\* The next byte of the text that is no delimiter, or its end
Begin ==
    LET others == {i \in start..Len(CurrentText) : CurrentText[i] \notin Delimiters}
    IN  IF others = {} THEN Len(CurrentText) + 1 ELSE Min(others)

\* An even number of backslashes before i, none included
Unescaped(i) ==
    LET others == {k \in 1..(i - 1) : CurrentText[k] # Backslash}
    IN  (i - 1 - (IF others = {} THEN 0 ELSE Max(others))) % 2 = 0

Quotes == {i \in (Begin + 1)..Len(CurrentText) : CurrentText[i] = Quote}
Closing == {i \in Quotes : Unescaped(i)}
Ends == {i \in Begin..Len(CurrentText) : CurrentText[i] \in Delimiters}

NextWord == phase = "words" /\ texts # <<>> /\ ~Eol

GetWord(word, next) ==
    /\ words' = Append(words, word) /\ start' = next
    /\ UNCHANGED <<client, input, splitVars, texts, answerVars, phase>>

\* Only delimiters are left: a word nobody wrote
GetNothing ==
    /\ NextWord /\ Begin > Len(CurrentText)
    /\ GetWord(<<>>, Len(CurrentText) + 1)

IsQuoted == Begin <= Len(CurrentText) /\ CurrentText[Begin] = Quote

\* The byte behind the closing quote is taken for a delimiter
GetQuoted ==
    /\ NextWord /\ IsQuoted /\ Closing # {}
    /\ GetWord(SubSeq(CurrentText, Begin + 1, Min(Closing) - 1), Min(Closing) + 2)

\* No closing quote: the rest, without an escaped quote at its end
GetOpen ==
    /\ NextWord /\ IsQuoted /\ Closing = {}
    /\ LET last == IF Len(CurrentText) \in Quotes THEN Len(CurrentText) - 1 ELSE Len(CurrentText)
       IN  GetWord(SubSeq(CurrentText, Begin + 1, last), Len(CurrentText) + 2)

GetPlain ==
    /\ NextWord /\ Begin <= Len(CurrentText) /\ ~IsQuoted
    /\ LET end == IF Ends = {} THEN Len(CurrentText) + 1 ELSE Min(Ends)
       IN  GetWord(SubSeq(CurrentText, Begin, end - 1), end + 1)

-----------------------------------------------------------------------------
(* cddb_request.                                                           *)

Lowered(word) ==
    [i \in DOMAIN word |-> IF word[i] \in 65..90 THEN word[i] + 32 ELSE word[i]]

Lower(ws) ==
    LET first == IF ws = <<>> THEN ws ELSE [ws EXCEPT ![1] = Lowered(@)]
    IN  IF Len(ws) > 1 /\ first[1] = Cddb
        THEN [first EXCEPT ![2] = Lowered(@)]
        ELSE first

\* std::stoul reads the digits a word begins with, and throws if it has none.
\* (No word of the model begins with a sign, a blank or 0x, which it takes.)
IsNumber(word) == word # <<>> /\ Head(word) \in Digits
IsHex(word) == word # <<>> /\ Head(word) \in HexDigits

Number(word) ==
    LET others == {i \in DOMAIN word : word[i] \notin Digits}
        number[i \in 0..Len(word)] ==
            IF i = 0 THEN 0 ELSE 10 * number[i - 1] + word[i] - 48
    IN  number[IF others = {} THEN Len(word) ELSE Min(others) - 1]

\* No id of the model is wider than 31 bits
HexNumber(word) ==
    LET others == {i \in DOMAIN word : word[i] \notin HexDigits}
        number[i \in 0..Len(word)] ==
            IF i = 0 THEN 0 ELSE 16 * number[i - 1] + HexDigit(word[i])
    IN  number[IF others = {} THEN Len(word) ELSE Min(others) - 1]

Ntrks(ws) == Number(ws[4]) % W

\* Fault: the count alone, not the words there must be at least
CountsFitOnly(ws) == IsNumber(ws[4]) => (Ntrks(ws) + 5) % W = Len(ws)

CountsFit(ws) ==
    /\ Len(ws) >= 6
    /\ IsNumber(ws[4]) => Ntrks(ws) # 0 /\ (Ntrks(ws) + 5) % W = Len(ws)

\* The offsets of the tracks and the seconds
NumbersOf(ws) == [i \in 1..(Ntrks(ws) + 1) |-> i + 4]

AllNumbers(ws, numbers) ==
    \A i \in Range(numbers) : i \in DOMAIN ws => IsNumber(ws[i])

\* What a query reads, and whether that throws
QueryCommand(ws) ==
    IF ~CountsFit(ws) THEN asked' = <<>> /\ id' = NoId /\ phase' = phase
    ELSE IF ~IsNumber(ws[4]) THEN asked' = <<>> /\ id' = NoId /\ phase' = "thrown"
    ELSE LET reads == AllNumbers(ws, NumbersOf(ws)) /\ IsHex(ws[3])
         IN  /\ asked' = NumbersOf(ws)
             /\ id' = IF reads THEN HexNumber(ws[3]) ELSE NoId
             /\ phase' = IF reads THEN phase ELSE "thrown"

ReadCommand(ws) ==
    /\ asked' = <<>>
    /\ id' = IF Len(ws) = 4 /\ IsHex(ws[4]) THEN HexNumber(ws[4]) ELSE NoId
    /\ phase' = IF Len(ws) = 4 /\ ~IsHex(ws[4]) THEN "thrown" ELSE phase

\* The data of register_user, resized to user, host, client and version
RegisterUser(data) ==
    [k \in 1..4 |-> IF k <= Len(data) THEN data[k] ELSE <<>>]

IsCommand(ws, name) == Len(ws) > 1 /\ ws[1] = Cddb /\ ws[2] = name
IsHello(ws) == ws # <<>> /\ ws[1] = Hello

\* proto throws for a level that is no number
ProtoThrows(ws) == Len(ws) > 1 /\ ws[1] = Head(Proto) /\ ~IsNumber(ws[2])

CommandOf(ws) ==
    /\ user' = IF IsCommand(ws, Hello) THEN RegisterUser(SubSeq(ws, 3, Len(ws)))
               ELSE IF IsHello(ws) THEN RegisterUser(Tail(ws))
               ELSE user
    /\ \/ IsCommand(ws, Query) /\ QueryCommand(ws)
       \/ IsCommand(ws, Read) /\ ReadCommand(ws)
       \/ /\ ~IsCommand(ws, Query) /\ ~IsCommand(ws, Read)
          /\ asked' = <<>> /\ id' = NoId
          /\ phase' = IF ProtoThrows(ws) THEN "thrown" ELSE phase

CddbRequest ==
    /\ phase = "words" /\ texts # <<>> /\ Eol
    /\ CommandOf(Lower(words))
    /\ seen' = Append(seen, Lower(words))
    /\ texts' = Tail(texts) /\ start' = 1 /\ words' = <<>>
    /\ UNCHANGED <<client, input, splitVars>>

Answer ==
    /\ phase = "words" /\ texts = <<>>
    /\ phase' = "done"
    /\ UNCHANGED <<client, input, splitVars, texts, wordVars, answerVars>>

Next ==
    \/ Request
    \/ Skip \/ IllegalHexChar \/ HexChar \/ BeginHex \/ EndPart \/ AddChar
    \/ EndSplit
    \/ GetNothing \/ GetQuoted \/ GetOpen \/ GetPlain
    \/ CddbRequest \/ Answer

Spec == Init /\ [][Next]_vars

-----------------------------------------------------------------------------
(* Properties.                                                             *)

TypeOK ==
    /\ pos \in 1..(Len(input) + 1)
    /\ state \in InQuery \cup {"Preamble", "QueryCmd", "HttpVersion"}
    /\ hex.count \in 0..2 /\ hex.char \in Bytes
    /\ Range(query) \subseteq Bytes
    /\ id \in Nat \cup {NoId}
    /\ phase \in {"received", "splitting", "words", "done", "thrown"}

\* The words a client can send: plain, or in quotes that nothing in the word
\* closes or escapes
CanBeSent(word) ==
    \/ IsPlain(word)
    \/ word = <<>>
    \/ Quote \notin Range(word) /\ Last(word) # Backslash

\* With the first words in lower case, and an empty one more if a delimiter
\* is left that no word took
Arrived(sent, ws) ==
    \/ ws = Lower(sent)
    \/ client.behind > 1 /\ ws = Append(Lower(sent), <<>>)

WordsArrive ==
    phase = "done" /\ ~client.cut /\ client.escaped
        /\ (\A ws \in Range(client.words) : \A word \in Range(ws) : CanBeSent(word))
    => /\ Len(seen) = Len(client.words)
       /\ \A i \in DOMAIN seen : Arrived(client.words[i], seen[i])

NumbersAreWords ==
    asked # <<>> =>
        /\ Range(asked) \subseteq DOMAIN Last(seen)
        /\ Last(asked) = Len(Last(seen))

\* Who said hello in a GET is welcomed with its own words, before anything
\* else is answered, until its command is another hello
UserIsWelcome ==
    Len(client.words) = 3 /\ Len(seen) > 0 =>
        \/ user = RegisterUser(Tail(seen[1]))
        \/ Len(seen) = 3 /\ (IsCommand(seen[3], Hello) \/ IsHello(seen[3]))

\* What was offered is what is read, unless a word stands behind it
OfferedIsRead ==
    phase \in {"done", "thrown"} /\ ~client.cut /\ client.escaped /\ client.offer # NoId
        => id = client.offer \/ (seen # <<>> /\ Len(Last(seen)) > 4)

\* The server works on the words that were sent, in the order hello, protocol,
\* command, however the client delimits, quotes or escapes them
\* (split_http_cddb, cddbserver.cpp:511; StringTokenizer::get, helper.hpp:216),
\* and a query reads as numbers only words that are there, the last word among
\* them, although the number of tracks is only 32 bits wide and adding 5 to it
\* may come round to the number of the words (cddbserver.cpp:367).  A disc is read
\* by the digits it was offered with (cddbserver.cpp:174, cddbserver.cpp:403).
RequestUnderstood ==
    TypeOK /\ WordsArrive /\ NumbersAreWords /\ UserIsWelcome /\ OfferedIsRead

\* Of a GET whose connection broke before its version nothing is worked on,
\* neither the hello nor half a command (cddbserver.cpp:566).
CutGetIsRefused == client.cut => phase # "words" /\ seen = <<>>
=============================================================================
