--------------------------- MODULE CDDBSQLServer ----------------------------
(***************************************************************************)
(* The server (src/cddbserver.cpp on src/asioserver.cpp): one thread for   *)
(* every session reads requests line by line, in the CDDB protocol or as   *)
(* HTTP, and answers queries from one SQLite connection with one prepared  *)
(* statement for each kind of lookup, which all sessions share behind a    *)
(* mutex.  Another process may import into the same database file.         *)
(*                                                                         *)
(* What a lookup finds is the subject of CDDBSystem; here it is "some" or  *)
(* "none", and what matters is who holds which lock when.                  *)
(***************************************************************************)
CONSTANTS
    Sessions,       \* connections at the same time
    NoSession,
    Writers,        \* does another process import into the database
    DiskErrors,     \* may a lookup fail while it reads
    ExpectHttp      \* m_expect_http: no welcome message

ASSUME ConstantsAssumption ==
    /\ NoSession \notin Sessions
    /\ {Writers, DiskErrors, ExpectHttp} \subseteq BOOLEAN

Lookups == {"exact", "fuzzy", "read"}   \* m_query, m_fquery, m_qcd

\* The commands, as cddb_request tells them apart.
Commands ==
    { "nothing",        \* a line without a word
      "hello", "quit",
      "info",           \* lscat, stat, ver, proto
      "malformed",      \* unsupported, or with a wrong number of words
      "nonnumeric",     \* std::stoul and std::stoi throw
      "query", "read" }

\* A line of a client: a command, a lone "\r", a GET with the parts cmd,
\* hello and proto, or a GET that cannot be split into three.
\* (Bound of the model: hello and proto of a GET are no lookups.)
Lines ==
    [kind : {"cddb"}, cmd : Commands]
      \cup [ kind : {"get"}, cmd : {"nothing", "quit", "query", "read"},
             hello : {"hello", "info", "nonnumeric"}, proto : {"hello", "info"} ]
      \cup [kind : {"badget", "cr"}]

VARIABLES
    pc,         \* of each session
    par,        \* its Parameters
    reply,      \* its reply to the last request: "data", a "code", "none"
    op,         \* the lookup it is at ("exact" when it is at none)
    found,      \* whether the CDList of this lookup has a disc
    mutex,      \* who holds m_sqlmutex
    stmt,       \* the shared statement of each kind of lookup
    shared,     \* whether the connection holds SQLite's SHARED lock
    writer      \* the lock of the importing process on the database file

vars == <<pc, par, reply, op, found, mutex, stmt, shared, writer>>

sessionVars == <<pc, par, reply, op, found>>

NewParameters == [handshake |-> FALSE, terminate |-> FALSE, is_http |-> FALSE]

Init ==
    /\ pc = [s \in Sessions |-> "closed"]
    /\ par = [s \in Sessions |-> NewParameters]
    /\ reply = [s \in Sessions |-> "none"]
    /\ op = [s \in Sessions |-> "exact"]
    /\ found = [s \in Sessions |-> FALSE]
    /\ mutex = NoSession
    /\ stmt = [l \in Lookups |-> "ready"]
    /\ shared = FALSE
    /\ writer = "none"

-----------------------------------------------------------------------------
(* One request.                                                            *)

\* Before a hello there is only the empty line and the hello itself.  (The
\* fault forgets one command.)
RefusedExceptRead(p, cmd) == ~p.handshake /\ cmd \notin {"nothing", "hello", "read"}

Refused(p, cmd) == ~p.handshake /\ cmd \notin {"nothing", "hello"}

IsLookup(p, cmd) == ~Refused(p, cmd) /\ cmd \in {"query", "read"}

Throws(p, cmd) == ~Refused(p, cmd) /\ cmd = "nonnumeric"

\* The code of the reply to a command that is no lookup.
ReplyTo(p, cmd) ==
    CASE cmd = "nothing" /\ ~p.handshake -> "201"
      [] cmd = "hello" -> "200"
      [] cmd = "info" /\ ~Refused(p, cmd) -> "200"
      [] cmd = "quit" /\ ~Refused(p, cmd) -> "230"
      [] OTHER -> "530"

Ends(p, cmd) ==
    ~IsLookup(p, cmd) /\ ~Throws(p, cmd) /\ ReplyTo(p, cmd) \in {"230", "530"}

\* What a command does to the parameters of the session.
After(p, cmd) ==
    [p EXCEPT !.handshake = @ \/ cmd = "hello",
              !.terminate = @ \/ Ends(p, cmd)]

\* The loop of the session ends when a request asked for it.
NextLine(p) == IF p.terminate THEN "closed" ELSE "getline"

\* cddb_request: answer the command, or go on to its lookup, or throw.
CddbRequest(s, p, cmd) ==
    \/ /\ IsLookup(p, cmd)
       /\ pc' = [pc EXCEPT ![s] = "lock"]
       /\ op' = [op EXCEPT ![s] = IF cmd = "query" THEN "exact" ELSE "read"]
       /\ par' = [par EXCEPT ![s] = p]
       /\ reply' = [reply EXCEPT ![s] = "none"]
    \/ /\ ~IsLookup(p, cmd) /\ ~Throws(p, cmd)
       /\ pc' = [pc EXCEPT ![s] = NextLine(After(p, cmd))]
       /\ par' = [par EXCEPT ![s] = After(p, cmd)]
       /\ reply' = [reply EXCEPT ![s] = "code"]
       /\ UNCHANGED op
    \/ /\ Throws(p, cmd)
       /\ pc' = [pc EXCEPT ![s] = "closed"]
       /\ UNCHANGED <<par, reply, op>>

-----------------------------------------------------------------------------
(* The sessions.                                                           *)

\* A client connects; without HTTP it gets the welcome message.
Connect(s) ==
    /\ pc[s] = "closed"
    /\ pc' = [pc EXCEPT ![s] = "getline"]
    /\ par' = [par EXCEPT ![s] = NewParameters]
    /\ reply' = [reply EXCEPT ![s] = IF ExpectHttp THEN "none" ELSE "code"]
    /\ UNCHANGED <<op, found, mutex, stmt, shared, writer>>

\* The client leaves, or the stream expires.
Disconnect(s) ==
    /\ pc[s] = "getline"
    /\ pc' = [pc EXCEPT ![s] = "closed"]
    /\ par' = [par EXCEPT ![s] = NewParameters]
    /\ reply' = [reply EXCEPT ![s] = "none"]
    /\ UNCHANGED <<op, found, mutex, stmt, shared, writer>>

Line(s) ==
    /\ pc[s] = "getline"
    /\ UNCHANGED <<found, mutex, stmt, shared, writer>>

Command(s, line) ==
    /\ Line(s)
    /\ line.kind = "cddb"
    /\ ~par[s].is_http
    /\ CddbRequest(s, par[s], line.cmd)

\* The hello, the proto command and the query of a GET, in this order.
HttpGet(s, line) ==
    /\ Line(s)
    /\ line.kind = "get"
    /\ LET p0 == [par[s] EXCEPT !.is_http = TRUE]
           p1 == After(p0, line.hello)
           p2 == After(p1, line.proto)
       IN  \/ ~Throws(p0, line.hello) /\ CddbRequest(s, p2, line.cmd)
           \/ /\ Throws(p0, line.hello)
              /\ pc' = [pc EXCEPT ![s] = "closed"]
              /\ UNCHANGED <<par, reply, op>>

BadGet(s, line) ==
    /\ Line(s)
    /\ line.kind = "badget"
    /\ pc' = [pc EXCEPT ![s] = "closed"]
    /\ UNCHANGED <<par, reply, op>>

\* A lone "\r" is skipped, and after a GET so are the headers.
SkipLine(s, line) ==
    /\ Line(s)
    /\ line.kind = "cr" \/ (line.kind = "cddb" /\ par[s].is_http)
    /\ UNCHANGED <<pc, par, reply, op>>

-----------------------------------------------------------------------------
(* The lookups.                                                            *)

\* SQLite counts a statement as a reader from its first step, even a refused
\* one, until it is done, fails or is reset; the last reader to end gives the
\* SHARED lock back.
Running == {"row", "stuck", "refused"}
OthersRun(l) == \E k \in Lookups \ {l} : stmt[k] \in Running

CanRead == shared \/ writer \in {"none", "reserved"}

\* (The fault works without the lock.)
EnterUnlocked(s) ==
    /\ pc[s] = "lock"
    /\ pc' = [pc EXCEPT ![s] = "bind"]
    /\ mutex' = s
    /\ UNCHANGED <<par, reply, op, found, stmt, shared, writer>>

Enter(s) ==
    /\ pc[s] = "lock"
    /\ mutex = NoSession
    /\ pc' = [pc EXCEPT ![s] = "bind"]
    /\ mutex' = s
    /\ UNCHANGED <<par, reply, op, found, stmt, shared, writer>>

\* An exception leaves the critical section and ends the session; nobody
\* resets the statement.  (The fault keeps the lock.)
ThrowLocked(s, state) ==
    /\ pc' = [pc EXCEPT ![s] = "closed"]
    /\ stmt' = [stmt EXCEPT ![op[s]] = state]
    /\ found' = [found EXCEPT ![s] = FALSE]
    /\ op' = [op EXCEPT ![s] = "exact"]
    /\ UNCHANGED <<mutex, par, reply, writer>>

Throw(s, state) ==
    /\ pc' = [pc EXCEPT ![s] = "closed"]
    /\ stmt' = [stmt EXCEPT ![op[s]] = state]
    /\ mutex' = NoSession
    /\ found' = [found EXCEPT ![s] = FALSE]
    /\ op' = [op EXCEPT ![s] = "exact"]
    /\ UNCHANGED <<par, reply, writer>>

\* A step that works comes to a row or to the end.
Step(s) ==
    \E state \in {"row", "done"} :
        /\ stmt' = [stmt EXCEPT ![op[s]] = state]
        /\ shared' = (state = "row" \/ OthersRun(op[s]))

\* bind() and the first executeStep().
FirstStep(s) ==
    /\ pc[s] = "bind"
    /\ stmt[op[s]] = "ready"
    /\ CanRead
    /\ pc' = [pc EXCEPT ![s] = "rows"]
    /\ Step(s)
    /\ UNCHANGED <<par, reply, op, found, mutex, writer>>

\* The busy timeout of 1000 ms has passed.  The statement got no lock, but it
\* runs: nobody resets it.
FirstStepBusy(s) ==
    /\ pc[s] = "bind"
    /\ stmt[op[s]] = "ready"
    /\ ~CanRead
    /\ Throw(s, "refused")
    /\ UNCHANGED shared

\* bind() on a statement that was not reset is an error of SQLite.
BindRefused(s) ==
    /\ pc[s] = "bind"
    /\ stmt[op[s]] # "ready"
    /\ Throw(s, stmt[op[s]])
    /\ UNCHANGED shared

\* A link was read: its CD may match or not, and there may be more links.
NextStep(s) ==
    /\ pc[s] = "rows"
    /\ op[s] \in {"exact", "fuzzy"}
    /\ stmt[op[s]] = "row"
    /\ \E match \in BOOLEAN : found' = [found EXCEPT ![s] = @ \/ match]
    /\ Step(s)
    /\ UNCHANGED <<pc, par, reply, op, mutex, writer>>

\* The statement itself fails, or one that reads what its row refers to: then
\* nobody takes the statement off its row any more.
StepFails(s) ==
    /\ DiskErrors
    /\ pc[s] = "rows"
    /\ stmt[op[s]] = "row"
    /\ \E state \in {"stuck", "failed"} :
        /\ Throw(s, state)
        /\ shared' = (state = "stuck" \/ OthersRun(op[s]))

\* A query without an exact match goes on with the fuzzy one.
Respond(s, some) ==
    IF ~some /\ op[s] = "exact"
    THEN /\ pc' = [pc EXCEPT ![s] = "lock"]
         /\ op' = [op EXCEPT ![s] = "fuzzy"]
         /\ UNCHANGED reply
    ELSE /\ pc' = [pc EXCEPT ![s] = NextLine(par[s])]
         /\ reply' = [reply EXCEPT ![s] = IF some THEN "data" ELSE "code"]
         /\ op' = [op EXCEPT ![s] = "exact"]

\* reset() and the end of the critical section.  A read takes one row and
\* asks for no more.  (The fault returns at the first matching disc.)
LeaveAtMatch(s) ==
    /\ pc[s] = "rows"
    /\ stmt[op[s]] = "done" \/ op[s] = "read" \/ found[s]
    /\ IF stmt[op[s]] = "row" /\ found[s]
       THEN UNCHANGED <<stmt, shared>>
       ELSE /\ stmt' = [stmt EXCEPT ![op[s]] = "ready"]
            /\ shared' = OthersRun(op[s])
    /\ mutex' = NoSession
    /\ found' = [found EXCEPT ![s] = FALSE]
    /\ Respond(s, found[s] \/ stmt[op[s]] = "row")
    /\ UNCHANGED <<par, writer>>

Leave(s) ==
    /\ pc[s] = "rows"
    /\ stmt[op[s]] = "done" \/ op[s] = "read"
    /\ stmt' = [stmt EXCEPT ![op[s]] = "ready"]
    /\ shared' = OthersRun(op[s])
    /\ mutex' = NoSession
    /\ found' = [found EXCEPT ![s] = FALSE]
    /\ Respond(s, found[s] \/ stmt[op[s]] = "row")
    /\ UNCHANGED <<par, writer>>

-----------------------------------------------------------------------------
(* The process that imports: SQLite's locks on the file.                   *)

Lock(from, to) ==
    /\ writer \in from
    /\ writer' = to
    /\ UNCHANGED <<sessionVars, mutex, stmt, shared>>

\* BEGIN and the first write.
StartWriting == Writers /\ Lock({"none"}, "reserved")

\* A full cache or the COMMIT: no new readers, then no readers at all.
WantExclusive == Lock({"reserved"}, "pending")
GetExclusive == ~shared /\ Lock({"pending"}, "exclusive")

\* The COMMIT, or the end of the process: a COMMIT that waits for more than
\* 100 ms is an exception.
StopWriting == Lock({"reserved", "pending", "exclusive"}, "none")

LookupStep(s) ==
    \/ FirstStep(s) \/ FirstStepBusy(s) \/ BindRefused(s)
    \/ NextStep(s) \/ StepFails(s) \/ Leave(s)

SessionStep(s) ==
    \/ Connect(s)
    \/ Disconnect(s)
    \/ \E line \in Lines :
        Command(s, line) \/ HttpGet(s, line) \/ BadGet(s, line) \/ SkipLine(s, line)
    \/ Enter(s)
    \/ LookupStep(s)

WriterStep == StartWriting \/ WantExclusive \/ GetExclusive \/ StopWriting

Next == (\E s \in Sessions : SessionStep(s)) \/ WriterStep

\* A thread that can go on does, and none waits for the mutex forever while
\* the others get it; a list of links ends.  Clients and importers may stop
\* at any time.
LastLink(s) == NextStep(s) /\ stmt'[op[s]] = "done"

Fairness ==
    \A s \in Sessions :
        /\ WF_vars(LookupStep(s))
        /\ WF_vars(LastLink(s))
        /\ SF_vars(Enter(s))

Spec == Init /\ [][Next]_vars /\ Fairness

-----------------------------------------------------------------------------
(* Properties.                                                             *)

TypeOK ==
    /\ pc \in [Sessions -> {"closed", "getline", "lock", "bind", "rows"}]
    /\ par \in [Sessions -> [handshake : BOOLEAN, terminate : BOOLEAN, is_http : BOOLEAN]]
    /\ reply \in [Sessions -> {"none", "code", "data"}]
    /\ op \in [Sessions -> Lookups]
    /\ found \in [Sessions -> BOOLEAN]
    /\ mutex \in Sessions \cup {NoSession}
    /\ stmt \in [Lookups -> {"ready", "row", "done", "failed"} \cup Running]
    /\ shared \in BOOLEAN
    /\ writer \in {"none", "reserved", "pending", "exclusive"}

\* Between bind and reset a shared statement belongs to one session, the
\* holder of the mutex, and whoever holds the mutex is in a lookup: no
\* session gets rows of another one's query.
OneLookupAtATime ==
    \A s \in Sessions : pc[s] \in {"bind", "rows"} <=> mutex = s

\* A server that nobody asks anything holds no lock on the database file, so
\* that another process can commit an import, unless a lookup failed at a row
\* or was refused by a lock of that process: then SQLite counts one reader
\* too many, and the next lookup of another kind keeps the lock.
IdleHoldsNoLock ==
    mutex = NoSession /\ shared => \E l \in Lookups : stmt[l] \in {"stuck", "refused"}

\* No client gets data before its hello, by whatever sequence of lines, GETs
\* and headers.
DataAfterHandshake ==
    \A s \in Sessions : reply[s] = "data" => par[s].handshake

\* Every query and read is answered, or its session is closed: a lookup that
\* fails does not keep the others out.
Served == \A s \in Sessions : pc[s] = "lock" ~> pc[s] \in {"getline", "closed"}

\* "Reset the statement to make it ready for a new execution"
\* (sqlitecpp/Statement.h:76): a lookup finds its statement ready.
ReadyForExecution ==
    \A s \in Sessions : pc[s] = "bind" => stmt[op[s]] = "ready"
=============================================================================
