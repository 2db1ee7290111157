------------------------------ MODULE Startup -------------------------------
(***************************************************************************)
(* How the program starts (src/main.cpp): it imports, updates and serves,  *)
(* each with objects of its own, on a database that may not exist yet, and *)
(* that other processes use at the same time.  SchemaInit creates the      *)
(* tables statement by statement, each committed on its own; the           *)
(* constructors prepare their statements; an exception destroys what has   *)
(* been constructed, in reverse order (src/sqlitecpp/).                    *)
(***************************************************************************)
EXTENDS Integers, Sequences, FiniteSets

CONSTANTS
    Processes,
    Schema,             \* what the CREATE statements create, in their order
    FirstTable,         \* "CD", which tells whether there is a schema
    FuzzyIndex,         \* the index that an initial import drops
    UpdaterNeeds,       \* the tables that the statements of the importer need
    ServerNeeds         \* and those of the server, in their order

Parts == { Schema[i] : i \in DOMAIN Schema }
Together(needs) == UNION { needs[i] : i \in DOMAIN needs }
Tables == Together(UpdaterNeeds)

ASSUME SchemaAssumption ==
    /\ Schema \in Seq(Parts)
    /\ \A i, j \in DOMAIN Schema : Schema[i] = Schema[j] => i = j
    /\ Schema # <<>> /\ Schema[1] = FirstTable

ASSUME NeedsAssumption ==
    /\ UpdaterNeeds \in Seq(SUBSET Parts)
    /\ ServerNeeds \in Seq(SUBSET Parts)

\* The options -i and -u, and the server, which every process ends in.
Tasks == {"initial", "update", "serve"}
Plans == { <<"serve">>, <<"initial", "serve">>, <<"update", "serve">>,
           <<"initial", "update", "serve">> }

VARIABLES
    exists,     \* the database file
    schema,     \* what it has, after the last commit
    pc,         \* of each process: what it does
    tasks,      \* what it is going to do
    made,       \* CREATE statements it has executed
    objects,    \* what it has constructed: "database" and its statements
    importer,   \* the process whose transaction is open: none or one
    broken      \* a process has failed between two CREATE statements

startupVars == <<exists, schema, pc, tasks, made, objects, importer, broken>>

Database == "database"
Statement == "statement"

StartupInit ==
    /\ exists = FALSE
    /\ schema = {}
    /\ pc = [p \in Processes |-> "ended"]
    /\ tasks = [p \in Processes |-> <<>>]
    /\ made = [p \in Processes |-> 0]
    /\ objects = [p \in Processes |-> <<>>]
    /\ importer = {}
    /\ broken = FALSE

Go(p, from, to) ==
    /\ pc[p] = from
    /\ pc' = [pc EXCEPT ![p] = to]

\* An exception of SQLite's: what was constructed is destroyed.
CheckFails(p, from) == Go(p, from, "throwing")

ConstructObject(p, object) == objects' = [objects EXCEPT ![p] = Append(@, object)]

-----------------------------------------------------------------------------
(* main().                                                                 *)

Start(p) ==
    /\ Go(p, "ended", "locale")
    /\ \E plan \in Plans : tasks' = [tasks EXCEPT ![p] = plan]
    /\ UNCHANGED <<exists, schema, made, objects, importer, broken>>

\* Nobody catches the exception of a system that does not have the locale.
SetUnicodeLocale(p) ==
    /\ \/ Go(p, "locale", "next") /\ UNCHANGED tasks
       \/ Go(p, "locale", "ended") /\ tasks' = [tasks EXCEPT ![p] = <<>>]
    /\ UNCHANGED <<exists, schema, made, objects, importer, broken>>

\* SchemaInit creates a file if there is none; the server does not.
NextTask(p) ==
    /\ pc[p] = "next" /\ tasks[p] # <<>>
    /\ IF Head(tasks[p]) = "serve"
       THEN /\ Go(p, "next", IF exists THEN "preparing" ELSE "throwing")
            /\ IF exists THEN ConstructObject(p, Database) ELSE UNCHANGED objects
            /\ UNCHANGED exists
       ELSE /\ Go(p, "next", "schema")
            /\ ConstructObject(p, Database)
            /\ exists' = TRUE
    /\ UNCHANGED <<schema, tasks, made, importer, broken>>

Exit(p) ==
    /\ Go(p, "next", "ended")
    /\ tasks[p] = <<>>
    /\ UNCHANGED <<exists, schema, tasks, made, objects, importer, broken>>

-----------------------------------------------------------------------------
(* SchemaInit.                                                             *)

\* A transaction that is open lets nobody else write, and nobody read once its
\* pages have left its cache, for longer than the busy timeout.
CanWrite == importer = {}
Locked == importer # {}

\* tableExists("CD").
TableExists(p) ==
    /\ Go(p, "schema", IF FirstTable \in schema THEN "closing" ELSE "creating")
    /\ UNCHANGED <<exists, schema, tasks, made, objects, importer, broken>>

TableExistsFails(p) ==
    /\ CheckFails(p, "schema")
    /\ Locked
    /\ UNCHANGED <<exists, schema, tasks, made, objects, importer, broken>>

Creates(p) == Schema[made[p] + 1]
CreatesAll(p) == made[p] = Len(Schema)

Create(p) ==
    /\ pc[p] = "creating" /\ ~CreatesAll(p)
    /\ CanWrite /\ Creates(p) \notin schema
    /\ schema' = schema \cup {Creates(p)}
    /\ made' = [made EXCEPT ![p] = @ + 1]
    /\ UNCHANGED <<exists, pc, tasks, objects, importer, broken>>

\* (The fault tries again until it succeeds.)
CreateRetries(p) ==
    /\ pc[p] = "creating" /\ ~CreatesAll(p)
    /\ Creates(p) \in schema \/ ~CanWrite
    /\ UNCHANGED startupVars

\* There is one already: another process was faster.  Or the file is locked.
CreateFails(p) ==
    /\ CheckFails(p, "creating")
    /\ ~CreatesAll(p)
    /\ Creates(p) \in schema \/ ~CanWrite
    /\ made' = [made EXCEPT ![p] = 0]
    /\ UNCHANGED <<exists, schema, tasks, objects, importer, broken>>

Created(p) ==
    /\ Go(p, "creating", "closing")
    /\ CreatesAll(p)
    /\ made' = [made EXCEPT ![p] = 0]
    /\ UNCHANGED <<exists, schema, tasks, objects, importer, broken>>

\* The connection of SchemaInit ends, and that of the importer begins.
Reopen(p) ==
    /\ Go(p, "closing", "preparing")
    /\ objects' = [objects EXCEPT ![p] = <<Database>>]
    /\ UNCHANGED <<exists, schema, tasks, made, importer, broken>>

-----------------------------------------------------------------------------
(* CDDBSQLUpdater and CDDBSQLServer.                                       *)

PreparedBy(p) == Len(objects[p]) - 1

\* (The fault does not prepare the last one.)
NeedsButLast(p) ==
    IF Head(tasks[p]) = "serve" THEN ServerNeeds
    ELSE SubSeq(UpdaterNeeds, 1, Len(UpdaterNeeds) - 1)
Needs(p) == IF Head(tasks[p]) = "serve" THEN ServerNeeds ELSE UpdaterNeeds

Prepare(p) ==
    /\ pc[p] = "preparing" /\ PreparedBy(p) < Len(Needs(p))
    /\ Needs(p)[PreparedBy(p) + 1] \subseteq schema
    /\ ConstructObject(p, Statement)
    /\ UNCHANGED <<exists, schema, pc, tasks, made, importer, broken>>

PrepareFails(p) ==
    /\ Go(p, "preparing", "throwing")
    /\ PreparedBy(p) < Len(Needs(p))
    /\ Locked \/ ~(Needs(p)[PreparedBy(p) + 1] \subseteq schema)
    /\ UNCHANGED <<exists, schema, tasks, made, objects, importer, broken>>

\* import(): BEGIN, and the first statement of the transaction: in an initial
\* import, DROP INDEX, which another transaction sees only after the COMMIT.
BeginImport(p) ==
    /\ Go(p, "preparing", "importing")
    /\ PreparedBy(p) = Len(Needs(p))
    /\ Head(tasks[p]) # "serve"
    /\ CanWrite
    /\ Head(tasks[p]) = "initial" => FuzzyIndex \in schema
    /\ importer' = {p}
    /\ UNCHANGED <<exists, schema, tasks, made, objects, broken>>

\* There is no such archive, the file is locked, or the index is not there.
ImportFails(p) ==
    /\ Go(p, "preparing", "throwing")
    /\ PreparedBy(p) = Len(Needs(p))
    /\ Head(tasks[p]) # "serve"
    /\ UNCHANGED <<exists, schema, tasks, made, objects, importer, broken>>

\* COMMIT, with the index.
EndImport(p) ==
    /\ Go(p, "importing", "destroying")
    /\ importer' = {}
    /\ UNCHANGED <<exists, schema, tasks, made, objects, broken>>

\* An exception leaves the transaction to the end of the connection.
ImportThrows(p) ==
    /\ CheckFails(p, "importing")
    /\ UNCHANGED <<exists, schema, tasks, made, objects, importer, broken>>

Serve(p) ==
    /\ Go(p, "preparing", "serving")
    /\ PreparedBy(p) = Len(Needs(p))
    /\ Head(tasks[p]) = "serve"
    /\ UNCHANGED <<exists, schema, tasks, made, objects, importer, broken>>

\* The server is stopped, or its port is taken.
ServeEnds(p) ==
    /\ \/ Go(p, "serving", "destroying")
       \/ Go(p, "serving", "throwing")
    /\ UNCHANGED <<exists, schema, tasks, made, objects, importer, broken>>

-----------------------------------------------------------------------------
(* The end of an object, of an exception, of a process.                    *)

Destroying(p) == pc[p] \in {"destroying", "throwing"}

\* The last object that was constructed; the connection is the last of them,
\* and rolls its transaction back.
DestroyObject(p) ==
    /\ Destroying(p) /\ objects[p] # <<>>
    /\ objects' = [objects EXCEPT ![p] = SubSeq(@, 1, Len(@) - 1)]
    /\ importer' = IF Len(objects[p]) = 1 THEN importer \ {p} ELSE importer
    /\ UNCHANGED <<exists, schema, pc, tasks, made, broken>>

Destroyed(p) ==
    /\ objects[p] = <<>>
    /\ IF pc[p] = "destroying"
       THEN /\ Go(p, "destroying", "next")
            /\ tasks' = [tasks EXCEPT ![p] = Tail(@)]
       ELSE /\ Go(p, "throwing", "ended")
            /\ tasks' = [tasks EXCEPT ![p] = <<>>]
    /\ UNCHANGED <<exists, schema, made, objects, importer, broken>>

\* The process is killed, or the system ends.  Between two CREATE statements,
\* that is also what an error of the disk does.
Kill(p) ==
    /\ pc[p] # "ended"
    /\ pc' = [pc EXCEPT ![p] = "ended"]
    /\ tasks' = [tasks EXCEPT ![p] = <<>>]
    /\ made' = [made EXCEPT ![p] = 0]
    /\ objects' = [objects EXCEPT ![p] = <<>>]
    /\ importer' = importer \ {p}
    /\ broken' = (broken \/ (pc[p] = "creating" /\ made[p] \in 1..(Len(Schema) - 1)))
    /\ UNCHANGED <<exists, schema>>

ProcessStep(p) ==
    \/ SetUnicodeLocale(p) \/ NextTask(p) \/ Exit(p) \/ TableExists(p) \/ TableExistsFails(p)
    \/ Create(p) \/ CreateFails(p) \/ Created(p) \/ Reopen(p)
    \/ Prepare(p) \/ PrepareFails(p) \/ Serve(p)
    \/ BeginImport(p) \/ ImportFails(p) \/ EndImport(p) \/ ImportThrows(p)
    \/ DestroyObject(p) \/ Destroyed(p)

StartupNext == \E p \in Processes : Start(p) \/ ProcessStep(p) \/ ServeEnds(p) \/ Kill(p)

\* A process that runs goes on; it need not be started, and may be killed.
StartupSpec ==
    /\ StartupInit /\ [][StartupNext]_startupVars
    /\ \A p \in Processes : WF_startupVars(ProcessStep(p))

-----------------------------------------------------------------------------
(* Properties.                                                             *)

States == {"ended", "locale", "next", "schema", "creating", "closing", "preparing",
           "importing", "serving", "destroying", "throwing"}

StartupTypeOK ==
    /\ exists \in BOOLEAN
    /\ schema \subseteq Parts
    /\ pc \in [Processes -> States]
    /\ tasks \in [Processes -> Seq(Tasks)]
    /\ made \in [Processes -> 0..Len(Schema)]
    /\ objects \in [Processes -> Seq({Database, Statement})]
    /\ \A p \in Processes : objects[p] # <<>> => objects[p][1] = Database
    /\ importer \subseteq Processes /\ Cardinality(importer) <= 1
    /\ broken \in BOOLEAN

\* A process that imports or serves has found every table that it works with,
\* although SchemaInit looked for one of them only, another process may have
\* been creating them, and a third one may have died of it
\* (cddbupdater.cpp:47).
WorkersHaveTables ==
    \A p \in Processes :
        /\ pc[p] = "importing" => Tables \subseteq schema
        /\ pc[p] = "serving" => Together(ServerNeeds) \subseteq schema

\* When some of the tables are there and others are not, then a process is at
\* it, or one was killed at it: no two starts at the same time leave it so.
\* (Indexes can be missing without any kill: an update that begins as soon as
\* the tables are there locks the one that is about to create the indexes.)
HalfMadeNeedsKill ==
    schema \cap Tables \notin {{}, Tables} =>
        \/ broken
        \/ \E p \in Processes : pc[p] = "creating" /\ made[p] > 0

\* Whatever starts at the same time, nobody works on half a database.
TablesComplete == StartupTypeOK /\ WorkersHaveTables /\ HalfMadeNeedsKill

\* A start comes to its end, one way or the other: it serves, or it has given
\* up; nobody waits for another process.
StartEnds ==
    \A p \in Processes : pc[p] = "locale" ~> pc[p] \in {"serving", "ended"}
=============================================================================
