--------------------------- MODULE SQLiteStatement --------------------------
(***************************************************************************)
(* The wrapper of prepared statements (src/sqlitecpp/): objects of the     *)
(* class Statement, the Columns that they return for a row, and the        *)
(* sqlite3_stmt that they share by a counted pointer, on one connection.   *)
(* The client may call anything in any order, destroy any object while     *)
(* others live, and catches every exception.                               *)
(***************************************************************************)
EXTENDS Integers, FiniteSets

CONSTANTS
    Statements, Columns,    \* objects
    Prepared,               \* sqlite3_stmt (bound: as many at the same time)
    NoPtr,
    MaxRows                 \* bound of the model: rows that a query returns

ASSUME ObjectsAssumption ==
    /\ Statements \cap Columns = {}
    /\ IsFiniteSet(Statements) /\ IsFiniteSet(Columns)
    /\ NoPtr \notin Prepared
    /\ MaxRows \in Nat \ {0}

Objects == Statements \cup Columns

VARIABLES
    ptr,        \* mStmtPtr of each object, or NoPtr for one that is not
                \* constructed
    refs,       \* *mpRefCount of each sqlite3_stmt
    engine,     \* what SQLite is at: "free" before it is prepared and after
                \* it is finalized, "ready", "row", "done", "failed"
    row,        \* the row that it is at
    ok, done,   \* mbOk and mbDone of each Statement
    runs,       \* executions that were begun since the last reset: 0, 1 or
                \* more than one
    excused,    \* since then a step failed, or the bindings were cleared
    connection, \* "open", "closed"; "leaked" after ~Database has failed
    result      \* of the last call: "fine", "threw", "null", or "garbage" of a
                \* statement that is gone

vars == <<ptr, refs, engine, row, ok, done, runs, excused, connection, result>>
stmtVars == <<refs, engine, row, runs, excused>>

Init ==
    /\ ptr = [o \in Objects |-> NoPtr]
    /\ refs = [p \in Prepared |-> 0]
    /\ engine = [p \in Prepared |-> "free"]
    /\ row = [p \in Prepared |-> 0]
    /\ ok = [s \in Statements |-> FALSE]
    /\ done = [s \in Statements |-> FALSE]
    /\ runs = [p \in Prepared |-> 0]
    /\ excused = [p \in Prepared |-> FALSE]
    /\ connection = "open"
    /\ result = "fine"

Lives(o) == ptr[o] # NoPtr

Thrown(fails) == IF fails THEN "threw" ELSE "fine"

\* What a Statement believes of its execution.
View(s, isOk, isDone) ==
    /\ ok' = [ok EXCEPT ![s] = isOk]
    /\ done' = [done EXCEPT ![s] = isDone]

-----------------------------------------------------------------------------
(* The counted pointer.                                                    *)

\* A call that throws an exception and changes nothing.
Throws ==
    /\ result' = "threw"
    /\ UNCHANGED <<ptr, stmtVars, ok, done, connection>>

\* The constructor prepares the query; an exception constructs nothing.
Construct(s, p) ==
    /\ connection = "open"
    /\ ~Lives(s) /\ engine[p] = "free"
    /\ ptr' = [ptr EXCEPT ![s] = p]
    /\ refs' = [refs EXCEPT ![p] = 1]
    /\ engine' = [engine EXCEPT ![p] = "ready"]
    /\ View(s, FALSE, FALSE)
    /\ runs' = [runs EXCEPT ![p] = 0]
    /\ excused' = [excused EXCEPT ![p] = FALSE]
    /\ result' = "fine"
    /\ UNCHANGED <<row, connection>>

ConstructFails(s) == connection = "open" /\ ~Lives(s) /\ Throws

\* (A fault: the copy is not counted.)
ShareUncounted(c, p) ==
    /\ ptr' = [ptr EXCEPT ![c] = p]
    /\ UNCHANGED refs

\* A new Column has a copy of the pointer.
Share(c, p) ==
    /\ ptr' = [ptr EXCEPT ![c] = p]
    /\ refs' = [refs EXCEPT ![p] = @ + 1]

\* The last object finalizes the statement, and only then.
Destroy(o) ==
    /\ Lives(o)
    /\ LET p == ptr[o]
       IN  /\ refs' = [refs EXCEPT ![p] = @ - 1]
           /\ engine' = IF refs[p] = 1 THEN [engine EXCEPT ![p] = "free"] ELSE engine
    /\ ptr' = [ptr EXCEPT ![o] = NoPtr]
    /\ IF o \in Statements THEN View(o, FALSE, FALSE) ELSE UNCHANGED <<ok, done>>
    /\ result' = "fine"
    /\ UNCHANGED <<row, runs, excused, connection>>

\* getColumn(), by number or by name: checkRow() and checkIndex().
GetColumn(s, c) ==
    /\ Lives(s) /\ ok[s]
    /\ ~Lives(c)
    /\ Share(c, ptr[s])
    /\ result' = "fine"
    /\ UNCHANGED <<engine, row, ok, done, runs, excused, connection>>

GetColumnFails(s) == Lives(s) /\ Throws

\* execAndGet(): a Statement for one step, of which the Column remains.  With
\* no row, or an error, nothing remains.
ExecAndGet(c, p) ==
    /\ connection = "open"
    /\ ~Lives(c) /\ engine[p] = "free"
    /\ ptr' = [ptr EXCEPT ![c] = p]
    /\ refs' = [refs EXCEPT ![p] = 1]
    /\ engine' = [engine EXCEPT ![p] = "row"]
    /\ row' = [row EXCEPT ![p] = 1]
    /\ runs' = [runs EXCEPT ![p] = 1]
    /\ excused' = [excused EXCEPT ![p] = FALSE]
    /\ result' = "fine"
    /\ UNCHANGED <<ok, done, connection>>

ExecAndGetFails(c) == connection = "open" /\ ~Lives(c) /\ Throws

CopyColumn(c, d) ==
    /\ Lives(c) /\ ~Lives(d)
    /\ Share(d, ptr[c])
    /\ result' = "fine"
    /\ UNCHANGED <<engine, row, ok, done, runs, excused, connection>>

\* ~Database: SQLite refuses to close a connection with statements.
Close ==
    /\ connection = "open"
    /\ connection' = IF \A p \in Prepared : engine[p] = "free"
                     THEN "closed" ELSE "leaked"
    /\ result' = "fine"
    /\ UNCHANGED <<ptr, stmtVars, ok, done>>

-----------------------------------------------------------------------------
(* Execution.                                                              *)

\* sqlite3_step(): a statement that has ended or failed is executed again, as
\* if it was reset.
Step(p, outcome) ==
    /\ outcome = "row" => engine[p] # "row" \/ row[p] < MaxRows
    /\ engine' = [engine EXCEPT ![p] = outcome]
    /\ row' = [row EXCEPT ![p] =
            IF outcome # "row" THEN 0 ELSE IF engine[p] = "row" THEN @ + 1 ELSE 1]
    /\ runs' = [runs EXCEPT ![p] =
            IF engine[p] = "row" \/ @ = 2 THEN @ ELSE @ + 1]
    /\ excused' = [excused EXCEPT ![p] = @ \/ outcome = "failed"]

\* (A fault: a statement that is done is stepped again.)
ExecuteStepAgain(s) ==
    /\ Lives(s)
    /\ \E outcome \in {"row", "done", "failed"} :
        /\ Step(ptr[s], outcome)
        /\ View(s, outcome = "row", outcome = "done")
        /\ result' = Thrown(outcome = "failed")
    /\ UNCHANGED <<ptr, refs, connection>>

\* executeStep() on a statement that is not done; it throws when the step
\* fails.
ExecuteStep(s) ==
    /\ Lives(s) /\ ~done[s]
    /\ \E outcome \in {"row", "done", "failed"} :
        /\ Step(ptr[s], outcome)
        /\ View(s, outcome = "row", outcome = "done")
        /\ result' = Thrown(outcome = "failed")
    /\ UNCHANGED <<ptr, refs, connection>>

\* exec(): a row is an error.
Exec(s) ==
    /\ Lives(s) /\ ~done[s]
    /\ \E outcome \in {"row", "done", "failed"} :
        /\ Step(ptr[s], outcome)
        /\ View(s, FALSE, outcome = "done")
        /\ result' = Thrown(outcome # "done")
    /\ UNCHANGED <<ptr, refs, connection>>

\* Both throw when the last row has been there.
NeedsReset(s) == Lives(s) /\ done[s] /\ Throws

\* reset(): SQLite returns the error of the last step once more, and reset()
\* throws it, although all is reset.
Reset(s) ==
    /\ Lives(s)
    /\ View(s, FALSE, FALSE)
    /\ engine' = [engine EXCEPT ![ptr[s]] = "ready"]
    /\ row' = [row EXCEPT ![ptr[s]] = 0]
    /\ runs' = [runs EXCEPT ![ptr[s]] = 0]
    /\ excused' = [excused EXCEPT ![ptr[s]] = FALSE]
    /\ result' = Thrown(engine[ptr[s]] = "failed")
    /\ UNCHANGED <<ptr, refs, connection>>

\* clearBindings() forgets what it knows of the execution, and SQLite does not.
ClearBindings(s) ==
    /\ Lives(s)
    /\ View(s, FALSE, FALSE)
    /\ excused' = [excused EXCEPT ![ptr[s]] = TRUE]
    /\ result' = "fine"
    /\ UNCHANGED <<ptr, refs, engine, row, runs, connection>>

\* bind(), of any type, by number or by name: SQLite refuses it on a statement
\* that is not ready.
Bind(s) ==
    /\ Lives(s)
    /\ result' = Thrown(engine[ptr[s]] # "ready")
    /\ UNCHANGED <<ptr, stmtVars, ok, done, connection>>

-----------------------------------------------------------------------------
(* Reading.                                                                *)

\* A Column has no value of its own: it reads that of the row where its
\* statement is by now, and null where it is at none.
Value(p) ==
    CASE engine[p] = "row"  -> "fine"
      [] engine[p] = "free" -> "garbage"
      [] OTHER              -> "null"

ReadColumn(c) ==
    /\ Lives(c)
    /\ result' = Value(ptr[c])
    /\ UNCHANGED <<ptr, stmtVars, ok, done, connection>>

\* isColumnNull(), with checkRow(); the value itself may be null.
IsColumnNull(s) ==
    /\ Lives(s) /\ ok[s]
    /\ result' \in {Value(ptr[s]), "null"}
    /\ UNCHANGED <<ptr, stmtVars, ok, done, connection>>

\* The name of a column needs no row.
Name(p) == IF engine[p] = "free" THEN "garbage" ELSE "fine"

ReadName(c) ==
    /\ Lives(c)
    /\ result' = Name(ptr[c])
    /\ UNCHANGED <<ptr, stmtVars, ok, done, connection>>

GetColumnName(s) ==
    /\ Lives(s)
    /\ result' \in {Name(ptr[s]), Thrown(TRUE)}
    /\ UNCHANGED <<ptr, stmtVars, ok, done, connection>>

Next ==
    \/ \E s \in Statements :
        \/ \E p \in Prepared : Construct(s, p)
        \/ ConstructFails(s)
        \/ \E c \in Columns : GetColumn(s, c)
        \/ GetColumnFails(s)
        \/ ExecuteStep(s) \/ Exec(s) \/ NeedsReset(s)
        \/ Reset(s) \/ ClearBindings(s) \/ Bind(s)
        \/ IsColumnNull(s) \/ GetColumnName(s)
    \/ \E c \in Columns :
        \/ \E p \in Prepared : ExecAndGet(c, p)
        \/ ExecAndGetFails(c)
        \/ \E d \in Columns : CopyColumn(c, d)
        \/ ReadColumn(c) \/ ReadName(c)
    \/ \E o \in Objects : Destroy(o)
    \/ Close

Spec == Init /\ [][Next]_vars

-----------------------------------------------------------------------------
(* Properties.                                                             *)

TypeOK ==
    /\ ptr \in [Objects -> Prepared \cup {NoPtr}]
    /\ refs \in [Prepared -> Nat]
    /\ engine \in [Prepared -> {"free", "ready", "row", "done", "failed"}]
    /\ row \in [Prepared -> 0..MaxRows]
    /\ ok \in [Statements -> BOOLEAN]
    /\ done \in [Statements -> BOOLEAN]
    /\ runs \in [Prepared -> 0..2]
    /\ excused \in [Prepared -> BOOLEAN]
    /\ connection \in {"open", "closed", "leaked"}
    /\ result \in {"fine", "threw", "null", "garbage"}

Sharing(p) == {o \in Objects : ptr[o] = p}

\* Whatever object is destroyed first, a sqlite3_stmt is finalized exactly when
\* the last of its objects is: no Column reads from one that is gone
\* (sqlitecpp/Statement.cpp:355), and none is left when all objects are.
HandlesCounted ==
    \A p \in Prepared :
        /\ refs[p] = Cardinality(Sharing(p))
        /\ engine[p] = "free" <=> Sharing(p) = {}
        /\ result # "garbage"

\* A Column is made at a row only, and the end of the rows is the end.
RowToRead ==
    \A s \in Statements : Lives(s) =>
        /\ ok[s] => engine[ptr[s]] = "row"
        /\ done[s] => engine[ptr[s]] = "done"

\* Without a reset a statement is executed once, however often it is stepped,
\* although SQLite would begin again: an INSERT does not insert twice, a loop
\* over rows comes to its end (sqlitecpp/Statement.cpp:203).  After a failure,
\* and after clearBindings(), it does begin again.
ExecutedOnce == \A p \in Prepared : runs[p] > 1 => excused[p]

\* What the object believes of the execution is true of it.
ExecutionKnown == RowToRead /\ ExecutedOnce
=============================================================================
