------------------------ MODULE SQLiteStatement_proofs ----------------------
(***************************************************************************)
(* SQLiteStatement for any number of objects and prepared statements: who  *)
(* is the last to hold a sqlite3_stmt finalizes it, and what a Statement   *)
(* believes of its execution is so.                                        *)
(*                                                                         *)
(* And Startup, which constructs and destroys such objects, for any number *)
(* of processes, any schema and any statements: who works has all its      *)
(* tables, and the tables are left half made only by who was killed.       *)
(***************************************************************************)
EXTENDS SQLiteStatement, Startup, FiniteSetTheorems, TLAPS

(***************************************************************************)
(* The invariant.  The counted pointer is right as it stands.  The view of *)
(* a Statement needs that no second Statement steps the same sqlite3_stmt, *)
(* and that SQLite is at the end of the rows unnoticed only after          *)
(* clearBindings().                                                        *)
(***************************************************************************)
Counted(p) ==
    /\ refs[p] = Cardinality(Sharing(p))
    /\ engine[p] = "free" <=> Sharing(p) = {}

Alone == \A s, t \in Statements : Lives(s) /\ ptr[s] = ptr[t] => s = t

Begun(p) ==
    /\ engine[p] = "ready" => runs[p] = 0
    /\ engine[p] = "failed" => excused[p]

Informed(s) ==
    Lives(s) =>
        /\ ok[s] => engine[ptr[s]] = "row"
        /\ done[s] => engine[ptr[s]] = "done"
        /\ engine[ptr[s]] = "done" /\ ~excused[ptr[s]] => done[s]

Once(p) == runs[p] > 1 => excused[p]

IInv ==
    /\ TypeOK
    /\ \A p \in Prepared : Counted(p)
    /\ Alone
    /\ \A p \in Prepared : Begun(p) /\ Once(p)
    /\ \A s \in Statements : Informed(s)
    /\ result # "garbage"

-----------------------------------------------------------------------------
(* The counted pointer.                                                    *)

\* The objects that share a sqlite3_stmt can be counted.
LEMMA SharingIsFinite ==
    ASSUME NEW p \in Prepared
    PROVE  IsFiniteSet(Sharing(p)) /\ Cardinality(Sharing(p)) \in Nat
<1>1. IsFiniteSet(Objects)
  BY ObjectsAssumption, FS_Union DEF Objects
<1>2. Sharing(p) \subseteq Objects
  BY DEF Sharing
<1> QED
  BY <1>1, <1>2, FS_Subset, FS_CardinalityType

\* A new object is one more that shares its sqlite3_stmt.
LEMMA Acquired ==
    ASSUME TypeOK, NEW o \in Objects, NEW p \in Prepared, ~Lives(o),
           ptr' = [ptr EXCEPT ![o] = p]
    PROVE  /\ ptr' \in [Objects -> Prepared \cup {NoPtr}]
           /\ Cardinality(Sharing(p)') = Cardinality(Sharing(p)) + 1
           /\ Sharing(p)' # {}
           /\ \A q \in Prepared \ {p} : Sharing(q)' = Sharing(q)
<1>1. ptr' \in [Objects -> Prepared \cup {NoPtr}]
  BY DEF TypeOK
<1>2. Sharing(p)' = Sharing(p) \cup {o} /\ o \notin Sharing(p)
  BY ObjectsAssumption DEF Sharing, Lives, TypeOK
<1>3. Cardinality(Sharing(p)') = Cardinality(Sharing(p)) + 1
  BY <1>2, SharingIsFinite, FS_AddElement
<1>4. \A q \in Prepared \ {p} : Sharing(q)' = Sharing(q)
  BY ObjectsAssumption DEF Sharing, Lives, TypeOK
<1> QED
  BY <1>1, <1>2, <1>3, <1>4

\* An object that is destroyed is one less.
LEMMA Released ==
    ASSUME TypeOK, NEW o \in Objects, NEW p \in Prepared, ptr[o] = p,
           ptr' = [ptr EXCEPT ![o] = NoPtr]
    PROVE  /\ ptr' \in [Objects -> Prepared \cup {NoPtr}]
           /\ Cardinality(Sharing(p)') = Cardinality(Sharing(p)) - 1
           /\ Sharing(p)' = {} <=> Cardinality(Sharing(p)) = 1
           /\ Sharing(p) # {} /\ Cardinality(Sharing(p)) # 0
           /\ \A q \in Prepared \ {p} : Sharing(q)' = Sharing(q)
<1>1. ptr' \in [Objects -> Prepared \cup {NoPtr}]
  BY DEF TypeOK
<1>2. Sharing(p)' = Sharing(p) \ {o} /\ o \in Sharing(p)
  BY ObjectsAssumption DEF Sharing, TypeOK
<1>3. Cardinality(Sharing(p)') = Cardinality(Sharing(p)) - 1
  BY <1>2, SharingIsFinite, FS_RemoveElement
<1>4. \A q \in Prepared \ {p} : Sharing(q)' = Sharing(q)
  BY ObjectsAssumption DEF Sharing, TypeOK
<1>5. IsFiniteSet(Sharing(p)') /\ IsFiniteSet(Sharing(p))
  BY <1>2, SharingIsFinite, FS_RemoveElement
<1>6. Sharing(p)' = {} <=> Cardinality(Sharing(p)') = 0
  BY <1>5, FS_EmptySet
<1>7. Sharing(p) # {} => Cardinality(Sharing(p)) # 0
  BY <1>5, FS_EmptySet
<1>8. Cardinality(Sharing(p)) \in Nat
  BY SharingIsFinite
<1> QED
  BY <1>1, <1>2, <1>3, <1>4, <1>6, <1>7, <1>8

-----------------------------------------------------------------------------
(* The steps, by what they change.                                         *)

\* A call that changes neither objects nor statements.
LEMMA QuietKeepsIInv ==
    ASSUME IInv, UNCHANGED <<ptr, stmtVars, ok, done>>,
           result' \in {"fine", "threw", "null"},
           connection' \in {"open", "closed", "leaked"}
    PROVE  IInv'
<1>1. \A p \in Prepared : Sharing(p)' = Sharing(p)
  BY DEF Sharing
<1> QED
  BY <1>1 DEF IInv, TypeOK, Counted, Alone, Begun, Once, Informed, Lives, stmtVars

\* A Statement is constructed on a sqlite3_stmt of its own.
LEMMA ConstructKeepsIInv ==
    ASSUME IInv, NEW s \in Statements, NEW p \in Prepared, Construct(s, p)
    PROVE  IInv'
<1>1. /\ TypeOK /\ Sharing(p) = {} /\ s \in Objects /\ ~Lives(s)
      /\ ptr' = [ptr EXCEPT ![s] = p]
      /\ refs' = [refs EXCEPT ![p] = 1]
      /\ engine' = [engine EXCEPT ![p] = "ready"]
      /\ ok' = [ok EXCEPT ![s] = FALSE] /\ done' = [done EXCEPT ![s] = FALSE]
      /\ runs' = [runs EXCEPT ![p] = 0] /\ excused' = [excused EXCEPT ![p] = FALSE]
      /\ result' = "fine" /\ row' = row /\ connection' = connection
  BY DEF IInv, Construct, View, Counted, Objects
<1>2. /\ ptr' \in [Objects -> Prepared \cup {NoPtr}]
      /\ Cardinality(Sharing(p)') = Cardinality(Sharing(p)) + 1
      /\ Sharing(p)' # {}
      /\ \A q \in Prepared \ {p} : Sharing(q)' = Sharing(q)
  BY <1>1, Acquired
<1>3. Cardinality(Sharing(p)) = 0
  BY <1>1, FS_EmptySet
<1>4. TypeOK'
  BY <1>1, <1>2 DEF TypeOK
<1>5. \A q \in Prepared : Counted(q)'
  BY <1>1, <1>2, <1>3 DEF TypeOK, Counted, IInv
<1>6. \A t \in Statements \ {s} : ptr[t] # p /\ ptr'[t] = ptr[t]
  BY <1>1 DEF Sharing, TypeOK, Objects
<1>7. ptr'[s] = p
  BY <1>1 DEF TypeOK, Objects
<1>8. Alone'
  BY <1>6, <1>7 DEF IInv, Alone, Lives
<1>9. \A q \in Prepared : Begun(q)' /\ Once(q)'
  BY <1>1 DEF IInv, TypeOK, Begun, Once
<1>10. \A t \in Statements : Informed(t)'
  <2>1. ASSUME NEW t \in Statements, t # s PROVE Informed(t)'
    <3>1. ok'[t] = ok[t] /\ done'[t] = done[t]
      BY <1>1, <2>1 DEF TypeOK
    <3>2. Lives(t) => engine'[ptr[t]] = engine[ptr[t]] /\ excused'[ptr[t]] = excused[ptr[t]]
      BY <1>1, <1>6, <2>1 DEF TypeOK, Lives, Objects
    <3>3. Informed(t)
      BY DEF IInv
    <3> QED
      BY <1>6, <2>1, <3>1, <3>2, <3>3 DEF Informed, Lives
  <2>2. Informed(s)'
    BY <1>1, <1>7 DEF Informed, TypeOK
  <2> QED
    BY <2>1, <2>2
<1> QED
  BY <1>1, <1>4, <1>5, <1>8, <1>9, <1>10 DEF IInv

\* A Column shares a sqlite3_stmt that is there.
LEMMA ShareKeepsIInv ==
    ASSUME IInv, NEW c \in Columns, NEW p \in Prepared, ~Lives(c),
           engine[p] # "free", Share(c, p), result' = "fine",
           UNCHANGED <<engine, row, ok, done, runs, excused, connection>>
    PROVE  IInv'
<1>1. /\ TypeOK /\ c \in Objects
      /\ ptr' = [ptr EXCEPT ![c] = p] /\ refs' = [refs EXCEPT ![p] = @ + 1]
  BY DEF IInv, Share, Objects
<1>2. /\ ptr' \in [Objects -> Prepared \cup {NoPtr}]
      /\ Cardinality(Sharing(p)') = Cardinality(Sharing(p)) + 1
      /\ Sharing(p)' # {}
      /\ \A q \in Prepared \ {p} : Sharing(q)' = Sharing(q)
  BY <1>1, Acquired
<1>3. TypeOK'
  BY <1>1, <1>2 DEF TypeOK
<1>4. \A q \in Prepared : Counted(q)'
  BY <1>1, <1>2 DEF TypeOK, Counted, IInv
<1>5. \A t \in Statements : ptr'[t] = ptr[t]
  BY <1>1, ObjectsAssumption DEF TypeOK, Objects
<1>6. Alone' /\ \A t \in Statements : Informed(t)'
  BY <1>5 DEF IInv, Alone, Informed, Lives
<1>7. \A q \in Prepared : Begun(q)' /\ Once(q)'
  BY DEF IInv, Begun, Once
<1> QED
  BY <1>3, <1>4, <1>6, <1>7 DEF IInv

\* What remains of execAndGet() is a Column.
LEMMA ExecAndGetKeepsIInv ==
    ASSUME IInv, NEW c \in Columns, NEW p \in Prepared, ExecAndGet(c, p)
    PROVE  IInv'
<1>1. /\ TypeOK /\ Sharing(p) = {} /\ c \in Objects /\ ~Lives(c)
      /\ ptr' = [ptr EXCEPT ![c] = p]
      /\ refs' = [refs EXCEPT ![p] = 1]
      /\ engine' = [engine EXCEPT ![p] = "row"]
      /\ row' = [row EXCEPT ![p] = 1]
      /\ runs' = [runs EXCEPT ![p] = 1] /\ excused' = [excused EXCEPT ![p] = FALSE]
      /\ result' = "fine" /\ ok' = ok /\ done' = done /\ connection' = connection
  BY DEF IInv, ExecAndGet, Counted, Objects
<1>2. /\ ptr' \in [Objects -> Prepared \cup {NoPtr}]
      /\ Cardinality(Sharing(p)') = Cardinality(Sharing(p)) + 1
      /\ Sharing(p)' # {}
      /\ \A q \in Prepared \ {p} : Sharing(q)' = Sharing(q)
  BY <1>1, Acquired
<1>3. Cardinality(Sharing(p)) = 0
  BY <1>1, FS_EmptySet
<1>4. TypeOK'
  BY <1>1, <1>2, ObjectsAssumption DEF TypeOK
<1>5. \A q \in Prepared : Counted(q)'
  BY <1>1, <1>2, <1>3 DEF TypeOK, Counted, IInv
<1>6. \A t \in Statements : ptr[t] # p /\ ptr'[t] = ptr[t]
  BY <1>1, ObjectsAssumption DEF Sharing, TypeOK, Objects
<1>7. Alone'
  BY <1>6 DEF IInv, Alone, Lives
<1>8. \A q \in Prepared : Begun(q)' /\ Once(q)'
  BY <1>1 DEF IInv, TypeOK, Begun, Once
<1>9. ASSUME NEW t \in Statements PROVE Informed(t)'
  <2>1. Lives(t) => engine'[ptr[t]] = engine[ptr[t]] /\ excused'[ptr[t]] = excused[ptr[t]]
    BY <1>1, <1>6 DEF TypeOK, Lives, Objects
  <2>2. Informed(t)
    BY DEF IInv
  <2> QED
    BY <1>1, <1>6, <2>1, <2>2 DEF Informed, Lives
<1> QED
  BY <1>1, <1>4, <1>5, <1>7, <1>8, <1>9 DEF IInv

\* The last object finalizes the sqlite3_stmt.
LEMMA DestroyKeepsIInv ==
    ASSUME IInv, NEW o \in Objects, Destroy(o)
    PROVE  IInv'
<1>0. PICK p \in Prepared : p = ptr[o]
  BY DEF IInv, Destroy, Lives, TypeOK
<1>1. /\ TypeOK
      /\ ptr' = [ptr EXCEPT ![o] = NoPtr] /\ refs' = [refs EXCEPT ![p] = @ - 1]
      /\ engine' = IF refs[p] = 1 THEN [engine EXCEPT ![p] = "free"] ELSE engine
      /\ row' = row /\ runs' = runs /\ excused' = excused
      /\ result' = "fine" /\ connection' = connection
      /\ Counted(p)
  BY <1>0 DEF IInv, Destroy
<1>2. /\ ptr' \in [Objects -> Prepared \cup {NoPtr}]
      /\ Cardinality(Sharing(p)') = Cardinality(Sharing(p)) - 1
      /\ Sharing(p)' = {} <=> Cardinality(Sharing(p)) = 1
      /\ Sharing(p) # {} /\ Cardinality(Sharing(p)) # 0
      /\ \A q \in Prepared \ {p} : Sharing(q)' = Sharing(q)
  BY <1>0, <1>1, Released
<1>3. /\ ok' \in [Statements -> BOOLEAN] /\ done' \in [Statements -> BOOLEAN]
      /\ \A t \in Statements \ {o} : ok'[t] = ok[t] /\ done'[t] = done[t]
  <2>1. CASE o \in Statements
    BY <1>1, <2>1 DEF Destroy, View, TypeOK
  <2>2. CASE o \notin Statements
    BY <1>1, <2>2 DEF Destroy, TypeOK
  <2> QED
    BY <2>1, <2>2
<1>4. refs[p] \in Nat \ {0}
  BY <1>1, <1>2 DEF TypeOK, Counted
<1>5. TypeOK'
  BY <1>1, <1>2, <1>3, <1>4 DEF TypeOK
<1>6. Counted(p)'
  BY <1>1, <1>2 DEF TypeOK, Counted
<1>7. \A q \in Prepared \ {p} : Counted(q)'
  BY <1>1, <1>2 DEF TypeOK, Counted, IInv
<1>8. \A t \in Objects \ {o} : ptr'[t] = ptr[t]
  BY <1>1 DEF TypeOK
<1>9. ~Lives(o)'
  BY <1>1 DEF TypeOK, Lives
<1>10. Alone'
  BY <1>8, <1>9 DEF IInv, Alone, Lives, Objects
<1>11. \A q \in Prepared : Begun(q)' /\ Once(q)'
  BY <1>1 DEF IInv, TypeOK, Begun, Once
<1>12. ASSUME NEW t \in Statements, t # o, Lives(t) PROVE engine'[ptr[t]] = engine[ptr[t]]
  <2>1. CASE ptr[t] = p
    <3>1. t \in Sharing(p)'
      BY <1>8, <1>12, <2>1 DEF Sharing, Objects
    <3>2. refs[p] # 1
      BY <3>1, <1>1, <1>2 DEF Counted
    <3> QED
      BY <1>1, <3>2
  <2>2. CASE ptr[t] # p
    BY <1>1, <1>12, <2>2 DEF TypeOK, Lives, Objects
  <2> QED
    BY <2>1, <2>2
<1>13. ASSUME NEW t \in Statements PROVE Informed(t)'
  <2>1. CASE t = o
    BY <1>9, <2>1 DEF Informed
  <2>2. CASE t # o
    <3>1. ptr'[t] = ptr[t] /\ ok'[t] = ok[t] /\ done'[t] = done[t]
      BY <1>3, <1>8, <2>2 DEF Objects
    <3>2. Informed(t)
      BY DEF IInv
    <3> QED
      BY <1>1, <1>12, <2>2, <3>1, <3>2 DEF Informed, Lives
  <2> QED
    BY <2>1, <2>2
<1> QED
  BY <1>1, <1>5, <1>6, <1>7, <1>10, <1>11, <1>13 DEF IInv

\* A step, by executeStep() or exec(): a statement that was done unnoticed is
\* excused.
LEMMA StepKeepsIInv ==
    ASSUME IInv, NEW s \in Statements, Lives(s), ~done[s],
           NEW outcome \in {"row", "done", "failed"}, Step(ptr[s], outcome),
           NEW isOk \in BOOLEAN, isOk => outcome = "row",
           View(s, isOk, outcome = "done"),
           result' \in {"fine", "threw"},
           UNCHANGED <<ptr, refs, connection>>
    PROVE  IInv'
<1>0. PICK p \in Prepared : p = ptr[s]
  BY DEF IInv, TypeOK, Lives, Objects
<1>1. /\ TypeOK
      /\ outcome = "row" => engine[p] # "row" \/ row[p] < MaxRows
      /\ engine' = [engine EXCEPT ![p] = outcome]
      /\ row' = [row EXCEPT ![p] =
            IF outcome # "row" THEN 0 ELSE IF engine[p] = "row" THEN @ + 1 ELSE 1]
      /\ runs' = [runs EXCEPT ![p] =
            IF engine[p] = "row" \/ @ = 2 THEN @ ELSE @ + 1]
  BY <1>0 DEF Step, IInv
<1>2. excused' = [excused EXCEPT ![p] = @ \/ outcome = "failed"]
  BY <1>0 DEF Step
<1>3. /\ ok' = [ok EXCEPT ![s] = isOk]
      /\ done' = [done EXCEPT ![s] = (outcome = "done")]
  BY DEF View
<1>4. engine[p] # "free"
  BY <1>0 DEF IInv, Counted, Sharing, Objects
<1>5. row' \in [Prepared -> 0..MaxRows] /\ runs' \in [Prepared -> 0..2]
  <2>1. row[p] \in 0..MaxRows /\ runs[p] \in 0..2
    BY <1>1 DEF TypeOK
  <2>2. row[p] < MaxRows => row[p] + 1 \in 0..MaxRows
    BY <2>1, ObjectsAssumption
  <2>3. 0 \in 0..MaxRows /\ 1 \in 0..MaxRows
    BY ObjectsAssumption
  <2>4. (IF outcome # "row" THEN 0 ELSE IF engine[p] = "row" THEN row[p] + 1 ELSE 1)
            \in 0..MaxRows
    BY <1>1, <2>2, <2>3
  <2> QED
    BY <1>1, <2>1, <2>4 DEF TypeOK
<1>6. excused' \in [Prepared -> BOOLEAN]
  BY <1>1, <1>2 DEF TypeOK
<1>7. ok' \in [Statements -> BOOLEAN] /\ done' \in [Statements -> BOOLEAN]
  BY <1>1, <1>3 DEF TypeOK
<1>8. TypeOK'
  BY <1>1, <1>5, <1>6, <1>7 DEF TypeOK
<1>9. \A q \in Prepared : Counted(q)'
  <2>1. \A q \in Prepared : Sharing(q)' = Sharing(q)
    BY DEF Sharing
  <2> QED
    BY <1>1, <1>4, <2>1 DEF IInv, Counted, TypeOK
<1>10. Alone'
  BY DEF IInv, Alone, Lives
<1>11. \A t \in Statements \ {s} : Lives(t) => ptr[t] # p
  BY <1>0 DEF IInv, Alone
<1>12. ASSUME NEW q \in Prepared \ {p} PROVE Begun(q)' /\ Once(q)'
  <2>1. engine'[q] = engine[q] /\ runs'[q] = runs[q] /\ excused'[q] = excused[q]
    BY <1>1, <1>2 DEF TypeOK
  <2>2. Begun(q) /\ Once(q)
    BY DEF IInv
  <2> QED
    BY <2>1, <2>2 DEF Begun, Once
<1>13. excused'[p] <=> excused[p] \/ outcome = "failed"
  BY <1>1, <1>2 DEF TypeOK
<1>14. engine'[p] = outcome
  BY <1>1 DEF TypeOK
<1>15. Begun(p)'
  BY <1>13, <1>14 DEF Begun
<1>16. Once(p)'
  <2>1. CASE engine[p] = "row"
    <3>1. runs'[p] = runs[p]
      BY <1>1, <2>1 DEF TypeOK
    <3>2. Once(p)
      BY DEF IInv
    <3> QED
      BY <1>13, <3>1, <3>2 DEF Once
  <2>2. CASE engine[p] = "ready"
    <3>1. runs[p] = 0
      BY <2>2 DEF IInv, Begun
    <3>2. runs'[p] = 1
      BY <1>1, <2>2, <3>1 DEF TypeOK
    <3> QED
      BY <3>2 DEF Once
  <2>3. CASE engine[p] \in {"done", "failed"}
    <3>1. excused[p]
      BY <1>0, <2>3 DEF IInv, Begun, Informed
    <3> QED
      BY <1>13, <3>1 DEF Once
  <2> QED
    BY <1>1, <1>4, <2>1, <2>2, <2>3 DEF TypeOK
<1>17. Informed(s)'
  <2>1. (ok'[s] <=> isOk) /\ (done'[s] <=> outcome = "done")
    BY <1>1, <1>3 DEF TypeOK
  <2> QED
    BY <1>0, <1>14, <2>1 DEF Informed
<1>18. ASSUME NEW t \in Statements \ {s} PROVE Informed(t)'
  <2>1. ok'[t] = ok[t] /\ done'[t] = done[t]
    BY <1>1, <1>3 DEF TypeOK
  <2>2. Lives(t) => engine'[ptr[t]] = engine[ptr[t]] /\ excused'[ptr[t]] = excused[ptr[t]]
    BY <1>1, <1>2, <1>11 DEF TypeOK, Lives, Objects
  <2>3. Informed(t)
    BY DEF IInv
  <2> QED
    BY <2>1, <2>2, <2>3 DEF Informed, Lives
<1> QED
  BY <1>8, <1>9, <1>10, <1>12, <1>15, <1>16, <1>17, <1>18 DEF IInv

\* reset() ends the execution, also when it throws.
LEMMA ResetKeepsIInv ==
    ASSUME IInv, NEW s \in Statements, Reset(s)
    PROVE  IInv'
<1>0. PICK p \in Prepared : p = ptr[s]
  BY DEF IInv, TypeOK, Lives, Objects, Reset
<1>1. /\ TypeOK
      /\ engine' = [engine EXCEPT ![p] = "ready"]
      /\ row' = [row EXCEPT ![p] = 0]
      /\ runs' = [runs EXCEPT ![p] = 0]
      /\ excused' = [excused EXCEPT ![p] = FALSE]
      /\ ok' = [ok EXCEPT ![s] = FALSE] /\ done' = [done EXCEPT ![s] = FALSE]
      /\ result' \in {"fine", "threw"}
      /\ ptr' = ptr /\ refs' = refs /\ connection' = connection
      /\ Lives(s)
  BY <1>0 DEF IInv, Reset, View, Thrown
<1>2. TypeOK'
  BY <1>1, ObjectsAssumption DEF TypeOK
<1>3. engine[p] # "free"
  BY <1>0 DEF IInv, Counted, Sharing, Objects
<1>4. \A q \in Prepared : Counted(q)'
  <2>1. \A q \in Prepared : Sharing(q)' = Sharing(q)
    BY <1>1 DEF Sharing
  <2> QED
    BY <1>1, <1>3, <2>1 DEF IInv, Counted, TypeOK
<1>5. Alone'
  BY <1>1 DEF IInv, Alone, Lives
<1>6. \A q \in Prepared : Begun(q)' /\ Once(q)'
  BY <1>1 DEF IInv, TypeOK, Begun, Once
<1>7. Informed(s)'
  BY <1>0, <1>1 DEF Informed, TypeOK
<1>8. ASSUME NEW t \in Statements \ {s} PROVE Informed(t)'
  <2>1. Lives(t) => ptr[t] # p
    BY <1>0 DEF IInv, Alone
  <2>2. ok'[t] = ok[t] /\ done'[t] = done[t]
    BY <1>1 DEF TypeOK
  <2>3. Lives(t) => engine'[ptr[t]] = engine[ptr[t]] /\ excused'[ptr[t]] = excused[ptr[t]]
    BY <1>1, <2>1 DEF TypeOK, Lives, Objects
  <2>4. Informed(t)
    BY DEF IInv
  <2> QED
    BY <1>1, <2>2, <2>3, <2>4 DEF Informed, Lives
<1> QED
  BY <1>1, <1>2, <1>4, <1>5, <1>6, <1>7, <1>8 DEF IInv

\* clearBindings() forgets the execution, and excuses what it does to it.
LEMMA ClearBindingsKeepsIInv ==
    ASSUME IInv, NEW s \in Statements, ClearBindings(s)
    PROVE  IInv'
<1>0. PICK p \in Prepared : p = ptr[s]
  BY DEF IInv, TypeOK, Lives, Objects, ClearBindings
<1>1. /\ TypeOK
      /\ excused' = [excused EXCEPT ![p] = TRUE]
      /\ ok' = [ok EXCEPT ![s] = FALSE] /\ done' = [done EXCEPT ![s] = FALSE]
      /\ result' = "fine" /\ engine' = engine /\ row' = row /\ runs' = runs
      /\ ptr' = ptr /\ refs' = refs /\ connection' = connection
  BY <1>0 DEF IInv, ClearBindings, View
<1>2. TypeOK'
  BY <1>1 DEF TypeOK
<1>3. Alone' /\ \A q \in Prepared : Counted(q)'
  BY <1>1 DEF IInv, Alone, Counted, Sharing, Lives
<1>4. \A q \in Prepared : Begun(q)' /\ Once(q)'
  BY <1>1 DEF IInv, TypeOK, Begun, Once
<1>5. Informed(s)'
  BY <1>0, <1>1 DEF Informed, TypeOK
<1>6. ASSUME NEW t \in Statements \ {s} PROVE Informed(t)'
  <2>1. Lives(t) => ptr[t] # p
    BY <1>0 DEF IInv, Alone
  <2>2. ok'[t] = ok[t] /\ done'[t] = done[t]
    BY <1>1 DEF TypeOK
  <2>3. Lives(t) => excused'[ptr[t]] = excused[ptr[t]]
    BY <1>1, <2>1 DEF TypeOK, Lives, Objects
  <2>4. Informed(t)
    BY DEF IInv
  <2> QED
    BY <1>1, <2>2, <2>3, <2>4 DEF Informed, Lives
<1> QED
  BY <1>1, <1>2, <1>3, <1>4, <1>5, <1>6 DEF IInv

-----------------------------------------------------------------------------
(* The theorems.                                                           *)

LEMMA InitIInv == Init => IInv
<1> SUFFICES ASSUME Init PROVE IInv
  OBVIOUS
<1>1. \A p \in Prepared : Sharing(p) = {}
  BY ObjectsAssumption DEF Init, Sharing
<1>2. \A p \in Prepared : Counted(p)
  BY <1>1, FS_EmptySet DEF Init, Counted
<1>3. TypeOK
  BY ObjectsAssumption DEF Init, TypeOK
<1> QED
  BY <1>2, <1>3 DEF Init, IInv, Alone, Begun, Once, Informed, Lives, Objects

LEMMA NextIInv == IInv /\ [Next]_vars => IInv'
<1> SUFFICES ASSUME IInv, [Next]_vars PROVE IInv'
  OBVIOUS
<1> USE DEF Thrown
<1>0. connection \in {"open", "closed", "leaked"} /\ result \in {"fine", "threw", "null"}
  BY DEF IInv, TypeOK
<1>1. CASE UNCHANGED vars
  BY <1>0, <1>1, QuietKeepsIInv DEF vars, stmtVars
<1>2. CASE Throws
  BY <1>0, <1>2, QuietKeepsIInv DEF Throws
<1>3. ASSUME NEW s \in Statements, NEW p \in Prepared, Construct(s, p) PROVE IInv'
  BY <1>3, ConstructKeepsIInv
<1>4. ASSUME NEW s \in Statements, NEW c \in Columns, GetColumn(s, c) PROVE IInv'
  <2>1. ptr[s] \in Prepared /\ s \in Sharing(ptr[s])
    BY <1>4 DEF IInv, TypeOK, GetColumn, Lives, Objects, Sharing
  <2>2. engine[ptr[s]] # "free"
    BY <2>1 DEF IInv, Counted
  <2> QED
    BY <1>4, <2>1, <2>2, ShareKeepsIInv DEF GetColumn
<1>5. ASSUME NEW s \in Statements, ExecuteStep(s) PROVE IInv'
  <2>1. PICK outcome \in {"row", "done", "failed"} :
          /\ Step(ptr[s], outcome)
          /\ View(s, outcome = "row", outcome = "done")
          /\ result' = Thrown(outcome = "failed")
    BY <1>5 DEF ExecuteStep
  <2> QED
    BY <1>5, <2>1, StepKeepsIInv DEF ExecuteStep
<1>6. ASSUME NEW s \in Statements, Exec(s) PROVE IInv'
  <2>1. PICK outcome \in {"row", "done", "failed"} :
          /\ Step(ptr[s], outcome)
          /\ View(s, FALSE, outcome = "done")
          /\ result' = Thrown(outcome # "done")
    BY <1>6 DEF Exec
  <2> QED
    BY <1>6, <2>1, StepKeepsIInv DEF Exec
<1>7. ASSUME NEW s \in Statements, Reset(s) PROVE IInv'
  BY <1>7, ResetKeepsIInv
<1>8. ASSUME NEW s \in Statements, ClearBindings(s) PROVE IInv'
  BY <1>8, ClearBindingsKeepsIInv
<1>9. ASSUME NEW s \in Statements, Bind(s) PROVE IInv'
  BY <1>0, <1>9, QuietKeepsIInv DEF Bind
\* What lives reads from a statement that is there.
<1>10. ASSUME NEW o \in Objects, Lives(o)
       PROVE  /\ Value(ptr[o]) \in {"fine", "null"}
              /\ Name(ptr[o]) = "fine"
  <2>1. ptr[o] \in Prepared /\ o \in Sharing(ptr[o])
    BY <1>10 DEF IInv, TypeOK, Lives, Sharing
  <2>2. engine[ptr[o]] # "free"
    BY <2>1 DEF IInv, Counted
  <2> QED
    BY <2>2 DEF Value, Name
<1>11. ASSUME NEW c \in Columns, ReadColumn(c) \/ ReadName(c) PROVE IInv'
  <2>1. c \in Objects /\ Lives(c)
    BY <1>11 DEF Objects, ReadColumn, ReadName
  <2> QED
    BY <1>0, <1>10, <1>11, <2>1, QuietKeepsIInv DEF ReadColumn, ReadName
<1>12. ASSUME NEW s \in Statements, IsColumnNull(s) \/ GetColumnName(s) PROVE IInv'
  <2>1. s \in Objects /\ Lives(s)
    BY <1>12 DEF Objects, IsColumnNull, GetColumnName
  <2> QED
    BY <1>0, <1>10, <1>12, <2>1, QuietKeepsIInv DEF IsColumnNull, GetColumnName
<1>13. ASSUME NEW c \in Columns, NEW p \in Prepared, ExecAndGet(c, p) PROVE IInv'
  BY <1>13, ExecAndGetKeepsIInv
<1>14. ASSUME NEW c \in Columns, NEW d \in Columns, CopyColumn(c, d) PROVE IInv'
  <2>1. ptr[c] \in Prepared /\ c \in Sharing(ptr[c])
    BY <1>14 DEF IInv, TypeOK, CopyColumn, Lives, Objects, Sharing
  <2>2. engine[ptr[c]] # "free"
    BY <2>1 DEF IInv, Counted
  <2> QED
    BY <1>14, <2>1, <2>2, ShareKeepsIInv DEF CopyColumn
<1>15. ASSUME NEW o \in Objects, Destroy(o) PROVE IInv'
  BY <1>15, DestroyKeepsIInv
<1>16. CASE Close
  BY <1>0, <1>16, QuietKeepsIInv DEF Close
<1> QED
  BY <1>1, <1>2, <1>3, <1>4, <1>5, <1>6, <1>7, <1>8, <1>9, <1>11, <1>12, <1>13,
     <1>14, <1>15, <1>16
     DEF Next, ConstructFails, GetColumnFails, NeedsReset, ExecAndGetFails

LEMMA SpecIInv == Spec => []IInv
<1> QED
  BY InitIInv, NextIInv, PTL DEF Spec

\* Types of all variables.
THEOREM StatementTypes == Spec => []TypeOK
<1>1. IInv => TypeOK
  BY DEF IInv
<1> QED
  BY <1>1, SpecIInv, PTL

\* For any number of Statements and Columns, copied and destroyed in any
\* order: a sqlite3_stmt is finalized exactly when the last of its objects
\* is, and none of them ever reads from one that is gone.
THEOREM HandlesStayCounted == Spec => []HandlesCounted
<1>1. IInv => HandlesCounted
  BY DEF IInv, HandlesCounted, Counted
<1> QED
  BY <1>1, SpecIInv, PTL

\* Whatever is called in whatever order: a Statement that believes to be at a
\* row or at the end is there, and without a reset, a failure or
\* clearBindings() nothing is executed twice.
THEOREM ExecutionStaysKnown == Spec => []ExecutionKnown
<1>1. IInv => ExecutionKnown
  BY DEF IInv, ExecutionKnown, RowToRead, ExecutedOnce, Informed, Once
<1> QED
  BY <1>1, SpecIInv, PTL

-----------------------------------------------------------------------------
(* Startup.                                                                *)


(***************************************************************************)
(* The invariant.  One process at most creates tables, and while it does   *)
(* there are those that it has created and no others: the first table is   *)
(* there, so that nobody else begins, and who works meanwhile cannot,      *)
(* because its tables are missing.  An importer that locks the process     *)
(* out that creates has found all tables.                                  *)
(***************************************************************************)
FirstOnes(n) == { Schema[i] : i \in 1..n }

Busy == {"schema", "creating", "closing", "preparing", "importing", "serving",
         "destroying"}

Makes(p) == made[p] > 0 => pc[p] = "creating" /\ schema = FirstOnes(made[p])

Holds(p) ==
    /\ pc[p] \in Busy => tasks[p] # <<>>
    /\ pc[p] \in {"ended", "locale", "next"} => objects[p] = <<>>

Finds(p) ==
    /\ pc[p] = "preparing" =>
        /\ objects[p] # <<>>
        /\ \A i \in 1..PreparedBy(p) : i <= Len(Needs(p)) => Needs(p)[i] \subseteq schema
    /\ pc[p] = "importing" \/ p \in importer => Tables \subseteq schema
    /\ pc[p] = "serving" => Together(ServerNeeds) \subseteq schema

OneMaker == \A p, q \in Processes : made[p] > 0 /\ made[q] > 0 => p = q
OneImporter == \A p, q \in importer : p = q
FirstIsThere == schema # {} => FirstTable \in schema

StartupInv ==
    /\ StartupTypeOK
    /\ \A p \in Processes : Makes(p) /\ Holds(p) /\ Finds(p)
    /\ OneMaker /\ OneImporter /\ FirstIsThere
    /\ HalfMadeNeedsKill

-----------------------------------------------------------------------------
(* What a step of one process leaves of the others.                        *)

OnlyOf(p) ==
    \A q \in Processes \ {p} :
        /\ pc'[q] = pc[q] /\ tasks'[q] = tasks[q]
        /\ made'[q] = made[q] /\ objects'[q] = objects[q]

\* The schema only grows, and not under a process that creates tables.
LEMMA OthersKeep ==
    ASSUME StartupInv, NEW p \in Processes, OnlyOf(p),
           schema \subseteq schema', importer' \subseteq importer \cup {p},
           \A q \in Processes \ {p} : made[q] > 0 => schema' = schema
    PROVE  \A q \in Processes \ {p} : Makes(q)' /\ Holds(q)' /\ Finds(q)'
<1> SUFFICES ASSUME NEW q \in Processes \ {p}
             PROVE  Makes(q)' /\ Holds(q)' /\ Finds(q)'
  OBVIOUS
<1>1. /\ Makes(q) /\ Holds(q) /\ Finds(q)
      /\ pc'[q] = pc[q] /\ tasks'[q] = tasks[q]
      /\ made'[q] = made[q] /\ objects'[q] = objects[q]
  BY DEF StartupInv, OnlyOf
<1>2. Makes(q)'
  BY <1>1 DEF Makes, FirstOnes
<1>3. Holds(q)'
  BY <1>1 DEF Holds
<1>4. Needs(q)' = Needs(q) /\ PreparedBy(q)' = PreparedBy(q)
  BY <1>1 DEF Needs, PreparedBy
<1>5. q \in importer' => q \in importer
  OBVIOUS
<1>6. Finds(q)'
  BY <1>1, <1>4, <1>5 DEF Finds
<1> QED
  BY <1>2, <1>3, <1>6

\* A step that creates nothing and is not that of a process that does keeps
\* what is said of all of them.
LEMMA QuietStepKeeps ==
    ASSUME StartupInv, NEW p \in Processes, OnlyOf(p), StartupTypeOK',
           UNCHANGED <<schema, made>>, broken => broken',
           importer' \subseteq importer,
           Makes(p)', Holds(p)', Finds(p)'
    PROVE  StartupInv'
<1>1. \A q \in Processes : Makes(q)' /\ Holds(q)' /\ Finds(q)'
  BY OthersKeep
<1>2. OneMaker' /\ OneImporter' /\ FirstIsThere'
  BY DEF StartupInv, OneMaker, OneImporter, FirstIsThere
<1>3. HalfMadeNeedsKill'
  <2>1. \A q \in Processes : made[q] > 0 => pc'[q] = "creating"
    BY <1>1 DEF Makes
  <2> QED
    BY <2>1 DEF StartupInv, HalfMadeNeedsKill
<1> QED
  BY <1>1, <1>2, <1>3 DEF StartupInv

\* A process that leaves one state for another one, creating nothing.
LEMMA GoKeepsTypes ==
    ASSUME StartupTypeOK, NEW p \in Processes, NEW from, NEW to \in States, Go(p, from, to)
    PROVE  /\ pc' \in [Processes -> States]
           /\ pc[p] = from /\ pc'[p] = to
           /\ \A q \in Processes \ {p} : pc'[q] = pc[q]
  BY DEF StartupTypeOK, Go

-----------------------------------------------------------------------------
(* The steps.                                                              *)

\* A process goes on to what needs no tables, with what it has constructed.
LEMMA MoveKeepsInv ==
    ASSUME StartupInv, NEW p \in Processes,
           NEW from \in States \ {"creating"},
           NEW to \in States \ {"preparing", "importing", "serving"},
           Go(p, from, to),
           tasks' \in [Processes -> Seq(Tasks)],
           \A q \in Processes \ {p} : tasks'[q] = tasks[q],
           to \in Busy => tasks'[p] # <<>>,
           to \in {"ended", "locale", "next"} => objects[p] = <<>>,
           UNCHANGED <<exists, schema, made, objects, importer, broken>>
    PROVE  StartupInv'
<1>1. /\ pc' \in [Processes -> States]
      /\ pc[p] = from /\ pc'[p] = to
      /\ \A q \in Processes \ {p} : pc'[q] = pc[q]
  BY GoKeepsTypes DEF StartupInv
<1>2. StartupTypeOK'
  BY <1>1 DEF StartupInv, StartupTypeOK
<1>3. OnlyOf(p)
  BY <1>1 DEF OnlyOf
<1>4. Makes(p)'
  BY <1>1 DEF StartupInv, Makes
<1>5. Holds(p)'
  BY <1>1 DEF StartupInv, Holds
<1>6. Finds(p)'
  BY <1>1 DEF StartupInv, Finds
<1> QED
  BY <1>2, <1>3, <1>4, <1>5, <1>6, QuietStepKeeps

LEMMA StartKeepsInv ==
    ASSUME StartupInv, NEW p \in Processes, Start(p)
    PROVE  StartupInv'
<1>1. PICK plan \in Plans : tasks' = [tasks EXCEPT ![p] = plan]
  BY DEF Start
<1>2. plan \in Seq(Tasks)
  <2>1. "serve" \in Tasks /\ "initial" \in Tasks /\ "update" \in Tasks
    BY DEF Tasks
  <2>2. \A a, b, c \in Tasks :
          <<a>> \in Seq(Tasks) /\ <<a, b>> \in Seq(Tasks) /\ <<a, b, c>> \in Seq(Tasks)
    OBVIOUS
  <2> QED
    BY <2>1, <2>2 DEF Plans
<1>3. tasks' \in [Processes -> Seq(Tasks)] /\ \A q \in Processes \ {p} : tasks'[q] = tasks[q]
  BY <1>1, <1>2 DEF StartupInv, StartupTypeOK
<1>4. objects[p] = <<>>
  BY DEF StartupInv, Holds, Start, Go
<1> QED
  BY <1>3, <1>4, MoveKeepsInv DEF Start, States, Busy

LEMMA SetUnicodeLocaleKeepsInv ==
    ASSUME StartupInv, NEW p \in Processes, SetUnicodeLocale(p)
    PROVE  StartupInv'
<1>1. objects[p] = <<>>
  BY DEF StartupInv, Holds, SetUnicodeLocale, Go
<1>2. <<>> \in Seq(Tasks)
  OBVIOUS
<1>3. tasks' \in [Processes -> Seq(Tasks)] /\ \A q \in Processes \ {p} : tasks'[q] = tasks[q]
  BY <1>2 DEF StartupInv, StartupTypeOK, SetUnicodeLocale
<1> QED
  BY <1>1, <1>3, MoveKeepsInv DEF SetUnicodeLocale, States, Busy

LEMMA ExitKeepsInv ==
    ASSUME StartupInv, NEW p \in Processes, Exit(p)
    PROVE  StartupInv'
<1>1. objects[p] = <<>>
  BY DEF StartupInv, Holds, Exit, Go
<1> QED
  BY <1>1, MoveKeepsInv DEF Exit, States, Busy, StartupInv, StartupTypeOK

LEMMA TableExistsKeepsInv ==
    ASSUME StartupInv, NEW p \in Processes, TableExists(p) \/ TableExistsFails(p)
    PROVE  StartupInv'
<1>1. tasks[p] # <<>>
  BY DEF StartupInv, Holds, TableExists, TableExistsFails, CheckFails, Go, Busy
<1>2. CASE TableExists(p)
  BY <1>1, <1>2, MoveKeepsInv DEF TableExists, States, Busy, StartupInv, StartupTypeOK
<1>3. CASE TableExistsFails(p)
  BY <1>1, <1>3, MoveKeepsInv DEF TableExistsFails, CheckFails, States, Busy, StartupInv, StartupTypeOK
<1> QED
  BY <1>2, <1>3

\* Whatever goes wrong in a constructor or an import, and what ends a server.
LEMMA EndOfWorkKeepsInv ==
    ASSUME StartupInv, NEW p \in Processes,
           PrepareFails(p) \/ ImportFails(p) \/ ImportThrows(p) \/ ServeEnds(p)
    PROVE  StartupInv'
<1>1. PICK from \in {"preparing", "importing", "serving"} :
        \E to \in {"throwing", "destroying"} : Go(p, from, to)
  BY DEF PrepareFails, ImportFails, ImportThrows, ServeEnds, CheckFails
<1>2. PICK to \in {"throwing", "destroying"} : Go(p, from, to)
  BY <1>1
<1>3. tasks[p] # <<>>
  BY <1>2 DEF StartupInv, Holds, Go, Busy
<1>4. UNCHANGED <<exists, schema, tasks, made, objects, importer, broken>>
  BY DEF PrepareFails, ImportFails, ImportThrows, ServeEnds
<1> QED
  BY <1>2, <1>3, <1>4, MoveKeepsInv DEF States, Busy, StartupInv, StartupTypeOK

LEMMA DestroyedKeepsInv ==
    ASSUME StartupInv, NEW p \in Processes, Destroyed(p)
    PROVE  StartupInv'
<1>1. CASE pc[p] = "destroying"
  <2>1. tasks[p] # <<>> /\ tasks[p] \in Seq(Tasks)
    BY <1>1 DEF StartupInv, Holds, Busy, StartupTypeOK
  <2>2. Tail(tasks[p]) \in Seq(Tasks)
    BY <2>1
  <2>3. tasks' \in [Processes -> Seq(Tasks)] /\ \A q \in Processes \ {p} : tasks'[q] = tasks[q]
    BY <1>1, <2>2 DEF StartupInv, StartupTypeOK, Destroyed
  <2> QED
    BY <1>1, <2>3, MoveKeepsInv DEF Destroyed, States, Busy
<1>2. CASE pc[p] # "destroying"
  <2>1. <<>> \in Seq(Tasks)
    OBVIOUS
  <2>2. tasks' \in [Processes -> Seq(Tasks)] /\ \A q \in Processes \ {p} : tasks'[q] = tasks[q]
    BY <1>2, <2>1 DEF StartupInv, StartupTypeOK, Destroyed
  <2> QED
    BY <1>2, <2>2, MoveKeepsInv DEF Destroyed, States, Busy
<1> QED
  BY <1>1, <1>2

LEMMA NextTaskKeepsInv ==
    ASSUME StartupInv, NEW p \in Processes, NextTask(p)
    PROVE  StartupInv'
<1>1. /\ pc[p] = "next" /\ tasks[p] # <<>> /\ objects[p] = <<>>
      /\ UNCHANGED <<schema, tasks, made, importer, broken>>
      /\ StartupTypeOK
  BY DEF NextTask, StartupInv, Holds
<1>2. CASE Head(tasks[p]) = "serve" /\ ~exists
  BY <1>1, <1>2, MoveKeepsInv DEF NextTask, States, Busy, StartupTypeOK
<1>3. CASE Head(tasks[p]) # "serve" \/ exists
  <2>1. PICK to \in {"preparing", "schema"} : Go(p, "next", to)
    BY <1>1, <1>3 DEF NextTask
  <2>2. ConstructObject(p, Database) /\ exists' \in BOOLEAN
    BY <1>1, <1>3 DEF NextTask, StartupTypeOK
  <2>3. objects' = [objects EXCEPT ![p] = <<Database>>]
    BY <1>1, <2>2 DEF ConstructObject, StartupTypeOK
  <2>4. /\ pc' \in [Processes -> States] /\ pc'[p] = to
        /\ \A q \in Processes \ {p} : pc'[q] = pc[q]
    BY <1>1, <2>1, GoKeepsTypes DEF States
  <2>5. /\ objects' \in [Processes -> Seq({Database, Statement})]
        /\ objects'[p] = <<Database>>
        /\ \A q \in Processes \ {p} : objects'[q] = objects[q]
    BY <1>1, <2>3 DEF StartupTypeOK
  <2>6. StartupTypeOK'
    <3>1. objects'[p][1] = Database
      BY <2>5
    <3>2. \A q \in Processes \ {p} : objects'[q] # <<>> => objects'[q][1] = Database
      BY <1>1, <2>5 DEF StartupTypeOK
    <3> QED
      BY <1>1, <2>2, <2>4, <2>5, <3>1, <3>2 DEF StartupTypeOK
  <2>7. OnlyOf(p)
    BY <1>1, <2>4, <2>5 DEF OnlyOf
  <2>8. Makes(p)'
    BY <1>1, <2>4 DEF StartupInv, Makes
  <2>9. Holds(p)'
    BY <1>1, <2>4, <2>5 DEF Holds
  <2>10. Finds(p)'
    <3>1. PreparedBy(p)' = 0
      BY <2>5 DEF PreparedBy
    <3>2. Finds(p)
      BY DEF StartupInv
    <3> QED
      BY <1>1, <2>4, <2>5, <3>1, <3>2 DEF Finds
  <2> QED
    BY <1>1, <2>6, <2>7, <2>8, <2>9, <2>10, QuietStepKeeps
<1> QED
  BY <1>2, <1>3

LEMMA ReopenKeepsInv ==
    ASSUME StartupInv, NEW p \in Processes, Reopen(p)
    PROVE  StartupInv'
<1>1. /\ pc[p] = "closing" /\ tasks[p] # <<>>
      /\ UNCHANGED <<exists, schema, tasks, made, importer, broken>>
      /\ StartupTypeOK
  BY DEF Reopen, Go, StartupInv, Holds, Busy
<1>2. /\ pc' \in [Processes -> States] /\ pc'[p] = "preparing"
      /\ \A q \in Processes \ {p} : pc'[q] = pc[q]
  BY <1>1, GoKeepsTypes DEF Reopen, States
<1>3. /\ objects' \in [Processes -> Seq({Database, Statement})]
      /\ objects'[p] = <<Database>>
      /\ \A q \in Processes \ {p} : objects'[q] = objects[q]
  BY <1>1 DEF StartupTypeOK, Reopen
<1>4. StartupTypeOK'
  <2>1. objects'[p][1] = Database
    BY <1>3
  <2>2. \A q \in Processes \ {p} : objects'[q] # <<>> => objects'[q][1] = Database
    BY <1>1, <1>3 DEF StartupTypeOK
  <2> QED
    BY <1>1, <1>2, <1>3, <2>1, <2>2 DEF StartupTypeOK
<1>5. OnlyOf(p)
  BY <1>1, <1>2, <1>3 DEF OnlyOf
<1>6. Makes(p)' /\ Holds(p)'
  BY <1>1, <1>2, <1>3 DEF StartupInv, Makes, Holds
<1>7. Finds(p)'
  <2>1. PreparedBy(p)' = 0
    BY <1>3 DEF PreparedBy
  <2>2. Finds(p)
    BY DEF StartupInv
  <2> QED
    BY <1>1, <1>2, <1>3, <2>1, <2>2 DEF Finds
<1> QED
  BY <1>1, <1>4, <1>5, <1>6, <1>7, QuietStepKeeps

LEMMA PrepareKeepsInv ==
    ASSUME StartupInv, NEW p \in Processes, Prepare(p)
    PROVE  StartupInv'
<1>1. /\ pc[p] = "preparing" /\ tasks[p] # <<>> /\ objects[p] # <<>>
      /\ PreparedBy(p) < Len(Needs(p))
      /\ Needs(p)[PreparedBy(p) + 1] \subseteq schema
      /\ UNCHANGED <<exists, schema, pc, tasks, made, importer, broken>>
      /\ StartupTypeOK /\ Holds(p) /\ Finds(p)
  BY DEF Prepare, StartupInv, Holds, Finds, Busy
<1>2. /\ objects[p] \in Seq({Database, Statement})
      /\ objects' \in [Processes -> Seq({Database, Statement})]
      /\ objects'[p] = Append(objects[p], Statement)
      /\ \A q \in Processes \ {p} : objects'[q] = objects[q]
  BY <1>1 DEF StartupTypeOK, Prepare, ConstructObject
<1>3. /\ Len(objects[p]) \in Nat /\ Len(objects[p]) # 0
      /\ Len(objects'[p]) = Len(objects[p]) + 1
      /\ \A i \in 1..Len(objects[p]) : objects'[p][i] = objects[p][i]
      /\ objects'[p][Len(objects[p]) + 1] = Statement
      /\ DOMAIN objects'[p] = 1..(Len(objects[p]) + 1)
      /\ DOMAIN objects[p] = 1..Len(objects[p])
      /\ objects'[p] # <<>>
  BY <1>1, <1>2
<1>4. StartupTypeOK'
  <2>1. objects'[p][1] = Database
    BY <1>1, <1>3 DEF StartupTypeOK
  <2>2. \A q \in Processes \ {p} : objects'[q] # <<>> => objects'[q][1] = Database
    BY <1>1, <1>2 DEF StartupTypeOK
  <2> QED
    BY <1>1, <1>2, <2>1, <2>2 DEF StartupTypeOK
<1>5. OnlyOf(p)
  BY <1>1, <1>2 DEF OnlyOf
<1>6. Makes(p)'
  BY <1>1 DEF StartupInv, Makes, FirstOnes
<1>7. Holds(p)'
  BY <1>1 DEF Holds
<1>8. Finds(p)'
  <2>1. Needs(p)' = Needs(p)
    BY <1>1 DEF Needs
  <2>2. PreparedBy(p)' = PreparedBy(p) + 1 /\ PreparedBy(p) \in Nat
    BY <1>3 DEF PreparedBy
  <2>3. \A i \in 1..(PreparedBy(p) + 1) : i \in 1..PreparedBy(p) \/ i = PreparedBy(p) + 1
    BY <2>2
  <2>4. \A i \in 1..PreparedBy(p)' : i <= Len(Needs(p)) => Needs(p)[i] \subseteq schema
    BY <1>1, <2>2, <2>3 DEF Finds
  <2> QED
    BY <1>1, <1>3, <2>1, <2>4 DEF Finds
<1> QED
  BY <1>1, <1>4, <1>5, <1>6, <1>7, <1>8, QuietStepKeeps

\* A process that has prepared all statements has seen all their tables.
LEMMA AllPreparedFound ==
    ASSUME StartupInv, NEW p \in Processes, pc[p] = "preparing", PreparedBy(p) = Len(Needs(p))
    PROVE  Together(Needs(p)) \subseteq schema
<1>1. Needs(p) \in Seq(SUBSET Parts)
  BY NeedsAssumption DEF Needs
<1>2. \A i \in DOMAIN Needs(p) : Needs(p)[i] \subseteq schema
  BY <1>1 DEF StartupInv, Finds
<1> QED
  BY <1>2 DEF Together

LEMMA BeginImportKeepsInv ==
    ASSUME StartupInv, NEW p \in Processes, BeginImport(p)
    PROVE  StartupInv'
<1>1. /\ pc[p] = "preparing" /\ tasks[p] # <<>>
      /\ Tables \subseteq schema
      /\ importer = {} /\ importer' = {p}
      /\ UNCHANGED <<exists, schema, tasks, made, objects, broken>>
      /\ StartupTypeOK
  BY AllPreparedFound
     DEF BeginImport, Go, StartupInv, Holds, Busy, Needs, Tables, CanWrite
<1>2. /\ pc' \in [Processes -> States] /\ pc'[p] = "importing"
      /\ \A q \in Processes \ {p} : pc'[q] = pc[q]
  BY <1>1, GoKeepsTypes DEF BeginImport, States
<1>3. StartupTypeOK'
  <2>1. Cardinality({p}) = 1
    BY FS_Singleton
  <2> QED
    BY <1>1, <1>2, <2>1 DEF StartupTypeOK
<1>4. OnlyOf(p)
  BY <1>1, <1>2 DEF OnlyOf
<1>5. Makes(p)' /\ Holds(p)' /\ Finds(p)'
  BY <1>1, <1>2 DEF StartupInv, Makes, Holds, Finds
<1>6. \A q \in Processes : Makes(q)' /\ Holds(q)' /\ Finds(q)'
  BY <1>1, <1>4, <1>5, OthersKeep
<1>7. OneMaker' /\ OneImporter' /\ FirstIsThere'
  BY <1>1 DEF StartupInv, OneMaker, OneImporter, FirstIsThere
<1>8. HalfMadeNeedsKill'
  <2>1. \A q \in Processes : made[q] > 0 => pc'[q] = "creating"
    BY <1>1, <1>6 DEF Makes
  <2> QED
    BY <1>1, <2>1 DEF StartupInv, HalfMadeNeedsKill
<1> QED
  BY <1>3, <1>6, <1>7, <1>8 DEF StartupInv

LEMMA EndImportKeepsInv ==
    ASSUME StartupInv, NEW p \in Processes, EndImport(p)
    PROVE  StartupInv'
<1>1. /\ pc[p] = "importing" /\ tasks[p] # <<>>
      /\ importer' = {}
      /\ UNCHANGED <<exists, schema, tasks, made, objects, broken>>
      /\ StartupTypeOK
  BY DEF EndImport, Go, StartupInv, Holds, Busy
<1>2. /\ pc' \in [Processes -> States] /\ pc'[p] = "destroying"
      /\ \A q \in Processes \ {p} : pc'[q] = pc[q]
  BY <1>1, GoKeepsTypes DEF EndImport, States
<1>3. StartupTypeOK'
  <2>1. importer' \subseteq Processes /\ Cardinality(importer') <= 1
    BY <1>1, FS_EmptySet
  <2> QED
    BY <1>1, <1>2, <2>1 DEF StartupTypeOK
<1>4. OnlyOf(p)
  BY <1>1, <1>2 DEF OnlyOf
<1>5. Makes(p)' /\ Holds(p)' /\ Finds(p)'
  BY <1>1, <1>2 DEF StartupInv, Makes, Holds, Finds
<1> QED
  BY <1>1, <1>3, <1>4, <1>5, QuietStepKeeps

LEMMA ServeKeepsInv ==
    ASSUME StartupInv, NEW p \in Processes, Serve(p)
    PROVE  StartupInv'
<1>1. /\ pc[p] = "preparing" /\ tasks[p] # <<>>
      /\ Together(ServerNeeds) \subseteq schema
      /\ UNCHANGED <<exists, schema, tasks, made, objects, importer, broken>>
      /\ StartupTypeOK
  BY AllPreparedFound DEF Serve, Go, StartupInv, Holds, Busy, Needs
<1>2. /\ pc' \in [Processes -> States] /\ pc'[p] = "serving"
      /\ \A q \in Processes \ {p} : pc'[q] = pc[q]
  BY <1>1, GoKeepsTypes DEF Serve, States
<1>3. StartupTypeOK'
  BY <1>1, <1>2 DEF StartupTypeOK
<1>4. OnlyOf(p)
  BY <1>1, <1>2 DEF OnlyOf
<1>5. Makes(p)' /\ Holds(p)' /\ Finds(p)'
  BY <1>1, <1>2 DEF StartupInv, Makes, Holds, Finds
<1> QED
  BY <1>1, <1>3, <1>4, <1>5, QuietStepKeeps

\* The end of a transaction that may be there.
LEMMA ImporterLeaves ==
    ASSUME StartupTypeOK, OneImporter, NEW p
    PROVE  /\ importer \ {p} \subseteq Processes
           /\ Cardinality(importer \ {p}) <= 1
<1>1. importer = {} \/ \E q \in importer : importer = {q}
  BY DEF OneImporter
<1>2. IsFiniteSet(importer)
  <2>1. IsFiniteSet({}) /\ \A q \in importer : IsFiniteSet({q})
    BY FS_EmptySet, FS_Singleton
  <2> QED  BY <1>1, <2>1
<1>3. importer \ {p} \subseteq importer
  OBVIOUS
<1>4. Cardinality(importer \ {p}) <= Cardinality(importer)
  BY <1>2, <1>3, FS_Subset
<1>5. Cardinality(importer \ {p}) \in Nat /\ Cardinality(importer) \in Nat
  BY <1>2, <1>3, FS_Subset, FS_CardinalityType
<1> QED
  BY <1>4, <1>5 DEF StartupTypeOK

\* The database is the first of the objects, and stays it.
LEMMA DestroyObjectKeepsInv ==
    ASSUME StartupInv, NEW p \in Processes, DestroyObject(p)
    PROVE  StartupInv'
<1> DEFINE n    == Len(objects[p])
           rest == SubSeq(objects[p], 1, n - 1)
<1>1. /\ pc[p] \in {"destroying", "throwing"} /\ objects[p] # <<>>
      /\ UNCHANGED <<exists, schema, tasks, made, broken>>
      /\ StartupTypeOK /\ OneImporter /\ Makes(p) /\ Holds(p) /\ Finds(p)
  BY DEF DestroyObject, Destroying, StartupInv
<1>2. /\ objects[p] \in Seq({Database, Statement})
      /\ n \in Nat \ {0} /\ rest \in Seq({Database, Statement})
      /\ Len(rest) = n - 1 /\ DOMAIN rest = 1..(n - 1)
      /\ \A i \in 1..(n - 1) : rest[i] = objects[p][i] /\ i \in DOMAIN objects[p]
      /\ n \in DOMAIN objects[p]
  <2>1. objects[p] \in Seq({Database, Statement})
    BY <1>1 DEF StartupTypeOK
  <2>2. n \in Nat \ {0} /\ DOMAIN objects[p] = 1..n
    BY <1>1, <2>1
  <2>3. /\ rest \in Seq({Database, Statement})
        /\ Len(rest) = n - 1
        /\ \A i \in 1..(n - 1) : rest[i] = objects[p][i]
    BY <2>1, <2>2
  <2>4. DOMAIN rest = 1..(n - 1)
    BY <2>3
  <2> HIDE DEF n, rest
  <2> QED
    BY <2>1, <2>2, <2>3, <2>4
<1>3. objects' = [objects EXCEPT ![p] = rest]
  BY DEF DestroyObject
<1>5. pc' = pc
  BY DEF DestroyObject
<1>6. importer' = importer \ {p} \/ importer' = importer
  BY DEF DestroyObject
<1>7. /\ objects' \in [Processes -> Seq({Database, Statement})]
      /\ objects'[p] = rest
      /\ \A q \in Processes \ {p} : objects'[q] = objects[q]
  BY <1>1, <1>2, <1>3 DEF StartupTypeOK
<1>9. StartupTypeOK'
  <2>1. rest # <<>> => rest[1] = Database
    <3>1. rest # <<>> => 1 \in DOMAIN rest
      BY <1>2
    <3> QED
      BY <1>1, <1>2, <3>1 DEF StartupTypeOK
  <2>2. importer' \subseteq Processes /\ Cardinality(importer') <= 1
    BY <1>1, <1>6, ImporterLeaves DEF StartupTypeOK
  <2>3. \A q \in Processes : objects'[q] # <<>> => objects'[q][1] = Database
    BY <1>1, <1>7, <2>1 DEF StartupTypeOK
  <2> QED
    BY <1>1, <1>5, <1>7, <2>2, <2>3 DEF StartupTypeOK
<1>10. OnlyOf(p)
  BY <1>1, <1>5, <1>7 DEF OnlyOf
<1>11. Makes(p)'
  BY <1>1, <1>5 DEF Makes, FirstOnes
<1>12. Holds(p)'
  BY <1>1, <1>5, <1>7 DEF Holds
<1>13. Finds(p)'
  BY <1>1, <1>5, <1>6 DEF Finds
<1>14. importer' \subseteq importer
  BY <1>6
<1> QED
  BY <1>1, <1>9, <1>10, <1>11, <1>12, <1>13, <1>14, QuietStepKeeps

-----------------------------------------------------------------------------
(* The steps of the process that creates the tables.                       *)

LEMMA SchemaFacts ==
    /\ Len(Schema) \in Nat \ {0} /\ DOMAIN Schema = 1..Len(Schema)
    /\ Schema[1] = FirstTable
    /\ \A i, j \in 1..Len(Schema) : Schema[i] = Schema[j] => i = j
    /\ Parts = FirstOnes(Len(Schema))
    /\ Tables \subseteq Parts
<1>1. Len(Schema) \in Nat \ {0} /\ DOMAIN Schema = 1..Len(Schema)
  BY SchemaAssumption
<1>2. Parts = FirstOnes(Len(Schema))
  BY <1>1 DEF Parts, FirstOnes
<1>3. Tables \subseteq Parts
  BY NeedsAssumption DEF Tables, Together
<1> QED
  BY <1>1, <1>2, <1>3, SchemaAssumption

\* What a process is about to create is not there when it has created
\* something before, and another one can only be faster at the first table.
LEMMA CreateKeepsInv ==
    ASSUME StartupInv, NEW p \in Processes, Create(p)
    PROVE  StartupInv'
<1> DEFINE n == made[p]
<1>1. /\ pc[p] = "creating" /\ n # Len(Schema)
      /\ Schema[n + 1] \notin schema
      /\ schema' = schema \cup {Schema[n + 1]}
      /\ made' = [made EXCEPT ![p] = n + 1]
      /\ UNCHANGED <<exists, pc, tasks, objects, importer, broken>>
      /\ importer = {}
      /\ StartupTypeOK
  BY DEF Create, Creates, CreatesAll, CanWrite, StartupInv
<1>2. n \in 0..(Len(Schema) - 1) /\ n + 1 \in 1..Len(Schema)
  BY <1>1, SchemaFacts DEF StartupTypeOK
<1>3. /\ made' \in [Processes -> 0..Len(Schema)]
      /\ made'[p] = n + 1
      /\ \A q \in Processes \ {p} : made'[q] = made[q]
  BY <1>1, <1>2, SchemaFacts DEF StartupTypeOK
<1>4. Schema[n + 1] \in Parts
  BY <1>2, SchemaFacts DEF Parts
<1>5. StartupTypeOK'
  BY <1>1, <1>3, <1>4 DEF StartupTypeOK
<1>6. OnlyOf(p)
  BY <1>1, <1>3 DEF OnlyOf
<1>7. schema = FirstOnes(n)
  <2>1. CASE n > 0
    BY <2>1 DEF StartupInv, Makes
  <2>2. CASE n = 0
    <3>1. schema = {}
      BY <1>1, <2>2, SchemaFacts DEF StartupInv, FirstIsThere
    <3> QED
      BY <2>2, <3>1 DEF FirstOnes
  <2> QED
    BY <1>2, <2>1, <2>2
<1>8. schema' = FirstOnes(n + 1)
  <2>1. 1..(n + 1) = (1..n) \cup {n + 1}
    BY <1>2
  <2> QED
    BY <1>1, <1>7, <2>1 DEF FirstOnes
\* Nobody else has created anything.
<1>9. \A q \in Processes \ {p} : ~(made[q] > 0)
  <2> SUFFICES ASSUME NEW q \in Processes \ {p}, made[q] > 0 PROVE FALSE
    OBVIOUS
  <2>1. n = 0
    BY <1>2 DEF StartupInv, OneMaker
  <2>2. schema = FirstOnes(made[q]) /\ made[q] \in Nat
    BY DEF StartupInv, Makes, StartupTypeOK
  <2>3. Schema[1] \in schema
    BY <2>2 DEF FirstOnes
  <2> QED
    BY <1>1, <2>1, <2>3
<1>10. Makes(p)'
  BY <1>1, <1>3, <1>8 DEF Makes, FirstOnes
<1>11. Holds(p)' /\ Finds(p)'
  BY <1>1 DEF StartupInv, Holds, Finds
<1>12. \A q \in Processes : Makes(q)' /\ Holds(q)' /\ Finds(q)'
  BY <1>1, <1>6, <1>9, <1>10, <1>11, OthersKeep
<1>13. OneMaker'
  BY <1>3, <1>9 DEF OneMaker
<1>14. FirstIsThere'
  BY <1>2, <1>8, SchemaFacts DEF FirstIsThere, FirstOnes
<1>15. HalfMadeNeedsKill'
  BY <1>1, <1>2, <1>3 DEF HalfMadeNeedsKill
<1> QED
  BY <1>1, <1>5, <1>12, <1>13, <1>14, <1>15 DEF StartupInv, OneImporter

\* A process that stops creating leaves all of its tables or none of them.
LEMMA StopCreatingKeepsInv ==
    ASSUME StartupInv, NEW p \in Processes, NEW to \in {"closing", "throwing"},
           Go(p, "creating", to), made' = [made EXCEPT ![p] = 0],
           made[p] > 0 => Tables \subseteq schema,
           UNCHANGED <<exists, schema, tasks, objects, importer, broken>>
    PROVE  StartupInv'
<1>1. /\ pc' \in [Processes -> States] /\ pc[p] = "creating" /\ pc'[p] = to
      /\ \A q \in Processes \ {p} : pc'[q] = pc[q]
      /\ StartupTypeOK
  BY GoKeepsTypes DEF StartupInv, States
<1>2. /\ made' \in [Processes -> 0..Len(Schema)]
      /\ made'[p] = 0
      /\ \A q \in Processes \ {p} : made'[q] = made[q]
  BY <1>1, SchemaFacts DEF StartupTypeOK
<1>3. StartupTypeOK'
  BY <1>1, <1>2 DEF StartupTypeOK
<1>4. OnlyOf(p)
  BY <1>1, <1>2 DEF OnlyOf
<1>5. Makes(p)' /\ Holds(p)' /\ Finds(p)'
  BY <1>1, <1>2 DEF StartupInv, Makes, Holds, Finds, Busy
<1>6. \A q \in Processes : Makes(q)' /\ Holds(q)' /\ Finds(q)'
  BY <1>4, <1>5, OthersKeep
<1>7. OneMaker' /\ OneImporter' /\ FirstIsThere'
  BY <1>2 DEF StartupInv, OneMaker, OneImporter, FirstIsThere
<1>8. HalfMadeNeedsKill'
  BY <1>1, <1>2 DEF StartupInv, HalfMadeNeedsKill
<1> QED
  BY <1>3, <1>6, <1>7, <1>8 DEF StartupInv

\* It fails at the first one, or because an importer, which has found all
\* tables, locks it out.
LEMMA CreateFailsKeepsInv ==
    ASSUME StartupInv, NEW p \in Processes, CreateFails(p)
    PROVE  StartupInv'
<1>1. /\ pc[p] = "creating" /\ made[p] # Len(Schema)
      /\ Schema[made[p] + 1] \in schema \/ importer # {}
      /\ StartupTypeOK
  BY DEF CreateFails, CheckFails, Go, Creates, CreatesAll, CanWrite, StartupInv
<1>2. ASSUME made[p] > 0 PROVE Tables \subseteq schema
  <2>1. CASE importer # {}
    BY <1>1, <2>1 DEF StartupInv, Finds, StartupTypeOK
  <2>2. CASE importer = {}
    <3>1. schema = FirstOnes(made[p]) /\ made[p] \in 0..Len(Schema)
      BY <1>1, <1>2 DEF StartupInv, Makes, StartupTypeOK
    <3>2. PICK i \in 1..made[p] : Schema[made[p] + 1] = Schema[i]
      BY <1>1, <2>2, <3>1 DEF FirstOnes
    <3>3. i \in 1..Len(Schema) /\ made[p] + 1 \in 1..Len(Schema) /\ i # made[p] + 1
      BY <1>1, <3>1, SchemaFacts
    <3> QED
      BY <3>2, <3>3, SchemaFacts
  <2> QED
    BY <2>1, <2>2
<1> QED
  BY <1>2, StopCreatingKeepsInv DEF CreateFails, CheckFails

LEMMA CreatedKeepsInv ==
    ASSUME StartupInv, NEW p \in Processes, Created(p)
    PROVE  StartupInv'
<1>1. made[p] > 0 => Tables \subseteq schema
  BY SchemaFacts DEF Created, CreatesAll, StartupInv, Makes
<1> QED
  BY <1>1, StopCreatingKeepsInv DEF Created

\* Only between two tables a kill leaves some and not the others.
LEMMA KillKeepsInv ==
    ASSUME StartupInv, NEW p \in Processes, Kill(p)
    PROVE  StartupInv'
<1>1. /\ pc' = [pc EXCEPT ![p] = "ended"]
      /\ tasks' = [tasks EXCEPT ![p] = <<>>]
      /\ made' = [made EXCEPT ![p] = 0]
      /\ objects' = [objects EXCEPT ![p] = <<>>]
      /\ importer' = importer \ {p}
      /\ exists' = exists /\ schema' = schema
      /\ StartupTypeOK /\ OneImporter /\ Makes(p) /\ Holds(p) /\ Finds(p)
  BY DEF Kill, StartupInv
<1>2. broken' = (broken \/ (pc[p] = "creating" /\ made[p] \in 1..(Len(Schema) - 1)))
  BY DEF Kill
<1>3. /\ pc' \in [Processes -> States] /\ tasks' \in [Processes -> Seq(Tasks)]
      /\ made' \in [Processes -> 0..Len(Schema)]
      /\ objects' \in [Processes -> Seq({Database, Statement})]
      /\ pc'[p] = "ended" /\ tasks'[p] = <<>> /\ made'[p] = 0 /\ objects'[p] = <<>>
  <2>1. "ended" \in States /\ <<>> \in Seq(Tasks) /\ 0 \in 0..Len(Schema)
        /\ <<>> \in Seq({Database, Statement})
    BY SchemaFacts DEF States
  <2> QED
    BY <1>1, <2>1 DEF StartupTypeOK
<1>4. OnlyOf(p)
  BY <1>1 DEF OnlyOf, StartupTypeOK
<1>5. broken' \in BOOLEAN
  BY <1>2
<1>6. StartupTypeOK'
  <2>1. importer' \subseteq Processes /\ Cardinality(importer') <= 1
    BY <1>1, ImporterLeaves
  <2>2. \A q \in Processes : objects'[q] # <<>> => objects'[q][1] = Database
    BY <1>1, <1>3, <1>4 DEF StartupTypeOK, OnlyOf
  <2> QED
    BY <1>1, <1>3, <1>5, <2>1, <2>2 DEF StartupTypeOK
<1>7. Makes(p)' /\ Holds(p)' /\ Finds(p)'
  BY <1>1, <1>3 DEF Makes, Holds, Finds, Busy
<1>8. \A q \in Processes : Makes(q)' /\ Holds(q)' /\ Finds(q)'
  BY <1>1, <1>4, <1>7, OthersKeep
<1>9. OneMaker' /\ OneImporter' /\ FirstIsThere'
  BY <1>1, <1>3, <1>4 DEF StartupInv, OneMaker, OneImporter, FirstIsThere, OnlyOf
<1>10. HalfMadeNeedsKill'
  <2> SUFFICES ASSUME schema \cap Tables \notin {{}, Tables}
               PROVE  broken' \/ \E q \in Processes : pc'[q] = "creating" /\ made'[q] > 0
    BY <1>1 DEF HalfMadeNeedsKill
  <2>1. CASE broken
    BY <1>2, <2>1
  <2>2. ASSUME NEW q \in Processes \ {p}, pc[q] = "creating", made[q] > 0
        PROVE  \E r \in Processes : pc'[r] = "creating" /\ made'[r] > 0
    BY <1>4, <2>2 DEF OnlyOf
  <2>3. ASSUME pc[p] = "creating", made[p] > 0 PROVE broken'
    <3>1. made[p] \in 1..Len(Schema) /\ Len(Schema) \in Nat
      BY <1>1, <2>3, SchemaFacts DEF StartupTypeOK
    <3>2. made[p] # Len(Schema)
      BY <1>1, <2>3, SchemaFacts DEF Makes
    <3>3. made[p] \in 1..(Len(Schema) - 1)
      BY <3>1, <3>2
    <3> QED
      BY <1>2, <2>3, <3>3
  <2> QED
    BY <2>1, <2>2, <2>3 DEF StartupInv, HalfMadeNeedsKill
<1> QED
  BY <1>6, <1>8, <1>9, <1>10 DEF StartupInv

-----------------------------------------------------------------------------
(* The theorems.                                                           *)

LEMMA StartupInitInv == StartupInit => StartupInv
<1> SUFFICES ASSUME StartupInit PROVE StartupInv
  OBVIOUS
<1>1. StartupTypeOK
  <2>1. <<>> \in Seq(Tasks) /\ <<>> \in Seq({Database, Statement}) /\ 0 \in 0..Len(Schema)
    BY SchemaFacts
  <2>2. Cardinality({}) = 0
    BY FS_EmptySet
  <2>3. importer \subseteq Processes /\ Cardinality(importer) <= 1
    BY <2>2 DEF StartupInit
  <2>4. pc \in [Processes -> States]
    BY DEF StartupInit, States
  <2>5. broken \in BOOLEAN /\ exists \in BOOLEAN
    BY DEF StartupInit
  <2> QED
    BY <2>1, <2>3, <2>4, <2>5 DEF StartupInit, StartupTypeOK
<1>2. \A p \in Processes : Makes(p) /\ Holds(p) /\ Finds(p)
  BY DEF StartupInit, Makes, Holds, Finds, Busy
<1> QED
  BY <1>1, <1>2 DEF StartupInit, StartupInv, OneMaker, OneImporter, FirstIsThere, HalfMadeNeedsKill

LEMMA StartupNextInv == StartupInv /\ [StartupNext]_startupVars => StartupInv'
<1> SUFFICES ASSUME StartupInv, [StartupNext]_startupVars PROVE StartupInv'
  OBVIOUS
<1>1. CASE UNCHANGED startupVars
  BY <1>1 DEF startupVars, StartupInv, StartupTypeOK, Makes, Holds, Finds, PreparedBy, Needs, OneMaker,
              OneImporter, FirstIsThere, HalfMadeNeedsKill
<1>2. ASSUME NEW p \in Processes, ProcessStep(p) PROVE StartupInv'
  BY <1>2, SetUnicodeLocaleKeepsInv, NextTaskKeepsInv, ExitKeepsInv,
     TableExistsKeepsInv, CreateKeepsInv, CreateFailsKeepsInv, CreatedKeepsInv,
     ReopenKeepsInv, PrepareKeepsInv, EndOfWorkKeepsInv, ServeKeepsInv,
     BeginImportKeepsInv, EndImportKeepsInv, DestroyObjectKeepsInv, DestroyedKeepsInv
     DEF ProcessStep
<1> QED
  BY <1>1, <1>2, StartKeepsInv, EndOfWorkKeepsInv, KillKeepsInv DEF StartupNext

LEMMA StartupInvariance == StartupSpec => []StartupInv
<1> QED
  BY StartupInitInv, StartupNextInv, PTL DEF StartupSpec

\* For any number of processes that start, fail and are killed in any order,
\* and any schema: who imports or serves has found all of its tables, and the
\* tables are half made only while a process is at it, or after one was
\* killed at it.
THEOREM WorkersFindTables == StartupSpec => []TablesComplete
<1>1. StartupInv => TablesComplete
  BY DEF StartupInv, TablesComplete, WorkersHaveTables, Finds
<1> QED
  BY <1>1, StartupInvariance, PTL
=============================================================================
