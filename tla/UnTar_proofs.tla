----------------------------- MODULE UnTar_proofs -----------------------------
(***************************************************************************)
(* Proofs about UnTar, for archives of any length with members of any      *)
(* size: the reader stays in step.                                         *)
(***************************************************************************)
EXTENDS UnTar, TLAPS

\* Data and padding are whole blocks, and no more than the data needs
\* (untar.cpp:238).
LEMMA PaddingFills ==
    ASSUME NEW size \in Nat
    PROVE  /\ Padding(size) \in 0..(HeaderLen - 1)
           /\ HeaderLen + size + Padding(size)
                = HeaderLen * (1 + (size + HeaderLen - 1) \div HeaderLen)
BY DEF Padding, HeaderLen

\* A member with data is longer than its header, one without is not.
LEMMA SpanOfMember ==
    ASSUME NEW m \in Members
    PROVE  /\ Span(m) \in Nat
           /\ m.size = 0 => Span(m) = HeaderLen
           /\ m.size > 0 => Span(m) > HeaderLen
BY DEF Span, HeaderLen, Members

\* The reader is at a header or at the end of the archive, unless it left the
\* data of a header that it does not take for that of a file behind.
InStep ==
    /\ at # 0 =>
        /\ next \in DOMAIN tape
        /\ tape[next].type \in {"longname", "other"}
        /\ tape[next].size > 0
    /\ entrytype = "longname1" => at # 0

Inv == TypeOK /\ PassedAreDelivered /\ EndIsComplete /\ WholeIsRead /\ InStep

LEMMA TapeType ==
    ASSUME TypeOK
    PROVE  /\ tape \in Seq(Members) /\ Len(tape) \in Nat /\ DOMAIN tape = 1..Len(tape)
           /\ \A i \in DOMAIN tape :
                /\ tape[i] \in Members
                /\ tape[i].type \notin {"file", "longname", "other"} => tape[i].size = 0
                /\ tape[i].type = "longname" => tape[i].size > 0
                /\ tape[i].zeros => tape[i].type \in {"file", "other"}
<1>1. tape \in Seq(Members)
    BY ArchivesAssumption DEF TypeOK
<1>2. Len(tape) \in Nat /\ DOMAIN tape = 1..Len(tape)
    BY <1>1
<1>3. \A i \in DOMAIN tape : tape[i] \in Members
    BY <1>1, <1>2
<1>4. \A i \in DOMAIN tape :
        /\ tape[i].type \notin {"file", "longname", "other"} => tape[i].size = 0
        /\ tape[i].type = "longname" => tape[i].size > 0
        /\ tape[i].zeros => tape[i].type \in {"file", "other"}
    BY ArchivesAssumption DEF TypeOK
<1> QED  BY <1>1, <1>2, <1>3, <1>4

LEMMA InitInv == Init => Inv
<1> SUFFICES ASSUME Init PROVE Inv
    OBVIOUS
<1>1. tape \in Seq(Members)
    BY ArchivesAssumption DEF Init
<1>2. Len(tape) \in Nat /\ DOMAIN tape = 1..Len(tape)
    BY <1>1
<1>3. TypeOK
    <2>1. next \in 1..(Len(tape) + 1) /\ at \in Nat
        BY <1>2 DEF Init
    <2> QED  BY <2>1 DEF Init, TypeOK
<1>4. PassedAreDelivered
    BY <1>2 DEF Init, PassedAreDelivered, Wanted
<1> QED
    BY <1>3, <1>4 DEF Init, Inv, EndIsComplete, WholeIsRead, InStep

\* A whole file is read, and the reader is at the next member.
LEMMA ReadFileInv == Inv /\ ReadFile => Inv'
<1> SUFFICES ASSUME Inv, ReadFile PROVE Inv'
    OBVIOUS
<1> DEFINE m == tape[next]
<1>1. /\ next \in 1..Len(tape) /\ DOMAIN tape = 1..Len(tape) /\ Len(tape) \in Nat
      /\ m \in Members /\ m.size \in Nat
      /\ at = 0
    BY TapeType DEF Inv, ReadFile, Reading, AtHeader, TypeOK, Members
<1>2. m.type = "file"
    BY DEF ReadFile, NewType
<1>3. HeaderLen + m.size + Padding(m.size) = Span(m) /\ Span(m) \in Nat
    BY <1>1, PaddingFills, SpanOfMember DEF Span
<1>4. next' = next + 1 /\ at' = 0
    BY <1>1, <1>3 DEF ReadFile, Advance
<1>5. TypeOK'
    <2>1. tape' = tape
        BY DEF ReadFile
    <2>2. (next \in 1..(Len(tape) + 1) /\ at \in Nat)'
        BY <1>1, <1>4, <2>1
    <2>3. (delivered \subseteq DOMAIN tape)'
        BY <1>1, <2>1 DEF Inv, ReadFile, TypeOK
    <2> QED  BY <2>1, <2>2, <2>3 DEF Inv, ReadFile, TypeOK
<1>6. PassedAreDelivered'
    <2>1. Wanted' = Wanted /\ (next \in Wanted <=> ~m.fork)
        BY <1>1, <1>2 DEF ReadFile, Wanted
    <2>2. {i \in Wanted : i < next + 1}
            = {i \in Wanted : i < next} \cup (Wanted \cap {next})
        BY <1>1 DEF Wanted
    <2>3. delivered' = IF m.fork THEN delivered ELSE delivered \cup {next}
        BY DEF ReadFile
    <2> QED  BY <1>4, <2>1, <2>2, <2>3 DEF Inv, PassedAreDelivered
<1>7. EndIsComplete' /\ WholeIsRead' /\ InStep'
    BY <1>4 DEF ReadFile, Reading, EndIsComplete, WholeIsRead, InStep
<1> QED  BY <1>5, <1>6, <1>7 DEF Inv

\* A header without data is passed, and one with data is followed by them.
LEMMA SkipEntryInv == Inv /\ SkipEntry => Inv'
<1> SUFFICES ASSUME Inv, SkipEntry PROVE Inv'
    OBVIOUS
<1> DEFINE m == tape[next]
<1>1. /\ next \in 1..Len(tape) /\ DOMAIN tape = 1..Len(tape) /\ Len(tape) \in Nat
      /\ m \in Members /\ m.size \in Nat /\ m.type \in Types
      /\ at = 0
    BY TapeType DEF Inv, SkipEntry, Reading, AtHeader, TypeOK, Members
<1>2. m.type # "file" /\ entrytype # "longname1"
    BY <1>1 DEF SkipEntry, NewType, Inv, InStep
<1>3. /\ m.type \notin {"file", "longname", "other"} => m.size = 0
      /\ m.type = "longname" => m.size > 0
    BY <1>1, TapeType DEF Inv
<1>4. CASE m.size = 0
    <2>1. next' = next + 1 /\ at' = 0
        BY <1>1, <1>4, SpanOfMember DEF SkipEntry, Advance, HeaderLen
    <2>2. entrytype' # "longname1" /\ entrytype' \in {"unknown", "directory", "link", "fifo"}
        BY <1>1, <1>2, <1>3, <1>4 DEF SkipEntry, NewType, Types
    <2>3. TypeOK'
        BY <1>1, <2>1, <2>2 DEF Inv, SkipEntry, TypeOK
    <2>4. PassedAreDelivered'
        BY <1>1, <1>2, <2>1 DEF Inv, SkipEntry, PassedAreDelivered, Wanted
    <2>5. EndIsComplete' /\ WholeIsRead' /\ InStep'
        BY <2>1, <2>2 DEF SkipEntry, Reading, EndIsComplete, WholeIsRead, InStep
    <2> QED  BY <2>3, <2>4, <2>5 DEF Inv
<1>5. CASE m.size > 0
    <2>1. next' = next /\ at' = HeaderLen
        BY <1>1, <1>5, SpanOfMember DEF SkipEntry, Advance, HeaderLen
    <2>2. m.type \in {"longname", "other"}
        BY <1>2, <1>3, <1>5
    <2>3. entrytype' \in {"unknown", "longname1"}
        BY <1>2, <2>2 DEF SkipEntry, NewType
    <2>4. TypeOK'
        BY <1>1, <2>1, <2>3 DEF Inv, SkipEntry, TypeOK, HeaderLen
    <2>5. PassedAreDelivered'
        BY <1>1, <2>1 DEF Inv, SkipEntry, PassedAreDelivered, Wanted
    <2>6. EndIsComplete' /\ WholeIsRead' /\ InStep'
        BY <1>1, <1>5, <2>1, <2>2 DEF SkipEntry, Reading, EndIsComplete, WholeIsRead, InStep, HeaderLen
    <2> QED  BY <2>4, <2>5, <2>6 DEF Inv
<1> QED  BY <1>1, <1>4, <1>5

LEMMA NextInv == Inv /\ [Next]_vars => Inv'
<1> SUFFICES ASSUME Inv, [Next]_vars PROVE Inv'
    OBVIOUS
<1>1. CASE ReadFile
    BY <1>1, ReadFileInv
<1>2. CASE SkipEntry
    BY <1>2, SkipEntryInv
<1>3. CASE EndHeader
    <2>1. next \in DOMAIN tape => InZeroData
        <3>1. next \in DOMAIN tape =>
                at # 0 /\ tape[next].zeros /\ tape[next].type \in {"longname", "other"}
            BY <1>3 DEF EndHeader, AtZeros, Inv, InStep
        <3> QED  BY <3>1, TapeType DEF Inv, InZeroData
    <2>2. EndIsComplete'
        <3>1. /\ tape' = tape /\ delivered' = delivered /\ next' = next /\ at' = at
            BY <1>3 DEF EndHeader, Stop
        <3>2. CASE next \in DOMAIN tape
            BY <2>1, <3>1, <3>2 DEF EndIsComplete, InZeroData
        <3>3. CASE next \notin DOMAIN tape
            <4>1. next = Len(tape) + 1 /\ DOMAIN tape = 1..Len(tape) /\ Len(tape) \in Nat
                BY <3>3, TapeType DEF Inv, TypeOK
            <4>2. {i \in Wanted : i < next} = Wanted
                BY <4>1 DEF Wanted
            <4> QED  BY <3>1, <4>2 DEF Inv, EndIsComplete, PassedAreDelivered, Wanted
        <3> QED  BY <3>2, <3>3
    <2> QED
        BY <1>3, <2>2 DEF EndHeader, Stop, Inv, TypeOK, PassedAreDelivered, Wanted,
            WholeIsRead, InStep
<1>4. CASE BadHeader
    <2>1. at # 0
        BY <1>4, TapeType DEF BadHeader, AtZeros, AtHeader, Inv, TypeOK
    <2>2. WholeIsRead'
        BY <1>4, <2>1 DEF BadHeader, Stop, Inv, InStep, WholeIsRead
    <2> QED
        BY <1>4, <2>2 DEF BadHeader, Stop, Inv, TypeOK, PassedAreDelivered, Wanted,
            EndIsComplete, InStep
<1>5. CASE ShortRead \/ CannotOpen \/ StreamEnd
    BY <1>5 DEF ShortRead, CannotOpen, StreamEnd, Stop, Inv, TypeOK, PassedAreDelivered, Wanted,
        EndIsComplete, WholeIsRead, InStep
<1>6. CASE UNCHANGED vars
    BY <1>6 DEF vars, Inv, TypeOK, PassedAreDelivered, Wanted,
        EndIsComplete, InZeroData, WholeIsRead, InStep
<1> QED
    BY <1>1, <1>2, <1>3, <1>4, <1>5, <1>6 DEF Next, Entry

\* The invariant of the reader holds wherever it stops.
THEOREM ReaderInvariance == Spec => []Inv
BY InitInv, NextInv, PTL DEF Spec

\* The position never leaves the archive, and what was returned is of it
\* (untar.cpp:214).
THEOREM ReaderTypes == Spec => []TypeOK
<1>1. Inv => TypeOK
    BY DEF Inv
<1> QED  BY ReaderInvariance, <1>1, PTL

\* What import() gets are the files the reader has passed, and no others.
THEOREM FilesAreDelivered == Spec => []PassedAreDelivered
<1>1. Inv => PassedAreDelivered
    BY DEF Inv
<1> QED  BY ReaderInvariance, <1>1, PTL

\* The end of an archive that is reported is its end: every file was returned,
\* unless the reader takes zero data of a type it does not know for the end
\* (untar.cpp:80, 182).
THEOREM EndIsTheEnd == Spec => []EndIsComplete
<1>1. Inv => EndIsComplete
    BY DEF Inv
<1> QED  BY ReaderInvariance, <1>1, PTL

\* The reader fails at a header only where there are data it does not skip.
THEOREM StaysInStep == Spec => []WholeIsRead
<1>1. Inv => WholeIsRead
    BY DEF Inv
<1> QED  BY ReaderInvariance, <1>1, PTL
=============================================================================
