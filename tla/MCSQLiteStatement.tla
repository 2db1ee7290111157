------------------------- MODULE MCSQLiteStatement -------------------------
(* Objects of one kind can be exchanged for each other.                    *)
EXTENDS SQLiteStatement, TLC

Interchangeable ==
    Permutations(Statements) \cup Permutations(Columns) \cup Permutations(Prepared)
=============================================================================
