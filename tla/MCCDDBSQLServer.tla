-------------------------- MODULE MCCDDBSQLServer ---------------------------
(* Two sessions for CDDBSQLServer.                                         *)
EXTENDS CDDBSQLServer, TLC

SessionSymmetry == Permutations(Sessions)
=============================================================================
