--------------------------- MODULE MCPgTransactions ---------------------------
(* Instances of PgTransactions for TLC.                                     *)
EXTENDS PgTransactions, TLC

TaskSymmetry == Permutations(Task)
=============================================================================
