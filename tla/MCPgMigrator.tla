----------------------------- MODULE MCPgMigrator -----------------------------
(***************************************************************************)
(* The packages of files that the runs of PgMigrator ship.  A migrator is  *)
(* named for its package.                                                  *)
(***************************************************************************)
EXTENDS PgMigrator

\* File number n; different texts have different checksums.
Plain(n)     == [name |-> 10 * n, sum |-> n, fk |-> TRUE, stmts |-> <<"ddl">>]
Moves(n)     == [Plain(n) EXCEPT !.sum = 10 + n, !.stmts = <<"path", "ddl">>]
Directive(n) == [Plain(n) EXCEPT !.sum = 20 + n, !.fk = FALSE]
Sly(n)       == [Plain(n) EXCEPT !.sum = 30 + n, !.stmts = <<"ddl", "control">>]

Package(m) ==
  CASE m = "a"      -> <<Moves(1), Plain(2), Plain(3)>>
    [] m = "sly"    -> <<Moves(1), Plain(2), Sly(3)>>
    [] m = "sqlite" -> <<Moves(1), Directive(2)>>

Packages == [m \in Migrator |-> Package(m)]
=============================================================================
