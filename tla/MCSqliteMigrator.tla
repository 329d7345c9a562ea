--------------------------- MODULE MCSqliteMigrator ---------------------------
(***************************************************************************)
(* The packages of files that the runs of SqliteMigrator ship.  A migrator *)
(* is named for its package; "a" and "b" ship the same one.                *)
(***************************************************************************)
EXTENDS SqliteMigrator

\* File number n.  Different texts have different checksums; there are ten names
\* per number, so that a renamed file keeps its place.
Plain(n)    == [name |-> 10 * n, sum |-> n, fk |-> TRUE, stmts |-> <<"ddl">>]
Edited(n)   == [Plain(n) EXCEPT !.sum = 10 + n]
Renamed(n)  == [Plain(n) EXCEPT !.name = 10 * n + 1]
\* A file that a merged branch puts between two others.
Inserted(n) == [Plain(n) EXCEPT !.name = 10 * n + 5, !.sum = 70 + n]
\* A table rebuild with the foreign_keys = off directive, and one that leaves
\* a violation behind.
Rebuild(n)  == [Plain(n) EXCEPT !.sum = 20 + n, !.fk = FALSE,
                                !.stmts = <<"break", "mend">>]
Careless(n) == [Plain(n) EXCEPT !.sum = 30 + n, !.fk = FALSE, !.stmts = <<"break">>]
Unsafe(n)   == [Plain(n) EXCEPT !.sum = 40 + n, !.stmts = <<"break">>]
Wrong(n)    == [Plain(n) EXCEPT !.sum = 50 + n, !.stmts = <<"ddl", "fail">>]
Sly(n)      == [Plain(n) EXCEPT !.sum = 60 + n, !.stmts = <<"ddl", "control">>]

Package(m) ==
  CASE m \in {"a", "b"} -> <<Plain(1), Rebuild(2), Plain(3)>>
    [] m = "edited"   -> <<Edited(1), Unsafe(2)>>
    [] m = "renamed"  -> <<Plain(1), Renamed(2), Sly(3)>>
    [] m = "careless" -> <<Plain(1), Careless(2)>>
    [] m = "merged"   -> <<Plain(1), Inserted(1), Renamed(2), Wrong(3)>>

Packages == [m \in Migrator |-> Package(m)]
=============================================================================
