---------------------------- MODULE MigrationFiles ----------------------------
(***************************************************************************)
(* Migration files, the rows of a history table, and the check that both   *)
(* migrators make before they apply anything (pending_migrations).         *)
(*                                                                         *)
(* A package ships its files in name order, so Shipped[m] is the sequence  *)
(* that FileMigrationProvider.migrations() returns to migrator m.  Two     *)
(* migrators may run different versions of a package.  The text of a file  *)
(* is the sequence of its statements, each reduced to what it does:        *)
(*   "ddl"      changes the schema                                         *)
(*   "break"    leaves a foreign-key violation, "mend" removes it          *)
(*   "path"     changes the search_path of a PostgreSQL session            *)
(*   "fail"     is rejected by the database                                *)
(*   "control"  is transaction control, which a migrator rejects           *)
(***************************************************************************)
EXTENDS Naturals, Sequences

CONSTANTS
  Migrator,  \* processes that run migrate_to_latest on one database
  Shipped    \* Shipped[m]: the files migrator m's provider reads, in order

Kind == {"ddl", "break", "mend", "path", "fail", "control"}
File == [name: Nat, sum: Nat, fk: BOOLEAN, stmts: Seq(Kind)]

\* What the provider guarantees of the files it returns.
ASSUME ShippedAssumption ==
  /\ Shipped \in [Migrator -> Seq(File)]
  /\ \A m \in Migrator : \A i, j \in DOMAIN Shipped[m] :
       i < j => Shipped[m][i].name < Shipped[m][j].name

\* A history row; the history is the sequence of rows in commit order.
Row(f) == [name |-> f.name, sum |-> f.sum]
Rows == [name: Nat, sum: Nat]

\* The statements of a file, as the schema records that they ran.
Ran(f, i) == <<f.name, f.sum, i>>
Whole(f) == [i \in DOMAIN f.stmts |-> Ran(f, i)]

IsApplied(f, rows) == \E i \in DOMAIN rows : rows[i].name = f.name

Unknown(files, rows) ==
  \E i \in DOMAIN rows : \A j \in DOMAIN files : files[j].name # rows[i].name

Modified(files, rows) ==
  \E i \in DOMAIN rows, j \in DOMAIN files :
    files[j].name = rows[i].name /\ files[j].sum # rows[i].sum

\* A later file is applied although an earlier one is not.
OutOfOrder(files, rows) ==
  \E i, j \in DOMAIN files :
    i < j /\ ~IsApplied(files[i], rows) /\ IsApplied(files[j], rows)

\* Mutant of HistoryRefused: an edited file is let through.
HistoryTrusted(files, rows) == Unknown(files, rows) \/ OutOfOrder(files, rows)

\* pending_migrations raises MigrationError.
HistoryRefused(files, rows) ==
  Unknown(files, rows) \/ Modified(files, rows) \/ OutOfOrder(files, rows)

\* The index of the first pending file, Len(files) + 1 when none is.
FirstPending(files, rows) ==
  CHOOSE i \in 1 .. Len(files) + 1 :
    /\ i <= Len(files) => ~IsApplied(files[i], rows)
    /\ \A j \in 1 .. i - 1 : IsApplied(files[j], rows)
=============================================================================
