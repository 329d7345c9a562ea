--------------------------- MODULE MigrationHistory ---------------------------
(***************************************************************************)
(* What a migrator promises, whatever the database: the committed schema   *)
(* and the history table change together, one whole file at a time, and    *)
(* the file that a migrator applies is the next one after a history that   *)
(* is a prefix of the files it ships.                                      *)
(***************************************************************************)
EXTENDS MigrationFiles

VARIABLES
  history,  \* committed rows of the history table, in order
  schema    \* statements whose effects are committed, in order

HistoryInit == history = <<>> /\ schema = <<>>

\* History holds the first n files of this package, unmodified.
IsPrefix(files, n) ==
  /\ n = Len(history)
  /\ n <= Len(files)
  /\ \A i \in 1 .. n : history[i] = Row(files[i])

ApplyFile(m) ==
  \E n \in 1 .. Len(Shipped[m]) :
    /\ IsPrefix(Shipped[m], n - 1)
    /\ history' = Append(history, Row(Shipped[m][n]))
    /\ schema' = schema \o Whole(Shipped[m][n])

HistoryNext == \E m \in Migrator : ApplyFile(m)

Spec == HistoryInit /\ [][HistoryNext]_<<history, schema>>
=============================================================================
