------------------------------- MODULE Batching -------------------------------
(* insert_many(): a long stream of rows split into INSERT statements that   *)
(* fit the parameter ceiling (_batching.py).  A row is the sequence of its   *)
(* cells; rows of another shape, which values_many() refuses, and rows       *)
(* without a column are left out.                                           *)
EXTENDS QueryRender, BatchPlan

\* The caller's statement over a batch: the same INSERT with those rows.
StatementOver(insert, batch) == [insert EXCEPT !.source[1].rows = batch]

\* A plain value binds one parameter, an expression as many as its rendering.
RowCost(row, d) == FoldLeft(LAMBDA n, cell : n + CountParameters(cell, d), 0, row)

\* What a one-row statement binds besides its row, counted on the first row.
FixedCost(insert, stream, d) ==
  IF stream = <<>> THEN 0
  ELSE CountParameters(StatementOver(insert, <<stream[1]>>), d) - RowCost(stream[1], d)

\* The statements yielded over a stream.
BatchRows(stream, insert, d) ==
  Batches([rows    |-> stream,
           costs   |-> [n \in DOMAIN stream |-> RowCost(stream[n], d)],
           fixed   |-> FixedCost(insert, stream, d),
           ceiling |-> MaxParameters])
=============================================================================
