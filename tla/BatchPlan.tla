------------------------------ MODULE BatchPlan ------------------------------
(* batch_rows(): where a stream of rows is cut into statements.  A job has   *)
(* the rows, the parameters that each of them binds, those that the          *)
(* statement binds besides its rows, and the ceiling (_batching.py).         *)
EXTENDS Integers, Sequences

\* Nothing yielded yet; the statement's own parameters are always used.
NoBatch(job) == [out |-> <<>>, batch |-> <<>>, used |-> job.fixed, failed |-> FALSE]

\* Mutant of Flushed: the next batch starts as if nothing but rows bound values.
FlushedToZero(b, job) == [b EXCEPT !.out = Append(@, b.batch), !.batch = <<>>, !.used = 0]
Flushed(b, job) == [b EXCEPT !.out = Append(@, b.batch), !.batch = <<>>, !.used = job.fixed]

\* The n-th row may close the batch before it.
PlaceRow(b, n, job) ==
  LET cost == job.costs[n]
      room == IF b.used + cost > job.ceiling THEN Flushed(b, job) ELSE b
  IN  [room EXCEPT !.batch = Append(@, job.rows[n]), !.used = @ + cost]

\* A row that fits no batch ends the stream with an error.
TakeRow(b, n, job) ==
  IF b.failed THEN b
  ELSE IF job.fixed + job.costs[n] > job.ceiling THEN [b EXCEPT !.failed = TRUE]
  ELSE PlaceRow(b, n, job)

\* The batches after each number of rows.
Filling(job) ==
  LET fill[n \in 0 .. Len(job.rows)] ==
        IF n = 0 THEN NoBatch(job) ELSE TakeRow(fill[n - 1], n, job)
  IN  fill

\* What was yielded; the pending batch of a stream that failed is lost.
Batches(job) ==
  LET end == Filling(job)[Len(job.rows)]
  IN  IF end.failed \/ end.batch = <<>> THEN end ELSE Flushed(end, job)
=============================================================================
