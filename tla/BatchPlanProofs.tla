---------------------------- MODULE BatchPlanProofs ----------------------------
(***************************************************************************)
(* What batch_rows() yields for every stream of rows, every cost of a row, *)
(* every statement and every ceiling: consecutive pieces of the stream,    *)
(* each within the ceiling and none that could have taken the next row,    *)
(* and no other way to cut the stream needs fewer statements.              *)
(*                                                                         *)
(* Both the batches and the running totals are recursive functions over    *)
(* the positions of the stream.  Recursion shows that such a function      *)
(* exists and so satisfies its own equation; UpTo is induction on the      *)
(* position, as the least position outside a set of positions.             *)
(***************************************************************************)
EXTENDS BatchPlan, SequenceTheorems, WellFoundedInduction, TLAPS

\* The streams that batch_rows() accepts: a cost for every row.
Jobs(R) ==
  {job \in [rows : Seq(R), costs : Seq(Nat), fixed : Nat, ceiling : Nat] :
     Len(job.costs) = Len(job.rows)}

\* The parameters of the first k rows, for each k.
Total(job) ==
  LET total[k \in 0 .. Len(job.rows)] ==
        IF k = 0 THEN 0 ELSE total[k - 1] + job.costs[k]
  IN  total

\* What a statement over the rows after from, up to to, binds.
Spent(job, from, to) == job.fixed + Total(job)[to] - Total(job)[from]

\* Some rows, that fit together, and not together with the row after them.
Piece(job, batch, from, to) ==
  /\ from < to
  /\ batch = SubSeq(job.rows, from + 1, to)
  /\ Spent(job, from, to) <= job.ceiling
  /\ to < Len(job.rows) => Spent(job, from, to + 1) > job.ceiling

\* The statements are the pieces between one cut and the next.
Pieces(job, out, cut, n) ==
  /\ cut \in [0 .. Len(out) -> 0 .. n]
  /\ cut[0] = 0
  /\ \A i \in 1 .. Len(out) : Piece(job, out[i], cut[i - 1], cut[i])

\* A row fits a statement of its own.
FitsAlone(job, n) == job.fixed + job.costs[n] <= job.ceiling

\* The whole stream was yielded; or all but the rows that a row too large for
\* any statement came with, and before it there was none.
Split(job, end) ==
  \E cut : 
    /\ Pieces(job, end.out, cut, Len(job.rows))
    /\ IF end.failed
       THEN \E n \in cut[Len(end.out)] + 1 .. Len(job.rows) :
              ~FitsAlone(job, n) /\ \A k \in 1 .. n - 1 : FitsAlone(job, k)
       ELSE /\ cut[Len(end.out)] = Len(job.rows)
            /\ \A k \in 1 .. Len(job.rows) : FitsAlone(job, k)

\* Another way to cut a stream into statements that fit.
Cuts(job, d, m) ==
  /\ d \in [0 .. m -> 0 .. Len(job.rows)]
  /\ d[0] = 0 /\ d[m] = Len(job.rows)
  /\ \A i \in 1 .. m : d[i - 1] <= d[i] /\ Spent(job, d[i - 1], d[i]) <= job.ceiling
-----------------------------------------------------------------------------
(* Recursive functions over the positions of a stream.                     *)

\* Induction up to N.
LEMMA UpTo ==
  ASSUME NEW N \in Nat, NEW S, 0 \in S, \A n \in 1 .. N : n - 1 \in S => n \in S
  PROVE  0 .. N \subseteq S
<1> DEFINE T == (0 .. N) \ S
<1> SUFFICES ASSUME T # {} PROVE FALSE
  OBVIOUS
<1>1. T \subseteq Nat
  OBVIOUS
<1>2. PICK x \in T : \A y \in T : ~(<<y, x>> \in OpToRel(<, Nat))
  <2> HIDE DEF T
  <2> QED BY <1>1, NatLessThanWellFounded, WFMin
<1>3. x \in 1 .. N /\ x - 1 \in 0 .. N /\ x - 1 < x
  OBVIOUS
<1>4. x - 1 \in T
  BY <1>3
<1>5. <<x - 1, x>> \in OpToRel(<, Nat)
  BY <1>3 DEF OpToRel
<1> QED BY <1>2, <1>4, <1>5

\* A function over the positions that takes one step from each to the next.
Stepwise(N, V, base, step) ==
  \E f \in [0 .. N -> V] : f[0] = base /\ \A k \in 1 .. N : f[k] = step[k][f[k - 1]]

\* Whatever the steps are, there is such a function.
LEMMA Recursion ==
  ASSUME NEW N \in Nat, NEW V, NEW base \in V, NEW step \in [1 .. N -> [V -> V]]
  PROVE  Stepwise(N, V, base, step)
<1> DEFINE Upto(n, f) ==
             f[0] = base /\ \A k \in 1 .. n : f[k] = step[k][f[k - 1]]
           S == {n \in 0 .. N : \E f \in [0 .. n -> V] : Upto(n, f)}
<1>1. 0 \in S
  <2> DEFINE f == [k \in 0 .. 0 |-> base]
  <2>1. f \in [0 .. 0 -> V] /\ Upto(0, f)
    OBVIOUS
  <2> HIDE DEF f, Upto
  <2>2. \E g \in [0 .. 0 -> V] : Upto(0, g)
    BY <2>1
  <2> QED BY <2>2
<1>2. ASSUME NEW n \in 1 .. N, n - 1 \in S PROVE n \in S
  <2>1. PICK f \in [0 .. n - 1 -> V] : Upto(n - 1, f)
    BY <1>2
  <2> DEFINE g == [k \in 0 .. n |-> IF k = n THEN step[n][f[n - 1]] ELSE f[k]]
  <2>2. n - 1 \in 0 .. n - 1 /\ f[n - 1] \in V /\ step[n] \in [V -> V]
    OBVIOUS
  <2>3. g \in [0 .. n -> V]
    BY <2>2
  <2>4. g[0] = base
    BY <2>1
  <2>5. ASSUME NEW k \in 1 .. n PROVE g[k] = step[k][g[k - 1]]
    <3>1. g[k - 1] = f[k - 1]
      OBVIOUS
    <3>2. CASE k = n
      BY <3>1, <3>2
    <3>3. CASE k # n
      <4>1. k \in 1 .. n - 1 /\ g[k] = f[k]
        BY <3>3
      <4> QED BY <2>1, <3>1, <4>1
    <3> QED BY <3>2, <3>3
  <2>6. Upto(n, g)
    BY <2>4, <2>5
  <2> HIDE DEF g, Upto
  <2>7. \E h \in [0 .. n -> V] : Upto(n, h)
    BY <2>3, <2>6
  <2> QED BY <2>7
<1>3. 0 .. N \subseteq S
  <2> HIDE DEF S
  <2> QED BY <1>1, <1>2, UpTo
<1> QED BY <1>3 DEF Stepwise

\* The running total is what its definition says, for every stream.
LEMMA TotalDef ==
  ASSUME NEW R, NEW job \in Jobs(R)
  PROVE  /\ Total(job) \in [0 .. Len(job.rows) -> Nat]
         /\ Total(job)[0] = 0
         /\ \A k \in 1 .. Len(job.rows) : Total(job)[k] = Total(job)[k - 1] + job.costs[k]
<1> DEFINE N == Len(job.rows)
           step == [k \in 1 .. N |-> [v \in Nat |-> v + job.costs[k]]]
           Fun(t) == [k \in 0 .. N |-> IF k = 0 THEN 0 ELSE t[k - 1] + job.costs[k]]
<1>1. N \in Nat /\ \A k \in 1 .. N : job.costs[k] \in Nat
  BY LenProperties, ElementOfSeq DEF Jobs
<1>2. step \in [1 .. N -> [Nat -> Nat]]
  BY <1>1
<1>3. PICK f \in [0 .. N -> Nat] : f[0] = 0 /\ \A k \in 1 .. N : f[k] = step[k][f[k - 1]]
  <2> HIDE DEF step, N
  <2>1. Stepwise(N, Nat, 0, step)
    BY <1>1, <1>2, Recursion
  <2> QED BY <2>1 DEF Stepwise
<1>4. ASSUME NEW k \in 0 .. N PROVE f[k] = Fun(f)[k]
  <2>1. CASE k = 0
    BY <1>3, <2>1
  <2>2. CASE k # 0
    <3>1. k \in 1 .. N /\ k - 1 \in 0 .. N
      BY <1>1, <2>2
    <3>2. f[k - 1] \in Nat
      BY <3>1
    <3> QED BY <1>3, <2>2, <3>1, <3>2
  <2> QED BY <2>1, <2>2
<1>5. f = Fun(f)
  BY <1>4
<1>6. Total(job) = (CHOOSE t : t = Fun(t))
  BY DEF Total
<1>7. Total(job) = Fun(Total(job))
  <2> HIDE DEF Fun
  <2> QED BY <1>5, <1>6
<1> DEFINE t == Total(job)
<1> HIDE DEF t, N
<1>8. t = Fun(t)
  BY <1>7 DEF t, N
<1>9. t[0] = 0 /\ \A k \in 1 .. N : t[k] = t[k - 1] + job.costs[k]
  BY <1>1, <1>8
<1>10. 0 .. N \subseteq {k \in 0 .. N : t[k] \in Nat}
  <2> DEFINE S == {k \in 0 .. N : t[k] \in Nat}
  <2>1. 0 \in S
    BY <1>1, <1>9
  <2>2. ASSUME NEW k \in 1 .. N, k - 1 \in S PROVE k \in S
    <3>1. t[k - 1] \in Nat /\ job.costs[k] \in Nat /\ t[k] = t[k - 1] + job.costs[k]
      BY <1>1, <1>9, <2>2
    <3> QED BY <1>1, <3>1
  <2> HIDE DEF S
  <2>3. 0 .. N \subseteq S
    BY <1>1, <2>1, <2>2, UpTo
  <2> QED BY <2>3 DEF S
<1>11. t \in [0 .. N -> Nat]
  BY <1>8, <1>10
<1> QED BY <1>9, <1>11 DEF t, N

\* The batches on the way: the rows of each come from the stream.
States(R) == [out : Seq(Seq(R)), batch : Seq(R), used : Nat, failed : BOOLEAN]

\* Each row leads from batches to batches.
LEMMA TakeRowType ==
  ASSUME NEW R, NEW job \in Jobs(R), NEW n \in 1 .. Len(job.rows), NEW b \in States(R)
  PROVE  TakeRow(b, n, job) \in States(R)
<1>1. job.rows[n] \in R /\ job.costs[n] \in Nat /\ job.fixed \in Nat /\ job.ceiling \in Nat
  BY LenProperties, ElementOfSeq DEF Jobs
<1>2. Flushed(b, job) \in States(R)
  <2>1. b.out \in Seq(Seq(R)) /\ b.batch \in Seq(R)
    BY DEF States
  <2>2. Append(b.out, b.batch) \in Seq(Seq(R)) /\ <<>> \in Seq(R)
    BY <2>1
  <2> QED BY <1>1, <2>2 DEF Flushed, States
<1>3. ASSUME NEW room \in States(R)
      PROVE  [room EXCEPT !.batch = Append(@, job.rows[n]), !.used = @ + job.costs[n]] \in States(R)
  <2>1. room.batch \in Seq(R) /\ room.used \in Nat
    BY DEF States
  <2>2. Append(room.batch, job.rows[n]) \in Seq(R) /\ room.used + job.costs[n] \in Nat
    BY <1>1, <2>1
  <2> QED BY <2>2 DEF States
<1>4. PlaceRow(b, n, job) \in States(R)
  BY <1>2, <1>3 DEF PlaceRow
<1>5. [b EXCEPT !.failed = TRUE] \in States(R)
  BY DEF States
<1> QED BY <1>4, <1>5 DEF TakeRow

\* The batches after each row are what their definition says.
LEMMA FillingDef ==
  ASSUME NEW R, NEW job \in Jobs(R)
  PROVE  /\ Filling(job) \in [0 .. Len(job.rows) -> States(R)]
         /\ Filling(job)[0] = NoBatch(job)
         /\ \A n \in 1 .. Len(job.rows) :
              Filling(job)[n] = TakeRow(Filling(job)[n - 1], n, job)
<1> DEFINE N == Len(job.rows)
           step == [k \in 1 .. N |-> [v \in States(R) |-> TakeRow(v, k, job)]]
           Fun(t) == [n \in 0 .. N |-> IF n = 0 THEN NoBatch(job) ELSE TakeRow(t[n - 1], n, job)]
<1>1. N \in Nat /\ NoBatch(job) \in States(R)
  BY LenProperties DEF Jobs, NoBatch, States
<1>2. step \in [1 .. N -> [States(R) -> States(R)]]
  BY TakeRowType
<1>3. PICK f \in [0 .. N -> States(R)] :
        f[0] = NoBatch(job) /\ \A k \in 1 .. N : f[k] = step[k][f[k - 1]]
  <2> HIDE DEF step, N
  <2>1. Stepwise(N, States(R), NoBatch(job), step)
    BY <1>1, <1>2, Recursion
  <2> QED BY <2>1 DEF Stepwise
<1>4. ASSUME NEW k \in 0 .. N PROVE f[k] = Fun(f)[k]
  <2>1. CASE k = 0
    BY <1>3, <2>1
  <2>2. CASE k # 0
    <3>1. k \in 1 .. N /\ k - 1 \in 0 .. N
      BY <1>1, <2>2
    <3>2. f[k - 1] \in States(R)
      BY <3>1
    <3> QED BY <1>3, <2>2, <3>1, <3>2
  <2> QED BY <2>1, <2>2
<1>5. f = Fun(f)
  BY <1>4
<1>6. Filling(job) = (CHOOSE t : t = Fun(t))
  BY DEF Filling
<1>7. Filling(job) = Fun(Filling(job))
  <2> HIDE DEF Fun
  <2> QED BY <1>5, <1>6
<1> DEFINE t == Filling(job)
<1> HIDE DEF t, N
<1>8. t = Fun(t)
  BY <1>7 DEF t, N
<1>9. t[0] = NoBatch(job) /\ \A k \in 1 .. N : t[k] = TakeRow(t[k - 1], k, job)
  <2>1. 0 \in 0 .. N /\ \A k \in 1 .. N : k \in 0 .. N /\ k # 0
    BY <1>1
  <2>2. \A n \in 0 .. N : Fun(t)[n] = IF n = 0 THEN NoBatch(job) ELSE TakeRow(t[n - 1], n, job)
    OBVIOUS
  <2> HIDE DEF Fun
  <2> QED BY <1>8, <2>1, <2>2
<1>10. 0 .. N \subseteq {k \in 0 .. N : t[k] \in States(R)}
  <2> DEFINE S == {k \in 0 .. N : t[k] \in States(R)}
  <2>1. 0 \in S
    BY <1>1, <1>9
  <2>2. ASSUME NEW k \in 1 .. N, k - 1 \in S PROVE k \in S
    <3>1. TakeRow(t[k - 1], k, job) \in States(R)
      BY <2>2, TakeRowType DEF N
    <3> QED BY <1>1, <1>9, <3>1
  <2> HIDE DEF S
  <2>3. 0 .. N \subseteq S
    BY <1>1, <2>1, <2>2, UpTo
  <2> QED BY <2>3 DEF S
<1>11. t \in [0 .. N -> States(R)]
  BY <1>8, <1>10
<1> QED BY <1>9, <1>11 DEF t, N

-----------------------------------------------------------------------------
(* Cutting a stream.                                                       *)

\* What a statement binds grows by the cost of the row it takes.
LEMMA SpentSteps ==
  ASSUME NEW R, NEW job \in Jobs(R), NEW from \in 0 .. Len(job.rows), NEW n \in 1 .. Len(job.rows)
  PROVE  /\ Spent(job, from, from) = job.fixed
         /\ Spent(job, from, n - 1) \in Int
         /\ Spent(job, from, n) = Spent(job, from, n - 1) + job.costs[n]
         /\ job.costs[n] \in Nat /\ job.fixed \in Nat /\ job.ceiling \in Nat
<1>1. /\ Len(job.rows) \in Nat /\ job.fixed \in Nat /\ job.ceiling \in Nat
      /\ job.costs[n] \in Nat
  BY LenProperties, ElementOfSeq DEF Jobs
<1>2. n - 1 \in 0 .. Len(job.rows) /\ n \in 0 .. Len(job.rows)
  BY <1>1
<1>3. Total(job)[from] \in Nat /\ Total(job)[n - 1] \in Nat
  BY <1>2, TotalDef
<1>4. Total(job)[n] = Total(job)[n - 1] + job.costs[n]
  BY TotalDef
<1> DEFINE t == Total(job)
<1>5. /\ Spent(job, from, from) = job.fixed + t[from] - t[from]
      /\ Spent(job, from, n - 1) = job.fixed + t[n - 1] - t[from]
      /\ Spent(job, from, n) = job.fixed + t[n] - t[from]
  BY DEF Spent
<1> QED BY <1>1, <1>3, <1>4, <1>5

\* A batch that takes the next row is still a part of the stream.
LEMMA NextRow ==
  ASSUME NEW R, NEW s \in Seq(R), NEW n \in 1 .. Len(s), NEW from \in 1 .. n
  PROVE  Append(SubSeq(s, from, n - 1), s[n]) = SubSeq(s, from, n)
<1>1. Len(s) \in Nat /\ \A i \in 1 .. Len(s) : s[i] \in R
  BY LenProperties, ElementOfSeq
<1>2. /\ SubSeq(s, from, n) \in Seq(R) /\ Len(SubSeq(s, from, n)) = n - from + 1
      /\ \A i \in 1 .. n - from + 1 : SubSeq(s, from, n)[i] = s[from + i - 1]
  BY <1>1, SubSeqProperties
<1>3. /\ SubSeq(s, from, n - 1) \in Seq(R) /\ Len(SubSeq(s, from, n - 1)) = n - from
      /\ \A i \in 1 .. n - from : SubSeq(s, from, n - 1)[i] = s[from + i - 1]
  <2>1. n - 1 \in Int /\ \A i \in from .. n - 1 : s[i] \in R
    BY <1>1
  <2>2. /\ SubSeq(s, from, n - 1) \in Seq(R)
        /\ Len(SubSeq(s, from, n - 1)) = IF from <= n - 1 THEN n - 1 - from + 1 ELSE 0
        /\ \A i \in 1 .. n - 1 - from + 1 : SubSeq(s, from, n - 1)[i] = s[from + i - 1]
    BY <2>1, SubSeqProperties
  <2> QED BY <2>2
<1> DEFINE p == SubSeq(s, from, n - 1)
           q == SubSeq(s, from, n)
           a == Append(p, s[n])
<1>4. a \in Seq(R) /\ Len(a) = Len(q)
  BY <1>1, <1>2, <1>3
<1>5. ASSUME NEW i \in 1 .. Len(a) PROVE a[i] = q[i]
  <2>1. CASE i = n - from + 1
    <3>1. a[i] = s[n]
      BY <1>1, <1>3, <2>1
    <3> QED BY <1>2, <2>1, <3>1
  <2>2. CASE i # n - from + 1
    <3>1. i \in 1 .. n - from
      BY <1>2, <1>4, <2>2
    <3>2. a[i] = p[i]
      BY <1>1, <1>3, <3>1
    <3> QED BY <1>2, <1>3, <3>1, <3>2
  <2> QED BY <2>1, <2>2
<1> HIDE DEF a, q
<1>6. a = q
  BY <1>2, <1>4, <1>5, SeqEqual DEF q
<1> QED BY <1>6 DEF a, q

\* Some statements are the pieces up to the m-th row.
EndsAt(job, out, m) == \E cut : Pieces(job, out, cut, m) /\ cut[Len(out)] = m

\* One more statement, that ends where the rows taken so far end.
LEMMA OnePieceMore ==
  ASSUME NEW R, NEW job \in Jobs(R), NEW out \in Seq(Seq(R)), NEW batch \in Seq(R), NEW cut,
         NEW n \in 0 .. Len(job.rows), NEW m \in n .. Len(job.rows),
         Pieces(job, out, cut, n), Piece(job, batch, cut[Len(out)], m)
  PROVE  EndsAt(job, Append(out, batch), m)
<1> DEFINE L == Len(out)
           more == Append(out, batch)
           c == [i \in 0 .. L + 1 |-> IF i = L + 1 THEN m ELSE cut[i]]
<1>1. /\ L \in Nat /\ Len(more) = L + 1 /\ more[L + 1] = batch
      /\ \A i \in 1 .. L : more[i] = out[i]
  BY LenProperties
<1>2. cut \in [0 .. L -> 0 .. n] /\ cut[0] = 0
  BY DEF Pieces
<1>3. c \in [0 .. L + 1 -> 0 .. m]
  <2>1. ASSUME NEW i \in 0 .. L + 1, i # L + 1 PROVE cut[i] \in 0 .. m
    <3>1. i \in 0 .. L
      BY <1>1, <2>1
    <3>2. cut[i] \in 0 .. n
      BY <1>2, <3>1
    <3> QED BY <3>2
  <2>2. m \in 0 .. m
    OBVIOUS
  <2> QED BY <2>1, <2>2
<1>4. c[0] = 0 /\ c[L + 1] = m /\ \A i \in 0 .. L : c[i] = cut[i]
  BY <1>1, <1>2
<1> HIDE DEF c
<1>5. ASSUME NEW i \in 1 .. L + 1 PROVE Piece(job, more[i], c[i - 1], c[i])
  <2>1. CASE i = L + 1
    <3>1. c[i - 1] = cut[L] /\ c[i] = m /\ more[i] = batch
      BY <1>1, <1>4, <2>1
    <3> QED BY <3>1
  <2>2. CASE i # L + 1
    <3>1. i \in 1 .. L /\ i - 1 \in 0 .. L /\ i \in 0 .. L
      BY <1>1, <2>2
    <3>2. c[i - 1] = cut[i - 1] /\ c[i] = cut[i] /\ more[i] = out[i]
      BY <1>1, <1>4, <3>1
    <3>3. Piece(job, out[i], cut[i - 1], cut[i])
      BY <3>1 DEF Pieces
    <3> QED BY <3>2, <3>3
  <2> QED BY <2>1, <2>2
<1> HIDE DEF more
<1>6. Pieces(job, more, c, m) /\ c[Len(more)] = m
  BY <1>1, <1>3, <1>4, <1>5 DEF Pieces
<1> QED BY <1>6 DEF EndsAt, more

\* The cuts of some rows are cuts among more of them.
LEMMA PiecesGrow ==
  ASSUME NEW R, NEW job \in Jobs(R), NEW out \in Seq(Seq(R)), NEW cut,
         NEW n \in Nat, NEW m \in Nat, n <= m, Pieces(job, out, cut, n)
  PROVE  Pieces(job, out, cut, m) /\ cut[Len(out)] \in 0 .. n
<1>1. cut \in [0 .. Len(out) -> 0 .. n] /\ Len(out) \in 0 .. Len(out)
  BY LenProperties DEF Pieces
<1>2. cut \in [0 .. Len(out) -> 0 .. m]
  BY <1>1
<1> QED BY <1>1, <1>2 DEF Pieces

\* The statements yielded after n rows, and the batch being filled.
Filled(job, b, n) ==
  \E cut :
    /\ Pieces(job, b.out, cut, n)
    /\ IF b.failed
       THEN \E k \in cut[Len(b.out)] + 1 .. n :
              ~FitsAlone(job, k) /\ \A j \in 1 .. k - 1 : FitsAlone(job, j)
       ELSE /\ \A j \in 1 .. n : FitsAlone(job, j)
            /\ b.batch = SubSeq(job.rows, cut[Len(b.out)] + 1, n)
            /\ b.used = Spent(job, cut[Len(b.out)], n)
            /\ n > 0 => cut[Len(b.out)] < n /\ b.used <= job.ceiling

\* A row too large for any statement ends the stream where it stands.
LEMMA FailedHere ==
  ASSUME NEW R, NEW job \in Jobs(R), NEW n \in 1 .. Len(job.rows), NEW b \in States(R),
         ~b.failed, Filled(job, b, n - 1), ~FitsAlone(job, n)
  PROVE  Filled(job, TakeRow(b, n, job), n)
<1>1. job.fixed \in Nat /\ job.ceiling \in Nat /\ job.costs[n] \in Nat /\ Len(job.rows) \in Nat
  BY LenProperties, ElementOfSeq DEF Jobs
<1>2. TakeRow(b, n, job) = [b EXCEPT !.failed = TRUE]
  BY <1>1 DEF TakeRow, FitsAlone
<1> DEFINE d == TakeRow(b, n, job)
<1>3. d.failed /\ d.out = b.out /\ b.out \in Seq(Seq(R))
  BY <1>2 DEF States
<1> HIDE DEF d
<1>4. PICK cut : Pieces(job, b.out, cut, n - 1) /\ \A j \in 1 .. n - 1 : FitsAlone(job, j)
  BY DEF Filled
<1>5. Pieces(job, b.out, cut, n) /\ cut[Len(b.out)] \in 0 .. n - 1
  BY <1>1, <1>3, <1>4, PiecesGrow
<1>6. n \in cut[Len(b.out)] + 1 .. n
  BY <1>5
<1> QED BY <1>3, <1>4, <1>5, <1>6 DEF Filled, d

\* A row that the batch has room for becomes its last.
LEMMA Joined ==
  ASSUME NEW R, NEW job \in Jobs(R), NEW n \in 1 .. Len(job.rows), NEW b \in States(R),
         ~b.failed, Filled(job, b, n - 1), FitsAlone(job, n),
         b.used + job.costs[n] <= job.ceiling
  PROVE  Filled(job, TakeRow(b, n, job), n)
<1>1. job.fixed \in Nat /\ job.ceiling \in Nat /\ job.costs[n] \in Nat /\ Len(job.rows) \in Nat
      /\ job.rows \in Seq(R)
  BY LenProperties, ElementOfSeq DEF Jobs
<1>2. TakeRow(b, n, job)
        = [b EXCEPT !.batch = Append(@, job.rows[n]), !.used = @ + job.costs[n]]
  <2>1. ~(b.used + job.costs[n] > job.ceiling) /\ ~(job.fixed + job.costs[n] > job.ceiling)
    BY <1>1 DEF FitsAlone, States
  <2>2. TakeRow(b, n, job) = PlaceRow(b, n, job)
    BY <2>1 DEF TakeRow
  <2> QED BY <2>1, <2>2 DEF PlaceRow
<1> DEFINE d == TakeRow(b, n, job)
<1>3. /\ ~d.failed /\ d.out = b.out /\ b.out \in Seq(Seq(R))
      /\ d.batch = Append(b.batch, job.rows[n]) /\ d.used = b.used + job.costs[n]
  BY <1>2 DEF States
<1> HIDE DEF d
<1>4. PICK cut : /\ Pieces(job, b.out, cut, n - 1) /\ \A j \in 1 .. n - 1 : FitsAlone(job, j)
                 /\ b.batch = SubSeq(job.rows, cut[Len(b.out)] + 1, n - 1)
                 /\ b.used = Spent(job, cut[Len(b.out)], n - 1)
  BY DEF Filled
<1>5. PICK from \in 0 .. n - 1 : from = cut[Len(b.out)] /\ Pieces(job, b.out, cut, n)
  BY <1>1, <1>3, <1>4, PiecesGrow
<1>6. \A j \in 1 .. n : FitsAlone(job, j)
  BY <1>4
<1>7. d.batch = SubSeq(job.rows, from + 1, n)
  <2>1. from + 1 \in 1 .. n
    OBVIOUS
  <2>2. Append(SubSeq(job.rows, from + 1, n - 1), job.rows[n]) = SubSeq(job.rows, from + 1, n)
    BY <1>1, <2>1, NextRow
  <2> QED BY <1>3, <1>4, <1>5, <2>2
<1>8. from \in 0 .. Len(job.rows)
  BY <1>1
<1>9. d.used = Spent(job, from, n) /\ d.used <= job.ceiling
  BY <1>1, <1>3, <1>4, <1>5, <1>8, SpentSteps
<1>10. n > 0 => from < n
  OBVIOUS
<1> HIDE DEF d
<1>11. Filled(job, d, n)
  BY <1>3, <1>5, <1>6, <1>7, <1>9, <1>10 DEF Filled
<1> QED BY <1>11 DEF d

\* A row that it has no room for closes it and opens the next.
LEMMA Closed ==
  ASSUME NEW R, NEW job \in Jobs(R), NEW n \in 1 .. Len(job.rows), NEW b \in States(R),
         ~b.failed, Filled(job, b, n - 1), FitsAlone(job, n),
         b.used + job.costs[n] > job.ceiling
  PROVE  Filled(job, TakeRow(b, n, job), n)
<1>1. job.fixed \in Nat /\ job.ceiling \in Nat /\ job.costs[n] \in Nat /\ Len(job.rows) \in Nat
      /\ job.rows \in Seq(R) /\ job.rows[n] \in R
  BY LenProperties, ElementOfSeq DEF Jobs
<1>2. TakeRow(b, n, job)
        = [Flushed(b, job) EXCEPT !.batch = Append(@, job.rows[n]), !.used = @ + job.costs[n]]
  BY <1>1 DEF TakeRow, PlaceRow, FitsAlone, States
<1> DEFINE d == TakeRow(b, n, job)
<1>3. /\ ~d.failed /\ d.out = Append(b.out, b.batch)
      /\ b.out \in Seq(Seq(R)) /\ b.batch \in Seq(R)
      /\ d.batch = <<job.rows[n]>> /\ d.used = job.fixed + job.costs[n]
  BY <1>2 DEF States, Flushed
<1> HIDE DEF d
<1>4. PICK cut : /\ Pieces(job, b.out, cut, n - 1) /\ \A j \in 1 .. n - 1 : FitsAlone(job, j)
                 /\ b.batch = SubSeq(job.rows, cut[Len(b.out)] + 1, n - 1)
                 /\ b.used = Spent(job, cut[Len(b.out)], n - 1)
                 /\ n - 1 > 0 => cut[Len(b.out)] < n - 1 /\ b.used <= job.ceiling
  BY DEF Filled
<1>5. PICK from \in 0 .. n - 1 : from = cut[Len(b.out)]
  BY <1>1, <1>3, <1>4, PiecesGrow
<1>6. from \in 0 .. Len(job.rows) /\ n - 1 \in 0 .. Len(job.rows)
  BY <1>1
<1>7. n - 1 > 0
  <2> SUFFICES ASSUME n - 1 = 0 PROVE FALSE
    BY <1>1
  <2>1. from = n - 1
    OBVIOUS
  <2>2. b.used = job.fixed
    BY <1>4, <1>5, <1>6, <2>1, SpentSteps
  <2> QED BY <1>1, <2>2 DEF FitsAlone
<1>8. Piece(job, b.batch, from, n - 1)
  <2>1. Spent(job, from, n) > job.ceiling
    BY <1>1, <1>4, <1>5, <1>6, SpentSteps
  <2>2. n - 1 + 1 = n
    OBVIOUS
  <2> QED BY <1>4, <1>5, <1>7, <2>1, <2>2 DEF Piece
<1>9. PICK c : Pieces(job, d.out, c, n - 1) /\ c[Len(d.out)] = n - 1
  <2>1. n - 1 \in n - 1 .. Len(job.rows)
    BY <1>1
  <2>2. Piece(job, b.batch, cut[Len(b.out)], n - 1)
    BY <1>5, <1>8
  <2>3. EndsAt(job, Append(b.out, b.batch), n - 1)
    BY <1>3, <1>4, <1>6, <2>1, <2>2, OnePieceMore
  <2> QED BY <1>3, <2>3 DEF EndsAt
<1>10. Pieces(job, d.out, c, n)
  <2>1. d.out \in Seq(Seq(R))
    BY <1>3
  <2> QED BY <1>1, <1>9, <2>1, PiecesGrow
<1>11. \A j \in 1 .. n : FitsAlone(job, j)
  BY <1>4
<1>12. d.batch = SubSeq(job.rows, n - 1 + 1, n)
  <2>1. SubSeq(job.rows, n, n - 1) = <<>>
    BY <1>1, SubSeqEmpty
  <2>2. Append(SubSeq(job.rows, n, n - 1), job.rows[n]) = SubSeq(job.rows, n, n)
    BY <1>1, NextRow
  <2>3. Append(<<>>, job.rows[n]) = <<job.rows[n]>>
    BY <1>1
  <2>4. n - 1 + 1 = n
    OBVIOUS
  <2> QED BY <1>3, <2>1, <2>2, <2>3, <2>4
<1>13. d.used = Spent(job, n - 1, n) /\ d.used <= job.ceiling
  BY <1>1, <1>3, <1>6, SpentSteps DEF FitsAlone
<1>14. n > 0 /\ n - 1 < n
  OBVIOUS
<1> QED BY <1>3, <1>9, <1>10, <1>11, <1>12, <1>13, <1>14 DEF Filled, d

\* After an error nothing changes.
LEMMA StaysFailed ==
  ASSUME NEW R, NEW job \in Jobs(R), NEW n \in 1 .. Len(job.rows), NEW b \in States(R),
         b.failed, Filled(job, b, n - 1)
  PROVE  Filled(job, TakeRow(b, n, job), n)
<1>1. TakeRow(b, n, job) = b /\ b.out \in Seq(Seq(R)) /\ Len(job.rows) \in Nat
  BY LenProperties DEF TakeRow, Jobs, States
<1>2. PICK cut : /\ Pieces(job, b.out, cut, n - 1)
                 /\ \E k \in cut[Len(b.out)] + 1 .. n - 1 :
                      ~FitsAlone(job, k) /\ \A j \in 1 .. k - 1 : FitsAlone(job, j)
  BY DEF Filled
<1>3. Pieces(job, b.out, cut, n) /\ cut[Len(b.out)] \in 0 .. n - 1
  BY <1>1, <1>2, PiecesGrow
<1>4. \E k \in cut[Len(b.out)] + 1 .. n :
        ~FitsAlone(job, k) /\ \A j \in 1 .. k - 1 : FitsAlone(job, j)
  BY <1>2, <1>3
<1> QED BY <1>1, <1>3, <1>4 DEF Filled

\* After every row, what was yielded and what is pending are the rows so far.
LEMMA AlwaysFilled ==
  ASSUME NEW R, NEW job \in Jobs(R), NEW n \in 0 .. Len(job.rows)
  PROVE  Filled(job, Filling(job)[n], n)
<1> DEFINE S == {k \in 0 .. Len(job.rows) : Filled(job, Filling(job)[k], k)}
<1>1. Len(job.rows) \in Nat /\ job.rows \in Seq(R)
  BY LenProperties DEF Jobs
<1>2. 0 \in S
  <2> DEFINE b == NoBatch(job)
             cut == [i \in 0 .. 0 |-> 0]
  <2>1. ~b.failed /\ b.out = <<>> /\ b.batch = <<>> /\ b.used = job.fixed /\ Len(b.out) = 0
    BY DEF NoBatch
  <2> HIDE DEF b
  <2>2. cut \in [0 .. 0 -> 0 .. 0] /\ cut[0] = 0
    OBVIOUS
  <2> HIDE DEF cut
  <2>3. Pieces(job, b.out, cut, 0)
    BY <2>1, <2>2 DEF Pieces
  <2>4. SubSeq(job.rows, 1, 0) = <<>>
    BY SubSeqEmpty
  <2>5. Spent(job, 0, 0) = job.fixed
    BY TotalDef DEF Spent, Jobs
  <2>6. 0 + 1 = 1 /\ \A j \in 1 .. 0 : FALSE
    OBVIOUS
  <2>7. Filled(job, b, 0)
    BY <2>1, <2>2, <2>3, <2>4, <2>5, <2>6 DEF Filled
  <2> QED BY <1>1, <2>7, FillingDef DEF b
<1>3. ASSUME NEW k \in 1 .. Len(job.rows), k - 1 \in S PROVE k \in S
  <2> DEFINE b == Filling(job)[k - 1]
  <2>1. b \in States(R) /\ Filling(job)[k] = TakeRow(b, k, job)
    BY <1>3, FillingDef
  <2>2. Filled(job, b, k - 1)
    BY <1>3
  <2>3. /\ b.failed \in BOOLEAN /\ b.used \in Nat
        /\ job.costs[k] \in Nat /\ job.ceiling \in Nat /\ job.fixed \in Nat
    BY <2>1, LenProperties, ElementOfSeq DEF States, Jobs
  <2> HIDE DEF b
  <2>4. CASE b.failed
    BY <2>1, <2>2, <2>4, StaysFailed
  <2>5. CASE ~b.failed /\ ~FitsAlone(job, k)
    BY <2>1, <2>2, <2>5, FailedHere
  <2>6. CASE ~b.failed /\ FitsAlone(job, k) /\ b.used + job.costs[k] <= job.ceiling
    BY <2>1, <2>2, <2>6, Joined
  <2>7. CASE ~b.failed /\ FitsAlone(job, k) /\ b.used + job.costs[k] > job.ceiling
    BY <2>1, <2>2, <2>7, Closed
  <2>8. b.used + job.costs[k] <= job.ceiling \/ b.used + job.costs[k] > job.ceiling
    BY <2>3
  <2> QED BY <2>4, <2>5, <2>6, <2>7, <2>8, Zenon
<1>4. 0 .. Len(job.rows) \subseteq S
  <2> HIDE DEF S
  <2> QED BY <1>1, <1>2, <1>3, UpTo
<1> QED BY <1>4

-----------------------------------------------------------------------------

\* batch_rows: every statement holds at least one row, binds no more than the
\* ceiling, and could not have taken the row after its last; in the order of
\* the stream they hold all of it, or, when a row fits no statement of its own,
\* rows before the first such row only.
THEOREM StreamSplit ==
  ASSUME NEW R, NEW job \in Jobs(R)
  PROVE  Split(job, Batches(job))
<1> DEFINE N == Len(job.rows)
           b == Filling(job)[N]
<1>1. N \in Nat /\ N \in 0 .. N /\ job.rows \in Seq(R)
  BY LenProperties DEF Jobs
<1>2. b \in States(R) /\ Filled(job, b, N)
  BY <1>1, FillingDef, AlwaysFilled
<1>3. Batches(job) = IF b.failed \/ b.batch = <<>> THEN b ELSE Flushed(b, job)
  BY DEF Batches
<1> HIDE DEF b
<1>4. CASE b.failed
  <2>1. Batches(job) = b
    BY <1>3, <1>4
  <2> QED BY <1>2, <1>4, <2>1 DEF Filled, Split
<1>5. CASE ~b.failed
  <2>1. PICK cut : /\ Pieces(job, b.out, cut, N) /\ \A j \in 1 .. N : FitsAlone(job, j)
                   /\ b.batch = SubSeq(job.rows, cut[Len(b.out)] + 1, N)
                   /\ b.used = Spent(job, cut[Len(b.out)], N)
                   /\ N > 0 => cut[Len(b.out)] < N /\ b.used <= job.ceiling
    BY <1>2, <1>5 DEF Filled
  <2>2. b.out \in Seq(Seq(R)) /\ b.batch \in Seq(R)
    BY <1>2 DEF States
  <2>3. PICK from \in 0 .. N : from = cut[Len(b.out)]
    BY <1>1, <2>1, <2>2, PiecesGrow
  <2>4. CASE N = 0
    <3>1. b.batch = <<>> /\ from = 0
      BY <1>1, <2>1, <2>3, <2>4, SubSeqEmpty
    <3>2. Batches(job) = b
      BY <1>3, <3>1
    <3> QED BY <1>5, <2>1, <2>3, <2>4, <3>1, <3>2 DEF Split
  <2>5. CASE N > 0
    <3>1. from < N
      BY <2>1, <2>3, <2>5
    <3>2. Len(b.batch) = N - from
      <4>1. \A i \in from + 1 .. N : job.rows[i] \in R
        BY <1>1, ElementOfSeq
      <4> QED BY <1>1, <2>1, <2>3, <3>1, <4>1, SubSeqProperties
    <3>3. b.batch # <<>>
      BY <1>1, <3>1, <3>2
    <3>4. Batches(job) = Flushed(b, job)
      BY <1>3, <1>5, <3>3
    <3> DEFINE end == Batches(job)
    <3>5. end.out = Append(b.out, b.batch) /\ ~end.failed
      BY <1>2, <1>5, <3>4 DEF Flushed, States
    <3> HIDE DEF end
    <3>6. Piece(job, b.batch, from, N)
      BY <2>1, <2>3, <2>5, <3>1 DEF Piece
    <3>7. EndsAt(job, Append(b.out, b.batch), N)
      <4>1. N \in N .. N /\ Piece(job, b.batch, cut[Len(b.out)], N)
        BY <1>1, <2>3, <3>6
      <4> QED BY <1>1, <2>1, <2>2, <4>1, OnePieceMore
    <3>8. Split(job, end)
      BY <2>1, <3>5, <3>7 DEF EndsAt, Split
    <3> QED BY <3>8 DEF end
  <2> QED BY <1>1, <2>4, <2>5
<1>6. b.failed \in BOOLEAN
  BY <1>2 DEF States
<1> QED BY <1>4, <1>5, <1>6

\* The running total never falls.
LEMMA TotalGrows ==
  ASSUME NEW R, NEW job \in Jobs(R), NEW n \in 0 .. Len(job.rows), NEW m \in 0 .. n
  PROVE  Total(job)[m] <= Total(job)[n]
<1> DEFINE t == Total(job)
           S == {k \in 0 .. Len(job.rows) : m <= k => t[m] <= t[k]}
<1>1. Len(job.rows) \in Nat /\ \A k \in 1 .. Len(job.rows) : job.costs[k] \in Nat
  BY LenProperties, ElementOfSeq DEF Jobs
<1>2. /\ t \in [0 .. Len(job.rows) -> Nat]
      /\ \A k \in 1 .. Len(job.rows) : t[k] = t[k - 1] + job.costs[k]
  BY TotalDef
<1> HIDE DEF t
<1>3. m \in 0 .. Len(job.rows) /\ t[m] \in Nat
  <2>1. m \in 0 .. Len(job.rows)
    BY <1>1
  <2> QED BY <1>2, <2>1
<1>4. 0 \in S
  BY <1>1, <1>3
<1>5. ASSUME NEW k \in 1 .. Len(job.rows), k - 1 \in S PROVE k \in S
  <2>1. t[k - 1] \in Nat /\ t[k] = t[k - 1] + job.costs[k] /\ job.costs[k] \in Nat
    <3>1. k - 1 \in 0 .. Len(job.rows)
      BY <1>1
    <3> QED BY <1>1, <1>2, <3>1
  <2>2. m <= k - 1 => t[m] <= t[k - 1]
    BY <1>5
  <2>3. CASE m = k
    BY <1>1, <1>3, <2>3
  <2>4. CASE m # k
    BY <1>1, <1>3, <2>1, <2>2, <2>4
  <2> QED BY <2>3, <2>4
<1>6. 0 .. Len(job.rows) \subseteq S
  <2> HIDE DEF S
  <2> QED BY <1>1, <1>4, <1>5, UpTo
<1> QED BY <1>6 DEF t

\* batch_rows yields the largest batches: a stream that is yielded whole cannot
\* be cut into fewer statements that fit, wherever the cuts are made.
THEOREM FewestStatements ==
  ASSUME NEW R, NEW job \in Jobs(R), ~Batches(job).failed,
         NEW m \in Nat, NEW d, Cuts(job, d, m)
  PROVE  Len(Batches(job).out) <= m
<1> DEFINE N == Len(job.rows)
           out == Batches(job).out
           L == Len(out)
           t == Total(job)
<1>1. PICK cut : Pieces(job, out, cut, N) /\ cut[L] = N
  BY StreamSplit DEF Split
<1>2. N \in Nat /\ out \in Seq(Seq(R)) /\ L \in Nat
  <2>1. N \in Nat
    BY LenProperties DEF Jobs
  <2>2. Filling(job)[N] \in States(R)
    BY <2>1, FillingDef
  <2>3. Batches(job) \in States(R)
    <3>1. ASSUME NEW b \in States(R) PROVE Flushed(b, job) \in States(R)
      <4>1. b.out \in Seq(Seq(R)) /\ b.batch \in Seq(R) /\ job.fixed \in Nat
        BY DEF States, Jobs
      <4>2. Append(b.out, b.batch) \in Seq(Seq(R)) /\ <<>> \in Seq(R)
        BY <4>1
      <4> QED BY <4>1, <4>2 DEF Flushed, States
    <3> QED BY <2>2, <3>1 DEF Batches
  <2>4. out \in Seq(Seq(R))
    BY <2>3 DEF States
  <2> QED BY <2>1, <2>4, LenProperties
<1>3. /\ job.fixed \in Nat /\ job.ceiling \in Nat
      /\ t \in [0 .. N -> Nat]
  BY TotalDef DEF Jobs
<1>4. ASSUME NEW i \in 0 .. N, NEW j \in 0 .. i PROVE t[j] <= t[i]
  BY TotalGrows
<1>5. /\ cut \in [0 .. L -> 0 .. N] /\ cut[0] = 0
      /\ \A i \in 1 .. L : /\ cut[i - 1] < cut[i]
                           /\ cut[i] < N => job.fixed + t[cut[i] + 1] - t[cut[i - 1]] > job.ceiling
  BY <1>1 DEF Pieces, Piece, Spent
<1>6. /\ d \in [0 .. m -> 0 .. N] /\ d[0] = 0 /\ d[m] = N
      /\ \A i \in 1 .. m : d[i - 1] <= d[i] /\ job.fixed + t[d[i]] - t[d[i - 1]] <= job.ceiling
  BY DEF Cuts, Spent
<1> HIDE DEF t, L, N, out
<1> SUFFICES ASSUME m < L PROVE FALSE
  BY <1>2 DEF out, L
<1> DEFINE S == {i \in 0 .. m : d[i] <= cut[i]}
<1>7. 0 \in S
  BY <1>5, <1>6
<1>8. ASSUME NEW i \in 1 .. m, i - 1 \in S PROVE i \in S
  <2>1. i \in 1 .. L /\ i - 1 \in 0 .. m /\ i - 1 \in 0 .. L /\ i \in 0 .. m /\ i \in 0 .. L
    BY <1>2
  <2>2. /\ d[i] \in 0 .. N /\ d[i - 1] \in 0 .. N
        /\ cut[i] \in 0 .. N /\ cut[i - 1] \in 0 .. N
    BY <1>5, <1>6, <2>1
  <2>3. SUFFICES ASSUME cut[i] < d[i] PROVE FALSE
    BY <2>1, <2>2
  <2>4. cut[i] + 1 \in 0 .. d[i] /\ cut[i] + 1 \in 0 .. N /\ cut[i] < N
    BY <1>2, <2>2, <2>3
  <2>5. d[i - 1] \in 0 .. cut[i - 1]
    BY <1>8, <2>2
  <2>6. t[cut[i] + 1] <= t[d[i]] /\ t[d[i - 1]] <= t[cut[i - 1]]
    BY <1>4, <2>2, <2>4, <2>5
  <2>7. /\ t[cut[i] + 1] \in Nat /\ t[d[i]] \in Nat
        /\ t[d[i - 1]] \in Nat /\ t[cut[i - 1]] \in Nat
    BY <1>3, <2>2, <2>4
  <2>8. job.fixed + t[cut[i] + 1] - t[cut[i - 1]] > job.ceiling
    BY <1>5, <2>1, <2>4
  <2>9. job.fixed + t[d[i]] - t[d[i - 1]] <= job.ceiling
    BY <1>6
  <2> DEFINE a == t[cut[i] + 1]
             u == t[d[i]]
             v == t[d[i - 1]]
             w == t[cut[i - 1]]
  <2>10. /\ a \in Nat /\ u \in Nat /\ v \in Nat /\ w \in Nat
         /\ job.fixed \in Nat /\ job.ceiling \in Nat
         /\ a <= u /\ v <= w /\ job.fixed + a - w > job.ceiling
         /\ job.fixed + u - v <= job.ceiling
    BY <1>3, <2>6, <2>7, <2>8, <2>9
  <2> HIDE DEF a, u, v, w
  <2> QED BY ONLY <2>10
<1>9. m \in S
  <2> HIDE DEF S
  <2>1. 0 .. m \subseteq S
    BY <1>7, <1>8, UpTo
  <2> QED BY <2>1
<1>10. m + 1 \in 1 .. L /\ m \in 0 .. L /\ m + 1 \in 0 .. L /\ m + 1 - 1 = m
  BY <1>2
<1>11. cut[m] \in 0 .. N /\ cut[m + 1] \in 0 .. N /\ cut[m] < cut[m + 1] /\ N <= cut[m]
  BY <1>5, <1>6, <1>9, <1>10
<1> QED BY <1>2, <1>11

=============================================================================
