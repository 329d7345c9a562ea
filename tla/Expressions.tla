----------------------------- MODULE Expressions -----------------------------
(* The public factories and methods that build expressions                  *)
(* (expressions/core.py, relations.py, analytics.py, postgres.py).  They own *)
(* the decisions made before a node exists: what None becomes, what an empty *)
(* list becomes, how predicates accumulate.                                  *)
EXTENDS QueryTree

\* Python's None, and the truth values, as bound values.
None  == Bound("null")
Truth(b) == Bound(IF b THEN "true" ELSE "false")

\* excluded(): of a column, never of anything else.
ExcludedOf(x) == Excluded(x.a[1], x.a[2])

-----------------------------------------------------------------------------
(* Comparisons and predicates.                                              *)
\* eq() and ne(): SQL compares nothing with NULL.
Comparison(x, op, y) ==
  IF y = None THEN Unary(IF op = "=" THEN "is null" ELSE "is not null", x)
  ELSE Binary(x, op, y)
Eq(x, y) == Comparison(x, "=", y)
Ne(x, y) == Comparison(x, "<>", y)

\* lt(), lte(), gt(), gte() and like(): None is passed on as it is.
Compare(x, op, y) == Binary(x, op, y)

\* is_null() and the truth tests that end a three-valued predicate.
IsNullTest(x)    == Unary("is null", x)
TruthTest(x, op) == Unary(op, x)

BetweenOf(x, lo, hi, negated) ==
  [Between(x, lo, hi) EXCEPT !.a = <<IF negated THEN "not between" ELSE "between">>]

\* in_() and not_in() of a list; of an empty list, the answer itself.
Member(x, xs, negated) ==
  IF xs = <<>> THEN Truth(negated)
  ELSE [InList(x, xs) EXCEPT !.a = <<IF negated THEN "not in" ELSE "in">>]

And(p, q) == Binary(p, "and", q)
Or(p, q)  == Binary(p, "or", q)
Not(p)    == Unary("not", p)

-----------------------------------------------------------------------------
(* Values.                                                                  *)
Named(x, alias)         == Aliased(x, alias)
Coalesce(xs)            == Function("coalesce", xs)
NullIf(x, y)            == Function("nullif", <<x, y>>)
Arithmetic(x, op, y)    == Binary(x, op, y)

\* case_when().when()...else_(), and else_null().
CaseWhen(branches, otherwise) == Case(branches, otherwise)
CaseElseNull(branches)        == Case(branches, None)

-----------------------------------------------------------------------------
(* Temporal expressions.                                                    *)
Clock(kind)                == Temporal("clock", kind, <<>>)
MakeTemporal(name, args)   == Temporal("call", name, args)

\* make_interval(): components that are the constant zero are dropped; the
\* names of the others are left out.
MakeInterval(args) == Temporal("call", "make_interval", SelectSeq(args, LAMBDA x : x # Bound("0")))

ToTimestamp(x)             == Temporal("call", "to_timestamp", <<x>>)
Age(x, y)                  == Temporal("call", "age", <<x, y>>)
Justify(kind, x)           == Temporal("call", kind, <<x>>)
Shift(timestamp, op, delta) == Temporal("shift", op, <<timestamp, delta>>)
Difference(x, y)           == Temporal("infix", "-", <<x, y>>)
NegateInterval(x)          == Temporal("negate", "-", <<x>>)
ScaleInterval(x, op, n)    == Temporal("infix", op, <<x, n>>)
AtTimeZone(x, zone)        == Temporal("infix", "at time zone", <<x, zone>>)
Extract(x)                 == Temporal("call", "extract", <<x>>)
DateTrunc(args)            == Temporal("call", "date_trunc", args)
DateBin(stride, x, origin) == Temporal("bin", "date_bin", <<stride, x, origin>>)
Overlaps(args)             == Temporal("overlaps", "overlaps", args)

-----------------------------------------------------------------------------
(* Aggregates, windows and PostgreSQL-only expressions.                     *)
Count     == Aggregate("count", Star, <<>>)
SumOf(x)  == Aggregate("sum", x, <<>>)
MaxOf(x)  == Aggregate("max", x, <<>>)
Rank      == Function("rank", <<>>)

\* filter(): predicates accumulate.
FilterBy(agg, p) ==
  [agg EXCEPT !.c = IF Len(@) = 1 THEN Append(@, p) ELSE <<@[1], And(@[2], p)>>]

Over(x) == Window(x, <<>>, <<>>)

\* partition_by(): after the earlier partition expressions, before the order.
PartitionBy(w, es) ==
  [w EXCEPT !.n = @ + Len(es),
            !.c = SubSeq(@, 1, 1 + w.n) \o es \o SubSeq(@, 2 + w.n, Len(@))]
WindowOrder(w, es) == [w EXCEPT !.c = @ \o es]

JsonText(x, key)        == Postgres("->>", <<x, Bound(key)>>)
RegexMatch(x, p, blind) == Postgres(IF blind THEN "~*" ELSE "~", <<x, p>>)
CastUuid(x)             == Postgres("uuid", <<x>>)

-----------------------------------------------------------------------------
(* Relations.                                                               *)
\* Table.as_(): the alias replaces the name as the reference.
AliasedTable(t, alias) == [t EXCEPT !.ref = alias]
\* Attribute access on a relation binds the column to the reference.
ColumnOf(r, name) == Column(r.ref, name)
=============================================================================
