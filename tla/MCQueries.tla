------------------------------ MODULE MCQueries ------------------------------
(* The menus: one small vocabulary for each part of the grammar.            *)
EXTENDS Queries, Expressions

A  == TableSource("a", "a", "")
B  == TableSource("b", "b", "")
M  == AliasedTable(A, "m")
O  == TableSource("a", "a", "other")     \* a in a schema
C  == CteSource("c")

ax == ColumnOf(A, "x")
ay == ColumnOf(A, "y")
bx == ColumnOf(B, "x")
mx == ColumnOf(M, "x")
cx == ColumnOf(C, "x")
dx == Column("d", "x")

one   == Bound("1")
two   == Bound("2")
total == SumOf(ay)

Nothing ==
  [calls |-> 0, shelf |-> 0, selects |-> {}, all |-> {}, sources |-> {}, kinds |-> {},
   ons |-> {}, cross |-> FALSE, wheres |-> {}, groups |-> {}, havings |-> {},
   distinct |-> FALSE, orders |-> {}, rows |-> {}, ops |-> {}, embeds |-> {},
   members |-> {}, relations |-> {}, ctes |-> {}, materialized |-> {},
   recursive |-> FALSE, locked |-> {}, waits |-> {}, arities |-> {}, inserts |-> {},
   updates |-> {}, deletes |-> {}, values |-> {}, targets |-> {}, defaults |-> FALSE,
   arbiters |-> {}, partial |-> {}, sets |-> {}, conditions |-> {}, unbounded |-> FALSE,
   returns |-> {}, streams |-> {}]

\* Outer joins, nullable projections, row locks.
Joins ==
  [Nothing EXCEPT
     !.calls = 4, !.sources = {A, B, M}, !.kinds = {"inner", "left", "right", "full"},
     !.selects = {<<ax>>, <<bx>>, <<Named(Nullable(bx), "x")>>, <<Arithmetic(ax, "+", mx)>>,
                  <<CaseWhen(<<<<Eq(bx, one), ax>>>>, two)>>, <<Coalesce(<<bx, one>>)>>},
     !.ons = {Eq(ax, bx), Eq(bx, mx)}, !.cross = TRUE]

\* Row locks under outer joins.
LockedJoins ==
  [Nothing EXCEPT
     !.calls = 6, !.sources = {A, B}, !.kinds = {"inner", "left", "right", "full"},
     !.selects = {<<Nullable(ax)>>}, !.ons = {Eq(ax, bx)}, !.distinct = TRUE,
     !.locked = {<<>>, <<A>>, <<B>>}, !.waits = {"nowait"}]

\* GROUP BY, HAVING, aggregates, windows.
Groups ==
  [Nothing EXCEPT
     !.calls = 6, !.sources = {A}, !.distinct = TRUE,
     !.selects = {<<ax>>, <<Arithmetic(ax, "+", ay)>>, <<ax, FilterBy(FilterBy(total, Eq(ax, one)), Ne(ay, two))>>,
                  <<WindowOrder(PartitionBy(PartitionBy(Over(total), <<ax>>), <<two>>), <<total>>)>>, <<WindowOrder(Over(Rank), <<ay>>)>>,
                  <<MaxOf(total)>>},
     !.wheres = {Eq(ax, one), Eq(total, two)},
     !.groups = {<<ax>>, <<Arithmetic(ax, "+", ay)>>, <<Named(ay, "y")>>},
     !.havings = {Eq(total, one), Eq(ay, two)},
     !.orders = {<<ay>>, <<total>>}]

\* Windows with values before "over", behind it, and on both sides.
Windows ==
  LET plain == Over(total)
      bound == Over(SumOf(Coalesce(<<ay, one>>)))
      given == Over(FilterBy(total, Eq(ax, one)))
  IN  [Nothing EXCEPT
         !.calls = 4, !.sources = {A}, !.wheres = {Eq(ax, Bound("4"))}, !.orders = {<<ax>>},
         !.selects = {<<WindowOrder(PartitionBy(plain, <<Coalesce(<<ax, one>>)>>), <<Coalesce(<<ay, two>>)>>)>>,
                      <<Bound("3"), WindowOrder(bound, <<ay>>)>>,
                      <<WindowOrder(bound, <<Coalesce(<<ay, two>>)>>)>>,
                      <<PartitionBy(given, <<Coalesce(<<ay, two>>)>>), Bound("3")>>}]
WindowMenus == {Windows}

\* Scalar, EXISTS and IN subqueries and derived tables.
Nesting ==
  [Nothing EXCEPT
     !.calls = 7, !.shelf = 1, !.sources = {A, B}, !.selects = {<<ax>>, <<bx>>},
     !.all = {[ref |-> "b", cols |-> <<"x", "y">>]}, !.wheres = {Eq(bx, ax)},
     !.embeds = {"scalar", "not exists"}, !.members = {ax}]

\* Derived tables, on either side of an outer join.
DerivedTables ==
  [Nothing EXCEPT
     !.calls = 7, !.shelf = 1, !.sources = {A, B},
     !.selects = {<<ax>>, <<dx>>, <<Nullable(dx)>>, <<ax, Named(ay, "x")>>},
     !.kinds = {"left"}, !.ons = {Eq(ax, dx)}, !.arities = {1, 2},
     !.relations = {[name |-> "d", cols |-> <<"x">>]}]

\* A subquery with a lock inside, in every place an expression can stand.
NestedLocks ==
  [Nothing EXCEPT
     !.calls = 7, !.shelf = 1, !.sources = {A, B}, !.selects = {<<ax>>, <<bx>>},
     !.members = {ax}, !.embeds = {"exists"}, !.kinds = {"inner"}, !.locked = {<<>>},
     !.updates = {A}, !.sets = {[cols |-> <<"x">>, vals |-> <<two>>]}]

\* WITH, WITH RECURSIVE and set operations.
Ctes ==
  [Nothing EXCEPT
     !.calls = 8, !.shelf = 2, !.sources = {A, C}, !.selects = {<<ax>>, <<cx>>},
     !.ops = {"union", "union all"}, !.ctes = {[name |-> "c", cols |-> <<"x">>]},
     !.materialized = {TRUE}, !.recursive = TRUE]

\* Writing CTEs, and ModifyingQuery values put where they may not be.
Writes ==
  [Nothing EXCEPT
     !.calls = 9, !.shelf = 2, !.sources = {C}, !.selects = {<<cx>>},
     !.deletes = {A}, !.unbounded = TRUE, !.returns = {<<ax>>},
     !.ctes = {[name |-> "c", cols |-> <<"x">>]}, !.materialized = {FALSE},
     !.embeds = {"exists"}, !.arities = {1}]

\* UPDATE and DELETE.
Changes ==
  [Nothing EXCEPT
     !.calls = 6, !.updates = {A, M}, !.deletes = {A}, !.wheres = {Eq(ax, one), Eq(bx, two)},
     !.unbounded = TRUE,
     !.sets = {[cols |-> <<"x", "y">>, vals |-> <<Arithmetic(ax, "+", one), two>>],
               [cols |-> <<"x">>, vals |-> <<total>>]},
     !.returns = {<<ax>>, <<ax, Arithmetic(ay, "+", Bound("3"))>>}, !.arities = {1, 2}]

\* Rows of one cell that bind one, two, five or seven values, or none.
RowStreams ==
  LET row(n) == <<IF n = 0 THEN ax ELSE IF n = 1 THEN one
                  ELSE Coalesce([i \in 1 .. n |-> one])>>
      rows(costs) == [i \in DOMAIN costs |-> row(costs[i])]
  IN  {rows(costs) : costs \in {<<1, 1, 1, 1, 1, 1, 1>>, <<2, 1, 2, 1, 0, 2, 0>>,
                                <<0, 0, 2, 2, 2, 1, 1>>, <<1, 1, 5, 1>>, <<1, 7>>}}

\* INSERT ... ON CONFLICT.
Conflicts ==
  [Nothing EXCEPT
     !.calls = 8, !.inserts = {A}, !.defaults = TRUE,
     !.values = {[cols |-> <<"x">>, rows |-> <<<<one>>, <<two>>>>],
                 [cols |-> <<"x">>, rows |-> <<<<ExcludedOf(ax)>>>>]},
     !.arbiters = {<<>>, <<"x">>}, !.partial = {Eq(ay, Bound("9")), Eq(ax, ExcludedOf(ay))},
     !.sets = {[cols |-> <<"y">>, vals |-> <<ExcludedOf(ay)>>],
               [cols |-> <<"y">>, vals |-> <<Bound("3")>>]},
     !.conditions = {Compare(ay, "<", Bound("4"))},
     !.returns = {<<ax>>}, !.arities = {1}, !.streams = RowStreams]

\* INSERT ... SELECT.
Copies ==
  [Nothing EXCEPT
     !.calls = 6, !.shelf = 1, !.inserts = {A}, !.targets = {<<"x">>}, !.sources = {B},
     !.selects = {<<bx>>, <<Bound("7")>>}, !.wheres = {Eq(bx, one)}, !.returns = {<<ax>>},
     !.arbiters = {<<>>}]

\* Where the order of evaluation could differ from the order of the text.
Orders ==
  [Nothing EXCEPT
     !.calls = 5, !.sources = {A, O},
     !.selects = {<<Shift(Bound("t"), "+", Bound("i")), Bound("3")>>,
                  <<DateBin(Bound("s"), ax, Bound("o"))>>,
                  <<DateBin(Bound("empty stride"), ax, ay)>>,
                  <<CaseElseNull(<<<<Eq(ax, one), two>>, <<Ne(ax, None), Bound("3")>>>>)>>},
     !.wheres = {BetweenOf(ax, Bound("4"), Bound("5"), TRUE),
                 Member(ax, <<Bound("6"), Bound("7")>>, FALSE), Member(ax, <<>>, TRUE),
                 RegexMatch(ax, Bound("8"), FALSE),
                 Overlaps(<<ax, Bound("p"), ay, Bound("q")>>)},
     !.orders = {<<ax>>}, !.rows = {"5"}, !.groups = {<<ax>>}]

\* Every temporal and every PostgreSQL-only factory, once.
Factories ==
  [Nothing EXCEPT
     !.calls = 3, !.sources = {A},
     !.selects = {<<x>> : x \in
       {Clock("current_date"), MakeTemporal("make_date", <<ax, one, two>>),
        MakeInterval(<<Bound("0"), ax, one>>), ToTimestamp(one), Age(ax, ay),
        Justify("justify_days", one), Shift(ax, "-", ay), Difference(ax, ay),
        NegateInterval(one), ScaleInterval(ax, "*", two), AtTimeZone(ax, Bound("zone")),
        Extract(ax), DateTrunc(<<ax, Bound("zone")>>), NullIf(ax, one), Count,
        JsonText(ax, "key"), CastUuid(JsonText(ax, "key")),
        Shift(Difference(ax, Bound("t")), "+", MakeInterval(<<one>>))}},
     !.wheres = {Or(RegexMatch(ax, Bound("re"), TRUE), Eq(ax, None)),
                 And(IsNullTest(ax), TruthTest(Compare(ax, "<", one), "is not true")),
                 Not(Eq(ax, one))}]

QueryMenus ==
  {Joins, LockedJoins, Groups, Windows, Nesting, DerivedTables, NestedLocks, Ctes,
   Writes, Changes, Conflicts, Copies, Orders, Factories}
=============================================================================
