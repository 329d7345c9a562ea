--------------------------- MODULE QueryValidation ---------------------------
(* What the compiler accepts before it renders: _compiler/validation.py and *)
(* _compiler/grouping.py.  Every operator is TRUE where the code returns and *)
(* FALSE where it raises.  Messages, and the checks that only a handcrafted   *)
(* node with a value outside of an enumeration could fail, are left out.     *)
EXTENDS QueryTree

CONSTANT MaxParameters     \* the statement ceiling of both dialects

ASSUME CeilingAssumption == MaxParameters \in Nat

\* The dialect records of api.py; the capabilities the two disagree on.
POSTGRES ==
  [name |-> "postgres", locks |-> TRUE, temporal |-> TRUE, predicates |-> TRUE,
   schemas |-> TRUE, writes |-> TRUE, expressions |-> TRUE, padlimit |-> FALSE]

SQLITE ==
  [name |-> "sqlite", locks |-> FALSE, temporal |-> FALSE, predicates |-> FALSE,
   schemas |-> FALSE, writes |-> FALSE, expressions |-> FALSE, padlimit |-> TRUE]

-----------------------------------------------------------------------------
(* grouping.py                                                              *)
RECURSIVE ContainsAnalytic(_, _)
\* An analytic node of the given kinds; a window hides what is under it.
ContainsAnalytic(e, kinds) ==
  \/ e.k \in kinds
  \/ e.k # "window" /\ \E x \in ToSet(e.c) : ContainsAnalytic(x, kinds)

RECURSIVE NestingLegal(_, _)
\* No aggregate or window inside of an aggregate; a window starts afresh.
NestingLegal(e, inside) ==
  /\ inside => e.k \notin {"aggregate", "window"}
  /\ \A x \in ToSet(e.c) :
       NestingLegal(x, e.k = "aggregate" \/ (inside /\ e.k # "window"))

\* The clauses of a SELECT in which a group, not a row, is the subject.
GroupedExpressions(s) == ToSet(s.selections) \union ToSet(s.having) \union ToSet(s.order)

AnalyticClauses(s) ==
  /\ \A e \in ToSet(s.where \o s.group) : ~ContainsAnalytic(e, {"aggregate", "window"})
  /\ \A e \in ToSet(s.group) : e.k # "alias"
  /\ \A e \in ToSet(s.having) : ~ContainsAnalytic(e, {"window"})
  /\ \A e \in GroupedExpressions(s) : NestingLegal(e, FALSE)

RECURSIVE UngroupedColumns(_, _, _)
\* Mutant of UngroupedColumns: a column inside of a grouped expression counts
\* as grouped.
ColumnsOfGroupsCount(e, grouped, local) ==
  {x \in Walk(e) : x.k = "column" /\ x.a[1] \in local /\ x \notin WalkAll(grouped)}
\* Local columns used outside of an aggregate and of every grouped expression.
UngroupedColumns(e, grouped, local) ==
  IF e \in grouped \/ e.k = "aggregate" THEN {}
  ELSE IF e.k = "column" THEN {x \in {e} : x.a[1] \in local}
  ELSE UNION {UngroupedColumns(x, grouped, local) : x \in ToSet(e.c)}

Grouped(s) ==
  \/ s.group # <<>>
  \/ \E e \in GroupedExpressions(s) : ContainsAnalytic(e, {"aggregate"})

Grouping(s) ==
  /\ s.having # <<>> => Grouped(s)
  /\ Grouped(s) =>
       \A e \in GroupedExpressions(s) :
         UngroupedColumns(e, ToSet(s.group), References(s)) = {}

-----------------------------------------------------------------------------
(* The rules of one SELECT.                                                 *)
CompoundShape(s) ==
  s.compounds # <<>> =>
    /\ <<s.order, s.limit, s.offset>> = <<<<>>, <<>>, <<>>>>
    /\ \A arm \in ToSet(s.compounds) :
         /\ Len(arm.query.selections) = Len(s.selections)
         /\ <<arm.query.ctes, arm.query.compounds, arm.query.order,
              arm.query.limit, arm.query.offset>> = <<<<>>, <<>>, <<>>, <<>>, <<>>>>

RecursiveShape(s, name) ==
  /\ name \notin CteReferences([s EXCEPT !.compounds = <<>>])
  /\ s.compounds # <<>>
  /\ \A arm \in ToSet(s.compounds) :
       arm.op = "union all" /\ name \in CteReferences(arm.query)

RECURSIVE NullableSources(_)
\* The sources whose NULL-extension makes a selected expression NULL.
NullableSources(e) ==
  LET under(xs) == UNION {NullableSources(x) : x \in xs}
  IN  CASE e.k = "column" -> {e.a[1]}
        [] \/ e.k = "alias"
           \/ e.k = "postgres" /\ e.a[1] = "uuid"
           \/ e.k = "binary" /\ e.a[1] \in {"+", "-", "*", "/"}
           \/ e.k = "temporal" /\ e.a[1] \notin {"clock", "overlaps"} -> under(ToSet(e.c))
        [] e.k = "case" ->
             under({e.c[i] : i \in {i \in DOMAIN e.c : i % 2 = 0 \/ i = Len(e.c)}})
        [] OTHER -> {}

\* Mutant of ProjectedNullability: only a projected column itself is checked.
BareColumnsNullable(s) ==
  \A e \in ToSet(s.selections) : e.k = "column" => e.a[1] \notin NullExtended(s)
ProjectedNullability(s) ==
  \A e \in ToSet(s.selections) : NullableSources(e) \intersect NullExtended(s) = {}

\* Mutant of JoinsSeeEarlier: a join predicate may use a relation joined later.
JoinsSeeAll(s, outer) ==
  \A i \in DOMAIN s.joins : ReferencedSources({s.joins[i].on}) \subseteq outer \union References(s)
\* A join predicate uses the relations before it and the one it joins.
JoinsSeeEarlier(s, outer) ==
  \A i \in DOMAIN s.joins :
    ReferencedSources({s.joins[i].on})
      \subseteq outer \union {Relations(s)[j].ref : j \in 1 .. i + 1}

\* outer holds what encloses the SELECT and the names of its own WITH clause.
SourcesVisible(s, outer) ==
  /\ s.from # <<>>
  /\ \A r \in ToSet(Relations(s)) : r.k = "cte" => r.name \in outer
  /\ Cardinality(References(s)) = Len(Relations(s))
  /\ JoinsSeeEarlier(s, outer)
  /\ ReferencedSources(GroupedExpressions(s) \union ToSet(s.where \o s.group))
       \subseteq outer \union References(s)
  /\ ProjectedNullability(s)

\* The tables a lock clause names, or all that FROM and JOIN name directly.
LockTargets(s, lock) ==
  IF lock.of = <<>> THEN {r \in ToSet(Relations(s)) : r.k = "table"} ELSE ToSet(lock.of)

LocksAllowed(s) ==
  s.locks # <<>> =>
    /\ ~s.distinct /\ <<s.group, s.having, s.compounds>> = <<<<>>, <<>>, <<>>>>
    /\ \A x \in WalkAll(GroupedExpressions(s) \union ToSet(s.where)) :
         x.k \notin {"aggregate", "window"}
    /\ \A lock \in ToSet(s.locks) :
         /\ LockTargets(s, lock) \subseteq {r \in ToSet(Relations(s)) : r.k = "table"}
         /\ {r.ref : r \in LockTargets(s, lock)} \intersect NullExtended(s) = {}

\* A date_bin stride bound as a value must be positive and without months.
TemporalLegal(x) ==
  x.a[1] = "bin" /\ x.c[1].k = "value" => x.c[1].a[1] # "empty stride"

DialectNodes(e, d) ==
  \A x \in Walk(e) : x.k = "temporal" => d.temporal /\ TemporalLegal(x)

-----------------------------------------------------------------------------
(* Statements.                                                              *)
RowLevel(es) == \A x \in WalkAll(es) : x.k \notin {"aggregate", "window"}

ExcludedSources(es) == {x.a[1] : x \in {y \in WalkAll(es) : y.k = "excluded"}}

\* The values of an INSERT and of its conflict action, in the order given.
AssignedValues(s) ==
  UNION {ToSet(RowValues(x)) : x \in ToSet(s.source)}
    \union UNION {ToSet(c.vals) : c \in ToSet(s.conflict)}

ConflictPredicates(s) == UNION {ToSet(c.target \o c.where) : c \in ToSet(s.conflict)}

\* excluded() belongs to the assignments and the predicate of DO UPDATE.
ExcludedPlaced(s) ==
  /\ \A c \in ToSet(s.conflict) : ExcludedSources(ToSet(c.target)) = {}
  /\ LET used == ExcludedSources(AssignedValues(s)
                                   \union UNION {ToSet(c.where) : c \in ToSet(s.conflict)})
     IN  used # {} =>
           /\ \E c \in ToSet(s.conflict) : c.act = "update"
           /\ used = {s.table.ref}

\* A conflict clause's own rules, and that only the target table is referenced.
InsertClauses(s) ==
  /\ \A c \in ToSet(s.conflict) :
       /\ c.target # <<>> => c.cols # <<>>
       /\ c.where # <<>> => c.act = "update"
  /\ ReferencedSources(ConflictPredicates(s) \union AssignedValues(s) \union ToSet(s.ret))
       \subseteq {s.table.ref}
  /\ ExcludedPlaced(s)

RECURSIVE ValidSelect(_, _, _), ValidStatement(_, _, _)

\* Mutant of NestedSelects: the dialect is not passed on to the subquery.
NestedForAnyDialect(e, d, outer) == \A s \in Subqueries({e}) : ValidSelect(s, POSTGRES, outer)
\* Every SELECT an expression embeds, in the scope it stands in.
NestedSelects(e, d, outer) == \A s \in Subqueries({e}) : ValidSelect(s, d, outer)

\* The row-level clauses of a DML statement.
DmlClauses(s, es, d, outer) ==
  /\ RowLevel(es)
  /\ \A e \in es :
       DialectNodes(e, d) /\ NestedSelects(e, d, outer \union {s.table.ref})

WritingCte(c, d, outer) ==
  ~c.rec /\ c.query.ret # <<>> /\ ValidStatement(c.query, d, outer)

ValidSelect(s, d, outer) ==
  LET bound == outer \union CteNames(s)
  IN  /\ CompoundShape(s)
      /\ \A i \in DOMAIN s.ctes :
           /\ s.ctes[i].name \notin Earlier(s, i)
           /\ IF s.ctes[i].query.k = "select"
                THEN /\ s.ctes[i].rec => RecursiveShape(s.ctes[i].query, s.ctes[i].name)
                     /\ ValidSelect(s.ctes[i].query, d, outer \union BodyScope(s, i))
                ELSE WritingCte(s.ctes[i], d, outer \union Earlier(s, i))
      /\ SourcesVisible(s, bound)
      /\ LocksAllowed(s)
      /\ \A e \in Expressions(s) : DialectNodes(e, d)
      /\ s.locks # <<>> => d.locks
      /\ AnalyticClauses(s)
      /\ Grouping(s)
      /\ \A arm \in ToSet(s.compounds) :
           arm.query.locks = <<>> /\ ValidSelect(arm.query, d, bound)
      /\ \A r \in ToSet(Relations(s)) : \A q \in ToSet(r.q) : ValidSelect(q, d, bound)
      /\ \A e \in Expressions(s) : NestedSelects(e, d, bound \union References(s))

ValidInsert(s, d, outer) ==
  /\ s.source # <<>>
  /\ LET source == s.source[1]
     IN  /\ source.k = "select" =>
              /\ source.cols # <<>>
              /\ Len(source.q[1].selections) = Len(source.cols)
              /\ ValidSelect(source.q[1], d, outer)
         /\ source.k = "default" => s.conflict = <<>>
  /\ InsertClauses(s)
  /\ ConflictPredicates(s) # {} => d.predicates
  /\ DmlClauses(s, AssignedValues(s) \union ConflictPredicates(s) \union ToSet(s.ret),
                d, outer)

ValidStatement(s, d, outer) ==
  CASE s.k = "select" -> ValidSelect(s, d, outer)
    [] s.k = "insert" -> ValidInsert(s, d, outer)
    [] OTHER -> /\ s.k = "update" => s.set # <<>>
                /\ s.bounded
                /\ ReferencedSources(Expressions(s)) \subseteq {s.table.ref}
                /\ DmlClauses(s, Expressions(s), d, outer)

\* A nested SELECT names only CTEs that the WITH clauses around it have bound.
NestedCtesVisible(s) ==
  \A x \in NestedScopes(s, {}) :
    x[1].k = "select" =>
      \A r \in ToSet(Relations(x[1])) :
        r.k = "cte" => r.name \in x[2] \union CteNames(x[1])

\* Mutant of WritesPlaced: only the WITH clauses of derived tables are looked at.
WritesPlacedInDerived(s) ==
  s.k = "select" =>
    \A r \in ToSet(Relations(s)) : \A q \in ToSet(r.q) :
      \A c \in ToSet(q.ctes) : c.query.k = "select"
\* A writing CTE stands in the outermost WITH clause.
WritesPlaced(s) ==
  \A x \in NestedScopes(s, {}) :
    x[1].k = "select" => \A c \in ToSet(x[1].ctes) : c.query.k = "select"

Accepts(s, d) == WritesPlaced(s) /\ NestedCtesVisible(s) /\ ValidStatement(s, d, {})
=============================================================================
