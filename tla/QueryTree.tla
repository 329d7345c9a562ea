------------------------------ MODULE QueryTree ------------------------------
(* The private syntax tree of relq (_ast.py) and the analyses that the      *)
(* builders and the compiler share (_analysis/).                            *)
(*                                                                          *)
(* A tree node is a record with one shape for every kind, so that TLC can   *)
(* hold nodes of different kinds in one set: its kind k, its atoms a (a      *)
(* sequence of strings: names, operators, a bound value), its operands c, a *)
(* count n (partition expressions of a window) and the SELECT it embeds, if *)
(* any, in q.  An optional field of the code is a sequence of length 0 or 1.*)
EXTENDS Integers, Sequences, FiniteSets, SequencesExt

Leaf(k, a)          == [k |-> k, a |-> a, n |-> 0, c |-> <<>>, q |-> <<>>]
Tree(k, a, c)       == [Leaf(k, a) EXCEPT !.c = c]
Embedding(k, a, c, s) == [Tree(k, a, c) EXCEPT !.q = <<s>>]

-----------------------------------------------------------------------------
(* Expressions.                                                             *)
Column(source, name)      == Leaf("column", <<source, name>>)
Bound(v)                  == Leaf("value", <<v>>)
Excluded(source, name)    == Leaf("excluded", <<source, name>>)
Star                      == Leaf("star", <<>>)
Binary(l, op, r)          == Tree("binary", <<op>>, <<l, r>>)
Unary(op, x)              == Tree("unary", <<op>>, <<x>>)
Function(name, args)      == Tree("function", <<name>>, args)
Aliased(x, name)          == Tree("alias", <<name>>, <<x>>)
Nullable(x)               == Tree("nullable", <<>>, <<x>>)
Between(x, lo, hi)        == Tree("between", <<"between">>, <<x, lo, hi>>)
InList(x, xs)             == Tree("in", <<"in">>, <<x>> \o xs)
InQuery(x, op, s)         == Embedding("in", <<op>>, <<x>>, s)
Scalar(s)                 == Embedding("scalar", <<>>, <<>>, s)
Exists(op, s)             == Embedding("exists", <<op>>, <<>>, s)

\* The branches of a searched CASE, each a condition and a value, and its ELSE.
Case(branches, otherwise) ==
  Tree("case", <<>>, FlattenSeq(branches) \o <<otherwise>>)

\* filter is <<>> or <<predicate>>; every aggregate has exactly one argument.
Aggregate(name, x, filter) == Tree("aggregate", <<name>>, <<x>> \o filter)

\* A window call; its frame and the direction of its order are left out.
Window(x, partition, order) ==
  [Tree("window", <<>>, <<x>> \o partition \o order)
     EXCEPT !.n = Len(partition)]

\* The PostgreSQL-only operators with one rendering each: JSON member, regular
\* expression, cast to uuid.
Postgres(form, args) == Tree("postgres", <<form>>, args)

\* The temporal nodes: a rendering form ("call", "infix", "shift" for
\* timestamp plus or minus interval, "bin", ...), its operator or function,
\* and its operands.
Temporal(form, op, args) == Tree("temporal", <<form, op>>, args)

-----------------------------------------------------------------------------
(* Relations and statements.                                                *)
TableSource(name, ref, schema) ==
  [k |-> "table", name |-> name, ref |-> ref, schema |-> schema, q |-> <<>>]
CteSource(name) ==
  [k |-> "cte", name |-> name, ref |-> name, schema |-> "", q |-> <<>>]
DerivedSource(s, alias) ==
  [k |-> "derived", name |-> "", ref |-> alias, schema |-> "", q |-> <<s>>]

Join(source, on, kind)       == [source |-> source, on |-> on, kind |-> kind]
Cte(name, s, rec, mat)       == [name |-> name, query |-> s, rec |-> rec, mat |-> mat]
Arm(op, s)                   == [op |-> op, query |-> s]
Lock(strength, of, wait)     == [strength |-> strength, of |-> of, wait |-> wait]

Select(selections) ==
  [k |-> "select", selections |-> selections, from |-> <<>>, joins |-> <<>>,
   where |-> <<>>, group |-> <<>>, having |-> <<>>, order |-> <<>>,
   limit |-> <<>>, offset |-> <<>>, distinct |-> FALSE, ctes |-> <<>>,
   compounds |-> <<>>, locks |-> <<>>]

\* The rows of an INSERT, one for values() and several for values_many(); or
\* the SELECT it reads; or DEFAULT VALUES.
InsertSource(k, cols, rows, q) == [k |-> k, cols |-> cols, rows |-> rows, q |-> q]
Conflict(cols, act, set, vals, target) ==
  [cols |-> cols, act |-> act, set |-> set, vals |-> vals,
   target |-> target, where |-> <<>>]

Insert(table) ==
  [k |-> "insert", table |-> table, source |-> <<>>, conflict |-> <<>>, ret |-> <<>>]
Update(table) ==
  [k |-> "update", table |-> table, set |-> <<>>, vals |-> <<>>, where |-> <<>>,
   bounded |-> FALSE, ret |-> <<>>]
Delete(table) ==
  [k |-> "delete", table |-> table, where |-> <<>>, bounded |-> FALSE, ret |-> <<>>]

-----------------------------------------------------------------------------
(* _analysis: structural descent.                                           *)
RECURSIVE Walk(_)
\* A node and every node reachable through its operands; it stays outside of
\* the SELECT an expression embeds.
Walk(e) == {e} \union UNION {Walk(x) : x \in ToSet(e.c)}

WalkAll(es) == UNION {Walk(e) : e \in es}

ReferencedSources(es) == {x.a[1] : x \in {y \in WalkAll(es) : y.k = "column"}}

Subqueries(es) == UNION {ToSet(x.q) : x \in WalkAll(es)}

\* The relations a SELECT names in FROM and JOIN, in order.
Relations(s)  == s.from \o [i \in DOMAIN s.joins |-> s.joins[i].source]
References(s) == {r.ref : r \in ToSet(Relations(s))}

\* Every row of an INSERT, end to end.
RowValues(source) == FlattenSeq(source.rows)

\* The expressions a statement owns.
Expressions(s) ==
  CASE s.k = "select" ->
         UNION {ToSet(x) : x \in {s.selections, s.where, s.group, s.having, s.order}}
           \union {j.on : j \in ToSet(s.joins)}
    [] s.k = "insert" ->
         UNION ({ToSet(RowValues(x)) : x \in ToSet(s.source)}
                \union {ToSet(x.vals) : x \in ToSet(s.conflict)}
                \union {ToSet(s.ret)})
    [] s.k = "update" -> ToSet(s.vals \o s.where \o s.ret)
    [] s.k = "delete" -> ToSet(s.where \o s.ret)

\* The CTE names bound before entry i of a WITH clause.
Earlier(s, i) == {s.ctes[j].name : j \in 1 .. i - 1}
CteNames(s)   == {c.name : c \in ToSet(s.ctes)}

\* What a CTE body sees of its own WITH clause.
BodyScope(s, i) ==
  Earlier(s, i) \union (IF s.ctes[i].rec THEN {s.ctes[i].name} ELSE {})

RECURSIVE CteReferences(_)
\* The CTE names used anywhere in a SELECT but in its own WITH bodies.
CteReferences(s) ==
  {r.name : r \in {x \in ToSet(Relations(s)) : x.k = "cte"}}
    \union UNION {CteReferences(x) :
                    x \in UNION {ToSet(r.q) : r \in ToSet(Relations(s))}
                          \union Subqueries(Expressions(s))
                          \union {arm.query : arm \in ToSet(s.compounds)}}

\* Each query directly inside a statement with the CTE names it can see.
ChildScopes(s, visible) ==
  LET bound == IF s.k = "select" THEN visible \union CteNames(s) ELSE visible
  IN  {<<x, bound>> : x \in Subqueries(Expressions(s))}
        \union
      CASE s.k = "select" ->
             {<<s.ctes[i].query, visible \union BodyScope(s, i)>> : i \in DOMAIN s.ctes}
               \union {<<x, bound>> : x \in UNION {ToSet(r.q) : r \in ToSet(Relations(s))}}
               \union {<<arm.query, bound>> : arm \in ToSet(s.compounds)}
        [] s.k = "insert" -> {<<x, bound>> : x \in UNION {ToSet(y.q) : y \in ToSet(s.source)}}
        [] OTHER -> {}

RECURSIVE NestedScopes(_, _)
\* Every query strictly inside a statement with the CTE names it can see.
NestedScopes(s, visible) ==
  LET here == ChildScopes(s, visible)
  IN  here \union UNION {NestedScopes(x[1], x[2]) : x \in here}

\* The relations an outer join can NULL-extend: the side a LEFT or FULL join
\* adds, and everything before a RIGHT or FULL one.
NullExtended(s) ==
  {Relations(s)[i].ref : i \in
     {i \in DOMAIN Relations(s) :
        \/ i > 1 /\ s.joins[i - 1].kind \in {"left", "full"}
        \/ \E j \in DOMAIN s.joins : j >= i /\ s.joins[j].kind \in {"right", "full"}}}
=============================================================================
