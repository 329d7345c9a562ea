------------------------------- MODULE Queries -------------------------------
(* The properties of the queries relq compiles: whatever an application     *)
(* builds from the menus, if compile_sqlite() or compile_postgres() returns, *)
(* then what it returns means what the builders said.                       *)
EXTENDS QuerySemantics, Batching

Done     == compiled # <<>>
Returned == compiled[1]

\* The width of the rows a statement produces.
Width(s) == IF s.k = "select" THEN Len(s.selections) ELSE Len(s.ret)

\* Class and node agree, and an attached decoder has the arity of the rows
\* (Query, decode(), returning(), with_modifying()).
TypeOK ==
  value # <<>> =>
    /\ value[1].cls \in ReadClasses <=> node.k = "select"
    /\ value[1].adapter \in {0, Width(node)}

\* The text a driver executes, with its parameters filled in, says what the
\* builders said with every value at its place (_compile_node, CompiledQuery).
ValuesInPlace ==
  Bind(Returned) = Inline(<<Sub(node)>>, IF Returned.d = "sqlite" THEN SQLITE ELSE POSTGRES)

\* A window that binds values both before "over" and behind it.
BindsAround(x) ==
  /\ x.k = "window"
  /\ CountParameters(x.c[1], SQLITE) > 0
  /\ \E e \in ToSet(Tail(x.c)) : CountParameters(e, SQLITE) > 0

\* The parameters a driver substitutes are the values the builders were given,
\* each at its place: a part that is rendered before the text to its left would
\* take that text's parameters wherever placeholders go by position.  Left out
\* are the windows of SQLite statements that WindowsKeepValues is about.
ParametersMatch ==
  Done =>
    \/ ValuesInPlace
    \/ /\ Returned.d = "sqlite"
       /\ \E s \in Statements(node) : \E x \in WalkAll(Expressions(s)) : BindsAround(x)

\* docs/overview.md: values are bound as parameters, also those of a windowed
\* expression and of the clauses that refine it (the WindowNode case of
\* _compile_node).
WindowsKeepValues == Done => ValuesInPlace

WritePredicates == IF node.k = "insert" THEN ConflictPredicates(node) ELSE {}

\* Every name a compiled query uses is bound where SQL looks for it
\* (validate_sources, nested CTE visibility).  The compiler also lets a column
\* be qualified by a CTE that is not in FROM; this property does too.
NamesResolve ==
  Done =>
    IF node.k = "select" THEN NamesBound(node, {}, {})
    ELSE /\ ReferencedSources(Expressions(node) \union WritePredicates) \subseteq {node.table.ref}
         /\ \A q \in Subqueries(Expressions(node) \union WritePredicates) :
              NamesBound(q, {node.table.ref}, {})
         /\ node.k = "insert" => \A q \in ToSet(node.source[1].q) : NamesBound(q, {}, {})

\* No projected expression is NULL in a row of the join unless nullable() says
\* so, and a locked table has a row in every row of the join
\* (validate_projected_nullability, validate_locks, null_extended_sources).
NullsAcknowledged ==
  Done => \A s \in SelectsIn(node) : \A missing \in Missing(s) :
            /\ \A e \in ToSet(s.selections) : ~IsNull(e, missing)
            /\ \A lock \in ToSet(s.locks) :
                 \A t \in LockTargets(s, lock) : t.ref \notin missing

\* A grouped query shows the same values whichever row of a group the engine
\* takes them from (validate_grouping).  Subqueries are taken as constants.
GroupedRowsDetermined ==
  Done => \A s \in SelectsIn(node) : Grouped(s) => DeterminedByGroup(s)

\* A compiled statement writes only at the top or in its outermost WITH clause,
\* with rows bounded and published; never for SQLite; and a SelectQuery, which
\* executors take as a read, writes nothing (with_modifying, WritesPlaced).
WritesAuthorized ==
  Done =>
    LET writing(s) == s.k # "select"
        outermost == IF node.k = "select" THEN {c.query : c \in ToSet(node.ctes)} ELSE {}
    IN  \A s \in {x \in Statements(node) : writing(x)} :
          /\ s.k \in {"update", "delete"} => s.bounded
          /\ value[1].cls # "SelectQuery"
          /\ s # node => s \in outermost /\ s.ret # <<>> /\ Returned.d = "postgres"

\* Everything between ON CONFLICT and DO is constant and about stored rows, so
\* that PostgreSQL can match it with a partial index whatever plan it uses
\* (_compile_index_predicate).
ArbiterConstant ==
  Done =>
    \A i, j \in DOMAIN Returned.sql :
      /\ Returned.sql[i] = "on conflict"
      /\ i < j
      /\ \A n \in i .. j : Returned.sql[n] \notin {"do nothing", "do update set"}
      => Returned.sql[j] \notin {"$" \o ToString(n) : n \in DOMAIN Returned.ps}
           \union {"excluded.x", "excluded.y"}

\* SQLite is never sent what only PostgreSQL understands, at any depth
\* (_validate_dialect_nodes, _require_postgres_expression).
SqlitePortable ==
  Done /\ Returned.d = "sqlite" =>
    /\ \A s \in SelectsIn(node) : s.locks = <<>>
    /\ \A s \in Statements(node) : \A x \in WalkAll(Expressions(s)) :
         x.k \notin {"temporal", "postgres"}

\* insert_many() over any stream, with the INSERT that was compiled as the
\* statement: every batch renders within the ceiling, the rows keep their
\* order, no batch could have taken the next row, and the stream fails only
\* at a row that no statement can hold (batch_rows).
BatchesFit ==
  Done /\ node.k = "insert" /\ node.source[1].k = "values" =>
    LET d == IF Returned.d = "sqlite" THEN SQLITE ELSE POSTGRES
        fits(batch) == Renders(RenderNode(StatementOver(node, batch), d))
    IN  \A stream \in menu.streams : \A end \in {BatchRows(stream, node, d)} :
          LET sent == FlattenSeq(end.out)
          IN  /\ \A i \in DOMAIN end.out :
                   /\ end.out[i] # <<>> /\ fits(end.out[i])
                   /\ i > 1 => ~fits(Append(end.out[i - 1], end.out[i][1]))
              /\ IsPrefix(sent, stream)
              /\ IF end.failed THEN \E row \in ToSet(stream) : ~fits(<<row>>)
                 ELSE sent = stream

\* The expressions a statement holds, but for a conflict clause that another
\* on_conflict() is about to replace.
Held(s, replacing) ==
  Expressions(IF replacing /\ s.k = "insert" THEN [s EXCEPT !.conflict = <<>>] ELSE s)

\* A builder call drops nothing that earlier calls put into the query
\* (where(), having(), with_(), ...): every expression, CTE, limit and lock
\* clause stays.
ClausesKept ==
  [][shelf' = shelf /\ value # <<>> =>
       /\ Held(node, arbiter # <<>>) \subseteq WalkAll(Expressions(node'))
       /\ node.k = "select" =>
            /\ IsPrefix(node.ctes, node'.ctes)
            /\ IsPrefix(node.joins, node'.joins)
            /\ IsPrefix(node.compounds, node'.compounds)
            /\ IsPrefix(node.limit, node'.limit) /\ IsPrefix(node.offset, node'.offset)
            /\ \A i \in DOMAIN node.locks :
                 /\ i \in DOMAIN node'.locks
                 /\ node'.locks[i].of = node.locks[i].of
                 /\ IsPrefix(node.locks[i].wait, node'.locks[i].wait)]_vars
=============================================================================
