--------------------------- MODULE QuerySemantics ---------------------------
(* What SQL makes of a statement, stated without the compiler's analyses:   *)
(* the reference the queries that the compiler accepts are held against.    *)
EXTENDS QueryBuilder

\* Every statement in a statement, the predicates of a conflict clause included.
RECURSIVE Statements(_)
Statements(s) ==
  LET inner == {x[1] : x \in NestedScopes(s, {})}
                 \union (IF s.k = "insert" THEN Subqueries(ConflictPredicates(s)) ELSE {})
  IN  {s} \union UNION {Statements(x) : x \in inner}

SelectsIn(s) == {x \in Statements(s) : x.k = "select"}

-----------------------------------------------------------------------------
(* Joins: which relations have a row at all in a row of the join.           *)
RECURSIVE JoinedRows(_, _)
JoinedRows(s, n) ==
  IF n = 0 THEN {{s.from[1].ref}}
  ELSE LET old  == JoinedRows(s, n - 1)
           new  == s.joins[n].source.ref
           both == {p \union {new} : p \in old}
       IN  CASE s.joins[n].kind \in {"inner", "cross"} -> both
             [] s.joins[n].kind = "left"  -> both \union old
             [] s.joins[n].kind = "right" -> both \union {{new}}
             [] s.joins[n].kind = "full"  -> both \union old \union {{new}}

\* The sets of relations that have no row in some row of the join.
Missing(s) == {References(s) \ p : p \in JoinedRows(s, Len(s.joins))}

RECURSIVE IsNull(_, _)
\* A strict expression is NULL when an operand is; nullable() admits it.
IsNull(e, missing) ==
  CASE e.k = "column" -> e.a[1] \in missing
    [] e.k \in {"alias", "temporal"} -> \E x \in ToSet(e.c) : IsNull(x, missing)
    [] e.k = "binary" /\ e.a[1] \in {"+", "-"} -> \E x \in ToSet(e.c) : IsNull(x, missing)
    [] e.k = "case" -> \E i \in DOMAIN e.c : (i % 2 = 0 \/ i = Len(e.c)) /\ IsNull(e.c[i], missing)
    [] OTHER -> FALSE

-----------------------------------------------------------------------------
(* Groups: a row gives every column 0 or 1, and an expression is the sum of *)
(* its parts; an aggregate is the same for all the rows of a group.         *)
LocalColumns(s) ==
  {x \in WalkAll(GroupedExpressions(s) \union ToSet(s.group)) :
     x.k = "column" /\ x.a[1] \in References(s)}

RECURSIVE ValueIn(_, _)
ValueIn(e, row) ==
  CASE e.k = "aggregate"   -> 0
    [] e \in DOMAIN row    -> row[e]
    [] OTHER -> FoldFunction(+, 0, [i \in DOMAIN e.c |-> ValueIn(e.c[i], row)])

\* Two rows of one group agree on everything the grouped query shows.
DeterminedByGroup(s) ==
  LET rows == [LocalColumns(s) -> {0, 1}]
  IN  \A r1, r2 \in rows :
        (\A g \in ToSet(s.group) : ValueIn(g, r1) = ValueIn(g, r2))
          => \A e \in GroupedExpressions(s) : ValueIn(e, r1) = ValueIn(e, r2)

-----------------------------------------------------------------------------
(* Names: a FROM clause binds relations for the clauses after it and for    *)
(* the subqueries in them; WITH binds names in order; a derived table sees   *)
(* neither its own FROM clause nor the one it stands in.                    *)
RECURSIVE NamesBound(_, _, _)
NamesBound(s, outer, withs) ==
  LET known == withs \union CteNames(s)
      local == outer \union References(s)
  IN  /\ \A i \in DOMAIN s.ctes :
           s.ctes[i].query.k = "select" =>
             NamesBound(s.ctes[i].query, outer, withs \union BodyScope(s, i))
      /\ \A r \in ToSet(Relations(s)) :
           /\ r.k = "cte" => r.name \in known
           /\ \A q \in ToSet(r.q) : NamesBound(q, outer, known)
      /\ ReferencedSources(Expressions(s)) \subseteq local \union known
      /\ \A i \in DOMAIN s.joins :
           ReferencedSources({s.joins[i].on})
             \subseteq outer \union known \union {Relations(s)[j].ref : j \in 1 .. i + 1}
      /\ \A q \in Subqueries(Expressions(s)) : NamesBound(q, local, known)
      /\ \A arm \in ToSet(s.compounds) : NamesBound(arm.query, outer, known)

-----------------------------------------------------------------------------
(* Text: the same statement with every value written where it stands.       *)
RECURSIVE Inline(_, _)
Inline(pieces, d) ==
  FlattenSeq([i \in DOMAIN pieces |->
    LET p == pieces[i]
    IN  CASE p[1] \in {"text", "bind"} -> <<p[2]>>
          [] p[1] = "node" -> Inline(Template(p[2], d), d)
          [] p[1] = "late" -> Inline(p[2], d) \o Inline(p[3], d)])

\* What a driver reads: the n-th "?" is the n-th parameter, "$n" is parameter n.
Bind(c) ==
  LET questions(i) == Cardinality({j \in 1 .. i : c.sql[j] = "?"})
      numbered == [n \in DOMAIN c.ps |-> "$" \o ToString(n)]
  IN  [i \in DOMAIN c.sql |->
         IF c.sql[i] = "?" THEN c.ps[questions(i)]
         ELSE IF c.sql[i] \in ToSet(numbered)
                THEN c.ps[CHOOSE n \in DOMAIN c.ps : numbered[n] = c.sql[i]]
         ELSE c.sql[i]]
=============================================================================
