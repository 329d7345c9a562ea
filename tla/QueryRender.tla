----------------------------- MODULE QueryRender -----------------------------
(* Rendering an accepted statement to SQL text and bound parameters         *)
(* (_compiler/_render.py).                                                  *)
(*                                                                          *)
(* Text is a sequence of tokens.  The template of a node is the sequence of  *)
(* pieces its rendering is made of, in the order of the text: <<"text", w>>, *)
(* <<"bind", v>> for a value, <<"node", x>> for a part with a template of    *)
(* its own, and <<"late", xs, y>> where the code renders y before xs but     *)
(* writes it after them.  Where the code raises, the token is "ERROR".       *)
EXTENDS QueryValidation

Text(w)     == <<"text", w>>
Texts(ws)   == [i \in DOMAIN ws |-> <<"text", ws[i]>>]
Sub(x)      == <<"node", x>>
Error       == Text("ERROR")

\* Parts with a separator between them.
Separated(xs, w) ==
  FlattenSeq([i \in DOMAIN xs |->
                IF i = 1 THEN <<Sub(xs[i])>> ELSE <<Text(w), Sub(xs[i])>>])
Listed(xs) == Separated(xs, ",")
Parens(ps) == <<Text("(")>> \o ps \o <<Text(")")>>

\* A clause that is left out when it has no parts.
Clause(w, xs) == IF xs = <<>> THEN <<>> ELSE <<Text(w)>> \o Listed(xs)

\* An interval bound as a value is cast, so that PostgreSQL can type it.
AsInterval(x) == IF x.k = "value" THEN <<Sub(x), Text("::interval")>> ELSE <<Sub(x)>>

TemporalPieces(e) ==
  LET form == e.a[1]
      op   == e.a[2]
      c    == e.c
  IN  CASE form = "clock"    -> <<Text(op)>>
        [] form = "call"     -> <<Text(op)>> \o Parens(Listed(c))
        [] form = "infix"    -> Parens(<<Sub(c[1]), Text(op), Sub(c[2])>>)
        [] form = "negate"   -> Parens(<<Text("-"), Sub(c[1])>>)
        [] form = "shift"    -> Parens(<<<<"late", <<Sub(c[1]), Text(op)>>, AsInterval(c[2])>>>>)
        [] form = "bin"      -> <<Text(op)>>
             \o Parens(AsInterval(c[1]) \o <<Text(","), Sub(c[2]), Text(","), Sub(c[3])>>)
        [] form = "overlaps" ->
             Parens(Parens(Listed(SubSeq(c, 1, 2))) \o <<Text(op)>>
                      \o Parens(Listed(SubSeq(c, 3, 4))))

\* when c1 then v1 when c2 then v2 ... else v
CasePieces(c) ==
  <<Text("case")>>
    \o FlattenSeq([i \in 1 .. Len(c) - 1 |->
                     <<Text(IF i % 2 = 1 THEN "when" ELSE "then"), Sub(c[i])>>])
    \o <<Text("else"), Sub(c[Len(c)]), Text("end")>>

ExpressionPieces(e, d) ==
  LET c == e.c
      q == [i \in DOMAIN e.q |-> Sub(e.q[i])]
  IN  CASE e.k = "column"    -> <<Text(e.a[1] \o "." \o e.a[2])>>
        [] e.k = "value"     -> <<<<"bind", e.a[1]>>>>
        [] e.k = "excluded"  -> <<Text("excluded." \o e.a[2])>>
        [] e.k = "star"      -> <<Text("*")>>
        [] e.k = "binary"    -> Parens(<<Sub(c[1]), Text(e.a[1]), Sub(c[2])>>)
        [] e.k = "unary"     -> Parens(<<Sub(c[1]), Text(e.a[1])>>)
        [] e.k = "function"  -> <<Text(e.a[1])>> \o Parens(Listed(c))
        [] e.k = "alias"     -> <<Sub(c[1]), Text("as"), Text(e.a[1])>>
        [] e.k = "nullable"  -> <<Sub(c[1])>>
        [] e.k = "between"   ->
             Parens(<<Sub(c[1]), Text(e.a[1]), Sub(c[2]), Text("and"), Sub(c[3])>>)
        [] e.k = "in"        ->
             Parens(<<Sub(c[1]), Text(e.a[1])>> \o Parens(q \o Listed(Tail(c))))
        [] e.k = "scalar"    -> Parens(q)
        [] e.k = "exists"    -> <<Text(e.a[1])>> \o Parens(q)
        [] e.k = "case"      -> CasePieces(c)
        [] e.k = "aggregate" ->
             <<Text(e.a[1])>> \o Parens(<<Sub(c[1])>>)
               \o (IF Len(c) = 1 THEN <<>>
                   ELSE <<Text("filter")>> \o Parens(<<Text("where"), Sub(c[2])>>))
        [] e.k = "window"    ->
             <<<<"late", <<Sub(c[1]), Text("over"), Text("(")>>,
                 Clause("partition by", SubSeq(c, 2, 1 + e.n))
                   \o Clause("order by", SubSeq(c, 2 + e.n, Len(c)))>>, Text(")")>>
        [] e.k = "postgres"  ->
             IF ~d.expressions THEN <<Error>>
             ELSE IF e.a[1] = "uuid" THEN <<Text("cast")>> \o Parens(<<Sub(c[1]), Text("as uuid")>>)
             ELSE Parens(<<Sub(c[1]), Text(e.a[1]), Sub(c[2])>>)
        [] e.k = "temporal"  -> TemporalPieces(e)

SourcePieces(r, d) ==
  CASE r.k = "table"   ->
         <<IF r.schema # "" /\ ~d.schemas THEN Error ELSE Text(r.schema \o r.name)>>
           \o (IF r.ref = r.name THEN <<>> ELSE Texts(<<"as", r.ref>>))
    [] r.k = "cte"     -> <<Text(r.name)>>
    [] r.k = "derived" -> Parens(<<Sub(r.q[1])>>) \o Texts(<<"as", r.ref>>)

-----------------------------------------------------------------------------
(* SELECT.                                                                  *)
WithPieces(s, d) ==
  LET body(c) == IF c.query.k # "select" /\ ~d.writes THEN Error ELSE Sub(c.query)
      entry(c) == Texts(<<c.name, IF c.mat THEN "as materialized" ELSE "as">>)
                    \o Parens(<<body(c)>>)
  IN  IF s.ctes = <<>> THEN <<>>
      ELSE <<Text(IF \E c \in ToSet(s.ctes) : c.rec THEN "with recursive" ELSE "with")>>
             \o FlattenSeq([i \in DOMAIN s.ctes |->
                  (IF i = 1 THEN <<>> ELSE <<Text(",")>>) \o entry(s.ctes[i])])

JoinPieces(j) ==
  <<Text(j.kind \o " join"), Sub(j.source)>>
    \o (IF j.kind = "cross" THEN <<>> ELSE <<Text("on"), Sub(j.on)>>)

LockPieces(lock) ==
  <<Text("for " \o lock.strength)>>
    \o (IF lock.of = <<>> THEN <<>>
        ELSE <<Text("of")>> \o [i \in DOMAIN lock.of |-> Text(lock.of[i].ref)])
    \o Texts(lock.wait)

LimitPieces(s, d) ==
  CASE s.limit # <<>> -> <<Text("limit"), Text(s.limit[1])>>
    [] s.limit = <<>> /\ s.offset # <<>> /\ d.padlimit -> Texts(<<"limit", "-1">>)
    [] OTHER -> <<>>

SelectPieces(s, d) ==
  WithPieces(s, d)
    \o <<Text(IF s.distinct THEN "select distinct" ELSE "select")>> \o Listed(s.selections)
    \o Clause("from", s.from)
    \o FlattenSeq([i \in DOMAIN s.joins |-> JoinPieces(s.joins[i])])
    \o Clause("where", s.where) \o Clause("group by", s.group)
    \o Clause("having", s.having) \o Clause("order by", s.order)
    \o LimitPieces(s, d)
    \o (IF s.offset = <<>> THEN <<>> ELSE Texts(<<"offset", s.offset[1]>>))
    \o FlattenSeq([i \in DOMAIN s.locks |-> LockPieces(s.locks[i])])
    \o FlattenSeq([i \in DOMAIN s.compounds |->
                     <<Text(s.compounds[i].op), Sub(s.compounds[i].query)>>])

-----------------------------------------------------------------------------
(* INSERT, UPDATE and DELETE.                                               *)
Assignments(cols, vals) ==
  FlattenSeq([i \in DOMAIN cols |->
    (IF i = 1 THEN <<>> ELSE <<Text(",")>>) \o <<Text(cols[i]), Text("="), Sub(vals[i])>>])

RECURSIVE IndexPredicate(_)
\* Mutant of ArbiterPieces: the arbiter's predicate with its values bound.
BoundArbiter(e) == <<Sub(e)>>
\* The predicate of a partial unique index: constants, and a closed set of
\* nodes; anything else is an error.
IndexPredicate(e) ==
  LET part(i) == IndexPredicate(e.c[i])
  IN  CASE e.k = "column" -> <<Text(e.a[1] \o "." \o e.a[2])>>
        [] e.k = "value"  -> <<Text(e.a[1])>>
        [] e.k = "binary" /\ e.a[1] \in {"=", "<>", "<", "<=", ">", ">=", "and", "or"} ->
             Parens(part(1) \o <<Text(e.a[1])>> \o part(2))
        [] e.k = "unary" /\ e.a[1] # "not" -> Parens(part(1) \o <<Text(e.a[1])>>)
        [] e.k = "in" /\ e.q = <<>> ->
             Parens(part(1) \o <<Text(e.a[1])>>
               \o Parens(FlattenSeq([i \in 1 .. Len(e.c) - 1 |-> part(i + 1)])))
        [] e.k = "between" ->
             Parens(part(1) \o <<Text(e.a[1])>> \o part(2) \o <<Text("and")>> \o part(3))
        [] OTHER -> <<Error>>
ArbiterPieces(e) == IndexPredicate(e)

ConflictPieces(c) ==
  <<Text("on conflict")>> \o (IF c.cols = <<>> THEN <<>> ELSE Parens(Texts(c.cols)))
    \o (IF c.target = <<>> THEN <<>> ELSE <<Text("where")>> \o ArbiterPieces(c.target[1]))
    \o (IF c.act = "nothing" THEN <<Text("do nothing")>>
        ELSE <<Text("do update set")>>
               \o (IF c.set = <<>> THEN <<Error>> ELSE Assignments(c.set, c.vals))
               \o Clause("where", c.where))

InsertPieces(s) ==
  LET source == s.source[1]
      values == FlattenSeq([i \in DOMAIN source.rows |->
                  (IF i = 1 THEN <<>> ELSE <<Text(",")>>) \o Parens(Listed(source.rows[i]))])
  IN  <<Text("insert into"), Sub(s.table)>>
        \o (CASE source.k = "default" -> <<Text("default values")>>
              [] source.k = "values"  -> Parens(Texts(source.cols)) \o <<Text("values")>> \o values
              [] source.k = "select"  -> Parens(Texts(source.cols)) \o <<Sub(source.q[1])>>)
        \o FlattenSeq([i \in DOMAIN s.conflict |-> ConflictPieces(s.conflict[i])])
        \o Clause("returning", s.ret)

UpdatePieces(s) ==
  <<Text("update"), Sub(s.table), Text("set")>> \o Assignments(s.set, s.vals)
    \o Clause("where", s.where) \o Clause("returning", s.ret)

DeletePieces(s) ==
  <<Text("delete from"), Sub(s.table)>> \o Clause("where", s.where) \o Clause("returning", s.ret)

Template(x, d) ==
  CASE x.k = "select" -> SelectPieces(x, d)
    [] x.k = "insert" -> InsertPieces(x)
    [] x.k = "update" -> UpdatePieces(x)
    [] x.k = "delete" -> DeletePieces(x)
    [] x.k \in {"table", "cte", "derived"} -> SourcePieces(x, d)
    [] OTHER -> ExpressionPieces(x, d)

-----------------------------------------------------------------------------
(* Text and parameters.                                                     *)
\* Mutant of Placeholder: one style for both dialects.
AnonymousPlaceholder(d, n) == "?"
\* placeholder of the Dialect record: "?" in the order of the text, or numbered.
Placeholder(d, n) == IF d.name = "sqlite" THEN "?" ELSE "$" \o ToString(n)

RECURSIVE Render(_, _, _)
\* The text of the pieces, and the parameters ps followed by those they bind.
Render(pieces, d, ps) ==
  IF pieces = <<>> THEN [sql |-> <<>>, ps |-> ps]
  ELSE LET p == Head(pieces)
           here ==
             CASE p[1] = "text" -> [sql |-> <<p[2]>>, ps |-> ps]
               [] p[1] = "bind" -> [sql |-> <<Placeholder(d, Len(ps) + 1)>>, ps |-> Append(ps, p[2])]
               [] p[1] = "node" -> Render(Template(p[2], d), d, ps)
               [] p[1] = "late" ->
                    LET second == Render(p[3], d, ps)
                        first  == Render(p[2], d, second.ps)
                    IN  [sql |-> first.sql \o second.sql, ps |-> first.ps]
           rest == Render(Tail(pieces), d, here.ps)
       IN  [sql |-> here.sql \o rest.sql, ps |-> rest.ps]

RenderNode(x, d) == Render(<<Sub(x)>>, d, <<>>)

\* count_parameters: what a node binds, whatever the ceiling.
CountParameters(x, d) == Len(RenderNode(x, d).ps)

\* render_query raises on an unsupported node and above the ceiling.
Renders(r) == "ERROR" \notin ToSet(r.sql) /\ Len(r.ps) <= MaxParameters
=============================================================================
