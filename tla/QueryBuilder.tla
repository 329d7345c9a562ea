---------------------------- MODULE QueryBuilder ----------------------------
(* The fluent builders of relq (query.py, dml.py), one action per method,    *)
(* and the two compilation entry points (_compiler/api.py).                 *)
(*                                                                          *)
(* An application holds one query value that it goes on building and a shelf *)
(* of values it set aside; values are immutable, so a value on the shelf can *)
(* be embedded any number of times (the value being built is not embedded in *)
(* itself).  What the application passes to a method is taken from the menu  *)
(* chosen at the start: the menus are the bound on the shapes a run explores. *)
(* A call that raises changes nothing and is a step the model does not take. *)
EXTENDS QueryRender

CONSTANT Menus       \* the menus, records with the fields used below

VARIABLES
  menu,      \* the menu of this behaviour
  value,     \* <<>>, or the query value being built: [cls, node, adapter]
  arbiter,   \* <<>>, or the ON CONFLICT under construction: [cols, target]
  shelf,     \* the values set aside
  compiled,  \* <<>>, or what the last compilation returned: [d, sql, ps]
  calls      \* how many builder calls were made, at most menu.calls

vars == <<menu, value, arbiter, shelf, compiled, calls>>

ReadClasses == {"SelectQuery", "ModifyingQuery"}

\* A query value: its Python class, its node, and the arity of its decoder
\* (0 without one).
Query(cls, node, adapter) == [cls |-> cls, node |-> node, adapter |-> adapter]

-----------------------------------------------------------------------------
(* What the application can pass.                                           *)
Shelved(classes) == {q \in ToSet(shelf) : q.cls \in classes}

\* select_node() accepts both reading classes.
SelectsOf(values) == {q.node : q \in {x \in ToSet(values) : x.cls \in ReadClasses}}

\* scalar(), exists(), not_exists() and in_() of a query set aside.
Scalars(values) == {Scalar(s) : s \in {x \in SelectsOf(values) : "scalar" \in menu.embeds}}
Membership ==
  {Exists(op, s) : op \in menu.embeds \intersect {"exists", "not exists"}, s \in SelectsOf(shelf)}
    \union {InQuery(x, "in", q.node) : x \in menu.members, q \in Shelved({"SelectQuery"})}

\* The name a projected expression publishes, "" if it has none.
OutputName(e) ==
  LET x == IF e.k = "nullable" THEN e.c[1] ELSE e
  IN  CASE x.k = "alias" -> x.a[1] [] x.k = "column" -> x.a[2] [] OTHER -> ""

\* _validate_output_schema: a projection and the columns a relation declares.
OutputsMatch(es, names) ==
  LET actual == [i \in DOMAIN es |-> OutputName(es[i])]
  IN  "" \notin ToSet(actual) /\ IsInjective(actual) /\ ToSet(actual) = ToSet(names)

\* as_(): a query on the shelf bound to a declared relation.
Derived ==
  {DerivedSource(s, r.name) :
     <<s, r>> \in {x \in {q.node : q \in Shelved({"SelectQuery"})} \X menu.relations :
                     OutputsMatch(x[1].selections, x[2].cols)}}

Sources == menu.sources \union Derived

-----------------------------------------------------------------------------
Init ==
  /\ menu \in Menus
  /\ value = <<>> /\ arbiter = <<>> /\ shelf = <<>> /\ compiled = <<>>
  /\ calls = 0

\* One builder call that returns a new value.
Call(new) ==
  /\ calls < menu.calls /\ compiled = <<>>
  /\ value' = <<new>>
  /\ calls' = calls + 1
  /\ UNCHANGED <<menu, compiled>>

\* A function that starts a query; the value at hand goes to the shelf.
Start(cls, node) ==
  /\ arbiter = <<>>
  /\ Len(shelf) + Len(value) <= menu.shelf
  /\ Call(Query(cls, node, 0))
  /\ shelf' = shelf \o value
  /\ UNCHANGED arbiter

\* A method of the given classes that returns a value of class cls.
Method(classes, new) ==
  /\ value # <<>> /\ arbiter = <<>>
  /\ value[1].cls \in classes
  /\ Call(new)
  /\ UNCHANGED <<shelf, arbiter>>

node == value[1].node

\* A method of SELECT that keeps the class and the decoder.
Selecting(new) == Method({"SelectQuery"}, [value[1] EXCEPT !.node = new])

\* Mutant of Conjoined: a second where() replaces the first.
Replaced(old, predicate) == <<predicate>>
\* where() and having() may be called again: the predicates are conjoined.
Conjoined(old, predicate) ==
  IF old = <<>> THEN <<predicate>> ELSE <<Binary(old[1], "and", predicate)>>

-----------------------------------------------------------------------------
(* query.py                                                                 *)
SelectCall ==
  \E es \in menu.selects \union {<<Aliased(x, "n")>> : x \in Scalars(shelf \o value)} :
    Start("SelectQuery", Select(es))

SelectAllFrom ==
  \E r \in menu.all : Start("SelectQuery", Select([i \in DOMAIN r.cols |-> Column(r.ref, r.cols[i])]))

From ==
  /\ value # <<>> /\ node.k = "select" /\ node.from = <<>>
  /\ \E r \in Sources : Selecting([node EXCEPT !.from = <<r>>])

JoinCall ==
  /\ value # <<>> /\ node.k = "select" /\ node.from # <<>>
  /\ \E r \in Sources, kind \in menu.kinds, on \in menu.ons \union Membership :
       Selecting([node EXCEPT !.joins = Append(@, Join(r, on, kind))])

CrossJoin ==
  /\ value # <<>> /\ node.k = "select" /\ node.from # <<>> /\ menu.cross
  /\ \E r \in Sources : Selecting([node EXCEPT !.joins = Append(@, Join(r, Star, "cross"))])

Where ==
  /\ value # <<>> /\ node.k = "select"
  /\ \E p \in menu.wheres \union Membership :
       Selecting([node EXCEPT !.where = Conjoined(@, p)])

GroupBy ==
  /\ value # <<>> /\ node.k = "select"
  /\ \E es \in menu.groups : Selecting([node EXCEPT !.group = @ \o es])

Having ==
  /\ value # <<>> /\ node.k = "select"
  /\ \E p \in menu.havings : Selecting([node EXCEPT !.having = Conjoined(@, p)])

Distinct ==
  /\ value # <<>> /\ node.k = "select" /\ menu.distinct /\ ~node.distinct
  /\ Selecting([node EXCEPT !.distinct = TRUE])

OrderBy ==
  /\ value # <<>> /\ node.k = "select"
  /\ \E es \in menu.orders : Selecting([node EXCEPT !.order = @ \o es])

Limit ==
  /\ value # <<>> /\ node.k = "select" /\ node.limit = <<>>
  /\ \E n \in menu.rows : Selecting([node EXCEPT !.limit = <<n>>])

Offset ==
  /\ value # <<>> /\ node.k = "select" /\ node.offset = <<>>
  /\ \E n \in menu.rows : Selecting([node EXCEPT !.offset = <<n>>])

\* union(), union_all(), intersect() and except_().
Combine ==
  /\ value # <<>> /\ node.k = "select"
  /\ \E op \in menu.ops, s \in SelectsOf(shelf) :
       /\ Len(s.selections) = Len(node.selections)
       /\ Selecting([node EXCEPT !.compounds = Append(@, Arm(op, s))])

\* A decoder on a CTE body would never run: the builder refuses it.
CteBodies(kinds) == {q.node : q \in {x \in ToSet(shelf) : x.adapter = 0 /\ x.node.k \in kinds}}

With ==
  /\ value # <<>> /\ node.k = "select"
  /\ \E c \in menu.ctes, s \in CteBodies({"select"}), mat \in menu.materialized :
       /\ OutputsMatch(s.selections, c.cols)
       /\ Method(ReadClasses,
                 [value[1] EXCEPT !.node.ctes = Append(@, Cte(c.name, s, FALSE, mat))])

WithRecursive ==
  /\ value # <<>> /\ node.k = "select" /\ menu.recursive
  /\ \E c \in menu.ctes, s \in CteBodies({"select"}) :
       /\ OutputsMatch(s.selections, c.cols)
       /\ Selecting([node EXCEPT !.ctes = Append(@, Cte(c.name, s, TRUE, FALSE))])

\* The result is a ModifyingQuery, whatever class it was.
WithModifying ==
  /\ value # <<>> /\ node.k = "select"
  /\ \E c \in menu.ctes, s \in CteBodies({"insert", "update", "delete"}) :
       /\ s.ret # <<>> /\ OutputsMatch(s.ret, c.cols)
       /\ Method(ReadClasses,
                 Query("ModifyingQuery",
                       [node EXCEPT !.ctes = Append(@, Cte(c.name, s, FALSE, FALSE))],
                       value[1].adapter))

\* for_update(), for_no_key_update(), for_share() and for_key_share().
LockRows ==
  /\ value # <<>> /\ node.k = "select"
  /\ \E of \in menu.locked : Selecting([node EXCEPT !.locks = Append(@, Lock("update", of, <<>>))])

\* no_wait() and skip_locked(): on the last lock clause, once.
Wait ==
  /\ value # <<>> /\ node.k = "select" /\ node.locks # <<>>
  /\ node.locks[Len(node.locks)].wait = <<>>
  /\ \E w \in menu.waits : Selecting([node EXCEPT !.locks[Len(node.locks)].wait = <<w>>])

\* Mutant of Decode: the arity of the row model is not compared.
DecodeAnything ==
  /\ value # <<>> /\ node.k = "select"
  /\ \E arity \in menu.arities : Method(ReadClasses, [value[1] EXCEPT !.adapter = arity])
Decode ==
  /\ value # <<>> /\ node.k = "select" /\ Len(node.selections) \in menu.arities
  /\ Method(ReadClasses, [value[1] EXCEPT !.adapter = Len(node.selections)])

-----------------------------------------------------------------------------
(* dml.py                                                                   *)
InsertInto == \E t \in menu.inserts : Start("InsertQuery", Insert(t))
UpdateCall == \E t \in menu.updates : Start("UpdateQuery", Update(t))
DeleteFrom == \E t \in menu.deletes : Start("DeleteQuery", Delete(t))

Inserting == {"InsertQuery", "ConflictUpdateQuery"}

\* An INSERT gets its source once; values() is values_many() with one row.
Sourced(source) ==
  /\ value # <<>> /\ node.k = "insert" /\ node.source = <<>>
  /\ Method(Inserting, [value[1] EXCEPT !.node.source = <<source>>])

Values     == \E v \in menu.values : Sourced(InsertSource("values", v.cols, v.rows, <<>>))
FromSelect ==
  \E cols \in menu.targets, s \in SelectsOf(shelf) :
    /\ Len(s.selections) = Len(cols)
    /\ Sourced(InsertSource("select", cols, <<>>, <<s>>))
DefaultValues == menu.defaults /\ Sourced(InsertSource("default", <<>>, <<>>, <<>>))

OnConflict ==
  /\ calls < menu.calls /\ compiled = <<>>
  /\ value # <<>> /\ value[1].cls \in Inserting /\ arbiter = <<>>
  /\ node.source # <<>> /\ node.source[1].k # "default"
  /\ \E cols \in menu.arbiters : arbiter' = <<[cols |-> cols, target |-> <<>>]>>
  /\ calls' = calls + 1
  /\ UNCHANGED <<menu, value, shelf, compiled>>

ArbiterWhere ==
  /\ calls < menu.calls /\ arbiter # <<>>
  /\ arbiter[1].cols # <<>> /\ arbiter[1].target = <<>>
  /\ \E p \in menu.partial : arbiter' = <<[arbiter[1] EXCEPT !.target = <<p>>]>>
  /\ calls' = calls + 1
  /\ UNCHANGED <<menu, value, shelf, compiled>>

\* The action that ends the clause; it replaces an earlier conflict clause.
Act(cls, conflict) ==
  /\ arbiter # <<>>
  /\ Call([value[1] EXCEPT !.cls = cls, !.node.conflict = <<conflict>>])
  /\ arbiter' = <<>>
  /\ UNCHANGED shelf

DoNothing ==
  arbiter # <<>> /\ Act(value[1].cls, Conflict(arbiter[1].cols, "nothing", <<>>, <<>>, arbiter[1].target))

DoUpdate ==
  /\ arbiter # <<>> /\ arbiter[1].cols # <<>>
  /\ \E v \in menu.sets :
       Act("ConflictUpdateQuery",
           Conflict(arbiter[1].cols, "update", v.cols, v.vals, arbiter[1].target))

\* where() after do_update(): whether the conflicting row is updated.
ConflictWhere ==
  /\ value # <<>> /\ value[1].cls = "ConflictUpdateQuery" /\ node.conflict # <<>>
  /\ \E p \in menu.conditions :
       Method({"ConflictUpdateQuery"},
              [value[1] EXCEPT !.cls = "InsertQuery", !.node.conflict[1].where = <<p>>])

SetValues ==
  /\ value # <<>> /\ node.k = "update" /\ node.set = <<>>
  /\ \E v \in menu.sets :
       Method({"UpdateQuery"}, [value[1] EXCEPT !.node.set = v.cols, !.node.vals = v.vals])

\* where() once and all_rows() bound the rows of an UPDATE or a DELETE; an
\* all_rows() that changes nothing is left out.
DmlWhere(cls) ==
  /\ value # <<>> /\ value[1].cls = cls /\ node.where = <<>>
  /\ \E p \in menu.wheres \union Membership :
       Method({cls}, [value[1] EXCEPT !.node.where = <<p>>, !.node.bounded = TRUE])

AllRows(cls) ==
  /\ value # <<>> /\ value[1].cls = cls /\ ~node.bounded /\ menu.unbounded
  /\ Method({cls}, [value[1] EXCEPT !.node.bounded = TRUE])

UpdateWhere   == DmlWhere("UpdateQuery")
UpdateAllRows == AllRows("UpdateQuery")
DeleteWhere   == DmlWhere("DeleteQuery")
DeleteAllRows == AllRows("DeleteQuery")

\* Every DML method that keeps the conflict clause but where() makes an
\* InsertQuery of a ConflictUpdateQuery.
Settled(cls) == IF cls = "ConflictUpdateQuery" THEN "InsertQuery" ELSE cls

\* A projection, once; it changes the row, so the new value has no decoder.
Project(classes) ==
  /\ value # <<>> /\ value[1].cls \in classes /\ node.ret = <<>>
  /\ \E es \in menu.returns :
       Method(classes, Query(Settled(value[1].cls), [node EXCEPT !.ret = es], 0))

InsertReturning == Project(Inserting)
UpdateReturning == Project({"UpdateQuery"})
DeleteReturning == Project({"DeleteQuery"})

DecodeRows(classes) ==
  /\ value # <<>> /\ value[1].cls \in classes /\ Len(node.ret) \in menu.arities
  /\ Method(classes, Query(Settled(value[1].cls), node, Len(node.ret)))

InsertDecode == DecodeRows(Inserting)
UpdateDecode == DecodeRows({"UpdateQuery"})
DeleteDecode == DecodeRows({"DeleteQuery"})

-----------------------------------------------------------------------------
(* compile_sqlite() and compile_postgres(): validate, then render.          *)
Compile(d) ==
  /\ value # <<>> /\ arbiter = <<>> /\ compiled = <<>>
  /\ Accepts(node, d)
  /\ LET r == RenderNode(node, d)
     IN  Renders(r) /\ compiled' = <<[d |-> d.name, sql |-> r.sql, ps |-> r.ps]>>
  /\ UNCHANGED <<menu, value, arbiter, shelf, calls>>

CompileSqlite   == Compile(SQLITE)
CompilePostgres == Compile(POSTGRES)

BuildSelect ==
  \/ SelectCall \/ SelectAllFrom \/ From \/ JoinCall \/ CrossJoin \/ Where \/ GroupBy
  \/ Having \/ Distinct \/ OrderBy \/ Limit \/ Offset \/ Combine \/ With \/ WithRecursive
  \/ WithModifying \/ LockRows \/ Wait \/ Decode

BuildDml ==
  \/ InsertInto \/ UpdateCall \/ DeleteFrom \/ Values \/ FromSelect \/ DefaultValues
  \/ OnConflict \/ ArbiterWhere \/ DoNothing \/ DoUpdate \/ ConflictWhere \/ SetValues
  \/ UpdateWhere \/ UpdateAllRows \/ DeleteWhere \/ DeleteAllRows
  \/ InsertReturning \/ UpdateReturning \/ DeleteReturning
  \/ InsertDecode \/ UpdateDecode \/ DeleteDecode

Next == BuildSelect \/ BuildDml \/ CompileSqlite \/ CompilePostgres

Spec == Init /\ [][Next]_vars
=============================================================================
