# relq: a TLA+ verification project

relq is a typed SQL query builder for Python. It compiles immutable query trees
to SQL, executes them on SQLite (`sqlite3`, synchronous) and PostgreSQL
(`asyncpg`, asynchronous), migrates databases from numbered SQL files, and
generates typed schema modules from a live database. This directory holds the
models of the parts whose behaviour depends on order, failure and concurrency,
the instances TLC checks, and the proofs TLAPS checks.

All paths below are relative to the repository. `PG` stands for
`packages/relq-postgres/src/relq_postgres/__init__.py`, `SL` for
`packages/relq-sqlite/src/relq_sqlite/__init__.py`, `MIG` for
`packages/relq-migrate/src/relq_migrate/`.

## 1. The system

| Component | State it keeps | Operations | Interacts with |
|---|---|---|---|
| asyncpg transactions (`PG`) | per connection: a registry of open handles (`_PostgresTransactionState`: ordered entries, reserved savepoint names), kept in a process-wide table; per handle: closed/invalidated, pool lease; on the server: transaction status and savepoint stack | `begin`, `commit`, `rollback`, `savepoint`, savepoint `release`/`rollback`, queries, `_recover_connection` | pool, driver, observer callbacks, caller's own SQL on the connection |
| asyncpg streaming (`PG`) | server-side cursor inside a transaction of its own | `fetch_iter` | transactions, observer, consumer of the generator |
| SQLite executor (`SL`) | the same registry, synchronous, one real transaction per connection | the same | `sqlite3` connection modes, observer |
| SQLite migrator (`MIG/sqlite.py`) | history table in the database; write lock; the caller's `busy_timeout` and `foreign_keys` | `migrate_to_latest`, `pending` | other processes through the database file |
| PostgreSQL migrator (`MIG/postgres.py`) | history table, session advisory lock, schema cache per session | `migrate_to_latest`, `pending` | other sessions, the transaction control in migration files |
| migration files (`MIG/_model.py`, `MIG/provider.py`) | none | ordering, checksums, `pending_migrations` | both migrators |
| migrate CLI (`MIG/__main__.py`) | none | migrate, then generate; `--check` | migrators, code generation |
| query AST, builders, compiler (`packages/relq-core`) | none: immutable values | build, analyse (scopes, CTEs, grouping, validation), render | executors |
| insert batching (`relq/_batching.py`) | one batch and one row of look-ahead | `batch_rows` | compiler (parameter count) |
| code generation (`packages/relq-codegen`) | none; one output file | introspect, map types, allocate names, write/check | databases, CLI |

### Where it is hard

*Transactions.* Handles are Python objects; savepoints live on the server. Each
control operation changes both, with an `await` between. A command can fail, be
cancelled while the server does or does not apply it, lose the connection, or
succeed and then be interrupted by the caller's observer. Recovery must bring
the two sides together again without ending a transaction that the caller
opened, without leaking a pooled connection, and without closing handles that
are still good. The correctness conditions: a usable handle always controls
something that exists; handles nest like the savepoints they stand for; names
are reserved exactly while they are in use; no transaction relq opened is left
without a handle; the caller's transaction is never ended; a pooled connection
goes back exactly once; every operation ends.

*Migrations.* Several processes may start at once, with different versions of
the package. The lock is taken and released once per file, so everything read
under one lock may be stale under the next. A process may die or be interrupted
at any point, a file may fail in its middle, and SQLite's foreign-key switch
works only outside a transaction, so it must be moved around the transaction on
every path. The conditions: history and schema change together and one whole
file at a time; a file is applied only after exactly the files that precede it
in its own package; a report says what happened; settings and lock return to
what they were; a run ends.

*Queries.* Building and compiling a query has no concurrency. What makes it hard
is the number of sequences of calls and of places where an expression or a query
may stand. Each rule of the compiler looks at one construct; whether the rules
together leave no hole shows only when queries are held against a definition of
what SQL means that does not use the compiler's own analyses. The conditions:
every parameter stands where its value was given; every name is bound; a value
that can be NULL is acknowledged as such; a group determines what it projects;
writes happen only where an executor expects them; a dialect is sent only what
it understands; no builder call loses what another one added; batches fit the
parameter ceiling.

The complete list of hazards, each at its line and with the properties that
cover it, is `PROJECT.json` → `hazards`.

## 2. Modules

| Module | What it is |
|---|---|
| `ScopeStack` | abstract: nested scopes; closing one closes everything opened inside it and nothing around it |
| `PgTransactions` | the asyncpg transactions on one physical connection, and the server behind it |
| `PgTransactionsProofs` | its types, and the nesting of its handles |
| `PgRegistryProofs` | its names, its pool lease and the caller's transaction; builds on the nesting |
| `PgHandlesProofs` | what its handles control on the server; builds on the nesting and the names |
| `MCPgTransactions` | instance for TLC |
| `WorkScopes` | abstract: what becomes of the writes made through nested scopes |
| `SqliteTransactions` | the SQLite executor's transactions on one connection, implementing `ScopeStack` and `WorkScopes`; its own instance for TLC |
| `SqliteTransactionsProofs` | its theorems: the handles, and what becomes of the writes |
| `MigrationFiles` | files, history rows, `pending_migrations` (constants and operators; no behaviour) |
| `MigrationHistory` | abstract: what a migrator promises of history and schema |
| `MigrationFilesProofs` | lemmas about histories and packages that both migrators' proofs use |
| `SqliteMigrator` | `SQLiteMigrator.migrate_to_latest` run by several processes |
| `SqliteMigratorProofs` | its theorems |
| `MCSqliteMigrator` | the packages of files the runs use |
| `PgMigrator` | `PostgresMigrator.migrate_to_latest` run by several sessions, against the same `MigrationHistory` |
| `PgMigratorProofs` | its theorems |
| `MCPgMigrator` | the packages of files the runs use |
| `QueryTree` | the syntax tree (`_ast.py`) and the shared analyses (`_analysis/`) |
| `Expressions` | the public expression factories |
| `QueryValidation` | what the compiler accepts (`validation.py`, `grouping.py`) |
| `QueryRender` | what it emits: tokens and bound values (`_render.py`) |
| `QueryBuilder` | the state machine: a fluent call or a compilation per action (`query.py`, `dml.py`, `api.py`) |
| `QuerySemantics` | the reference: what SQL makes of a statement, without the compiler's analyses |
| `BatchPlan` | `batch_rows`: where a stream is cut, given what its rows and the statement cost |
| `BatchPlanProofs` | what it yields, for every stream and ceiling |
| `Batching` | the costs: `batch_rows` over rows and an INSERT of the query modules |
| `Queries` | the properties |
| `MCQueries` | the menus: what the application can pass, one small vocabulary per part of the grammar |

`Queries` extends `Batching` and `QuerySemantics`, which extend in turn
`QueryBuilder`, `QueryRender`, `QueryValidation` and `QueryTree`. The recursive
operators are in these modules only, and no theorem is about them; `BatchPlan`,
which `Batching` extends, has none and stands alone.

Definitions whose comment begins with "Mutant of" are variants of the definition
named there with a plausible mistake in it; no specification uses them. They
show that each property can fail.

### `PgTransactions` and the code

*State.* `info` is what each handle's constructor stored (transaction or
savepoint, owner, generated savepoint name, registry). Handles are numbered in
registration order, so a registry's ordered `entries` list is its set of open
handles in increasing order and its `stack` the transaction handles among them.
`names` are the reserved savepoint names, `current` the registry that
`_TRANSACTION_STATES_BY_CONNECTION` holds for the connection. `pooled` and
`leased` are the two sides of the pool lease. `session` is PostgreSQL:
transaction status (none, opened by the caller, opened by relq), aborted or not,
the savepoint stack (which allows equal names), and whether the connection is
up. `frame[t]` is the operation task `t` is suspended in: the awaited call
(`at`), the command sent (`do`, `save`), the recovery boundary (`edge`) and the
reply.

*Actions.* The event loop switches only where the code awaits the driver, so the
synchronous code between two awaits is one action: `Begin` runs from the call to
the start statement, `BeginOk` from its reply to the return, and so on for each
of `commit`, `rollback`, `savepoint`, the savepoint's own `release` and
`rollback`, `_cleanup_savepoint` (`Undone`, `UndoEnds`) and `_recover_connection`
(`Recover`, `RecoverTo`, `RecoverEnds`). A command sent while another is in
flight is refused by asyncpg at once, without a switch. `Answer` is the server:
it accepts or rejects the command by PostgreSQL's rules. `Cancel` covers a
cancelled task and an observer interrupted on the error path: the task sees an
error and the server may or may not have applied the command. `Lose` drops the
connection. `BeginInterrupted` and `SavepointInterrupted` are the observer being
interrupted after success.

*Left out.* `transaction()`, `transaction_connection()` and the streaming methods
are sequences of `begin` with `commit` or `rollback`; the modelled application
may call any handle's operations in any order and so includes them. The codec
setup and the query itself are one command (`Query`). `pool.release()` is one
step with the action that calls it. Savepoint names are numbers: a caller's name
is one of `Name`, and a number up to `MaxBegins` is spelled like the
`relq_savepoint_<n>` that relq draws. Operations overlap on a direct connection
only (`Pool => Serial`); two tasks that share the handles of one pooled connection
would meet the same registry, and the lease besides. Garbage collection and reuse of `id()` are
not modelled.

### `SqliteTransactions` and the code

*State.* `info`, `open`, `names` and `minted` are the registry, as in
`PgTransactions`. `session` is SQLite with the `sqlite3` module in front of it:
whether a transaction is open and whose it is, whether it was opened by its first
savepoint (`root`: releasing that one commits), the savepoints with the writes
that were pending at each, the pending and the durable writes, and `whole`,
which turns false when SQLite ends the transaction by itself. `mode` is the
connection's transaction control: `autocommit=True`, `autocommit=False`
(`pep249`), legacy with an `isolation_level`, legacy without (`manual`).

*Actions.* The executor is synchronous, so one operation is one action; the
branches inside it are the outcomes of each command it sends (`Sent`): refused
by the database's rules, done, or raised, in which case it was not applied, was
applied before the interrupt, was half applied (`connection.commit()` under
`autocommit=False` is COMMIT and BEGIN), or made SQLite roll back by itself.
`Observed` is the observer that runs after a command and may be interrupted: a
begin() or savepoint() is then taken back, while a commit, rollback, release or
statement raises although it has been done (`Finish`, `RollbackTo`, `Execute`).
`BeginAdopts`, `BeginTop` and `BeginNested` are the branches of `begin()`;
`Commit`, `RollbackTop`, `RollbackNested`, `Savepoint`, `Release` and
`RollbackTo` the other operations, with `Recover` (`_recover_after_control_failure`)
and the two clean-ups inside them. `Execute` and `ExecuteFails` are a statement,
`CallerBegins` and `CallerEnds` the caller's own use of the connection.

*Refinement.* `HandlesNest` maps the handles to `ScopeStack`. `WritesFollowScopes`
maps them to `WorkScopes`, whose `base[s]`, what was pending when scope `s`
opened, is read off the savepoint of the handle. In `WorkScopes` an operation that
raises has done all of its work, or nothing, or has given the whole transaction up;
never a part. `WorkScopes` promises nothing once `whole` is false.

*Left out.* `transaction()` is `begin` with `commit` or `rollback`. Rows and
their decoding. Savepoints that the caller makes with SQL of its own, and SQL of the
caller's that ends a transaction relq opened.

### `SqliteMigrator` and the code

*State.* `db` is the committed database (history rows, the schema as the
sequence of statements whose effects it holds, whether a foreign key is
violated), `lock` SQLite's write lock, `work` what the lock's owner sees.
`run[m]` is where process `m` is in `_migrate`/`_apply` and the report it will
return; `fk` and `timeout` are the two settings of its connection.

*Actions.* One per call to SQLite, because other processes run between any two
of them; reads under the write lock are merged with the step that uses them,
because nobody else can change what they read. `Start`, `BeginSetup`, `Setup`
and `SetupRefused` are the first transaction of a run; `OpenFile`, `BeginFile`,
`SkipFile`, `EnterFile`, `Execute`, `CommitFile` and `FileRefused` are `_apply`
with its `except` and `finally` clauses inside the action that reaches them.
`BusyTimeout` is `BEGIN IMMEDIATE` giving up; `Fails` is any other call that
fails; `Crash` is the death of the process; `Interrupt` and `InterruptEarly` are
`KeyboardInterrupt`. SQLite ignores `PRAGMA foreign_keys` inside a transaction, so
`Restored`, the `finally` clause of `_apply`, has an effect only where the
transaction is over.

*Left out.* The text of a file is reduced to what each statement does (changes
the schema, breaks or mends a foreign key, is rejected, is transaction control).
A file name is a number that keeps the file's place in name order. The provider
returns the same files throughout a run. A second failure inside an `except` or
`finally` clause (a ROLLBACK or PRAGMA that itself fails, a second interrupt) is
not modelled. `pending()` only reads.

### `PgMigrator` and the code

*State.* `db` holds a history table per schema and the committed schema. `held`
says how often each session holds the advisory lock of each history table
(PostgreSQL counts, and a session does not wait for itself). `session` is the
physical session: its committed `search_path`, the schema that
`_SESSION_SCHEMA_CACHE` has pinned for it, and whether a transaction is open on
it. `run[m]` is where the migrator is, its report so far, and what the open
transaction has executed and set.

*Actions.* `Start` (with `_history_table_reference`), `GetLock`, `Setup` or
`SetupRefused`, then per file `BeginFile`, `Execute`, `CommitFile` or
`FileRefused`, then `Unlock`, the `finally` clause. Commands that only read what
the lock protects are merged with the step that uses what they read. `Fails` is a
command that fails, `Lose` a lost connection (a COMMIT on its way may or may not
have arrived), `Crash` a dead process, `UnlockFails` the exception that the
`finally` clause only logs. `Cancel` is a cancelled task: `CancelledError` is not
an `Exception`, so only the `finally` clauses run; the server may or may not have
applied the command. A pool resets the session it takes back (locks,
transaction, `search_path`), but the pinned schema outlives that. `Reconnect` is
the application closing its own connection between runs.

*Left out.* The checks after each statement (status, `is_in_transaction`,
`txid_current`, `standard_conforming_strings`) can only fire when the splitter
overlooks a statement boundary; they come with the splitter. asyncpg's ROLLBACK
of a failed file is one step with the failure. A client-side `command_timeout`
that races the grant of the lock (`Fails` at `GetLock` leaves the lock alone) is
not modelled; its effect would be that of the cancellation in finding 3. An
application that reuses one connection object for two migrators at once is not
modelled.

### The query modules and the code

*Data.* A node of any kind is a record of one shape (`QueryTree`): its kind, its
atoms, its operands and the statement it embeds. SELECT, INSERT, UPDATE and
DELETE are records with the fields of their dataclasses. Identifiers and values
are short strings; SQL text is a sequence of tokens, so layout and quoting are
gone and order is kept.

*State.* `QueryBuilder` holds the value being built, a shelf of values set aside
to be embedded in others (queries are immutable, so one may be embedded more than
once), and what the last compilation returned. A call that raises leaves
everything as it was and is therefore no step; its condition is the guard of
the action. `Menus` bounds what the application can pass: a behaviour picks one menu
and builds whatever its calls can build.

*Compilation.* `QueryValidation` has one operator per validation function, true
where the function returns. `QueryRender` has one template per node; a part that
the code renders before the text to its left is marked `late`, because its
parameters enter the list earlier: the interval of a shift, which only PostgreSQL
with its numbered placeholders has, and the clauses of a window (finding 4).
`QuerySemantics` states without these how SQL
binds names, which rows of a join have no partner, and what a group determines.

*Left out.* Window frames, sort directions and NULLS FIRST/LAST, the row and
model adapters (`rows.py`: only the arity is kept), quoting, casts other than the
interval one, and the constructor checks that typed callers cannot fail. Rows
without a column, and rows of different shapes, raise in `batch_rows`.

## 3. Runs

| Run | Instance | What it shows |
|---|---|---|
| `PgSerial` | 1 task, 4 handles, 3 generated names, 1 fault; caller names one ordinary and one spelled like a generated name | one operation at a time: `HandlesLive`, `NamesExact`, `OneRegistry`, `StrandedOnlyByRecovery`, `CallerWorkSafe`, and the refinement `ScopesNest` |
| `PgPool` | pooled connection, 4 handles, 2 faults, an ordinary name only | a recovery or clean-up that is itself hit by a fault; `ConnectionAccounted` |
| `PgConcurrent` | 2 tasks on one connection, 2 handles, 1 fault | `OperationsEnd` |
| `PgChildOutlivesParent` | 2 tasks, no fault | finding 1: `ParentInvalidatesChildren` violated |
| `PgCommitAborted` | 1 task, no fault | finding 2: `CommitIsDurable` violated |
| `SqliteTransactions` | all 4 modes, 4 handles, 2 generated names and a caller's name spelled like the second, 2 writes, 2 faults | `HandlesLive`, `NamesExact`, `StrandedByTwoFaults`, and the refinements `HandlesNest` and `WritesFollowScopes` |
| `SqliteFaults` | 2 processes, 3 files (one a table rebuild with `foreign_keys = off`), 2 faults, 1 interrupt; one connection enforces keys, one does not | `ReportsHold`, `LockReleased`, `RunsProgress`, `RunsEnd` |
| `SqlitePackages` | 4 processes with an edited, a renamed, a violating and a merged version of the package (the last with a file between two others, and a failing one), 1 fault | `ImplementsHistory`, `ForeignKeysHold`, `SettingsRestored` |
| `PgRuns` | 3 sessions with 3 versions of a package (complete, with a forbidden statement, with a SQLite directive), the first file sets `search_path`; 2 schemas, one session pooled, 1 fault, 1 cancellation | `ReportsHold`, `ImplementsHistory`, `SessionReleased`, `RunsEnd` |
| `PgLockLeaked` | 1 session, 1 cancellation | finding 3: `LockAlwaysReleased` violated |
| `Queries` | 14 menus, up to 9 calls each, compiled for both dialects, ceiling of 6 parameters | `ParametersMatch`, `NamesResolve`, `NullsAcknowledged`, `GroupedRowsDetermined`, `WritesAuthorized`, `ArbiterConstant`, `SqlitePortable`, `ClausesKept`, `BatchesFit` |
| `QueryWindows` | one menu of windows with values in the expression and in its clauses | finding 4: `WindowsKeepValues` violated |

The runs of `PgTransactions` and `SqliteTransactions` set `CHECK_DEADLOCK FALSE`,
because the bounds on handles, names, writes and faults let the application stop,
and so do those of the queries, where an application stops when it has compiled;
the migrators' runs check deadlock.

### Why these bounds

Four handles give a transaction, two levels inside it and a sibling: enough for
a boundary with handles both inside and around it, and for a savepoint owned by
a handle that is not the top one. Three generated names let one be drawn while
an earlier one is still open and another was freed. One fault reaches every
single failure; two reach a failure of the recovery from the first, and nothing
in recovery retries, so a third would meet code that has already given up. With
two faults a savepoint can stay on the server whose name relq has freed (its
cleanup failed and no handle was there to recover). A caller's savepoint spelled
like that generated name can then hit the wrong one; `PgPool` therefore
uses a name that is not spelled like a generated one, and `PgSerial`, with one
fault, uses both. Two tasks show every pairwise interleaving; no operation waits
for more than one other.

Two processes and three files let a process find one or more files applied
between its listing and its own turn, and let a run fail with files on both
sides. Four differing packages give every kind of disagreement between versions:
an edited file, a file unknown to the other, a file that a merged branch puts
between two applied ones (where only the ordered-prefix check stops the run), a
key violation with and without the directive, and a rejected or failing file
behind applied ones. The packages of `PgRuns` do not disagree in these ways; that
`pending_migrations` refuses them there too is part of the proof.

In `PgRuns` the first two files are common to two packages, so that one session
finds the other's work; a run that fails behind the first file leaves its session
with a changed `search_path`, and the next run of the same session is the one
that the pinned schema protects. One fault and one cancellation together reach a
run that starts behind a leaked lock or an unanswered COMMIT.

`SqliteTransactions` has the same four handles. Its one name for callers is
spelled like the second generated name, so that either may be taken first; the
proof shows that more names, handles and faults change nothing. Two writes let
one scope be kept and another undone. Two faults are needed for
`StrandedByTwoFaults` to have a case at all.

Each menu of `MCQueries` holds what one part of the grammar needs to go wrong:
three sources and four kinds of joins for NULL-extension; a correlated subquery
inside a subquery for names; an aggregate, a window and a grouped expression for
groups; a writing query at each place that takes a query; a conflict clause with
an arbiter predicate; and so on. A query that needs two parts at once (a lock
under an outer join, a CTE inside a set operation) has a menu of its own. The
number of calls differs per menu: it is what the part needs to put one clause
into a query that already has the others. Six parameters let a batch hold one, two or three rows
and let the statement's own parameters leave no room for any.

### Fairness

`PgTransactions!Fairness` is strong fairness of every task's continuation and of
the server's answer. The event loop is a queue: a task that can go on is resumed.
Strong and not weak, because a task whose commands are refused continues without
giving up the loop, so another task may be unable to run for as long as an
application issues refused commands one after the other; the assumption is that
no application does so for ever. Nothing is assumed about the application's
calls, and no fault is fair.

`SqliteMigrator!FairSpec` is weak fairness of each process's steps: a call to
SQLite returns. `BEGIN IMMEDIATE` needs no assumption on the holder of the lock,
because it ends in `BusyTimeout` when the lock stays taken.

`PgMigrator!FairSpec` is weak fairness of each run's steps and strong fairness of
`GetLock`: the server queues the sessions that wait for an advisory lock.
`RunsEnd` is conditional there: `pg_advisory_lock` has no timeout, so a lock that
a cancellation leaked makes other runs wait for ever, and the property says that
nothing else does.

## 4. Findings

Four have a run that shows them:

1. *A child can outlive its parent* (`PgChildOutlivesParent`). `commit()` and
   `rollback()` invalidate later handles before they await the driver. A
   `begin()` or `savepoint()` of another task whose reply has already arrived is
   resumed afterwards and registers a handle of a transaction that is over.
   `docs/execution.md:147` says completing a parent invalidates every child.
   The same interleaving is why `HandlesLive` is checked for one operation at a
   time.
2. *A commit may keep nothing* (`PgCommitAborted`). PostgreSQL answers the COMMIT
   of an aborted transaction with ROLLBACK and no error; `commit()` does not look
   at the command tag. `docs/execution.md:149` says a parent commit keeps the
   writes.
3. *A cancellation can leak the advisory lock* (`PgLockLeaked`). `locked` is set
   after the await of `pg_advisory_lock` returned; cancelled between the grant
   and the reply, the `finally` clause does not unlock. A pooled session is reset
   when it goes back and loses the lock there; a direct connection keeps it until
   it is closed. `docs/migrations.md:203` says the lock is then released.
4. *Values change places around a window* (`QueryWindows`). `partition by` and
   `order by` are rendered before the expression that stands to their left, and the
   values enter the list in that order. On SQLite, whose placeholders go by position,
   `count(coalesce(c, 0)).over().order_by(coalesce(c, 1))` runs with 0 and 1
   exchanged. `docs/overview.md:23` says values are bound as parameters. No other
   node that SQLite accepts is rendered out of order: `ParametersMatch`, in the run
   `Queries`, leaves out only the windows that bind values on both sides of `over`.

Others were met while modelling and have no run of their own; the models behave
as the code does, and the properties are stated so that they say what still
holds:

- PostgreSQL recovery behind a nested handle invalidates the subtree of that
  handle only; `docs/execution.md:132-134` says every handle of the connection.
  The code keeps more than is promised.
- Recovery can end the caller's transaction when two tasks call `begin()` inside it.
  The second reads the stack while it is still empty (`PG:480`), so it has no
  boundary; when it is cancelled after the first has registered its handle,
  `_recover_connection` finds a handle, takes the transaction for relq's and sends a
  raw ROLLBACK. The comment at `PG:918-920` is about the case without a handle only.
  TLC finds this as a violation of `CallerWorkSafe` with the constants of
  `PgConcurrent`, two generated names and `Spec`; `PgSerial` checks it, and
  `CallerWorkSafeCorrect` proves it, for one operation at a time.
- A negated predicate does not parse: `~p` is rendered with `not` behind its
  operand, like `is null` (`core.py:194`, `_render.py:508-509`), although
  `docs/expressions.md:22-23` lists `~` among the operators that combine Boolean
  expressions. `QueryRender` emits what the code emits; no property is about it.
- A `KeyboardInterrupt` in the first transaction of a SQLite migrator run leaves
  the write lock held (`except Exception`, where `_apply` has `BaseException`);
  `docs/migrations.md:203-204` says the lock is released. `LockReleased` says that
  a run leaves the lock behind in this case only.
- A `KeyboardInterrupt` between the PRAGMA that changes a setting of a migrator's
  connection and the `try` that restores it loses the caller's value, so
  `SettingsRestored` is checked without interrupts.
- relq keeps generated savepoint names apart from those of open handles, not from
  those that a cancelled savepoint() left on the server: two faults and a caller's
  name like relq_savepoint_2 let a begin() that fails undo the work of another
  handle (section 5). This is why `HandlesLiveCorrect` asks for ordinary names.
- When SQLite ends the transaction by itself (`RAISE(ROLLBACK)`, a full disk), the
  handles stay usable. The next `begin()` or `savepoint()` opens a savepoint outside
  every transaction, whose release commits at once; the parent's `rollback()` cannot
  discard it, and under legacy control raises nothing.
  `docs/execution.md:147-151` has no such exception. This is why `HandlesLive`
  and `WorkScopes` stop where `whole` does.
- The compiler accepts a column qualified by a CTE that is not in FROM; a subquery
  inside ON that refers to a table joined later; a correlated subquery over an
  ungrouped column, and a grouped expression that binds a value, both of which
  PostgreSQL rejects (`docs/queries.md:65-66` promises portable grouping); an
  aliased expression in WHERE or ORDER BY.
- `coalesce()` counts as not NULL also when all its operands come from
  NULL-extended sides.
- Set operations are chained flat: `a.union(b).intersect(c)` is evaluated left to
  right by SQLite, while INTERSECT binds tighter in PostgreSQL.
- `on_conflict()` called twice replaces the first clause silently.
- The predicates of a conflict clause are not among the expressions `scopes.py`
  walks, so a data-modifying query in them is not found.
- `batch_rows` raises at a row that no statement can hold and drops the pending
  batch of the rows before it; earlier batches have been sent.

## 5. Proofs

### The asyncpg transactions

`PgTransactionsProofs` holds three theorems, for every set of tasks and names and
every bound:

- `TypeCorrect`: `Spec => []TypeOK`. TypeOK is inductive. One lemma per operator
  (`ShutType`, `AwaitType`, `RecoverType`, `AppliedType`, ...) says what it keeps
  of the types, and one per group of actions combines them.
- `ScopesNestCorrect`: if operations do not overlap (`Serial`), then
  `Spec => ScopesNest`: the handles of a connection implement `ScopeStack`.
- `OneRegistryCorrect`: under the same assumption, `Spec => []OneRegistry`.

The last two rest on the inductive invariant `NestInv`. ScopesNest is not
inductive over TypeOK: that finishing handle `h` removes exactly a suffix of the
open handles needs (a) `WellNested`: every open handle is in the current
registry, and a savepoint's owner is open and older than the savepoint; (b)
`FrameInv(t)`: an operation that is waiting for a reply still has its handle,
its registry and its boundary open in the shape it left them; (c) `OneBusy`: no
second operation can change them meanwhile; (d) `PoolHeld`: while a handle
is open a pooled connection is checked out, and the handle that gives it back is
the outermost. (b) fails as soon as two operations overlap, which is finding
1, so the assumption `Serial` is needed and not a convenience. The proof of the
step has one lemma per group of actions (`NestStarts`, `NestBegins`, `NestEnds`,
`NestFinishes`, `NestSavepoints`, `NestReplies`, `NestOutside`); `ShutSuffix` and
`ShutAfter` are the facts about the registry that they share.

`PgRegistryProofs` adds three theorems, each from `NestInv` and one more
invariant:

- `NamesExactCorrect`: under `Serial`, `Spec => []NamesExact`. Mid-operation the
  property is false: savepoint() reserves its name before the server answers.
  `NamesInv` therefore says that the reserved names are those of the open handles
  and those a savepoint() is waiting for, that no two open handles share one, and
  that an awaited name is nobody's yet. Without the last two, closing one handle
  could free the name of another.
- `ConnectionAccountedCorrect`: `Spec => []ConnectionAccounted`. `PoolInv` names
  the operations that `Carries` the connection: a begin() whose handle is not
  built yet, and a recovery that has closed every handle already; while it is
  checked out, there is an open handle that gives it back or such an operation.
  That a nested recovery cannot lose the lease needs `PoolHeld`: the pooled handle
  is outside every boundary. A direct connection has `DirectInv`: nothing is ever
  acquired. For a pool `Serial` is part of `ConstantsAssumption`: the model lets
  operations overlap on a direct connection only.
- `CallerWorkSafeCorrect`: under `Serial`, `Spec => CallerWorkSafe`. `CallerInv`
  says that while the caller's transaction is open, every open transaction handle
  is a savepoint, no task is sending BEGIN, COMMIT or a raw ROLLBACK, and a begin()
  that fails has an open boundary to go back to or nothing to recover.

`PgHandlesProofs` adds the two theorems about what the open handles control on the
server:

- `StrandedOnlyByRecoveryCorrect`: under `Serial`, `Spec => StrandedOnlyByRecovery`.
  `Stranded` asks for a state that no operation resolves, so the proof has to know
  what every operation is about to do. `Sends` says which command an operation has
  sent at each of its labels, `Status` what its reply tells of the server's
  transaction; `Controls` that handles are open only inside a transaction, and an
  outermost one only inside relq's, until an operation ends it; `OuterFirst` that
  the outermost handle is the oldest. Together they are `BlockInv`.
- `HandlesLiveCorrect`: under `Serial`, and if callers do not spell savepoint names
  like generated ones (`Name \cap (1 .. MaxBegins) = {}`), `Spec => []HandlesLive`.
  While an operation runs the property is false: between the reply to
  RELEASE and the task that closes the handle, the handle is open and its
  savepoint is gone. Such handles are `Doomed`; `Mirrored` says of all others that
  the server has their savepoints in the order of the handles. A failed clean-up
  leaves savepoints that no handle controls, so the invariant speaks of the newest
  savepoint of each name, and `FrameLive` says of the one that a running operation
  is about to undo or release that it lies above those of the handles that stay
  (`Above`) and is not any handle's (`Unused`). `NameInv` says that a generated
  name is on the server's stack once. For a caller's name that is false: the next
  savepoint of that name hides an old one.

  The condition on the names is needed. A cancelled savepoint("relq_savepoint_2")
  leaves the name on the server without a handle; a nested begin() goes on top of
  it; the next one draws number 2, its SAVEPOINT fails, and its ROLLBACK TO goes
  back to the old savepoint, past the one of the handle in between. That takes two
  faults: `PgSerial` checks such a name with one fault, `PgPool` an ordinary name
  with two.

Assumptions used: `ConstantsAssumption`, and `Serial` and the condition on the
names where stated.

### The SQLite executor

`SqliteTransactionsProofs` holds, for every set of modes and names and every
bound, faults included:

- `TypesHold`: `Spec => []TypeOK`;
- `HandlesStayLive`: `Spec => []HandlesLive`;
- `NamesStayExact`: `Spec => []NamesExact`;
- `StrandingTakesTwoFaults`: `Spec => StrandedByTwoFaults`;
- `NestingRefined`: `Spec => HandlesNest`, the executor implements `ScopeStack`;
- `InvariantHolds`: `Spec => []NextInv`, on which the others rest.

`HandlesLive` is not inductive. That completing a handle leaves the savepoints of
the handles around it alone needs: (a) `RegInv`: open handles have distinct names
(otherwise a command meant for one finds the other's savepoint), a savepoint
handle's owner is open and older, and exactly the outermost handle is without a
savepoint; (b) `SessInv`: a transaction that a savepoint opened (`root`) still
has that savepoint, and without a transaction there is none; (c) `LiveInv`: the
savepoint a handle finds under its name lies above those of the handles around
it, and above the one whose release would commit. Savepoints that no handle
controls may lie between them: a clean-up that failed leaves one. The invariant
is about the newest savepoint of each name, and the lemmas `CutNewest`,
`PushNewest`, `ReleaseKeeps`, `RollbackToKeeps` and `SavepointKeeps` say which
commands leave it where it was, also when they raise after they were applied.
`FinishOK`, `RecoverOK`, `NestedOK`, `OutermostOK`, `FailedInside` and `QuietOK`
are the six ways an operation can end; the lemma of an action picks one for each
outcome of its commands. `FinishEnds` and `ObservedEnds` say that an interrupted
observer changes what the operation reports and nothing else. The proof needs no assumption besides
`ConstantsAssumption`: the executor is synchronous, so no counterpart of `Serial`
is needed.

The second part of the module proves `WritesFollowScopesCorrect`: `Spec => WritesFollowScopes`,
that the executor implements `WorkScopes`. `Base` maps a handle to what its
savepoint would restore, so the step to prove is that each operation leaves the
savepoints of the handles that stay *the same*, not only in the same order, and
does to the writes what the abstract step says. `NextInv` gives the first part: the
lemmas on it say where the newest savepoint of each name stays, `Agree` that no
command changes what a savepoint restores, and `Same` combines them
(`SameAlso`). It does not give the second: an operation that goes back to a savepoint
and then fails must have given writes up, never brought any back, or it is
no `Abort`. This is `WorkInv`, a chain: every savepoint was taken of a part of
what each newer one was taken of, and of what is pending; without a transaction
nothing is pending. `SavesWork` and `TopWork` say what one command does to the
writes, `SentSaves` and `SentTop` what a command can do that fails. An interrupted
observer is where both meet: the ROLLBACK TO that takes the new savepoint back
must restore what was pending when it was made (`MadeFor`, `TakenBack`).
`RefusedWork`, `AbortedWork`, `OpenedWork`, `KeptWork` and `UndoneWork` are the
abstract steps that an operation can end in. The proof needs no assumption besides
`ConstantsAssumption`.

### The migrators

`SqliteMigratorProofs` and `PgMigratorProofs` hold, for every set of migrators and
packages, every number of files and statements, and every bound on faults,
interrupts and cancellations:

| Theorem | SQLite | PostgreSQL |
|---|---|---|
| `MigratorTypes` | `[]TypeOK` | `[]TypeOK` |
| `HistoryRefined`: the migrator implements `MigrationHistory` | `ImplementsHistory` | `ImplementsHistory` |
| `ReportsTrue` | `[]ReportsHold` | `[]ReportsHold` |
| `EveryCallProgresses`: a run only goes forward | `RunsProgress` | `RunsProgress` |
| what a run gives back | `LocksGivenBack`, `SettingsGivenBack` | `SessionsGivenBack` |
| committed schemas satisfy their foreign keys | `ForeignKeysKept` | |
| `MigratorInvariant`, on which the others rest | `[]Inv` | `[]Inv` |

`LocksGivenBack` is about every run, interrupted ones too. `SettingsGivenBack` and
`ForeignKeysKept` are about states before a first `KeyboardInterrupt`
(`interrupts = 0`), and `SessionReleased` is about states
before a first cancellation or failed unlock (`cancels = 0`): section 4 says what
happens after one. The other theorems have no such condition.

*The argument.* `ImplementsHistory` is about whole files and prefixes of packages,
the code about names: `pending_migrations` compares the names and checksums that
it reads with those of the package. What connects them is `Honest`: any package
that the check does not refuse starts with exactly the files of the history.
`AppendHonest` shows that appending the next file of an accepted package keeps this
for *every* package, also for other versions of it. It needs that names
ascend (`ShippedAssumption`, which `provider.py` establishes by sorting) and
that the history skips no file of the package, the last check of
`pending_migrations` (`OutOfOrder`).

Between reading the history and committing a file, `HeldInv` says that
the open transaction holds the committed state and a first part of the
current file (`Partway`), and that the current file is the one behind the
committed rows. Others cannot disturb this: in SQLite because whoever is in a
transaction owns the write lock; in PostgreSQL because of `Exclusive` (the
advisory lock has one holder) together with `PinInv`, that every session that has
run keeps its history in the schema `Home`, whatever `search_path` its
migrations have set since. Without the pinned schema two sessions would hold
different locks. `ReportInv` ties each `Success` of a report to its row,
and `QuietInv` each setting to the place in the run where it is borrowed. That a
run holds no lock between its transactions is part of `HeldInv`; `LockLeft` gets
`LocksGivenBack` from it.
Each action is shown to keep the parts of its own migrator and to stay in its
`Frame`; `OthersKeep` does the rest once. `EndsOK`, `FileEndsOK` and `GoesOnOK` (and
`LeavesOK`, `ReturnsOK`) are the ways a step can end.

*Why runs end.* `EveryCallProgresses` is the safety half of `RunsEnd`. The rank of a
run is the pair of `FilesLeft`, the files it has not decided, and `CallsLeft`, the
calls it may still make before the next one is decided; both are natural numbers
for the whole of a run, because its place in the package and in the file is
(`RunInv`, `HeldInv`). `Nearer` says that the pair gets smaller in lexicographic
order or that the run is over. Every step of the run does that: also a refused
file, a busy timeout, a failure, an interrupt and a cancellation. In SQLite these
end the run; in PostgreSQL they end it or leave it only its unlock. No step of another migrator
changes the pair, so a run that keeps making steps ends after finitely many, whatever
the packages. What `RunsEnd` adds, that a run does keep making steps, takes `ENABLED` and
the fairness of section 3 and stays with TLC. `SqliteFaults` checks `RunsProgress` of
the SQLite migrator; that of the other one is in `PgMigratorProofs` and is proved only.

Assumptions used: `ShippedAssumption`; `SqliteAssumption` and `OwnerAssumption`;
`PgAssumption` and `UnpinnedAssumption`.

### Insert batching

`BatchPlanProofs` is about every job: every stream, every natural number of
parameters a row binds (none, too, as a row of expressions may), every number that
the statement binds besides, and every ceiling, also one that the statement alone
exceeds.

- `StreamSplit`: what `Batches` yields is a `Split` of the stream. There are
  positions at which it is cut; each statement is the rows between two of them,
  at least one, `Spent` on it is within the ceiling, and with the row after its last
  it would not be. Without an error the pieces are the whole stream and
  every row fits alone; with one, the pieces end before the first row that does
  not fit alone.
- `FewestStatements`: if there is no error, no other choice of cuts (`Cuts`) whose
  pieces fit needs fewer statements. This is the docstring's "largest consecutive
  batches": taking as much as fits is also best over the whole stream.

*The argument.* `Filled` says after n rows where the cuts are, that the pending batch
is the rows since the last cut and that `used` is what a statement over them
would bind. `FailedHere`, `Joined`, `Closed` and `StaysFailed` are the four things a
row can do. That a batch which is closed is not empty needs the order of the checks:
a row too large for an empty batch has raised before. `FewestStatements` compares
cuts: by induction the i-th cut of any other choice is not behind the i-th of
`batch_rows`, because totals never fall (`TotalGrows`).

*Recursion.* The batches and the running total are recursive functions over the
positions of the stream. The library's theorems on such functions take operators as
parameters, which cannot be instantiated here. `Recursion` replaces them with a
statement about the function of steps, `[1 .. N -> [V -> V]]`; from it follow the
equations of `Filling` and `Total` (`FillingDef`, `TotalDef`), and `UpTo` is
induction on the position, from the least counterexample (`WFMin`).

What a row and a statement cost is `count_parameters`, which is recursive over
the syntax tree and has no theorem. That a statement over several rows binds its own
parameters once and those of its rows is `BatchesFit` in the run `Queries`: it
renders every batch and counts.

*Only model-checked:* `HandlesLive` of `PgTransactions` where a caller's names may be spelled like
generated ones; everything about queries but where `batch_rows` cuts a stream, because their operators
are recursive, which the proof system cannot reason about; and all liveness (`OperationsEnd`, `RunsEnd`), which it
cannot treat under fairness.

## 6. Not modelled, and the plan

Not modelled so far, and what a model of it would need:

- *Streaming* (`fetch_iter`): batches of rows inside a transaction of its own while
  the consumer holds the generator. Needs `PgStream` on top of
  `begin`/`commit`/`rollback`: early close, failing consumer, what the observer
  is told.
- *Statement splitters* of the two migrators: lexers; a function over token
  classes against a reference.
- *Migrate command line*: the order of migrate, generate and check, with another
  process migrating in between.
- *Name allocation* of the code generator: distinct, stable names.
- *Window frames*: bounds, exclusion and the ordering that a RANGE offset needs
  (`expressions/analytics.py`, `_render.py`).

Hazards of these parts that the list in `PROJECT.json` leaves out because nothing
here covers them: rows read in batches while the consumer suspends the generator
(`PG:999`); registries keyed by `id(connection)`, which Python may reuse
(`PG:848`); `set_type_codec` awaited before every query (`PG:213`); migration SQL
that ends the migrator's transaction, which must be noticed before the history
row is written (`MIG/postgres.py:154`); `--check` of generated code that compares
with a stale file; two database names that map to one Python name.

Proofs worth adding: `HandlesLive` of `PgTransactions` with a bound on the faults
in place of the condition on the names.

Not planned: type mapping tables, catalog queries, text layout of the compiler
and of generated modules (tables and I/O without state), and static typing,
which the type checker covers.
