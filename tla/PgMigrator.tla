------------------------------ MODULE PgMigrator ------------------------------
(***************************************************************************)
(* PostgresMigrator.migrate_to_latest: several migrators, each with its    *)
(* own session, migrate one database.                                      *)
(*                                                                         *)
(* PostgreSQL (external) keeps a history table per schema, advisory locks  *)
(* that a session may take several times, and for each session an open     *)
(* transaction and a search_path, which a transaction changes only if it   *)
(* commits.  A run is the sequence of its awaited commands; commands that  *)
(* only read what the lock protects are merged with the step that uses     *)
(* what they read.                                                         *)
(***************************************************************************)
EXTENDS MigrationFiles

CONSTANTS
  Pooled,      \* migrators that were given a pool, not a connection
  Schema,      \* the schemas that a search_path may name
  Home,        \* the search_path of a new or reset session
  MaxFaults,   \* bound: failed commands, lost connections, dead processes
  MaxCancels   \* bound: cancellations, and unlock commands that fail

ASSUME PgAssumption ==
  /\ Pooled \subseteq Migrator
  /\ Home \in Schema
  /\ MaxFaults \in Nat
  /\ MaxCancels \in Nat

Unpinned == "unpinned"
ASSUME UnpinnedAssumption == Unpinned \notin Schema

VARIABLES
  db,        \* committed: the history table of each schema, and the schema
  held,      \* how often each session holds the lock of each history table
  session,   \* each physical session and its _SESSION_SCHEMA_CACHE entry
  run,       \* where each migrator is, and what it will report
  faults, cancels

vars == <<db, held, session, run, faults, cancels>>
budget == <<faults, cancels>>

Statuses == {"Success", "Error", "NotExecuted"}
Points == {"idle", "lock", "setup", "begin", "run", "unlock"}

Databases == [rows: [Schema -> Seq(Rows)], schema: Seq(Nat \X Nat \X Nat)]

NoLocks == [s \in Schema |-> 0]
NewSession == [path |-> Home, pinned |-> Unpinned, open |-> FALSE]
Sessions == [path: Schema, pinned: Schema \union {Unpinned}, open: BOOLEAN]

\* ran and path: what the open transaction has executed and set.
Idle == [at |-> "idle", first |-> 1, results |-> <<>>, ran |-> <<>>,
         path |-> Home, outcome |-> "none"]

Runs == [at: Points, first: Nat, results: Seq(Statuses),
         ran: Seq(Nat \X Nat \X Nat), path: Schema,
         outcome: {"none", "ok", "error", "raised"}]

\* The history table that m reads and writes, and the file m has reached.
Table(m) == session[m].pinned
History(m) == db.rows[Table(m)]
Index(m) == run[m].first + Len(run[m].results)
Current(m) == Shipped[m][Index(m)]
Statement(m) == Current(m).stmts[Len(run[m].ran) + 1]
Executed(m) == Len(run[m].ran) = Len(Current(m).stmts)

Skipped(m) == [i \in 1 .. Len(Shipped[m]) - Index(m) |-> "NotExecuted"]

\* Mutant of Failure: the result is appended inside the file's transaction.
FailureCounted(m) ==
  Append(IF run[m].at = "run" /\ Executed(m)
         THEN Append(run[m].results, "Success") ELSE run[m].results, "Error")
    \o Skipped(m)

Failure(m) == Append(run[m].results, "Error") \o Skipped(m)

-----------------------------------------------------------------------------
(* Sessions and the ends of a run.                                         *)

Opened(m, b) == session' = [session EXCEPT ![m].open = b]

\* The run is over with report r while the session holds `locks`.  A pool
\* resets the session it takes back; the cached schema outlives that.
Returns(m, r, locks) ==
  /\ run' = [run EXCEPT ![m] = [r EXCEPT !.at = "idle"]]
  /\ held' = [held EXCEPT ![m] = IF m \in Pooled THEN NoLocks ELSE locks]
  /\ session' = IF m \in Pooled
                THEN [session EXCEPT ![m].path = Home, ![m].open = FALSE]
                ELSE session

\* The finally clause comes next.
Unlocks(m, results, outcome) ==
  run' = [run EXCEPT ![m].at = "unlock", ![m].results = results,
                     ![m].outcome = outcome]

\* An Exception in a file's transaction: rolled back, and the run is over.
FileStops(m) ==
  /\ Opened(m, FALSE)
  /\ Unlocks(m, Failure(m), "error")

-----------------------------------------------------------------------------
(* migrate_to_latest and _migrate_connection.                              *)

\* Mutant of Start: the schema is resolved anew in every run.
StartResolves(m) ==
  /\ run[m].at = "idle"
  /\ ~session[m].open
  /\ run' = [run EXCEPT ![m] = [Idle EXCEPT !.at = "lock"]]
  /\ session' = [session EXCEPT ![m].pinned = session[m].path]
  /\ UNCHANGED <<db, held, budget>>

\* A session inside a transaction is refused.  The schema of the history
\* table is resolved by search_path and pinned the first time.
Start(m) ==
  /\ run[m].at = "idle"
  /\ ~session[m].open
  /\ run' = [run EXCEPT ![m] = [Idle EXCEPT !.at = "lock"]]
  /\ session' = [session EXCEPT ![m].pinned =
                   IF @ = Unpinned THEN session[m].path ELSE @]
  /\ UNCHANGED <<db, held, budget>>

\* pg_advisory_lock: the key is derived from the schema and the table.
Grants(m) ==
  /\ \A n \in Migrator \ {m} : held[n][Table(m)] = 0
  /\ held' = [held EXCEPT ![m][Table(m)] = @ + 1]

GetLock(m) ==
  /\ run[m].at = "lock"
  /\ Grants(m)
  /\ run' = [run EXCEPT ![m].at = "setup"]
  /\ UNCHANGED <<db, session, budget>>

\* PostgreSQL has no foreign_keys directive to obey.
Unsupported(files, first) == \E i \in first .. Len(files) : ~files[i].fk

\* Mutant of Setup: a run with nothing to do goes on.
SetupNeverDone(m) ==
  /\ run[m].at = "setup"
  /\ ~HistoryRefused(Shipped[m], History(m))
  /\ run' = [run EXCEPT ![m].at = "begin",
                        ![m].first = FirstPending(Shipped[m], History(m))]
  /\ UNCHANGED <<db, held, session, budget>>

\* The table exists from here on; an empty one is an empty history.
Setup(m) ==
  LET first == FirstPending(Shipped[m], History(m))
  IN /\ run[m].at = "setup"
     /\ ~HistoryRefused(Shipped[m], History(m))
     /\ ~Unsupported(Shipped[m], first)
     /\ IF first > Len(Shipped[m])
        THEN Unlocks(m, <<>>, "ok")
        ELSE run' = [run EXCEPT ![m].at = "begin", ![m].first = first]
     /\ UNCHANGED <<db, held, session, budget>>

\* Mutant of SetupRefused: the exception passes the finally clause by.
SetupRefusedKeepsLock(m) ==
  /\ run[m].at = "setup"
  /\ \/ HistoryRefused(Shipped[m], History(m))
     \/ Unsupported(Shipped[m], FirstPending(Shipped[m], History(m)))
  /\ Returns(m, [run[m] EXCEPT !.outcome = "error"], held[m])
  /\ UNCHANGED <<db, budget>>

SetupRefused(m) ==
  /\ run[m].at = "setup"
  /\ \/ HistoryRefused(Shipped[m], History(m))
     \/ Unsupported(Shipped[m], FirstPending(Shipped[m], History(m)))
  /\ Unlocks(m, <<>>, "error")
  /\ UNCHANGED <<db, held, session, budget>>

BeginFile(m) ==
  /\ run[m].at = "begin"
  /\ Opened(m, TRUE)
  /\ run' = [run EXCEPT ![m].at = "run", ![m].ran = <<>>,
                        ![m].path = session[m].path]
  /\ UNCHANGED <<db, held, budget>>

\* What the migrator rejects unseen, or the server when it runs it.
Rejected(m) == Statement(m) \in {"control", "fail"}

Execute(m) ==
  /\ run[m].at = "run"
  /\ ~Executed(m)
  /\ ~Rejected(m)
  /\ \E path \in Schema :
       /\ Statement(m) # "path" => path = run[m].path
       /\ run' = [run EXCEPT
            ![m].ran = Append(@, Ran(Current(m), Len(@) + 1)),
            ![m].path = path]
  /\ UNCHANGED <<db, held, session, budget>>

\* The history row is inserted and COMMIT installs it with the statements.
Installed(m) == [db EXCEPT !.rows[Table(m)] = Append(@, Row(Current(m))),
                           !.schema = @ \o run[m].ran]

CommitFile(m) ==
  /\ run[m].at = "run"
  /\ Executed(m)
  /\ db' = Installed(m)
  /\ session' = [session EXCEPT ![m].open = FALSE, ![m].path = run[m].path]
  /\ LET results == Append(run[m].results, "Success")
     IN IF Index(m) = Len(Shipped[m])
        THEN Unlocks(m, results, "ok")
        ELSE run' = [run EXCEPT ![m].at = "begin", ![m].results = results]
  /\ UNCHANGED <<held, budget>>

FileRefused(m) ==
  /\ run[m].at = "run"
  /\ ~Executed(m)
  /\ Rejected(m)
  /\ FileStops(m)
  /\ UNCHANGED <<db, held, budget>>

\* Mutant of Unlock: the key is derived from the search_path of the moment.
UnlockElsewhere(m) ==
  /\ run[m].at = "unlock"
  /\ Returns(m, run[m], [held[m] EXCEPT ![session[m].path] =
                           IF @ = 0 THEN 0 ELSE @ - 1])
  /\ UNCHANGED <<db, budget>>

Unlock(m) ==
  /\ run[m].at = "unlock"
  /\ Returns(m, run[m], [held[m] EXCEPT ![Table(m)] = @ - 1])
  /\ UNCHANGED <<db, budget>>

-----------------------------------------------------------------------------
(* What may go wrong around a run.                                         *)

\* A command other than the unlock fails: the provider or the server raises.
Fails(m) ==
  /\ faults < MaxFaults
  /\ faults' = faults + 1
  /\ \/ /\ run[m].at = "lock"
        /\ Returns(m, [run[m] EXCEPT !.outcome = "error"], held[m])
     \/ /\ run[m].at = "setup"
        /\ Unlocks(m, <<>>, "error")
        /\ UNCHANGED <<held, session>>
     \/ /\ run[m].at \in {"begin", "run"}
        /\ FileStops(m)
        /\ UNCHANGED held
  /\ UNCHANGED <<db, cancels>>

\* Its transaction and its locks end with a connection; a COMMIT or an unlock
\* that is on its way may have arrived before.  The next run, with report r
\* behind it, has a new connection.
Ends(m, r) ==
  /\ faults < MaxFaults
  /\ faults' = faults + 1
  /\ run[m].at # "idle"
  /\ \/ UNCHANGED db
     \/ run[m].at = "run" /\ Executed(m) /\ db' = Installed(m)
  /\ run' = [run EXCEPT ![m] = [r EXCEPT !.at = "idle"]]
  /\ held' = [held EXCEPT ![m] = NoLocks]
  /\ session' = [session EXCEPT ![m] = NewSession]
  /\ UNCHANGED cancels

\* The connection is lost: every later command of the run fails too.
Lose(m) ==
  Ends(m, CASE run[m].at \in {"lock", "setup"} -> [run[m] EXCEPT !.outcome = "error"]
            [] run[m].at \in {"begin", "run"} ->
                 [run[m] EXCEPT !.outcome = "error", !.results = Failure(m)]
            [] OTHER -> run[m])

Crash(m) == Ends(m, Idle)

\* Between runs the application may close its connection and open another.
Reconnect(m) ==
  /\ run[m].at = "idle"
  /\ session' = [session EXCEPT ![m] = NewSession]
  /\ held' = [held EXCEPT ![m] = NoLocks]
  /\ UNCHANGED <<db, run, budget>>

\* The task is cancelled while it awaits a command that the server may have
\* applied or not.  CancelledError is not an Exception: there is no report,
\* `locked` is not set when the lock was on its way, and asyncpg rolls back a
\* transaction only if its BEGIN returned.
Cancel(m) ==
  LET raised == [run[m] EXCEPT !.outcome = "raised"]
  IN /\ cancels < MaxCancels
     /\ cancels' = cancels + 1
     /\ \/ /\ run[m].at = "lock"
           /\ Returns(m, raised, held[m])
           /\ UNCHANGED db
        \/ /\ run[m].at = "lock"
           /\ \A n \in Migrator \ {m} : held[n][Table(m)] = 0
           /\ Returns(m, raised, [held[m] EXCEPT ![Table(m)] = @ + 1])
           /\ UNCHANGED db
        \/ /\ run[m].at = "setup"
           /\ Unlocks(m, run[m].results, "raised")
           /\ UNCHANGED <<db, held, session>>
        \/ /\ run[m].at = "begin"
           /\ \E applied \in BOOLEAN : Opened(m, applied)
           /\ Unlocks(m, run[m].results, "raised")
           /\ UNCHANGED <<db, held>>
        \/ /\ run[m].at = "run"
           /\ \/ Opened(m, FALSE) /\ UNCHANGED db
              \/ /\ Executed(m)
                 /\ db' = Installed(m)
                 /\ session' = [session EXCEPT ![m].open = FALSE,
                                               ![m].path = run[m].path]
           /\ Unlocks(m, run[m].results, "raised")
           /\ UNCHANGED held
        \/ /\ run[m].at = "unlock"
           /\ \E left \in {held[m][Table(m)] - 1, held[m][Table(m)]} :
                Returns(m, raised, [held[m] EXCEPT ![Table(m)] = left])
           /\ UNCHANGED db
     /\ UNCHANGED faults

\* An Exception of the unlock command is only logged.
UnlockFails(m) ==
  /\ cancels < MaxCancels
  /\ cancels' = cancels + 1
  /\ run[m].at = "unlock"
  /\ Returns(m, run[m], held[m])
  /\ UNCHANGED <<db, faults>>

-----------------------------------------------------------------------------
Init ==
  /\ db = [rows |-> [s \in Schema |-> <<>>], schema |-> <<>>]
  /\ held = [m \in Migrator |-> NoLocks]
  /\ session = [m \in Migrator |-> NewSession]
  /\ run = [m \in Migrator |-> Idle]
  /\ faults = 0
  /\ cancels = 0

Steps(m) ==
  \/ GetLock(m) \/ Setup(m) \/ SetupRefused(m) \/ BeginFile(m) \/ Execute(m)
  \/ CommitFile(m) \/ FileRefused(m) \/ Unlock(m)

Next == \E m \in Migrator : \/ Start(m) \/ Steps(m) \/ Reconnect(m)
                            \/ Fails(m) \/ Lose(m) \/ Crash(m)
                            \/ Cancel(m) \/ UnlockFails(m)

Spec == Init /\ [][Next]_vars

\* The server answers every command, and it queues the sessions that wait for
\* an advisory lock.
FairSpec == Spec /\ \A m \in Migrator : WF_vars(Steps(m)) /\ SF_vars(GetLock(m))

-----------------------------------------------------------------------------
(* Properties.                                                             *)

\* Every variable keeps its type, and a run that is inside a file has a file.
TypeOK ==
  /\ db \in Databases
  /\ held \in [Migrator -> [Schema -> Nat]]
  /\ session \in [Migrator -> Sessions]
  /\ run \in [Migrator -> Runs]
  /\ \A m \in Migrator : run[m].at \in {"begin", "run"} =>
                           Index(m) \in DOMAIN Shipped[m]
  /\ faults \in 0 .. MaxFaults /\ cancels \in 0 .. MaxCancels

\* The history table of the schema that every session starts in, and the
\* committed schema, change together as MigrationHistory promises, whatever
\* search_path the migrations set and whatever fails: the pinned schema and the
\* advisory lock of _migrate_connection are what it takes.
Promise == INSTANCE MigrationHistory WITH history <- db.rows[Home], schema <- db.schema
ImplementsHistory == Promise!Spec

\* What a report says was done is committed: a file it calls Success is in the
\* history, and a run without an error leaves nothing of its package pending.
ReportsHold ==
  \A m \in Migrator : run[m].at = "idle" =>
    /\ \A i \in DOMAIN run[m].results :
         run[m].results[i] = "Success" =>
           IsApplied(Shipped[m][run[m].first + i - 1], db.rows[Home])
    /\ run[m].outcome = "ok" =>
         \A i \in DOMAIN Shipped[m] : IsApplied(Shipped[m][i], db.rows[Home])

\* Unless a cancellation or a failing unlock interfered, a session that is not
\* running holds no lock and is in no transaction, however the run ended: the
\* finally clause of _migrate_connection unlocks on every path.
SessionReleased ==
  cancels = 0 =>
    \A m \in Migrator : run[m].at = "idle" => held[m] = NoLocks /\ ~session[m].open

\* A run that waits for the lock gets it, and every run ends, as long as
\* nothing was cancelled and no unlock failed.
RunsEnd ==
  [](cancels = 0) => \A m \in Migrator : run[m].at # "idle" ~> run[m].at = "idle"

-----------------------------------------------------------------------------
\* docs/migrations.md: when a file has committed or rolled back and the run is
\* over, the lock is released.
LockAlwaysReleased ==
  \A m \in Migrator : run[m].at = "idle" => held[m] = NoLocks
=============================================================================
