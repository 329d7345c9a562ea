---------------------------- MODULE SqliteMigrator ----------------------------
(***************************************************************************)
(* SQLiteMigrator.migrate_to_latest: several processes, each with its own  *)
(* connection, migrate one database file.                                  *)
(*                                                                         *)
(* SQLite (external) is a committed database and one write lock, which     *)
(* BEGIN IMMEDIATE takes and COMMIT, ROLLBACK or the end of the process    *)
(* gives back; the owner changes a copy that COMMIT installs.  A process   *)
(* is the sequence of its calls to SQLite, and other processes run between *)
(* any two of them.                                                        *)
(***************************************************************************)
EXTENDS MigrationFiles

CONSTANTS
  Enforced,       \* migrators whose connection enforces foreign keys
  MaxFaults,      \* bound: calls that fail for no fault of the files, crashes
  MaxInterrupts   \* bound: KeyboardInterrupts

ASSUME SqliteAssumption ==
  /\ Enforced \subseteq Migrator
  /\ MaxFaults \in Nat
  /\ MaxInterrupts \in Nat

NoOwner == "no owner"
ASSUME OwnerAssumption == NoOwner \notin Migrator

VARIABLES
  db,          \* the committed database: history rows, schema, violations
  work,        \* what the lock's owner sees
  lock,        \* the connection that holds the write lock
  run,         \* where each migrator is, and what it will report
  fk,          \* PRAGMA foreign_keys of each connection
  timeout,     \* whose busy_timeout each connection has
  faults, interrupts

vars == <<db, work, lock, run, fk, timeout, faults, interrupts>>
settings == <<fk, timeout>>
budget == <<faults, interrupts>>

Statuses == {"Success", "Error", "NotExecuted"}
Points == {"idle", "setup", "read", "next", "apply", "check", "run"}

Databases == [rows: Seq(Rows), schema: Seq(Nat \X Nat \X Nat), broken: BOOLEAN]
Empty == [rows |-> <<>>, schema |-> <<>>, broken |-> FALSE]

\* outcome: what the last run ended with; "raised" is an exception, which the
\* caller sees instead of a report.
Idle == [at |-> "idle", first |-> 1, results |-> <<>>, stmt |-> 1,
         restore |-> FALSE, outcome |-> "none"]

Runs == [at: Points, first: Nat, results: Seq(Statuses), stmt: Nat,
         restore: BOOLEAN, outcome: {"none", "ok", "error", "raised"}]

\* The file that m's loop has reached.
Index(m) == run[m].first + Len(run[m].results)
Current(m) == Shipped[m][Index(m)]
Statement(m) == Current(m).stmts[run[m].stmt]
Executed(m) == run[m].stmt = Len(Current(m).stmts) + 1

-----------------------------------------------------------------------------
(* SQLite, and the ends of a run.                                          *)

Locked(m) == lock = NoOwner /\ lock' = m /\ work' = db
Committed(d) == db' = d /\ lock' = NoOwner /\ UNCHANGED work
\* _rollback does nothing outside a transaction.
RolledBack(m) == /\ lock' = (IF lock = m THEN NoOwner ELSE lock)
                 /\ UNCHANGED <<db, work>>

Goes(m, at) == run' = [run EXCEPT ![m].at = at]

\* The report is returned and the caller's busy_timeout is back.
Returns(m, results, outcome) ==
  /\ run' = [run EXCEPT ![m].at = "idle", ![m].results = results,
                        ![m].outcome = outcome, ![m].restore = FALSE]
  /\ timeout' = [timeout EXCEPT ![m] = "caller"]

\* Mutant of Restored: the setting is given back before the transaction ends.
RestoredInside(m) == fk' = [fk EXCEPT ![m] = @ \/ (run[m].restore /\ lock # m)]

\* The finally clause of _apply.  SQLite ignores PRAGMA foreign_keys inside a
\* transaction: it counts where the step leaves m outside one.
Restored(m) == fk' = [fk EXCEPT ![m] = @ \/ (run[m].restore /\ lock' # m)]

\* Mutant of FileEnds: the loop has no end.
FileEndsPast(m, status) ==
  /\ Restored(m)
  /\ run' = [run EXCEPT ![m].at = "next", ![m].restore = FALSE,
                        ![m].results = Append(run[m].results, status)]
  /\ UNCHANGED timeout

\* One file is done with `status`: the loop goes on or the run is over.
FileEnds(m, status) ==
  LET results == Append(run[m].results, status)
  IN /\ Restored(m)
     /\ IF Index(m) = Len(Shipped[m])
        THEN Returns(m, results, "ok")
        ELSE /\ run' = [run EXCEPT ![m].at = "next", ![m].results = results,
                                   ![m].restore = FALSE]
             /\ UNCHANGED timeout

\* The remaining files of a run that stops at the current one.
Skipped(m) == [i \in 1 .. Len(Shipped[m]) - Index(m) |-> "NotExecuted"]

-----------------------------------------------------------------------------
(* migrate_to_latest and _migrate.                                         *)

\* A connection that is already in a transaction is refused.
Start(m) ==
  /\ run[m].at = "idle"
  /\ lock # m
  /\ run' = [run EXCEPT ![m] = [Idle EXCEPT !.at = "setup"]]
  /\ timeout' = [timeout EXCEPT ![m] = "run"]
  /\ UNCHANGED <<db, work, lock, fk, budget>>

BeginSetup(m) ==
  /\ run[m].at = "setup"
  /\ Locked(m)
  /\ Goes(m, "read")
  /\ UNCHANGED <<db, settings, budget>>

\* The history table exists from here on; an empty one is an empty history.
Setup(m) ==
  LET first == FirstPending(Shipped[m], work.rows)
  IN /\ run[m].at = "read"
     /\ ~HistoryRefused(Shipped[m], work.rows)
     /\ Committed(work)
     /\ IF first > Len(Shipped[m])
        THEN Returns(m, <<>>, "ok")
        ELSE /\ run' = [run EXCEPT ![m].at = "next", ![m].first = first]
             /\ UNCHANGED timeout
     /\ UNCHANGED <<fk, budget>>

\* The provider, BEGIN IMMEDIATE or a history call raised: the report has an
\* error and no results.
SetupStops(m) ==
  /\ run[m].at \in {"setup", "read"}
  /\ RolledBack(m)
  /\ Returns(m, <<>>, "error")
  /\ UNCHANGED fk

SetupRefused(m) ==
  /\ run[m].at = "read"
  /\ HistoryRefused(Shipped[m], work.rows)
  /\ SetupStops(m)
  /\ UNCHANGED budget

-----------------------------------------------------------------------------
(* _apply.                                                                 *)

\* Enforcement is turned off outside any transaction, if the file asks.
OpenFile(m) ==
  /\ run[m].at = "next"
  /\ run' = [run EXCEPT ![m].at = "apply", ![m].stmt = 1,
                        ![m].restore = ~Current(m).fk /\ fk[m]]
  /\ fk' = [fk EXCEPT ![m] = @ /\ Current(m).fk]
  /\ UNCHANGED <<db, work, lock, timeout, budget>>

BeginFile(m) ==
  /\ run[m].at = "apply"
  /\ Locked(m)
  /\ Goes(m, "check")
  /\ UNCHANGED <<db, settings, budget>>

\* The history is read again under the lock and must still allow the file.
IsNext(m) == /\ ~HistoryRefused(Shipped[m], work.rows)
             /\ FirstPending(Shipped[m], work.rows) = Index(m)

\* Another migrator applied the file since this run listed it as pending.
SkipFile(m) ==
  /\ run[m].at = "check"
  /\ ~HistoryRefused(Shipped[m], work.rows)
  /\ IsApplied(Current(m), work.rows)
  /\ Committed(work)
  /\ FileEnds(m, "NotExecuted")
  /\ UNCHANGED budget

\* Mutant of EnterFile: the history is not read again.
EnterFileBlindly(m) ==
  /\ run[m].at = "check"
  /\ Goes(m, "run")
  /\ UNCHANGED <<db, work, lock, settings, budget>>

EnterFile(m) ==
  /\ run[m].at = "check"
  /\ IsNext(m)
  /\ Goes(m, "run")
  /\ UNCHANGED <<db, work, lock, settings, budget>>

\* What SQLite or the migrator itself rejects of a statement.
Rejected(m) == \/ Statement(m) \in {"fail", "control"}
               \/ Statement(m) = "break" /\ fk[m]

Execute(m) ==
  /\ run[m].at = "run"
  /\ ~Executed(m)
  /\ ~Rejected(m)
  /\ work' = [work EXCEPT
       !.schema = Append(@, Ran(Current(m), run[m].stmt)),
       !.broken = CASE Statement(m) = "break" -> TRUE
                    [] Statement(m) = "mend" -> FALSE
                    [] OTHER -> @]
  /\ run' = [run EXCEPT ![m].stmt = @ + 1]
  /\ UNCHANGED <<db, lock, settings, budget>>

\* Mutant of Violates: PRAGMA foreign_key_check is left out.
ViolatesNever(m) == FALSE

\* PRAGMA foreign_key_check, only for a file that turned enforcement off.
Violates(m) == ~Current(m).fk /\ work.broken

\* The row is inserted and COMMIT installs it with what the file did.
CommitFile(m) ==
  /\ run[m].at = "run"
  /\ Executed(m)
  /\ ~Violates(m)
  /\ Committed([work EXCEPT !.rows = Append(@, Row(Current(m)))])
  /\ FileEnds(m, "Success")
  /\ UNCHANGED budget

\* Mutant of FileStops: the loop goes on with the next file.
FileStopsOnly(m) ==
  /\ RolledBack(m)
  /\ FileEnds(m, "Error")

\* An exception in _apply: rolled back, restored, and the run is over.
FileStops(m) ==
  /\ RolledBack(m)
  /\ Restored(m)
  /\ Returns(m, Append(run[m].results, "Error") \o Skipped(m), "error")

FileRefused(m) ==
  /\ \/ /\ run[m].at = "check"
        /\ ~IsNext(m)
        /\ IsApplied(Current(m), work.rows) => HistoryRefused(Shipped[m], work.rows)
     \/ run[m].at = "run" /\ ~Executed(m) /\ Rejected(m)
     \/ run[m].at = "run" /\ Executed(m) /\ Violates(m)
  /\ FileStops(m)
  /\ UNCHANGED budget

-----------------------------------------------------------------------------
(* What may go wrong around a run.                                         *)

Stops(m) == \/ SetupStops(m)
            \/ run[m].at \in {"next", "apply", "check", "run"} /\ FileStops(m)

\* Mutant of BusyTimeout: BEGIN IMMEDIATE is tried again.
BusyTimeoutRetries(m) ==
  /\ run[m].at \in {"setup", "apply"}
  /\ lock \notin {NoOwner, m}
  /\ UNCHANGED vars

\* Mutant of BusyTimeout: a file that did not get the lock is opened again.
BusyTimeoutReopens(m) ==
  /\ run[m].at = "apply"
  /\ lock \notin {NoOwner, m}
  /\ Goes(m, "next")
  /\ UNCHANGED <<db, work, lock, settings, budget>>

\* The busy timeout of BEGIN IMMEDIATE expires while another process holds the
\* lock.
BusyTimeout(m) ==
  /\ run[m].at \in {"setup", "apply"}
  /\ lock \notin {NoOwner, m}
  /\ Stops(m)
  /\ UNCHANGED budget

\* A call to SQLite fails (full disk, a reader that blocks COMMIT, ...).
Fails(m) ==
  /\ faults < MaxFaults
  /\ faults' = faults + 1
  /\ Stops(m)
  /\ UNCHANGED interrupts

\* The process dies; the next one opens a new connection.
Crash(m) ==
  /\ faults < MaxFaults
  /\ faults' = faults + 1
  /\ run[m].at # "idle" \/ lock = m
  /\ RolledBack(m)
  /\ run' = [run EXCEPT ![m] = Idle]
  /\ fk' = [fk EXCEPT ![m] = m \in Enforced]
  /\ timeout' = [timeout EXCEPT ![m] = "caller"]
  /\ UNCHANGED interrupts

\* Mutant of Interrupt: _apply, too, rolls back for an Exception only.
InterruptInFile(m) ==
  /\ interrupts < MaxInterrupts
  /\ interrupts' = interrupts + 1
  /\ run[m].at # "idle"
  /\ Returns(m, run[m].results, "raised")
  /\ UNCHANGED <<db, work, lock, fk, faults>>

\* KeyboardInterrupt between two calls.  _apply rolls back and restores; the
\* first transaction of a run only does so for an Exception.  A setting that
\* was just changed is not yet covered by the finally clause that restores it.
Interrupt(m) ==
  /\ interrupts < MaxInterrupts
  /\ interrupts' = interrupts + 1
  /\ run[m].at # "idle"
  /\ Returns(m, run[m].results, "raised")
  /\ \/ run[m].at \in {"setup", "read", "next"} /\ UNCHANGED <<db, work, lock, fk>>
     \/ run[m].at \in {"apply", "check", "run"} /\ RolledBack(m) /\ Restored(m)
     \/ /\ run[m].at = "next"
        /\ fk' = [fk EXCEPT ![m] = @ /\ Current(m).fk]
        /\ UNCHANGED <<db, work, lock>>
  /\ UNCHANGED faults

\* The same before the run's first transaction, with busy_timeout just set.
InterruptEarly(m) ==
  /\ interrupts < MaxInterrupts
  /\ interrupts' = interrupts + 1
  /\ run[m].at = "setup"
  /\ run' = [run EXCEPT ![m].at = "idle", ![m].outcome = "raised"]
  /\ UNCHANGED <<db, work, lock, settings, faults>>

-----------------------------------------------------------------------------
Init ==
  /\ db = Empty
  /\ work = Empty
  /\ lock = NoOwner
  /\ run = [m \in Migrator |-> Idle]
  /\ fk = [m \in Migrator |-> m \in Enforced]
  /\ timeout = [m \in Migrator |-> "caller"]
  /\ faults = 0
  /\ interrupts = 0

Steps(m) ==
  \/ BeginSetup(m) \/ Setup(m) \/ SetupRefused(m)
  \/ OpenFile(m) \/ BeginFile(m) \/ SkipFile(m) \/ EnterFile(m)
  \/ Execute(m) \/ CommitFile(m) \/ FileRefused(m) \/ BusyTimeout(m)

Next == \E m \in Migrator : \/ Start(m) \/ Steps(m)
                            \/ Fails(m) \/ Crash(m)
                            \/ Interrupt(m) \/ InterruptEarly(m)

Spec == Init /\ [][Next]_vars

\* Each call to SQLite returns: BEGIN IMMEDIATE either gets the lock or runs
\* into the busy timeout, whatever the holder of the lock does.
FairSpec == Spec /\ \A m \in Migrator : WF_vars(Steps(m))

-----------------------------------------------------------------------------
(* Properties.                                                             *)

\* Every variable keeps its type.
TypeOK ==
  /\ db \in Databases /\ work \in Databases
  /\ lock \in Migrator \union {NoOwner}
  /\ run \in [Migrator -> Runs]
  /\ \A m \in Migrator : run[m].at \in {"next", "apply", "check", "run"} =>
                           Index(m) \in DOMAIN Shipped[m]
  /\ fk \in [Migrator -> BOOLEAN]
  /\ timeout \in [Migrator -> {"caller", "run"}]
  /\ faults \in 0 .. MaxFaults /\ interrupts \in 0 .. MaxInterrupts

\* The committed history and schema change together, one whole file of some
\* package at a time, as MigrationHistory promises, whatever fails and however
\* the runs of several processes interleave.
History == INSTANCE MigrationHistory WITH history <- db.rows, schema <- db.schema
ImplementsHistory == History!Spec

\* What a report says was done is committed: a file it calls Success is in the
\* history, and a run without an error leaves nothing of its package pending.
ReportsHold ==
  \A m \in Migrator : run[m].at = "idle" =>
    /\ \A i \in DOMAIN run[m].results :
         run[m].results[i] = "Success" =>
           IsApplied(Shipped[m][run[m].first + i - 1], db.rows)
    /\ run[m].outcome = "ok" =>
         \A i \in DOMAIN Shipped[m] : IsApplied(Shipped[m][i], db.rows)

\* While every connection enforces foreign keys, no committed schema violates
\* one, although files may turn enforcement off and break it on the way.
ForeignKeysHold == Enforced = Migrator => ~db.broken

\* However a run ends, it leaves the write lock free (docs/migrations.md: "The
\* lock is then released"), unless KeyboardInterrupt hits its first transaction,
\* which _migrate rolls back for an Exception only (84).
LockReleased ==
  [][\A m \in Migrator :
       run[m].at # "idle" /\ run'[m].at = "idle" /\ lock' = m =>
         run[m].at = "read" /\ interrupts' > interrupts]_vars

\* When a run is over its connection has the caller's busy_timeout and
\* foreign-key enforcement again, whatever failed in it and although the
\* PRAGMA that restores enforcement works only outside a transaction.
SettingsRestored ==
  \A m \in Migrator : run[m].at = "idle" =>
    fk[m] = (m \in Enforced) /\ timeout[m] = "caller"

\* The files that m's run has not decided yet, and the calls to SQLite that its
\* current transaction may still take.
FilesLeft(m) == IF run[m].at \in {"setup", "read"} THEN Len(Shipped[m]) + 1
                ELSE Len(Shipped[m]) - Index(m)
CallsLeft(m) ==
  CASE run[m].at = "setup" -> 2
    [] run[m].at = "read"  -> 1
    [] run[m].at = "next"  -> Len(Current(m).stmts) + 4
    [] run[m].at = "apply" -> Len(Current(m).stmts) + 3
    [] run[m].at = "check" -> Len(Current(m).stmts) + 2
    [] run[m].at = "run"   -> Len(Current(m).stmts) + 2 - run[m].stmt

Nearer(m) ==
  \/ run'[m].at = "idle"
  \/ FilesLeft(m)' \in 0 .. FilesLeft(m) - 1 /\ CallsLeft(m)' \in Nat
  \/ FilesLeft(m)' = FilesLeft(m) /\ CallsLeft(m)' \in 0 .. CallsLeft(m) - 1

\* migrate_to_latest only goes forward: every call that a run makes,
\* and every failure, ends it or leaves it with fewer files, or with as many and
\* fewer calls; and nobody else's step touches it.
RunsProgress ==
  [][\A m \in Migrator : run[m].at # "idle" =>
       (Steps(m) \/ run'[m] # run[m] => Nearer(m))]_vars

\* Every run ends, whoever holds the lock and for however long.
RunsEnd == \A m \in Migrator : run[m].at # "idle" ~> run[m].at = "idle"
=============================================================================
