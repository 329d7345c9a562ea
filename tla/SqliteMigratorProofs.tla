------------------------- MODULE SqliteMigratorProofs -------------------------
(***************************************************************************)
(* Theorems about SQLiteMigrator, for any packages, any number of          *)
(* processes, and any faults.                                              *)
(*                                                                         *)
(* The inductive invariant Inv has one part per concern of a migrator:     *)
(* RunInv places its loop within its files, HeldInv says when the write    *)
(* lock is held and what it protects, ReportInv what a report may claim,   *)
(* and QuietInv what a run gives back as long as nobody interrupts one.    *)
(* Honest (MigrationFilesProofs) ties the history to the packages.         *)
(* A step of one migrator leaves the others' parts alone because whoever   *)
(* is in a transaction owns the lock (Frame and OthersKeep); that is why   *)
(* each action is only shown to keep the parts of its own migrator.        *)
(***************************************************************************)
EXTENDS SqliteMigrator, MigrationFilesProofs

InLoop == {"next", "apply", "check", "run"}
InFile == {"apply", "check", "run"}
InTransaction == {"read", "check", "run"}

Types ==
  /\ db \in Databases /\ work \in Databases
  /\ lock \in Migrator \union {NoOwner}
  /\ run \in [Migrator -> Runs]
  /\ fk \in [Migrator -> BOOLEAN]
  /\ timeout \in [Migrator -> {"caller", "run"}]
  /\ faults \in 0 .. MaxFaults /\ interrupts \in 0 .. MaxInterrupts

RunInv(m) ==
  /\ run[m].at \in {"setup", "read"} => run[m].results = <<>>
  /\ run[m].at \in InLoop => Index(m) \in DOMAIN Shipped[m] /\ run[m].first >= 1
  /\ run[m].at \in {"apply", "check"} => run[m].stmt = 1
  /\ run[m].at = "run" => run[m].stmt \in 1 .. Len(Current(m).stmts) + 1

\* Part of the next file has run in the transaction, and nothing else.
Partway(m) ==
  /\ work.rows = db.rows
  /\ work.schema = db.schema \o SubSeq(Whole(Current(m)), 1, run[m].stmt - 1)
  /\ HoldsFirst(Shipped[m], db.rows) /\ Len(db.rows) + 1 = Index(m)

HeldInv(m) ==
  /\ run[m].at \in InTransaction => lock = m
  /\ run[m].at \in {"setup", "next", "apply"} => lock # m
  /\ run[m].at \in {"read", "check"} => work = db
  /\ run[m].at = "run" => Partway(m)

ReportInv(m) ==
  /\ \A i \in DOMAIN run[m].results :
       run[m].results[i] = "Success" =>
         IsApplied(Shipped[m][run[m].first + i - 1], db.rows)
  /\ run[m].at \in InLoop =>
       \A i \in 1 .. Index(m) - 1 : IsApplied(Shipped[m][i], db.rows)
  /\ run[m].outcome = "ok" =>
       \A i \in DOMAIN Shipped[m] : IsApplied(Shipped[m][i], db.rows)

QuietInv(m) ==
  interrupts = 0 =>
    /\ lock = m => run[m].at \in InTransaction
    /\ timeout[m] = (IF run[m].at = "idle" THEN "caller" ELSE "run")
    /\ run[m].restore => run[m].at \in InFile /\ ~Current(m).fk /\ m \in Enforced
    /\ fk[m] = (m \in Enforced /\ ~run[m].restore)
    /\ Enforced = Migrator /\ run[m].at = "run" /\ work.broken => ~Current(m).fk

MigInv(m) == RunInv(m) /\ HeldInv(m) /\ ReportInv(m) /\ QuietInv(m)
Sound == interrupts = 0 /\ Enforced = Migrator => ~db.broken

Inv == /\ Types /\ Sound /\ Honest(db.rows)
       /\ \A m \in Migrator : MigInv(m)

\* What a step of m may touch of the others.
Frame(m) ==
  /\ \A u \in Migrator \ {m} :
       /\ run'[u] = run[u] /\ fk'[u] = fk[u] /\ timeout'[u] = timeout[u]
       /\ lock = u => db' = db /\ work' = work /\ lock' = lock
       /\ lock' = u => lock = u
  /\ \A f : IsApplied(f, db.rows) => IsApplied(f, db'.rows)
  /\ interrupts' >= interrupts

HistoryStep == [History!HistoryNext]_<<db.rows, db.schema>>

StepOK(m) == Types' /\ Sound' /\ Honest(db.rows)' /\ Frame(m) /\ MigInv(m)' /\ HistoryStep

-----------------------------------------------------------------------------
(* The fields of a state, and a step that leaves the others alone.         *)

\* The types of the fields of m's run, its settings and the budgets.
LEMMA RunFields ==
  ASSUME Types, NEW m \in Migrator
  PROVE  /\ run[m] \in Runs /\ run[m].at \in Points /\ run[m].first \in Nat
         /\ run[m].results \in Seq(Statuses) /\ run[m].stmt \in Nat
         /\ run[m].restore \in BOOLEAN /\ Index(m) \in Nat
         /\ run[m].outcome \in {"none", "ok", "error", "raised"}
         /\ fk[m] \in BOOLEAN /\ timeout[m] \in {"caller", "run"}
         /\ db.rows \in Seq(Rows) /\ work.rows \in Seq(Rows)
         /\ db.broken \in BOOLEAN /\ work.broken \in BOOLEAN
         /\ interrupts \in Nat /\ MaxInterrupts \in Nat
         /\ faults \in Nat /\ MaxFaults \in Nat
<1>1. run[m] \in Runs
  BY DEF Types
<1>2. run[m].first \in Nat /\ run[m].results \in Seq(Statuses)
  BY <1>1 DEF Runs
<1>3. Index(m) \in Nat
  BY <1>2 DEF Index
<1> QED BY <1>1, <1>2, <1>3, SqliteAssumption DEF Types, Runs, Databases

\* The run of m is replaced, and nobody else's.
LEMMA RunPut ==
  ASSUME Types, NEW m \in Migrator, NEW r \in Runs, run' = [run EXCEPT ![m] = r]
  PROVE  /\ run' \in [Migrator -> Runs] /\ run'[m] = r
         /\ \A u \in Migrator \ {m} : run'[u] = run[u]
BY DEF Types

\* A run that goes on to another point keeps its other fields.
LEMMA GoesPut ==
  ASSUME Types, NEW m \in Migrator, NEW at \in Points, Goes(m, at)
  PROVE  /\ run' \in [Migrator -> Runs]
         /\ \A u \in Migrator \ {m} : run'[u] = run[u]
         /\ run'[m] = [run[m] EXCEPT !.at = at]
<1> DEFINE r == [run[m] EXCEPT !.at = at]
<1>1. r \in Runs
  <2>1. run[m] \in Runs
    BY DEF Types
  <2> QED BY <2>1 DEF Runs
<1>2. run' = [run EXCEPT ![m] = r]
  BY DEF Goes, Types
<1>3. r = [run[m] EXCEPT !.at = at]
  OBVIOUS
<1> HIDE DEF r
<1>4. run' \in [Migrator -> Runs] /\ run'[m] = r
      /\ \A u \in Migrator \ {m} : run'[u] = run[u]
  BY <1>1, <1>2, RunPut
<1> QED BY <1>3, <1>4

\* A step of m that keeps to its Frame keeps every part of the others.
LEMMA OthersKeep ==
  ASSUME Inv, NEW m \in Migrator, Frame(m), Types', NEW u \in Migrator, u # m
  PROVE  MigInv(u)'
<1>1. /\ run'[u] = run[u] /\ fk'[u] = fk[u] /\ timeout'[u] = timeout[u]
      /\ lock = u => db' = db /\ work' = work /\ lock' = lock
      /\ lock' = u => lock = u
      /\ \A f : IsApplied(f, db.rows) => IsApplied(f, db'.rows)
      /\ interrupts' >= interrupts
  BY DEF Frame
<1>2. RunInv(u) /\ HeldInv(u) /\ ReportInv(u) /\ QuietInv(u) /\ Types
  BY DEF Inv, MigInv
<1>3. Index(u)' = Index(u) /\ Current(u)' = Current(u)
  BY <1>1 DEF Index, Current
<1>4. RunInv(u)'
  BY <1>1, <1>2, <1>3 DEF RunInv
<1>5. HeldInv(u)'
  BY <1>1, <1>2, <1>3 DEF HeldInv, Partway, InTransaction
<1>6. ReportInv(u)'
  BY <1>1, <1>2, <1>3 DEF ReportInv
<1>7. QuietInv(u)'
  <2>1. interrupts' = 0 => interrupts = 0
    BY <1>1, <1>2, RunFields DEF Types
  <2> QED BY <1>1, <1>2, <1>3, <2>1 DEF QuietInv, HeldInv, InTransaction
<1> QED BY <1>4, <1>5, <1>6, <1>7 DEF MigInv

-----------------------------------------------------------------------------
(* The ways a run or a file ends.                                          *)

\* The run of m is over: an exception, a crash or an interrupt.
Ends(m) ==
  /\ \/ RolledBack(m)
     \/ UNCHANGED <<db, work, lock>> /\ interrupts' > 0
  /\ \A u \in Migrator \ {m} :
       run'[u] = run[u] /\ fk'[u] = fk[u] /\ timeout'[u] = timeout[u]
  /\ run' \in [Migrator -> Runs] /\ run'[m].at = "idle" /\ run'[m].restore = FALSE
  /\ run'[m].outcome # "ok"
  /\ \A i \in DOMAIN run'[m].results :
       run'[m].results[i] = "Success" =>
         /\ run'[m].first = run[m].first
         /\ i \in DOMAIN run[m].results /\ run[m].results[i] = "Success"
  /\ fk' \in [Migrator -> BOOLEAN]
  /\ interrupts' = 0 => fk'[m] = (m \in Enforced)
  /\ timeout' \in [Migrator -> {"caller", "run"}] /\ timeout'[m] = "caller"
  /\ faults' \in 0 .. MaxFaults /\ interrupts' \in 0 .. MaxInterrupts
  /\ interrupts' >= interrupts

\* A run that ends and commits nothing keeps the invariant.
LEMMA EndsOK ==
  ASSUME Inv, NEW m \in Migrator, Ends(m)
  PROVE  StepOK(m)
<1>1. Types /\ Sound /\ Honest(db.rows) /\ MigInv(m)
  BY DEF Inv
<1>2. db' = db /\ work' = work /\ lock' \in {lock, NoOwner}
  BY DEF Ends, RolledBack
<1>3. Types'
  BY <1>1, <1>2 DEF Types, Ends
<1>4. Frame(m)
  <2>1. ASSUME NEW u \in Migrator \ {m}
        PROVE  /\ lock = u => lock' = lock
               /\ lock' = u => lock = u
    BY <1>2, <2>1, OwnerAssumption DEF Ends, RolledBack
  <2>2. interrupts' >= interrupts
    BY DEF Ends
  <2> QED BY <1>2, <2>1, <2>2 DEF Frame, Ends
<1>5. interrupts' = 0 => interrupts = 0 /\ lock' # m
  BY <1>1, <1>2, RunFields, OwnerAssumption DEF Ends, RolledBack
<1>6. Sound' /\ Honest(db.rows)'
  BY <1>1, <1>2, <1>5 DEF Sound
<1>7. RunInv(m)' /\ HeldInv(m)'
  BY DEF RunInv, HeldInv, Ends, InLoop, InFile, InTransaction
<1>8. ReportInv(m)'
  BY <1>1, <1>2 DEF ReportInv, Ends, MigInv, InLoop
<1>9. QuietInv(m)'
  BY <1>5 DEF QuietInv, Ends
<1>10. HistoryStep
  BY <1>2 DEF HistoryStep
<1> QED BY <1>3, <1>4, <1>6, <1>7, <1>8, <1>9, <1>10 DEF StepOK, MigInv

\* m is done with a file that the history now holds.
LEMMA FileEndsOK ==
  ASSUME Inv, NEW m \in Migrator, run[m].at \in {"check", "run"},
         NEW status \in Statuses, FileEnds(m, status),
         NEW d \in Databases, Committed(d), UNCHANGED budget,
         IsApplied(Current(m), d.rows), Honest(d.rows), HistoryStep,
         \A f : IsApplied(f, db.rows) => IsApplied(f, d.rows),
         interrupts = 0 /\ Enforced = Migrator => ~d.broken
  PROVE  StepOK(m)
<1> DEFINE results == Append(run[m].results, status)
           over == Index(m) = Len(Shipped[m])
<1>1. Types /\ Sound /\ RunInv(m) /\ HeldInv(m) /\ ReportInv(m) /\ QuietInv(m)
  BY DEF Inv, MigInv
<1>2. /\ run[m] \in Runs /\ run[m].first \in Nat /\ Index(m) \in Nat
      /\ run[m].results \in Seq(Statuses) /\ Len(run[m].results) \in Nat
      /\ Index(m) = run[m].first + Len(run[m].results)
  BY <1>1, RunFields DEF Index
<1>3. /\ results \in Seq(Statuses) /\ Len(results) = Len(run[m].results) + 1
      /\ DOMAIN results = 1 .. Len(run[m].results) + 1
      /\ DOMAIN run[m].results = 1 .. Len(run[m].results)
      /\ \A i \in 1 .. Len(run[m].results) : results[i] = run[m].results[i]
      /\ results[Len(run[m].results) + 1] = status
  BY <1>2
<1>4. /\ db' = d /\ lock' = NoOwner /\ work' = work
      /\ faults' = faults /\ interrupts' = interrupts
  BY DEF Committed, budget
<1>5. /\ Shipped[m] \in Seq(File) /\ DOMAIN Shipped[m] = 1 .. Len(Shipped[m])
      /\ Len(Shipped[m]) \in Nat /\ Index(m) \in DOMAIN Shipped[m] /\ run[m].first >= 1
  BY <1>1, ShippedFiles DEF RunInv, InLoop
<1> HIDE DEF results
<1>6. /\ run' \in [Migrator -> Runs]
      /\ \A u \in Migrator \ {m} : run'[u] = run[u]
      /\ run'[m].at = (IF over THEN "idle" ELSE "next")
      /\ run'[m].results = results /\ run'[m].restore = FALSE
      /\ run'[m].first = run[m].first
      /\ run'[m].outcome = (IF over THEN "ok" ELSE run[m].outcome)
  <2>1. run \in [Migrator -> Runs] /\ run[m].outcome \in {"none", "ok", "error", "raised"}
        /\ run[m].stmt \in Nat
    BY <1>1, RunFields DEF Types
  <2>2. CASE over
    <3>1. run' = [run EXCEPT ![m].at = "idle", ![m].results = results,
                            ![m].outcome = "ok", ![m].restore = FALSE]
      BY <2>2 DEF FileEnds, Returns, results
    <3> QED BY <1>2, <1>3, <2>1, <2>2, <3>1 DEF Runs, Points
  <2>3. CASE ~over
    <3>1. run' = [run EXCEPT ![m].at = "next", ![m].results = results,
                            ![m].restore = FALSE]
      BY <2>3 DEF FileEnds, results
    <3> QED BY <1>2, <1>3, <2>1, <2>3, <3>1 DEF Runs, Points
  <2> QED BY <2>2, <2>3
<1>7. /\ timeout' \in [Migrator -> {"caller", "run"}]
      /\ \A u \in Migrator \ {m} : timeout'[u] = timeout[u]
      /\ timeout'[m] = (IF over THEN "caller" ELSE timeout[m])
  BY <1>1 DEF FileEnds, Returns, Types
<1>8. /\ fk' \in [Migrator -> BOOLEAN]
      /\ \A u \in Migrator \ {m} : fk'[u] = fk[u]
      /\ fk'[m] = (fk[m] \/ run[m].restore)
  <2>1. lock' # m
    BY <1>1, OwnerAssumption DEF Committed
  <2> QED BY <1>1, <1>2, <2>1 DEF FileEnds, Restored, Types, Runs
<1>9. lock = m
  BY <1>1 DEF HeldInv, InTransaction
<1>10. Types'
  BY <1>1, <1>4, <1>6, <1>7, <1>8 DEF Types
<1>11. Frame(m)
  BY <1>1, <1>4, <1>6, <1>7, <1>8, <1>9, OwnerAssumption, RunFields DEF Frame
<1>12. Index(m)' = Index(m) + 1
  <2>1. Index(m)' = run'[m].first + Len(run'[m].results)
    BY DEF Index
  <2> QED BY <1>2, <1>3, <1>6, <2>1
<1>13. RunInv(m)'
  BY <1>5, <1>6, <1>12 DEF RunInv, InLoop, InFile
<1>14. HeldInv(m)'
  <2>1. lock' # m
    BY <1>1, OwnerAssumption DEF Committed
  <2> QED BY <1>6, <2>1 DEF HeldInv, InTransaction
<1>15. ReportInv(m)'
  <2>1. \A f : IsApplied(f, db.rows) => IsApplied(f, db'.rows)
    BY <1>4
  <2>2. \A i \in DOMAIN results :
          results[i] = "Success" =>
            IsApplied(Shipped[m][run[m].first + i - 1], db'.rows)
    <3> TAKE i \in DOMAIN results
    <3>1. CASE i \in 1 .. Len(run[m].results)
      BY <1>1, <1>3, <2>1, <3>1 DEF ReportInv
    <3>2. CASE i = Len(run[m].results) + 1
      <4>1. run[m].first + i - 1 = Index(m)
        BY <1>2, <3>2
      <4> QED BY <1>4, <4>1 DEF Current
    <3> QED BY <1>2, <1>3, <3>1, <3>2
  <2>3. \A i \in 1 .. Index(m) : IsApplied(Shipped[m][i], db'.rows)
    <3>1. \A i \in 1 .. Index(m) - 1 : IsApplied(Shipped[m][i], db'.rows)
      BY <1>1, <2>1 DEF ReportInv, InLoop
    <3>2. IsApplied(Shipped[m][Index(m)], db'.rows)
      BY <1>4 DEF Current
    <3> QED BY <1>2, <3>1, <3>2
  <2>4. run'[m].outcome = "ok" => \A i \in DOMAIN Shipped[m] : IsApplied(Shipped[m][i], db'.rows)
    <3>1. CASE over
      BY <1>5, <2>3, <3>1
    <3>2. CASE ~over
      BY <1>1, <1>6, <2>1, <3>2 DEF ReportInv
    <3> QED BY <3>1, <3>2
  <2> QED BY <1>2, <1>6, <1>12, <2>2, <2>3, <2>4 DEF ReportInv
<1>16. QuietInv(m)'
  BY <1>1, <1>2, <1>4, <1>6, <1>7, <1>8, OwnerAssumption, RunFields
     DEF QuietInv, InFile, InTransaction
<1>17. Sound' /\ Honest(db.rows)'
  BY <1>4 DEF Sound
<1> QED BY <1>10, <1>11, <1>13, <1>14, <1>15, <1>16, <1>17 DEF StepOK, MigInv

-----------------------------------------------------------------------------
(* One lemma per action.                                                   *)

\* m goes on, and nothing is committed.
LEMMA GoesOnOK ==
  ASSUME Inv, NEW m \in Migrator, db' = db, UNCHANGED budget, Types',
         \A u \in Migrator \ {m} :
           /\ run'[u] = run[u] /\ fk'[u] = fk[u] /\ timeout'[u] = timeout[u]
           /\ lock = u => work' = work /\ lock' = lock
           /\ lock' = u => lock = u,
         run'[m].first = run[m].first, run'[m].results = run[m].results,
         run'[m].outcome = run[m].outcome,
         run'[m].at \in InLoop => run[m].at \in InLoop,
         RunInv(m)', HeldInv(m)', QuietInv(m)'
  PROVE  StepOK(m)
<1>1. Types /\ Sound /\ Honest(db.rows) /\ ReportInv(m)
  BY DEF Inv, MigInv
<1>2. Index(m)' = Index(m)
  BY DEF Index
<1>3. ReportInv(m)'
  BY <1>1, <1>2 DEF ReportInv
<1>4. Frame(m)
  BY <1>1, RunFields DEF Frame, budget
<1>5. Sound' /\ Honest(db.rows)' /\ HistoryStep
  BY <1>1 DEF Sound, budget, HistoryStep
<1> QED BY <1>3, <1>4, <1>5 DEF StepOK, MigInv

\* Taking the lock leaves every other migrator outside a transaction.
LEMMA LockedOthers ==
  ASSUME Types, NEW m \in Migrator, Locked(m)
  PROVE  /\ \A u \in Migrator \ {m} : (lock = u => work' = work /\ lock' = lock)
                                      /\ (lock' = u => lock = u)
         /\ work' = db /\ lock' = m /\ lock = NoOwner
BY OwnerAssumption DEF Locked

\* migrate_to_latest begins: the busy timeout is set, and no lock is held.
LEMMA StartOK ==
  ASSUME Inv, NEW m \in Migrator, Start(m)
  PROVE  StepOK(m)
<1>1. Types /\ Sound /\ Honest(db.rows) /\ QuietInv(m)
  BY DEF Inv, MigInv
<1>2. /\ run' \in [Migrator -> Runs]
      /\ \A u \in Migrator \ {m} : run'[u] = run[u]
      /\ run'[m] = [Idle EXCEPT !.at = "setup"]
  <2>1. [Idle EXCEPT !.at = "setup"] \in Runs
    <3>1. Idle \in Runs
      BY DEF Idle, Runs, Points
    <3>2. \A r \in Runs : [r EXCEPT !.at = "setup"] \in Runs
      BY DEF Runs, Points
    <3> QED BY <3>1, <3>2
  <2> QED BY <1>1, <2>1 DEF Start, Types
<1>3. /\ run'[m].at = "setup" /\ run'[m].results = <<>> /\ run'[m].restore = FALSE
      /\ run'[m].outcome = "none"
  BY <1>2 DEF Idle
<1>4. /\ timeout' \in [Migrator -> {"caller", "run"}]
      /\ \A u \in Migrator \ {m} : timeout'[u] = timeout[u]
      /\ timeout'[m] = "run"
  BY <1>1 DEF Start, Types
<1>5. /\ db' = db /\ work' = work /\ lock' = lock /\ lock # m /\ run[m].at = "idle"
      /\ fk' = fk /\ faults' = faults /\ interrupts' = interrupts
  BY DEF Start, budget
<1>6. Types' /\ Sound' /\ Honest(db.rows)' /\ HistoryStep
  BY <1>1, <1>2, <1>4, <1>5 DEF Types, Sound, HistoryStep
<1>7. Frame(m)
  BY <1>1, <1>2, <1>4, <1>5, RunFields DEF Frame
<1>8. RunInv(m)' /\ HeldInv(m)' /\ ReportInv(m)'
  BY <1>3, <1>5 DEF RunInv, HeldInv, ReportInv, InLoop, InFile, InTransaction
<1>9. QuietInv(m)'
  BY <1>1, <1>3, <1>4, <1>5, RunFields DEF QuietInv, InFile, InTransaction
<1> QED BY <1>6, <1>7, <1>8, <1>9 DEF StepOK, MigInv

\* BEGIN IMMEDIATE of the setup: m gets the lock and sees what is committed.
LEMMA BeginSetupOK ==
  ASSUME Inv, NEW m \in Migrator, BeginSetup(m)
  PROVE  StepOK(m)
<1>1. Types /\ RunInv(m) /\ QuietInv(m)
  BY DEF Inv, MigInv
<1>2. /\ run' \in [Migrator -> Runs]
      /\ \A u \in Migrator \ {m} : run'[u] = run[u]
      /\ run'[m] = [run[m] EXCEPT !.at = "read"]
  <2>1. Goes(m, "read") /\ "read" \in Points
    BY DEF BeginSetup, Points
  <2> QED BY <1>1, <2>1, GoesPut
<1>3. /\ run'[m].at = "read" /\ run'[m].first = run[m].first
      /\ run'[m].results = run[m].results /\ run'[m].restore = run[m].restore
      /\ run'[m].outcome = run[m].outcome
  BY <1>1, <1>2, RunFields DEF Runs
<1>4. /\ db' = db /\ UNCHANGED budget /\ fk' = fk /\ timeout' = timeout
      /\ run[m].at = "setup" /\ Locked(m) /\ interrupts' = interrupts
  BY DEF BeginSetup, settings, budget
<1>5. Types'
  BY <1>1, <1>2, <1>4, LockedOthers DEF Types, budget
<1>6. RunInv(m)' /\ HeldInv(m)'
  BY <1>1, <1>3, <1>4, LockedOthers DEF RunInv, HeldInv, InLoop, InFile, InTransaction
<1>7. QuietInv(m)'
  BY <1>1, <1>3, <1>4, RunFields DEF QuietInv, InFile, InTransaction
<1> QED BY <1>1, <1>2, <1>3, <1>4, <1>5, <1>6, <1>7, LockedOthers, GoesOnOK DEF InLoop

\* _apply is entered and may switch the enforcement off.
LEMMA OpenFileOK ==
  ASSUME Inv, NEW m \in Migrator, OpenFile(m)
  PROVE  StepOK(m)
<1>1. Types /\ RunInv(m) /\ HeldInv(m) /\ QuietInv(m)
  BY DEF Inv, MigInv
<1>2. Shipped[m] \in Seq(File) /\ Index(m) \in DOMAIN Shipped[m] /\ run[m].first >= 1
  BY <1>1, ShippedFiles DEF RunInv, OpenFile, InLoop
<1>3. /\ Current(m).fk \in BOOLEAN /\ fk[m] \in BOOLEAN
      /\ Len(Current(m).stmts) \in Nat
  BY <1>1, <1>2, FileFields, RunFields DEF Current
<1>4. /\ run' \in [Migrator -> Runs]
      /\ \A u \in Migrator \ {m} : run'[u] = run[u]
      /\ run'[m] = [run[m] EXCEPT !.at = "apply", !.stmt = 1,
                                  !.restore = ~Current(m).fk /\ fk[m]]
  <2> DEFINE off == ~Current(m).fk /\ fk[m]
  <2>1. off \in BOOLEAN
    BY <1>3
  <2>2. run' = [run EXCEPT ![m].at = "apply", ![m].stmt = 1, ![m].restore = off]
    BY DEF OpenFile
  <2> HIDE DEF off
  <2>3. run'[m] = [run[m] EXCEPT !.at = "apply", !.stmt = 1, !.restore = off]
    BY <1>1, <2>2 DEF Types
  <2>4. run' \in [Migrator -> Runs]
    <3>1. \A r \in Runs : \A b \in BOOLEAN :
            [r EXCEPT !.at = "apply", !.stmt = 1, !.restore = b] \in Runs
      BY DEF Runs, Points
    <3>2. [run[m] EXCEPT !.at = "apply", !.stmt = 1, !.restore = off] \in Runs
      BY <1>1, <2>1, <3>1, RunFields
    <3>3. run' = [run EXCEPT ![m] = [run[m] EXCEPT !.at = "apply", !.stmt = 1,
                                                   !.restore = off]]
      BY <1>1, <2>2 DEF Types
    <3> QED BY <1>1, <3>2, <3>3 DEF Types
  <2>5. \A u \in Migrator \ {m} : run'[u] = run[u]
    BY <1>1, <2>2 DEF Types
  <2> QED BY <2>3, <2>4, <2>5 DEF off
<1>5. /\ run'[m].at = "apply" /\ run'[m].first = run[m].first /\ run'[m].stmt = 1
      /\ run'[m].results = run[m].results
      /\ run'[m].restore = (~Current(m).fk /\ fk[m])
      /\ run'[m].outcome = run[m].outcome
  BY <1>1, <1>4, RunFields DEF Runs
<1>6. /\ db' = db /\ UNCHANGED budget /\ timeout' = timeout
      /\ run[m].at = "next" /\ work' = work /\ lock' = lock /\ interrupts' = interrupts
  BY DEF OpenFile, budget
<1>7. /\ fk' \in [Migrator -> BOOLEAN]
      /\ \A u \in Migrator \ {m} : fk'[u] = fk[u]
      /\ fk'[m] = (fk[m] /\ Current(m).fk)
  BY <1>1, <1>3 DEF OpenFile, Types
<1>8. Types'
  BY <1>1, <1>4, <1>6, <1>7 DEF Types, budget
<1>9. Index(m)' = Index(m) /\ Current(m)' = Current(m)
  BY <1>5 DEF Index, Current
<1>10. RunInv(m)' /\ HeldInv(m)'
  <2>1. lock' # m
    BY <1>1, <1>6 DEF HeldInv
  <2> QED BY <1>2, <1>3, <1>5, <1>9, <2>1 DEF RunInv, HeldInv, InLoop, InFile, InTransaction
<1>11. QuietInv(m)'
  BY <1>1, <1>3, <1>5, <1>6, <1>7, <1>9 DEF QuietInv, InFile, InTransaction
<1> QED BY <1>4, <1>5, <1>6, <1>7, <1>8, <1>10, <1>11, GoesOnOK DEF InLoop

\* BEGIN IMMEDIATE of a file: m gets the lock and sees what is committed.
LEMMA BeginFileOK ==
  ASSUME Inv, NEW m \in Migrator, BeginFile(m)
  PROVE  StepOK(m)
<1>1. Types /\ RunInv(m) /\ QuietInv(m)
  BY DEF Inv, MigInv
<1>2. /\ run' \in [Migrator -> Runs]
      /\ \A u \in Migrator \ {m} : run'[u] = run[u]
      /\ run'[m] = [run[m] EXCEPT !.at = "check"]
  <2>1. Goes(m, "check") /\ "check" \in Points
    BY DEF BeginFile, Points
  <2> QED BY <1>1, <2>1, GoesPut
<1>3. /\ run'[m].at = "check" /\ run'[m].first = run[m].first
      /\ run'[m].results = run[m].results /\ run'[m].restore = run[m].restore
      /\ run'[m].outcome = run[m].outcome /\ run'[m].stmt = run[m].stmt
  BY <1>1, <1>2, RunFields DEF Runs
<1>4. /\ db' = db /\ UNCHANGED budget /\ fk' = fk /\ timeout' = timeout
      /\ run[m].at = "apply" /\ Locked(m) /\ interrupts' = interrupts
  BY DEF BeginFile, settings, budget
<1>5. Types'
  BY <1>1, <1>2, <1>4, LockedOthers DEF Types, budget
<1>6. Index(m)' = Index(m) /\ Current(m)' = Current(m)
  BY <1>3 DEF Index, Current
<1>7. RunInv(m)' /\ HeldInv(m)'
  BY <1>1, <1>3, <1>4, <1>6, LockedOthers DEF RunInv, HeldInv, InLoop, InFile, InTransaction
<1>8. QuietInv(m)'
  BY <1>1, <1>3, <1>4, <1>6 DEF QuietInv, InFile, InTransaction
<1> QED BY <1>1, <1>2, <1>3, <1>4, <1>5, <1>7, <1>8, LockedOthers, GoesOnOK DEF InLoop

\* The history read under the lock shows the file to be the next one.
LEMMA EnterFileOK ==
  ASSUME Inv, NEW m \in Migrator, EnterFile(m)
  PROVE  StepOK(m)
<1>1. /\ Types /\ Honest(db.rows) /\ Sound
      /\ RunInv(m) /\ HeldInv(m) /\ QuietInv(m)
  BY DEF Inv, MigInv
<1>2. /\ run' \in [Migrator -> Runs]
      /\ \A u \in Migrator \ {m} : run'[u] = run[u]
      /\ run'[m] = [run[m] EXCEPT !.at = "run"]
  <2>1. Goes(m, "run") /\ "run" \in Points
    BY DEF EnterFile, Points
  <2> QED BY <1>1, <2>1, GoesPut
<1>3. /\ run'[m].at = "run" /\ run'[m].first = run[m].first
      /\ run'[m].results = run[m].results /\ run'[m].restore = run[m].restore
      /\ run'[m].outcome = run[m].outcome /\ run'[m].stmt = run[m].stmt
  BY <1>1, <1>2, RunFields DEF Runs
<1>4. /\ db' = db /\ work' = work /\ lock' = lock
      /\ UNCHANGED budget /\ fk' = fk /\ timeout' = timeout
      /\ run[m].at = "check" /\ IsNext(m) /\ interrupts' = interrupts
  BY DEF EnterFile, settings, budget
<1>5. Types'
  BY <1>1, <1>2, <1>4 DEF Types, budget
<1>6. Index(m)' = Index(m) /\ Current(m)' = Current(m)
  BY <1>3 DEF Index, Current
<1>7. lock = m /\ work = db
  BY <1>1, <1>4 DEF HeldInv, InTransaction
<1>8. RunInv(m)'
  <2>1. Shipped[m] \in Seq(File) /\ Index(m) \in DOMAIN Shipped[m]
    BY <1>1, <1>4, ShippedFiles DEF RunInv, InLoop
  <2>2. Len(Current(m).stmts) \in Nat
    BY <2>1, FileFields DEF Current
  <2> QED BY <1>1, <1>3, <1>4, <1>6, <2>2 DEF RunInv, InLoop
<1>9. HeldInv(m)'
  <2>1. HoldsFirst(Shipped[m], db.rows)
    BY <1>1, <1>4, <1>7 DEF IsNext, Honest
  <2>2. Index(m) = Len(db.rows) + 1
    BY <1>1, <1>4, <1>7, <2>1, ShippedFiles, FirstOfPrefix, RunFields DEF IsNext
  <2>3. run[m].stmt = 1
    BY <1>1, <1>4 DEF RunInv
  <2>4. db.schema \o SubSeq(Whole(Current(m)), 1, run[m].stmt - 1) = db.schema
    <3>1. run[m].stmt - 1 = 0
      BY <2>3
    <3>2. SubSeq(Whole(Current(m)), 1, 0) = <<>>
      OBVIOUS
    <3>3. db.schema \in Seq(Nat \X Nat \X Nat)
      BY <1>1 DEF Types, Databases
    <3>4. db.schema \o <<>> = db.schema
      BY <3>3
    <3> QED BY <3>1, <3>2, <3>4
  <2>5. Partway(m)'
    <3>1. db'.schema \o SubSeq(Whole(Current(m)'), 1, run'[m].stmt - 1) = db'.schema
      BY <1>3, <1>4, <1>6, <2>4
    <3>2. Len(db.rows) \in Nat
      BY <1>1, RunFields
    <3> QED BY <1>4, <1>6, <1>7, <2>1, <2>2, <3>1, <3>2 DEF Partway
  <2> QED BY <1>3, <1>4, <1>7, <2>5 DEF HeldInv
<1>10. QuietInv(m)'
  BY <1>1, <1>3, <1>4, <1>6, <1>7 DEF QuietInv, InFile, InTransaction, Sound
<1> QED BY <1>2, <1>3, <1>4, <1>5, <1>8, <1>9, <1>10, GoesOnOK DEF InLoop

\* The file is already applied: its report is true without a commit.
LEMMA SkipFileOK ==
  ASSUME Inv, NEW m \in Migrator, SkipFile(m)
  PROVE  StepOK(m)
<1>1. Types /\ Honest(db.rows) /\ Sound /\ HeldInv(m)
  BY DEF Inv, MigInv
<1>2. work = db /\ run[m].at = "check"
  BY <1>1 DEF SkipFile, HeldInv
<1>3. HistoryStep
  BY <1>2 DEF SkipFile, Committed, HistoryStep
<1>4. "NotExecuted" \in Statuses /\ db \in Databases
  BY <1>1 DEF Statuses, Types
<1> QED BY <1>1, <1>2, <1>3, <1>4, FileEndsOK DEF SkipFile, Sound

\* The history table is there, and the pending files are what remains.
LEMMA SetupOK ==
  ASSUME Inv, NEW m \in Migrator, Setup(m)
  PROVE  StepOK(m)
<1> DEFINE first == FirstPending(Shipped[m], work.rows)
<1>1. /\ Types /\ Honest(db.rows) /\ Sound
      /\ RunInv(m) /\ HeldInv(m) /\ ReportInv(m) /\ QuietInv(m)
  BY DEF Inv, MigInv
<1>2. /\ work = db /\ lock = m /\ run[m].results = <<>> /\ run[m].at = "read"
  BY <1>1 DEF Setup, HeldInv, RunInv, InTransaction
<1>3. /\ db' = db /\ lock' = NoOwner /\ work' = work /\ fk' = fk
      /\ faults' = faults /\ interrupts' = interrupts
  BY <1>2 DEF Setup, Committed, budget
<1>4. /\ Shipped[m] \in Seq(File) /\ Ascending(Shipped[m])
      /\ DOMAIN Shipped[m] = 1 .. Len(Shipped[m]) /\ Len(Shipped[m]) \in Nat
  BY ShippedFiles
<1>5. /\ HoldsFirst(Shipped[m], db.rows) /\ first = Len(db.rows) + 1
      /\ Len(db.rows) \in Nat /\ Len(db.rows) <= Len(Shipped[m])
  <2>1. HoldsFirst(Shipped[m], db.rows)
    BY <1>1, <1>2 DEF Setup, Honest
  <2>2. db.rows \in Seq(Rows)
    BY <1>1, RunFields
  <2> QED BY <1>2, <1>4, <2>1, <2>2, FirstOfPrefix DEF HoldsFirst
<1>6. \A i \in 1 .. Len(db.rows) : IsApplied(Shipped[m][i], db.rows)
  <2> TAKE i \in 1 .. Len(db.rows)
  <2>1. i \in DOMAIN Shipped[m] /\ db.rows \in Seq(Rows) /\ i <= Len(db.rows)
    BY <1>1, <1>4, <1>5, RunFields
  <2> QED BY <1>4, <1>5, <2>1, FirstApplied
<1>7. HistoryStep /\ Honest(db.rows)' /\ Sound'
  BY <1>1, <1>3 DEF HistoryStep, Sound
<1>8. first \in Nat /\ first >= 1
  BY <1>5
<1> HIDE DEF first
<1>9. CASE first > Len(Shipped[m])
  <2>1. Returns(m, <<>>, "ok")
    BY <1>9 DEF Setup, first
  <2>2. /\ run' \in [Migrator -> Runs]
        /\ \A u \in Migrator \ {m} : run'[u] = run[u]
        /\ run'[m].at = "idle" /\ run'[m].results = <<>>
        /\ run'[m].restore = FALSE /\ run'[m].outcome = "ok"
    <3>1. run' = [run EXCEPT ![m].at = "idle", ![m].results = <<>>,
                            ![m].outcome = "ok", ![m].restore = FALSE]
      BY <2>1 DEF Returns
    <3>2. \A r \in Runs :
            [r EXCEPT !.at = "idle", !.results = <<>>, !.outcome = "ok", !.restore = FALSE]
              \in Runs
      <4>1. \A r \in Runs : \A q \in Seq(Statuses) :
              [r EXCEPT !.at = "idle", !.results = q, !.outcome = "ok", !.restore = FALSE]
                \in Runs
        BY DEF Runs, Points
      <4>2. <<>> \in Seq(Statuses)
        OBVIOUS
      <4> QED BY <4>1, <4>2
    <3>3. run' = [run EXCEPT ![m] = [run[m] EXCEPT !.at = "idle", !.results = <<>>,
                                                   !.outcome = "ok", !.restore = FALSE]]
      BY <1>1, <3>1 DEF Types
    <3>4. run' \in [Migrator -> Runs]
      BY <1>1, <3>2, <3>3, RunFields DEF Types
    <3>5. run'[m] = [run[m] EXCEPT !.at = "idle", !.results = <<>>,
                                   !.outcome = "ok", !.restore = FALSE]
      BY <1>1, <3>3 DEF Types
    <3> QED BY <1>1, <3>3, <3>4, <3>5, RunFields DEF Types, Runs
  <2>3. /\ timeout' \in [Migrator -> {"caller", "run"}]
        /\ \A u \in Migrator \ {m} : timeout'[u] = timeout[u]
        /\ timeout'[m] = "caller"
    BY <1>1, <2>1 DEF Returns, Types
  <2>4. Types'
    BY <1>1, <1>3, <2>2, <2>3 DEF Types
  <2>5. Frame(m)
    BY <1>1, <1>2, <1>3, <2>2, <2>3, OwnerAssumption, RunFields DEF Frame
  <2>6. RunInv(m)' /\ HeldInv(m)'
    BY <2>2 DEF RunInv, HeldInv, InLoop, InTransaction
  <2>7. ReportInv(m)'
    <3>1. \A i \in DOMAIN Shipped[m] : IsApplied(Shipped[m][i], db.rows)
      BY <1>4, <1>5, <1>6, <1>9
    <3> QED BY <1>3, <2>2, <3>1 DEF ReportInv, InLoop
  <2>8. QuietInv(m)'
    BY <1>1, <1>2, <1>3, <2>2, <2>3, OwnerAssumption DEF QuietInv, InFile
  <2> QED BY <1>7, <2>4, <2>5, <2>6, <2>7, <2>8 DEF StepOK, MigInv
<1>10. CASE ~(first > Len(Shipped[m]))
  <2>1. /\ run' = [run EXCEPT ![m].at = "next", ![m].first = first]
        /\ timeout' = timeout
    BY <1>10 DEF Setup, first
  <2>2. /\ run' \in [Migrator -> Runs]
        /\ \A u \in Migrator \ {m} : run'[u] = run[u]
        /\ run'[m].at = "next" /\ run'[m].first = first
        /\ run'[m].results = <<>> /\ run'[m].restore = run[m].restore
        /\ run'[m].outcome = run[m].outcome
    <3> DEFINE r == [run[m] EXCEPT !.at = "next", !.first = first]
    <3>1. run[m] \in Runs /\ first \in Nat
      BY <1>1, <1>8, RunFields
    <3>2. /\ r \in Runs /\ r.at = "next" /\ r.first = first
          /\ r.results = run[m].results /\ r.restore = run[m].restore
          /\ r.outcome = run[m].outcome
      BY <3>1 DEF Runs, Points
    <3>3. run' = [run EXCEPT ![m] = r]
      BY <1>1, <2>1 DEF Types
    <3> HIDE DEF r
    <3>4. /\ run' \in [Migrator -> Runs] /\ run'[m] = r
          /\ \A u \in Migrator \ {m} : run'[u] = run[u]
      BY <1>1, <3>2, <3>3, RunPut
    <3> QED BY <1>2, <3>2, <3>4
  <2>3. Types'
    BY <1>1, <1>3, <2>1, <2>2 DEF Types
  <2>4. Frame(m)
    BY <1>1, <1>2, <1>3, <2>1, <2>2, OwnerAssumption, RunFields DEF Frame
  <2>5. Index(m)' = first
    <3>1. Index(m)' = run'[m].first + Len(run'[m].results)
      BY DEF Index
    <3> QED BY <1>8, <2>2, <3>1
  <2>6. RunInv(m)' /\ HeldInv(m)'
    <3>1. first \in DOMAIN Shipped[m]
      BY <1>4, <1>8, <1>10
    <3>2. lock' # m
      BY <1>3, OwnerAssumption DEF Committed
    <3> QED BY <1>8, <2>2, <2>5, <3>1, <3>2 DEF RunInv, HeldInv, InLoop, InTransaction
  <2>7. ReportInv(m)'
    <3>1. first - 1 = Len(db.rows)
      BY <1>5
    <3> QED BY <1>1, <1>3, <1>6, <2>2, <2>5, <3>1 DEF ReportInv
  <2>8. QuietInv(m)'
    BY <1>1, <1>2, <1>3, <2>1, <2>2, OwnerAssumption DEF QuietInv, InFile, InTransaction
  <2> QED BY <1>7, <2>3, <2>4, <2>6, <2>7, <2>8 DEF StepOK, MigInv
<1> QED BY <1>9, <1>10

\* A statement of the file runs: Partway covers one statement more.
LEMMA ExecuteOK ==
  ASSUME Inv, NEW m \in Migrator, Execute(m)
  PROVE  StepOK(m)
<1> DEFINE k == run[m].stmt
           w == Whole(Current(m))
<1>1. Types /\ RunInv(m) /\ HeldInv(m) /\ QuietInv(m)
  BY DEF Inv, MigInv
<1>2. /\ run[m].at = "run" /\ lock = m /\ Partway(m)
      /\ Index(m) \in DOMAIN Shipped[m] /\ run[m].first >= 1
  BY <1>1 DEF Execute, RunInv, HeldInv, InLoop, InTransaction
<1>3. Current(m) \in File /\ Current(m).fk \in BOOLEAN
  BY <1>2, ShippedFiles, FileFields DEF Current
<1>4. /\ w \in Seq(Nat \X Nat \X Nat) /\ Len(w) = Len(Current(m).stmts)
      /\ Len(Current(m).stmts) \in Nat
      /\ \A i \in 1 .. Len(Current(m).stmts) : w[i] = Ran(Current(m), i)
  BY <1>3, WholeFile
<1>5. k \in 1 .. Len(w) /\ k \in Nat
  <2> DEFINE n == Len(Current(m).stmts)
  <2>1. k \in 1 .. n + 1 /\ k # n + 1
    BY <1>1, <1>2 DEF Execute, Executed, RunInv
  <2>2. n \in Nat /\ Len(w) = n
    BY <1>4
  <2> HIDE DEF n, k, w
  <2> QED BY <2>1, <2>2
<1>6. /\ run' \in [Migrator -> Runs]
      /\ \A u \in Migrator \ {m} : run'[u] = run[u]
      /\ run'[m] = [run[m] EXCEPT !.stmt = k + 1]
  <2>1. run' = [run EXCEPT ![m] = [run[m] EXCEPT !.stmt = k + 1]]
    BY <1>1 DEF Execute, Types
  <2>2. [run[m] EXCEPT !.stmt = k + 1] \in Runs
    <3>1. k + 1 \in Nat /\ run[m] \in Runs
      BY <1>1, <1>5, RunFields
    <3> QED BY <3>1 DEF Runs
  <2> QED BY <1>1, <2>1, <2>2 DEF Types
<1>7. /\ run'[m].at = "run" /\ run'[m].first = run[m].first /\ run'[m].stmt = k + 1
      /\ run'[m].results = run[m].results /\ run'[m].restore = run[m].restore
      /\ run'[m].outcome = run[m].outcome
  BY <1>1, <1>2, <1>6, RunFields DEF Runs
<1>8. /\ db' = db /\ lock' = lock /\ UNCHANGED budget /\ interrupts' = interrupts
      /\ fk' = fk /\ timeout' = timeout
  BY DEF Execute, settings, budget
<1>9. /\ work' \in Databases /\ work'.rows = work.rows
      /\ work'.schema = Append(work.schema, w[k])
      /\ work'.broken => work.broken \/ Statement(m) = "break"
  <2>1. Ran(Current(m), k) = w[k] /\ w[k] \in Nat \X Nat \X Nat
    <3> HIDE DEF k, w
    <3>1. k \in 1 .. Len(Current(m).stmts)
      BY <1>4, <1>5
    <3>2. w[k] \in Nat \X Nat \X Nat
      BY <1>4, <1>5
    <3> QED BY <1>4, <3>1, <3>2
  <2>2. /\ work \in Databases /\ work.schema \in Seq(Nat \X Nat \X Nat)
        /\ work.broken \in BOOLEAN
    BY <1>1 DEF Types, Databases
  <2> DEFINE broken == CASE Statement(m) = "break" -> TRUE
                         [] Statement(m) = "mend" -> FALSE
                         [] OTHER -> work.broken
  <2>3. work' = [work EXCEPT !.schema = Append(work.schema, Ran(Current(m), k)),
                             !.broken = broken]
    BY <2>2 DEF Execute, Databases
  <2>4. broken \in BOOLEAN /\ (broken => work.broken \/ Statement(m) = "break")
    BY <2>2
  <2> HIDE DEF broken
  <2> DEFINE schema == Append(work.schema, w[k])
  <2>5. schema \in Seq(Nat \X Nat \X Nat)
    BY <2>1, <2>2
  <2>6. work' = [work EXCEPT !.schema = schema, !.broken = broken]
    BY <2>1, <2>3
  <2> HIDE DEF schema
  <2>7. /\ work' \in Databases /\ work'.rows = work.rows
        /\ work'.schema = schema /\ work'.broken = broken
    BY <2>2, <2>4, <2>5, <2>6 DEF Databases
  <2> QED BY <2>4, <2>7 DEF schema
<1>10. Index(m)' = Index(m) /\ Current(m)' = Current(m)
  BY <1>7 DEF Index, Current
<1>11. Types'
  BY <1>1, <1>6, <1>8, <1>9 DEF Types, budget
<1>12. RunInv(m)'
  <2>1. k + 1 \in 1 .. Len(Current(m).stmts) + 1
    <3> DEFINE n == Len(Current(m).stmts)
    <3>1. n \in Nat /\ k \in 1 .. n
      BY <1>4, <1>5
    <3> HIDE DEF k, n
    <3>2. k + 1 \in 1 .. n + 1
      BY <3>1
    <3> QED BY <3>2 DEF n
  <2> QED BY <1>2, <1>7, <1>10, <2>1 DEF RunInv
<1>13. HeldInv(m)'
  <2>1. db.schema \in Seq(Nat \X Nat \X Nat)
    BY <1>1 DEF Types, Databases
  <2>2. Append(db.schema \o SubSeq(w, 1, k - 1), w[k]) = db.schema \o SubSeq(w, 1, k)
    BY <1>4, <1>5, <2>1, OneMore
  <2>3. work'.schema = db.schema \o SubSeq(w, 1, k)
    BY <1>2, <1>9, <2>2 DEF Partway
  <2>4. run'[m].stmt - 1 = k
    BY <1>5, <1>7
  <2>5. Partway(m)'
    BY <1>2, <1>8, <1>9, <1>10, <2>3, <2>4 DEF Partway
  <2> QED BY <1>2, <1>7, <1>8, <2>5 DEF HeldInv
<1>14. QuietInv(m)'
  <2>1. interrupts = 0 /\ Statement(m) = "break" /\ Enforced = Migrator => ~Current(m).fk
    BY <1>1, <1>2 DEF Execute, Rejected, QuietInv
  <2> QED BY <1>1, <1>2, <1>7, <1>8, <1>9, <1>10, <2>1 DEF QuietInv
<1> QED BY <1>2, <1>6, <1>7, <1>8, <1>11, <1>12, <1>13, <1>14, GoesOnOK DEF InLoop

\* COMMIT installs exactly the file that comes next in the history.
LEMMA CommitFileOK ==
  ASSUME Inv, NEW m \in Migrator, CommitFile(m)
  PROVE  StepOK(m)
<1> DEFINE f == Current(m)
           w == Whole(Current(m))
           d == [work EXCEPT !.rows = Append(work.rows, Row(f))]
<1>1. /\ Types /\ Honest(db.rows) /\ Sound
      /\ RunInv(m) /\ HeldInv(m) /\ QuietInv(m)
  BY DEF Inv, MigInv
<1>2. /\ run[m].at = "run" /\ Partway(m) /\ Index(m) \in DOMAIN Shipped[m]
      /\ Index(m) \in Nat /\ run[m].stmt = Len(f.stmts) + 1
  BY <1>1, RunFields DEF CommitFile, Executed, RunInv, HeldInv, InLoop
<1>3. /\ f = Shipped[m][Index(m)] /\ f \in File /\ Row(f) \in Rows
      /\ Row(f).name = f.name /\ f.fk \in BOOLEAN
      /\ Index(m) \in 1 .. Len(Shipped[m])
  BY <1>2, ShippedFiles, FileFields DEF Current
<1>4. /\ w \in Seq(Nat \X Nat \X Nat) /\ Len(w) = Len(f.stmts) /\ Len(f.stmts) \in Nat
  BY <1>3, WholeFile
<1>5. /\ work \in Databases /\ db \in Databases
      /\ db.rows \in Seq(Rows) /\ db.schema \in Seq(Nat \X Nat \X Nat)
      /\ work.broken \in BOOLEAN /\ work.schema \in Seq(Nat \X Nat \X Nat)
      /\ work.rows = db.rows
  BY <1>1, <1>2 DEF Types, Databases, Partway
<1>6. /\ d \in Databases /\ d.rows = Append(db.rows, Row(f))
      /\ d.schema = work.schema /\ d.broken = work.broken
  <2> DEFINE rows == Append(work.rows, Row(f))
  <2>1. rows \in Seq(Rows)
    BY <1>3, <1>5
  <2> HIDE DEF rows
  <2>2. /\ [work EXCEPT !.rows = rows] \in Databases
        /\ [work EXCEPT !.rows = rows].rows = rows
        /\ [work EXCEPT !.rows = rows].schema = work.schema
        /\ [work EXCEPT !.rows = rows].broken = work.broken
    BY <1>5, <2>1 DEF Databases
  <2> QED BY <1>5, <2>2 DEF rows
<1>7. work.schema = db.schema \o w
  <2>1. run[m].stmt - 1 = Len(w)
    BY <1>2, <1>4
  <2>2. SubSeq(w, 1, Len(w)) = w
    BY <1>4
  <2> QED BY <1>2, <2>1, <2>2 DEF Partway
<1>8. /\ Committed(d) /\ FileEnds(m, "Success") /\ UNCHANGED budget /\ ~Violates(m)
  BY <1>5 DEF CommitFile
<1> HIDE DEF f, w, d
<1>9. \A g : IsApplied(g, db.rows) => IsApplied(g, d.rows)
  BY <1>3, <1>5, <1>6, StillApplied
<1>10. IsApplied(Current(m), d.rows)
  BY <1>3, <1>5, <1>6, StillApplied DEF f
<1>11. /\ HoldsFirst(Shipped[m], db.rows) /\ Len(db.rows) + 1 = Index(m)
       /\ Len(db.rows) \in Nat
  BY <1>2, <1>5 DEF Partway
<1>12. Honest(d.rows)
  <2>1. Index(m) = Len(db.rows) + 1
    BY <1>11
  <2>2. Honest(Append(db.rows, Row(Shipped[m][Index(m)])))
    BY <1>1, <1>2, <1>5, <1>11, <2>1, AppendHonest
  <2> QED BY <1>3, <1>6, <2>2
<1>13. interrupts = 0 /\ Enforced = Migrator => ~d.broken
  <2>1. ~(~Current(m).fk /\ work.broken)
    BY <1>8 DEF Violates
  <2> QED BY <1>1, <1>2, <1>6, <2>1 DEF QuietInv
<1>14. HistoryStep
  <2>1. db' = d
    BY <1>8 DEF Committed
  <2>2. History!IsPrefix(Shipped[m], Index(m) - 1)
    <3>1. Index(m) - 1 = Len(db.rows)
      BY <1>11
    <3> QED BY <1>11, <3>1 DEF History!IsPrefix, HoldsFirst, History!Row, Row
  <2>3. db'.rows = Append(db.rows, Row(Shipped[m][Index(m)]))
    BY <1>3, <1>6, <2>1
  <2>4. db'.schema = db.schema \o Whole(Shipped[m][Index(m)])
    BY <1>3, <1>6, <1>7, <2>1 DEF f, w
  <2>5. History!ApplyFile(m)
    <3>1. \E n \in 1 .. Len(Shipped[m]) :
            /\ History!IsPrefix(Shipped[m], n - 1)
            /\ db'.rows = Append(db.rows, Row(Shipped[m][n]))
            /\ db'.schema = db.schema \o Whole(Shipped[m][n])
      BY <1>3, <2>2, <2>3, <2>4
    <3> QED BY <3>1 DEF History!ApplyFile, History!Row, Row, History!Whole, Whole,
                          History!Ran, Ran
  <2> QED BY <2>5 DEF HistoryStep, History!HistoryNext
<1>15. "Success" \in Statuses
  BY DEF Statuses
<1> QED BY <1>2, <1>6, <1>8, <1>9, <1>10, <1>12, <1>13, <1>14, <1>15, FileEndsOK

-----------------------------------------------------------------------------
(* What stops a run.                                                       *)

\* A run that stops reports no success that it had not reported before.
LEMMA SetupStopsOK ==
  ASSUME Inv, NEW m \in Migrator, SetupStops(m),
         faults' \in 0 .. MaxFaults, interrupts' = interrupts
  PROVE  StepOK(m)
<1>1. Types /\ QuietInv(m)
  BY DEF Inv, MigInv
<1>2. /\ RolledBack(m) /\ Returns(m, <<>>, "error") /\ fk' = fk
      /\ run[m].at \in {"setup", "read"}
  BY DEF SetupStops
<1>3. /\ run' \in [Migrator -> Runs]
      /\ \A u \in Migrator \ {m} : run'[u] = run[u]
      /\ run'[m].at = "idle" /\ run'[m].results = <<>>
      /\ run'[m].restore = FALSE /\ run'[m].outcome = "error"
  <2>1. \A r \in Runs : \A q \in Seq(Statuses) :
          [r EXCEPT !.at = "idle", !.results = q, !.outcome = "error", !.restore = FALSE]
            \in Runs
    BY DEF Runs, Points
  <2>2. <<>> \in Seq(Statuses)
    OBVIOUS
  <2>3. run' = [run EXCEPT ![m] = [run[m] EXCEPT !.at = "idle", !.results = <<>>,
                                                 !.outcome = "error", !.restore = FALSE]]
    BY <1>1, <1>2 DEF Types, Returns
  <2>4. run' \in [Migrator -> Runs]
    BY <1>1, <2>1, <2>2, <2>3, RunFields DEF Types
  <2>5. run'[m] = [run[m] EXCEPT !.at = "idle", !.results = <<>>,
                                 !.outcome = "error", !.restore = FALSE]
    BY <1>1, <2>3 DEF Types
  <2> QED BY <1>1, <2>3, <2>4, <2>5, RunFields DEF Types, Runs
<1>4. /\ timeout' \in [Migrator -> {"caller", "run"}] /\ timeout'[m] = "caller"
      /\ \A u \in Migrator \ {m} : timeout'[u] = timeout[u]
  BY <1>1, <1>2 DEF Returns, Types
<1>5. interrupts' = 0 => fk'[m] = (m \in Enforced)
  BY <1>1, <1>2 DEF QuietInv, InFile
<1>6. Ends(m)
  BY <1>1, <1>2, <1>3, <1>4, <1>5, RunFields DEF Ends, Types
<1> QED BY <1>6, EndsOK

\* The status that FileStops appends is Error, and what it skips NotExecuted.
LEMMA FileStopsOK ==
  ASSUME Inv, NEW m \in Migrator, FileStops(m), run[m].at \in InLoop,
         faults' \in 0 .. MaxFaults, interrupts' = interrupts
  PROVE  StepOK(m)
<1> DEFINE old == run[m].results
           stopped == Append(old, "Error")
           results == stopped \o Skipped(m)
<1>1. Types /\ RunInv(m) /\ QuietInv(m)
  BY DEF Inv, MigInv
<1>2. RolledBack(m) /\ Restored(m) /\ Returns(m, results, "error")
  BY DEF FileStops
<1>3. old \in Seq(Statuses) /\ Len(old) \in Nat /\ DOMAIN old = 1 .. Len(old)
  BY <1>1, RunFields
<1>4. /\ stopped \in Seq(Statuses) /\ Len(stopped) = Len(old) + 1
      /\ stopped[Len(old) + 1] = "Error"
      /\ \A i \in 1 .. Len(old) : stopped[i] = old[i]
  BY <1>3 DEF Statuses
<1>5. /\ Skipped(m) \in Seq(Statuses) /\ Len(Skipped(m)) \in Nat
      /\ \A i \in 1 .. Len(Skipped(m)) : Skipped(m)[i] = "NotExecuted"
  <2>1. /\ Len(Shipped[m]) \in Nat /\ Index(m) \in 1 .. Len(Shipped[m])
    BY <1>1, ShippedFiles DEF RunInv
  <2>2. Len(Shipped[m]) - Index(m) \in Nat
    BY <2>1
  <2>3. "NotExecuted" \in Statuses
    BY DEF Statuses
  <2> QED BY <2>2, <2>3 DEF Skipped
<1> HIDE DEF old, stopped
<1>6. /\ results \in Seq(Statuses) /\ Len(results) = Len(stopped) + Len(Skipped(m))
      /\ \A i \in 1 .. Len(stopped) + Len(Skipped(m)) :
           results[i] = IF i <= Len(stopped) THEN stopped[i]
                        ELSE Skipped(m)[i - Len(stopped)]
  BY <1>4, <1>5, ConcatProperties
<1> HIDE DEF results
<1>7. \A i \in DOMAIN results :
        results[i] = "Success" => i \in DOMAIN old /\ old[i] = "Success"
  <2> SUFFICES ASSUME NEW i \in DOMAIN results, results[i] = "Success"
               PROVE  i \in DOMAIN old /\ old[i] = "Success"
    OBVIOUS
  <2>1. i \in 1 .. Len(stopped) + Len(Skipped(m)) /\ Len(stopped) \in Nat
    BY <1>3, <1>4, <1>5, <1>6
  <2>2. CASE i > Len(stopped)
    <3>1. i - Len(stopped) \in 1 .. Len(Skipped(m)) /\ ~(i <= Len(stopped))
      BY <1>5, <2>1, <2>2
    <3> QED BY <1>5, <1>6, <2>1, <3>1
  <2>3. CASE i = Len(old) + 1
    BY <1>3, <1>4, <1>6, <2>1, <2>3
  <2>4. CASE i <= Len(old)
    BY <1>3, <1>4, <1>6, <2>1, <2>4
  <2> QED BY <1>3, <1>4, <2>1, <2>2, <2>3, <2>4
<1>8. /\ run' \in [Migrator -> Runs]
      /\ \A u \in Migrator \ {m} : run'[u] = run[u]
      /\ run'[m].at = "idle" /\ run'[m].results = results
      /\ run'[m].restore = FALSE /\ run'[m].outcome = "error"
      /\ run'[m].first = run[m].first
  <2>1. \A r \in Runs : \A q \in Seq(Statuses) :
          [r EXCEPT !.at = "idle", !.results = q, !.outcome = "error", !.restore = FALSE]
            \in Runs
    BY DEF Runs, Points
  <2>2. run' = [run EXCEPT ![m] = [run[m] EXCEPT !.at = "idle", !.results = results,
                                                 !.outcome = "error", !.restore = FALSE]]
    BY <1>1, <1>2 DEF Types, Returns
  <2>3. run' \in [Migrator -> Runs]
    BY <1>1, <1>6, <2>1, <2>2, RunFields DEF Types
  <2>4. run'[m] = [run[m] EXCEPT !.at = "idle", !.results = results,
                                 !.outcome = "error", !.restore = FALSE]
    BY <1>1, <2>2 DEF Types
  <2> QED BY <1>1, <2>2, <2>3, <2>4, RunFields DEF Types, Runs
<1>9. /\ timeout' \in [Migrator -> {"caller", "run"}] /\ timeout'[m] = "caller"
      /\ \A u \in Migrator \ {m} : timeout'[u] = timeout[u]
  BY <1>1, <1>2 DEF Returns, Types
<1>10. /\ fk' \in [Migrator -> BOOLEAN] /\ fk'[m] = (fk[m] \/ run[m].restore)
       /\ \A u \in Migrator \ {m} : fk'[u] = fk[u]
  <2>1. lock' # m
    BY <1>2, OwnerAssumption DEF RolledBack
  <2> QED BY <1>1, <1>2, <2>1, RunFields DEF Restored, Types
<1>11. interrupts' = 0 => fk'[m] = (m \in Enforced)
  BY <1>1, <1>10, RunFields DEF QuietInv
<1>12. interrupts' \in 0 .. MaxInterrupts /\ interrupts' >= interrupts
  BY <1>1, RunFields DEF Types
<1>13. Ends(m)
  BY <1>2, <1>7, <1>8, <1>9, <1>10, <1>11, <1>12 DEF Ends, old
<1> QED BY <1>13, EndsOK

\* A failure at any call of the run rolls back, and keeps the invariant.
LEMMA StopsOK ==
  ASSUME Inv, NEW m \in Migrator, Stops(m),
         faults' \in 0 .. MaxFaults, interrupts' = interrupts
  PROVE  StepOK(m)
BY SetupStopsOK, FileStopsOK DEF Stops, InLoop

\* The process dies: its transaction goes, and the committed state stays.
LEMMA CrashOK ==
  ASSUME Inv, NEW m \in Migrator, Crash(m)
  PROVE  StepOK(m)
<1>1. Types
  BY DEF Inv
<1>2. /\ run' \in [Migrator -> Runs] /\ run'[m] = Idle
      /\ \A u \in Migrator \ {m} : run'[u] = run[u]
  <2>1. Idle \in Runs
    BY DEF Idle, Runs, Points
  <2> QED BY <1>1, <2>1 DEF Crash, Types
<1>3. /\ run'[m].at = "idle" /\ run'[m].results = <<>> /\ run'[m].restore = FALSE
      /\ run'[m].outcome = "none"
  BY <1>2 DEF Idle
<1>4. /\ fk' \in [Migrator -> BOOLEAN] /\ fk'[m] = (m \in Enforced)
      /\ \A u \in Migrator \ {m} : fk'[u] = fk[u]
  BY <1>1 DEF Crash, Types
<1>5. /\ timeout' \in [Migrator -> {"caller", "run"}] /\ timeout'[m] = "caller"
      /\ \A u \in Migrator \ {m} : timeout'[u] = timeout[u]
  BY <1>1 DEF Crash, Types
<1>6. /\ faults' \in 0 .. MaxFaults /\ interrupts' \in 0 .. MaxInterrupts
      /\ interrupts' >= interrupts /\ RolledBack(m)
  BY <1>1, RunFields DEF Crash, Types
<1>7. Ends(m)
  BY <1>2, <1>3, <1>4, <1>5, <1>6 DEF Ends
<1> QED BY <1>7, EndsOK

\* An interrupted run gives back less, but it reports and commits nothing new.
LEMMA InterruptOK ==
  ASSUME Inv, NEW m \in Migrator, Interrupt(m)
  PROVE  StepOK(m)
<1>1. Types
  BY DEF Inv
<1>2. /\ Returns(m, run[m].results, "raised") /\ interrupts' = interrupts + 1
      /\ interrupts' \in 0 .. MaxInterrupts /\ interrupts' > 0
      /\ interrupts' >= interrupts /\ faults' = faults
  BY <1>1, RunFields DEF Interrupt
<1>3. /\ run' \in [Migrator -> Runs]
      /\ \A u \in Migrator \ {m} : run'[u] = run[u]
      /\ run'[m].at = "idle" /\ run'[m].results = run[m].results
      /\ run'[m].restore = FALSE /\ run'[m].outcome = "raised"
      /\ run'[m].first = run[m].first
  <2>1. \A r \in Runs : \A q \in Seq(Statuses) :
          [r EXCEPT !.at = "idle", !.results = q, !.outcome = "raised", !.restore = FALSE]
            \in Runs
    BY DEF Runs, Points
  <2> DEFINE q == run[m].results
  <2>2. q \in Seq(Statuses)
    BY <1>1, RunFields
  <2>3. run' = [run EXCEPT ![m] = [run[m] EXCEPT !.at = "idle", !.results = q,
                                                 !.outcome = "raised", !.restore = FALSE]]
    BY <1>1, <1>2 DEF Types, Returns
  <2> HIDE DEF q
  <2>4. run' \in [Migrator -> Runs]
    BY <1>1, <2>1, <2>2, <2>3, RunFields DEF Types
  <2>5. run'[m] = [run[m] EXCEPT !.at = "idle", !.results = q,
                                 !.outcome = "raised", !.restore = FALSE]
    BY <1>1, <2>3 DEF Types
  <2>6. /\ \A u \in Migrator \ {m} : run'[u] = run[u]
        /\ run'[m].at = "idle" /\ run'[m].results = q
        /\ run'[m].restore = FALSE /\ run'[m].outcome = "raised"
        /\ run'[m].first = run[m].first
    BY <1>1, <2>3, <2>5, RunFields DEF Types, Runs
  <2> QED BY <2>4, <2>6 DEF q
<1>4. /\ timeout' \in [Migrator -> {"caller", "run"}] /\ timeout'[m] = "caller"
      /\ \A u \in Migrator \ {m} : timeout'[u] = timeout[u]
  BY <1>1, <1>2 DEF Returns, Types
<1>5. /\ fk' \in [Migrator -> BOOLEAN]
      /\ \A u \in Migrator \ {m} : fk'[u] = fk[u]
      /\ RolledBack(m) \/ UNCHANGED <<db, work, lock>>
  <2>1. CASE run[m].at \in {"setup", "read", "next"} /\ UNCHANGED <<db, work, lock, fk>>
    BY <1>1, <2>1 DEF Types
  <2>2. CASE run[m].at \in InFile /\ RolledBack(m) /\ Restored(m)
    BY <1>1, <2>2, RunFields DEF Types, Restored
  <2>3. CASE /\ run[m].at = "next"
             /\ fk' = [fk EXCEPT ![m] = @ /\ Current(m).fk]
             /\ UNCHANGED <<db, work, lock>>
    <3>1. Current(m).fk \in BOOLEAN
      <4>1. Index(m) \in DOMAIN Shipped[m]
        BY <2>3 DEF Inv, MigInv, RunInv, InLoop
      <4> QED BY <4>1, ShippedFiles, FileFields DEF Current
    <3> QED BY <1>1, <2>3, <3>1 DEF Types
  <2> QED BY <2>1, <2>2, <2>3 DEF Interrupt, InFile
<1>6. Ends(m)
  BY <1>1, <1>2, <1>3, <1>4, <1>5 DEF Ends, Types
<1> QED BY <1>6, EndsOK

\* An interrupt in the setup keeps the lock, which QuietInv excuses.
LEMMA InterruptEarlyOK ==
  ASSUME Inv, NEW m \in Migrator, InterruptEarly(m)
  PROVE  StepOK(m)
<1>1. Types /\ ReportInv(m)
  BY DEF Inv, MigInv
<1>2. /\ run' = [run EXCEPT ![m].at = "idle", ![m].outcome = "raised"]
      /\ interrupts' = interrupts + 1 /\ interrupts' \in 0 .. MaxInterrupts
      /\ interrupts' > 0 /\ interrupts' >= interrupts /\ faults' = faults
      /\ db' = db /\ work' = work /\ lock' = lock /\ fk' = fk /\ timeout' = timeout
  BY <1>1, RunFields DEF InterruptEarly, settings
<1>3. /\ run' \in [Migrator -> Runs]
      /\ \A u \in Migrator \ {m} : run'[u] = run[u]
      /\ run'[m].at = "idle" /\ run'[m].results = run[m].results
      /\ run'[m].outcome = "raised" /\ run'[m].first = run[m].first
  <2> DEFINE r == [run[m] EXCEPT !.at = "idle", !.outcome = "raised"]
  <2>1. run[m] \in Runs
    BY <1>1, RunFields
  <2>2. /\ r \in Runs /\ r.at = "idle" /\ r.results = run[m].results
        /\ r.outcome = "raised" /\ r.first = run[m].first
    BY <2>1 DEF Runs, Points
  <2>3. run' = [run EXCEPT ![m] = r]
    BY <1>1, <1>2 DEF Types
  <2> HIDE DEF r
  <2>4. /\ run' \in [Migrator -> Runs] /\ run'[m] = r
        /\ \A u \in Migrator \ {m} : run'[u] = run[u]
    BY <1>1, <2>2, <2>3, RunPut
  <2> QED BY <2>2, <2>4
<1>4. Types'
  BY <1>1, <1>2, <1>3 DEF Types
<1>5. Frame(m)
  BY <1>2, <1>3 DEF Frame
<1>6. RunInv(m)' /\ HeldInv(m)'
  BY <1>3 DEF RunInv, HeldInv, InLoop, InTransaction
<1>7. ReportInv(m)'
  BY <1>1, <1>2, <1>3 DEF ReportInv, InLoop
<1>8. QuietInv(m)' /\ Sound'
  BY <1>2 DEF QuietInv, Sound
<1>9. Honest(db.rows)' /\ HistoryStep
  BY <1>2 DEF Inv, HistoryStep
<1> QED BY <1>4, <1>5, <1>6, <1>7, <1>8, <1>9 DEF StepOK, MigInv

-----------------------------------------------------------------------------
(* The invariant and what follows from it.                                 *)

\* The first state satisfies the invariant.
LEMMA InitOK == Init => Inv
<1> SUFFICES ASSUME Init PROVE Inv
  OBVIOUS
<1>1. Types
  <2>1. Idle \in Runs
    BY DEF Idle, Runs, Points
  <2>2. Empty \in Databases
    BY DEF Empty, Databases
  <2> QED BY <2>1, <2>2, SqliteAssumption DEF Init, Types
<1>2. db.rows = <<>> /\ ~db.broken
  BY DEF Init, Empty
<1>3. Honest(db.rows)
  <2>1. ASSUME NEW m \in Migrator PROVE HoldsFirst(Shipped[m], <<>>)
    BY ShippedFiles DEF HoldsFirst
  <2> QED BY <1>2, <2>1 DEF Honest
<1>4. ASSUME NEW m \in Migrator PROVE MigInv(m)
  <2>1. /\ run[m].at = "idle" /\ run[m].results = <<>> /\ run[m].restore = FALSE
        /\ run[m].outcome = "none" /\ fk[m] = (m \in Enforced)
        /\ timeout[m] = "caller" /\ lock # m
    BY OwnerAssumption DEF Init, Idle
  <2> QED BY <2>1 DEF MigInv, RunInv, HeldInv, ReportInv, QuietInv, InLoop, InTransaction
<1> QED BY <1>1, <1>2, <1>3, <1>4 DEF Inv, Sound

\* Every action of every migrator keeps it.
LEMMA NextOK ==
  ASSUME Inv, NEW m \in Migrator,
         \/ Start(m) \/ Steps(m) \/ Fails(m) \/ Crash(m)
         \/ Interrupt(m) \/ InterruptEarly(m)
  PROVE  StepOK(m) \/ UNCHANGED vars
<1>1. Types
  BY DEF Inv
<1>2. /\ faults \in 0 .. MaxFaults
      /\ UNCHANGED budget => faults' = faults /\ interrupts' = interrupts
      /\ Fails(m) => faults' \in 0 .. MaxFaults /\ interrupts' = interrupts
  BY <1>1, RunFields DEF Types, budget, Fails
<1>3. CASE SetupRefused(m)
  BY <1>2, <1>3, SetupStopsOK DEF SetupRefused
<1>4. CASE FileRefused(m)
  BY <1>2, <1>4, FileStopsOK DEF FileRefused, InLoop
<1>5. CASE BusyTimeout(m)
  BY <1>2, <1>5, StopsOK DEF BusyTimeout
<1>6. CASE Fails(m)
  BY <1>2, <1>6, StopsOK DEF Fails
<1>7. CASE Start(m) \/ BeginSetup(m) \/ Setup(m) \/ OpenFile(m) \/ BeginFile(m)
  BY <1>7, StartOK, BeginSetupOK, SetupOK, OpenFileOK, BeginFileOK
<1>8. CASE SkipFile(m) \/ EnterFile(m) \/ Execute(m) \/ CommitFile(m)
  BY <1>8, SkipFileOK, EnterFileOK, ExecuteOK, CommitFileOK
<1>9. CASE Crash(m) \/ Interrupt(m) \/ InterruptEarly(m)
  BY <1>9, CrashOK, InterruptOK, InterruptEarlyOK
<1> QED BY <1>3, <1>4, <1>5, <1>6, <1>7, <1>8, <1>9 DEF Steps

\* The invariant is inductive, and every step is one of the history's.
LEMMA InvStep == Inv /\ [Next]_vars => Inv' /\ HistoryStep
<1> SUFFICES ASSUME Inv, [Next]_vars PROVE Inv' /\ HistoryStep
  OBVIOUS
<1>1. CASE UNCHANGED vars
  <2>1. /\ db' = db /\ work' = work /\ lock' = lock /\ run' = run /\ fk' = fk
        /\ timeout' = timeout /\ faults' = faults /\ interrupts' = interrupts
    BY <1>1 DEF vars
  <2>2. Types' /\ Sound' /\ Honest(db'.rows) /\ HistoryStep
    BY <2>1 DEF Inv, Types, Sound, HistoryStep
  <2>3. ASSUME NEW m \in Migrator PROVE MigInv(m)'
    <3>1. Index(m)' = Index(m) /\ Current(m)' = Current(m)
      BY <2>1 DEF Index, Current
    <3>2. RunInv(m)' /\ ReportInv(m)'
      BY <2>1, <3>1 DEF Inv, MigInv, RunInv, ReportInv
    <3>3. HeldInv(m)'
      BY <2>1, <3>1 DEF Inv, MigInv, HeldInv, Partway
    <3>4. QuietInv(m)'
      BY <2>1, <3>1 DEF Inv, MigInv, QuietInv
    <3> QED BY <3>2, <3>3, <3>4 DEF MigInv
  <2> QED BY <2>2, <2>3 DEF Inv
<1>2. CASE \E m \in Migrator : StepOK(m)
  <2>1. PICK m \in Migrator : StepOK(m)
    BY <1>2
  <2>2. \A u \in Migrator : MigInv(u)'
    BY <2>1, OthersKeep DEF StepOK
  <2> QED BY <2>1, <2>2 DEF StepOK, Inv
<1> QED BY <1>1, <1>2, NextOK DEF Next

\* The inductive invariant of the migrator.
THEOREM MigratorInvariant == Spec => []Inv
BY InitOK, InvStep, PTL DEF Spec

\* migrate_to_latest (85-125): its variables keep their types, and its loop
\* never runs past the provider's files.
THEOREM MigratorTypes == Spec => []TypeOK
<1>1. Inv => TypeOK
  BY DEF Inv, Types, TypeOK, MigInv, RunInv, InLoop
<1> QED BY <1>1, MigratorInvariant, PTL

\* _apply: whatever fails and however the processes interleave, the committed
\* schema and history change together, one whole next file at a time.
THEOREM HistoryRefined == Spec => ImplementsHistory
<1>1. Init => History!HistoryInit
  BY DEF Init, Empty, History!HistoryInit
<1>2. Inv /\ [Next]_vars => [History!HistoryNext]_<<db.rows, db.schema>>
  BY InvStep DEF HistoryStep
<1> QED BY <1>1, <1>2, MigratorInvariant, PTL DEF Spec, ImplementsHistory, History!Spec

\* The report of migrate_to_latest: a file it calls Success is committed, and a
\* run without an error leaves nothing pending, also after later runs.
THEOREM ReportsTrue == Spec => []ReportsHold
<1>1. Inv => ReportsHold
  BY DEF Inv, MigInv, ReportInv, ReportsHold
<1> QED BY <1>1, MigratorInvariant, PTL

\* How each action of m leaves the lock when the run is over.
LEMMA LockOfEnd ==
  ASSUME Inv, NEW m \in Migrator, run[m].at # "idle", run'[m].at = "idle", lock' = m,
         \/ Start(m) \/ Steps(m) \/ Fails(m) \/ Crash(m)
         \/ Interrupt(m) \/ InterruptEarly(m)
  PROVE  run[m].at = "read" /\ interrupts' > interrupts
<1>1. Types /\ RunInv(m) /\ HeldInv(m)
  BY DEF Inv, MigInv
<1>2. run \in [Migrator -> Runs] /\ interrupts \in Nat
  BY <1>1, RunFields DEF Types
<1>3. ~RolledBack(m) /\ \A d : ~Committed(d)
  BY OwnerAssumption DEF RolledBack, Committed
<1>4. CASE Start(m) \/ BeginSetup(m) \/ OpenFile(m) \/ BeginFile(m) \/ EnterFile(m)
             \/ Execute(m)
  <2>1. CASE Start(m)
    BY <2>1 DEF Start
  <2>2. CASE BeginSetup(m) \/ BeginFile(m) \/ EnterFile(m)
    <3>1. PICK at \in {"read", "check", "run"} : Goes(m, at)
      BY <2>2 DEF BeginSetup, BeginFile, EnterFile
    <3>2. run[m] \in Runs /\ at \in Points
      BY <1>2 DEF Points
    <3>3. run'[m] = [run[m] EXCEPT !.at = at]
      BY <1>1, <3>1, <3>2, GoesPut
    <3>4. run'[m].at = at
      BY <3>2, <3>3 DEF Runs
    <3> QED BY <3>4
  <2>3. CASE OpenFile(m)
    <3>1. run'[m].at = "apply"
      BY <1>2, <2>3 DEF OpenFile
    <3> QED BY <3>1
  <2>4. CASE Execute(m)
    <3>1. run'[m].at = run[m].at
      BY <1>2, <2>4 DEF Execute
    <3> QED BY <3>1
  <2> QED BY <1>4, <2>1, <2>2, <2>3, <2>4
<1>5. CASE Setup(m) \/ SkipFile(m) \/ CommitFile(m)
  BY <1>3, <1>5 DEF Setup, SkipFile, CommitFile
<1>6. CASE SetupRefused(m) \/ FileRefused(m) \/ BusyTimeout(m) \/ Fails(m) \/ Crash(m)
  BY <1>3, <1>6
     DEF SetupRefused, FileRefused, BusyTimeout, Fails, Crash, Stops, SetupStops, FileStops
<1>7. CASE Interrupt(m)
  BY <1>1, <1>2, <1>3, <1>7 DEF Interrupt, HeldInv
<1>8. CASE InterruptEarly(m)
  BY <1>1, <1>8 DEF InterruptEarly, HeldInv
<1> QED BY <1>4, <1>5, <1>6, <1>7, <1>8 DEF Steps

\* A step of another migrator ends no run of m's.
LEMMA LockLeft ==
  ASSUME Inv, [Next]_vars, NEW m \in Migrator,
         run[m].at # "idle", run'[m].at = "idle", lock' = m
  PROVE  run[m].at = "read" /\ interrupts' > interrupts
<1>1. CASE UNCHANGED vars
  BY <1>1 DEF vars
<1>2. CASE Next
  <2>1. PICK u \in Migrator : \/ Start(u) \/ Steps(u) \/ Fails(u) \/ Crash(u)
                              \/ Interrupt(u) \/ InterruptEarly(u)
    BY <1>2 DEF Next
  <2>2. CASE u = m
    BY <2>1, <2>2, LockOfEnd
  <2>3. CASE u # m
    BY <2>1, <2>3, NextOK DEF StepOK, Frame, vars
  <2> QED BY <2>2, <2>3
<1> QED BY <1>1, <1>2

\* The rollbacks of _migrate and _apply: a run that ends leaves no lock, unless
\* KeyboardInterrupt hits its first transaction.
THEOREM LocksGivenBack == Spec => LockReleased
<1>1. Inv /\ [Next]_vars =>
        \A m \in Migrator :
          run[m].at # "idle" /\ run'[m].at = "idle" /\ lock' = m =>
            run[m].at = "read" /\ interrupts' > interrupts
  BY LockLeft
<1> QED BY <1>1, MigratorInvariant, PTL DEF Spec, LockReleased

\* The finally clauses of migrate_to_latest and _apply: until a first
\* KeyboardInterrupt, the caller's busy_timeout and enforcement come back.
THEOREM SettingsGivenBack == Spec => [](interrupts = 0 => SettingsRestored)
<1>1. Inv => (interrupts = 0 => SettingsRestored)
  BY DEF Inv, MigInv, QuietInv, SettingsRestored, InFile
<1> QED BY <1>1, MigratorInvariant, PTL

\* PRAGMA foreign_key_check and the enforcement that _apply restores: until a
\* first KeyboardInterrupt, no committed schema violates a foreign key.
THEOREM ForeignKeysKept == Spec => [](interrupts = 0 => ForeignKeysHold)
<1>1. Inv => (interrupts = 0 => ForeignKeysHold)
  BY DEF Inv, Sound, ForeignKeysHold
<1> QED BY <1>1, MigratorInvariant, PTL

-----------------------------------------------------------------------------
(* Every run goes forward.                                                 *)

\* A run that its step takes to another point of the same file.
LEMMA SameFile ==
  ASSUME Inv, NEW m \in Migrator, run[m].at \in InLoop, run'[m].at \in InLoop,
         run'[m].first = run[m].first, run'[m].results = run[m].results
  PROVE  /\ FilesLeft(m)' = FilesLeft(m)
         /\ Current(m)' = Current(m) /\ Len(Current(m).stmts) \in Nat
<1>1. Types /\ RunInv(m) /\ Index(m) \in DOMAIN Shipped[m]
  BY DEF Inv, MigInv, RunInv
<1>2. Index(m)' = Index(m) /\ Current(m)' = Current(m)
  BY DEF Index, Current
<1>3. Len(Current(m).stmts) \in Nat
  BY <1>1, ShippedFiles, FileFields DEF Current
<1> QED BY <1>2, <1>3 DEF FilesLeft, InLoop

\* A call inside a file leaves fewer calls, and as many files.
LEMMA CallsFewer ==
  ASSUME Inv, NEW m \in Migrator,
         OpenFile(m) \/ BeginFile(m) \/ EnterFile(m) \/ Execute(m)
  PROVE  Nearer(m)
<1>1. Types /\ RunInv(m) /\ run[m] \in Runs /\ run \in [Migrator -> Runs]
  BY RunFields DEF Inv, MigInv, Types
<1>2. run'[m].first = run[m].first /\ run'[m].results = run[m].results
  BY <1>1 DEF OpenFile, BeginFile, EnterFile, Execute, Goes, Runs
<1>3. \/ run[m].at = "next" /\ run'[m].at = "apply"
      \/ run[m].at = "apply" /\ run'[m].at = "check"
      \/ run[m].at = "check" /\ run'[m].at = "run" /\ run'[m].stmt = run[m].stmt
      \/ /\ run[m].at = "run" /\ run'[m].at = "run"
         /\ ~Executed(m) /\ run'[m].stmt = run[m].stmt + 1
  BY <1>1 DEF OpenFile, BeginFile, EnterFile, Execute, Goes, Runs
<1>4. /\ FilesLeft(m)' = FilesLeft(m) /\ Current(m)' = Current(m)
      /\ Len(Current(m).stmts) \in Nat
  BY <1>2, <1>3, SameFile DEF InLoop
<1>5. CASE run[m].at = "next" /\ run'[m].at = "apply"
  BY <1>4, <1>5 DEF Nearer, CallsLeft
<1>6. CASE run[m].at = "apply" /\ run'[m].at = "check"
  BY <1>4, <1>6 DEF Nearer, CallsLeft
<1>7. CASE run[m].at = "check" /\ run'[m].at = "run" /\ run'[m].stmt = run[m].stmt
  BY <1>1, <1>4, <1>7 DEF Nearer, CallsLeft, RunInv
<1>8. CASE /\ run[m].at = "run" /\ run'[m].at = "run"
           /\ ~Executed(m) /\ run'[m].stmt = run[m].stmt + 1
  <2>1. run[m].stmt \in 1 .. Len(Current(m).stmts)
    BY <1>1, <1>4, <1>8 DEF RunInv, Executed
  <2>2. CallsLeft(m) = Len(Current(m).stmts) + 2 - run[m].stmt
    BY <1>8 DEF CallsLeft
  <2>3. CallsLeft(m)' = Len(Current(m)'.stmts) + 2 - run'[m].stmt
    BY <1>8 DEF CallsLeft
  <2>4. CallsLeft(m)' = Len(Current(m).stmts) + 2 - (run[m].stmt + 1)
    BY <1>4, <1>8, <2>3
  <2>5. CallsLeft(m)' \in 0 .. CallsLeft(m) - 1
    BY <1>4, <2>1, <2>2, <2>4
  <2> QED BY <1>4, <2>5 DEF Nearer
<1> QED BY <1>3, <1>5, <1>6, <1>7, <1>8

\* A run that its step takes to the next file, or to the first.
LEMMA FilesFewer ==
  ASSUME Inv, NEW m \in Migrator, RunInv(m)', Types', run'[m].at = "next",
         \/ run[m].at \in {"setup", "read"}
         \/ run[m].at \in InLoop /\ Index(m)' = Index(m) + 1
  PROVE  Nearer(m)
<1>1. Types /\ RunInv(m) /\ run[m] \in Runs /\ Shipped[m] \in Seq(File)
  BY ShippedFiles, RunFields DEF Inv, MigInv
<1>2. Index(m) \in Nat /\ Len(Shipped[m]) \in Nat /\ DOMAIN Shipped[m] = 1 .. Len(Shipped[m])
  BY <1>1, RunFields
<1>3. Index(m)' \in 1 .. Len(Shipped[m])
  BY <1>2 DEF RunInv, InLoop
<1>4. FilesLeft(m)' = Len(Shipped[m]) - Index(m)'
  BY DEF FilesLeft
<1>5. FilesLeft(m)' \in 0 .. FilesLeft(m) - 1
  <2>1. CASE run[m].at \in {"setup", "read"}
    BY <1>2, <1>3, <1>4, <2>1 DEF FilesLeft
  <2>2. CASE run[m].at \in InLoop /\ Index(m)' = Index(m) + 1
    BY <1>2, <1>3, <1>4, <2>2 DEF FilesLeft, InLoop
  <2> QED BY <2>1, <2>2
<1>6. Len(Current(m)'.stmts) \in Nat
  BY <1>1, <1>2, <1>3, FileFields DEF Current
<1>7. CallsLeft(m)' \in Nat
  BY <1>6 DEF CallsLeft
<1> QED BY <1>5, <1>7 DEF Nearer

\* The end of one file is the end of the run or the start of the next file.
LEMMA FileEndsNearer ==
  ASSUME Inv, NEW m \in Migrator, run[m].at \in InLoop, NEW status \in Statuses,
         FileEnds(m, status), RunInv(m)', Types'
  PROVE  Nearer(m)
<1>1. Types /\ run[m] \in Runs /\ run \in [Migrator -> Runs]
  BY RunFields DEF Inv, Types
<1> DEFINE results == Append(run[m].results, status)
<1>2. results \in Seq(Statuses) /\ Len(results) = Len(run[m].results) + 1
  BY <1>1 DEF Runs
<1>3. CASE Index(m) = Len(Shipped[m])
  <2>1. run' = [run EXCEPT ![m].at = "idle", ![m].results = results,
                           ![m].outcome = "ok", ![m].restore = FALSE]
    BY <1>3 DEF FileEnds, Returns
  <2> HIDE DEF results
  <2>2. run'[m].at = "idle"
    BY <1>1, <2>1 DEF Runs
  <2> QED BY <2>2 DEF Nearer
<1>4. CASE Index(m) # Len(Shipped[m])
  <2>1. run' = [run EXCEPT ![m].at = "next", ![m].results = results, ![m].restore = FALSE]
    BY <1>4 DEF FileEnds
  <2> HIDE DEF results
  <2>2. run'[m].at = "next" /\ run'[m].first = run[m].first /\ run'[m].results = results
    BY <1>1, <2>1 DEF Runs
  <2>3. Index(m)' = Index(m) + 1
    <3>1. run[m].first \in Nat /\ Len(run[m].results) \in Nat
      BY <1>1 DEF Runs
    <3>2. Len(results) = Len(run[m].results) + 1
      BY <1>2 DEF results
    <3> QED BY <2>2, <3>1, <3>2 DEF Index
  <2> QED BY <2>2, <2>3, FilesFewer
<1> QED BY <1>3, <1>4

\* Setup ends the run or takes it to the first pending file; the transaction
\* before it has its BEGIN behind it.
LEMMA SetupNearer ==
  ASSUME Inv, NEW m \in Migrator, BeginSetup(m) \/ Setup(m), RunInv(m)', Types'
  PROVE  Nearer(m)
<1>1. /\ Types /\ run[m] \in Runs /\ run \in [Migrator -> Runs]
      /\ Shipped[m] \in Seq(File) /\ Len(Shipped[m]) \in Nat
  BY ShippedFiles, RunFields DEF Inv, Types
<1>2. CASE BeginSetup(m)
  <2>1. run[m].at = "setup" /\ run'[m].at = "read"
    BY <1>1, <1>2 DEF BeginSetup, Goes, Runs
  <2> QED BY <1>1, <2>1 DEF Nearer, FilesLeft, CallsLeft
<1>3. CASE Setup(m)
  <2>1. run[m].at = "read" /\ run'[m].at \in {"idle", "next"}
    BY <1>1, <1>3 DEF Setup, Returns, Runs
  <2>2. CASE run'[m].at = "next"
    BY <2>1, <2>2, FilesFewer
  <2> QED BY <2>1, <2>2 DEF Nearer
<1> QED BY <1>2, <1>3

\* What ends a run, for whatever reason.
LEMMA OverNearer ==
  ASSUME Inv, NEW m \in Migrator,
         \/ SetupRefused(m) \/ FileRefused(m) \/ BusyTimeout(m)
         \/ Fails(m) \/ Crash(m) \/ Interrupt(m) \/ InterruptEarly(m)
  PROVE  Nearer(m)
<1>1. run[m] \in Runs /\ run \in [Migrator -> Runs]
  BY RunFields DEF Inv, Types
<1>2. ASSUME NEW results, NEW outcome, Returns(m, results, outcome) PROVE run'[m].at = "idle"
  BY <1>1, <1>2 DEF Returns, Runs
<1>3. ASSUME Stops(m) \/ SetupStops(m) \/ FileStops(m) PROVE run'[m].at = "idle"
  BY <1>2, <1>3 DEF Stops, SetupStops, FileStops
<1>4. CASE SetupRefused(m) \/ FileRefused(m) \/ BusyTimeout(m) \/ Fails(m)
  BY <1>3, <1>4 DEF SetupRefused, FileRefused, BusyTimeout, Fails, Nearer
<1>5. CASE Crash(m)
  BY <1>1, <1>5 DEF Crash, Idle, Nearer
<1>6. CASE Interrupt(m)
  BY <1>2, <1>6 DEF Interrupt, Nearer
<1>7. CASE InterruptEarly(m)
  BY <1>1, <1>7 DEF InterruptEarly, Runs, Nearer
<1> QED BY <1>4, <1>5, <1>6, <1>7

\* The loop of migrate_to_latest and _apply: every call of a run, and every
\* failure, ends it or brings it nearer to its end, by a rank that cannot fall
\* for ever, and no other migrator's step sets it back.
THEOREM EveryCallProgresses == Spec => RunsProgress
<1> DEFINE Progress == \A m \in Migrator : run[m].at # "idle" =>
                         (Steps(m) \/ run'[m] # run[m] => Nearer(m))
<1>1. ASSUME Inv, Next, ~UNCHANGED vars PROVE Progress
  <2>1. PICK u \in Migrator : \/ Start(u) \/ Steps(u) \/ Fails(u) \/ Crash(u)
                              \/ Interrupt(u) \/ InterruptEarly(u)
    BY <1>1 DEF Next
  <2>2. CASE StepOK(u)
    <3> SUFFICES ASSUME NEW m \in Migrator, run[m].at # "idle",
                        Steps(m) \/ run'[m] # run[m]
                 PROVE  Nearer(m)
      OBVIOUS
    <3>1. Inv'
      BY <1>1, InvStep
    <3>2. RunInv(m)' /\ Types'
      BY <3>1 DEF Inv, MigInv
    <3>3. \/ Steps(m) \/ Fails(m) \/ Crash(m)
          \/ Interrupt(m) \/ InterruptEarly(m)
      <4>1. m # u => run'[m] = run[m]
        BY <2>2 DEF StepOK, Frame
      <4>2. ~Start(m)
        BY DEF Start
      <4> QED BY <2>1, <4>1, <4>2
    <3>4. CASE Steps(m)
      <4>1. CASE BeginSetup(m) \/ Setup(m)
        BY <1>1, <3>2, <4>1, SetupNearer
      <4>2. CASE OpenFile(m) \/ BeginFile(m) \/ EnterFile(m) \/ Execute(m)
        BY <1>1, <4>2, CallsFewer
      <4>3. CASE SkipFile(m) \/ CommitFile(m)
        BY <1>1, <3>2, <4>3, FileEndsNearer DEF SkipFile, CommitFile, InLoop, Statuses
      <4>4. CASE SetupRefused(m) \/ FileRefused(m) \/ BusyTimeout(m)
        BY <1>1, <4>4, OverNearer
      <4> QED BY <3>4, <4>1, <4>2, <4>3, <4>4 DEF Steps
    <3>5. CASE Fails(m) \/ Crash(m) \/ Interrupt(m) \/ InterruptEarly(m)
      BY <1>1, <3>5, OverNearer
    <3> QED BY <3>3, <3>4, <3>5
  <2> QED BY <1>1, <2>1, <2>2, NextOK
<1>2. Inv /\ [Next]_vars => [Progress]_vars
  BY <1>1
<1> QED BY <1>2, MigratorInvariant, PTL DEF Spec, RunsProgress

=============================================================================
