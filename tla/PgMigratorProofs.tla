--------------------------- MODULE PgMigratorProofs ---------------------------
(***************************************************************************)
(* Theorems about PostgresMigrator, for any packages, any number of        *)
(* migrators, and any faults and cancellations.                            *)
(*                                                                         *)
(* The inductive invariant Inv has one part per concern of a migrator:     *)
(* PinInv says that every session that has run keeps its history in Home,  *)
(* HeldInv what holds while the advisory lock of Home is held, ReportInv   *)
(* what a report may claim, and QuietInv what a run gives back as long as  *)
(* nothing is cancelled.  Exclusive is the lock's own promise; a step of   *)
(* one migrator leaves the others' parts alone because of it (Frame).      *)
(***************************************************************************)
EXTENDS PgMigrator, MigrationFilesProofs

Outcomes == {"none", "ok", "error", "raised"}
InLoop == {"begin", "run"}
Locking == {"setup", "begin", "run", "unlock"}
OneLock == [NoLocks EXCEPT ![Home] = 1]

Types ==
  /\ db \in Databases
  /\ held \in [Migrator -> [Schema -> Nat]]
  /\ session \in [Migrator -> Sessions]
  /\ run \in [Migrator -> Runs]
  /\ faults \in 0 .. MaxFaults /\ cancels \in 0 .. MaxCancels

PinInv(m) ==
  /\ session[m].pinned \in {Home, Unpinned}
  /\ session[m].pinned = Unpinned => session[m].path = Home /\ run[m].at = "idle"

RunInv(m) ==
  /\ run[m].at \in {"lock", "setup"} => run[m].results = <<>>
  /\ run[m].at \in InLoop => Index(m) \in DOMAIN Shipped[m] /\ run[m].first >= 1

HeldInv(m) ==
  /\ run[m].at \in Locking => held[m][Home] >= 1
  /\ run[m].at \in InLoop => HoldsFirst(Shipped[m], db.rows[Home])
                             /\ Len(db.rows[Home]) + 1 = Index(m)
  /\ run[m].at = "run" =>
       /\ Len(run[m].ran) <= Len(Current(m).stmts)
       /\ run[m].ran = SubSeq(Whole(Current(m)), 1, Len(run[m].ran))

ReportInv(m) ==
  /\ \A i \in DOMAIN run[m].results :
       run[m].results[i] = "Success" =>
         IsApplied(Shipped[m][run[m].first + i - 1], db.rows[Home])
  /\ run[m].outcome = "ok" =>
       \A i \in DOMAIN Shipped[m] : IsApplied(Shipped[m][i], db.rows[Home])

QuietInv(m) ==
  cancels = 0 =>
    /\ run[m].at # "run" => session[m].open = FALSE
    /\ held[m] = (IF run[m].at \in Locking THEN OneLock ELSE NoLocks)

MigInv(m) == PinInv(m) /\ RunInv(m) /\ HeldInv(m) /\ ReportInv(m) /\ QuietInv(m)

Exclusive == \A m, n \in Migrator : m # n => held[m][Home] = 0 \/ held[n][Home] = 0

Inv == /\ Types /\ Exclusive /\ Honest(db.rows[Home])
       /\ \A m \in Migrator : MigInv(m)

\* What a step of m may touch of the others.
Frame(m) ==
  /\ \A u \in Migrator \ {m} :
       /\ run'[u] = run[u] /\ session'[u] = session[u] /\ held'[u] = held[u]
       /\ held[u][Home] > 0 => db' = db
       /\ held[u][Home] > 0 /\ held[m][Home] = 0 => held'[m][Home] = 0
  /\ \A f : IsApplied(f, db.rows[Home]) => IsApplied(f, db'.rows[Home])
  /\ cancels' >= cancels

HistoryStep == [Promise!HistoryNext]_<<db.rows[Home], db.schema>>

StepOK(m) == Types' /\ Honest(db.rows[Home])' /\ Frame(m) /\ MigInv(m)' /\ HistoryStep

-----------------------------------------------------------------------------
(* The fields of a state, and a step that leaves the others alone.         *)

\* The types of the fields of m's run.
LEMMA RunFields ==
  ASSUME Types, NEW m \in Migrator
  PROVE  /\ run[m] \in Runs /\ run[m].at \in Points /\ run[m].first \in Nat
         /\ run[m].results \in Seq(Statuses) /\ Len(run[m].results) \in Nat
         /\ run[m].ran \in Seq(Nat \X Nat \X Nat) /\ Len(run[m].ran) \in Nat
         /\ run[m].path \in Schema
         /\ Index(m) = run[m].first + Len(run[m].results) /\ Index(m) \in Nat
         /\ run[m].outcome \in Outcomes
<1>1. run[m] \in Runs
  BY DEF Types
<1>2. /\ run[m].first \in Nat /\ run[m].results \in Seq(Statuses)
      /\ run[m].ran \in Seq(Nat \X Nat \X Nat)
  BY <1>1 DEF Runs
<1>3. Index(m) = run[m].first + Len(run[m].results) /\ Index(m) \in Nat
  BY <1>2 DEF Index
<1> QED BY <1>1, <1>2, <1>3 DEF Runs, Outcomes

\* The types of the database, m's locks and session, and the budgets.
LEMMA DbFields ==
  ASSUME Types, NEW m \in Migrator
  PROVE  /\ db \in Databases /\ db.rows \in [Schema -> Seq(Rows)]
         /\ db.rows[Home] \in Seq(Rows) /\ Len(db.rows[Home]) \in Nat
         /\ db.schema \in Seq(Nat \X Nat \X Nat)
         /\ held[m] \in [Schema -> Nat] /\ held[m][Home] \in Nat /\ Home \in Schema
         /\ session[m] \in Sessions /\ session[m].path \in Schema
         /\ session[m].pinned \in Schema \union {Unpinned} /\ session[m].open \in BOOLEAN
         /\ faults \in Nat /\ MaxFaults \in Nat /\ cancels \in Nat /\ MaxCancels \in Nat
<1>1. db \in Databases /\ session[m] \in Sessions /\ held[m] \in [Schema -> Nat]
  BY DEF Types
<1>2. db.rows \in [Schema -> Seq(Rows)] /\ db.schema \in Seq(Nat \X Nat \X Nat)
  BY <1>1 DEF Databases
<1>3. db.rows[Home] \in Seq(Rows) /\ Home \in Schema
  BY <1>2, PgAssumption
<1> QED BY <1>1, <1>2, <1>3, PgAssumption DEF Types, Sessions

\* A migrator at work reads and writes the history of Home.
LEMMA TableHome ==
  ASSUME Inv, NEW m \in Migrator, run[m].at # "idle"
  PROVE  Table(m) = Home /\ session[m].pinned = Home /\ History(m) = db.rows[Home]
BY DEF Inv, MigInv, PinInv, Table, History

\* A step of m that keeps to its Frame keeps every part of the others.
LEMMA OthersKeep ==
  ASSUME Inv, NEW m \in Migrator, Frame(m), Types', NEW u \in Migrator, u # m
  PROVE  MigInv(u)'
<1>1. /\ run'[u] = run[u] /\ session'[u] = session[u] /\ held'[u] = held[u]
      /\ held[u][Home] > 0 => db' = db
      /\ \A f : IsApplied(f, db.rows[Home]) => IsApplied(f, db'.rows[Home])
      /\ cancels' >= cancels
  BY DEF Frame
<1>2. PinInv(u) /\ RunInv(u) /\ HeldInv(u) /\ ReportInv(u) /\ QuietInv(u) /\ Types
  BY DEF Inv, MigInv
<1>3. Index(u)' = Index(u) /\ Current(u)' = Current(u)
  BY <1>1 DEF Index, Current
<1>4. PinInv(u)' /\ RunInv(u)'
  BY <1>1, <1>2, <1>3 DEF PinInv, RunInv
<1>5. HeldInv(u)'
  <2>1. run[u].at \in InLoop => db' = db
    BY <1>1, <1>2, DbFields DEF HeldInv, InLoop, Locking
  <2> QED BY <1>1, <1>2, <1>3, <2>1 DEF HeldInv, InLoop
<1>6. ReportInv(u)'
  BY <1>1, <1>2 DEF ReportInv
<1>7. QuietInv(u)'
  BY <1>1, <1>2, DbFields DEF QuietInv, Types
<1> QED BY <1>4, <1>5, <1>6, <1>7 DEF MigInv

\* The advisory lock of Home never gets a second holder.
LEMMA StaysExclusive ==
  ASSUME Inv, NEW m \in Migrator, Frame(m), Types'
  PROVE  Exclusive'
<1> SUFFICES ASSUME NEW a \in Migrator, NEW b \in Migrator, a # b
             PROVE  held'[a][Home] = 0 \/ held'[b][Home] = 0
  BY DEF Exclusive
<1>1. held[a][Home] = 0 \/ held[b][Home] = 0
  BY DEF Inv, Exclusive
<1>2. \A u \in Migrator : held[u][Home] \in Nat
  BY DbFields DEF Inv
<1>3. \A u \in Migrator : u # m => held'[u] = held[u]
  BY DEF Frame
<1>4. \A u \in Migrator : u # m /\ held[u][Home] > 0 /\ held[m][Home] = 0
                            => held'[m][Home] = 0
  BY DEF Frame
<1>5. \A u \in Migrator : u # m => held[u][Home] = 0 \/ held[m][Home] = 0
  BY DEF Inv, Exclusive
<1>6. CASE a # m /\ b # m
  BY <1>1, <1>3, <1>6
<1>7. CASE a = m
  <2>1. held'[b] = held[b]
    BY <1>3, <1>7
  <2> QED BY <1>2, <1>4, <1>5, <1>7, <2>1
<1>8. CASE b = m
  <2>1. held'[a] = held[a]
    BY <1>3, <1>8
  <2> QED BY <1>2, <1>4, <1>5, <1>8, <2>1
<1> QED BY <1>6, <1>7, <1>8

-----------------------------------------------------------------------------
(* What the ends of a run and of a file do to the records.                 *)

\* A run with some fields changed is a run.
LEMMA RunWith ==
  ASSUME NEW r \in Runs, NEW at \in Points, NEW q \in Seq(Statuses), NEW o \in Outcomes
  PROVE  /\ [r EXCEPT !.at = at, !.results = q, !.outcome = o] \in Runs
         /\ [r EXCEPT !.at = at] \in Runs /\ [r EXCEPT !.outcome = o] \in Runs
         /\ [r EXCEPT !.outcome = o, !.results = q] \in Runs
BY DEF Runs, Points, Outcomes

\* What the run looks like that goes to its finally clause.
LEMMA UnlocksFields ==
  ASSUME Types, NEW m \in Migrator, NEW q \in Seq(Statuses), NEW o \in Outcomes,
         Unlocks(m, q, o)
  PROVE  /\ run' \in [Migrator -> Runs]
         /\ \A u \in Migrator \ {m} : run'[u] = run[u]
         /\ run'[m].at = "unlock" /\ run'[m].results = q /\ run'[m].outcome = o
         /\ run'[m].first = run[m].first
<1>1. run' = [run EXCEPT ![m] = [run[m] EXCEPT !.at = "unlock", !.results = q,
                                               !.outcome = o]]
  BY DEF Types, Unlocks
<1>2. [run[m] EXCEPT !.at = "unlock", !.results = q, !.outcome = o] \in Runs
  BY RunFields, RunWith DEF Points
<1>3. run'[m] = [run[m] EXCEPT !.at = "unlock", !.results = q, !.outcome = o]
  BY <1>1 DEF Types
<1> QED BY <1>1, <1>2, <1>3, RunFields DEF Types, Runs

\* What a session looks like when its run has returned.
LEMMA ReturnsFields ==
  ASSUME Types, NEW m \in Migrator, NEW r \in Runs, NEW locks \in [Schema -> Nat],
         Returns(m, r, locks)
  PROVE  /\ run' \in [Migrator -> Runs]
         /\ \A u \in Migrator \ {m} :
              run'[u] = run[u] /\ held'[u] = held[u] /\ session'[u] = session[u]
         /\ run'[m].at = "idle" /\ run'[m].results = r.results
         /\ run'[m].outcome = r.outcome /\ run'[m].first = r.first
         /\ held' \in [Migrator -> [Schema -> Nat]] /\ held'[m] \in {NoLocks, locks}
         /\ session' \in [Migrator -> Sessions]
         /\ session'[m].pinned = session[m].pinned
         /\ session'[m].open \in {FALSE, session[m].open}
         /\ m \in Pooled => held'[m] = NoLocks /\ session'[m].open = FALSE
<1>1. run' = [run EXCEPT ![m] = [r EXCEPT !.at = "idle"]]
  BY DEF Returns
<1>2. [r EXCEPT !.at = "idle"] \in Runs
  BY DEF Runs, Points
<1>3. /\ run' \in [Migrator -> Runs] /\ run'[m] = [r EXCEPT !.at = "idle"]
      /\ \A u \in Migrator \ {m} : run'[u] = run[u]
  BY <1>1, <1>2 DEF Types
<1>4. /\ run'[m].at = "idle" /\ run'[m].results = r.results
      /\ run'[m].outcome = r.outcome /\ run'[m].first = r.first
  BY <1>3 DEF Runs
<1>5. NoLocks \in [Schema -> Nat]
  BY DEF NoLocks
<1>6. /\ held' \in [Migrator -> [Schema -> Nat]]
      /\ held'[m] = (IF m \in Pooled THEN NoLocks ELSE locks)
      /\ \A u \in Migrator \ {m} : held'[u] = held[u]
  BY <1>5 DEF Returns, Types
<1>7. /\ session' \in [Migrator -> Sessions]
      /\ session'[m].pinned = session[m].pinned
      /\ session'[m].open = (IF m \in Pooled THEN FALSE ELSE session[m].open)
      /\ \A u \in Migrator \ {m} : session'[u] = session[u]
  <2>1. CASE m \in Pooled
    <3>1. session' = [session EXCEPT ![m] = [session[m] EXCEPT !.path = Home, !.open = FALSE]]
      BY <2>1 DEF Returns, Types
    <3>2. [session[m] EXCEPT !.path = Home, !.open = FALSE] \in Sessions
      BY DbFields DEF Sessions
    <3> QED BY <2>1, <3>1, <3>2, DbFields DEF Types, Sessions
  <2>2. CASE m \notin Pooled
    BY <2>2 DEF Returns, Types
  <2> QED BY <2>1, <2>2
<1> QED BY <1>3, <1>4, <1>6, <1>7

\* What the session looks like after a transaction opens or ends.
LEMMA OpenedFields ==
  ASSUME Types, NEW m \in Migrator, NEW b \in BOOLEAN, Opened(m, b)
  PROVE  /\ session' \in [Migrator -> Sessions]
         /\ session'[m].pinned = session[m].pinned /\ session'[m].open = b
         /\ session'[m].path = session[m].path
         /\ \A u \in Migrator \ {m} : session'[u] = session[u]
<1>1. session' = [session EXCEPT ![m] = [session[m] EXCEPT !.open = b]]
  BY DEF Types, Opened
<1>2. [session[m] EXCEPT !.open = b] \in Sessions
  BY DbFields DEF Sessions
<1> QED BY <1>1, <1>2, DbFields DEF Types, Sessions

-----------------------------------------------------------------------------
(* What a commit installs.                                                 *)

\* History and schema after COMMIT: one whole next file more.
LEMMA InstalledOK ==
  ASSUME Inv, NEW m \in Migrator, run[m].at = "run", Executed(m), db' = Installed(m)
  PROVE  /\ db' \in Databases /\ HistoryStep /\ Honest(db'.rows[Home])
         /\ Index(m) \in DOMAIN Shipped[m]
         /\ db'.rows[Home] = Append(db.rows[Home], Row(Current(m)))
         /\ HoldsFirst(Shipped[m], db'.rows[Home]) /\ Len(db'.rows[Home]) = Index(m)
         /\ \A f : IsApplied(f, db.rows[Home]) => IsApplied(f, db'.rows[Home])
         /\ IsApplied(Current(m), db'.rows[Home])
<1> DEFINE f == Current(m)
           rows == Append(db.rows[Home], Row(f))
           n == Len(f.stmts)
<1>1. /\ Types /\ Honest(db.rows[Home]) /\ RunInv(m) /\ HeldInv(m) /\ Table(m) = Home
  BY TableHome DEF Inv, MigInv
<1>2. Index(m) \in DOMAIN Shipped[m] /\ Index(m) \in Nat
  BY <1>1, RunFields DEF RunInv, InLoop
<1>3. /\ f = Shipped[m][Index(m)] /\ f \in File /\ Row(f) \in Rows
      /\ Row(f).name = f.name /\ Index(m) \in 1 .. Len(Shipped[m])
  BY <1>2, ShippedFiles, FileFields DEF Current
<1>4. /\ Whole(f) \in Seq(Nat \X Nat \X Nat) /\ Len(Whole(f)) = n /\ n \in Nat
  BY <1>3, WholeFile
<1>5. /\ HoldsFirst(Shipped[m], db.rows[Home]) /\ Len(db.rows[Home]) + 1 = Index(m)
      /\ Len(run[m].ran) = n /\ run[m].ran = SubSeq(Whole(f), 1, n)
  BY <1>1 DEF HeldInv, InLoop, Executed
<1>6. /\ db.rows[Home] \in Seq(Rows) /\ Len(db.rows[Home]) \in Nat
      /\ db.rows \in [Schema -> Seq(Rows)] /\ Home \in Schema
      /\ db.schema \in Seq(Nat \X Nat \X Nat)
  BY <1>1, DbFields
<1>7. run[m].ran = Whole(f)
  BY <1>4, <1>5
<1> HIDE DEF f, n
<1>8. /\ rows \in Seq(Rows) /\ Len(rows) = Len(db.rows[Home]) + 1
      /\ \A g : IsApplied(g, rows) <=> IsApplied(g, db.rows[Home]) \/ Row(f).name = g.name
      /\ rows[Len(db.rows[Home]) + 1] = Row(f)
      /\ \A i \in 1 .. Len(db.rows[Home]) : rows[i] = db.rows[Home][i]
  BY <1>3, <1>6, StillApplied
<1>9. Honest(rows)
  <2>1. Index(m) = Len(db.rows[Home]) + 1
    BY <1>5, <1>6
  <2> QED BY <1>1, <1>2, <1>3, <1>5, <1>6, <2>1, AppendHonest
<1> HIDE DEF rows
<1>10. /\ db' \in Databases /\ db'.rows[Home] = rows
       /\ db'.schema = db.schema \o Whole(f)
  <2> DEFINE schema == db.schema \o Whole(f)
             tables == [db.rows EXCEPT ![Home] = rows]
  <2>1. schema \in Seq(Nat \X Nat \X Nat)
    BY <1>4, <1>6
  <2>2. tables \in [Schema -> Seq(Rows)] /\ tables[Home] = rows
    BY <1>6, <1>8
  <2>3. db' = [db EXCEPT !.rows = tables, !.schema = schema]
    BY <1>1, <1>6, <1>7 DEF Installed, Types, Databases, rows, f
  <2> HIDE DEF schema, tables
  <2>4. /\ db' \in Databases /\ db'.rows = tables /\ db'.schema = schema
    BY <1>1, <2>1, <2>2, <2>3 DEF Types, Databases
  <2> QED BY <2>2, <2>4 DEF schema
<1>11. HoldsFirst(Shipped[m], rows)
  <2>1. Len(rows) <= Len(Shipped[m])
    BY <1>3, <1>5, <1>8
  <2>2. \A i \in 1 .. Len(rows) : i \in 1 .. Len(db.rows[Home]) \/ i = Len(db.rows[Home]) + 1
    BY <1>6, <1>8
  <2>3. \A i \in 1 .. Len(db.rows[Home]) : rows[i] = Row(Shipped[m][i])
    BY <1>5, <1>8 DEF HoldsFirst
  <2>4. rows[Len(db.rows[Home]) + 1] = Row(Shipped[m][Len(db.rows[Home]) + 1])
    BY <1>3, <1>5, <1>8
  <2> QED BY <2>1, <2>2, <2>3, <2>4 DEF HoldsFirst
<1>12. HistoryStep
  <2>1. Promise!IsPrefix(Shipped[m], Index(m) - 1)
    <3>1. Index(m) - 1 = Len(db.rows[Home])
      BY <1>5, <1>6
    <3> QED BY <1>5, <3>1 DEF Promise!IsPrefix, HoldsFirst, Promise!Row, Row
  <2>2. \E k \in 1 .. Len(Shipped[m]) :
          /\ Promise!IsPrefix(Shipped[m], k - 1)
          /\ db'.rows[Home] = Append(db.rows[Home], Row(Shipped[m][k]))
          /\ db'.schema = db.schema \o Whole(Shipped[m][k])
    BY <1>3, <1>10, <2>1 DEF rows
  <2>3. Promise!ApplyFile(m)
    BY <2>2 DEF Promise!ApplyFile, Promise!Row, Row, Promise!Whole, Whole, Promise!Ran, Ran
  <2> QED BY <2>3 DEF HistoryStep, Promise!HistoryNext
<1>13. Len(rows) = Index(m)
  BY <1>5, <1>8
<1>14. IsApplied(f, rows) /\ \A g : IsApplied(g, db.rows[Home]) => IsApplied(g, rows)
  BY <1>3, <1>8
<1>15. /\ Honest(db'.rows[Home]) /\ HoldsFirst(Shipped[m], db'.rows[Home])
       /\ Len(db'.rows[Home]) = Index(m) /\ IsApplied(f, db'.rows[Home])
       /\ \A g : IsApplied(g, db.rows[Home]) => IsApplied(g, db'.rows[Home])
  BY <1>9, <1>10, <1>11, <1>13, <1>14
<1>16. db'.rows[Home] = Append(db.rows[Home], Row(Current(m)))
  BY <1>10 DEF rows, f
<1> QED BY <1>2, <1>10, <1>12, <1>15, <1>16 DEF f

\* m leaves its loop, with or without what it just committed.
Leaves(m) ==
  /\ run' \in [Migrator -> Runs] /\ held' \in [Migrator -> [Schema -> Nat]]
  /\ session' \in [Migrator -> Sessions]
  /\ faults' \in 0 .. MaxFaults /\ cancels' \in 0 .. MaxCancels /\ cancels' >= cancels
  /\ \A u \in Migrator \ {m} :
       /\ run'[u] = run[u] /\ session'[u] = session[u] /\ held'[u] = held[u]
       /\ held[u][Home] > 0 /\ held[m][Home] = 0 => held'[m][Home] = 0
  /\ db' = db \/ (run[m].at = "run" /\ Executed(m) /\ db' = Installed(m))
  /\ PinInv(m)' /\ QuietInv(m)'
  /\ run'[m].at = "idle" \/ (run'[m].at = "unlock" /\ held'[m][Home] >= 1)
  /\ \A i \in DOMAIN run'[m].results :
       run'[m].results[i] = "Success" =>
         /\ run'[m].first = run[m].first
         /\ i \in DOMAIN run[m].results /\ run[m].results[i] = "Success"
  /\ run'[m].outcome = "ok" =>
       run[m].outcome = "ok" \/ \A i \in DOMAIN Shipped[m] : IsApplied(Shipped[m][i], db.rows[Home])

\* The database after a step that may have committed m's file.
LEMMA DbStep ==
  ASSUME Inv, NEW m \in Migrator,
         db' = db \/ (run[m].at = "run" /\ Executed(m) /\ db' = Installed(m))
  PROVE  /\ db' \in Databases /\ HistoryStep /\ Honest(db'.rows[Home])
         /\ \A f : IsApplied(f, db.rows[Home]) => IsApplied(f, db'.rows[Home])
         /\ \A u \in Migrator \ {m} : held[u][Home] > 0 => db' = db
<1>1. CASE db' = db
  <2>1. db \in Databases /\ Honest(db.rows[Home])
    BY DEF Inv, Types
  <2> QED BY <1>1, <2>1 DEF HistoryStep
<1>2. CASE run[m].at = "run" /\ Executed(m) /\ db' = Installed(m)
  <2>1. held[m][Home] > 0
    BY <1>2, DbFields DEF Inv, MigInv, HeldInv, Locking
  <2>2. \A u \in Migrator \ {m} : ~(held[u][Home] > 0)
    <3> TAKE u \in Migrator \ {m}
    <3>1. held[m][Home] = 0 \/ held[u][Home] = 0
      BY DEF Inv, Exclusive
    <3>2. held[u][Home] \in Nat
      BY DbFields DEF Inv
    <3> QED BY <2>1, <3>1, <3>2
  <2> QED BY <1>2, <2>2, InstalledOK
<1> QED BY <1>1, <1>2

\* A run that leaves its loop or returns, a COMMIT perhaps applied.
LEMMA LeavesOK ==
  ASSUME Inv, NEW m \in Migrator, Leaves(m)
  PROVE  StepOK(m)
<1>1. /\ db' \in Databases /\ HistoryStep /\ Honest(db'.rows[Home])
      /\ \A f : IsApplied(f, db.rows[Home]) => IsApplied(f, db'.rows[Home])
      /\ \A u \in Migrator \ {m} : held[u][Home] > 0 => db' = db
  BY DbStep DEF Leaves
<1>2. Types'
  BY <1>1 DEF Types, Leaves
<1>3. Frame(m)
  BY <1>1 DEF Frame, Leaves
<1>4. run'[m].at \in {"idle", "unlock"} /\ (run'[m].at = "unlock" => held'[m][Home] >= 1)
  BY DEF Leaves
<1>5. RunInv(m)' /\ HeldInv(m)'
  BY <1>4 DEF RunInv, HeldInv, InLoop, Locking
<1>6. ReportInv(m)'
  <2>1. ReportInv(m)
    BY DEF Inv, MigInv
  <2>2. \A i \in DOMAIN run'[m].results :
          run'[m].results[i] = "Success" =>
            IsApplied(Shipped[m][run'[m].first + i - 1], db'.rows[Home])
    BY <1>1, <2>1 DEF ReportInv, Leaves
  <2>3. run'[m].outcome = "ok" =>
          \A i \in DOMAIN Shipped[m] : IsApplied(Shipped[m][i], db'.rows[Home])
    BY <1>1, <2>1 DEF ReportInv, Leaves
  <2> QED BY <2>2, <2>3 DEF ReportInv
<1>7. PinInv(m)' /\ QuietInv(m)'
  BY DEF Leaves
<1> QED BY <1>1, <1>2, <1>3, <1>5, <1>6, <1>7 DEF StepOK, MigInv

-----------------------------------------------------------------------------
(* One lemma per action.                                                   *)

\* m goes on, and nothing is committed.
LEMMA GoesOnOK ==
  ASSUME Inv, NEW m \in Migrator, db' = db, UNCHANGED budget, Types',
         \A u \in Migrator \ {m} :
           /\ run'[u] = run[u] /\ session'[u] = session[u] /\ held'[u] = held[u]
           /\ held[u][Home] > 0 /\ held[m][Home] = 0 => held'[m][Home] = 0,
         run'[m].first = run[m].first \/ run'[m].results = <<>>,
         run'[m].results \in {run[m].results, <<>>},
         run'[m].outcome \in {run[m].outcome, "none"},
         PinInv(m)', RunInv(m)', HeldInv(m)', QuietInv(m)'
  PROVE  StepOK(m)
<1>1. Types /\ Honest(db.rows[Home]) /\ ReportInv(m)
  BY DEF Inv, MigInv
<1>2. ReportInv(m)'
  BY <1>1 DEF ReportInv
<1>3. Frame(m)
  BY <1>1, DbFields DEF Frame, budget
<1>4. HistoryStep /\ Honest(db.rows[Home])'
  BY <1>1 DEF HistoryStep
<1> QED BY <1>2, <1>3, <1>4 DEF StepOK, MigInv

\* migrate_to_latest begins: the session pins the schema of its history.
LEMMA StartOK ==
  ASSUME Inv, NEW m \in Migrator, Start(m)
  PROVE  StepOK(m)
<1>1. Types /\ PinInv(m) /\ QuietInv(m)
  BY DEF Inv, MigInv
<1>2. /\ run' \in [Migrator -> Runs] /\ run'[m] = [Idle EXCEPT !.at = "lock"]
      /\ \A u \in Migrator \ {m} : run'[u] = run[u]
  <2>1. Idle \in Runs
    BY PgAssumption DEF Idle, Runs, Points
  <2>2. \A r \in Runs : [r EXCEPT !.at = "lock"] \in Runs
    BY DEF Runs, Points
  <2> QED BY <1>1, <2>1, <2>2 DEF Start, Types
<1>3. run'[m].at = "lock" /\ run'[m].results = <<>> /\ run'[m].outcome = "none"
  BY <1>2 DEF Idle
<1>4. /\ session' \in [Migrator -> Sessions] /\ session'[m].open = session[m].open
      /\ session'[m].pinned = Home
      /\ \A u \in Migrator \ {m} : session'[u] = session[u]
  <2> DEFINE pin == IF session[m].pinned = Unpinned THEN session[m].path
                    ELSE session[m].pinned
  <2>1. pin = Home /\ Home \in Schema
    BY <1>1, PgAssumption DEF PinInv
  <2>2. session' = [session EXCEPT ![m] = [session[m] EXCEPT !.pinned = pin]]
    BY <1>1 DEF Start, Types
  <2> HIDE DEF pin
  <2>3. session' = [session EXCEPT ![m] = [session[m] EXCEPT !.pinned = Home]]
    BY <2>1, <2>2
  <2>4. [session[m] EXCEPT !.pinned = Home] \in Sessions
    BY <1>1, <2>1, DbFields DEF Sessions
  <2> QED BY <1>1, <2>3, <2>4, DbFields DEF Types, Sessions
<1>5. /\ db' = db /\ held' = held /\ UNCHANGED budget /\ cancels' = cancels
      /\ run[m].at = "idle" /\ ~session[m].open
  BY DEF Start, budget
<1>6. Types'
  BY <1>1, <1>2, <1>4, <1>5 DEF Types, budget
<1>7. PinInv(m)' /\ RunInv(m)' /\ HeldInv(m)'
  BY <1>3, <1>4, UnpinnedAssumption, PgAssumption
     DEF PinInv, RunInv, HeldInv, InLoop, Locking
<1>8. QuietInv(m)'
  BY <1>1, <1>3, <1>4, <1>5 DEF QuietInv, Locking
<1> QED BY <1>2, <1>3, <1>4, <1>5, <1>6, <1>7, <1>8, GoesOnOK

\* pg_advisory_lock returns: nobody else holds the lock of Home.
LEMMA GetLockOK ==
  ASSUME Inv, NEW m \in Migrator, GetLock(m)
  PROVE  StepOK(m)
<1>1. Types /\ PinInv(m) /\ RunInv(m) /\ QuietInv(m)
  BY DEF Inv, MigInv
<1>2. /\ run' \in [Migrator -> Runs] /\ run'[m] = [run[m] EXCEPT !.at = "setup"]
      /\ \A u \in Migrator \ {m} : run'[u] = run[u]
  <2> DEFINE r == [run[m] EXCEPT !.at = "setup"]
  <2>1. run[m] \in Runs /\ run \in [Migrator -> Runs]
    BY <1>1, RunFields DEF Types
  <2>2. r \in Runs
    BY <2>1 DEF Runs, Points
  <2>3. run' = [run EXCEPT ![m] = r]
    BY <2>1 DEF GetLock
  <2>4. r = [run[m] EXCEPT !.at = "setup"]
    OBVIOUS
  <2> HIDE DEF r
  <2>5. /\ run' \in [Migrator -> Runs] /\ run'[m] = r
        /\ \A u \in Migrator \ {m} : run'[u] = run[u]
    BY <2>1, <2>2, <2>3
  <2> QED BY <2>4, <2>5
<1>3. /\ run'[m].at = "setup" /\ run'[m].results = run[m].results
      /\ run'[m].outcome = run[m].outcome /\ run'[m].first = run[m].first
  BY <1>1, <1>2, RunFields DEF Runs
<1>4. /\ db' = db /\ session' = session /\ UNCHANGED budget /\ cancels' = cancels
      /\ run[m].at = "lock" /\ Table(m) = Home
  BY TableHome DEF GetLock, budget
<1>5. /\ \A u \in Migrator \ {m} : held[u][Home] = 0
      /\ held' = [held EXCEPT ![m] = [held[m] EXCEPT ![Home] = held[m][Home] + 1]]
  BY <1>1, <1>4 DEF GetLock, Grants, Types
<1>6. /\ held' \in [Migrator -> [Schema -> Nat]]
      /\ held'[m] = [held[m] EXCEPT ![Home] = held[m][Home] + 1]
      /\ held'[m][Home] = held[m][Home] + 1
      /\ \A u \in Migrator \ {m} : held'[u] = held[u]
  <2>1. [held[m] EXCEPT ![Home] = held[m][Home] + 1] \in [Schema -> Nat]
    BY <1>1, DbFields
  <2> QED BY <1>1, <1>5, <2>1, DbFields DEF Types
<1>7. Types'
  BY <1>1, <1>2, <1>4, <1>6 DEF Types, budget
<1>8. PinInv(m)' /\ RunInv(m)' /\ HeldInv(m)'
  BY <1>1, <1>3, <1>4, <1>6, DbFields DEF PinInv, RunInv, HeldInv, InLoop, Locking
<1>9. QuietInv(m)'
  <2>1. held[m] = NoLocks => held'[m] = OneLock
    BY <1>6, PgAssumption DEF OneLock, NoLocks
  <2>2. cancels = 0 => held[m] = NoLocks /\ session[m].open = FALSE
    BY <1>1, <1>4 DEF QuietInv, Locking
  <2>3. cancels' = 0 => held'[m] = OneLock /\ session'[m].open = FALSE
    BY <1>4, <2>1, <2>2
  <2>4. run'[m].at \in Locking /\ run'[m].at # "run"
    BY <1>3 DEF Locking
  <2> QED BY <2>3, <2>4 DEF QuietInv
<1>10. \A u \in Migrator \ {m} :
         /\ run'[u] = run[u] /\ session'[u] = session[u] /\ held'[u] = held[u]
         /\ held[u][Home] > 0 /\ held[m][Home] = 0 => held'[m][Home] = 0
  BY <1>2, <1>4, <1>5, <1>6
<1> QED BY <1>3, <1>4, <1>7, <1>8, <1>9, <1>10, GoesOnOK

\* The run goes to the finally clause, and the lock is still held.
LEMMA UnlockingOK ==
  ASSUME Inv, NEW m \in Migrator, run[m].at \in Locking,
         NEW q \in Seq(Statuses), NEW o \in Outcomes, Unlocks(m, q, o),
         held' = held, session' \in [Migrator -> Sessions],
         session'[m].pinned = session[m].pinned,
         cancels' = 0 => session'[m].open = FALSE,
         \A u \in Migrator \ {m} : session'[u] = session[u],
         faults' \in 0 .. MaxFaults, cancels' \in 0 .. MaxCancels, cancels' >= cancels,
         db' = db \/ (run[m].at = "run" /\ Executed(m) /\ db' = Installed(m)),
         \A i \in DOMAIN q : q[i] = "Success" =>
           i \in DOMAIN run[m].results /\ run[m].results[i] = "Success",
         o = "ok" => \A i \in DOMAIN Shipped[m] : IsApplied(Shipped[m][i], db.rows[Home])
  PROVE  StepOK(m)
<1>1. Types /\ PinInv(m) /\ HeldInv(m) /\ QuietInv(m) /\ session[m].pinned = Home
  BY TableHome DEF Inv, MigInv, Locking
<1>2. /\ run' \in [Migrator -> Runs]
      /\ \A u \in Migrator \ {m} : run'[u] = run[u]
      /\ run'[m].at = "unlock" /\ run'[m].results = q /\ run'[m].outcome = o
      /\ run'[m].first = run[m].first
  BY <1>1, UnlocksFields
<1>3. PinInv(m)'
  BY <1>1, UnpinnedAssumption, PgAssumption DEF PinInv
<1>4. QuietInv(m)'
  <2>1. cancels' = 0 => cancels = 0
    BY <1>1, DbFields
  <2>2. cancels = 0 => held[m] = OneLock
    BY <1>1 DEF QuietInv
  <2> QED BY <1>2, <2>1, <2>2 DEF QuietInv, Locking
<1>5. held'[m][Home] >= 1 /\ held' \in [Migrator -> [Schema -> Nat]]
  BY <1>1 DEF HeldInv, Types
<1>6. Leaves(m)
  BY <1>2, <1>3, <1>4, <1>5 DEF Leaves
<1> QED BY <1>6, LeavesOK

\* The statuses of a run that stops: nothing new is a success.
LEMMA FailureStatuses ==
  ASSUME Inv, NEW m \in Migrator, run[m].at \in InLoop
  PROVE  /\ Failure(m) \in Seq(Statuses)
         /\ \A i \in DOMAIN Failure(m) : Failure(m)[i] = "Success" =>
              i \in DOMAIN run[m].results /\ run[m].results[i] = "Success"
<1> DEFINE old == run[m].results
           stopped == Append(old, "Error")
           results == stopped \o Skipped(m)
<1>1. Types /\ RunInv(m)
  BY DEF Inv, MigInv
<1>2. old \in Seq(Statuses) /\ Len(old) \in Nat /\ DOMAIN old = 1 .. Len(old)
  BY <1>1, RunFields
<1>3. /\ stopped \in Seq(Statuses) /\ Len(stopped) = Len(old) + 1
      /\ stopped[Len(old) + 1] = "Error"
      /\ \A i \in 1 .. Len(old) : stopped[i] = old[i]
  BY <1>2 DEF Statuses
<1>4. /\ Skipped(m) \in Seq(Statuses) /\ Len(Skipped(m)) \in Nat
      /\ \A i \in 1 .. Len(Skipped(m)) : Skipped(m)[i] = "NotExecuted"
  <2>1. /\ Len(Shipped[m]) \in Nat /\ Index(m) \in 1 .. Len(Shipped[m])
    BY <1>1, ShippedFiles DEF RunInv
  <2>2. Len(Shipped[m]) - Index(m) \in Nat
    BY <2>1
  <2>3. "NotExecuted" \in Statuses
    BY DEF Statuses
  <2> QED BY <2>2, <2>3 DEF Skipped
<1>5. Failure(m) = results
  BY DEF Failure
<1> HIDE DEF old, stopped
<1>6. /\ results \in Seq(Statuses) /\ Len(results) = Len(stopped) + Len(Skipped(m))
      /\ \A i \in 1 .. Len(stopped) + Len(Skipped(m)) :
           results[i] = IF i <= Len(stopped) THEN stopped[i]
                        ELSE Skipped(m)[i - Len(stopped)]
  BY <1>3, <1>4, ConcatProperties
<1> HIDE DEF results
<1>7. \A i \in DOMAIN results :
        results[i] = "Success" => i \in DOMAIN old /\ old[i] = "Success"
  <2> SUFFICES ASSUME NEW i \in DOMAIN results, results[i] = "Success"
               PROVE  i \in DOMAIN old /\ old[i] = "Success"
    OBVIOUS
  <2>1. i \in 1 .. Len(stopped) + Len(Skipped(m)) /\ Len(stopped) \in Nat
    BY <1>2, <1>3, <1>4, <1>6
  <2>2. CASE i > Len(stopped)
    <3>1. i - Len(stopped) \in 1 .. Len(Skipped(m)) /\ ~(i <= Len(stopped))
      BY <1>4, <2>1, <2>2
    <3> QED BY <1>4, <1>6, <2>1, <3>1
  <2>3. CASE i = Len(old) + 1
    BY <1>2, <1>3, <1>6, <2>1, <2>3
  <2>4. CASE i <= Len(old)
    BY <1>2, <1>3, <1>6, <2>1, <2>4
  <2> QED BY <1>2, <1>3, <2>1, <2>2, <2>3, <2>4
<1> QED BY <1>5, <1>6, <1>7 DEF old

\* A file that fails is rolled back and only changes the report.
LEMMA FileStopsOK ==
  ASSUME Inv, NEW m \in Migrator, FileStops(m), run[m].at \in InLoop,
         db' = db, held' = held,
         faults' \in 0 .. MaxFaults, cancels' = cancels
  PROVE  StepOK(m)
<1>1. Types
  BY DEF Inv
<1>2. Opened(m, FALSE) /\ Unlocks(m, Failure(m), "error")
  BY DEF FileStops
<1>3. /\ session' \in [Migrator -> Sessions]
      /\ session'[m].pinned = session[m].pinned /\ session'[m].open = FALSE
      /\ \A u \in Migrator \ {m} : session'[u] = session[u]
  BY <1>1, <1>2, OpenedFields
<1>4. cancels' \in 0 .. MaxCancels /\ cancels' >= cancels
  BY <1>1, DbFields DEF Types
<1>5. run[m].at \in Locking /\ "error" \in Outcomes /\ "error" # "ok"
  BY DEF InLoop, Locking, Outcomes
<1>6. /\ Failure(m) \in Seq(Statuses)
      /\ \A i \in DOMAIN Failure(m) : Failure(m)[i] = "Success" =>
           i \in DOMAIN run[m].results /\ run[m].results[i] = "Success"
  BY FailureStatuses
<1> DEFINE q == Failure(m)
<1> HIDE DEF q
<1>7. /\ q \in Seq(Statuses) /\ Unlocks(m, q, "error")
      /\ \A i \in DOMAIN q : q[i] = "Success" =>
           i \in DOMAIN run[m].results /\ run[m].results[i] = "Success"
  BY <1>2, <1>6 DEF q
<1> QED BY <1>3, <1>4, <1>5, <1>7, UnlockingOK

\* A run that ends before its first file has no results.
LEMMA SetupEnds ==
  ASSUME Inv, NEW m \in Migrator, run[m].at = "setup", NEW o \in Outcomes,
         Unlocks(m, <<>>, o), db' = db, held' = held, session' = session,
         faults' \in 0 .. MaxFaults, cancels' = cancels,
         o = "ok" => \A i \in DOMAIN Shipped[m] : IsApplied(Shipped[m][i], db.rows[Home])
  PROVE  StepOK(m)
<1>1. Types /\ QuietInv(m)
  BY DEF Inv, MigInv
<1>2. <<>> \in Seq(Statuses) /\ DOMAIN <<>> = {}
  OBVIOUS
<1> DEFINE q == <<>>
<1>3. \A i \in DOMAIN q : q[i] = "Success" =>
         i \in DOMAIN run[m].results /\ run[m].results[i] = "Success"
  BY <1>2
<1>4. /\ cancels' \in 0 .. MaxCancels /\ cancels' >= cancels
      /\ session' \in [Migrator -> Sessions]
      /\ cancels' = 0 => session'[m].open = FALSE
  BY <1>1, DbFields DEF Types, QuietInv
<1>5. run[m].at \in Locking
  BY DEF Locking
<1>6. q \in Seq(Statuses) /\ Unlocks(m, q, o)
  BY <1>2
<1> HIDE DEF q
<1> QED BY <1>3, <1>4, <1>5, <1>6, UnlockingOK

\* The files before the first pending one are the history's.
LEMMA SetupFirst ==
  ASSUME Inv, NEW m \in Migrator, ~HistoryRefused(Shipped[m], db.rows[Home])
  PROVE  /\ HoldsFirst(Shipped[m], db.rows[Home])
         /\ FirstPending(Shipped[m], db.rows[Home]) = Len(db.rows[Home]) + 1
         /\ Len(db.rows[Home]) \in Nat /\ Len(db.rows[Home]) <= Len(Shipped[m])
         /\ Len(Shipped[m]) \in Nat /\ DOMAIN Shipped[m] = 1 .. Len(Shipped[m])
         /\ \A i \in 1 .. Len(db.rows[Home]) : IsApplied(Shipped[m][i], db.rows[Home])
<1>1. HoldsFirst(Shipped[m], db.rows[Home]) /\ Len(db.rows[Home]) <= Len(Shipped[m])
  BY DEF Inv, Honest, HoldsFirst
<1>2. db.rows[Home] \in Seq(Rows) /\ Len(db.rows[Home]) \in Nat
  BY DbFields DEF Inv
<1>3. /\ Shipped[m] \in Seq(File) /\ Ascending(Shipped[m])
      /\ Len(Shipped[m]) \in Nat /\ DOMAIN Shipped[m] = 1 .. Len(Shipped[m])
  BY ShippedFiles
<1>4. FirstPending(Shipped[m], db.rows[Home]) = Len(db.rows[Home]) + 1
  BY <1>1, <1>2, <1>3, FirstOfPrefix
<1>5. \A i \in 1 .. Len(db.rows[Home]) : IsApplied(Shipped[m][i], db.rows[Home])
  <2> TAKE i \in 1 .. Len(db.rows[Home])
  <2>1. i \in DOMAIN Shipped[m] /\ i <= Len(db.rows[Home])
    BY <1>1, <1>2, <1>3
  <2> QED BY <1>1, <1>2, <1>3, <2>1, FirstApplied
<1> QED BY <1>1, <1>2, <1>3, <1>4, <1>5

\* The history table is there, and the pending files are what remains.
LEMMA SetupOK ==
  ASSUME Inv, NEW m \in Migrator, Setup(m)
  PROVE  StepOK(m)
<1> DEFINE first == FirstPending(Shipped[m], History(m))
<1>1. /\ Types /\ PinInv(m) /\ RunInv(m) /\ HeldInv(m) /\ QuietInv(m)
  BY DEF Inv, MigInv
<1>2. /\ run[m].at = "setup" /\ run[m].results = <<>> /\ History(m) = db.rows[Home]
      /\ db' = db /\ held' = held /\ session' = session /\ UNCHANGED budget
      /\ cancels' = cancels /\ faults' = faults
  BY <1>1, TableHome DEF Setup, RunInv, budget
<1>3. /\ HoldsFirst(Shipped[m], db.rows[Home]) /\ first = Len(db.rows[Home]) + 1
      /\ Len(db.rows[Home]) \in Nat /\ Len(db.rows[Home]) <= Len(Shipped[m])
      /\ Len(Shipped[m]) \in Nat /\ DOMAIN Shipped[m] = 1 .. Len(Shipped[m])
      /\ \A i \in 1 .. Len(db.rows[Home]) : IsApplied(Shipped[m][i], db.rows[Home])
  BY <1>2, SetupFirst DEF Setup
<1>4. first \in Nat /\ first >= 1
  BY <1>3
<1> HIDE DEF first
<1>5. CASE first > Len(Shipped[m])
  <2>1. Unlocks(m, <<>>, "ok")
    BY <1>5 DEF Setup, first
  <2>2. \A i \in DOMAIN Shipped[m] : IsApplied(Shipped[m][i], db.rows[Home])
    BY <1>3, <1>5
  <2> QED BY <1>1, <1>2, <2>1, <2>2, SetupEnds DEF Types, Outcomes
<1>6. CASE ~(first > Len(Shipped[m]))
  <2>1. run' = [run EXCEPT ![m].at = "begin", ![m].first = first]
    BY <1>6 DEF Setup, first
  <2>2. /\ run' \in [Migrator -> Runs]
        /\ \A u \in Migrator \ {m} : run'[u] = run[u]
        /\ run'[m].at = "begin" /\ run'[m].first = first
        /\ run'[m].results = <<>> /\ run'[m].outcome = run[m].outcome
    <3> DEFINE r == [run[m] EXCEPT !.at = "begin", !.first = first]
    <3>1. run[m] \in Runs /\ first \in Nat
      BY <1>1, <1>4, RunFields
    <3>2. /\ r \in Runs /\ r.at = "begin" /\ r.first = first
          /\ r.results = run[m].results /\ r.outcome = run[m].outcome
      BY <3>1 DEF Runs, Points
    <3>3. run' = [run EXCEPT ![m] = r]
      BY <1>1, <2>1 DEF Types
    <3> HIDE DEF r
    <3>4. /\ run' \in [Migrator -> Runs] /\ run'[m] = r
          /\ \A u \in Migrator \ {m} : run'[u] = run[u]
      BY <1>1, <3>2, <3>3 DEF Types
    <3> QED BY <1>2, <3>2, <3>4
  <2>3. Types'
    BY <1>1, <1>2, <2>2 DEF Types
  <2>4. Index(m)' = first
    <3>1. Index(m)' = run'[m].first + Len(run'[m].results)
      BY DEF Index
    <3> QED BY <1>4, <2>2, <3>1
  <2>5. PinInv(m)' /\ RunInv(m)'
    <3>1. first \in DOMAIN Shipped[m]
      BY <1>3, <1>4, <1>6
    <3> QED BY <1>1, <1>2, <1>4, <2>2, <2>4, <3>1 DEF PinInv, RunInv
  <2>6. HeldInv(m)'
    BY <1>1, <1>2, <1>3, <2>2, <2>4 DEF HeldInv, Locking
  <2>7. QuietInv(m)'
    <3>1. run'[m].at \in Locking /\ run'[m].at # "run" /\ run[m].at \in Locking
      BY <1>2, <2>2 DEF Locking
    <3> QED BY <1>1, <1>2, <3>1 DEF QuietInv
  <2> QED BY <1>2, <2>2, <2>3, <2>5, <2>6, <2>7, GoesOnOK
<1> QED BY <1>5, <1>6

\* A file's transaction opens, with nothing run so far.
LEMMA BeginFileOK ==
  ASSUME Inv, NEW m \in Migrator, BeginFile(m)
  PROVE  StepOK(m)
<1>1. /\ Types /\ PinInv(m) /\ RunInv(m) /\ HeldInv(m) /\ QuietInv(m)
  BY DEF Inv, MigInv
<1>2. /\ run[m].at = "begin" /\ Opened(m, TRUE)
      /\ db' = db /\ held' = held /\ UNCHANGED budget /\ cancels' = cancels
  BY DEF BeginFile, budget
<1>3. /\ session' \in [Migrator -> Sessions]
      /\ session'[m].pinned = session[m].pinned /\ session'[m].open = TRUE
      /\ session'[m].path = session[m].path
      /\ \A u \in Migrator \ {m} : session'[u] = session[u]
  BY <1>1, <1>2, OpenedFields
<1>4. /\ run' \in [Migrator -> Runs]
      /\ \A u \in Migrator \ {m} : run'[u] = run[u]
      /\ run'[m].at = "run" /\ run'[m].ran = <<>> /\ run'[m].first = run[m].first
      /\ run'[m].results = run[m].results /\ run'[m].outcome = run[m].outcome
  <2> DEFINE p == session[m].path
  <2>1. p \in Schema
    BY <1>1, DbFields
  <2>2. run' = [run EXCEPT ![m] = [run[m] EXCEPT !.at = "run", !.ran = <<>>, !.path = p]]
    BY <1>1 DEF BeginFile, Types
  <2> HIDE DEF p
  <2>3. \A r \in Runs : \A q \in Seq(Nat \X Nat \X Nat) :
          [r EXCEPT !.at = "run", !.ran = q, !.path = p] \in Runs
    BY <2>1 DEF Runs, Points
  <2>4. <<>> \in Seq(Nat \X Nat \X Nat)
    OBVIOUS
  <2>5. [run[m] EXCEPT !.at = "run", !.ran = <<>>, !.path = p] \in Runs
    BY <1>1, <2>3, <2>4, RunFields
  <2>6. /\ run' \in [Migrator -> Runs]
        /\ \A u \in Migrator \ {m} : run'[u] = run[u]
        /\ run'[m] = [run[m] EXCEPT !.at = "run", !.ran = <<>>, !.path = p]
    BY <1>1, <2>2, <2>5 DEF Types
  <2> QED BY <1>1, <2>6, RunFields DEF Runs
<1>5. Types'
  BY <1>1, <1>2, <1>3, <1>4 DEF Types, budget
<1>6. Index(m)' = Index(m) /\ Current(m)' = Current(m)
  BY <1>4 DEF Index, Current
<1>7. PinInv(m)' /\ RunInv(m)'
  BY <1>1, <1>2, <1>3, <1>4, <1>6 DEF PinInv, RunInv, InLoop
<1>8. HeldInv(m)'
  <2>1. Current(m) \in File /\ Len(Current(m).stmts) \in Nat
    BY <1>1, <1>2, ShippedFiles, FileFields DEF RunInv, InLoop, Current
  <2>2. Len(<<>>) = 0 /\ SubSeq(Whole(Current(m)), 1, 0) = <<>>
    OBVIOUS
  <2>3. 0 <= Len(Current(m).stmts)
    BY <2>1
  <2> QED BY <1>1, <1>2, <1>4, <1>6, <2>2, <2>3 DEF HeldInv, InLoop, Locking
<1>9. QuietInv(m)'
  <2>1. run'[m].at \in Locking /\ run[m].at \in Locking
    BY <1>2, <1>4 DEF Locking
  <2> QED BY <1>1, <1>2, <1>3, <1>4, <2>1 DEF QuietInv
<1> QED BY <1>2, <1>3, <1>4, <1>5, <1>7, <1>8, <1>9, GoesOnOK

\* A statement of the file runs: one statement more is part of it.
LEMMA ExecuteOK ==
  ASSUME Inv, NEW m \in Migrator, Execute(m)
  PROVE  StepOK(m)
<1> DEFINE k == Len(run[m].ran)
           w == Whole(Current(m))
           more == Append(run[m].ran, Ran(Current(m), k + 1))
<1>1. /\ Types /\ PinInv(m) /\ RunInv(m) /\ HeldInv(m) /\ QuietInv(m)
  BY DEF Inv, MigInv
<1>2. /\ run[m].at = "run" /\ ~Executed(m)
      /\ db' = db /\ held' = held /\ session' = session
      /\ UNCHANGED budget /\ cancels' = cancels
  BY DEF Execute, budget
<1>3. Current(m) \in File
  BY <1>1, <1>2, ShippedFiles, FileFields DEF RunInv, InLoop, Current
<1>4. /\ w \in Seq(Nat \X Nat \X Nat) /\ Len(w) = Len(Current(m).stmts)
      /\ Len(Current(m).stmts) \in Nat
      /\ \A i \in 1 .. Len(Current(m).stmts) : w[i] = Ran(Current(m), i)
  BY <1>3, WholeFile
<1>5. k \in Nat /\ k + 1 \in 1 .. Len(w) /\ run[m].ran \in Seq(Nat \X Nat \X Nat)
  BY <1>1, <1>2, <1>4, RunFields DEF Executed, HeldInv
<1>6. /\ more \in Seq(Nat \X Nat \X Nat) /\ Len(more) = k + 1
      /\ more = SubSeq(w, 1, k + 1)
  <2>1. Ran(Current(m), k + 1) = w[k + 1]
    BY <1>4, <1>5
  <2>2. run[m].ran = SubSeq(w, 1, k)
    BY <1>1, <1>2 DEF HeldInv
  <2>3. /\ Append(SubSeq(w, 1, k), w[k + 1]) = SubSeq(w, 1, k + 1)
        /\ SubSeq(w, 1, k + 1) \in Seq(Nat \X Nat \X Nat)
        /\ Len(SubSeq(w, 1, k + 1)) = k + 1
    BY <1>4, <1>5, NextStatement
  <2> QED BY <2>1, <2>2, <2>3
<1> HIDE DEF more
<1>7. /\ run' \in [Migrator -> Runs]
      /\ \A u \in Migrator \ {m} : run'[u] = run[u]
      /\ run'[m].at = "run" /\ run'[m].ran = more /\ run'[m].first = run[m].first
      /\ run'[m].results = run[m].results /\ run'[m].outcome = run[m].outcome
  <2>1. PICK p \in Schema :
          run' = [run EXCEPT ![m].ran = Append(@, Ran(Current(m), Len(@) + 1)),
                             ![m].path = p]
    BY DEF Execute
  <2>2. run' = [run EXCEPT ![m] = [run[m] EXCEPT !.ran = more, !.path = p]]
    BY <1>1, <2>1 DEF Types, more
  <2>3. [run[m] EXCEPT !.ran = more, !.path = p] \in Runs
    BY <1>1, <1>6, <2>1, RunFields DEF Runs
  <2>4. /\ run' \in [Migrator -> Runs]
        /\ \A u \in Migrator \ {m} : run'[u] = run[u]
        /\ run'[m] = [run[m] EXCEPT !.ran = more, !.path = p]
    BY <1>1, <2>2, <2>3 DEF Types
  <2> QED BY <1>1, <1>2, <2>4, RunFields DEF Runs
<1>8. Types'
  BY <1>1, <1>2, <1>7 DEF Types, budget
<1>9. Index(m)' = Index(m) /\ Current(m)' = Current(m)
  BY <1>7 DEF Index, Current
<1>10. PinInv(m)' /\ RunInv(m)'
  BY <1>1, <1>2, <1>7, <1>9 DEF PinInv, RunInv, InLoop
<1>11. HeldInv(m)'
  <2>1. k + 1 <= Len(Current(m).stmts)
    BY <1>4, <1>5
  <2> QED BY <1>1, <1>2, <1>6, <1>7, <1>9, <2>1 DEF HeldInv, InLoop, Locking
<1>12. QuietInv(m)'
  BY <1>1, <1>2, <1>7 DEF QuietInv
<1> QED BY <1>2, <1>7, <1>8, <1>10, <1>11, <1>12, GoesOnOK

\* COMMIT installs exactly the file that comes next in the history.
LEMMA CommitFileOK ==
  ASSUME Inv, NEW m \in Migrator, CommitFile(m)
  PROVE  StepOK(m)
<1> DEFINE results == Append(run[m].results, "Success")
           over == Index(m) = Len(Shipped[m])
<1>1. /\ Types /\ PinInv(m) /\ RunInv(m) /\ HeldInv(m) /\ ReportInv(m) /\ QuietInv(m)
  BY DEF Inv, MigInv
<1>2. /\ run[m].at = "run" /\ Executed(m) /\ db' = Installed(m)
      /\ held' = held /\ UNCHANGED budget /\ cancels' = cancels /\ faults' = faults
  BY DEF CommitFile, budget
<1>3. /\ db' \in Databases /\ HistoryStep /\ Honest(db'.rows[Home])
      /\ Index(m) \in DOMAIN Shipped[m]
      /\ HoldsFirst(Shipped[m], db'.rows[Home]) /\ Len(db'.rows[Home]) = Index(m)
      /\ \A f : IsApplied(f, db.rows[Home]) => IsApplied(f, db'.rows[Home])
      /\ IsApplied(Current(m), db'.rows[Home])
      /\ \A u \in Migrator \ {m} : held[u][Home] > 0 => db' = db
  BY <1>2, InstalledOK, DbStep
<1>4. /\ Shipped[m] \in Seq(File) /\ DOMAIN Shipped[m] = 1 .. Len(Shipped[m])
      /\ Ascending(Shipped[m]) /\ Len(Shipped[m]) \in Nat /\ run[m].first >= 1
  BY <1>1, <1>2, ShippedFiles DEF RunInv, InLoop
<1>5. /\ run[m].results \in Seq(Statuses) /\ Len(run[m].results) \in Nat
      /\ Index(m) = run[m].first + Len(run[m].results) /\ Index(m) \in Nat
      /\ run[m].first \in Nat
  BY <1>1, RunFields
<1>6. /\ results \in Seq(Statuses) /\ Len(results) = Len(run[m].results) + 1
      /\ DOMAIN results = 1 .. Len(run[m].results) + 1
      /\ DOMAIN run[m].results = 1 .. Len(run[m].results)
      /\ \A i \in 1 .. Len(run[m].results) : results[i] = run[m].results[i]
      /\ results[Len(run[m].results) + 1] = "Success"
  BY <1>5 DEF Statuses
<1> HIDE DEF results
<1>7. /\ session' \in [Migrator -> Sessions]
      /\ session'[m].pinned = session[m].pinned /\ session'[m].open = FALSE
      /\ \A u \in Migrator \ {m} : session'[u] = session[u]
  <2> DEFINE p == run[m].path
  <2>1. p \in Schema
    BY <1>1, RunFields
  <2>2. session' = [session EXCEPT ![m] = [session[m] EXCEPT !.open = FALSE, !.path = p]]
    BY <1>1 DEF CommitFile, Types
  <2> HIDE DEF p
  <2>3. [session[m] EXCEPT !.open = FALSE, !.path = p] \in Sessions
    BY <1>1, <2>1, DbFields DEF Sessions
  <2> QED BY <1>1, <2>2, <2>3, DbFields DEF Types, Sessions
<1>8. /\ run' \in [Migrator -> Runs]
      /\ \A u \in Migrator \ {m} : run'[u] = run[u]
      /\ run'[m].at = (IF over THEN "unlock" ELSE "begin")
      /\ run'[m].results = results /\ run'[m].first = run[m].first
      /\ run'[m].outcome = (IF over THEN "ok" ELSE run[m].outcome)
  <2>1. CASE over
    <3>1. Unlocks(m, results, "ok")
      BY <2>1 DEF CommitFile, results
    <3> QED BY <1>1, <1>6, <2>1, <3>1, UnlocksFields DEF Outcomes
  <2>2. CASE ~over
    <3>1. run' = [run EXCEPT ![m] = [run[m] EXCEPT !.at = "begin", !.results = results]]
      BY <1>1, <2>2 DEF CommitFile, results, Types
    <3>2. [run[m] EXCEPT !.at = "begin", !.results = results] \in Runs
      <4>1. \A r \in Runs : \A q \in Seq(Statuses) :
              [r EXCEPT !.at = "begin", !.results = q] \in Runs
        BY DEF Runs, Points
      <4> QED BY <1>1, <1>6, <4>1, RunFields
    <3>3. /\ run' \in [Migrator -> Runs]
          /\ \A u \in Migrator \ {m} : run'[u] = run[u]
          /\ run'[m] = [run[m] EXCEPT !.at = "begin", !.results = results]
      BY <1>1, <3>1, <3>2 DEF Types
    <3> QED BY <1>1, <2>2, <3>3, RunFields DEF Runs
  <2> QED BY <2>1, <2>2
<1>9. Types'
  BY <1>1, <1>2, <1>3, <1>7, <1>8 DEF Types, budget
<1>10. Frame(m)
  BY <1>1, <1>2, <1>3, <1>7, <1>8, DbFields DEF Frame
<1>11. Index(m)' = Index(m) + 1
  <2>1. Index(m)' = run'[m].first + Len(run'[m].results)
    BY DEF Index
  <2>2. run'[m].first = run[m].first /\ run'[m].results = results
    BY <1>8
  <2>3. Index(m)' = run[m].first + (Len(run[m].results) + 1)
    BY <1>6, <2>1, <2>2
  <2> QED BY <1>5, <2>3
<1>12. run'[m].at \in {"unlock", "begin"} /\ (run'[m].at = "begin" => ~over)
  BY <1>8
<1>13. PinInv(m)' /\ RunInv(m)'
  <2>1. session[m].pinned = Home
    BY <1>2, TableHome
  <2>2. PinInv(m)'
    BY <1>7, <2>1, UnpinnedAssumption, PgAssumption DEF PinInv
  <2>3. ~over => Index(m) + 1 \in DOMAIN Shipped[m]
    BY <1>3, <1>4, <1>5
  <2>4. RunInv(m)'
    BY <1>4, <1>8, <1>11, <1>12, <2>3 DEF RunInv, InLoop
  <2> QED BY <2>2, <2>4
<1>14. HeldInv(m)'
  <2>1. held'[m][Home] >= 1
    BY <1>1, <1>2 DEF HeldInv, Locking
  <2>2. Len(db'.rows[Home]) + 1 = Index(m)'
    BY <1>3, <1>11
  <2> QED BY <1>3, <1>12, <2>1, <2>2 DEF HeldInv, InLoop
<1>15. ReportInv(m)'
  <2>1. \A i \in DOMAIN results :
          results[i] = "Success" =>
            IsApplied(Shipped[m][run[m].first + i - 1], db'.rows[Home])
    <3> TAKE i \in DOMAIN results
    <3>1. CASE i \in 1 .. Len(run[m].results)
      BY <1>1, <1>3, <1>6, <3>1 DEF ReportInv
    <3>2. CASE i = Len(run[m].results) + 1
      <4>1. run[m].first + i - 1 = Index(m)
        BY <1>5, <3>2
      <4> QED BY <1>3, <4>1 DEF Current
    <3> QED BY <1>5, <1>6, <3>1, <3>2
  <2>2. over => \A i \in DOMAIN Shipped[m] : IsApplied(Shipped[m][i], db'.rows[Home])
    <3> SUFFICES ASSUME over, NEW i \in DOMAIN Shipped[m]
                 PROVE  IsApplied(Shipped[m][i], db'.rows[Home])
      OBVIOUS
    <3>1. i <= Len(db'.rows[Home])
      BY <1>3, <1>4
    <3>2. db'.rows[Home] \in Seq(Rows)
      BY <1>9, PgAssumption DEF Types, Databases
    <3> QED BY <1>3, <1>4, <3>1, <3>2, FirstApplied
  <2>3. run'[m].outcome = "ok" =>
          \A i \in DOMAIN Shipped[m] : IsApplied(Shipped[m][i], db'.rows[Home])
    <3>1. CASE over
      BY <2>2, <3>1
    <3>2. CASE ~over
      BY <1>1, <1>3, <1>8, <3>2 DEF ReportInv
    <3> QED BY <3>1, <3>2
  <2> QED BY <1>8, <2>1, <2>3 DEF ReportInv
<1>16. QuietInv(m)'
  <2>1. run'[m].at \in Locking /\ run[m].at \in Locking
    BY <1>2, <1>12 DEF Locking
  <2> QED BY <1>1, <1>2, <1>7, <2>1 DEF QuietInv
<1> QED BY <1>3, <1>9, <1>10, <1>13, <1>14, <1>15, <1>16 DEF StepOK, MigInv

-----------------------------------------------------------------------------
(* The ways back to idle.                                                  *)

\* A run is over, and its session holds what Returns leaves it.
LEMMA ReturnsOK ==
  ASSUME Inv, NEW m \in Migrator, run[m].at # "idle", db' = db,
         NEW r \in Runs, NEW locks \in [Schema -> Nat], Returns(m, r, locks),
         held[m][Home] > 0 \/ locks[Home] = 0
           \/ (\A u \in Migrator \ {m} : held[u][Home] = 0),
         faults' \in 0 .. MaxFaults, cancels' \in 0 .. MaxCancels, cancels' >= cancels,
         cancels' = 0 => locks = NoLocks /\ run[m].at # "run",
         \A i \in DOMAIN r.results : r.results[i] = "Success" =>
           r.first = run[m].first /\ i \in DOMAIN run[m].results
           /\ run[m].results[i] = "Success",
         r.outcome = "ok" => run[m].outcome = "ok"
  PROVE  StepOK(m)
<1>1. Types /\ PinInv(m) /\ QuietInv(m) /\ session[m].pinned = Home
  BY TableHome DEF Inv, MigInv
<1>2. /\ run' \in [Migrator -> Runs]
      /\ \A u \in Migrator \ {m} :
           run'[u] = run[u] /\ held'[u] = held[u] /\ session'[u] = session[u]
      /\ run'[m].at = "idle" /\ run'[m].results = r.results
      /\ run'[m].outcome = r.outcome /\ run'[m].first = r.first
      /\ held' \in [Migrator -> [Schema -> Nat]] /\ held'[m] \in {NoLocks, locks}
      /\ session' \in [Migrator -> Sessions]
      /\ session'[m].pinned = session[m].pinned
      /\ session'[m].open \in {FALSE, session[m].open}
  BY <1>1, ReturnsFields
<1>3. held'[m][Home] = 0 \/ held'[m] = locks
  BY <1>2, PgAssumption DEF NoLocks
<1>4. \A u \in Migrator \ {m} : held[u][Home] > 0 /\ held[m][Home] = 0 => held'[m][Home] = 0
  <2> TAKE u \in Migrator \ {m}
  <2>1. held[u][Home] \in Nat /\ held[m][Home] \in Nat
    BY <1>1, DbFields
  <2> QED BY <1>3, <2>1
<1>5. PinInv(m)'
  BY <1>1, <1>2, UnpinnedAssumption, PgAssumption DEF PinInv
<1>6. QuietInv(m)'
  <2>1. cancels' = 0 => cancels = 0
    BY <1>1, DbFields
  <2>2. cancels' = 0 => session'[m].open = FALSE /\ held'[m] = NoLocks
    BY <1>1, <1>2, <2>1 DEF QuietInv
  <2> QED BY <1>2, <2>2 DEF QuietInv, Locking
<1>7. Leaves(m)
  BY <1>2, <1>4, <1>5, <1>6 DEF Leaves
<1> QED BY <1>7, LeavesOK

\* The finally clause unlocks, and the run returns.
LEMMA UnlockOK ==
  ASSUME Inv, NEW m \in Migrator, Unlock(m)
  PROVE  StepOK(m)
<1> DEFINE locks == [held[m] EXCEPT ![Home] = held[m][Home] - 1]
<1>1. /\ Types /\ HeldInv(m) /\ QuietInv(m)
  BY DEF Inv, MigInv
<1>2. /\ run[m].at = "unlock" /\ db' = db /\ Table(m) = Home
      /\ faults' = faults /\ cancels' = cancels
  BY TableHome DEF Unlock, budget
<1>3. Returns(m, run[m], locks)
  BY <1>2 DEF Unlock
<1>4. held[m][Home] >= 1 /\ locks \in [Schema -> Nat] /\ run[m] \in Runs
  <2>1. held[m][Home] >= 1 /\ held[m][Home] \in Nat
    BY <1>1, <1>2, DbFields DEF HeldInv, Locking
  <2>2. held[m][Home] - 1 \in Nat
    BY <2>1
  <2> QED BY <1>1, <2>1, <2>2, DbFields, RunFields
<1>5. cancels' = 0 => locks = NoLocks
  <2>1. held[m] = OneLock => locks = NoLocks
    BY PgAssumption DEF OneLock, NoLocks
  <2> QED BY <1>1, <1>2, <2>1 DEF QuietInv, Locking
<1>6. /\ faults' \in 0 .. MaxFaults /\ cancels' \in 0 .. MaxCancels
      /\ cancels' >= cancels /\ held[m][Home] > 0
  BY <1>1, <1>2, <1>4, DbFields DEF Types
<1> HIDE DEF locks
<1> QED BY <1>2, <1>3, <1>4, <1>5, <1>6, ReturnsOK

\* The unlock fails and is only logged: the lock may stay.
LEMMA UnlockFailsOK ==
  ASSUME Inv, NEW m \in Migrator, UnlockFails(m)
  PROVE  StepOK(m)
<1>1. /\ Types /\ HeldInv(m)
  BY DEF Inv, MigInv
<1>2. /\ run[m].at = "unlock" /\ db' = db /\ Returns(m, run[m], held[m])
      /\ faults' \in 0 .. MaxFaults /\ cancels' \in 0 .. MaxCancels
      /\ cancels' >= cancels /\ cancels' > 0
  BY <1>1, DbFields DEF UnlockFails, Types
<1>3. /\ held[m][Home] > 0 /\ held[m] \in [Schema -> Nat] /\ run[m] \in Runs
  BY <1>1, <1>2, DbFields, RunFields DEF HeldInv, Locking
<1> QED BY <1>2, <1>3, ReturnsOK

\* A command fails, at any point of the run.
LEMMA FailsOK ==
  ASSUME Inv, NEW m \in Migrator, Fails(m)
  PROVE  StepOK(m)
<1>1. /\ Types /\ PinInv(m) /\ RunInv(m) /\ QuietInv(m)
  BY DEF Inv, MigInv
<1>2. /\ db' = db /\ cancels' = cancels /\ faults' \in 0 .. MaxFaults
      /\ cancels' \in 0 .. MaxCancels /\ cancels' >= cancels
  BY <1>1, DbFields DEF Fails, Types
<1>3. CASE run[m].at = "lock" /\ Returns(m, [run[m] EXCEPT !.outcome = "error"], held[m])
  <2> DEFINE r == [run[m] EXCEPT !.outcome = "error"]
  <2>1. r \in Runs /\ r.results = <<>> /\ r.outcome = "error"
    <3>1. run[m] \in Runs /\ run[m].results = <<>>
      BY <1>1, <1>3, RunFields DEF RunInv
    <3> QED BY <3>1 DEF Runs
  <2> HIDE DEF r
  <2>2. Returns(m, r, held[m])
    BY <1>3 DEF r
  <2>3. held[m] \in [Schema -> Nat] /\ held[m][Home] \in Nat
    BY <1>1, DbFields
  <2>4. cancels' = 0 => held[m] = NoLocks
    BY <1>1, <1>2, <1>3 DEF QuietInv, Locking
  <2>5. held[m][Home] > 0 \/ held[m][Home] = 0
    BY <2>3
  <2> QED BY <1>2, <1>3, <2>1, <2>2, <2>3, <2>4, <2>5, ReturnsOK
<1>4. CASE run[m].at = "setup" /\ Unlocks(m, <<>>, "error") /\ UNCHANGED <<held, session>>
  BY <1>2, <1>4, SetupEnds DEF Outcomes
<1>5. CASE run[m].at \in {"begin", "run"} /\ FileStops(m) /\ UNCHANGED held
  BY <1>2, <1>5, FileStopsOK DEF InLoop
<1> QED BY <1>3, <1>4, <1>5 DEF Fails

\* The connection ends: the session is new, and nothing is held.
LEMMA EndsOK ==
  ASSUME Inv, NEW m \in Migrator, NEW r \in Runs, Ends(m, r),
         \A i \in DOMAIN r.results : r.results[i] = "Success" =>
           r.first = run[m].first /\ i \in DOMAIN run[m].results
           /\ run[m].results[i] = "Success",
         r.outcome = "ok" => run[m].outcome = "ok"
  PROVE  StepOK(m)
<1>1. Types
  BY DEF Inv
<1>2. /\ run' \in [Migrator -> Runs]
      /\ \A u \in Migrator \ {m} : run'[u] = run[u]
      /\ run'[m].at = "idle" /\ run'[m].results = r.results
      /\ run'[m].outcome = r.outcome /\ run'[m].first = r.first
  <2>1. [r EXCEPT !.at = "idle"] \in Runs
    BY DEF Runs, Points
  <2>2. /\ run' \in [Migrator -> Runs] /\ run'[m] = [r EXCEPT !.at = "idle"]
        /\ \A u \in Migrator \ {m} : run'[u] = run[u]
    BY <1>1, <2>1 DEF Ends, Types
  <2> QED BY <2>2 DEF Runs
<1>3. /\ held' \in [Migrator -> [Schema -> Nat]] /\ held'[m] = NoLocks
      /\ \A u \in Migrator \ {m} : held'[u] = held[u]
  <2>1. NoLocks \in [Schema -> Nat]
    BY DEF NoLocks
  <2> QED BY <1>1, <2>1 DEF Ends, Types
<1>4. /\ session' \in [Migrator -> Sessions] /\ session'[m] = NewSession
      /\ \A u \in Migrator \ {m} : session'[u] = session[u]
  <2>1. NewSession \in Sessions
    BY PgAssumption DEF NewSession, Sessions
  <2> QED BY <1>1, <2>1 DEF Ends, Types
<1>5. /\ session'[m].path = Home /\ session'[m].pinned = Unpinned
      /\ session'[m].open = FALSE
  BY <1>4 DEF NewSession
<1>6. held'[m][Home] = 0
  BY <1>3, PgAssumption DEF NoLocks
<1>7. /\ faults' \in 0 .. MaxFaults /\ cancels' \in 0 .. MaxCancels
      /\ cancels' = cancels /\ cancels' >= cancels
  BY <1>1, DbFields DEF Ends, Types
<1>8. PinInv(m)' /\ QuietInv(m)'
  BY <1>2, <1>3, <1>5 DEF PinInv, QuietInv, Locking
<1>9. db' = db \/ (run[m].at = "run" /\ Executed(m) /\ db' = Installed(m))
  BY DEF Ends
<1>10. Leaves(m)
  BY <1>2, <1>3, <1>4, <1>6, <1>7, <1>8, <1>9 DEF Leaves
<1> QED BY <1>10, LeavesOK

\* The process dies, and the server ends its session.
LEMMA CrashOK ==
  ASSUME Inv, NEW m \in Migrator, Crash(m)
  PROVE  StepOK(m)
<1>1. Idle \in Runs
  BY PgAssumption DEF Idle, Runs, Points
<1>2. Idle.results = <<>> /\ Idle.outcome = "none"
  BY DEF Idle
<1> QED BY <1>1, <1>2, EndsOK DEF Crash

\* The connection is lost, a COMMIT on its way perhaps applied.
LEMMA LoseOK ==
  ASSUME Inv, NEW m \in Migrator, Lose(m)
  PROVE  StepOK(m)
<1>1. Types /\ RunInv(m)
  BY DEF Inv, MigInv
<1>2. CASE run[m].at \in {"lock", "setup"}
  <2> DEFINE r == [run[m] EXCEPT !.outcome = "error"]
  <2>1. r \in Runs /\ r.results = <<>> /\ r.outcome = "error"
    <3>1. run[m] \in Runs /\ run[m].results = <<>>
      BY <1>1, <1>2, RunFields DEF RunInv
    <3> QED BY <3>1 DEF Runs
  <2>2. Ends(m, r)
    BY <1>2 DEF Lose
  <2> HIDE DEF r
  <2> QED BY <2>1, <2>2, EndsOK
<1>3. CASE run[m].at \in InLoop
  <2> DEFINE q == Failure(m)
  <2>1. /\ q \in Seq(Statuses)
        /\ \A i \in DOMAIN q : q[i] = "Success" =>
             i \in DOMAIN run[m].results /\ run[m].results[i] = "Success"
    BY <1>3, FailureStatuses
  <2>2. Ends(m, [run[m] EXCEPT !.outcome = "error", !.results = q])
    BY <1>3 DEF Lose, InLoop
  <2> HIDE DEF q
  <2> DEFINE r == [run[m] EXCEPT !.outcome = "error", !.results = q]
  <2>3. r \in Runs /\ r.results = q /\ r.outcome = "error" /\ r.first = run[m].first
    BY <1>1, <2>1, RunFields DEF Runs
  <2>4. Ends(m, r)
    BY <2>2
  <2> HIDE DEF r
  <2> QED BY <2>1, <2>3, <2>4, EndsOK
<1>4. CASE run[m].at \notin {"lock", "setup"} /\ run[m].at \notin InLoop
  <2>1. Ends(m, run[m])
    BY <1>4 DEF Lose, InLoop
  <2> QED BY <1>1, <2>1, RunFields, EndsOK
<1> QED BY <1>2, <1>3, <1>4

\* The application replaces its connection between two runs.
LEMMA ReconnectOK ==
  ASSUME Inv, NEW m \in Migrator, Reconnect(m)
  PROVE  StepOK(m)
<1>1. Types /\ RunInv(m) /\ HeldInv(m)
  BY DEF Inv, MigInv
<1>2. /\ run[m].at = "idle" /\ db' = db /\ run' = run /\ UNCHANGED budget
  BY DEF Reconnect
<1>3. /\ held' \in [Migrator -> [Schema -> Nat]] /\ held'[m] = NoLocks
      /\ \A u \in Migrator \ {m} : held'[u] = held[u]
  <2>1. NoLocks \in [Schema -> Nat]
    BY DEF NoLocks
  <2> QED BY <1>1, <2>1 DEF Reconnect, Types
<1>4. /\ session' \in [Migrator -> Sessions] /\ session'[m] = NewSession
      /\ \A u \in Migrator \ {m} : session'[u] = session[u]
  <2>1. NewSession \in Sessions
    BY PgAssumption DEF NewSession, Sessions
  <2> QED BY <1>1, <2>1 DEF Reconnect, Types
<1>5. /\ session'[m].path = Home /\ session'[m].pinned = Unpinned
      /\ session'[m].open = FALSE
  BY <1>4 DEF NewSession
<1>6. held'[m][Home] = 0
  BY <1>3, PgAssumption DEF NoLocks
<1>7. Types'
  BY <1>1, <1>2, <1>3, <1>4 DEF Types, budget
<1>8. PinInv(m)' /\ RunInv(m)' /\ HeldInv(m)'
  BY <1>2, <1>5 DEF PinInv, RunInv, HeldInv, InLoop, Locking
<1>9. QuietInv(m)'
  BY <1>2, <1>3, <1>5 DEF QuietInv, Locking
<1>10. \A u \in Migrator \ {m} :
         /\ run'[u] = run[u] /\ session'[u] = session[u] /\ held'[u] = held[u]
         /\ held[u][Home] > 0 /\ held[m][Home] = 0 => held'[m][Home] = 0
  BY <1>2, <1>3, <1>4, <1>6
<1> QED BY <1>2, <1>7, <1>8, <1>9, <1>10, GoesOnOK

\* Whatever the server has applied of the command that was cancelled, the
\* history still grows by whole files and the report claims nothing new.
LEMMA CancelOK ==
  ASSUME Inv, NEW m \in Migrator, Cancel(m)
  PROVE  StepOK(m)
<1> DEFINE raised == [run[m] EXCEPT !.outcome = "raised"]
           old == run[m].results
<1>1. Types /\ RunInv(m) /\ HeldInv(m)
  BY DEF Inv, MigInv
<1>2. /\ faults' \in 0 .. MaxFaults /\ cancels' \in 0 .. MaxCancels
      /\ cancels' >= cancels /\ cancels' > 0
  BY <1>1, DbFields DEF Cancel, Types
<1>3. /\ raised \in Runs /\ raised.results = run[m].results
      /\ raised.outcome = "raised" /\ raised.first = run[m].first
  BY <1>1, RunFields DEF Runs
<1>4. /\ held[m] \in [Schema -> Nat] /\ held[m][Home] \in Nat /\ Home \in Schema
      /\ \A u \in Migrator : held[u][Home] \in Nat
  BY <1>1, DbFields
<1>5. old \in Seq(Statuses) /\ "raised" \in Outcomes
  BY <1>1, RunFields DEF Outcomes
<1>6. run[m].at # "idle" => Table(m) = Home
  BY TableHome
<1> HIDE DEF raised, old
<1>7. \A locks \in [Schema -> Nat] :
        /\ run[m].at # "idle" /\ db' = db /\ Returns(m, raised, locks)
        /\ \/ held[m][Home] > 0 \/ locks[Home] = 0
           \/ \A u \in Migrator \ {m} : held[u][Home] = 0
        => StepOK(m)
  BY <1>2, <1>3, ReturnsOK
<1>8. ASSUME run[m].at \in Locking, Unlocks(m, old, "raised"), held' = held,
             session' \in [Migrator -> Sessions], session'[m].pinned = session[m].pinned,
             \A u \in Migrator \ {m} : session'[u] = session[u],
             db' = db \/ (run[m].at = "run" /\ Executed(m) /\ db' = Installed(m))
      PROVE  StepOK(m)
  <2>1. \A i \in DOMAIN old : old[i] = "Success" =>
          i \in DOMAIN run[m].results /\ run[m].results[i] = "Success"
    BY DEF old
  <2>2. /\ cancels' = 0 => session'[m].open = FALSE
        /\ "raised" # "ok"
    BY <1>2
  <2> QED BY <1>2, <1>5, <1>8, <2>1, <2>2, UnlockingOK
<1>9. CASE run[m].at = "lock" /\ Returns(m, raised, held[m]) /\ UNCHANGED db
  <2>1. held[m][Home] > 0 \/ held[m][Home] = 0
    BY <1>4
  <2> QED BY <1>4, <1>7, <1>9, <2>1
<1>10. CASE /\ run[m].at = "lock"
            /\ \A n \in Migrator \ {m} : held[n][Table(m)] = 0
            /\ Returns(m, raised, [held[m] EXCEPT ![Table(m)] = @ + 1])
            /\ UNCHANGED db
  <2> DEFINE locks == [held[m] EXCEPT ![Home] = held[m][Home] + 1]
  <2>1. locks \in [Schema -> Nat]
    BY <1>4
  <2>2. Returns(m, raised, locks)
    BY <1>6, <1>10
  <2>3. \A u \in Migrator \ {m} : held[u][Home] = 0
    BY <1>6, <1>10
  <2> HIDE DEF locks
  <2> QED BY <1>7, <1>10, <2>1, <2>2, <2>3
<1>11. CASE /\ run[m].at = "setup"
            /\ Unlocks(m, run[m].results, "raised")
            /\ UNCHANGED <<db, held, session>>
  BY <1>1, <1>8, <1>11 DEF Locking, Types, old
<1>12. CASE /\ run[m].at = "begin"
            /\ \E applied \in BOOLEAN : Opened(m, applied)
            /\ Unlocks(m, run[m].results, "raised")
            /\ UNCHANGED <<db, held>>
  <2>1. PICK applied \in BOOLEAN : Opened(m, applied)
    BY <1>12
  <2>2. /\ session' \in [Migrator -> Sessions] /\ session'[m].pinned = session[m].pinned
        /\ \A u \in Migrator \ {m} : session'[u] = session[u]
    BY <1>1, <2>1, OpenedFields
  <2> QED BY <1>8, <1>12, <2>2 DEF Locking, old
<1>13. CASE /\ run[m].at = "run"
            /\ Opened(m, FALSE) /\ UNCHANGED db
            /\ Unlocks(m, run[m].results, "raised")
            /\ UNCHANGED held
  <2>1. /\ session' \in [Migrator -> Sessions] /\ session'[m].pinned = session[m].pinned
        /\ \A u \in Migrator \ {m} : session'[u] = session[u]
    BY <1>1, <1>13, OpenedFields
  <2> QED BY <1>8, <1>13, <2>1 DEF Locking, old
<1>14. CASE /\ run[m].at = "run"
            /\ Executed(m) /\ db' = Installed(m)
            /\ session' = [session EXCEPT ![m].open = FALSE, ![m].path = run[m].path]
            /\ Unlocks(m, run[m].results, "raised")
            /\ UNCHANGED held
  <2> DEFINE p == run[m].path
  <2>1. p \in Schema
    BY <1>1, RunFields
  <2>2. session' = [session EXCEPT ![m] = [session[m] EXCEPT !.open = FALSE, !.path = p]]
    BY <1>1, <1>14 DEF Types
  <2> HIDE DEF p
  <2>3. [session[m] EXCEPT !.open = FALSE, !.path = p] \in Sessions
    BY <1>1, <2>1, DbFields DEF Sessions
  <2>4. /\ session' \in [Migrator -> Sessions] /\ session'[m].pinned = session[m].pinned
        /\ \A u \in Migrator \ {m} : session'[u] = session[u]
    BY <1>1, <2>2, <2>3, DbFields DEF Types, Sessions
  <2> QED BY <1>8, <1>14, <2>4 DEF Locking, old
<1>15. CASE /\ run[m].at = "unlock"
            /\ \E left \in {held[m][Table(m)] - 1, held[m][Table(m)]} :
                 Returns(m, raised, [held[m] EXCEPT ![Table(m)] = left])
            /\ UNCHANGED db
  <2>1. PICK left \in {held[m][Home] - 1, held[m][Home]} :
          Returns(m, raised, [held[m] EXCEPT ![Home] = left])
    BY <1>6, <1>15
  <2>2. held[m][Home] >= 1 /\ held[m][Home] > 0
    BY <1>1, <1>4, <1>15 DEF HeldInv, Locking
  <2>3. left \in Nat
    BY <1>4, <2>1, <2>2
  <2> DEFINE locks == [held[m] EXCEPT ![Home] = left]
  <2>4. locks \in [Schema -> Nat] /\ Returns(m, raised, locks)
    BY <1>4, <2>1, <2>3
  <2> HIDE DEF locks
  <2> QED BY <1>7, <1>15, <2>2, <2>4
<1> QED BY <1>9, <1>10, <1>11, <1>12, <1>13, <1>14, <1>15 DEF Cancel, raised

-----------------------------------------------------------------------------
(* The invariant and what follows from it.                                 *)

\* The first state satisfies the invariant.
LEMMA InitOK == Init => Inv
<1> SUFFICES ASSUME Init PROVE Inv
  OBVIOUS
<1>1. Home \in Schema /\ NoLocks \in [Schema -> Nat] /\ NoLocks[Home] = 0
  BY PgAssumption DEF NoLocks
<1>2. Types
  <2>1. Idle \in Runs
    BY PgAssumption DEF Idle, Runs, Points
  <2>2. NewSession \in Sessions
    BY PgAssumption DEF NewSession, Sessions
  <2>3. db \in Databases
    <3> DEFINE tables == [s \in Schema |-> <<>>]
    <3>1. tables \in [Schema -> Seq(Rows)]
      OBVIOUS
    <3>2. db = [rows |-> tables, schema |-> <<>>]
      BY DEF Init
    <3> HIDE DEF tables
    <3> QED BY <3>1, <3>2 DEF Databases
  <2> QED BY <1>1, <2>1, <2>2, <2>3, PgAssumption DEF Init, Types
<1>3. Exclusive
  BY <1>1 DEF Init, Exclusive
<1>4. Honest(db.rows[Home])
  <2>1. db.rows[Home] = <<>>
    BY <1>1 DEF Init
  <2>2. ASSUME NEW m \in Migrator PROVE HoldsFirst(Shipped[m], <<>>)
    BY ShippedFiles DEF HoldsFirst
  <2> QED BY <2>1, <2>2 DEF Honest
<1>5. ASSUME NEW m \in Migrator PROVE MigInv(m)
  <2>1. /\ run[m].at = "idle" /\ run[m].results = <<>> /\ run[m].outcome = "none"
        /\ session[m].path = Home /\ session[m].pinned = Unpinned
        /\ session[m].open = FALSE /\ held[m] = NoLocks
    BY DEF Init, Idle, NewSession
  <2> QED BY <2>1 DEF MigInv, PinInv, RunInv, HeldInv, ReportInv, QuietInv, InLoop, Locking
<1> QED BY <1>2, <1>3, <1>4, <1>5 DEF Inv

\* Every action of every migrator keeps it.
LEMMA NextOK ==
  ASSUME Inv, NEW m \in Migrator,
         \/ Start(m) \/ Steps(m) \/ Reconnect(m) \/ Fails(m) \/ Lose(m) \/ Crash(m)
         \/ Cancel(m) \/ UnlockFails(m)
  PROVE  StepOK(m)
<1>1. faults \in 0 .. MaxFaults /\ (UNCHANGED budget => faults' = faults /\ cancels' = cancels)
  BY DEF Inv, Types, budget
<1>2. CASE SetupRefused(m)
  BY <1>1, <1>2, SetupEnds DEF SetupRefused, Outcomes
<1>3. CASE FileRefused(m)
  BY <1>1, <1>3, FileStopsOK DEF FileRefused, InLoop
<1>4. CASE Start(m) \/ GetLock(m) \/ Setup(m) \/ BeginFile(m) \/ Execute(m)
  BY <1>4, StartOK, GetLockOK, SetupOK, BeginFileOK, ExecuteOK
<1>5. CASE CommitFile(m) \/ Unlock(m) \/ UnlockFails(m) \/ Reconnect(m)
  BY <1>5, CommitFileOK, UnlockOK, UnlockFailsOK, ReconnectOK
<1>6. CASE Fails(m) \/ Lose(m) \/ Crash(m) \/ Cancel(m)
  BY <1>6, FailsOK, LoseOK, CrashOK, CancelOK
<1> QED BY <1>2, <1>3, <1>4, <1>5, <1>6 DEF Steps

\* The invariant is inductive, and every step is one of the history's.
LEMMA InvStep == Inv /\ [Next]_vars => Inv' /\ HistoryStep
<1> SUFFICES ASSUME Inv, [Next]_vars PROVE Inv' /\ HistoryStep
  OBVIOUS
<1>1. CASE UNCHANGED vars
  <2>1. /\ db' = db /\ held' = held /\ session' = session /\ run' = run
        /\ faults' = faults /\ cancels' = cancels
    BY <1>1 DEF vars
  <2> QED BY <2>1 DEF Inv, Types, Exclusive, MigInv, PinInv, RunInv, HeldInv, ReportInv,
                       QuietInv, Index, Current, HistoryStep
<1>2. CASE \E m \in Migrator : StepOK(m)
  <2>1. PICK m \in Migrator : StepOK(m)
    BY <1>2
  <2>2. \A u \in Migrator : MigInv(u)'
    BY <2>1, OthersKeep DEF StepOK
  <2>3. Exclusive'
    BY <2>1, StaysExclusive DEF StepOK
  <2> QED BY <2>1, <2>2, <2>3 DEF StepOK, Inv
<1> QED BY <1>1, <1>2, NextOK DEF Next

\* The inductive invariant of the migrator.
THEOREM MigratorInvariant == Spec => []Inv
BY InitOK, InvStep, PTL DEF Spec

\* migrate_to_latest: its variables keep their types, and its loop never runs
\* past the provider's files.
THEOREM MigratorTypes == Spec => []TypeOK
<1>1. Inv => TypeOK
  BY DEF Inv, Types, TypeOK, MigInv, RunInv, InLoop
<1> QED BY <1>1, MigratorInvariant, PTL

\* _migrate_connection: whatever search_path the migrations set, whatever fails
\* or is cancelled, the history of the home schema and the committed schema
\* change together, one whole next file at a time.
THEOREM HistoryRefined == Spec => ImplementsHistory
<1>1. Init => Promise!HistoryInit
  BY PgAssumption DEF Init, Promise!HistoryInit
<1>2. Inv /\ [Next]_vars => [Promise!HistoryNext]_<<db.rows[Home], db.schema>>
  BY InvStep DEF HistoryStep
<1> QED BY <1>1, <1>2, MigratorInvariant, PTL DEF Spec, ImplementsHistory, Promise!Spec

\* The report of migrate_to_latest: a file it calls Success is committed, and a
\* run without an error leaves nothing pending, also after later runs.
THEOREM ReportsTrue == Spec => []ReportsHold
<1>1. Inv => ReportsHold
  BY DEF Inv, MigInv, ReportInv, ReportsHold
<1> QED BY <1>1, MigratorInvariant, PTL

\* The finally clause of _migrate_connection: until a first cancellation or
\* failed unlock, a session that is not running holds nothing.
THEOREM SessionsGivenBack == Spec => []SessionReleased
<1>1. Inv => SessionReleased
  BY DEF Inv, MigInv, QuietInv, SessionReleased, Locking
<1> QED BY <1>1, MigratorInvariant, PTL

-----------------------------------------------------------------------------
(* Every run goes forward.                                                 *)

\* The files that m's run has not decided yet, and the commands that it may
\* still send before the next of them.
FilesLeft(m) == CASE run[m].at \in {"lock", "setup"} -> Len(Shipped[m]) + 2
                  [] run[m].at \in InLoop -> Len(Shipped[m]) - Index(m) + 1
                  [] run[m].at = "unlock" -> 0
CallsLeft(m) == CASE run[m].at = "lock" -> 2
                  [] run[m].at \in {"setup", "unlock"} -> 1
                  [] run[m].at = "begin" -> Len(Current(m).stmts) + 2
                  [] run[m].at = "run" -> Len(Current(m).stmts) + 1 - Len(run[m].ran)

Nearer(m) ==
  \/ run'[m].at = "idle"
  \/ FilesLeft(m)' \in 0 .. FilesLeft(m) - 1 /\ CallsLeft(m)' \in Nat
  \/ FilesLeft(m)' = FilesLeft(m) /\ CallsLeft(m)' \in 0 .. CallsLeft(m) - 1

\* _migrate_connection only goes forward: every command that a run sends, every
\* failure and every cancellation ends it or leaves it with fewer files, or with
\* as many and fewer commands; and nobody else's step touches it.
RunsProgress ==
  [][\A m \in Migrator : run[m].at # "idle" =>
       (Steps(m) \/ run'[m] # run[m] => Nearer(m))]_vars

\* A run that its step leaves in the same file.
LEMMA SameFile ==
  ASSUME Inv, NEW m \in Migrator, run[m].at \in InLoop, run'[m].at \in InLoop,
         run'[m].first = run[m].first, run'[m].results = run[m].results
  PROVE  /\ FilesLeft(m)' = FilesLeft(m)
         /\ Current(m)' = Current(m) /\ Len(Current(m).stmts) \in Nat
<1>1. Index(m) \in DOMAIN Shipped[m]
  BY DEF Inv, MigInv, RunInv
<1>2. Index(m)' = Index(m) /\ Current(m)' = Current(m)
  BY DEF Index, Current
<1>3. Len(Current(m).stmts) \in Nat
  BY <1>1, ShippedFiles, FileFields DEF Current
<1> QED BY <1>2, <1>3 DEF FilesLeft, InLoop

\* A command before the first file, or inside a file, leaves fewer commands,
\* and as many files.
LEMMA CallsFewer ==
  ASSUME Inv, NEW m \in Migrator, GetLock(m) \/ BeginFile(m) \/ Execute(m)
  PROVE  Nearer(m)
<1>1. /\ run[m] \in Runs /\ run \in [Migrator -> Runs] /\ HeldInv(m)
      /\ Len(Shipped[m]) \in Nat
  BY RunFields, ShippedFiles DEF Inv, MigInv, Types
<1>2. CASE GetLock(m)
  <2>1. run[m].at = "lock" /\ run'[m].at = "setup"
    BY <1>1, <1>2 DEF GetLock, Runs
  <2>2. FilesLeft(m)' = FilesLeft(m) /\ CallsLeft(m)' = 1 /\ CallsLeft(m) = 2
    BY <2>1 DEF FilesLeft, CallsLeft, InLoop
  <2> QED BY <2>2 DEF Nearer
<1>3. CASE BeginFile(m)
  <2>1. /\ run[m].at = "begin" /\ run'[m].at = "run" /\ run'[m].ran = <<>>
        /\ run'[m].first = run[m].first /\ run'[m].results = run[m].results
    BY <1>1, <1>3 DEF BeginFile, Runs
  <2>2. /\ FilesLeft(m)' = FilesLeft(m) /\ Current(m)' = Current(m)
        /\ Len(Current(m).stmts) \in Nat
    BY <2>1, SameFile DEF InLoop
  <2>3. CallsLeft(m) = Len(Current(m).stmts) + 2
    BY <2>1 DEF CallsLeft
  <2>4. CallsLeft(m)' = Len(Current(m)'.stmts) + 1 - Len(run'[m].ran)
    BY <2>1 DEF CallsLeft
  <2>5. CallsLeft(m)' = Len(Current(m).stmts) + 1 - 0
    BY <2>1, <2>2, <2>4
  <2>6. CallsLeft(m)' \in 0 .. CallsLeft(m) - 1
    BY <2>2, <2>3, <2>5
  <2> QED BY <2>2, <2>6 DEF Nearer
<1>4. CASE Execute(m)
  <2>1. PICK path \in Schema :
          run' = [run EXCEPT ![m].ran = Append(@, Ran(Current(m), Len(@) + 1)),
                             ![m].path = path]
    BY <1>4 DEF Execute
  <2>2. /\ run[m].at = "run" /\ run'[m].at = "run"
        /\ run'[m].ran = Append(run[m].ran, Ran(Current(m), Len(run[m].ran) + 1))
        /\ run'[m].first = run[m].first /\ run'[m].results = run[m].results
    BY <1>1, <1>4, <2>1 DEF Execute, Runs
  <2>3. /\ FilesLeft(m)' = FilesLeft(m) /\ Current(m)' = Current(m)
        /\ Len(Current(m).stmts) \in Nat
    BY <2>2, SameFile DEF InLoop
  <2>4. Len(run'[m].ran) = Len(run[m].ran) + 1 /\ Len(run[m].ran) \in Nat
    <3>1. run[m].ran \in Seq(Nat \X Nat \X Nat)
      BY <1>1 DEF Runs
    <3> QED BY <2>2, <3>1
  <2>5. Len(run[m].ran) < Len(Current(m).stmts)
    <3>1. Len(run[m].ran) <= Len(Current(m).stmts)
      BY <1>1, <2>2 DEF HeldInv
    <3>2. Len(run[m].ran) # Len(Current(m).stmts)
      BY <1>4 DEF Execute, Executed
    <3> QED BY <2>3, <2>4, <3>1, <3>2
  <2>6. CallsLeft(m) = Len(Current(m).stmts) + 1 - Len(run[m].ran)
    BY <2>2 DEF CallsLeft
  <2>7. CallsLeft(m)' = Len(Current(m)'.stmts) + 1 - Len(run'[m].ran)
    BY <2>2 DEF CallsLeft
  <2>8. CallsLeft(m)' = Len(Current(m).stmts) + 1 - (Len(run[m].ran) + 1)
    BY <2>3, <2>4, <2>7
  <2>9. CallsLeft(m)' \in 0 .. CallsLeft(m) - 1
    <3>1. \A n, k \in Nat : k < n => n + 1 - (k + 1) \in 0 .. (n + 1 - k) - 1
      OBVIOUS
    <3> QED BY <2>3, <2>4, <2>5, <2>6, <2>8, <3>1
  <2> QED BY <2>3, <2>9 DEF Nearer
<1> QED BY <1>2, <1>3, <1>4

\* A run that its step takes to the next file, or to the first.
LEMMA FilesFewer ==
  ASSUME Inv, NEW m \in Migrator, RunInv(m)', Types', run'[m].at = "begin",
         \/ run[m].at = "setup"
         \/ run[m].at \in InLoop /\ Index(m)' = Index(m) + 1
  PROVE  Nearer(m)
<1>1. /\ Shipped[m] \in Seq(File) /\ Len(Shipped[m]) \in Nat
      /\ DOMAIN Shipped[m] = 1 .. Len(Shipped[m]) /\ Index(m) \in Nat
  BY ShippedFiles, RunFields DEF Inv
<1>2. Index(m)' \in 1 .. Len(Shipped[m])
  BY <1>1 DEF RunInv, InLoop
<1>3. FilesLeft(m)' = Len(Shipped[m]) - Index(m)' + 1
  BY DEF FilesLeft, InLoop
<1>4. FilesLeft(m)' \in 0 .. FilesLeft(m) - 1
  <2>1. CASE run[m].at = "setup"
    <3>1. FilesLeft(m) = Len(Shipped[m]) + 2
      BY <2>1 DEF FilesLeft, InLoop
    <3> QED BY <1>1, <1>2, <1>3, <3>1
  <2>2. CASE run[m].at \in InLoop /\ Index(m)' = Index(m) + 1
    <3>1. FilesLeft(m) = Len(Shipped[m]) - Index(m) + 1
      BY <2>2 DEF FilesLeft, InLoop
    <3> QED BY <1>1, <1>2, <1>3, <2>2, <3>1
  <2> QED BY <2>1, <2>2
<1>5. Len(Current(m)'.stmts) \in Nat
  BY <1>1, <1>2, FileFields DEF Current
<1>6. CallsLeft(m)' \in Nat
  BY <1>5 DEF CallsLeft
<1> QED BY <1>4, <1>6 DEF Nearer

\* A run that goes to its finally clause has only the unlock left.
LEMMA UnlockingNearer ==
  ASSUME Inv, NEW m \in Migrator, run[m].at \in {"lock", "setup", "begin", "run"},
         run'[m].at = "unlock"
  PROVE  Nearer(m)
<1>1. Len(Shipped[m]) \in Nat /\ DOMAIN Shipped[m] = 1 .. Len(Shipped[m])
  BY ShippedFiles
<1>2. FilesLeft(m)' = 0 /\ CallsLeft(m)' = 1
  BY DEF FilesLeft, CallsLeft, InLoop
<1>3. FilesLeft(m) \in Nat /\ FilesLeft(m) >= 1
  <2>1. CASE run[m].at \in {"lock", "setup"}
    BY <1>1, <2>1 DEF FilesLeft, InLoop
  <2>2. CASE run[m].at \in InLoop
    <3>1. Index(m) \in 1 .. Len(Shipped[m])
      BY <1>1, <2>2 DEF Inv, MigInv, RunInv
    <3>2. FilesLeft(m) = Len(Shipped[m]) - Index(m) + 1
      BY <2>2 DEF FilesLeft, InLoop
    <3> QED BY <1>1, <3>1, <3>2
  <2> QED BY <2>1, <2>2 DEF InLoop
<1> QED BY <1>2, <1>3 DEF Nearer

\* Setup and COMMIT take a run to a file of which there is one fewer, or to its
\* finally clause.
LEMMA FilesEndNearer ==
  ASSUME Inv, NEW m \in Migrator, Setup(m) \/ CommitFile(m), RunInv(m)', Types'
  PROVE  Nearer(m)
<1>1. run[m] \in Runs /\ run \in [Migrator -> Runs]
  BY RunFields DEF Inv, Types
<1>2. CASE Setup(m)
  <2>1. run[m].at = "setup" /\ run'[m].at \in {"begin", "unlock"}
    BY <1>1, <1>2 DEF Setup, Unlocks, Runs
  <2> QED BY <2>1, FilesFewer, UnlockingNearer
<1>3. CASE CommitFile(m)
  <2> DEFINE results == Append(run[m].results, "Success")
  <2>1. run[m].at = "run" /\ run[m].results \in Seq(Statuses) /\ run[m].first \in Nat
    BY <1>1, <1>3 DEF CommitFile, Runs
  <2>2. Len(results) = Len(run[m].results) + 1 /\ Len(run[m].results) \in Nat
    BY <2>1
  <2>3. CASE Index(m) = Len(Shipped[m])
    <3>1. Unlocks(m, results, "ok")
      BY <1>3, <2>3 DEF CommitFile
    <3> HIDE DEF results
    <3>2. run'[m].at = "unlock"
      BY <1>1, <3>1 DEF Unlocks, Runs
    <3> QED BY <2>1, <3>2, UnlockingNearer
  <2>4. CASE Index(m) # Len(Shipped[m])
    <3>1. run' = [run EXCEPT ![m].at = "begin", ![m].results = results]
      BY <1>3, <2>4 DEF CommitFile
    <3> HIDE DEF results
    <3>2. /\ run'[m].at = "begin" /\ run'[m].first = run[m].first
          /\ run'[m].results = results
      BY <1>1, <3>1 DEF Runs
    <3>3. Len(results) = Len(run[m].results) + 1
      BY <2>2 DEF results
    <3>4. Index(m)' = run[m].first + Len(results) /\ Index(m) = run[m].first + Len(run[m].results)
      BY <3>2 DEF Index
    <3>5. Index(m)' = Index(m) + 1
      BY <2>1, <2>2, <3>3, <3>4
    <3> QED BY <2>1, <3>2, <3>5, FilesFewer DEF InLoop
  <2> QED BY <2>3, <2>4
<1> QED BY <1>2, <1>3

\* What goes wrong, or is over, takes a run to its finally clause or past it.
LEMMA OverNearer ==
  ASSUME Inv, NEW m \in Migrator, run[m].at # "idle",
         \/ SetupRefused(m) \/ FileRefused(m) \/ Unlock(m) \/ UnlockFails(m)
         \/ Fails(m) \/ Lose(m) \/ Crash(m) \/ Cancel(m)
  PROVE  Nearer(m)
<1>1. run[m] \in Runs /\ run \in [Migrator -> Runs] /\ run[m].at \in Points
  BY RunFields DEF Inv, Types
<1>2. ASSUME NEW r, NEW locks, Returns(m, r, locks), r \in Runs PROVE run'[m].at = "idle"
  BY <1>1, <1>2 DEF Returns, Runs
<1>3. ASSUME NEW q, NEW o, Unlocks(m, q, o) PROVE run'[m].at = "unlock"
  BY <1>1, <1>3 DEF Unlocks, Runs
<1>4. ASSUME NEW r, Ends(m, r), r \in Runs PROVE run'[m].at = "idle"
  BY <1>1, <1>4 DEF Ends, Runs
<1>5. \A o \in Outcomes : [run[m] EXCEPT !.outcome = o] \in Runs
  BY <1>1 DEF Runs, Outcomes
<1>6. \/ run'[m].at = "idle"
      \/ run'[m].at = "unlock" /\ run[m].at \in {"lock", "setup", "begin", "run"}
  <2>1. CASE SetupRefused(m)
    BY <1>3, <2>1 DEF SetupRefused
  <2>2. CASE FileRefused(m)
    BY <1>3, <2>2 DEF FileRefused, FileStops
  <2>3. CASE Unlock(m) \/ UnlockFails(m)
    BY <1>1, <1>2, <2>3 DEF Unlock, UnlockFails
  <2>4. CASE Fails(m)
    BY <1>2, <1>3, <1>5, <2>4 DEF Fails, FileStops, Outcomes
  <2>5. CASE Lose(m) \/ Crash(m)
    <3>1. PICK r : Ends(m, r)
      BY <2>5 DEF Lose, Crash
    <3>2. run'[m].at = "idle"
      BY <1>1, <3>1 DEF Ends
    <3> QED BY <3>2
  <2>6. CASE Cancel(m)
    <3>1. [run[m] EXCEPT !.outcome = "raised"] \in Runs
      BY <1>5 DEF Outcomes
    <3> QED BY <1>2, <1>3, <2>6, <3>1 DEF Cancel
  <2> QED BY <2>1, <2>2, <2>3, <2>4, <2>5, <2>6
<1> QED BY <1>6, UnlockingNearer DEF Nearer

\* The loop of _migrate_connection: every command of a run, every failure and
\* every cancellation ends it or brings it nearer to its end, by a rank that
\* cannot fall for ever, and no other migrator's step sets it back.
THEOREM EveryCallProgresses == Spec => RunsProgress
<1> DEFINE Progress == \A m \in Migrator : run[m].at # "idle" =>
                         (Steps(m) \/ run'[m] # run[m] => Nearer(m))
<1>1. ASSUME Inv, Next, ~UNCHANGED vars PROVE Progress
  <2>1. PICK u \in Migrator :
          \/ Start(u) \/ Steps(u) \/ Reconnect(u) \/ Fails(u) \/ Lose(u) \/ Crash(u)
          \/ Cancel(u) \/ UnlockFails(u)
    BY <1>1 DEF Next
  <2>2. CASE StepOK(u)
    <3> SUFFICES ASSUME NEW m \in Migrator, run[m].at # "idle",
                        Steps(m) \/ run'[m] # run[m]
                 PROVE  Nearer(m)
      OBVIOUS
    <3>1. Inv'
      BY <1>1, InvStep
    <3>2. RunInv(m)' /\ Types'
      BY <3>1 DEF Inv, MigInv
    <3>3. \/ Steps(m) \/ Fails(m) \/ Lose(m) \/ Crash(m)
          \/ Cancel(m) \/ UnlockFails(m)
      <4>1. m # u => run'[m] = run[m]
        BY <2>2 DEF StepOK, Frame
      <4>2. ~Start(m) /\ ~Reconnect(m)
        BY DEF Start, Reconnect
      <4> QED BY <2>1, <4>1, <4>2
    <3>4. CASE Steps(m)
      <4>1. CASE GetLock(m) \/ BeginFile(m) \/ Execute(m)
        BY <1>1, <4>1, CallsFewer
      <4>2. CASE Setup(m) \/ CommitFile(m)
        BY <1>1, <3>2, <4>2, FilesEndNearer
      <4>3. CASE SetupRefused(m) \/ FileRefused(m) \/ Unlock(m)
        BY <1>1, <4>3, OverNearer
      <4> QED BY <3>4, <4>1, <4>2, <4>3 DEF Steps
    <3>5. CASE Fails(m) \/ Lose(m) \/ Crash(m) \/ Cancel(m) \/ UnlockFails(m)
      BY <1>1, <3>5, OverNearer
    <3> QED BY <3>3, <3>4, <3>5
  <2> QED BY <1>1, <2>1, <2>2, NextOK
<1>2. Inv /\ [Next]_vars => [Progress]_vars
  BY <1>1
<1> QED BY <1>2, MigratorInvariant, PTL DEF Spec, RunsProgress

=============================================================================
