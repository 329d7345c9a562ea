----------------------- MODULE SqliteTransactionsProofs -----------------------
(***************************************************************************)
(* Theorems about the sqlite3 executor's transaction handles, for any      *)
(* modes, names, bounds and faults.                                        *)
(*                                                                         *)
(* The inductive invariant is NextInv.  Its RegInv is about the registry   *)
(* alone: open handles have distinct names, every savepoint's owner is     *)
(* open, and exactly the outermost handle has no savepoint of its own.     *)
(* SessInv is about the database alone: without a transaction there are no *)
(* savepoints, and a transaction that a savepoint opened still has it.     *)
(* LiveInv ties the two: the handles' savepoints exist, in the order of    *)
(* the handles, and none of them is the one whose release would commit.    *)
(* Each action is shown to make StepOK true: NextInv again, a step of the  *)
(* abstract scope stack, and no stranded transaction for a single fault.   *)
(***************************************************************************)
EXTENDS SqliteTransactions, TLAPS

RegInv ==
  /\ info \in Seq(Infos) /\ open \subseteq 1 .. made
  /\ names = NamesOf(open) \ {NoSave}
  /\ \A g, h \in open : info[g].save = info[h].save => g = h
  /\ \A h \in open : info[h].save = NoSave <=> \A g \in open : h <= g
  /\ \A h \in open : ~IsTx(h) => info[h].owner \in open /\ info[h].owner < h
                                 /\ IsTx(info[h].owner)

SessInv(s) ==
  /\ s \in Sessions
  /\ s.txn = "none" => s.saves = <<>> /\ ~s.root
  /\ s.root => s.saves # <<>>

LiveInv(s) ==
  s.whole =>
    \A h \in open :
      /\ s.txn # "none"
      /\ info[h].save # NoSave =>
           /\ Has(s, info[h].save)
           /\ s.root => Newest(s, info[h].save) > 1
           /\ \A g \in open : g > h => Newest(s, info[g].save) > Newest(s, info[h].save)

\* The variables that the three parts leave out.
RestInv ==
  /\ mode \in Modes /\ minted \in 0 .. MaxBegins
  /\ written \in 0 .. MaxWrites /\ faults \in 0 .. MaxFaults
  /\ said \in {"returned", "raised"}

NextInv == RegInv /\ SessInv(session) /\ LiveInv(session) /\ RestInv

\* What every step is shown to do.
ScopeStep == [Nesting!ScopeNext]_<<made, open>>
Lost == session.whole /\ ~Stranded /\ Stranded' => faults' >= faults + 2
StepOK == NextInv' /\ ScopeStep /\ Lost

-----------------------------------------------------------------------------
(* Savepoints in a session: the newest of a name is where it was found, as *)
(* long as nothing older is removed and no other savepoint takes the name. *)

\* The savepoint a command finds exists and is the newest of its name.
LEMMA NewestIs ==
  ASSUME NEW s \in Sessions, NEW n, Has(s, n)
  PROVE  Newest(s, n) \in 1 .. Len(s.saves) /\ IsNewest(s, n, Newest(s, n))
<1>1. IsNewest(s, n, Newest(s, n))
  BY DEF Has, Newest
<1>2. DOMAIN s.saves = 1 .. Len(s.saves)
  BY DEF Sessions
<1> QED BY <1>1, <1>2 DEF IsNewest

\* There is one newest savepoint of a name.
LEMMA NewestOne ==
  ASSUME NEW s \in Sessions, NEW n, NEW k, IsNewest(s, n, k)
  PROVE  Has(s, n) /\ Newest(s, n) = k /\ k \in 1 .. Len(s.saves)
<1>1. k \in 1 .. Len(s.saves) /\ DOMAIN s.saves = 1 .. Len(s.saves)
  BY DEF IsNewest, Sessions
<1>2. Has(s, n)
  BY <1>1 DEF Has
<1>3. IsNewest(s, n, Newest(s, n)) /\ Newest(s, n) \in 1 .. Len(s.saves)
  BY <1>2, NewestIs
<1>4. Len(s.saves) \in Nat
  BY DEF Sessions
<1> QED BY <1>1, <1>2, <1>3, <1>4 DEF IsNewest

\* Savepoints that are not cut off stay the newest of their names.
LEMMA CutNewest ==
  ASSUME NEW s \in Sessions, NEW r, NEW k \in 1 .. Len(s.saves),
         r.saves = SubSeq(s.saves, 1, k),
         NEW n, NEW j, IsNewest(s, n, j), j <= k
  PROVE  IsNewest(r, n, j)
<1>1. DOMAIN s.saves = 1 .. Len(s.saves) /\ Len(s.saves) \in Nat
  BY DEF Sessions
<1>2. /\ DOMAIN r.saves = 1 .. k
      /\ \A i \in 1 .. k : r.saves[i] = s.saves[i]
  BY <1>1 DEF Sessions
<1> QED BY <1>1, <1>2 DEF IsNewest

\* A new savepoint is the newest of its name, and hides no other name.
LEMMA PushNewest ==
  ASSUME NEW s \in Sessions, NEW r, NEW e, r.saves = Append(s.saves, e)
  PROVE  /\ IsNewest(r, e.name, Len(s.saves) + 1)
         /\ Len(r.saves) = Len(s.saves) + 1
         /\ \A n, j : n # e.name /\ IsNewest(s, n, j) => IsNewest(r, n, j)
<1>1. DOMAIN s.saves = 1 .. Len(s.saves) /\ Len(s.saves) \in Nat
  BY DEF Sessions
<1>2. /\ DOMAIN r.saves = 1 .. Len(s.saves) + 1
      /\ Len(r.saves) = Len(s.saves) + 1
      /\ r.saves[Len(s.saves) + 1] = e
      /\ \A i \in 1 .. Len(s.saves) : r.saves[i] = s.saves[i]
  BY <1>1 DEF Sessions
<1> HIDE DEF Sessions
<1> QED BY <1>1, <1>2 DEF IsNewest

-----------------------------------------------------------------------------
(* What one command does to the session.                                   *)

Commands == {"begin", "commit", "rollback", "call_commit", "call_rollback",
             "savepoint", "release", "rollback_to"}

\* Ending the transaction keeps the session well formed.
LEMMA EndsInv ==
  ASSUME NEW s, SessInv(s)
  PROVE  /\ SessInv(Dropped(s)) /\ SessInv(Committed(s))
         /\ Dropped(s).txn = "none" /\ Committed(s).txn = "none"
         /\ Dropped(s).whole = s.whole /\ Committed(s).whole = s.whole
<1>1. <<>> \in Seq(Savepoints)
  OBVIOUS
<1> QED BY <1>1 DEF SessInv, Sessions, Dropped, Committed

\* So does the transaction that sqlite3 opens next under autocommit=False.
LEMMA ReopenedInv ==
  ASSUME NEW s, SessInv(s)
  PROVE  /\ SessInv(Reopened(s)) /\ Reopened(s).whole = s.whole
         /\ Reopened(s).txn \in {s.txn, "caller"}
BY DEF SessInv, Sessions, Reopened

\* So does dropping the newest savepoints and what was written since.
LEMMA CutInv ==
  ASSUME NEW s, SessInv(s), NEW k \in 0 .. Len(s.saves), s.root => k >= 1,
         NEW w \in SUBSET Write
  PROVE  SessInv([s EXCEPT !.saves = SubSeq(@, 1, k), !.work = w])
<1> DEFINE r == [s EXCEPT !.saves = SubSeq(@, 1, k), !.work = w]
<1>1. s.saves \in Seq(Savepoints) /\ s \in Sessions
  BY DEF SessInv, Sessions
<1>2. /\ SubSeq(s.saves, 1, k) \in Seq(Savepoints)
      /\ Len(SubSeq(s.saves, 1, k)) = k
  BY <1>1
<1>3. s.saves = <<>> => SubSeq(s.saves, 1, k) = <<>>
  BY <1>1, <1>2
<1>4. k >= 1 => SubSeq(s.saves, 1, k) # <<>>
  BY <1>2
<1>5. r \in Sessions /\ r.saves = SubSeq(s.saves, 1, k) /\ r.txn = s.txn /\ r.root = s.root
  BY <1>1, <1>2 DEF Sessions
<1> QED BY <1>3, <1>4, <1>5 DEF SessInv

\* What SAVEPOINT does.
LEMMA PushInv ==
  ASSUME NEW s, SessInv(s), NEW n \in Saves
  PROVE  /\ SessInv(Applied(s, "savepoint", n))
         /\ Applied(s, "savepoint", n).whole = s.whole
         /\ Applied(s, "savepoint", n).saves = Append(s.saves, [name |-> n, work |-> s.work])
         /\ Applied(s, "savepoint", n).txn # "none"
         /\ s.txn # "none" => /\ Applied(s, "savepoint", n).root = s.root
                              /\ Applied(s, "savepoint", n).txn = s.txn
<1> DEFINE e == [name |-> n, work |-> s.work]
<1>1. s \in Sessions /\ e \in Savepoints
  BY DEF SessInv, Sessions, Savepoints
<1>2. Append(s.saves, e) \in Seq(Savepoints) /\ Append(s.saves, e) # <<>>
  BY <1>1 DEF Sessions
<1>3. Applied(s, "savepoint", n) =
        [s EXCEPT !.txn = IF s.txn = "none" THEN "relq" ELSE s.txn,
                  !.root = s.root \/ s.txn = "none",
                  !.saves = Append(s.saves, e)]
  BY DEF Applied
<1> HIDE DEF e
<1> QED BY <1>1, <1>2, <1>3 DEF SessInv, Sessions, e

\* What RELEASE does, to the first savepoint of a transaction and to others.
LEMMA ReleaseInv ==
  ASSUME NEW s, SessInv(s), NEW n, Has(s, n)
  PROVE  /\ SessInv(Applied(s, "release", n))
         /\ Applied(s, "release", n).whole = s.whole
         /\ IF s.root /\ Newest(s, n) = 1 THEN Applied(s, "release", n).txn = "none"
            ELSE /\ Applied(s, "release", n) =
                      [s EXCEPT !.saves = SubSeq(@, 1, Newest(s, n) - 1)]
                 /\ Applied(s, "release", n).txn = s.txn
                 /\ Applied(s, "release", n).root = s.root
<1> DEFINE k == Newest(s, n) - 1
           r == [s EXCEPT !.saves = SubSeq(@, 1, k), !.work = s.work]
<1>1. s \in Sessions /\ Len(s.saves) \in Nat /\ s.work \in SUBSET Write
  BY DEF SessInv, Sessions
<1>2. k \in 0 .. Len(s.saves) /\ Newest(s, n) \in 1 .. Len(s.saves)
  BY <1>1, NewestIs
<1>3. CASE s.root /\ Newest(s, n) = 1
  BY <1>3, EndsInv DEF Applied
<1>4. CASE ~(s.root /\ Newest(s, n) = 1)
  <2>1. s.root => k >= 1
    BY <1>2, <1>4
  <2>2. SessInv(r)
    BY <1>1, <1>2, <2>1, CutInv
  <2>3. r = [s EXCEPT !.saves = SubSeq(@, 1, k)]
    BY <1>1 DEF Sessions
  <2>4. Applied(s, "release", n) = [s EXCEPT !.saves = SubSeq(@, 1, k)]
    BY <1>4 DEF Applied
  <2>5. r.whole = s.whole /\ r.txn = s.txn /\ r.root = s.root
    BY <1>1 DEF Sessions
  <2> QED BY <1>4, <2>2, <2>3, <2>4, <2>5
<1> QED BY <1>3, <1>4

\* What ROLLBACK TO does.
LEMMA RollbackToInv ==
  ASSUME NEW s, SessInv(s), NEW n, Has(s, n)
  PROVE  /\ SessInv(Applied(s, "rollback_to", n))
         /\ Applied(s, "rollback_to", n).whole = s.whole
         /\ Applied(s, "rollback_to", n).saves = SubSeq(s.saves, 1, Newest(s, n))
         /\ Applied(s, "rollback_to", n).txn = s.txn
         /\ Applied(s, "rollback_to", n).root = s.root
<1> DEFINE k == Newest(s, n)
           w == s.saves[k].work
           r == [s EXCEPT !.saves = SubSeq(@, 1, k), !.work = w]
<1>1. s \in Sessions /\ Len(s.saves) \in Nat /\ s.saves \in Seq(Savepoints)
  BY DEF SessInv, Sessions
<1>2. k \in 1 .. Len(s.saves) /\ k \in 0 .. Len(s.saves) /\ k >= 1
  BY <1>1, NewestIs
<1>3. s.saves[k] \in Savepoints
  BY <1>1, <1>2
<1>4. w \in SUBSET Write
  BY <1>3 DEF Savepoints
<1>5. Applied(s, "rollback_to", n) = r
  BY DEF Applied
<1> HIDE DEF w, k
<1>6. SessInv(r)
  BY <1>2, <1>4, CutInv
<1>7. r.whole = s.whole /\ r.txn = s.txn /\ r.root = s.root /\ r.saves = SubSeq(s.saves, 1, k)
  BY <1>1 DEF Sessions
<1> QED BY <1>5, <1>6, <1>7 DEF k

\* A command that is accepted keeps the session sound and does not hide an
\* automatic rollback.
LEMMA AppliedInv ==
  ASSUME NEW s, SessInv(s), NEW do \in Commands, NEW n, Accepted(s, do, n),
         do = "savepoint" => n \in Saves
  PROVE  SessInv(Applied(s, do, n)) /\ Applied(s, do, n).whole = s.whole
<1>1. CASE do = "begin"
  <2>1. Applied(s, do, n) = [s EXCEPT !.txn = "relq"] /\ s.txn = "none"
    BY <1>1 DEF Applied, Accepted
  <2> QED BY <2>1 DEF SessInv, Sessions
<1>2. CASE do = "commit"
  BY <1>2, EndsInv DEF Applied
<1>3. CASE do = "rollback"
  BY <1>3, EndsInv DEF Applied
<1>4. CASE do = "call_commit"
  <2>1. Applied(s, do, n) = Reopened(Committed(s))
    BY <1>4 DEF Applied
  <2> QED BY <2>1, EndsInv, ReopenedInv
<1>5. CASE do = "call_rollback"
  <2>1. Applied(s, do, n) = Reopened(Dropped(s))
    BY <1>5 DEF Applied
  <2> QED BY <2>1, EndsInv, ReopenedInv
<1>6. CASE do = "savepoint"
  BY <1>6, PushInv
<1>7. CASE do = "release"
  BY <1>7, ReleaseInv DEF Accepted
<1>8. CASE do = "rollback_to"
  BY <1>8, RollbackToInv DEF Accepted
<1> QED BY <1>1, <1>2, <1>3, <1>4, <1>5, <1>6, <1>7, <1>8 DEF Commands

\* And so is a command that raised.
LEMMA RaisedInv ==
  ASSUME NEW s, SessInv(s), NEW do \in Commands, NEW n, Accepted(s, do, n),
         do = "savepoint" => n \in Saves, NEW r \in Raised(s, do, n)
  PROVE  SessInv(r) /\ (r.whole => s.whole)
<1>1. CASE r = s \/ r = Applied(s, do, n)
  BY <1>1, AppliedInv
<1>2. CASE r \in Spoiled(s)
  <2>1. r = [Dropped(s) EXCEPT !.whole = FALSE]
    BY <1>2 DEF Spoiled
  <2>2. SessInv(Dropped(s))
    BY EndsInv
  <2> QED BY <2>1, <2>2 DEF SessInv, Sessions
<1>3. CASE r \in HalfDone(s, do)
  <2>1. r \in {Committed(s), Dropped(s)}
    BY <1>3 DEF HalfDone, Commands
  <2> QED BY <2>1, EndsInv
<1> QED BY <1>1, <1>2, <1>3 DEF Raised

\* One command: it succeeds as the database defines it, is refused at no
\* cost, or costs a fault.
LEMMA SentInv ==
  ASSUME NEW s, SessInv(s), NEW f \in 0 .. MaxFaults, NEW do \in Commands, NEW n,
         do = "savepoint" => n \in Saves, NEW r \in Sent(s, f, do, n)
  PROVE  /\ SessInv(r.session) /\ (r.session.whole => s.whole)
         /\ r.faults \in f .. MaxFaults /\ r.faults \in 0 .. MaxFaults
         /\ r.ok => Accepted(s, do, n)
         /\ r.ok => r.faults = f
         /\ r.ok => r.session = Applied(s, do, n)
         /\ ~r.ok => IF Accepted(s, do, n)
                     THEN r.faults = f + 1 /\ r.session \in Raised(s, do, n)
                     ELSE r.faults = f /\ r.session = s
<1>0. f \in Nat /\ MaxFaults \in Nat
  BY ConstantsAssumption
<1>1. CASE ~Accepted(s, do, n)
  <2>1. r = [session |-> s, faults |-> f, ok |-> FALSE]
    BY <1>1 DEF Sent
  <2> QED BY <1>0, <1>1, <2>1
<1>2. CASE Accepted(s, do, n) /\ r = [session |-> Applied(s, do, n), faults |-> f, ok |-> TRUE]
  BY <1>0, <1>2, AppliedInv
<1>3. CASE /\ Accepted(s, do, n) /\ f < MaxFaults
           /\ \E q \in Raised(s, do, n) : r = [session |-> q, faults |-> f + 1, ok |-> FALSE]
  <2>1. PICK q \in Raised(s, do, n) : r = [session |-> q, faults |-> f + 1, ok |-> FALSE]
    BY <1>3
  <2>2. SessInv(q) /\ (q.whole => s.whole)
    BY <1>3, RaisedInv
  <2>3. r.session = q /\ r.faults = f + 1 /\ r.ok = FALSE
    BY <2>1
  <2> QED BY <1>0, <1>3, <2>2, <2>3
<1> QED BY <1>1, <1>2, <1>3 DEF Sent

\* The observer leaves the session alone; an interrupt costs a fault.
LEMMA ObservedInv ==
  ASSUME NEW s, NEW f \in 0 .. MaxFaults, NEW r,
         r = [session |-> s, faults |-> f, ok |-> TRUE], NEW o \in Observed(r)
  PROVE  /\ o.session = s /\ o.faults \in 0 .. MaxFaults
         /\ o.ok => o.faults = f
         /\ ~o.ok => o.faults = f + 1
<1>1. f \in Nat /\ MaxFaults \in Nat
  BY ConstantsAssumption
<1>2. r.session = s /\ r.faults = f /\ r.ok = TRUE
  OBVIOUS
<1>3. CASE o = r
  BY <1>1, <1>2, <1>3
<1>5. o = r \/ (f < MaxFaults /\ o = [r EXCEPT !.faults = @ + 1, !.ok = FALSE])
  BY <1>2 DEF Observed
<1>6. CASE f < MaxFaults /\ o = [r EXCEPT !.faults = @ + 1, !.ok = FALSE]
  <2>1. o.session = s /\ o.faults = r.faults + 1 /\ o.ok = FALSE
    BY <1>6
  <2> QED BY <1>1, <1>2, <1>6, <2>1
<1> QED BY <1>3, <1>5, <1>6

\* What a command or its observer ends with.
Outcome(r) == r = [session |-> r.session, faults |-> r.faults, ok |-> r.ok]

\* A command ends with an outcome.
LEMMA SentOutcome ==
  ASSUME NEW s, NEW f, NEW do, NEW n, NEW r \in Sent(s, f, do, n)
  PROVE  Outcome(r)
<1>1. PICK q, g, b : r = [session |-> q, faults |-> g, ok |-> b]
  BY DEF Sent
<1>2. r.session = q /\ r.faults = g /\ r.ok = b
  BY <1>1
<1> QED BY <1>1, <1>2 DEF Outcome

\* What went well may be reported as an earlier observer ended.
LEMMA Relabelled ==
  ASSUME NEW r, Outcome(r), NEW b, NEW u, u = [r EXCEPT !.ok = b]
  PROVE  Outcome(u) /\ u.session = r.session /\ u.faults = r.faults
<1>1. PICK s, f, c : r = [session |-> s, faults |-> f, ok |-> c]
  BY DEF Outcome
<1>2. u = [session |-> s, faults |-> f, ok |-> b]
  BY <1>1
<1>3. /\ r.session = s /\ r.faults = f
      /\ u.session = s /\ u.faults = f /\ u.ok = b
  BY <1>1, <1>2
<1> QED BY <1>2, <1>3 DEF Outcome

\* The observer leaves what was done alone, whether it is interrupted or not.
LEMMA ObservedOutcome ==
  ASSUME NEW r, Outcome(r), r.faults \in 0 .. MaxFaults, NEW o \in Observed(r)
  PROVE  /\ Outcome(o) /\ o.session = r.session
         /\ o.faults \in {r.faults, r.faults + 1} /\ o.faults \in 0 .. MaxFaults
<1>1. MaxFaults \in Nat
  BY ConstantsAssumption
<1>2. CASE o = r
  BY <1>2
<1>3. CASE o # r
  <2>1. PICK s, f, b : r = [session |-> s, faults |-> f, ok |-> b]
    BY DEF Outcome
  <2>2. r.session = s /\ r.faults = f
    BY <2>1
  <2>3. f < MaxFaults /\ o = [session |-> s, faults |-> f + 1, ok |-> FALSE]
    BY <1>3, <2>1, <2>2 DEF Observed
  <2>4. o.session = s /\ o.faults = f + 1 /\ o.ok = FALSE
    BY <2>3
  <2> QED BY <1>1, <2>2, <2>3, <2>4 DEF Outcome
<1> QED BY <1>2, <1>3

\* An operation that ends with its observer.
LEMMA ObservedEnds ==
  ASSUME NEW r, Outcome(r), r.faults \in 0 .. MaxFaults,
         \E o \in Observed(r) : Ends(o, Said(o))
  PROVE  /\ session' = r.session /\ faults' \in 0 .. MaxFaults
         /\ said' \in {"returned", "raised"}
         /\ mode' = mode /\ written' = written
<1>1. PICK o \in Observed(r) : Ends(o, Said(o))
  OBVIOUS
<1>2. o.session = r.session /\ o.faults \in 0 .. MaxFaults
  BY ObservedOutcome
<1> QED BY <1>1, <1>2 DEF Ends, Said

\* An operation that closes its handle.
LEMMA FinishEnds ==
  ASSUME NEW h, NEW r, Outcome(r), r.faults \in 0 .. MaxFaults, Finish(h, r)
  PROVE  /\ Shut({h} \union After(h)) /\ info' = info /\ minted' = minted
         /\ session' = r.session /\ faults' \in 0 .. MaxFaults
         /\ said' \in {"returned", "raised"}
         /\ mode' = mode /\ written' = written
BY ObservedEnds DEF Finish

-----------------------------------------------------------------------------
(* Which commands leave the savepoints of other names where they were.     *)

Keeps(s, r, N) ==
  /\ r.txn # "none" /\ r.root = s.root
  /\ \A m \in N : \A j : IsNewest(s, m, j) => IsNewest(r, m, j)

SaveCommands == {"savepoint", "release", "rollback_to"}

\* What a savepoint command can leave behind.
LEMMA RaisedSavepoints ==
  ASSUME NEW s, SessInv(s), NEW do \in SaveCommands, NEW n,
         NEW r \in Raised(s, do, n), r.whole
  PROVE  r \in {s, Applied(s, do, n)}
<1>1. HalfDone(s, do) = {}
  BY DEF HalfDone, SaveCommands
<1>2. ASSUME r \in Spoiled(s) PROVE FALSE
  <2>1. r = [Dropped(s) EXCEPT !.whole = FALSE] /\ Dropped(s) \in Sessions
    BY <1>2, EndsInv DEF Spoiled, SessInv
  <2> QED BY <2>1 DEF Sessions
<1> QED BY <1>1, <1>2 DEF Raised

\* A savepoint command is applied as a whole or not at all, until SQLite ends
\* the transaction by itself.
LEMMA SentSavepoints ==
  ASSUME NEW s, SessInv(s), NEW f \in 0 .. MaxFaults, NEW do \in Commands, NEW n,
         do = "savepoint" => n \in Saves, NEW r \in Sent(s, f, do, n),
         do \in SaveCommands
  PROVE  r.session.whole =>
           r.session = s \/ (Accepted(s, do, n) /\ r.session = Applied(s, do, n))
<1>1. r.ok => Accepted(s, do, n) /\ r.session = Applied(s, do, n)
  BY SentInv
<1>2. ~r.ok => IF Accepted(s, do, n) THEN r.session \in Raised(s, do, n)
               ELSE r.session = s
  BY SentInv
<1>3. r.session \in Raised(s, do, n) /\ r.session.whole
        => r.session \in {s, Applied(s, do, n)}
  BY RaisedSavepoints
<1> QED BY <1>1, <1>2, <1>3

\* SAVEPOINT leaves savepoints of other names where they were.
LEMMA SavepointKeeps ==
  ASSUME NEW s, SessInv(s), s.txn # "none", NEW f \in 0 .. MaxFaults,
         NEW N, NEW n \in Saves, n \notin N,
         NEW r \in Sent(s, f, "savepoint", n)
  PROVE  r.session.whole => Keeps(s, r.session, N)
<1> DEFINE q == Applied(s, "savepoint", n)
           e == [name |-> n, work |-> s.work]
<1>1. r.session.whole => r.session = s \/ r.session = q
  BY SentSavepoints DEF Commands, SaveCommands
<1>2. CASE r.session = s
  BY <1>2 DEF Keeps
<1>3. CASE r.session = q
  <2>1. q.txn # "none" /\ q.root = s.root
        /\ q.saves = Append(s.saves, e)
    BY PushInv
  <2>2. \A m, j : m # n /\ IsNewest(s, m, j) => IsNewest(q, m, j)
    <3>1. s \in Sessions /\ e.name = n
      BY DEF SessInv
    <3> HIDE DEF q, e
    <3> QED BY <2>1, <3>1, PushNewest
  <2> QED BY <1>3, <2>1, <2>2 DEF Keeps
<1> QED BY <1>1, <1>2, <1>3

\* ROLLBACK TO leaves the savepoints up to the one it names.
LEMMA RollbackToKeeps ==
  ASSUME NEW s, SessInv(s), s.txn # "none", NEW f \in 0 .. MaxFaults, NEW N, NEW n,
         \A m \in N : \A j : IsNewest(s, m, j) => j <= Newest(s, n),
         NEW r \in Sent(s, f, "rollback_to", n)
  PROVE  r.session.whole => Keeps(s, r.session, N)
<1> DEFINE q == Applied(s, "rollback_to", n)
<1>1. r.session.whole => r.session = s \/ (Has(s, n) /\ r.session = q)
  BY SentSavepoints DEF Accepted, Commands, SaveCommands
<1>2. CASE r.session = s
  BY <1>2 DEF Keeps
<1>3. CASE Has(s, n) /\ r.session = q
  <2>1. /\ q.txn = s.txn /\ q.root = s.root
        /\ q.saves = SubSeq(s.saves, 1, Newest(s, n))
    BY <1>3, RollbackToInv
  <2>2. s \in Sessions /\ Newest(s, n) \in 1 .. Len(s.saves)
    BY <1>3, NewestIs DEF SessInv
  <2>3. ASSUME NEW m \in N, NEW j, IsNewest(s, m, j) PROVE IsNewest(q, m, j)
    <3>1. j <= Newest(s, n)
      BY <2>3
    <3> HIDE DEF q
    <3> QED BY <2>1, <2>2, <2>3, <3>1, CutNewest
  <2> QED BY <1>3, <2>1, <2>3 DEF Keeps
<1> QED BY <1>1, <1>2, <1>3

\* RELEASE leaves the savepoints below the one it names.
LEMMA ReleaseKeeps ==
  ASSUME NEW s, SessInv(s), s.txn # "none", NEW f \in 0 .. MaxFaults, NEW N, NEW n,
         \A m \in N : \A j : IsNewest(s, m, j) => j < Newest(s, n),
         s.root => Newest(s, n) > 1,
         NEW r \in Sent(s, f, "release", n)
  PROVE  r.session.whole => Keeps(s, r.session, N)
<1> DEFINE q == Applied(s, "release", n)
<1>1. r.session.whole => r.session = s \/ (Has(s, n) /\ r.session = q)
  BY SentSavepoints DEF Accepted, Commands, SaveCommands
<1>2. CASE r.session = s
  BY <1>2 DEF Keeps
<1>3. CASE Has(s, n) /\ r.session = q
  <2>1. s \in Sessions /\ Newest(s, n) \in 1 .. Len(s.saves) /\ Len(s.saves) \in Nat
    BY <1>3, NewestIs DEF SessInv, Sessions
  <2>2. ~(s.root /\ Newest(s, n) = 1)
    BY <2>1
  <2>3. /\ q.txn = s.txn /\ q.root = s.root
        /\ q = [s EXCEPT !.saves = SubSeq(@, 1, Newest(s, n) - 1)]
    BY <1>3, <2>2, ReleaseInv
  <2>4. q.saves = SubSeq(s.saves, 1, Newest(s, n) - 1)
    BY <2>1, <2>3 DEF Sessions
  <2>5. ASSUME NEW m \in N, NEW j, IsNewest(s, m, j) PROVE IsNewest(q, m, j)
    <3>1. j < Newest(s, n) /\ j \in 1 .. Len(s.saves)
      BY <2>1, <2>5, NewestOne
    <3>2. Newest(s, n) - 1 \in 1 .. Len(s.saves) /\ j <= Newest(s, n) - 1
      BY <2>1, <3>1
    <3> HIDE DEF q
    <3> QED BY <2>1, <2>4, <2>5, <3>2, CutNewest
  <2> QED BY <1>3, <2>3, <2>5 DEF Keeps
<1> QED BY <1>1, <1>2, <1>3

-----------------------------------------------------------------------------
(* The registry: opening and closing handles.                              *)

\* Handles are numbers, and what the registry stores of them is well typed.
LEMMA Handles ==
  ASSUME RegInv
  PROVE  /\ made \in Nat /\ DOMAIN info = 1 .. made /\ open \subseteq Nat
         /\ \A h \in open : /\ h \in 1 .. made /\ info[h] \in Infos
                            /\ info[h].save \in Saves \union {NoSave}
<1>1. /\ made \in Nat /\ DOMAIN info = 1 .. made /\ open \subseteq 1 .. made
      /\ \A h \in 1 .. made : info[h] \in Infos
  BY DEF RegInv, made
<1>2. \A x \in Infos : x.save \in Saves \union {NoSave}
  BY DEF Infos
<1> QED BY <1>1, <1>2

\* Savepoint names are numbers other than NoSave.
LEMMA NameIsNumber ==
  /\ NoSave \notin Saves /\ Saves \subseteq Nat
  /\ \A k \in 1 .. MaxBegins : k \in Saves
BY ConstantsAssumption DEF NoSave, Saves

\* Closing a handle and all the later ones, and freeing their names.
LEMMA CloseSuffix ==
  ASSUME RegInv, NEW s \in 1 .. made, NEW S, S = {e \in open : e >= s},
         Shut(S), info' = info
  PROVE  /\ RegInv' /\ ScopeStep
         /\ open' = {e \in open : e < s}
<1>1. /\ made' = made /\ made \in Nat /\ s \in Nat /\ open \subseteq 1 .. made
      /\ open \subseteq Nat
  BY Handles DEF RegInv, made
<1>2. open' = {e \in open : e < s}
  <2>1. \A e \in open : e < s <=> ~(e >= s)
    BY <1>1
  <2> QED BY <2>1 DEF Shut
<1>3. ScopeStep
  BY <1>1, <1>2 DEF ScopeStep, Nesting!ScopeNext, Nesting!CloseFrom
<1>4. names' = NamesOf(open)' \ {NoSave}
  <2>1. names' = names \ NamesOf(S)
    BY DEF Shut
  <2>2. ASSUME NEW e \in open, NEW g \in S, info[e].save = info[g].save
        PROVE  e \in S
    BY <2>2 DEF RegInv
  <2>3. /\ NamesOf(open) = {info[e].save : e \in open}
        /\ NamesOf(S) = {info[e].save : e \in S}
        /\ NamesOf(open)' = {info[e].save : e \in open'}
    BY DEF NamesOf
  <2>4. open' = open \ S
    BY DEF Shut
  <2>5. names = NamesOf(open) \ {NoSave}
    BY DEF RegInv
  <2> QED BY <2>1, <2>2, <2>3, <2>4, <2>5
<1>5. \A h \in open' : info[h].save = NoSave <=> \A g \in open' : h <= g
  <2> SUFFICES ASSUME NEW h \in open'
               PROVE  info[h].save = NoSave <=> \A g \in open' : h <= g
    OBVIOUS
  <2>1. h \in open /\ h < s
    BY <1>2
  <2>2. (\A g \in open : h <= g) <=> (\A g \in open' : h <= g)
    BY <1>1, <1>2, <2>1
  <2> QED BY <2>1, <2>2 DEF RegInv
<1>6. ASSUME NEW h \in open', ~IsTx(h)
      PROVE  info[h].owner \in open' /\ info[h].owner < h /\ IsTx(info[h].owner)
  <2>1. h \in open /\ h < s /\ h \in Nat
    BY <1>1, <1>2
  <2>2. info[h].owner \in open /\ info[h].owner < h /\ IsTx(info[h].owner)
    BY <1>6, <2>1 DEF RegInv
  <2> QED BY <1>1, <1>2, <2>1, <2>2
<1>7. open' \subseteq open
  BY <1>2
<1>8. RegInv'
  <2>1. info' \in Seq(Infos) /\ open' \subseteq 1 .. made'
    BY <1>1, <1>7 DEF RegInv
  <2>2. \A g, h \in open' : info'[g].save = info'[h].save => g = h
    BY <1>7 DEF RegInv
  <2>3. \A h \in open' : info'[h].save = NoSave <=> \A g \in open' : h <= g
    BY <1>5
  <2>4. \A h \in open' : ~IsTx(h)' => /\ info'[h].owner \in open' /\ info'[h].owner < h
                                      /\ IsTx(info[h].owner)'
    BY <1>6 DEF IsTx
  <2> QED BY <1>4, <2>1, <2>2, <2>3, <2>4 DEF RegInv
<1> QED BY <1>2, <1>3, <1>8

\* Completing h closes h and every later handle.
LEMMA CloseHandle ==
  ASSUME RegInv, NEW h \in open, Shut({h} \union After(h)), info' = info
  PROVE  RegInv' /\ ScopeStep /\ open' = {e \in open : e < h}
<1>1. h \in 1 .. made /\ h \in Nat /\ open \subseteq Nat
  BY Handles
<1>2. {h} \union After(h) = {e \in open : e >= h}
  <2>1. \A e \in open : e >= h <=> e = h \/ e > h
    BY <1>1
  <2> QED BY <2>1 DEF After
<1> QED BY <1>1, <1>2, CloseSuffix

\* A rollback that keeps h closes the later handles only, possibly none.
LEMMA CloseLater ==
  ASSUME RegInv, NEW h \in open, Shut(After(h)), info' = info
  PROVE  RegInv' /\ ScopeStep /\ open' = {e \in open : e <= h}
<1>1. /\ h \in 1 .. made /\ h \in Nat /\ open \subseteq Nat /\ made \in Nat
      /\ \A e \in open : e \in Nat /\ e <= made
  BY Handles
<1>2. /\ After(h) = {e \in open : e >= h + 1}
      /\ {e \in open : e <= h} = {e \in open : e < h + 1}
  <2>1. \A e \in open : (e > h <=> e >= h + 1) /\ (e <= h <=> e < h + 1)
    BY <1>1
  <2> QED BY <2>1 DEF After
<1>3. CASE h + 1 \in 1 .. made
  BY <1>2, <1>3, CloseSuffix
<1>4. CASE h = made
  <2>0. \A e \in open : e <= h /\ ~(e > h)
    BY <1>1, <1>4
  <2>1. After(h) = {} /\ {e \in open : e <= h} = open
    BY <2>0 DEF After
  <2>2. open' = open /\ names' = names
    BY <2>1 DEF Shut, NamesOf
  <2> QED BY <2>1, <2>2 DEF RegInv, made, NamesOf, IsTx, ScopeStep
<1> QED BY <1>1, <1>3, <1>4

\* Recovery closes everything.
LEMMA CloseAll ==
  ASSUME RegInv, open # {}, open' = {}, names' = {}, info' = info
  PROVE  RegInv' /\ ScopeStep
<1>1. made' = made /\ made \in Nat /\ \A e \in open : e \in 1 .. made
  BY Handles DEF RegInv, made
<1>2. 1 \in 1 .. made /\ open' = {o \in open : o < 1}
  <2>1. PICK e \in open : TRUE
    OBVIOUS
  <2>2. e \in 1 .. made /\ \A o \in open : ~(o < 1)
    BY <1>1
  <2>3. 1 \in 1 .. made
    BY <1>1, <2>2
  <2> QED BY <2>2, <2>3
<1>3. ScopeStep
  BY <1>1, <1>2 DEF ScopeStep, Nesting!ScopeNext, Nesting!CloseFrom
<1> QED BY <1>3 DEF RegInv, made, NamesOf

\* An operation that changes no handle.
LEMMA SameHandles ==
  ASSUME RegInv, Registered
  PROVE  RegInv' /\ ScopeStep /\ open' = open /\ info' = info
BY DEF RegInv, Registered, made, NamesOf, IsTx, ScopeStep

\* A new handle: the outermost one without a name, or one inside the open
\* ones with a name that is free.
LEMMA OpenHandle ==
  ASSUME RegInv, NEW kind \in {"tx", "sp"}, NEW owner \in Nat,
         NEW save \in Saves \union {NoSave},
         save = NoSave <=> open = {}, save \notin names,
         kind = "sp" => owner \in open /\ IsTx(owner),
         Construct(kind, owner, save)
  PROVE  /\ RegInv' /\ ScopeStep
         /\ open' = open \union {made + 1} /\ made + 1 \notin open
         /\ info'[made + 1].save = save
         /\ \A h \in open : info'[h] = info[h] /\ h <= made /\ h \in Nat
<1> DEFINE new == [kind |-> kind, owner |-> owner, save |-> save]
           n == made + 1
<1>0. new \in Infos
  BY DEF Infos
<1>1. /\ made \in Nat /\ open \subseteq 1 .. made /\ info \in Seq(Infos)
      /\ new \in Infos /\ open' = open \union {n} /\ n \notin open
      /\ names' = names \union ({save} \ {NoSave})
  <2>1. made \in Nat /\ open \subseteq 1 .. made /\ info \in Seq(Infos)
    BY Handles DEF RegInv
  <2>2. n \notin open
    BY <2>1
  <2> QED BY <1>0, <2>1, <2>2 DEF Construct
<1>2. /\ info' \in Seq(Infos) /\ made' = n /\ info'[n] = new
      /\ \A h \in 1 .. made : info'[h] = info[h]
  <2>1. info' = Append(info, new) /\ made = Len(info) /\ made' = Len(info')
    BY DEF Construct, made
  <2> HIDE DEF new, made
  <2> QED BY <1>1, <2>1
<1>3. info'[n].kind = kind /\ info'[n].owner = owner /\ info'[n].save = save
  BY <1>2
<1> HIDE DEF new
<1>4. /\ n \in Nat
      /\ \A h \in open : info'[h] = info[h] /\ h < n /\ h <= made /\ h \in Nat
  BY <1>1, <1>2
<1>5. ScopeStep
  BY <1>1, <1>2 DEF ScopeStep, Nesting!ScopeNext, Nesting!OpenScope
<1>6. names' = NamesOf(open)' \ {NoSave}
  <2>1. NamesOf(open)' = NamesOf(open) \union {save}
    BY <1>1, <1>3, <1>4 DEF NamesOf
  <2> QED BY <1>1, <2>1 DEF RegInv
<1>7. \A h \in open : info[h].save # save
  <2>1. names = {info[e].save : e \in open} \ {NoSave}
    BY DEF RegInv, NamesOf
  <2>2. save # NoSave \/ open = {}
    OBVIOUS
  <2> QED BY <2>1, <2>2
<1>8. \A g, h \in open' : info'[g].save = info'[h].save => g = h
  <2>1. \A g, h \in open : info'[g].save = info'[h].save => g = h
    BY <1>4 DEF RegInv
  <2>2. \A g \in open : info'[g].save # info'[n].save
    BY <1>3, <1>4, <1>7
  <2> QED BY <1>1, <2>1, <2>2
<1>9. \A h \in open' : info'[h].save = NoSave <=> \A g \in open' : h <= g
  <2>1. ASSUME NEW h \in open
        PROVE  info'[h].save = NoSave <=> \A g \in open' : h <= g
    <3>1. info[h].save = NoSave <=> \A g \in open : h <= g
      BY DEF RegInv
    <3> QED BY <1>1, <1>4, <3>1
  <2>2. save = NoSave <=> \A g \in open' : n <= g
    BY <1>1, <1>4
  <2> SUFFICES ASSUME NEW h \in open'
               PROVE  info'[h].save = NoSave <=> \A g \in open' : h <= g
    OBVIOUS
  <2>3. CASE h \in open
    BY <2>1, <2>3
  <2>4. CASE h = n
    BY <1>3, <2>2, <2>4
  <2> QED BY <1>1, <2>3, <2>4
<1>10. ASSUME NEW h \in open', info'[h].kind # "tx"
       PROVE  /\ info'[h].owner \in open' /\ info'[h].owner < h
              /\ info'[info'[h].owner].kind = "tx"
  <2>1. CASE h \in open
    <3>1. ~IsTx(h) /\ info'[h] = info[h]
      BY <1>4, <1>10, <2>1 DEF IsTx
    <3>2. info[h].owner \in open /\ info[h].owner < h /\ IsTx(info[h].owner)
      BY <2>1, <3>1 DEF RegInv
    <3>3. info'[info[h].owner] = info[info[h].owner]
      BY <1>4, <3>2
    <3> QED BY <1>1, <3>1, <3>2, <3>3 DEF IsTx
  <2>2. CASE h = n
    <3>1. kind = "sp" /\ info'[h].owner = owner
      BY <1>3, <1>10, <2>2
    <3>2. owner \in open /\ info[owner].kind = "tx"
      BY <3>1 DEF IsTx
    <3>3. owner < n /\ info'[owner] = info[owner]
      BY <1>4, <3>2
    <3> QED BY <1>1, <2>2, <3>1, <3>2, <3>3
  <2> QED BY <1>1, <2>1, <2>2
<1>11. RegInv'
  <2>0. \A h \in open : h \in 1 .. n
    BY <1>1
  <2>1. info' \in Seq(Infos) /\ open' \subseteq 1 .. made'
    BY <1>1, <1>2, <1>4, <2>0
  <2>2. \A h \in open' : ~IsTx(h)' => /\ info'[h].owner \in open' /\ info'[h].owner < h
                                      /\ IsTx(info[h].owner)'
    BY <1>10 DEF IsTx
  <2> QED BY <1>6, <1>8, <1>9, <2>1, <2>2 DEF RegInv
<1> QED BY <1>1, <1>3, <1>4, <1>5, <1>11

-----------------------------------------------------------------------------
(* Handles and savepoints together.                                        *)

\* A session that still has the savepoints named in N where session has them.
Kept(r, N) == r.whole => session.whole /\ Keeps(session, r, N)

\* Savepoints that two commands keep one after the other are kept.
LEMMA KeptAlso ==
  ASSUME NEW s, NEW r, NEW N, Kept(s, N), r.whole => s.whole,
         s.txn # "none" /\ r.whole => Keeps(s, r, N)
  PROVE  Kept(r, N)
BY DEF Kept, Keeps

\* The savepoint of an open handle is there, and those of outer handles are
\* older.
LEMMA Positions ==
  ASSUME RegInv, SessInv(session), LiveInv(session), session.whole,
         NEW h \in open, info[h].save # NoSave
  PROVE  /\ session.txn # "none" /\ Has(session, info[h].save)
         /\ session.root => Newest(session, info[h].save) > 1
         /\ \A g \in open : \A j :
              g < h /\ info[g].save # NoSave /\ IsNewest(session, info[g].save, j)
                => j < Newest(session, info[h].save)
<1>1. /\ session.txn # "none" /\ Has(session, info[h].save)
      /\ session.root => Newest(session, info[h].save) > 1
  BY DEF LiveInv
<1>2. session \in Sessions /\ open \subseteq Nat
  BY Handles DEF SessInv
<1>3. ASSUME NEW g \in open, NEW j, g < h, info[g].save # NoSave,
             IsNewest(session, info[g].save, j)
      PROVE  j < Newest(session, info[h].save)
  <2>1. h > g
    BY <1>2, <1>3
  <2>2. Newest(session, info[h].save) > Newest(session, info[g].save)
    BY <1>3, <2>1 DEF LiveInv
  <2>3. /\ Newest(session, info[g].save) = j /\ j \in 1 .. Len(session.saves)
        /\ Newest(session, info[h].save) \in 1 .. Len(session.saves)
    BY <1>1, <1>2, <1>3, NewestOne, NewestIs
  <2>4. Len(session.saves) \in Nat
    BY <1>2 DEF Sessions
  <2> QED BY <2>2, <2>3, <2>4
<1> QED BY <1>1, <1>3

\* The handles that stay keep what they control.
LEMMA LiveKept ==
  ASSUME RegInv, SessInv(session), LiveInv(session), info' = info, open' \subseteq open,
         SessInv(session'), NEW N, open' # {} => Kept(session', N),
         \A h \in open' : info[h].save # NoSave => info[h].save \in N
  PROVE  LiveInv(session)'
<1> SUFFICES ASSUME session'.whole, NEW h \in open'
             PROVE  /\ session'.txn # "none"
                    /\ info'[h].save # NoSave =>
                         /\ Has(session', info'[h].save)
                         /\ session'.root => Newest(session', info'[h].save) > 1
                         /\ \A g \in open' : g > h =>
                              Newest(session', info'[g].save) > Newest(session', info'[h].save)
  BY DEF LiveInv, Has, Newest, IsNewest
<1>1. session.whole /\ Keeps(session, session', N)
  BY DEF Kept
<1>2. session \in Sessions /\ session' \in Sessions /\ open \subseteq Nat
  BY Handles DEF SessInv
<1>3. session'.txn # "none" /\ session'.root = session.root
  BY <1>1 DEF Keeps
<1>4. ASSUME NEW g \in open', info[g].save # NoSave
      PROVE  /\ Has(session', info[g].save) /\ Has(session, info[g].save)
             /\ Newest(session', info[g].save) = Newest(session, info[g].save)
  <2>1. Has(session, info[g].save) /\ info[g].save \in N
    BY <1>1, <1>4 DEF LiveInv
  <2>2. IsNewest(session, info[g].save, Newest(session, info[g].save))
    BY <1>2, <2>1, NewestIs
  <2>3. IsNewest(session', info[g].save, Newest(session, info[g].save))
    BY <1>1, <2>1, <2>2 DEF Keeps
  <2> QED BY <1>2, <2>1, <2>3, NewestOne
<1>5. ASSUME info[h].save # NoSave
      PROVE  session'.root => Newest(session', info[h].save) > 1
  BY <1>1, <1>3, <1>4, <1>5 DEF LiveInv
<1>6. ASSUME info[h].save # NoSave, NEW g \in open', g > h
      PROVE  Newest(session', info[g].save) > Newest(session', info[h].save)
  <2>1. info[g].save # NoSave
    <3>1. g \in open /\ h \in open /\ g \in Nat /\ h \in Nat
      BY <1>2
    <3>2. ~(g <= h)
      BY <1>6, <3>1
    <3> QED BY <3>1, <3>2 DEF RegInv
  <2>2. Newest(session, info[g].save) > Newest(session, info[h].save)
    BY <1>1, <1>6 DEF LiveInv
  <2> QED BY <1>4, <1>6, <2>1, <2>2
<1> QED BY <1>3, <1>4, <1>5, <1>6

\* A new handle controls the savepoint that was made for it.
LEMMA LiveOpened ==
  ASSUME RegInv, SessInv(session), LiveInv(session), open # {},
         NEW n \in Saves, n \notin names, session' = Applied(session, "savepoint", n),
         open' = open \union {made + 1}, info'[made + 1].save = n,
         \A h \in open : info'[h] = info[h]
  PROVE  LiveInv(session)'
<1> DEFINE e == [name |-> n, work |-> session.work]
           k == Len(session.saves) + 1
           m == made + 1
<1> SUFFICES ASSUME session'.whole
             PROVE  \A h \in open' :
                      /\ session'.txn # "none"
                      /\ info'[h].save # NoSave =>
                           /\ Has(session', info'[h].save)
                           /\ session'.root => Newest(session', info'[h].save) > 1
                           /\ \A g \in open' : g > h =>
                                Newest(session', info'[g].save) > Newest(session', info'[h].save)
  BY DEF LiveInv, Has, Newest, IsNewest
<1>1. /\ SessInv(session') /\ session.whole /\ session'.saves = Append(session.saves, e)
      /\ session.txn # "none" => session'.root = session.root
      /\ session'.txn # "none"
  BY PushInv
<1>2. session.txn # "none" /\ session'.root = session.root
  BY <1>1 DEF LiveInv
<1>3. /\ session \in Sessions /\ session' \in Sessions /\ e.name = n
      /\ Len(session.saves) \in Nat
  BY <1>1 DEF SessInv, Sessions
<1> HIDE DEF e
<1>4. /\ IsNewest(session', n, k)
      /\ \A a, j : a # n /\ IsNewest(session, a, j) => IsNewest(session', a, j)
  BY <1>1, <1>3, PushNewest
<1>5. Has(session', n) /\ Newest(session', n) = k
  BY <1>3, <1>4, NewestOne
<1>6. session.root => k > 1
  <2>1. session.root => Len(session.saves) # 0
    BY <1>3 DEF SessInv, Sessions
  <2> QED BY <1>3, <2>1
<1>7. ASSUME NEW h \in open, info[h].save # NoSave
      PROVE  /\ Has(session', info[h].save) /\ Has(session, info[h].save)
             /\ Newest(session', info[h].save) = Newest(session, info[h].save)
             /\ Newest(session, info[h].save) < k
  <2>1. Has(session, info[h].save)
    BY <1>1, <1>7 DEF LiveInv
  <2>2. /\ IsNewest(session, info[h].save, Newest(session, info[h].save))
        /\ Newest(session, info[h].save) \in 1 .. Len(session.saves)
    BY <1>3, <2>1, NewestIs
  <2>3. info[h].save # n
    BY <1>7 DEF RegInv, NamesOf
  <2>4. IsNewest(session', info[h].save, Newest(session, info[h].save))
    BY <1>4, <2>2, <2>3
  <2> QED BY <1>3, <2>1, <2>2, <2>4, NewestOne
<1>8. /\ \A h \in open : h \in Nat /\ h < m /\ ~(h > m)
      /\ m \in Nat /\ ~(m > m)
  BY Handles
<1>9. ASSUME NEW h \in open, info'[h].save # NoSave
      PROVE  /\ Has(session', info'[h].save)
             /\ session'.root => Newest(session', info'[h].save) > 1
             /\ \A g \in open' : g > h =>
                  Newest(session', info'[g].save) > Newest(session', info'[h].save)
  <2>1. info'[h] = info[h] /\ info[h].save # NoSave
    BY <1>9
  <2>2. /\ Has(session', info'[h].save)
        /\ session'.root => Newest(session', info'[h].save) > 1
    BY <1>1, <1>2, <1>7, <2>1 DEF LiveInv
  <2>3. ASSUME NEW g \in open, g > h
        PROVE  Newest(session', info'[g].save) > Newest(session', info'[h].save)
    <3>1. info[g].save # NoSave
      <4>1. ~(g <= h)
        BY <1>8, <2>3
      <4> QED BY <4>1 DEF RegInv
    <3>2. Newest(session, info[g].save) > Newest(session, info[h].save)
      BY <1>1, <2>1, <2>3 DEF LiveInv
    <3> QED BY <1>7, <2>1, <3>1, <3>2
  <2>4. Newest(session', info'[m].save) > Newest(session', info'[h].save)
    <3>1. Newest(session, info[h].save) \in Int /\ k \in Int
      BY <1>3, <1>7, <2>1, NewestIs
    <3> QED BY <1>5, <1>7, <2>1, <3>1
  <2> QED BY <2>2, <2>3, <2>4
<1>10. ASSUME NEW g \in open' PROVE ~(g > m)
  BY <1>8
<1> QED BY <1>1, <1>2, <1>5, <1>6, <1>9, <1>10

-----------------------------------------------------------------------------
(* What the operations' endings leave behind.                              *)

\* A savepoint that is the newest of all can be rolled back to or released.
LEMMA TopKeeps ==
  ASSUME NEW s, SessInv(s), s.txn # "none", NEW f \in 0 .. MaxFaults, NEW N, NEW n,
         n \notin N, IsNewest(s, n, Len(s.saves)), s.root => Len(s.saves) > 1
  PROVE  /\ \A r \in Sent(s, f, "rollback_to", n) : r.session.whole => Keeps(s, r.session, N)
         /\ \A r \in Sent(s, f, "release", n) : r.session.whole => Keeps(s, r.session, N)
<1>1. s \in Sessions /\ Len(s.saves) \in Nat
  BY DEF SessInv, Sessions
<1>2. Newest(s, n) = Len(s.saves)
  BY <1>1, NewestOne
<1>3. ASSUME NEW m \in N, NEW j, IsNewest(s, m, j)
      PROVE  j < Newest(s, n) /\ j <= Newest(s, n)
  <2>1. j \in 1 .. Len(s.saves)
    BY <1>1, <1>3, NewestOne
  <2>2. j # Len(s.saves)
    BY <1>3 DEF IsNewest
  <2> QED BY <1>1, <1>2, <2>1, <2>2
<1>4. s.root => Newest(s, n) > 1
  BY <1>2
<1>5. ASSUME NEW r \in Sent(s, f, "rollback_to", n)
      PROVE  r.session.whole => Keeps(s, r.session, N)
  BY <1>3, RollbackToKeeps
<1>6. ASSUME NEW r \in Sent(s, f, "release", n)
      PROVE  r.session.whole => Keeps(s, r.session, N)
  BY <1>3, <1>4, ReleaseKeeps
<1> QED BY <1>5, <1>6

\* The same in what ROLLBACK TO leaves of such a session.
LEMMA TopAgain ==
  ASSUME NEW s \in Sessions, SessInv(s), NEW n, NEW k, k = Len(s.saves), IsNewest(s, n, k)
  PROVE  /\ SessInv(Applied(s, "rollback_to", n))
         /\ Applied(s, "rollback_to", n).txn = s.txn
         /\ Applied(s, "rollback_to", n).root = s.root
         /\ Len(Applied(s, "rollback_to", n).saves) = k
         /\ IsNewest(Applied(s, "rollback_to", n), n, k)
<1> DEFINE r == Applied(s, "rollback_to", n)
<1>1. k \in Nat /\ s.saves \in Seq(Savepoints)
  BY DEF Sessions
<1>2. /\ Newest(s, n) = k /\ Has(s, n) /\ k \in 1 .. Len(s.saves)
  BY NewestOne
<1>3. /\ SessInv(r) /\ r.txn = s.txn /\ r.root = s.root
      /\ r.saves = SubSeq(s.saves, 1, k)
  BY <1>2, RollbackToInv
<1> HIDE DEF r
<1>4. Len(SubSeq(s.saves, 1, k)) = k
  BY <1>1
<1>5. k <= k
  BY <1>1
<1>6. IsNewest(r, n, k)
  BY <1>2, <1>3, <1>5, CutNewest
<1> QED BY <1>3, <1>4, <1>6 DEF r

\* The session after SAVEPOINT, with the new savepoint on top.
LEMMA Pushed ==
  ASSUME SessInv(session), NEW n \in Saves, NEW s, s = Applied(session, "savepoint", n)
  PROVE  /\ SessInv(s) /\ s.whole = session.whole /\ s.txn # "none"
         /\ IsNewest(s, n, Len(s.saves))
         /\ session.txn # "none" => (s.root => Len(s.saves) > 1)
<1> DEFINE e == [name |-> n, work |-> session.work]
<1>1. /\ SessInv(s) /\ s.whole = session.whole /\ s.txn # "none"
      /\ s.saves = Append(session.saves, e)
      /\ session.txn # "none" => s.root = session.root
  BY PushInv
<1>2. session \in Sessions /\ e.name = n /\ Len(session.saves) \in Nat
  BY DEF SessInv, Sessions
<1> HIDE DEF e
<1>3. IsNewest(s, n, Len(session.saves) + 1) /\ Len(s.saves) = Len(session.saves) + 1
  BY <1>1, <1>2, PushNewest
<1>4. session.root => Len(session.saves) # 0
  BY <1>2 DEF SessInv, Sessions
<1> QED BY <1>1, <1>2, <1>3, <1>4

\* A raw ROLLBACK: nothing of relq's stays open, or a fault was spent.
LEMMA RolledBack ==
  ASSUME NEW s, SessInv(s), NEW f \in 0 .. MaxFaults,
         NEW q \in Sent(s, f, "rollback", NoSave)
  PROVE  /\ SessInv(q.session) /\ q.faults \in 0 .. MaxFaults
         /\ q.session.txn = "relq" => q.faults = f + 1
<1>1. "rollback" \in Commands /\ "rollback" # "savepoint"
  BY DEF Commands
<1>2. SessInv(q.session) /\ q.faults \in 0 .. MaxFaults
  BY <1>1, SentInv
<1>3. q.ok => q.session = Applied(s, "rollback", NoSave)
  BY <1>1, SentInv
<1>4. ~q.ok => IF Accepted(s, "rollback", NoSave) THEN q.faults = f + 1
               ELSE q.session = s
  BY <1>1, SentInv
<1>5. Applied(s, "rollback", NoSave).txn = "none"
  BY EndsInv DEF Applied
<1>6. Accepted(s, "rollback", NoSave) <=> s.txn # "none"
  BY DEF Accepted
<1> QED BY <1>2, <1>3, <1>4, <1>5, <1>6

\* An operation that completed and closed h and everything inside it.
LEMMA FinishOK ==
  ASSUME NextInv, NEW h \in open, NEW r, Finish(h, r), Outcome(r),
         SessInv(r.session), r.faults \in 0 .. MaxFaults,
         NEW N, (\E g \in open : g < h) => Kept(r.session, N),
         \A g \in open : g < h /\ info[g].save # NoSave => info[g].save \in N,
         session.whole /\ (\A g \in open : h <= g) => r.session.txn # "relq"
  PROVE  StepOK
<1>1. /\ Shut({h} \union After(h)) /\ info' = info /\ minted' = minted
      /\ session' = r.session /\ faults' \in 0 .. MaxFaults
      /\ said' \in {"returned", "raised"}
      /\ mode' = mode /\ written' = written
  BY FinishEnds
<1>2. RegInv' /\ ScopeStep /\ open' = {e \in open : e < h}
  BY <1>1, CloseHandle DEF NextInv
<1>3. LiveInv(session)'
  <2>1. open' # {} => Kept(session', N)
    BY <1>1, <1>2
  <2> QED BY <1>1, <1>2, <2>1, LiveKept DEF NextInv
<1>4. RestInv'
  BY <1>1 DEF NextInv, RestInv
<1>5. Lost
  <2>1. open \subseteq Nat
    BY Handles DEF NextInv
  <2>2. open' = {} => \A g \in open : h <= g
    BY <1>2, <2>1
  <2> QED BY <1>1, <2>2 DEF Lost, Stranded
<1> QED BY <1>1, <1>2, <1>3, <1>4, <1>5 DEF StepOK, NextInv

\* A control command of a handle that failed.
LEMMA RecoverOK ==
  ASSUME NextInv, NEW h \in open, NEW r, Recover(h, r),
         SessInv(r.session), r.faults \in 0 .. MaxFaults,
         session.whole => r.faults \in {faults + 1, faults + 2}
  PROVE  StepOK
<1>1. PICK q \in Sent(r.session, r.faults, "rollback", NoSave) : Ends(q, "raised")
  BY DEF Recover
<1>2. /\ open' = {} /\ names' = {} /\ info' = info /\ minted' = minted
      /\ session' = q.session /\ faults' = q.faults /\ said' = "raised"
      /\ mode' = mode /\ written' = written
  BY <1>1 DEF Recover, Ends
<1>3. RegInv' /\ ScopeStep
  BY <1>2, CloseAll DEF NextInv
<1>4. /\ SessInv(session') /\ q.faults \in 0 .. MaxFaults
      /\ session'.txn = "relq" => q.faults = r.faults + 1
  BY <1>2, RolledBack
<1>5. LiveInv(session)'
  BY <1>2 DEF LiveInv
<1>6. RestInv'
  BY <1>2, <1>4 DEF NextInv, RestInv
<1>7. Lost
  <2>1. faults \in Int
    BY DEF NextInv, RestInv
  <2> QED BY <1>2, <1>4, <2>1 DEF Lost, Stranded
<1> QED BY <1>3, <1>4, <1>5, <1>6, <1>7 DEF StepOK, NextInv

\* An operation inside the open handles that changes none of them.
LEMMA InsideOK ==
  ASSUME NextInv, open # {}, Registered, mode' = mode, minted' \in 0 .. MaxBegins,
         written' = written, faults' \in 0 .. MaxFaults, said' = "raised",
         SessInv(session'), NEW N, Kept(session', N),
         \A g \in open : info[g].save # NoSave => info[g].save \in N
  PROVE  StepOK
<1>1. RegInv' /\ ScopeStep /\ open' = open /\ info' = info
  BY SameHandles DEF NextInv
<1>2. LiveInv(session)'
  BY <1>1, LiveKept DEF NextInv
<1>3. RestInv' /\ Lost
  BY <1>1 DEF NextInv, RestInv, Lost, Stranded
<1> QED BY <1>1, <1>2, <1>3 DEF StepOK, NextInv

\* An operation outside every handle that opens none.
LEMMA OutsideOK ==
  ASSUME NextInv, open = {}, Registered, RestInv', SessInv(session'), Lost
  PROVE  StepOK
<1>1. RegInv' /\ ScopeStep /\ open' = open
  BY SameHandles DEF NextInv
<1>2. LiveInv(session)'
  BY <1>1 DEF LiveInv
<1> QED BY <1>1, <1>2 DEF StepOK, NextInv

-----------------------------------------------------------------------------
(* begin() and savepoint().                                                *)

\* A registry without transactions is empty.
LEMMA NoStack ==
  ASSUME RegInv
  PROVE  (Stack = {} <=> open = {}) /\ (open = {} => names = {})
<1>1. ASSUME NEW h \in open PROVE Stack # {}
  <2>1. CASE IsTx(h)
    BY <2>1 DEF Stack
  <2>2. CASE ~IsTx(h)
    BY <2>2 DEF Stack, RegInv
  <2> QED BY <2>1, <2>2
<1>2. open = {} => names = {}
  BY DEF RegInv, NamesOf
<1> QED BY <1>1, <1>2 DEF Stack

\* What a command that went well ends with.
LEMMA SentRecord ==
  ASSUME NEW s, NEW f, NEW do, NEW n, NEW r \in Sent(s, f, do, n), r.ok
  PROVE  r = [session |-> Applied(s, do, n), faults |-> f, ok |-> TRUE]
<1>1. CASE ~Accepted(s, do, n)
  <2>1. r = [session |-> s, faults |-> f, ok |-> FALSE]
    BY <1>1 DEF Sent
  <2>2. r.ok = FALSE
    BY <2>1
  <2> QED BY <2>2
<1>2. CASE \E q \in Raised(s, do, n) : r = [session |-> q, faults |-> f + 1, ok |-> FALSE]
  <2>1. PICK q : r = [session |-> q, faults |-> f + 1, ok |-> FALSE]
    BY <1>2
  <2>2. r.ok = FALSE
    BY <2>1
  <2> QED BY <2>2
<1> QED BY <1>1, <1>2 DEF Sent

\* The names of the open handles, and that the session has them.
LEMMA HasNames ==
  ASSUME NextInv
  PROVE  /\ \A g \in open : info[g].save # NoSave => info[g].save \in names
         /\ open # {} => Kept(session, names)
<1>1. \A g \in open : info[g].save # NoSave => info[g].save \in names
  BY DEF NextInv, RegInv, NamesOf
<1>2. open # {} /\ session.whole => session.txn # "none"
  BY DEF NextInv, LiveInv
<1> QED BY <1>1, <1>2 DEF Kept, Keeps

\* SAVEPOINT with a name that is free.
LEMMA SavepointSent ==
  ASSUME NextInv, open # {}, NEW n \in Saves, n \notin names,
         NEW r \in Sent(session, faults, "savepoint", n)
  PROVE  /\ SessInv(r.session) /\ r.faults \in 0 .. MaxFaults /\ Kept(r.session, names)
<1>1. SessInv(session) /\ faults \in 0 .. MaxFaults /\ "savepoint" \in Commands
  BY DEF NextInv, RestInv, Commands
<1>2. SessInv(r.session) /\ r.faults \in 0 .. MaxFaults /\ (r.session.whole => session.whole)
  BY <1>1, SentInv
<1>3. session.txn # "none" => (r.session.whole => Keeps(session, r.session, names))
  BY <1>1, SavepointKeeps
<1> QED BY <1>2, <1>3, HasNames, KeptAlso

\* A session with the savepoint n of the operation on top of the handles'.
UndoCommands == {"release", "rollback_to"}
OnTop(s, n, k) ==
  /\ SessInv(s) /\ s.txn # "none" /\ IsNewest(s, n, k) /\ k = Len(s.saves)
  /\ s.whole => session.whole
  /\ session.whole => (s.root => k > 1)
  /\ Kept(s, names)

\* The savepoint it makes is the newest of all.
LEMMA MadeOnTop ==
  ASSUME NextInv, open # {}, NEW n \in Saves, n \notin names
  PROVE  OnTop(Applied(session, "savepoint", n), n, Len(Applied(session, "savepoint", n).saves))
<1> DEFINE s == Applied(session, "savepoint", n)
           e == [name |-> n, work |-> session.work]
<1>1. SessInv(session) /\ (session.whole => session.txn # "none")
  BY DEF NextInv, LiveInv
<1>2. /\ SessInv(s) /\ s.whole = session.whole /\ s.txn # "none"
      /\ IsNewest(s, n, Len(s.saves))
      /\ session.txn # "none" => (s.root => Len(s.saves) > 1)
  BY <1>1, Pushed
<1>3. /\ s.saves = Append(session.saves, e)
      /\ session.txn # "none" => s.root = session.root
  BY <1>1, PushInv
<1>4. session \in Sessions /\ e.name = n
  BY <1>1 DEF SessInv
<1> HIDE DEF s, e
<1>5. \A m, j : m # n /\ IsNewest(session, m, j) => IsNewest(s, m, j)
  BY <1>3, <1>4, PushNewest
<1>6. \A m \in names : \A j : IsNewest(session, m, j) => IsNewest(s, m, j)
  BY <1>5
<1>7. Kept(s, names)
  BY <1>1, <1>2, <1>3, <1>6 DEF Kept, Keeps
<1>8. OnTop(s, n, Len(s.saves))
  BY <1>1, <1>2, <1>7 DEF OnTop
<1> QED BY <1>8 DEF s

\* Both commands that undo such a savepoint leave the handles alone.
LEMMA UndoKept ==
  ASSUME NEW t, NEW n, NEW k, OnTop(t, n, k), n \notin names, NEW f \in 0 .. MaxFaults,
         NEW do \in UndoCommands, NEW q \in Sent(t, f, do, n)
  PROVE  SessInv(q.session) /\ q.faults \in 0 .. MaxFaults /\ Kept(q.session, names)
<1>1. /\ do \in Commands /\ do # "savepoint"
      /\ "release" \in UndoCommands /\ "rollback_to" \in UndoCommands
      /\ do = "release" \/ do = "rollback_to"
  BY DEF UndoCommands, Commands
<1>2. /\ SessInv(t) /\ t.txn # "none" /\ (t.whole => session.whole) /\ Kept(t, names)
      /\ IsNewest(t, n, Len(t.saves))
      /\ session.whole => (t.root => Len(t.saves) > 1)
  BY DEF OnTop
<1>3. /\ SessInv(q.session) /\ q.faults \in 0 .. MaxFaults
      /\ q.session.whole => t.whole
  BY <1>1, <1>2, SentInv
<1>4. CASE session.whole
  <2>1. t.root => Len(t.saves) > 1
    BY <1>2, <1>4
  <2>2. q.session.whole => Keeps(t, q.session, names)
    BY <1>1, <1>2, <2>1, TopKeeps
  <2> QED BY <1>2, <1>3, <2>2, KeptAlso
<1>5. CASE ~session.whole
  BY <1>2, <1>3, <1>5 DEF Kept
<1> QED BY <1>3, <1>4, <1>5

\* ROLLBACK TO leaves the savepoint on top.
LEMMA StillOnTop ==
  ASSUME NEW t, NEW n, NEW k, OnTop(t, n, k), n \notin names, NEW f \in 0 .. MaxFaults,
         NEW u \in Sent(t, f, "rollback_to", n), u.ok
  PROVE  OnTop(u.session, n, k)
<1>1. /\ "rollback_to" \in Commands /\ "rollback_to" # "savepoint"
      /\ "rollback_to" \in UndoCommands
  BY DEF UndoCommands, Commands
<1>2. u.session = Applied(t, "rollback_to", n)
  <2>1. u = [session |-> Applied(t, "rollback_to", n), faults |-> f, ok |-> TRUE]
    BY SentRecord
  <2> QED BY <2>1
<1>3. SessInv(t) /\ t \in Sessions /\ IsNewest(t, n, k) /\ k = Len(t.saves)
  BY DEF OnTop, SessInv
<1> DEFINE r == Applied(t, "rollback_to", n)
<1>8. /\ SessInv(r) /\ r.txn = t.txn /\ r.root = t.root
      /\ Len(r.saves) = k /\ IsNewest(r, n, k)
  BY <1>3, TopAgain
<1>9. u.session = r
  BY <1>2
<1> HIDE DEF r
<1>4. /\ SessInv(u.session) /\ u.session.txn = t.txn /\ u.session.root = t.root
      /\ Len(u.session.saves) = k /\ IsNewest(u.session, n, k)
  BY <1>8, <1>9
<1>5. Kept(u.session, names)
  BY <1>1, UndoKept
<1>6. u.session.whole => session.whole
  BY <1>5 DEF Kept
<1>7. t.txn # "none" /\ (session.whole => (t.root => k > 1))
  BY DEF OnTop
<1> QED BY <1>4, <1>5, <1>6, <1>7 DEF OnTop

-----------------------------------------------------------------------------
(* One lemma per action.                                                   *)

\* A handle opened inside the open ones, with the savepoint made for it.
LEMMA NestedOK ==
  ASSUME NextInv, open # {}, NEW n \in Saves, n \notin names,
         NEW kind \in {"tx", "sp"}, NEW owner \in Nat,
         kind = "sp" => owner \in open /\ IsTx(owner),
         Construct(kind, owner, n), session' = Applied(session, "savepoint", n),
         RestInv'
  PROVE  StepOK
<1>1. n # NoSave /\ n \in Saves \union {NoSave}
  BY NameIsNumber
<1>2. /\ RegInv' /\ ScopeStep /\ open' = open \union {made + 1}
      /\ info'[made + 1].save = n /\ \A h \in open : info'[h] = info[h]
  BY <1>1, OpenHandle DEF NextInv
<1>3. SessInv(session)'
  <2>1. SessInv(session')
    BY PushInv DEF NextInv
  <2> QED BY <2>1 DEF SessInv
<1>4. LiveInv(session)'
  BY <1>2, LiveOpened DEF NextInv
<1>5. Lost
  BY <1>2 DEF Lost, Stranded
<1> QED BY <1>2, <1>3, <1>4, <1>5 DEF StepOK, NextInv

\* A handle opened outside every handle, in a transaction.
LEMMA OutermostOK ==
  ASSUME NextInv, open = {}, Construct("tx", NoSave, NoSave), SessInv(session'),
         session'.txn # "none", RestInv'
  PROVE  StepOK
<1>1. NoSave \notin names /\ NoSave \in Nat
  BY NoStack DEF NextInv, NoSave
<1>2. /\ RegInv' /\ ScopeStep /\ open' = {made + 1} /\ info'[made + 1].save = NoSave
  BY <1>1, OpenHandle DEF NextInv
<1>3. LiveInv(session)'
  BY <1>2 DEF LiveInv
<1>4. Lost
  BY <1>2 DEF Lost, Stranded
<1>5. SessInv(session)'
  BY DEF SessInv
<1> QED BY <1>2, <1>3, <1>4, <1>5 DEF StepOK, NextInv

\* begin() in the caller's transaction.
LEMMA BeginAdoptsOK ==
  ASSUME NextInv, BeginAdopts
  PROVE  StepOK
<1> DEFINE s == [session EXCEPT !.whole = TRUE]
<1>1. open = {} /\ session.txn # "none" /\ Construct("tx", NoSave, NoSave)
  BY NoStack DEF NextInv, BeginAdopts
<1>2. /\ session' = s /\ faults' = faults /\ said' = "returned"
      /\ mode' = mode /\ written' = written /\ minted' = minted
  BY DEF BeginAdopts, Ends
<1>3. SessInv(s) /\ s.txn # "none"
  BY <1>1 DEF NextInv, SessInv, Sessions
<1>4. RestInv'
  BY <1>2 DEF NextInv, RestInv
<1> HIDE DEF s
<1> QED BY <1>1, <1>2, <1>3, <1>4, OutermostOK

\* A begin() that failed outside every handle.
LEMMA UndoStartOK ==
  ASSUME NextInv, open = {}, minted' = minted, NEW r, UndoStart(r), SessInv(r.session),
         r.faults \in 0 .. MaxFaults, r.faults = faults + 1
  PROVE  StepOK
<1>1. PICK q \in Sent(r.session, r.faults, "rollback", NoSave) : Ends(q, "raised")
  BY DEF UndoStart
<1>2. /\ session' = q.session /\ faults' = q.faults /\ said' = "raised"
      /\ mode' = mode /\ written' = written /\ Registered
  BY <1>1 DEF Ends, UndoStart
<1>3. /\ SessInv(session') /\ faults' \in 0 .. MaxFaults
      /\ session'.txn = "relq" => faults' = r.faults + 1
  BY <1>2, RolledBack
<1>4. RestInv'
  BY <1>2, <1>3 DEF NextInv, RestInv
<1>5. Lost
  <2>1. faults \in Int
    BY DEF NextInv, RestInv
  <2> QED BY <1>3, <2>1 DEF Lost, Stranded
<1> QED BY <1>2, <1>3, <1>4, <1>5, OutsideOK

\* begin() outside every transaction.
LEMMA BeginTopOK ==
  ASSUME NextInv, BeginTop
  PROVE  StepOK
<1> DEFINE s == [session EXCEPT !.whole = TRUE]
<1>1. open = {} /\ session.txn = "none" /\ minted' = minted
  BY NoStack DEF NextInv, BeginTop
<1>2. SessInv(s) /\ s.txn = "none" /\ faults \in 0 .. MaxFaults
  BY <1>1 DEF NextInv, RestInv, SessInv, Sessions
<1>3. PICK r \in Sent(s, faults, "begin", NoSave) :
        \/ ~r.ok /\ UndoStart(r)
        \/ /\ r.ok
           /\ \E o \in Observed(r) :
                IF o.ok THEN Construct("tx", NoSave, NoSave) /\ Ends(o, "returned")
                ELSE UndoStart(o)
  BY DEF BeginTop
<1>4. "begin" \in Commands /\ "begin" # "savepoint" /\ Accepted(s, "begin", NoSave)
  BY <1>2 DEF Commands, Accepted
<1> HIDE DEF s
<1>5. /\ SessInv(r.session) /\ r.faults \in 0 .. MaxFaults
      /\ ~r.ok => r.faults = faults + 1
  BY <1>2, <1>4, SentInv
<1>6. CASE ~r.ok
  BY <1>1, <1>3, <1>5, <1>6, UndoStartOK
<1>7. CASE r.ok
  <2>1. r = [session |-> Applied(s, "begin", NoSave), faults |-> faults, ok |-> TRUE]
    BY <1>7, SentRecord
  <2>2. PICK o \in Observed(r) :
          IF o.ok THEN Construct("tx", NoSave, NoSave) /\ Ends(o, "returned")
          ELSE UndoStart(o)
    BY <1>3, <1>7
  <2> DEFINE b == Applied(s, "begin", NoSave)
  <2>3. b = [s EXCEPT !.txn = "relq"] /\ s \in Sessions
    BY <1>2 DEF Applied, SessInv
  <2>4. b.txn # "none" /\ r.session = b
    BY <2>1, <2>3 DEF Sessions
  <2> HIDE DEF b
  <2>5. /\ o.session = b /\ o.faults \in 0 .. MaxFaults
        /\ ~o.ok => o.faults = faults + 1
    BY <1>2, <2>1, ObservedInv DEF b
  <2>6. SessInv(b)
    BY <1>5, <2>4
  <2>7. CASE o.ok
    <3>1. /\ session' = b /\ faults' = o.faults /\ said' = "returned"
          /\ mode' = mode /\ written' = written
      BY <2>2, <2>5, <2>7 DEF Ends
    <3>2. RestInv'
      BY <1>1, <2>5, <3>1 DEF NextInv, RestInv
    <3> QED BY <1>1, <2>2, <2>4, <2>6, <2>7, <3>1, <3>2, OutermostOK
  <2>8. CASE ~o.ok
    BY <1>1, <2>2, <2>5, <2>6, <2>8, UndoStartOK
  <2> QED BY <2>7, <2>8
<1> QED BY <1>6, <1>7

\* A start inside the open handles that raised and undid what it could.
LEMMA FailedInside ==
  ASSUME NextInv, open # {}, Registered, minted' \in 0 .. MaxBegins,
         NEW q, Ends(q, "raised"), SessInv(q.session), q.faults \in 0 .. MaxFaults,
         Kept(q.session, names)
  PROVE  StepOK
<1>1. /\ session' = q.session /\ faults' = q.faults /\ said' = "raised"
      /\ mode' = mode /\ written' = written
  BY DEF Ends
<1> QED BY <1>1, HasNames, InsideOK

\* An operation whose savepoint name is taken.
LEMMA RefuseOK ==
  ASSUME NextInv, open # {}, Refuse, minted' \in 0 .. MaxBegins
  PROVE  StepOK
<1>1. /\ session' = session /\ faults' = faults /\ said' = "raised"
      /\ mode' = mode /\ written' = written /\ Registered
  BY DEF Refuse, Ends
<1>2. faults \in 0 .. MaxFaults /\ SessInv(session) /\ Kept(session, names)
  BY HasNames DEF NextInv, RestInv
<1> QED BY <1>1, <1>2, HasNames, InsideOK

\* SAVEPOINT succeeded; so did the observer, or it was interrupted.
LEMMA SavepointObserved ==
  ASSUME NextInv, NEW n, NEW r \in Sent(session, faults, "savepoint", n), r.ok,
         NEW o \in Observed(r)
  PROVE  o.session = Applied(session, "savepoint", n) /\ o.faults \in 0 .. MaxFaults
<1>1. r = [session |-> Applied(session, "savepoint", n), faults |-> faults, ok |-> TRUE]
  BY SentRecord
<1>2. faults \in 0 .. MaxFaults
  BY DEF NextInv, RestInv
<1> QED BY <1>1, <1>2, ObservedInv

\* begin() inside a handle.
LEMMA BeginNestedOK ==
  ASSUME NextInv, BeginNested
  PROVE  StepOK
<1> DEFINE n == minted + 1
<1>1. /\ open # {} /\ minted' = n /\ n \in 0 .. MaxBegins /\ n \in 1 .. MaxBegins
  <2>1. open # {} /\ minted' = n /\ minted < MaxBegins /\ minted \in 0 .. MaxBegins
    BY NoStack DEF NextInv, RestInv, BeginNested
  <2>2. MaxBegins \in Nat
    BY ConstantsAssumption
  <2> QED BY <2>1, <2>2
<1>2. n \in Saves /\ NoSave \in Nat
  BY <1>1, NameIsNumber DEF NoSave
<1>3. \/ Refuse
      \/ /\ n \notin names
         /\ \E r \in Sent(session, faults, "savepoint", n) :
              \/ ~r.ok /\ Registered /\ Ends(r, "raised")
              \/ /\ r.ok
                 /\ \E o \in Observed(r) :
                      IF o.ok THEN Construct("tx", NoSave, n) /\ Ends(o, "returned")
                      ELSE UndoSavepoint(o, n)
  BY <1>1 DEF BeginNested
<1> HIDE DEF n
<1>4. CASE Refuse
  BY <1>1, <1>4, RefuseOK
<1>5. CASE ~Refuse
  <2>1. n \notin names
    BY <1>3, <1>5
  <2>2. PICK r \in Sent(session, faults, "savepoint", n) :
              \/ ~r.ok /\ Registered /\ Ends(r, "raised")
              \/ /\ r.ok
                 /\ \E o \in Observed(r) :
                      IF o.ok THEN Construct("tx", NoSave, n) /\ Ends(o, "returned")
                      ELSE UndoSavepoint(o, n)
    BY <1>3, <1>5
  <2>3. SessInv(r.session) /\ r.faults \in 0 .. MaxFaults /\ Kept(r.session, names)
    BY <1>1, <1>2, <2>1, SavepointSent
  <2>4. CASE ~r.ok
    BY <1>1, <2>2, <2>3, <2>4, FailedInside
  <2>5. CASE r.ok
    <3>1. PICK o \in Observed(r) :
            IF o.ok THEN Construct("tx", NoSave, n) /\ Ends(o, "returned")
            ELSE UndoSavepoint(o, n)
      BY <2>2, <2>5
    <3>2. o.session = Applied(session, "savepoint", n) /\ o.faults \in 0 .. MaxFaults
      BY <2>5, SavepointObserved
    <3>3. CASE o.ok
      <4>1. /\ Construct("tx", NoSave, n) /\ session' = o.session /\ faults' = o.faults
            /\ said' = "returned" /\ mode' = mode /\ written' = written
        BY <3>1, <3>3 DEF Ends
      <4>2. RestInv'
        BY <1>1, <3>2, <4>1 DEF NextInv, RestInv
      <4> QED BY <1>1, <1>2, <2>1, <3>2, <4>1, <4>2, NestedOK
    <3>4. CASE ~o.ok
      <4>1. OnTop(o.session, n, Len(o.session.saves))
        BY <1>1, <1>2, <2>1, <3>2, MadeOnTop
      <4>2. PICK u \in Sent(o.session, o.faults, "rollback_to", n) :
              \/ ~u.ok /\ Ends(u, "raised")
              \/ u.ok /\ \E q \in Sent(u.session, u.faults, "release", n) : Ends(q, "raised")
        BY <3>1, <3>4 DEF UndoSavepoint
      <4>3. Registered
        BY <3>1, <3>4 DEF UndoSavepoint
      <4>4. "release" \in UndoCommands /\ "rollback_to" \in UndoCommands
        BY DEF UndoCommands
      <4>5. SessInv(u.session) /\ u.faults \in 0 .. MaxFaults /\ Kept(u.session, names)
        BY <2>1, <3>2, <4>1, <4>4, UndoKept
      <4>6. CASE ~u.ok
        BY <1>1, <4>2, <4>3, <4>5, <4>6, FailedInside
      <4>7. CASE u.ok
        <5>1. PICK q \in Sent(u.session, u.faults, "release", n) : Ends(q, "raised")
          BY <4>2, <4>7
        <5>2. OnTop(u.session, n, Len(o.session.saves))
          BY <2>1, <3>2, <4>1, <4>7, StillOnTop
        <5>3. SessInv(q.session) /\ q.faults \in 0 .. MaxFaults /\ Kept(q.session, names)
          BY <2>1, <4>4, <4>5, <5>2, UndoKept
        <5> QED BY <1>1, <4>3, <5>1, <5>3, FailedInside
      <4> QED BY <4>6, <4>7
    <3> QED BY <3>3, <3>4
  <2> QED BY <2>4, <2>5
<1> QED BY <1>4, <1>5

\* savepoint() of a handle.
LEMMA SavepointOK ==
  ASSUME NextInv, NEW t \in open, NEW n \in Name, Savepoint(t, n)
  PROVE  StepOK
<1>1. n \in Saves /\ t \in Nat /\ IsTx(t) /\ minted' = minted
  BY Handles DEF NextInv, Saves, Savepoint
<1>2. minted' \in 0 .. MaxBegins
  BY <1>1 DEF NextInv, RestInv
<1>3. CASE Refuse
  BY <1>2, <1>3, RefuseOK
<1>4. CASE ~Refuse
  <2>1. n \notin names
    BY <1>4 DEF Savepoint
  <2>2. PICK r \in Sent(session, faults, "savepoint", n) :
          \/ ~r.ok /\ Registered /\ Ends(r, "raised")
          \/ /\ r.ok
             /\ \E o \in Observed(r) :
                  IF o.ok THEN Construct("sp", t, n) /\ Ends(o, "returned")
                  ELSE /\ Registered
                       /\ \E q \in Sent(o.session, o.faults, "release", n) : Ends(q, "raised")
    BY <1>4 DEF Savepoint
  <2>3. SessInv(r.session) /\ r.faults \in 0 .. MaxFaults /\ Kept(r.session, names)
    BY <1>1, <2>1, SavepointSent
  <2>4. CASE ~r.ok
    BY <1>2, <2>2, <2>3, <2>4, FailedInside
  <2>5. CASE r.ok
    <3>1. PICK o \in Observed(r) :
            IF o.ok THEN Construct("sp", t, n) /\ Ends(o, "returned")
            ELSE /\ Registered
                 /\ \E q \in Sent(o.session, o.faults, "release", n) : Ends(q, "raised")
      BY <2>2, <2>5
    <3>2. o.session = Applied(session, "savepoint", n) /\ o.faults \in 0 .. MaxFaults
      BY <2>5, SavepointObserved
    <3>3. CASE o.ok
      <4>1. /\ Construct("sp", t, n) /\ session' = o.session /\ faults' = o.faults
            /\ said' = "returned" /\ mode' = mode /\ written' = written
        BY <3>1, <3>3 DEF Ends
      <4>2. RestInv'
        BY <1>2, <3>2, <4>1 DEF NextInv, RestInv
      <4> QED BY <1>1, <2>1, <3>2, <4>1, <4>2, NestedOK
    <3>4. CASE ~o.ok
      <4>1. OnTop(o.session, n, Len(o.session.saves))
        BY <1>1, <2>1, <3>2, MadeOnTop
      <4>2. Registered
        BY <3>1, <3>4
      <4>3. PICK q \in Sent(o.session, o.faults, "release", n) : Ends(q, "raised")
        BY <3>1, <3>4
      <4>4. "release" \in UndoCommands
        BY DEF UndoCommands
      <4>5. SessInv(q.session) /\ q.faults \in 0 .. MaxFaults /\ Kept(q.session, names)
        BY <2>1, <3>2, <4>1, <4>4, UndoKept
      <4> QED BY <1>2, <4>2, <4>3, <4>5, FailedInside
    <3> QED BY <3>3, <3>4
  <2> QED BY <2>4, <2>5
<1> QED BY <1>3, <1>4

\* The names of the handles around h.
Around(h) == {info[g].save : g \in {e \in open : e < h}} \ {NoSave}

\* The outermost handle's command on the whole transaction.
LEMMA ControlSent ==
  ASSUME NextInv, NEW h \in open, info[h].save = NoSave,
         NEW do, do = Control("commit") \/ do = Control("rollback"),
         NEW r \in Sent(session, faults, do, NoSave)
  PROVE  /\ SessInv(r.session) /\ r.faults \in 0 .. MaxFaults
         /\ \A g \in open : h <= g
         /\ r.ok => r.session.txn # "relq"
         /\ ~r.ok /\ session.whole => r.faults = faults + 1
<1>1. do = "commit" \/ do = "rollback" \/ do = "call_commit" \/ do = "call_rollback"
  BY DEF Control
<1>2. do \in Commands /\ do # "savepoint"
  BY <1>1 DEF Commands
<1>3. SessInv(session) /\ faults \in 0 .. MaxFaults
  BY DEF NextInv, RestInv
<1>4. \A g \in open : h <= g
  BY DEF NextInv, RegInv
<1>5. session.whole => session.txn # "none"
  BY DEF NextInv, LiveInv
<1>6. session.whole => Accepted(session, do, NoSave)
  BY <1>1, <1>5 DEF Accepted
<1>7. /\ SessInv(r.session) /\ r.faults \in 0 .. MaxFaults
      /\ r.ok => r.session = Applied(session, do, NoSave)
      /\ ~r.ok => IF Accepted(session, do, NoSave) THEN r.faults = faults + 1
                  ELSE r.faults = faults
  BY <1>2, <1>3, SentInv
<1>8. Applied(session, do, NoSave).txn # "relq"
  <2>1. Dropped(session).txn = "none" /\ Committed(session).txn = "none"
    BY <1>3, EndsInv
  <2>2. SessInv(Dropped(session)) /\ SessInv(Committed(session))
    BY <1>3, EndsInv
  <2>3. Reopened(Dropped(session)).txn # "relq" /\ Reopened(Committed(session)).txn # "relq"
    BY <2>1, <2>2, ReopenedInv
  <2>4. CASE do = "commit"
    BY <2>1, <2>4 DEF Applied
  <2>5. CASE do = "rollback"
    BY <2>1, <2>5 DEF Applied
  <2>6. CASE do = "call_commit"
    BY <2>3, <2>6 DEF Applied
  <2>7. CASE do = "call_rollback"
    BY <2>3, <2>7 DEF Applied
  <2> QED BY <1>1, <2>4, <2>5, <2>6, <2>7
<1> QED BY <1>4, <1>6, <1>7, <1>8

\* A nested handle's RELEASE of its savepoint, in the session as it stands or
\* in what its ROLLBACK TO left.
LEMMA ReleaseSent ==
  ASSUME NextInv, NEW h \in open, info[h].save # NoSave,
         NEW s, SessInv(s), NEW f \in 0 .. MaxFaults,
         session.whole /\ s.whole => Keeps(session, s, Around(h) \union {info[h].save}),
         s.whole => session.whole,
         NEW r \in Sent(s, f, "release", info[h].save)
  PROVE  /\ SessInv(r.session) /\ r.faults \in 0 .. MaxFaults
         /\ Kept(r.session, Around(h))
         /\ ~r.ok /\ s.whole => r.faults = f + 1
<1> DEFINE n == info[h].save
           N == Around(h)
<1>1. "release" \in Commands /\ "release" # "savepoint"
  BY DEF Commands
<1>2. /\ SessInv(r.session) /\ r.faults \in 0 .. MaxFaults
      /\ r.session.whole => s.whole
      /\ ~r.ok => IF Accepted(s, "release", n) THEN r.faults = f + 1 ELSE r.faults = f
  BY <1>1, SentInv
<1>3. CASE ~s.whole
  BY <1>2, <1>3 DEF Kept
<1>4. CASE s.whole
  <2>1. /\ session.txn # "none" /\ Has(session, n)
        /\ session.root => Newest(session, n) > 1
        /\ \A g \in open : \A j :
             g < h /\ info[g].save # NoSave /\ IsNewest(session, info[g].save, j)
               => j < Newest(session, n)
    BY <1>4, Positions DEF NextInv
  <2>2. session.whole /\ Keeps(session, s, N \union {n})
    BY <1>4
  <2>3. session \in Sessions /\ s \in Sessions
    BY DEF NextInv, SessInv
  <2>4. IsNewest(session, n, Newest(session, n))
    BY <2>1, <2>3, NewestIs
  <2>5. IsNewest(s, n, Newest(session, n)) /\ s.txn # "none" /\ s.root = session.root
    BY <2>2, <2>4 DEF Keeps
  <2>6. Has(s, n) /\ Newest(s, n) = Newest(session, n)
    BY <2>3, <2>5, NewestOne
  <2>7. ASSUME NEW m \in N, NEW j, IsNewest(s, m, j)
        PROVE  j < Newest(s, n)
    <3>1. PICK g \in open : g < h /\ info[g].save = m /\ m # NoSave
      BY DEF Around
    <3>2. Has(session, m)
      BY <2>2, <3>1 DEF NextInv, LiveInv
    <3>3. IsNewest(session, m, Newest(session, m))
      BY <2>3, <3>2, NewestIs
    <3>4. IsNewest(s, m, Newest(session, m))
      BY <2>2, <3>3 DEF Keeps
    <3>5. j = Newest(session, m)
      BY <2>3, <2>7, <3>4, NewestOne
    <3> QED BY <2>1, <2>6, <3>1, <3>3, <3>5
  <2>8. r.session.whole => Keeps(s, r.session, N)
    <3> HIDE DEF n, N
    <3> QED BY <2>1, <2>5, <2>6, <2>7, ReleaseKeeps DEF n
  <2>9. Kept(s, N)
    BY <2>2 DEF Kept, Keeps
  <2>10. Kept(r.session, N)
    BY <1>2, <2>8, <2>9, KeptAlso
  <2>11. Accepted(s, "release", n)
    BY <2>6 DEF Accepted
  <2> QED BY <1>2, <2>10, <2>11
<1> QED BY <1>2, <1>3, <1>4

\* The savepoints that a handle's ROLLBACK TO keeps are not newer than its own.
LEMMA AroundOlder ==
  ASSUME NextInv, session.whole, NEW h \in open, info[h].save # NoSave,
         NEW m \in Around(h) \union {info[h].save}, NEW j, IsNewest(session, m, j)
  PROVE  j <= Newest(session, info[h].save)
<1>1. session \in Sessions
  BY DEF NextInv, SessInv
<1>2. Len(session.saves) \in Nat
  BY <1>1 DEF Sessions
<1>3. Has(session, info[h].save)
  BY Positions DEF NextInv
<1>4. /\ Newest(session, info[h].save) \in 1 .. Len(session.saves)
      /\ Newest(session, m) = j /\ j \in 1 .. Len(session.saves)
  BY <1>1, <1>3, NewestIs, NewestOne
<1>5. CASE m = info[h].save
  BY <1>2, <1>4, <1>5
<1>6. CASE m \in Around(h)
  <2>1. PICK g \in open : g < h /\ info[g].save = m /\ m # NoSave
    BY <1>6 DEF Around
  <2>2. j < Newest(session, info[h].save)
    BY <2>1, Positions DEF NextInv
  <2> QED BY <1>2, <1>4, <2>2
<1> QED BY <1>5, <1>6

\* What ROLLBACK TO leaves: its target is there, so failing costs a fault.
LEMMA RollbackToSent ==
  ASSUME NEW s, SessInv(s), NEW f \in 0 .. MaxFaults, NEW n,
         NEW r \in Sent(s, f, "rollback_to", n)
  PROVE  /\ SessInv(r.session) /\ r.faults \in 0 .. MaxFaults
         /\ r.session.whole => s.whole
         /\ r.ok => r.session.whole = s.whole
         /\ r.ok => r.faults = f
         /\ ~r.ok /\ Has(s, n) => r.faults = f + 1
<1>1. "rollback_to" \in Commands /\ "rollback_to" # "savepoint"
  BY DEF Commands
<1>2. /\ SessInv(r.session) /\ r.faults \in 0 .. MaxFaults
      /\ r.session.whole => s.whole
  BY <1>1, SentInv
<1>3. Accepted(s, "rollback_to", n) <=> Has(s, n)
  BY DEF Accepted
<1>4. r.ok => r.session.whole = s.whole
  BY <1>1, <1>3, SentInv, RollbackToInv
<1>5. /\ r.ok => r.faults = f
      /\ ~r.ok => IF Accepted(s, "rollback_to", n) THEN r.faults = f + 1 ELSE r.faults = f
  BY <1>1, SentInv
<1> QED BY <1>2, <1>3, <1>4, <1>5

\* The command on the whole transaction went well, or it failed.
LEMMA ControlEnds ==
  ASSUME NextInv, NEW h \in open, info[h].save = NoSave,
         NEW do, do = Control("commit") \/ do = Control("rollback"),
         NEW r \in Sent(session, faults, do, NoSave),
         IF r.ok THEN Finish(h, r) ELSE Recover(h, r)
  PROVE  StepOK
<1>1. /\ SessInv(r.session) /\ r.faults \in 0 .. MaxFaults
      /\ \A g \in open : h <= g
      /\ r.ok => r.session.txn # "relq"
      /\ ~r.ok /\ session.whole => r.faults = faults + 1
  BY ControlSent
<1>2. CASE r.ok
  <2>1. ~ \E g \in open : g < h
    <3>1. open \subseteq Nat
      BY Handles DEF NextInv
    <3> QED BY <1>1, <3>1
  <2>2. Finish(h, r)
    BY <1>2
  <2> QED BY <1>1, <1>2, <2>1, <2>2, SentOutcome, FinishOK
<1>3. CASE ~r.ok
  BY <1>1, <1>3, RecoverOK
<1> QED BY <1>2, <1>3

\* The names that stay when h is closed.
LEMMA Inner ==
  ASSUME NextInv, NEW h \in open, info[h].save # NoSave
  PROVE  /\ ~ \A g \in open : h <= g
         /\ \A g \in open : g < h /\ info[g].save # NoSave => info[g].save \in Around(h)
BY DEF NextInv, RegInv, Around

\* A nested handle's RELEASE in the session as it stands.
LEMMA ReleaseEnds ==
  ASSUME NextInv, NEW h \in open, info[h].save # NoSave,
         NEW r \in Sent(session, faults, "release", info[h].save),
         IF r.ok THEN Finish(h, r) ELSE Recover(h, r)
  PROVE  StepOK
<1>1. SessInv(session) /\ faults \in 0 .. MaxFaults
  BY DEF NextInv, RestInv
<1>2. session.whole => Keeps(session, session, Around(h) \union {info[h].save})
  BY DEF NextInv, LiveInv, Keeps
<1>3. /\ SessInv(r.session) /\ r.faults \in 0 .. MaxFaults
      /\ Kept(r.session, Around(h))
      /\ ~r.ok /\ session.whole => r.faults = faults + 1
  BY <1>1, <1>2, ReleaseSent
<1>4. CASE r.ok
  BY <1>3, <1>4, Inner, SentOutcome, FinishOK
<1>5. CASE ~r.ok
  BY <1>3, <1>5, RecoverOK
<1> QED BY <1>4, <1>5

\* commit() of a handle.
LEMMA CommitOK ==
  ASSUME NextInv, NEW h \in open, Commit(h)
  PROVE  StepOK
<1>1. CASE info[h].save = NoSave
  <2>1. PICK r \in Sent(session, faults, Control("commit"), NoSave) :
          IF r.ok THEN Finish(h, r) ELSE Recover(h, r)
    BY <1>1 DEF Commit
  <2> QED BY <1>1, <2>1, ControlEnds
<1>2. CASE info[h].save # NoSave
  <2>1. PICK r \in Sent(session, faults, "release", info[h].save) :
          IF r.ok THEN Finish(h, r) ELSE Recover(h, r)
    BY <1>2 DEF Commit
  <2> QED BY <1>2, <2>1, ReleaseEnds
<1> QED BY <1>1, <1>2

\* rollback() of the outermost handle.
LEMMA RollbackTopOK ==
  ASSUME NextInv, NEW h \in open, RollbackTop(h)
  PROVE  StepOK
<1>1. PICK r \in Sent(session, faults, Control("rollback"), NoSave) :
        IF r.ok THEN Finish(h, r) ELSE Recover(h, r)
  BY DEF RollbackTop
<1>2. info[h].save = NoSave
  BY DEF RollbackTop
<1> QED BY <1>1, <1>2, ControlEnds

\* ROLLBACK TO a nested handle's own savepoint.
LEMMA RollbackToOwn ==
  ASSUME NextInv, NEW h \in open, info[h].save # NoSave,
         NEW r \in Sent(session, faults, "rollback_to", info[h].save)
  PROVE  /\ SessInv(r.session) /\ r.faults \in 0 .. MaxFaults
         /\ Kept(r.session, Around(h) \union {info[h].save})
         /\ r.ok => r.session.whole = session.whole
         /\ r.ok => r.faults = faults
         /\ ~r.ok /\ session.whole => r.faults = faults + 1
<1>1. SessInv(session) /\ faults \in 0 .. MaxFaults
  BY DEF NextInv, RestInv
<1>2. session.whole => session.txn # "none" /\ Has(session, info[h].save)
  BY DEF NextInv, LiveInv
<1>3. /\ SessInv(r.session) /\ r.faults \in 0 .. MaxFaults
      /\ r.session.whole => session.whole
      /\ r.ok => r.session.whole = session.whole
      /\ r.ok => r.faults = faults
      /\ ~r.ok /\ Has(session, info[h].save) => r.faults = faults + 1
  BY <1>1, RollbackToSent
<1>4. Kept(r.session, Around(h) \union {info[h].save})
  <2> SUFFICES ASSUME r.session.whole
               PROVE  Keeps(session, r.session, Around(h) \union {info[h].save})
    BY <1>3 DEF Kept
  <2>1. session.whole /\ session.txn # "none"
    BY <1>2, <1>3
  <2>2. \A m \in Around(h) \union {info[h].save} : \A j :
          IsNewest(session, m, j) => j <= Newest(session, info[h].save)
    BY <2>1, AroundOlder
  <2> QED BY <1>1, <2>1, <2>2, RollbackToKeeps
<1> QED BY <1>2, <1>3, <1>4

\* rollback() of a nested handle.
LEMMA RollbackNestedOK ==
  ASSUME NextInv, NEW h \in open, RollbackNested(h)
  PROVE  StepOK
<1>1. info[h].save # NoSave
  BY DEF RollbackNested
<1>2. PICK r \in Sent(session, faults, "rollback_to", info[h].save) :
        IF ~r.ok THEN Recover(h, r)
        ELSE \E o \in Observed(r) :
               \E q \in Sent(o.session, o.faults, "release", info[h].save) :
                 IF q.ok THEN Finish(h, [q EXCEPT !.ok = o.ok]) ELSE Recover(h, q)
  BY DEF RollbackNested
<1>3. /\ SessInv(r.session) /\ r.faults \in 0 .. MaxFaults
      /\ Kept(r.session, Around(h) \union {info[h].save})
      /\ r.ok => r.session.whole = session.whole
      /\ r.ok => r.faults = faults
      /\ ~r.ok /\ session.whole => r.faults = faults + 1
  BY <1>1, RollbackToOwn
<1>4. CASE ~r.ok
  BY <1>2, <1>3, <1>4, RecoverOK
<1>5. CASE r.ok
  <2>1. PICK o \in Observed(r) :
          \E q \in Sent(o.session, o.faults, "release", info[h].save) :
            IF q.ok THEN Finish(h, [q EXCEPT !.ok = o.ok]) ELSE Recover(h, q)
    BY <1>2, <1>5
  <2>2. /\ o.session = r.session /\ o.faults \in 0 .. MaxFaults
        /\ o.faults \in {faults, faults + 1}
    BY <1>3, <1>5, SentOutcome, ObservedOutcome
  <2>3. PICK q \in Sent(r.session, o.faults, "release", info[h].save) :
          IF q.ok THEN Finish(h, [q EXCEPT !.ok = o.ok]) ELSE Recover(h, q)
    BY <2>1, <2>2
  <2>4. /\ r.session.whole => session.whole
        /\ r.session.whole => Keeps(session, r.session, Around(h) \union {info[h].save})
    BY <1>3 DEF Kept
  <2>5. /\ SessInv(q.session) /\ q.faults \in 0 .. MaxFaults
        /\ Kept(q.session, Around(h))
        /\ ~q.ok /\ r.session.whole => q.faults = o.faults + 1
    BY <1>1, <1>3, <2>2, <2>4, ReleaseSent
  <2>6. CASE q.ok
    <3>1. PICK u : u = [q EXCEPT !.ok = o.ok]
      OBVIOUS
    <3>2. Outcome(u) /\ u.session = q.session /\ u.faults = q.faults
      BY <3>1, SentOutcome, Relabelled
    <3>3. Finish(h, u)
      BY <2>3, <2>6, <3>1
    <3> QED BY <1>1, <2>5, <3>2, <3>3, Inner, FinishOK
  <2>7. CASE ~q.ok
    <3>1. faults \in Int
      BY DEF NextInv, RestInv
    <3>2. session.whole => q.faults \in {faults + 1, faults + 2}
      <4> SUFFICES ASSUME session.whole PROVE q.faults \in {faults + 1, faults + 2}
        OBVIOUS
      <4>1. r.session.whole
        BY <1>3, <1>5
      <4>2. q.faults = o.faults + 1
        BY <2>5, <2>7, <4>1
      <4> QED BY <2>2, <3>1, <4>2
    <3> QED BY <2>3, <2>5, <2>7, <3>2, RecoverOK
  <2> QED BY <2>6, <2>7
<1> QED BY <1>4, <1>5

\* A savepoint handle always has a name: the outermost handle is no savepoint.
LEMMA SavepointNamed ==
  ASSUME NextInv, NEW h \in open, ~IsTx(h)
  PROVE  info[h].save # NoSave
<1>1. info[h].owner \in open /\ info[h].owner < h
  BY DEF NextInv, RegInv
<1>2. h \in Nat /\ info[h].owner \in Nat
  BY <1>1, Handles DEF NextInv
<1>3. ~(h <= info[h].owner)
  BY <1>1, <1>2
<1> QED BY <1>1, <1>3 DEF NextInv, RegInv

\* release() of a savepoint.
LEMMA ReleaseOK ==
  ASSUME NextInv, NEW h \in open, Release(h)
  PROVE  StepOK
<1>1. info[h].save # NoSave
  BY SavepointNamed DEF Release
<1>2. PICK r \in Sent(session, faults, "release", info[h].save) :
        IF r.ok THEN Finish(h, r) ELSE Recover(h, r)
  BY DEF Release
<1> QED BY <1>1, <1>2, ReleaseEnds

\* rollback() of a savepoint.
LEMMA RollbackToOK ==
  ASSUME NextInv, NEW h \in open, RollbackTo(h)
  PROVE  StepOK
<1>1. info[h].save # NoSave
  BY SavepointNamed DEF RollbackTo
<1>2. PICK r \in Sent(session, faults, "rollback_to", info[h].save) :
        IF r.ok THEN /\ Shut(After(h)) /\ UNCHANGED <<info, minted>>
                     /\ \E o \in Observed(r) : Ends(o, Said(o))
        ELSE Recover(h, r)
  BY DEF RollbackTo
<1>3. /\ SessInv(r.session) /\ r.faults \in 0 .. MaxFaults
      /\ Kept(r.session, Around(h) \union {info[h].save})
      /\ ~r.ok /\ session.whole => r.faults = faults + 1
  BY <1>1, RollbackToOwn
<1>4. CASE ~r.ok
  BY <1>2, <1>3, <1>4, RecoverOK
<1>5. CASE r.ok
  <2>1. /\ Shut(After(h)) /\ info' = info /\ minted' = minted
        /\ session' = r.session /\ faults' \in 0 .. MaxFaults
        /\ said' \in {"returned", "raised"}
        /\ mode' = mode /\ written' = written
    BY <1>2, <1>3, <1>5, SentOutcome, ObservedEnds
  <2>2. RegInv' /\ ScopeStep /\ open' = {e \in open : e <= h}
    BY <2>1, CloseLater DEF NextInv
  <2>3. open \subseteq Nat
    BY Handles DEF NextInv
  <2>4. h \in open' /\ open' \subseteq open
    BY <2>2, <2>3
  <2>5. \A g \in open' : info[g].save # NoSave => info[g].save \in Around(h) \union {info[h].save}
    <3>1. \A g \in open' : g \in open /\ (g < h \/ g = h)
      BY <2>2, <2>3
    <3> QED BY <3>1 DEF Around
  <2>6. LiveInv(session)'
    BY <1>3, <2>1, <2>4, <2>5, LiveKept DEF NextInv
  <2>7. RestInv'
    BY <1>3, <2>1 DEF NextInv, RestInv
  <2>8. Lost
    BY <2>4 DEF Lost, Stranded
  <2>9. SessInv(session)'
    BY <1>3, <2>1
  <2> QED BY <2>2, <2>6, <2>7, <2>8, <2>9 DEF StepOK, NextInv
<1> QED BY <1>4, <1>5

\* A step that leaves the registry alone.
LEMMA QuietOK ==
  ASSUME NextInv, info' = info, open' = open, names' = names, RestInv', SessInv(session'),
         open # {} => Kept(session', names),
         session'.txn = "relq" => session.txn = "relq"
  PROVE  StepOK
<1>1. Registered
  BY DEF Registered
<1>2. RegInv' /\ ScopeStep
  BY <1>1, SameHandles DEF NextInv
<1>3. LiveInv(session)'
  <2>1. CASE open = {}
    BY <2>1 DEF LiveInv
  <2>2. CASE open # {}
    BY <2>2, HasNames, LiveKept DEF NextInv
  <2> QED BY <2>1, <2>2
<1>4. Lost
  BY DEF Lost, Stranded
<1>5. SessInv(session)'
  OBVIOUS
<1> QED BY <1>2, <1>3, <1>4, <1>5 DEF StepOK, NextInv

\* A statement that writes, whether its observer is interrupted or not.
LEMMA ExecuteEnds ==
  ASSUME NextInv, Execute
  PROVE  /\ info' = info /\ open' = open /\ names' = names /\ minted' = minted
         /\ mode' = mode /\ faults' \in 0 .. MaxFaults
         /\ said' \in {"returned", "raised"}
         /\ written < MaxWrites /\ written' = written + 1
         /\ session' = Wrote(session, written')
<1>1. PICK w, s : w = written' /\ s = Wrote(session, w)
  OBVIOUS
<1>2. PICK r : r = [session |-> s, faults |-> faults, ok |-> TRUE]
  OBVIOUS
<1>3. PICK o \in Observed(r) : session' = o.session /\ faults' = o.faults /\ said' = Said(o)
  BY <1>1, <1>2 DEF Execute
<1>4. faults \in 0 .. MaxFaults
  BY DEF NextInv, RestInv
<1>5. o.session = s /\ o.faults \in 0 .. MaxFaults
  BY <1>2, <1>4, ObservedInv
<1>6. said' \in {"returned", "raised"}
  BY <1>3 DEF Said
<1>7. session' = Wrote(session, written')
  BY <1>1, <1>3, <1>5
<1> QED BY <1>3, <1>5, <1>6, <1>7 DEF Execute, Silent

\* A statement that writes.
LEMMA ExecuteOK ==
  ASSUME NextInv, Execute
  PROVE  StepOK
<1>1. /\ info' = info /\ open' = open /\ names' = names /\ minted' = minted
      /\ mode' = mode /\ faults' \in 0 .. MaxFaults
      /\ said' \in {"returned", "raised"}
      /\ written < MaxWrites /\ written' = written + 1
      /\ session' = Wrote(session, written')
  BY ExecuteEnds
<1>2. written \in 0 .. MaxWrites /\ MaxWrites \in Nat
  BY ConstantsAssumption DEF NextInv, RestInv
<1>3. written' \in Write /\ written' \in 0 .. MaxWrites
  BY <1>1, <1>2 DEF Write
<1>4. RestInv'
  BY <1>1, <1>3 DEF NextInv, RestInv
<1>5. session \in Sessions /\ SessInv(session)
  BY DEF NextInv, SessInv
<1>6. open # {} /\ session.whole => session.txn # "none"
  BY DEF NextInv, LiveInv
<1>7. CASE session.txn # "none" \/ mode = "legacy"
  <2> DEFINE t == IF session.txn = "none" THEN "caller" ELSE session.txn
             w == session.work \union {written'}
             s == [session EXCEPT !.txn = t, !.work = w]
  <2>1. session' = s
    BY <1>1, <1>7 DEF Wrote
  <2>2. t \in {"none", "caller", "relq"} /\ w \in SUBSET Write /\ t # "none"
    BY <1>3, <1>5 DEF Sessions
  <2>3. t = "relq" => session.txn = "relq"
    OBVIOUS
  <2> HIDE DEF t, w
  <2>4. /\ s \in Sessions /\ s.txn = t /\ s.saves = session.saves
        /\ s.root = session.root /\ s.whole = session.whole
    BY <1>5, <2>2 DEF Sessions
  <2> HIDE DEF s
  <2>5. SessInv(s)
    BY <1>5, <2>2, <2>4 DEF SessInv
  <2>6. Kept(s, names)
    BY <2>2, <2>4 DEF Kept, Keeps, IsNewest
  <2> QED BY <1>1, <1>4, <2>1, <2>3, <2>4, <2>5, <2>6, QuietOK
<1>8. CASE ~(session.txn # "none" \/ mode = "legacy")
  <2> DEFINE w == session.durable \union {written'}
             s == [session EXCEPT !.durable = w]
  <2>1. session' = s
    BY <1>1, <1>8 DEF Wrote
  <2>2. w \in SUBSET Write
    BY <1>3, <1>5 DEF Sessions
  <2> HIDE DEF w
  <2>3. /\ s \in Sessions /\ s.txn = session.txn /\ s.saves = session.saves
        /\ s.root = session.root /\ s.whole = session.whole
    BY <1>5, <2>2 DEF Sessions
  <2> HIDE DEF s
  <2>4. SessInv(s)
    BY <1>5, <2>3 DEF SessInv
  <2>5. open # {} => Kept(s, names)
    BY <1>6, <1>8, <2>3 DEF Kept
  <2> QED BY <1>1, <1>4, <2>1, <2>3, <2>4, <2>5, QuietOK
<1> QED BY <1>7, <1>8

\* A statement that fails.
LEMMA ExecuteFailsOK ==
  ASSUME NextInv, ExecuteFails
  PROVE  StepOK
<1>1. /\ info' = info /\ open' = open /\ names' = names /\ minted' = minted
      /\ mode' = mode /\ written' = written /\ said' = "raised"
      /\ faults < MaxFaults /\ faults' = faults + 1
      /\ session' = session \/ session' \in Spoiled(session)
  BY DEF ExecuteFails, Silent
<1>2. faults \in 0 .. MaxFaults /\ MaxFaults \in Nat
  BY ConstantsAssumption DEF NextInv, RestInv
<1>3. faults' \in 0 .. MaxFaults
  BY <1>1, <1>2
<1>4. RestInv'
  BY <1>1, <1>3 DEF NextInv, RestInv
<1>5. SessInv(session)
  BY DEF NextInv
<1>6. CASE session' = session
  BY <1>1, <1>4, <1>5, <1>6, HasNames, QuietOK
<1>7. CASE session' \in Spoiled(session)
  <2> DEFINE d == Dropped(session)
             s == [d EXCEPT !.whole = FALSE]
  <2>1. session' = s
    BY <1>7 DEF Spoiled
  <2>2. SessInv(d) /\ d.txn = "none"
    BY <1>5, EndsInv
  <2> HIDE DEF d
  <2>3. SessInv(s) /\ s.txn = "none" /\ s.whole = FALSE
    BY <2>2 DEF SessInv, Sessions
  <2> HIDE DEF s
  <2>4. Kept(s, names)
    BY <2>3 DEF Kept
  <2> QED BY <1>1, <1>4, <2>1, <2>3, <2>4, QuietOK
<1> QED BY <1>1, <1>6, <1>7

\* The caller's own transaction.
LEMMA CallerOK ==
  ASSUME NextInv, CallerBegins \/ CallerEnds
  PROVE  StepOK
<1>1. /\ info' = info /\ open' = open /\ names' = names /\ minted' = minted
      /\ mode' = mode /\ written' = written /\ faults' = faults /\ said' = "returned"
      /\ open = {}
  BY DEF CallerBegins, CallerEnds, Silent
<1>2. RestInv'
  BY <1>1 DEF NextInv, RestInv
<1>3. SessInv(session)
  BY DEF NextInv
<1>4. SessInv(session') /\ session'.txn # "relq"
  <2>1. CASE CallerBegins
    <3>1. session' = [session EXCEPT !.txn = "caller"] /\ session.txn = "none"
      BY <2>1 DEF CallerBegins
    <3> QED BY <1>3, <3>1 DEF SessInv, Sessions
  <2>2. CASE CallerEnds
    <3>1. \/ session' = Reopened(Committed(session))
          \/ session' = Reopened(Dropped(session))
      BY <2>2 DEF CallerEnds
    <3>2. /\ SessInv(Committed(session)) /\ SessInv(Dropped(session))
          /\ Committed(session).txn = "none" /\ Dropped(session).txn = "none"
      BY <1>3, EndsInv
    <3> QED BY <3>1, <3>2, ReopenedInv
  <2> QED BY <2>1, <2>2
<1> QED BY <1>1, <1>2, <1>4, QuietOK

-----------------------------------------------------------------------------
(* The theorems.                                                           *)

\* The induction invariant holds initially.
LEMMA InitOK ==
  ASSUME Init
  PROVE  NextInv /\ Nesting!ScopeInit
<1>1. <<>> \in Seq(Infos) /\ <<>> \in Seq(Savepoints) /\ Len(info) = 0
  BY DEF Init
<1>2. RegInv
  BY <1>1 DEF Init, RegInv, made, NamesOf
<1>3. Fresh \in Sessions /\ SessInv(Fresh)
  BY <1>1 DEF Fresh, Sessions, SessInv
<1>4. SessInv(session)
  BY <1>3, ReopenedInv DEF Init
<1>5. LiveInv(session)
  BY DEF Init, LiveInv
<1>6. RestInv
  BY ConstantsAssumption DEF Init, RestInv
<1>7. Nesting!ScopeInit
  BY <1>1 DEF Init, Nesting!ScopeInit, made
<1> QED BY <1>2, <1>4, <1>5, <1>6, <1>7 DEF NextInv

\* Every step keeps the induction invariant.
LEMMA NextOK ==
  ASSUME NextInv, [Next]_vars
  PROVE  StepOK
<1>1. CASE BeginAdopts
  BY <1>1, BeginAdoptsOK
<1>2. CASE BeginTop
  BY <1>2, BeginTopOK
<1>3. CASE BeginNested
  BY <1>3, BeginNestedOK
<1>4. ASSUME NEW h \in open, Commit(h) PROVE StepOK
  BY <1>4, CommitOK
<1>5. ASSUME NEW h \in open, RollbackTop(h) PROVE StepOK
  BY <1>5, RollbackTopOK
<1>6. ASSUME NEW h \in open, RollbackNested(h) PROVE StepOK
  BY <1>6, RollbackNestedOK
<1>7. ASSUME NEW h \in open, Release(h) PROVE StepOK
  BY <1>7, ReleaseOK
<1>8. ASSUME NEW h \in open, RollbackTo(h) PROVE StepOK
  BY <1>8, RollbackToOK
<1>9. ASSUME NEW h \in open, NEW n \in Name, Savepoint(h, n) PROVE StepOK
  BY <1>9, SavepointOK
<1>10. CASE Execute
  BY <1>10, ExecuteOK
<1>11. CASE ExecuteFails
  BY <1>11, ExecuteFailsOK
<1>12. CASE CallerBegins \/ CallerEnds
  BY <1>12, CallerOK
<1>13. CASE UNCHANGED vars
  <2>1. /\ info' = info /\ open' = open /\ names' = names /\ minted' = minted
        /\ mode' = mode /\ written' = written /\ faults' = faults /\ said' = said
        /\ session' = session
    BY <1>13 DEF vars
  <2>2. RestInv' /\ SessInv(session')
    BY <2>1 DEF NextInv, RestInv
  <2> QED BY <2>1, <2>2, HasNames, QuietOK
<1> QED BY <1>1, <1>2, <1>3, <1>4, <1>5, <1>6, <1>7, <1>8, <1>9, <1>10, <1>11,
           <1>12, <1>13 DEF Next

\* The inductive invariant of the executor.
THEOREM InvariantHolds == Spec => []NextInv
<1>1. Init => NextInv
  BY InitOK
<1>2. NextInv /\ [Next]_vars => NextInv'
  BY NextOK DEF StepOK
<1> QED BY <1>1, <1>2, PTL DEF Spec

\* Every variable of the executor and of the connection keeps its type.
THEOREM TypesHold == Spec => []TypeOK
<1>1. NextInv => TypeOK
  <2> SUFFICES ASSUME NextInv PROVE TypeOK
    OBVIOUS
  <2>1. names \subseteq Saves
    <3>1. \A h \in open : info[h].save \in Saves \union {NoSave}
      BY Handles DEF NextInv
    <3> QED BY <3>1 DEF NextInv, RegInv, NamesOf
  <2> QED BY <2>1 DEF TypeOK, NextInv, RegInv, SessInv, RestInv
<1> QED BY <1>1, InvariantHolds, PTL

\* commit, rollback, savepoint and recovery (560-722): whatever the names, the
\* faults and the order of the calls, every open handle controls a savepoint
\* that exists, nested as the handles are.
THEOREM HandlesStayLive == Spec => []HandlesLive
<1>1. NextInv => HandlesLive
  BY DEF NextInv, RegInv, LiveInv, HandlesLive
<1> QED BY <1>1, InvariantHolds, PTL

\* reserve_savepoint_name and its releases (206-220): no name is kept by a
\* handle that is closed, and none is free while its handle is open.
THEOREM NamesStayExact == Spec => []NamesExact
<1>1. NextInv => NamesExact
  BY DEF NextInv, RegInv, NamesExact
<1> QED BY <1>1, InvariantHolds, PTL

\* The clean-up paths (480, 631): relq's transaction is left behind only when
\* two faults meet in one operation.
THEOREM StrandingTakesTwoFaults == Spec => StrandedByTwoFaults
<1>1. NextInv /\ [Next]_vars
        => [session.whole /\ ~Stranded /\ Stranded' => faults' >= faults + 2]_vars
  BY NextOK DEF StepOK, Lost
<1> QED BY <1>1, InvariantHolds, PTL DEF Spec, StrandedByTwoFaults

\* _SQLiteTransactionState (181-220): the executor's handles implement the
\* nested scopes of ScopeStack.
THEOREM NestingRefined == Spec => HandlesNest
<1>1. Init => Nesting!ScopeInit
  BY InitOK
<1>2. NextInv /\ [Next]_vars => [Nesting!ScopeNext]_<<made, open>>
  BY NextOK DEF StepOK, ScopeStep
<1> QED BY <1>1, <1>2, InvariantHolds, PTL DEF Spec, HandlesNest, Nesting!Spec
-----------------------------------------------------------------------------
(***************************************************************************)
(* The sqlite3 executor implements WorkScopes: what becomes of the writes  *)
(* made through nested handles, for any modes, names, bounds and faults.   *)
(*                                                                         *)
(* NextInv says where the savepoints of the open handles are; WorkInv adds *)
(* what they restore.  Each savepoint was taken of a part of what every    *)
(* newer one was taken of, and of what is pending, so that an operation    *)
(* that goes back and then fails can lose writes but never bring any back. *)
(***************************************************************************)

WorkInv(s) ==
  /\ s.txn = "none" => s.work = {}
  /\ \A j \in 1 .. Len(s.saves) :
       /\ s.saves[j].work \subseteq s.work
       /\ \A i \in 1 .. j : s.saves[i].work \subseteq s.saves[j].work

\* The savepoints that two sessions both have are the same ones.
Agree(s, r) ==
  \A j \in (1 .. Len(s.saves)) \cap (1 .. Len(r.saves)) : r.saves[j] = s.saves[j]

-----------------------------------------------------------------------------
(* What one command does to the writes.                                    *)

\* Ending a transaction leaves neither savepoints nor writes.
LEMMA EndsWork ==
  ASSUME NEW s, SessInv(s)
  PROVE  LET d == Dropped(s)
             c == Committed(s)
         IN /\ d.work = {} /\ d.saves = <<>> /\ d.durable = s.durable
            /\ c.work = {} /\ c.saves = <<>> /\ c.durable = s.durable \union s.work
BY DEF SessInv, Sessions, Dropped, Committed

\* A transaction that reopens has nothing yet.
LEMMA ReopenedWork ==
  ASSUME NEW s, SessInv(s)
  PROVE  LET r == Reopened(s)
         IN r.work = s.work /\ r.saves = s.saves /\ r.durable = s.durable
BY DEF SessInv, Sessions, Reopened

\* Nothing pending and no savepoint: nothing to go back to.
LEMMA EmptyWork ==
  ASSUME NEW s, s.work = {}, s.saves = <<>>
  PROVE  WorkInv(s)
BY DEF WorkInv

\* Removing the newest savepoints keeps the chain of the older ones.
LEMMA CutWork ==
  ASSUME NEW s, SessInv(s), WorkInv(s), NEW k \in 0 .. Len(s.saves), NEW r,
         r.saves = SubSeq(s.saves, 1, k), r.txn = s.txn,
         r.work = s.work \/ (k > 0 /\ r.work = s.saves[k].work)
  PROVE  WorkInv(r) /\ Agree(s, r) /\ r.work \subseteq s.work
<1>1. s.saves \in Seq(Savepoints) /\ Len(s.saves) \in Nat
  BY DEF SessInv, Sessions
<1>2. /\ Len(r.saves) = k /\ k \in Nat /\ k <= Len(s.saves)
      /\ \A j \in 1 .. k : r.saves[j] = s.saves[j]
  BY <1>1
<1>3. Agree(s, r)
  BY <1>2 DEF Agree
<1>4. r.work \subseteq s.work
  <2>1. CASE r.work = s.work
    BY <2>1
  <2>2. CASE k > 0 /\ r.work = s.saves[k].work
    <3>1. k \in 1 .. Len(s.saves)
      BY <1>1, <1>2, <2>2
    <3> QED BY <2>2, <3>1 DEF WorkInv
  <2> QED BY <2>1, <2>2
<1>5. ASSUME NEW j \in 1 .. Len(r.saves)
      PROVE  /\ r.saves[j].work \subseteq r.work
             /\ \A i \in 1 .. j : r.saves[i].work \subseteq r.saves[j].work
  <2>1. /\ j \in 1 .. Len(s.saves) /\ j \in 1 .. k /\ r.saves[j] = s.saves[j]
        /\ \A i \in 1 .. j : i \in 1 .. k /\ r.saves[i] = s.saves[i]
    BY <1>1, <1>2
  <2>2. \A i \in 1 .. j : r.saves[i].work \subseteq r.saves[j].work
    BY <2>1 DEF WorkInv
  <2>3. CASE r.work = s.work
    BY <2>1, <2>2, <2>3 DEF WorkInv
  <2>4. CASE k > 0 /\ r.work = s.saves[k].work
    <3>1. k \in 1 .. Len(s.saves) /\ j \in 1 .. k
      BY <1>1, <1>2, <2>1, <2>4
    <3> QED BY <2>1, <2>2, <2>4, <3>1 DEF WorkInv
  <2> QED BY <2>3, <2>4
<1>6. r.txn = "none" => r.work = {}
  BY <1>4 DEF WorkInv
<1> QED BY <1>3, <1>4, <1>5, <1>6 DEF WorkInv

\* A new savepoint restores what is pending now.
LEMMA PushWork ==
  ASSUME NEW s, SessInv(s), WorkInv(s), NEW n, NEW r,
         r.saves = Append(s.saves, [name |-> n, work |-> s.work]),
         r.work = s.work, r.txn # "none"
  PROVE  /\ WorkInv(r) /\ Agree(s, r)
         /\ r.saves[Len(s.saves) + 1].work = s.work
<1>1. s.saves \in Seq(Savepoints) /\ Len(s.saves) \in Nat
  BY DEF SessInv, Sessions
<1>2. PICK e : e = [name |-> n, work |-> s.work]
  OBVIOUS
<1>3. /\ Len(r.saves) = Len(s.saves) + 1 /\ r.saves[Len(s.saves) + 1] = e
      /\ \A j \in 1 .. Len(s.saves) : r.saves[j] = s.saves[j]
  <2>1. r.saves = Append(s.saves, e)
    BY <1>2
  <2> QED BY <1>1, <2>1
<1>4. e.work = s.work
  BY <1>2
<1>5. ASSUME NEW j \in 1 .. Len(r.saves)
      PROVE  /\ r.saves[j].work \subseteq r.work
             /\ \A i \in 1 .. j : r.saves[i].work \subseteq r.saves[j].work
  <2>1. CASE j \in 1 .. Len(s.saves)
    <3>1. \A i \in 1 .. j : i \in 1 .. Len(s.saves)
      BY <1>1, <2>1
    <3> QED BY <1>3, <2>1, <3>1 DEF WorkInv
  <2>2. CASE j = Len(s.saves) + 1
    <3>1. \A i \in 1 .. j : i = j \/ i \in 1 .. Len(s.saves)
      BY <1>1, <2>2
    <3> QED BY <1>3, <1>4, <2>2, <3>1 DEF WorkInv
  <2> QED BY <1>1, <1>3, <2>1, <2>2
<1>6. Agree(s, r)
  BY <1>3 DEF Agree
<1> QED BY <1>3, <1>4, <1>5, <1>6 DEF WorkInv

\* What a savepoint command does to the writes when it is applied.  A release
\* that commits is the exception: it is not the executor's.
LEMMA SavesWork ==
  ASSUME NEW s, SessInv(s), WorkInv(s), NEW do \in SaveCommands, NEW n,
         Accepted(s, do, n), do = "savepoint" => n \in Saves
  PROVE  LET r == Applied(s, do, n)
         IN /\ WorkInv(r) /\ Agree(s, r)
            /\ do = "savepoint" => /\ r.work = s.work /\ r.durable = s.durable
                                   /\ r.saves[Len(s.saves) + 1].work = s.work
            /\ do = "release" /\ ~(s.root /\ Newest(s, n) = 1) =>
                 r.work = s.work /\ r.durable = s.durable
            /\ do = "rollback_to" =>
                 r.work = s.saves[Newest(s, n)].work /\ r.durable = s.durable
<1> DEFINE r == Applied(s, do, n)
<1>1. s \in Sessions /\ Len(s.saves) \in Nat
  BY DEF SessInv, Sessions
<1>2. CASE do = "savepoint"
  <2>1. /\ r.txn # "none"
        /\ r.saves = Append(s.saves, [name |-> n, work |-> s.work])
    BY <1>2, PushInv
  <2>2. r.work = s.work /\ r.durable = s.durable
    BY <1>1, <1>2 DEF Applied, Sessions
  <2> HIDE DEF r
  <2>3. /\ WorkInv(r) /\ Agree(s, r)
        /\ r.saves[Len(s.saves) + 1].work = s.work
    BY <2>1, <2>2, PushWork
  <2> QED BY <1>2, <2>2, <2>3 DEF r
<1>3. CASE do \in {"release", "rollback_to"}
  <2>1. Has(s, n)
    BY <1>3 DEF Accepted
  <2>2. Newest(s, n) \in 1 .. Len(s.saves)
    BY <1>1, <2>1, NewestIs
  <2>3. CASE do = "release" /\ s.root /\ Newest(s, n) = 1
    <3>1. r = Committed(s)
      BY <2>3 DEF Applied
    <3>2. r.work = {} /\ r.saves = <<>>
      BY <3>1, EndsWork
    <3>3. WorkInv(r) /\ Agree(s, r)
      BY <3>2, EmptyWork DEF Agree
    <3> QED BY <2>3, <3>3
  <2>4. CASE do = "release" /\ ~(s.root /\ Newest(s, n) = 1)
    <3>1. r = [s EXCEPT !.saves = SubSeq(@, 1, Newest(s, n) - 1)]
      BY <2>4 DEF Applied
    <3>2. /\ r.saves = SubSeq(s.saves, 1, Newest(s, n) - 1)
          /\ r.txn = s.txn /\ r.work = s.work /\ r.durable = s.durable
      BY <1>1, <3>1 DEF Sessions
    <3>3. Newest(s, n) - 1 \in 0 .. Len(s.saves)
      BY <1>1, <2>2
    <3> HIDE DEF r
    <3>4. WorkInv(r) /\ Agree(s, r)
      BY <3>2, <3>3, CutWork
    <3> QED BY <2>4, <3>2, <3>4 DEF r
  <2>5. CASE do = "rollback_to"
    <3>1. r = [s EXCEPT !.saves = SubSeq(@, 1, Newest(s, n)),
                        !.work = s.saves[Newest(s, n)].work]
      BY <2>5 DEF Applied
    <3>2. /\ r.saves = SubSeq(s.saves, 1, Newest(s, n)) /\ r.txn = s.txn
          /\ r.work = s.saves[Newest(s, n)].work /\ r.durable = s.durable
      BY <1>1, <3>1 DEF Sessions
    <3>3. Newest(s, n) \in 0 .. Len(s.saves) /\ Newest(s, n) > 0
      BY <1>1, <2>2
    <3> HIDE DEF r
    <3>4. WorkInv(r) /\ Agree(s, r)
      BY <3>2, <3>3, CutWork
    <3> QED BY <2>5, <3>2, <3>4 DEF r
  <2> QED BY <1>3, <2>3, <2>4, <2>5
<1> QED BY <1>2, <1>3 DEF SaveCommands

\* The commands on the whole transaction.
Keeping == {"commit", "call_commit"}
Giving == {"rollback", "call_rollback"}

\* They leave neither savepoints nor writes, and a commit makes durable what was
\* pending.
LEMMA TopWork ==
  ASSUME NEW s, SessInv(s), NEW do \in Keeping \union Giving, NEW n
  PROVE  LET r == Applied(s, do, n)
         IN /\ r.work = {} /\ r.saves = <<>>
            /\ r.durable = IF do \in Keeping THEN s.durable \union s.work ELSE s.durable
<1>1. SessInv(Dropped(s)) /\ SessInv(Committed(s))
  BY EndsInv
<1>2. CASE do = "commit"
  BY <1>2, EndsWork DEF Applied, Keeping
<1>3. CASE do = "rollback"
  BY <1>3, EndsWork DEF Applied, Keeping
<1>4. CASE do = "call_commit"
  BY <1>1, <1>4, EndsWork, ReopenedWork DEF Applied, Keeping
<1>5. CASE do = "call_rollback"
  BY <1>1, <1>5, EndsWork, ReopenedWork DEF Applied, Keeping
<1> QED BY <1>2, <1>3, <1>4, <1>5 DEF Keeping, Giving

\* Every command that is accepted keeps the chain.
LEMMA AppliedWork ==
  ASSUME NEW s, SessInv(s), WorkInv(s), NEW do \in Commands, NEW n,
         Accepted(s, do, n), do = "savepoint" => n \in Saves
  PROVE  WorkInv(Applied(s, do, n))
<1>1. CASE do = "begin"
  <2> DEFINE r == Applied(s, do, n)
  <2>1. r = [s EXCEPT !.txn = "relq"] /\ s \in Sessions
    BY <1>1 DEF Applied, SessInv
  <2>2. r.txn = "relq" /\ r.saves = s.saves /\ r.work = s.work
    BY <2>1 DEF Sessions
  <2> HIDE DEF r
  <2>3. WorkInv(r)
    BY <2>2 DEF WorkInv
  <2> QED BY <2>3 DEF r
<1>2. CASE do \in Keeping \union Giving
  BY <1>2, TopWork, EmptyWork
<1>3. CASE do \in SaveCommands
  BY <1>3, SavesWork
<1> QED BY <1>1, <1>2, <1>3 DEF Commands, Keeping, Giving, SaveCommands

\* A transaction that the database ended by itself.
LEMMA SpoiledWork ==
  ASSUME NEW s, SessInv(s), NEW r \in Spoiled(s)
  PROVE  r.work = {} /\ r.saves = <<>> /\ r.durable = s.durable /\ ~r.whole
<1>1. PICK d : d = Dropped(s)
  OBVIOUS
<1>2. r = [d EXCEPT !.whole = FALSE]
  BY <1>1 DEF Spoiled
<1>3. d \in Sessions /\ d.work = {} /\ d.saves = <<>> /\ d.durable = s.durable
  BY <1>1, EndsInv, EndsWork DEF SessInv
<1> QED BY <1>2, <1>3 DEF Sessions

\* Whatever becomes of a command, the chain stays.
LEMMA SentWork ==
  ASSUME NEW s, SessInv(s), WorkInv(s), NEW f \in 0 .. MaxFaults, NEW do \in Commands,
         NEW n, do = "savepoint" => n \in Saves, NEW r \in Sent(s, f, do, n)
  PROVE  WorkInv(r.session)
<1>1. CASE r.session = s
  BY <1>1
<1>2. CASE Accepted(s, do, n) /\ r.session = Applied(s, do, n)
  BY <1>2, AppliedWork
<1>3. CASE r.session \in Spoiled(s)
  BY <1>3, SpoiledWork, EmptyWork
<1>4. CASE r.session \in HalfDone(s, do)
  <2>1. r.session \in {Committed(s), Dropped(s)}
    BY <1>4 DEF HalfDone, Commands
  <2> QED BY <2>1, EndsWork, EmptyWork
<1>5. /\ r.ok => Accepted(s, do, n) /\ r.session = Applied(s, do, n)
      /\ ~r.ok => IF Accepted(s, do, n) THEN r.session \in Raised(s, do, n)
                  ELSE r.session = s
  BY SentInv
<1>6. r.session \in Raised(s, do, n) =>
        \/ r.session = s \/ r.session = Applied(s, do, n)
        \/ r.session \in Spoiled(s) \/ r.session \in HalfDone(s, do)
  BY DEF Raised
<1> QED BY <1>1, <1>2, <1>3, <1>4, <1>5, <1>6

\* A command about a savepoint makes nothing durable, and brings no write back.
LEMMA SentSaves ==
  ASSUME NEW s, SessInv(s), WorkInv(s), NEW f \in 0 .. MaxFaults, NEW do \in SaveCommands,
         NEW n, do = "savepoint" => n \in Saves,
         do = "release" /\ Has(s, n) => ~(s.root /\ Newest(s, n) = 1),
         NEW r \in Sent(s, f, do, n), r.session.whole
  PROVE  /\ s.whole /\ Agree(s, r.session) /\ r.session.durable = s.durable
         /\ do # "rollback_to" => r.session.work = s.work
         /\ do = "rollback_to" =>
              \/ r.session.work = s.work /\ ~r.ok
              \/ Has(s, n) /\ r.session.work = s.saves[Newest(s, n)].work
<1>1. do \in Commands
  BY DEF Commands, SaveCommands
<1>2. s.whole
  BY <1>1, SentInv
<1>3. r.session = s \/ (Accepted(s, do, n) /\ r.session = Applied(s, do, n))
  BY <1>1, SentSavepoints
<1>4. r.ok => Accepted(s, do, n) /\ r.session = Applied(s, do, n)
  BY <1>1, SentInv
<1>5. do \in {"release", "rollback_to"} /\ Accepted(s, do, n) => Has(s, n)
  BY DEF Accepted
<1>6. CASE Accepted(s, do, n) /\ r.session = Applied(s, do, n)
  <2>1. PICK q : q = Applied(s, do, n)
    OBVIOUS
  <2>2. /\ WorkInv(q) /\ Agree(s, q)
        /\ do = "savepoint" => q.work = s.work /\ q.durable = s.durable
        /\ do = "release" /\ ~(s.root /\ Newest(s, n) = 1) =>
             q.work = s.work /\ q.durable = s.durable
        /\ do = "rollback_to" =>
             q.work = s.saves[Newest(s, n)].work /\ q.durable = s.durable
    BY <1>6, <2>1, SavesWork
  <2> QED BY <1>2, <1>5, <1>6, <2>1, <2>2 DEF SaveCommands
<1>7. CASE r.session = s /\ ~r.ok
  <2>1. Agree(s, s)
    BY DEF Agree
  <2> QED BY <1>2, <1>7, <2>1
<1> QED BY <1>3, <1>4, <1>6, <1>7

\* All that was pending in s became durable in r, or none of it.
AllOrNothing(do, s, r) ==
  \/ r.work \subseteq s.work /\ r.durable = s.durable
  \/ do \in Keeping /\ r.work = {} /\ r.durable = s.durable \union s.work

\* A command on the whole transaction makes all that is pending durable, or
\* nothing.
LEMMA SentTop ==
  ASSUME NEW s, SessInv(s), NEW f \in 0 .. MaxFaults, NEW do \in Keeping \union Giving,
         NEW n, NEW r \in Sent(s, f, do, n)
  PROVE  /\ r.ok =>
              /\ r.session.work = {}
              /\ do \in Keeping => r.session.durable = s.durable \union s.work
              /\ do \notin Keeping => r.session.durable = s.durable
         /\ AllOrNothing(do, s, r.session)
<1>1. do \in Commands /\ do # "savepoint"
  BY DEF Commands, Keeping, Giving
<1>2. CASE r.session = s /\ ~r.ok
  BY <1>2 DEF AllOrNothing
<1>3. CASE r.session = Applied(s, do, n)
  <2>1. PICK q : q = Applied(s, do, n)
    OBVIOUS
  <2>2. /\ q.work = {}
        /\ q.durable = IF do \in Keeping THEN s.durable \union s.work ELSE s.durable
    BY <2>1, TopWork
  <2>3. CASE do \in Keeping
    BY <1>3, <2>1, <2>2, <2>3 DEF AllOrNothing
  <2>4. CASE do \notin Keeping
    BY <1>3, <2>1, <2>2, <2>4 DEF AllOrNothing
  <2> QED BY <2>3, <2>4
<1>4. CASE r.session \in Spoiled(s) /\ ~r.ok
  BY <1>4, SpoiledWork DEF AllOrNothing
<1>5. CASE r.session \in HalfDone(s, do) /\ ~r.ok
  <2>1. r.session = Dropped(s) \/ (do = "call_commit" /\ r.session = Committed(s))
    BY <1>5 DEF HalfDone, Keeping, Giving
  <2>2. "call_commit" \in Keeping
    BY DEF Keeping
  <2> QED BY <1>5, <2>1, <2>2, EndsWork DEF AllOrNothing
<1>6. /\ r.ok => r.session = Applied(s, do, n)
      /\ ~r.ok => IF Accepted(s, do, n) THEN r.session \in Raised(s, do, n)
                  ELSE r.session = s
  BY <1>1, SentInv
<1>7. r.session \in Raised(s, do, n) =>
        \/ r.session = s \/ r.session = Applied(s, do, n)
        \/ r.session \in Spoiled(s) \/ r.session \in HalfDone(s, do)
  BY DEF Raised
<1> QED BY <1>2, <1>3, <1>4, <1>5, <1>6, <1>7

-----------------------------------------------------------------------------
(* What the open handles restore.                                          *)

\* r restores for the names N what the session does.
Same(r, N) ==
  \A m \in N : \A j :
    IsNewest(session, m, j) => IsNewest(r, m, j) /\ r.saves[j] = session.saves[j]

\* The session restores what it does.
LEMMA SameSelf == ASSUME NEW N PROVE Same(session, N)
BY DEF Same

\* One more command that leaves these savepoints where they were.
LEMMA SameAlso ==
  ASSUME NEW s \in Sessions, NEW r \in Sessions, NEW N, Same(s, N), Kept(r, N),
         r.whole, Agree(s, r)
  PROVE  Same(r, N)
<1> SUFFICES ASSUME NEW m \in N, NEW j, IsNewest(session, m, j)
             PROVE  IsNewest(r, m, j) /\ r.saves[j] = session.saves[j]
  BY DEF Same
<1>1. IsNewest(s, m, j) /\ s.saves[j] = session.saves[j]
  BY DEF Same
<1>2. IsNewest(r, m, j)
  BY DEF Kept, Keeps
<1>3. j \in 1 .. Len(s.saves) /\ j \in 1 .. Len(r.saves)
  BY <1>1, <1>2 DEF IsNewest, Sessions
<1> QED BY <1>1, <1>2, <1>3 DEF Agree

\* What a handle restores.
BaseOf(h) ==
  IF info[h].save = NoSave \/ ~Has(session, info[h].save) THEN {}
  ELSE session.saves[Newest(session, info[h].save)].work

\* A handle restores the same writes while its savepoint is where it was.
LEMMA BaseStays ==
  ASSUME NextInv, session.whole, SessInv(session'), NEW N, Same(session', N),
         NEW h \in open, info'[h].save = info[h].save,
         info[h].save # NoSave => info[h].save \in N
  PROVE  BaseOf(h)' = BaseOf(h)
<1>1. CASE info[h].save = NoSave
  BY <1>1 DEF BaseOf
<1>2. CASE info[h].save # NoSave
  <2>1. PICK n : n = info[h].save
    OBVIOUS
  <2>2. Has(session, n) /\ session \in Sessions /\ session' \in Sessions
    BY <1>2, <2>1 DEF NextInv, LiveInv, SessInv
  <2>3. PICK k : k = Newest(session, n)
    OBVIOUS
  <2>4. IsNewest(session, n, k)
    BY <2>2, <2>3, NewestIs
  <2>5. IsNewest(session', n, k) /\ session'.saves[k] = session.saves[k]
    BY <1>2, <2>1, <2>4 DEF Same
  <2>6. Has(session', n) /\ Newest(session', n) = k
    BY <2>2, <2>5, NewestOne
  <2> QED BY <1>2, <2>1, <2>2, <2>3, <2>5, <2>6 DEF BaseOf
<1> QED BY <1>1, <1>2

-----------------------------------------------------------------------------
(* The steps of WorkScopes.                                                *)

\* The handles that stay restore what they did.
LEMMA ScopesLeft ==
  ASSUME NextInv, session.whole, SessInv(session'), NEW N, Same(session', N),
         info' = info, open' \subseteq open,
         \A h \in open' : info[h].save # NoSave => info[h].save \in N
  PROVE  Scopes!LeaveScopes(open') /\ (open' = open => Base' = Base)
<1>1. \A h \in open' : BaseOf(h)' = BaseOf(h)
  BY BaseStays
<1>2. Base = [h \in open |-> BaseOf(h)]
  BY DEF Base, BaseOf
<1>3. Base' = [h \in open' |-> BaseOf(h)']
  BY DEF Base, BaseOf
<1>4. Base' = [h \in open' |-> Base[h]]
  BY <1>1, <1>2, <1>3
<1>5. open' = open => Base' = Base
  BY <1>1, <1>2, <1>3
<1> QED BY <1>4, <1>5 DEF Scopes!LeaveScopes, made

\* An operation that raised and left every handle alone.
LEMMA RefusedWork ==
  ASSUME NextInv, session.whole, SessInv(session'), NEW N, Same(session', N),
         Registered, said' = "raised",
         \A h \in open : info[h].save # NoSave => info[h].save \in N,
         session'.work = session.work, session'.durable = session.durable
  PROVE  Scopes!Next
<1>1. info' = info /\ open' = open
  BY DEF Registered
<1>2. Base' = Base
  BY <1>1, ScopesLeft
<1> QED BY <1>1, <1>2 DEF Scopes!Next, Scopes!Refuse, made

\* An operation that raised and gave the transaction up.
LEMMA AbortedWork ==
  ASSUME info' = info, open' = {}, said' = "raised",
         \/ session'.work \subseteq session.work /\ session'.durable = session.durable
         \/ session'.work = {} /\ session'.durable = session.durable \union session.work
  PROVE  Scopes!Next
<1>1. Base' = [h \in {} |-> Base[h]]
  BY DEF Base
<1>2. Scopes!LeaveScopes({})
  BY <1>1 DEF Scopes!LeaveScopes, made
<1> QED BY <1>2 DEF Scopes!Next, Scopes!Abort, Scopes!Commits

\* A new handle restores what is pending when it opens.
LEMMA OpenedWork ==
  ASSUME NextInv, NEW N, open # {} => session.whole /\ Same(session', N),
         \A h \in open : info[h].save # NoSave => info[h].save \in N,
         SessInv(session'),
         NEW m, m = made + 1, made' = m, open' = open \union {m}, m \notin open,
         \A h \in open : info'[h] = info[h],
         BaseOf(m)' = IF open = {} THEN {} ELSE session.work,
         said' = "returned",
         session'.work = session.work, session'.durable = session.durable
  PROVE  Scopes!Next
<1>1. \A h \in open : BaseOf(h)' = BaseOf(h)
  BY BaseStays
<1>2. Base = [h \in open |-> BaseOf(h)]
  BY DEF Base, BaseOf
<1>3. Base' = [h \in open' |-> BaseOf(h)']
  BY DEF Base, BaseOf
<1>4. Base' = [h \in open' |-> IF h # made' THEN Base[h]
                               ELSE IF open = {} THEN {} ELSE session.work]
  <2>1. ASSUME NEW h \in open'
        PROVE  BaseOf(h)' = IF h # made' THEN Base[h]
                            ELSE IF open = {} THEN {} ELSE session.work
    <3>1. CASE h = m
      BY <3>1
    <3>2. CASE h # m
      <4>1. h \in open
        BY <3>2
      <4> QED BY <1>1, <1>2, <3>2, <4>1
    <3> QED BY <3>1, <3>2
  <2> QED BY <1>3, <2>1
<1>5. Scopes!Open
  BY <1>4 DEF Scopes!Open
<1> QED BY <1>5 DEF Scopes!Next

-----------------------------------------------------------------------------
(* Completing a handle.                                                    *)

\* What is left when h has been completed.
LEMMA FinishedScopes ==
  ASSUME NextInv, session.whole, NEW h \in open, NEW r, Finish(h, r), Outcome(r),
         r.faults \in 0 .. MaxFaults, SessInv(r.session),
         Same(r.session, Around(h))
  PROVE  /\ session' = r.session /\ said' \in {"returned", "raised"}
         /\ Scopes!LeaveScopes({o \in open : o < h})
<1>1. /\ Shut({h} \union After(h)) /\ info' = info
      /\ session' = r.session /\ said' \in {"returned", "raised"}
  BY FinishEnds
<1>2. open' = {o \in open : o < h}
  BY <1>1, CloseHandle DEF NextInv
<1>3. open' \subseteq open /\ \A g \in open' : info[g].save # NoSave => info[g].save \in Around(h)
  BY <1>2 DEF Around
<1>4. SessInv(session') /\ Same(session', Around(h))
  BY <1>1
<1>5. Scopes!LeaveScopes(open')
  BY <1>1, <1>3, <1>4, ScopesLeft
<1> QED BY <1>1, <1>2, <1>5

\* Only the outermost handle has no savepoint.
LEMMA OutermostNamed ==
  ASSUME NextInv, NEW h \in open
  PROVE  Scopes!Outermost(h) <=> info[h].save = NoSave
BY DEF NextInv, RegInv, Scopes!Outermost

\* A commit or a release.
LEMMA KeptWork ==
  ASSUME NextInv, session.whole, NEW h \in open, NEW r, Finish(h, r), Outcome(r),
         r.faults \in 0 .. MaxFaults, SessInv(r.session),
         Same(r.session, Around(h)),
         IF info[h].save = NoSave
         THEN r.session.work = {} /\ r.session.durable = session.durable \union session.work
         ELSE r.session.work = session.work /\ r.session.durable = session.durable
  PROVE  Scopes!Next
<1>1. /\ session' = r.session /\ said' \in {"returned", "raised"}
      /\ Scopes!LeaveScopes({o \in open : o < h})
  BY FinishedScopes
<1>2. Scopes!Keep(h)
  BY <1>1, OutermostNamed DEF Scopes!Keep, Scopes!Commits, Scopes!Says
<1> QED BY <1>2 DEF Scopes!Next

\* A rollback.
LEMMA UndoneWork ==
  ASSUME NextInv, session.whole, NEW h \in open, NEW r, Finish(h, r), Outcome(r),
         r.faults \in 0 .. MaxFaults, SessInv(r.session),
         Same(r.session, Around(h)),
         r.session.work = BaseOf(h), r.session.durable = session.durable
  PROVE  Scopes!Next
<1>1. /\ session' = r.session /\ said' \in {"returned", "raised"}
      /\ Scopes!LeaveScopes({o \in open : o < h})
  BY FinishedScopes
<1>2. Base[h] = BaseOf(h)
  BY DEF Base, BaseOf
<1>3. Scopes!Undo(h)
  BY <1>1, <1>2 DEF Scopes!Undo, Scopes!Says
<1> QED BY <1>3 DEF Scopes!Next

\* Recovery rolls back what the failed command has left.
LEMMA RecoveredWork ==
  ASSUME NEW h, NEW r, Recover(h, r), SessInv(r.session), r.faults \in 0 .. MaxFaults
  PROVE  /\ session'.whole => r.session.whole
         /\ \/ /\ r.session.work \subseteq session.work
               /\ r.session.durable = session.durable
            \/ /\ r.session.work = {}
               /\ r.session.durable = session.durable \union session.work
            => Scopes!Next
<1>1. PICK q \in Sent(r.session, r.faults, "rollback", NoSave) : Ends(q, "raised")
  BY DEF Recover
<1>2. /\ "rollback" \in Keeping \union Giving /\ "rollback" \notin Keeping
      /\ "rollback" \in Commands /\ "rollback" # "savepoint"
  BY DEF Keeping, Giving, Commands
<1>3. /\ info' = info /\ open' = {} /\ said' = "raised" /\ session' = q.session
  BY <1>1 DEF Recover, Ends
<1>4. q.session.work \subseteq r.session.work /\ q.session.durable = r.session.durable
  BY <1>2, SentTop DEF AllOrNothing
<1>5. q.session.whole => r.session.whole
  BY <1>2, SentInv
<1> QED BY <1>3, <1>4, <1>5, AbortedWork

\* commit() and rollback() of the outermost handle.
LEMMA ControlWork ==
  ASSUME NextInv, session'.whole, NEW h \in open, info[h].save = NoSave,
         NEW do \in Keeping \union Giving, NEW r \in Sent(session, faults, do, NoSave),
         IF r.ok THEN Finish(h, r) ELSE Recover(h, r)
  PROVE  Scopes!Next
<1>1. /\ SessInv(session) /\ faults \in 0 .. MaxFaults
      /\ do \in Commands /\ do # "savepoint"
  BY DEF NextInv, RestInv, Commands, Keeping, Giving
<1>2. /\ SessInv(r.session) /\ r.faults \in 0 .. MaxFaults
      /\ r.session.whole => session.whole
  BY <1>1, SentInv
<1>3. CASE ~r.ok
  <2>0. AllOrNothing(do, session, r.session)
    BY <1>1, SentTop
  <2>1. \/ r.session.work \subseteq session.work /\ r.session.durable = session.durable
        \/ r.session.work = {} /\ r.session.durable = session.durable \union session.work
    BY <2>0 DEF AllOrNothing
  <2> QED BY <1>2, <1>3, <2>1, RecoveredWork
<1>4. CASE r.ok
  <2>1. Finish(h, r) /\ Outcome(r) /\ session' = r.session
    BY <1>2, <1>4, SentOutcome, FinishEnds
  <2>2. session.whole
    BY <1>2, <2>1
  <2>3. Same(r.session, Around(h))
    <3>1. \A g \in open : g \in Nat /\ h \in Nat /\ h <= g
      BY Handles DEF NextInv, RegInv
    <3>2. \A g \in open : ~(g < h)
      BY <3>1
    <3> QED BY <3>2 DEF Around, Same
  <2>4. /\ r.session.work = {}
        /\ do \in Keeping => r.session.durable = session.durable \union session.work
        /\ do \notin Keeping => r.session.durable = session.durable
    BY <1>1, <1>4, SentTop
  <2>5. CASE do \in Keeping
    BY <1>2, <2>1, <2>2, <2>3, <2>4, <2>5, KeptWork
  <2>6. CASE do \notin Keeping
    <3>1. BaseOf(h) = {}
      BY DEF BaseOf
    <3> QED BY <1>2, <2>1, <2>2, <2>3, <2>4, <2>6, <3>1, UndoneWork
  <2> QED BY <2>5, <2>6
<1> QED BY <1>3, <1>4

\* commit() of a nested handle and release() of a savepoint.
LEMMA ReleasedWork ==
  ASSUME NextInv, WorkInv(session), session'.whole, NEW h \in open, info[h].save # NoSave,
         NEW r \in Sent(session, faults, "release", info[h].save),
         IF r.ok THEN Finish(h, r) ELSE Recover(h, r)
  PROVE  Scopes!Next
<1>1. /\ SessInv(session) /\ faults \in 0 .. MaxFaults
      /\ "release" \in Commands /\ "release" # "savepoint"
      /\ "release" \in SaveCommands /\ "release" # "rollback_to"
  BY DEF NextInv, RestInv, Commands, SaveCommands
<1>2. session.whole => Keeps(session, session, Around(h) \union {info[h].save})
  BY DEF NextInv, LiveInv, Keeps
<1>3. /\ SessInv(r.session) /\ r.faults \in 0 .. MaxFaults
      /\ Kept(r.session, Around(h))
  BY <1>1, <1>2, ReleaseSent
<1>4. Outcome(r) /\ r.session.whole
  <2>1. Outcome(r)
    BY SentOutcome
  <2>2. CASE r.ok
    <3>1. session' = r.session
      BY <1>3, <2>1, <2>2, FinishEnds
    <3> QED BY <2>1, <3>1
  <2>3. CASE ~r.ok
    BY <1>3, <2>1, <2>3, RecoveredWork
  <2> QED BY <2>2, <2>3
<1>5. session.whole
  BY <1>3, <1>4 DEF Kept
<1>6. session.root => Newest(session, info[h].save) > 1
  BY <1>5, Positions DEF NextInv
<1>7. /\ Agree(session, r.session) /\ r.session.durable = session.durable
      /\ r.session.work = session.work
  <2>1. Has(session, info[h].save) =>
          ~(session.root /\ Newest(session, info[h].save) = 1)
    BY <1>6
  <2> QED BY <1>1, <1>4, <2>1, SentSaves
<1>8. Same(r.session, Around(h))
  BY <1>1, <1>3, <1>4, <1>7, SameSelf, SameAlso DEF SessInv
<1>9. CASE r.ok
  BY <1>3, <1>4, <1>5, <1>7, <1>8, <1>9, KeptWork
<1>10. CASE ~r.ok
  BY <1>3, <1>7, <1>10, RecoveredWork
<1> QED BY <1>9, <1>10

\* Going back to an open handle's savepoint.
LEMMA WentBack ==
  ASSUME NextInv, WorkInv(session), NEW h \in open, info[h].save # NoSave,
         NEW r \in Sent(session, faults, "rollback_to", info[h].save), r.session.whole
  PROVE  /\ SessInv(r.session) /\ r.faults \in 0 .. MaxFaults /\ WorkInv(r.session)
         /\ session.whole /\ Agree(session, r.session)
         /\ Kept(r.session, Around(h) \union {info[h].save})
         /\ Same(r.session, Around(h) \union {info[h].save})
         /\ r.session.durable = session.durable /\ r.session.work \subseteq session.work
         /\ r.ok => r.session.work = BaseOf(h)
<1> DEFINE n == info[h].save
<1>1. /\ SessInv(session) /\ faults \in 0 .. MaxFaults
      /\ "rollback_to" \in Commands /\ "rollback_to" # "savepoint"
      /\ "rollback_to" \in SaveCommands /\ "rollback_to" # "release"
  BY DEF NextInv, RestInv, Commands, SaveCommands
<1>2. /\ SessInv(r.session) /\ r.faults \in 0 .. MaxFaults
      /\ Kept(r.session, Around(h) \union {n})
  BY RollbackToOwn
<1>3. session.whole
  BY <1>2 DEF Kept
<1>4. Has(session, n) /\ session \in Sessions
  BY <1>3 DEF NextInv, LiveInv, SessInv
<1>5. /\ Agree(session, r.session) /\ r.session.durable = session.durable
      /\ \/ r.session.work = session.work /\ ~r.ok
         \/ r.session.work = session.saves[Newest(session, n)].work
  BY <1>1, SentSaves
<1>6. session.saves[Newest(session, n)].work \subseteq session.work
  BY <1>4, NewestIs DEF WorkInv
<1>7. Same(r.session, Around(h) \union {n})
  BY <1>1, <1>2, <1>5, SameSelf, SameAlso DEF SessInv
<1>8. WorkInv(r.session)
  BY <1>1, SentWork
<1>9. BaseOf(h) = session.saves[Newest(session, n)].work
  BY <1>4 DEF BaseOf
<1> QED BY <1>2, <1>3, <1>5, <1>6, <1>7, <1>8, <1>9

\* rollback() of a nested handle.
LEMMA NestedWork ==
  ASSUME NextInv, WorkInv(session), session'.whole, NEW h \in open, RollbackNested(h)
  PROVE  Scopes!Next
<1> DEFINE n == info[h].save
<1>1. /\ n # NoSave /\ faults \in 0 .. MaxFaults
      /\ "release" \in Commands /\ "release" # "savepoint"
      /\ "release" \in SaveCommands /\ "release" # "rollback_to"
  BY DEF RollbackNested, Commands, SaveCommands, NextInv, RestInv
<1>2. PICK r \in Sent(session, faults, "rollback_to", n) :
        IF ~r.ok THEN Recover(h, r)
        ELSE \E o \in Observed(r) :
               \E q \in Sent(o.session, o.faults, "release", n) :
                 IF q.ok THEN Finish(h, [q EXCEPT !.ok = o.ok]) ELSE Recover(h, q)
  BY DEF RollbackNested
<1>3. SessInv(r.session) /\ r.faults \in 0 .. MaxFaults
  BY <1>1, RollbackToOwn
<1>4. CASE ~r.ok
  <2>1. r.session.whole
    BY <1>2, <1>3, <1>4, RecoveredWork
  <2>2. r.session.durable = session.durable /\ r.session.work \subseteq session.work
    BY <1>1, <2>1, WentBack
  <2> QED BY <1>2, <1>3, <1>4, <2>2, RecoveredWork
<1>5. CASE r.ok
  <2>1. PICK o \in Observed(r) :
          \E q \in Sent(o.session, o.faults, "release", n) :
            IF q.ok THEN Finish(h, [q EXCEPT !.ok = o.ok]) ELSE Recover(h, q)
    BY <1>2, <1>5
  <2>2. o.session = r.session /\ o.faults \in 0 .. MaxFaults
    BY <1>3, SentOutcome, ObservedOutcome
  <2>3. PICK q \in Sent(r.session, o.faults, "release", n) :
          IF q.ok THEN Finish(h, [q EXCEPT !.ok = o.ok]) ELSE Recover(h, q)
    BY <2>1, <2>2
  <2>4. PICK u : u = [q EXCEPT !.ok = o.ok]
    OBVIOUS
  <2>5. Outcome(u) /\ u.session = q.session /\ u.faults = q.faults
    BY <2>4, SentOutcome, Relabelled
  <2>6. /\ SessInv(q.session) /\ q.faults \in 0 .. MaxFaults
        /\ q.session.whole => r.session.whole
    BY <1>1, <1>3, <2>2, SentInv
  <2>7. q.session.whole
    BY <2>3, <2>6, <2>4, <2>5, RecoveredWork, FinishEnds
  <2>8. /\ WorkInv(r.session) /\ session.whole
        /\ Kept(r.session, Around(h) \union {n}) /\ Same(r.session, Around(h) \union {n})
        /\ r.session.durable = session.durable /\ r.session.work \subseteq session.work
        /\ r.session.work = BaseOf(h)
    BY <1>1, <1>5, <2>6, <2>7, WentBack
  <2>9. Has(r.session, n) /\ ~(r.session.root /\ Newest(r.session, n) = 1)
    <3>1. Has(session, n) /\ (session.root => Newest(session, n) > 1)
      BY <1>1, <2>8, Positions DEF NextInv
    <3>2. session \in Sessions /\ r.session \in Sessions
      BY <1>3 DEF NextInv, SessInv
    <3>3. IsNewest(session, n, Newest(session, n))
      BY <3>1, <3>2, NewestIs
    <3>4. IsNewest(r.session, n, Newest(session, n)) /\ r.session.root = session.root
      BY <2>6, <2>7, <2>8, <3>3 DEF Kept, Keeps
    <3>5. Has(r.session, n) /\ Newest(r.session, n) = Newest(session, n)
      BY <3>2, <3>4, NewestOne
    <3> QED BY <3>1, <3>4, <3>5
  <2>10. /\ Agree(r.session, q.session) /\ q.session.durable = r.session.durable
        /\ q.session.work = r.session.work
    BY <1>1, <1>3, <2>2, <2>7, <2>8, <2>9, SentSaves
  <2>11. Kept(q.session, Around(h))
    <3>1. r.session.whole => Keeps(session, r.session, Around(h) \union {n})
      BY <2>8 DEF Kept
    <3> QED BY <1>1, <1>3, <2>2, <2>8, <3>1, ReleaseSent
  <2>12. Same(q.session, Around(h))
    <3>1. Same(r.session, Around(h))
      BY <2>8 DEF Same
    <3> QED BY <1>3, <2>6, <2>7, <2>10, <2>11, <3>1, SameAlso DEF SessInv
  <2>13. CASE q.ok
    BY <2>3, <2>6, <2>4, <2>5, <2>8, <2>10, <2>12, <2>13, UndoneWork
  <2>14. CASE ~q.ok
    BY <2>3, <2>6, <2>8, <2>10, <2>14, RecoveredWork
  <2> QED BY <2>13, <2>14
<1> QED BY <1>4, <1>5

\* rollback() of a savepoint, which stays.
LEMMA RolledBackWork ==
  ASSUME NextInv, WorkInv(session), session'.whole, NEW h \in open, RollbackTo(h)
  PROVE  Scopes!Next
<1>1. info[h].save # NoSave
  BY SavepointNamed DEF RollbackTo
<1>2. PICK r \in Sent(session, faults, "rollback_to", info[h].save) :
        IF r.ok THEN /\ Shut(After(h)) /\ UNCHANGED <<info, minted>>
                     /\ \E o \in Observed(r) : Ends(o, Said(o))
        ELSE Recover(h, r)
  BY DEF RollbackTo
<1>3. SessInv(r.session) /\ r.faults \in 0 .. MaxFaults
  BY <1>1, RollbackToOwn
<1>4. r.session.whole
  BY <1>2, <1>3, RecoveredWork, SentOutcome, ObservedEnds
<1>5. /\ session.whole /\ Same(r.session, Around(h) \union {info[h].save})
      /\ r.session.durable = session.durable /\ r.session.work \subseteq session.work
      /\ r.ok => r.session.work = BaseOf(h)
  BY <1>1, <1>4, WentBack
<1>6. CASE ~r.ok
  BY <1>2, <1>3, <1>5, <1>6, RecoveredWork
<1>7. CASE r.ok
  <2>1. /\ Shut(After(h)) /\ info' = info
        /\ session' = r.session /\ said' \in {"returned", "raised"}
    BY <1>2, <1>3, <1>7, SentOutcome, ObservedEnds
  <2>2. open' = {e \in open : e <= h}
    BY <2>1, CloseLater DEF NextInv
  <2>3. open \subseteq Nat
    BY Handles DEF NextInv
  <2>4. \A g \in open' : g \in open /\ (g < h \/ g = h)
    BY <2>2, <2>3
  <2>5. \A g \in open' : info[g].save # NoSave =>
                           info[g].save \in Around(h) \union {info[h].save}
    BY <2>4 DEF Around
  <2>6. SessInv(session') /\ Same(session', Around(h) \union {info[h].save})
    BY <1>3, <1>5, <2>1
  <2>7. Scopes!LeaveScopes(open')
    BY <1>5, <2>1, <2>4, <2>5, <2>6, ScopesLeft
  <2>8. Base[h] = BaseOf(h) /\ ~Scopes!Outermost(h)
    BY <1>1, OutermostNamed DEF Base, BaseOf
  <2>9. Scopes!UndoTo(h)
    BY <1>5, <1>7, <2>1, <2>2, <2>7, <2>8 DEF Scopes!UndoTo, Scopes!Says
  <2> QED BY <2>9 DEF Scopes!Next
<1> QED BY <1>6, <1>7

-----------------------------------------------------------------------------
(* begin() and savepoint().                                                *)

\* A savepoint n on top of the handles', made for the writes that are pending.
MadeFor(t, n, k) ==
  /\ OnTop(t, n, k) /\ WorkInv(t) /\ Same(t, names)
  /\ t.saves[k].work = session.work
  /\ t.work = session.work /\ t.durable = session.durable

\* SAVEPOINT makes one.
LEMMA SavepointMade ==
  ASSUME NextInv, WorkInv(session), open # {}, NEW n \in Saves, n \notin names,
         NEW s, s = Applied(session, "savepoint", n)
  PROVE  MadeFor(s, n, Len(s.saves)) /\ Agree(session, s)
<1>1. "savepoint" \in SaveCommands /\ SessInv(session) /\ Accepted(session, "savepoint", n)
  BY DEF SaveCommands, NextInv, Accepted
<1>2. /\ WorkInv(s) /\ Agree(session, s)
      /\ s.work = session.work /\ s.durable = session.durable
      /\ s.saves[Len(session.saves) + 1].work = session.work
  BY <1>1, SavesWork
<1>3. OnTop(s, n, Len(s.saves))
  BY MadeOnTop
<1>4. s.saves = Append(session.saves, [name |-> n, work |-> session.work])
  BY <1>1, PushInv
<1>5. session \in Sessions /\ s \in Sessions
  BY <1>3 DEF OnTop, NextInv, SessInv
<1>6. PICK e : e = [name |-> n, work |-> session.work]
  OBVIOUS
<1>7. e.name = n /\ s.saves = Append(session.saves, e)
  BY <1>4, <1>6
<1>8. /\ Len(s.saves) = Len(session.saves) + 1
      /\ \A a, j : a # n /\ IsNewest(session, a, j) => IsNewest(s, a, j)
  BY <1>5, <1>7, PushNewest
<1>9. Same(s, names)
  <2> SUFFICES ASSUME NEW m \in names, NEW j, IsNewest(session, m, j)
               PROVE  IsNewest(s, m, j) /\ s.saves[j] = session.saves[j]
    BY DEF Same
  <2>1. IsNewest(s, m, j)
    BY <1>8
  <2>2. j \in 1 .. Len(session.saves) /\ j \in 1 .. Len(s.saves)
    BY <1>5, <2>1 DEF IsNewest, Sessions
  <2> QED BY <1>2, <2>1, <2>2 DEF Agree
<1> QED BY <1>2, <1>3, <1>8, <1>9 DEF MadeFor

\* Taking it back leaves the handles and the writes alone.
LEMMA TakenBack ==
  ASSUME NEW t, NEW n, NEW k, MadeFor(t, n, k), n \notin names, NEW f \in 0 .. MaxFaults,
         NEW do \in UndoCommands, NEW q \in Sent(t, f, do, n), q.session.whole
  PROVE  /\ session.whole /\ Same(q.session, names)
         /\ q.session.work = session.work /\ q.session.durable = session.durable
         /\ do = "rollback_to" /\ q.ok => MadeFor(q.session, n, k)
<1>1. /\ do \in Commands /\ do # "savepoint" /\ do \in SaveCommands
      /\ do = "release" \/ do = "rollback_to"
  BY DEF UndoCommands, Commands, SaveCommands
<1>2. /\ OnTop(t, n, k) /\ WorkInv(t) /\ Same(t, names)
      /\ t.saves[k].work = session.work
      /\ t.work = session.work /\ t.durable = session.durable
  BY DEF MadeFor
<1>3. /\ SessInv(t) /\ t \in Sessions /\ IsNewest(t, n, k)
      /\ t.whole => session.whole
      /\ session.whole => (t.root => k > 1)
  BY <1>2 DEF OnTop, SessInv
<1>4. SessInv(q.session) /\ Kept(q.session, names)
  BY <1>2, UndoKept
<1>5. t.whole /\ session.whole
  BY <1>1, <1>3, SentInv
<1>6. Has(t, n) /\ Newest(t, n) = k /\ k \in 1 .. Len(t.saves)
  BY <1>3, NewestOne
<1>7. ~(t.root /\ Newest(t, n) = 1)
  BY <1>3, <1>5, <1>6
<1>8. /\ Agree(t, q.session) /\ q.session.durable = t.durable
      /\ do # "rollback_to" => q.session.work = t.work
      /\ do = "rollback_to" =>
           \/ q.session.work = t.work /\ ~q.ok
           \/ Has(t, n) /\ q.session.work = t.saves[Newest(t, n)].work
  BY <1>1, <1>2, <1>3, <1>7, SentSaves
<1>9. q.session.work = session.work
  BY <1>2, <1>6, <1>8
<1>10. Same(q.session, names)
  BY <1>2, <1>3, <1>4, <1>8, SameAlso DEF SessInv
<1>11. ASSUME do = "rollback_to", q.ok
       PROVE  MadeFor(q.session, n, k)
  <2>1. OnTop(q.session, n, k)
    BY <1>2, <1>11, StillOnTop
  <2>2. WorkInv(q.session)
    BY <1>1, <1>2, <1>3, SentWork
  <2>3. k \in 1 .. Len(q.session.saves)
    BY <1>4, <2>1, NewestOne DEF OnTop, SessInv
  <2>4. q.session.saves[k].work = session.work
    BY <1>2, <1>6, <1>8, <2>3 DEF Agree
  <2> QED BY <1>2, <1>8, <1>9, <1>10, <2>1, <2>2, <2>4 DEF MadeFor
<1> QED BY <1>2, <1>5, <1>8, <1>9, <1>10, <1>11

\* An opening that raised inside the open handles.
LEMMA NotOpened ==
  ASSUME NextInv, session.whole, Registered, NEW q, Ends(q, "raised"), SessInv(q.session),
         Same(q.session, names),
         q.session.work = session.work, q.session.durable = session.durable
  PROVE  Scopes!Next
<1>1. session' = q.session /\ said' = "raised"
  BY DEF Ends
<1>2. \A g \in open : info[g].save # NoSave => info[g].save \in names
  BY HasNames
<1>3. SessInv(session') /\ Same(session', names)
  BY <1>1
<1>4. session'.work = session.work /\ session'.durable = session.durable
  BY <1>1
<1> QED BY <1>1, <1>2, <1>3, <1>4, RefusedWork

\* An opening that was refused.
LEMMA RefusedAtOnce ==
  ASSUME NextInv, session'.whole, Refuse
  PROVE  Scopes!Next
<1> DEFINE q == [session |-> session, faults |-> faults]
<1>1. /\ Registered /\ Ends(q, "raised") /\ q.session = session
  BY DEF Refuse
<1>2. session' = session
  BY <1>1 DEF Ends
<1>3. SessInv(session) /\ Same(session, names)
  BY SameSelf DEF NextInv
<1> HIDE DEF q
<1> QED BY <1>1, <1>2, <1>3, NotOpened

\* SAVEPOINT failed.
LEMMA SavepointFailed ==
  ASSUME NextInv, WorkInv(session), session'.whole, open # {}, NEW n \in Saves, n \notin names,
         NEW r \in Sent(session, faults, "savepoint", n), Registered, Ends(r, "raised")
  PROVE  Scopes!Next
<1>1. /\ SessInv(session) /\ faults \in 0 .. MaxFaults
      /\ "savepoint" \in SaveCommands /\ "savepoint" # "release"
      /\ "savepoint" # "rollback_to"
  BY DEF NextInv, RestInv, SaveCommands
<1>2. SessInv(r.session) /\ Kept(r.session, names) /\ session' = r.session
  BY SavepointSent DEF Ends
<1>3. r.session.whole
  BY <1>2
<1>4. /\ session.whole /\ Agree(session, r.session) /\ r.session.durable = session.durable
      /\ r.session.work = session.work
  BY <1>1, <1>3, SentSaves
<1>5. Same(r.session, names)
  BY <1>1, <1>2, <1>3, <1>4, SameSelf, SameAlso DEF SessInv
<1> QED BY <1>2, <1>4, <1>5, NotOpened

\* A handle opened inside the open ones.
LEMMA OpenedInside ==
  ASSUME NextInv, WorkInv(session), session'.whole, open # {}, NEW n \in Saves, n \notin names,
         NEW kind \in {"tx", "sp"}, NEW owner \in Nat,
         kind = "sp" => owner \in open /\ IsTx(owner),
         Construct(kind, owner, n), session' = Applied(session, "savepoint", n),
         said' = "returned"
  PROVE  Scopes!Next
<1>1. n # NoSave /\ n \in Saves \union {NoSave}
  BY NameIsNumber
<1>2. PICK m : m = made + 1
  OBVIOUS
<1>3. /\ open' = open \union {m} /\ m \notin open /\ info'[m].save = n
      /\ \A h \in open : info'[h] = info[h]
  BY <1>1, <1>2, OpenHandle DEF NextInv
<1>4. made' = m
  BY <1>2 DEF Construct, made, NextInv, RegInv
<1>5. PICK k : k = Len(session'.saves)
  OBVIOUS
<1>6. /\ OnTop(session', n, k) /\ Same(session', names)
      /\ session'.saves[k].work = session.work
      /\ session'.work = session.work /\ session'.durable = session.durable
  BY <1>5, SavepointMade DEF MadeFor
<1>7. /\ SessInv(session') /\ session.whole /\ session' \in Sessions
      /\ IsNewest(session', n, k)
  BY <1>6 DEF OnTop, SessInv
<1>8. Has(session', n) /\ Newest(session', n) = k
  BY <1>7, NewestOne
<1>9. BaseOf(m)' = session.work
  BY <1>1, <1>3, <1>6, <1>8 DEF BaseOf
<1>10. \A h \in open : info[h].save # NoSave => info[h].save \in names
  BY HasNames
<1> QED BY <1>2, <1>3, <1>4, <1>6, <1>7, <1>9, <1>10, OpenedWork

\* begin() inside a handle.
LEMMA BeginNestedWork ==
  ASSUME NextInv, WorkInv(session), session'.whole, BeginNested
  PROVE  Scopes!Next
<1> DEFINE n == minted + 1
<1>1. open # {} /\ minted' = n /\ n \in 1 .. MaxBegins
  <2>1. open # {} /\ minted' = n /\ minted < MaxBegins /\ minted \in 0 .. MaxBegins
    BY NoStack DEF NextInv, RestInv, BeginNested
  <2>2. MaxBegins \in Nat
    BY ConstantsAssumption
  <2> QED BY <2>1, <2>2
<1>2. n \in Saves /\ NoSave \in Nat
  BY <1>1, NameIsNumber DEF NoSave
<1>3. \/ Refuse
      \/ /\ n \notin names
         /\ \E r \in Sent(session, faults, "savepoint", n) :
              \/ ~r.ok /\ Registered /\ Ends(r, "raised")
              \/ /\ r.ok
                 /\ \E o \in Observed(r) :
                      IF o.ok THEN Construct("tx", NoSave, n) /\ Ends(o, "returned")
                      ELSE UndoSavepoint(o, n)
  BY <1>1 DEF BeginNested
<1> HIDE DEF n
<1>4. CASE Refuse
  BY <1>4, RefusedAtOnce
<1>5. CASE ~Refuse
  <2>1. n \notin names
    BY <1>3, <1>5
  <2>2. PICK r \in Sent(session, faults, "savepoint", n) :
              \/ ~r.ok /\ Registered /\ Ends(r, "raised")
              \/ /\ r.ok
                 /\ \E o \in Observed(r) :
                      IF o.ok THEN Construct("tx", NoSave, n) /\ Ends(o, "returned")
                      ELSE UndoSavepoint(o, n)
    BY <1>3, <1>5
  <2>3. CASE ~r.ok
    BY <1>1, <1>2, <2>1, <2>2, <2>3, SavepointFailed
  <2>4. CASE r.ok
    <3>1. PICK o \in Observed(r) :
            IF o.ok THEN Construct("tx", NoSave, n) /\ Ends(o, "returned")
            ELSE UndoSavepoint(o, n)
      BY <2>2, <2>4
    <3>2. PICK s : s = Applied(session, "savepoint", n)
      OBVIOUS
    <3>3. o.session = s /\ o.faults \in 0 .. MaxFaults
      BY <2>4, <3>2, SavepointObserved
    <3>4. CASE o.ok
      <4>1. Construct("tx", NoSave, n) /\ session' = s /\ said' = "returned"
        BY <3>1, <3>3, <3>4 DEF Ends
      <4> QED BY <1>1, <1>2, <2>1, <3>2, <4>1, OpenedInside
    <3>5. CASE ~o.ok
      <4>1. PICK k : MadeFor(s, n, k)
        BY <1>1, <1>2, <2>1, <3>2, SavepointMade
      <4>2. /\ Registered
            /\ \E u \in Sent(s, o.faults, "rollback_to", n) :
                 \/ ~u.ok /\ Ends(u, "raised")
                 \/ u.ok /\ \E q \in Sent(u.session, u.faults, "release", n) : Ends(q, "raised")
        BY <3>1, <3>3, <3>5 DEF UndoSavepoint
      <4>3. PICK u \in Sent(s, o.faults, "rollback_to", n) :
              \/ ~u.ok /\ Ends(u, "raised")
              \/ u.ok /\ \E q \in Sent(u.session, u.faults, "release", n) : Ends(q, "raised")
        BY <4>2
      <4>4. /\ "release" \in UndoCommands /\ "rollback_to" \in UndoCommands
            /\ "release" \in Commands /\ "release" # "savepoint"
        BY DEF UndoCommands, Commands
      <4>5. SessInv(u.session) /\ u.faults \in 0 .. MaxFaults
        BY <2>1, <3>3, <4>1, <4>4, UndoKept DEF MadeFor
      <4>6. CASE ~u.ok
        <5>1. Ends(u, "raised") /\ u.session.whole
          BY <4>3, <4>6 DEF Ends
        <5>2. /\ session.whole /\ Same(u.session, names)
              /\ u.session.work = session.work /\ u.session.durable = session.durable
          BY <2>1, <3>3, <4>1, <4>4, <5>1, TakenBack
        <5> QED BY <4>2, <4>5, <5>1, <5>2, NotOpened
      <4>7. CASE u.ok
        <5>1. PICK q \in Sent(u.session, u.faults, "release", n) : Ends(q, "raised")
          BY <4>3, <4>7
        <5>2. q.session.whole
          BY <5>1 DEF Ends
        <5>3. SessInv(q.session) /\ u.session.whole
          BY <4>4, <4>5, <5>2, SentInv
        <5>4. MadeFor(u.session, n, k)
          BY <2>1, <3>3, <4>1, <4>4, <4>7, <5>3, TakenBack
        <5>5. /\ session.whole /\ Same(q.session, names)
              /\ q.session.work = session.work /\ q.session.durable = session.durable
          BY <2>1, <4>4, <4>5, <5>2, <5>4, TakenBack
        <5> QED BY <4>2, <5>1, <5>3, <5>5, NotOpened
      <4> QED BY <4>6, <4>7
    <3> QED BY <3>4, <3>5
  <2> QED BY <2>3, <2>4
<1> QED BY <1>4, <1>5

\* savepoint().
LEMMA SavepointWork ==
  ASSUME NextInv, WorkInv(session), session'.whole, NEW t \in open, NEW n \in Name,
         Savepoint(t, n)
  PROVE  Scopes!Next
<1>1. n \in Saves /\ t \in Nat /\ IsTx(t)
  BY Handles DEF NextInv, Saves, Savepoint
<1>2. CASE Refuse
  BY <1>2, RefusedAtOnce
<1>3. CASE ~Refuse
  <2>1. n \notin names
    BY <1>3 DEF Savepoint
  <2>2. PICK r \in Sent(session, faults, "savepoint", n) :
          \/ ~r.ok /\ Registered /\ Ends(r, "raised")
          \/ /\ r.ok
             /\ \E o \in Observed(r) :
                  IF o.ok THEN Construct("sp", t, n) /\ Ends(o, "returned")
                  ELSE /\ Registered
                       /\ \E q \in Sent(o.session, o.faults, "release", n) : Ends(q, "raised")
    BY <1>3 DEF Savepoint
  <2>3. CASE ~r.ok
    BY <1>1, <2>1, <2>2, <2>3, SavepointFailed
  <2>4. CASE r.ok
    <3>1. PICK o \in Observed(r) :
            IF o.ok THEN Construct("sp", t, n) /\ Ends(o, "returned")
            ELSE /\ Registered
                 /\ \E q \in Sent(o.session, o.faults, "release", n) : Ends(q, "raised")
      BY <2>2, <2>4
    <3>2. PICK s : s = Applied(session, "savepoint", n)
      OBVIOUS
    <3>3. o.session = s /\ o.faults \in 0 .. MaxFaults
      BY <2>4, <3>2, SavepointObserved
    <3>4. CASE o.ok
      <4>1. Construct("sp", t, n) /\ session' = s /\ said' = "returned"
        BY <3>1, <3>3, <3>4 DEF Ends
      <4> QED BY <1>1, <2>1, <3>2, <4>1, OpenedInside
    <3>5. CASE ~o.ok
      <4>1. PICK k : MadeFor(s, n, k)
        BY <1>1, <2>1, <3>2, SavepointMade
      <4>2. /\ Registered
            /\ \E q \in Sent(s, o.faults, "release", n) : Ends(q, "raised")
        BY <3>1, <3>3, <3>5
      <4>3. PICK q \in Sent(s, o.faults, "release", n) : Ends(q, "raised")
        BY <4>2
      <4>4. "release" \in UndoCommands
        BY DEF UndoCommands
      <4>5. SessInv(q.session)
        BY <2>1, <3>3, <4>1, <4>4, UndoKept DEF MadeFor
      <4>6. q.session.whole
        BY <4>3 DEF Ends
      <4>7. /\ session.whole /\ Same(q.session, names)
            /\ q.session.work = session.work /\ q.session.durable = session.durable
        BY <2>1, <3>3, <4>1, <4>4, <4>6, TakenBack
      <4> QED BY <4>2, <4>3, <4>5, <4>7, NotOpened
    <3> QED BY <3>4, <3>5
  <2> QED BY <2>3, <2>4
<1> QED BY <1>2, <1>3

\* The outermost handle.
LEMMA OpenedOutside ==
  ASSUME NextInv, open = {}, Construct("tx", NoSave, NoSave), SessInv(session'),
         said' = "returned",
         session'.work = session.work, session'.durable = session.durable
  PROVE  Scopes!Next
<1>1. NoSave \notin names /\ NoSave \in Nat
  BY NoStack DEF NextInv, NoSave
<1>2. PICK m : m = made + 1
  OBVIOUS
<1>3. /\ open' = open \union {m} /\ m \notin open /\ info'[m].save = NoSave
      /\ \A h \in open : info'[h] = info[h]
  BY <1>1, <1>2, OpenHandle DEF NextInv
<1>4. made' = m
  BY <1>2 DEF Construct, made, NextInv, RegInv
<1>5. BaseOf(m)' = {}
  BY <1>3 DEF BaseOf
<1> QED BY <1>2, <1>3, <1>4, <1>5, OpenedWork

\* begin() outside every handle, in a transaction that is open.
LEMMA BeginAdoptsWork ==
  ASSUME NextInv, BeginAdopts
  PROVE  Scopes!Next
<1> DEFINE s == [session EXCEPT !.whole = TRUE]
<1>1. open = {} /\ Construct("tx", NoSave, NoSave)
  BY NoStack DEF NextInv, BeginAdopts
<1>2. session' = s /\ said' = "returned"
  BY DEF BeginAdopts, Ends
<1>3. SessInv(s) /\ s.work = session.work /\ s.durable = session.durable
  BY DEF NextInv, SessInv, Sessions
<1> HIDE DEF s
<1> QED BY <1>1, <1>2, <1>3, OpenedOutside

\* A begin() that failed outside every handle.
LEMMA UndoStartWork ==
  ASSUME open = {}, NEW r, UndoStart(r), SessInv(r.session), r.faults \in 0 .. MaxFaults,
         r.session.work = session.work, r.session.durable = session.durable
  PROVE  Scopes!Next
<1>1. PICK q \in Sent(r.session, r.faults, "rollback", NoSave) : Ends(q, "raised")
  BY DEF UndoStart
<1>2. session' = q.session /\ said' = "raised" /\ info' = info /\ open' = {}
  BY <1>1 DEF Ends, UndoStart, Registered
<1>3. "rollback" \in Keeping \union Giving /\ "rollback" \notin Keeping
  BY DEF Keeping, Giving
<1>4. AllOrNothing("rollback", r.session, q.session)
  BY <1>3, SentTop
<1>5. session'.work \subseteq session.work /\ session'.durable = session.durable
  BY <1>2, <1>3, <1>4 DEF AllOrNothing
<1> QED BY <1>2, <1>5, AbortedWork

\* BEGIN changes no writes, whatever becomes of it.
LEMMA BeginSent ==
  ASSUME NEW s, SessInv(s), s.txn = "none", NEW f \in 0 .. MaxFaults,
         NEW r \in Sent(s, f, "begin", NoSave)
  PROVE  /\ SessInv(r.session) /\ r.faults \in 0 .. MaxFaults
         /\ r.session.work = s.work /\ r.session.durable = s.durable
<1>1. "begin" \in Commands /\ "begin" # "savepoint" /\ Accepted(s, "begin", NoSave)
  BY DEF Commands, Accepted
<1>2. /\ SessInv(r.session) /\ r.faults \in 0 .. MaxFaults
      /\ r.ok => r.session = Applied(s, "begin", NoSave)
      /\ ~r.ok => r.session \in Raised(s, "begin", NoSave)
  BY <1>1, SentInv
<1>3. Spoiled(s) = {} /\ HalfDone(s, "begin") = {}
  BY DEF Spoiled, HalfDone
<1>4. r.session \in {s, Applied(s, "begin", NoSave)}
  BY <1>2, <1>3 DEF Raised
<1>5. PICK b : b = Applied(s, "begin", NoSave)
  OBVIOUS
<1>6. b = [s EXCEPT !.txn = "relq"] /\ s \in Sessions
  BY <1>5 DEF Applied, SessInv
<1>7. b.work = s.work /\ b.durable = s.durable
  BY <1>6 DEF Sessions
<1> QED BY <1>2, <1>4, <1>5, <1>7

\* begin() outside every handle and every transaction.
LEMMA BeginTopWork ==
  ASSUME NextInv, BeginTop
  PROVE  Scopes!Next
<1> DEFINE s == [session EXCEPT !.whole = TRUE]
<1>1. open = {} /\ session.txn = "none" /\ faults \in 0 .. MaxFaults
  BY NoStack DEF NextInv, RestInv, BeginTop
<1>2. /\ SessInv(s) /\ s.txn = "none"
      /\ s.work = session.work /\ s.durable = session.durable
  BY <1>1 DEF NextInv, SessInv, Sessions
<1>3. PICK r \in Sent(s, faults, "begin", NoSave) :
        \/ ~r.ok /\ UndoStart(r)
        \/ /\ r.ok
           /\ \E o \in Observed(r) :
                IF o.ok THEN Construct("tx", NoSave, NoSave) /\ Ends(o, "returned")
                ELSE UndoStart(o)
  BY DEF BeginTop
<1> HIDE DEF s
<1>4. /\ SessInv(r.session) /\ r.faults \in 0 .. MaxFaults
      /\ r.session.work = session.work /\ r.session.durable = session.durable
  BY <1>1, <1>2, BeginSent
<1>5. CASE ~r.ok
  BY <1>1, <1>3, <1>4, <1>5, UndoStartWork
<1>6. CASE r.ok
  <2>1. r = [session |-> Applied(s, "begin", NoSave), faults |-> faults, ok |-> TRUE]
    BY <1>6, SentRecord
  <2>2. PICK o \in Observed(r) :
          IF o.ok THEN Construct("tx", NoSave, NoSave) /\ Ends(o, "returned")
          ELSE UndoStart(o)
    BY <1>3, <1>6
  <2>3. o.session = r.session /\ o.faults \in 0 .. MaxFaults
    <3>1. PICK b : b = Applied(s, "begin", NoSave)
      OBVIOUS
    <3>2. r = [session |-> b, faults |-> faults, ok |-> TRUE] /\ r.session = b
      BY <2>1, <3>1
    <3> QED BY <1>1, <3>2, ObservedInv
  <2>4. CASE o.ok
    <3>1. Construct("tx", NoSave, NoSave) /\ session' = r.session /\ said' = "returned"
      BY <2>2, <2>3, <2>4 DEF Ends
    <3> QED BY <1>1, <1>4, <3>1, OpenedOutside
  <2>5. CASE ~o.ok
    BY <1>1, <1>4, <2>2, <2>3, <2>5, UndoStartWork
  <2> QED BY <2>4, <2>5
<1> QED BY <1>5, <1>6

-----------------------------------------------------------------------------
(* Statements and the caller.                                              *)

\* A statement that writes.
LEMMA ExecuteWork ==
  ASSUME NextInv, session'.whole, Execute
  PROVE  Scopes!Next
<1>1. /\ info' = info /\ open' = open /\ said' \in {"returned", "raised"}
      /\ written < MaxWrites /\ written' = written + 1
      /\ session' = Wrote(session, written')
      /\ session \in Sessions /\ SessInv(session')
  BY ExecuteEnds, ExecuteOK DEF NextInv, SessInv, StepOK
<1>2. written \in 0 .. MaxWrites /\ MaxWrites \in Nat
  BY ConstantsAssumption DEF NextInv, RestInv
<1>3. PICK w : w = written'
  OBVIOUS
<1>4. w \in Write
  BY <1>1, <1>2, <1>3 DEF Write
<1>5. /\ session'.saves = session.saves /\ session'.whole = session.whole
      /\ \/ /\ session'.work = session.work \union {w}
            /\ session'.durable = session.durable
         \/ /\ session.txn = "none" /\ session'.work = session.work
            /\ session'.durable = session.durable \union {w}
  <2>1. CASE session.txn # "none" \/ mode = "legacy"
    <3> DEFINE t == IF session.txn = "none" THEN "caller" ELSE session.txn
               v == session.work \union {w}
    <3>1. session' = [session EXCEPT !.txn = t, !.work = v]
      BY <1>1, <1>3, <2>1 DEF Wrote
    <3> HIDE DEF t, v
    <3>2. /\ session'.saves = session.saves /\ session'.whole = session.whole
          /\ session'.work = v /\ session'.durable = session.durable
      BY <1>1, <3>1 DEF Sessions
    <3> QED BY <3>2 DEF v
  <2>2. CASE ~(session.txn # "none" \/ mode = "legacy")
    <3> DEFINE v == session.durable \union {w}
    <3>1. session' = [session EXCEPT !.durable = v]
      BY <1>1, <1>3, <2>2 DEF Wrote
    <3> HIDE DEF v
    <3>2. /\ session'.saves = session.saves /\ session'.whole = session.whole
          /\ session'.work = session.work /\ session'.durable = v
      BY <1>1, <3>1 DEF Sessions
    <3> QED BY <2>2, <3>2 DEF v
  <2> QED BY <2>1, <2>2
<1>6. session.txn = "none" => open = {}
  BY <1>5 DEF NextInv, LiveInv
<1>7. Same(session', names)
  BY <1>5 DEF Same, IsNewest
<1>8. Base' = Base
  <2>1. \A h \in open' : info[h].save # NoSave => info[h].save \in names
    BY <1>1, HasNames
  <2> QED BY <1>1, <1>5, <1>7, <2>1, ScopesLeft
<1>9. Scopes!Writes(w)
  BY <1>1, <1>5, <1>6, <1>8 DEF Scopes!Writes, Scopes!Says, made
<1> QED BY <1>4, <1>9 DEF Scopes!Next

\* A statement that failed.
LEMMA ExecuteFailsWork ==
  ASSUME NextInv, session'.whole, ExecuteFails
  PROVE  Scopes!Next
<1>1. /\ info' = info /\ open' = open /\ names' = names /\ said' = "raised"
      /\ session' = session \/ session' \in Spoiled(session)
      /\ SessInv(session)
  BY DEF ExecuteFails, Silent, NextInv
<1>2. session' = session
  BY <1>1, SpoiledWork
<1>3. /\ Registered /\ Same(session', names) /\ SessInv(session')
      /\ \A h \in open : info[h].save # NoSave => info[h].save \in names
  BY <1>1, <1>2, HasNames, SameSelf DEF Registered
<1> QED BY <1>1, <1>2, <1>3, RefusedWork

\* The caller's own transaction.
LEMMA CallerWork ==
  ASSUME NextInv, WorkInv(session), CallerBegins \/ CallerEnds
  PROVE  Scopes!Next
<1>1. /\ info' = info /\ open' = open /\ said' = "returned" /\ open = {}
      /\ session \in Sessions /\ SessInv(session)
  BY DEF CallerBegins, CallerEnds, Silent, NextInv, SessInv
<1>2. Base' = Base
  BY <1>1 DEF Base
<1>3. \/ /\ session'.work = {}
         /\ session'.durable = session.durable \union session.work
      \/ session'.work = {} /\ session'.durable = session.durable
  <2>1. CASE CallerBegins
    <3>1. session' = [session EXCEPT !.txn = "caller"] /\ session.txn = "none"
      BY <2>1 DEF CallerBegins
    <3>2. session'.work = session.work /\ session'.durable = session.durable
      BY <1>1, <3>1 DEF Sessions
    <3> QED BY <3>1, <3>2 DEF WorkInv
  <2>2. CASE CallerEnds
    <3>1. PICK c, d : c = Committed(session) /\ d = Dropped(session)
      OBVIOUS
    <3>2. session' = Reopened(c) \/ session' = Reopened(d)
      BY <2>2, <3>1 DEF CallerEnds
    <3>3. /\ c.work = {} /\ c.durable = session.durable \union session.work
          /\ d.work = {} /\ d.durable = session.durable
          /\ SessInv(c) /\ SessInv(d)
      BY <1>1, <3>1, EndsWork, EndsInv
    <3>4. /\ Reopened(c).work = {} /\ Reopened(c).durable = c.durable
          /\ Reopened(d).work = {} /\ Reopened(d).durable = d.durable
      BY <3>3, ReopenedWork
    <3> QED BY <3>2, <3>3, <3>4
  <2> QED BY <1>1, <2>1, <2>2
<1>4. Scopes!CallerEnds
  BY <1>1, <1>2, <1>3 DEF Scopes!CallerEnds, Scopes!Commits, made
<1> QED BY <1>4 DEF Scopes!Next

-----------------------------------------------------------------------------
(* WorkInv is kept.                                                        *)

\* An operation that ends with a command other than SAVEPOINT.
LEMMA LastWork ==
  ASSUME NEW s, SessInv(s), WorkInv(s), NEW f \in 0 .. MaxFaults,
         NEW do \in Commands, do # "savepoint", NEW n, NEW q \in Sent(s, f, do, n)
  PROVE  /\ SessInv(q.session) /\ WorkInv(q.session) /\ q.faults \in 0 .. MaxFaults
         /\ \A how : Ends(q, how) => WorkInv(session')
<1>1. SessInv(q.session) /\ WorkInv(q.session) /\ q.faults \in 0 .. MaxFaults
  BY SentInv, SentWork
<1> QED BY <1>1 DEF Ends

\* A command of a handle that finished or was recovered from.
LEMMA EndedWork ==
  ASSUME NEW h, NEW r, SessInv(r.session), WorkInv(r.session), r.faults \in 0 .. MaxFaults,
         Outcome(r), Finish(h, r) \/ Recover(h, r)
  PROVE  WorkInv(session')
<1>1. CASE Finish(h, r)
  BY <1>1, FinishEnds
<1>2. CASE Recover(h, r)
  <2>1. PICK q \in Sent(r.session, r.faults, "rollback", NoSave) : Ends(q, "raised")
    BY <1>2 DEF Recover
  <2>2. "rollback" \in Commands /\ "rollback" # "savepoint"
    BY DEF Commands
  <2> QED BY <2>1, <2>2, LastWork
<1> QED BY <1>1, <1>2

\* commit(), rollback() and release() of a handle.
LEMMA HandleKeepsWork ==
  ASSUME NextInv, WorkInv(session), NEW h \in open,
         Commit(h) \/ RollbackTop(h) \/ RollbackNested(h) \/ Release(h) \/ RollbackTo(h)
  PROVE  WorkInv(session')
<1>1. /\ SessInv(session) /\ faults \in 0 .. MaxFaults
      /\ {"release", "rollback_to", Control("commit"), Control("rollback")} \subseteq Commands
      /\ "savepoint" \notin {"release", "rollback_to", Control("commit"), Control("rollback")}
  BY DEF NextInv, RestInv, Commands, Control
<1>2. ASSUME NEW do \in {"release", "rollback_to", Control("commit"), Control("rollback")},
             NEW n, NEW r \in Sent(session, faults, do, n)
      PROVE  /\ SessInv(r.session) /\ WorkInv(r.session) /\ r.faults \in 0 .. MaxFaults
             /\ Outcome(r)
  <2>1. do \in Commands /\ do # "savepoint"
    BY <1>1
  <2> QED BY <1>1, <2>1, LastWork, SentOutcome
<1>3. CASE Commit(h)
  <2>1. PICK r : /\ \/ r \in Sent(session, faults, Control("commit"), info[h].save)
                    \/ r \in Sent(session, faults, "release", info[h].save)
                 /\ IF r.ok THEN Finish(h, r) ELSE Recover(h, r)
    BY <1>3 DEF Commit
  <2> QED BY <1>2, <2>1, EndedWork
<1>4. CASE RollbackTop(h)
  <2>1. PICK r \in Sent(session, faults, Control("rollback"), NoSave) :
          IF r.ok THEN Finish(h, r) ELSE Recover(h, r)
    BY <1>4 DEF RollbackTop
  <2> QED BY <1>2, <2>1, EndedWork
<1>5. CASE Release(h)
  <2>1. PICK r \in Sent(session, faults, "release", info[h].save) :
          IF r.ok THEN Finish(h, r) ELSE Recover(h, r)
    BY <1>5 DEF Release
  <2> QED BY <1>2, <2>1, EndedWork
<1>6. CASE RollbackTo(h)
  <2>1. PICK r \in Sent(session, faults, "rollback_to", info[h].save) :
          IF r.ok THEN /\ Shut(After(h)) /\ UNCHANGED <<info, minted>>
                       /\ \E o \in Observed(r) : Ends(o, Said(o))
          ELSE Recover(h, r)
    BY <1>6 DEF RollbackTo
  <2>2. r.ok => session' = r.session
    BY <1>2, <2>1, ObservedEnds
  <2> QED BY <1>2, <2>1, <2>2, EndedWork
<1>7. CASE RollbackNested(h)
  <2>1. PICK r \in Sent(session, faults, "rollback_to", info[h].save) :
          IF ~r.ok THEN Recover(h, r)
          ELSE \E o \in Observed(r) :
                 \E q \in Sent(o.session, o.faults, "release", info[h].save) :
                   IF q.ok THEN Finish(h, [q EXCEPT !.ok = o.ok]) ELSE Recover(h, q)
    BY <1>7 DEF RollbackNested
  <2>2. /\ SessInv(r.session) /\ WorkInv(r.session) /\ r.faults \in 0 .. MaxFaults
        /\ Outcome(r)
    BY <1>2, <2>1
  <2>3. CASE ~r.ok
    BY <2>1, <2>2, <2>3, EndedWork
  <2>4. CASE r.ok
    <3>1. PICK o \in Observed(r) :
            \E q \in Sent(o.session, o.faults, "release", info[h].save) :
              IF q.ok THEN Finish(h, [q EXCEPT !.ok = o.ok]) ELSE Recover(h, q)
      BY <2>1, <2>4
    <3>2. o.session = r.session /\ o.faults \in 0 .. MaxFaults
      BY <2>2, ObservedOutcome
    <3>3. PICK q \in Sent(r.session, o.faults, "release", info[h].save) :
            IF q.ok THEN Finish(h, [q EXCEPT !.ok = o.ok]) ELSE Recover(h, q)
      BY <3>1, <3>2
    <3>4. "release" \in Commands /\ "release" # "savepoint"
      BY DEF Commands
    <3>5. /\ SessInv(q.session) /\ WorkInv(q.session) /\ q.faults \in 0 .. MaxFaults
          /\ Outcome(q)
      BY <2>2, <3>2, <3>4, LastWork, SentOutcome
    <3>6. PICK u : u = [q EXCEPT !.ok = o.ok]
      OBVIOUS
    <3>7. Outcome(u) /\ u.session = q.session /\ u.faults = q.faults
      BY <3>5, <3>6, Relabelled
    <3> QED BY <3>3, <3>5, <3>6, <3>7, EndedWork
  <2> QED BY <2>3, <2>4
<1> QED BY <1>3, <1>4, <1>5, <1>6, <1>7

\* begin() and savepoint() inside a handle.
LEMMA OpeningKeepsWork ==
  ASSUME NextInv, WorkInv(session),
         BeginNested \/ \E t \in open, n \in Name : Savepoint(t, n)
  PROVE  WorkInv(session')
<1>1. /\ SessInv(session) /\ faults \in 0 .. MaxFaults
      /\ {"savepoint", "release", "rollback_to"} \subseteq Commands
      /\ "savepoint" \notin {"release", "rollback_to"}
  BY DEF NextInv, RestInv, Commands
<1>2. PICK n \in Saves :
        \/ Refuse
        \/ \E r \in Sent(session, faults, "savepoint", n) :
             \/ Ends(r, "raised")
             \/ /\ r.ok
                /\ \E o \in Observed(r) :
                     \/ Ends(o, "returned") \/ UndoSavepoint(o, n)
                     \/ \E q \in Sent(o.session, o.faults, "release", n) : Ends(q, "raised")
  <2>1. CASE BeginNested
    <3>1. /\ minted' = minted + 1 /\ minted < MaxBegins /\ minted \in 0 .. MaxBegins
          /\ MaxBegins \in Nat
      BY <2>1, ConstantsAssumption DEF BeginNested, NextInv, RestInv
    <3>2. minted' \in 1 .. MaxBegins
      BY <3>1
    <3>3. minted' \in Saves
      BY <3>2, NameIsNumber
    <3> QED BY <2>1, <3>3 DEF BeginNested
  <2>2. CASE \E t \in open, n \in Name : Savepoint(t, n)
    <3>1. PICK t \in open, n \in Name : Savepoint(t, n)
      BY <2>2
    <3>2. n \in Saves
      BY DEF Saves
    <3> QED BY <3>1, <3>2 DEF Savepoint
  <2> QED BY <2>1, <2>2
<1>3. CASE Refuse
  <2> DEFINE q == [session |-> session, faults |-> faults]
  <2>1. Ends(q, "raised") /\ q.session = session
    BY <1>3 DEF Refuse
  <2>2. session' = session
    BY <2>1 DEF Ends
  <2> QED BY <2>2
<1>4. CASE ~Refuse
  <2>1. PICK r \in Sent(session, faults, "savepoint", n) :
          \/ Ends(r, "raised")
          \/ /\ r.ok
             /\ \E o \in Observed(r) :
                  \/ Ends(o, "returned") \/ UndoSavepoint(o, n)
                  \/ \E q \in Sent(o.session, o.faults, "release", n) : Ends(q, "raised")
    BY <1>2, <1>4
  <2>2. SessInv(r.session) /\ WorkInv(r.session)
    BY <1>1, SentInv, SentWork
  <2>3. CASE Ends(r, "raised")
    BY <2>2, <2>3 DEF Ends
  <2>4. CASE ~Ends(r, "raised")
    <3>1. r.ok
      BY <2>1, <2>4
    <3>2. PICK o \in Observed(r) :
            \/ Ends(o, "returned") \/ UndoSavepoint(o, n)
            \/ \E q \in Sent(o.session, o.faults, "release", n) : Ends(q, "raised")
      BY <2>1, <2>4
    <3>3. /\ o.session = Applied(session, "savepoint", n) /\ o.faults \in 0 .. MaxFaults
          /\ r = [session |-> Applied(session, "savepoint", n), faults |-> faults, ok |-> TRUE]
      BY <3>1, SavepointObserved, SentRecord
    <3>4. o.session = r.session
      BY <3>3
    <3>5. SessInv(o.session) /\ WorkInv(o.session) /\ o.faults \in 0 .. MaxFaults
      BY <2>2, <3>3, <3>4
    <3>6. CASE Ends(o, "returned")
      BY <3>5, <3>6 DEF Ends
    <3>7. CASE \E q \in Sent(o.session, o.faults, "release", n) : Ends(q, "raised")
      <4>1. "release" \in Commands /\ "release" # "savepoint"
        BY DEF Commands
      <4> QED BY <3>5, <3>7, <4>1, LastWork
    <3>8. CASE UndoSavepoint(o, n)
      <4>1. PICK u \in Sent(o.session, o.faults, "rollback_to", n) :
              \/ ~u.ok /\ Ends(u, "raised")
              \/ u.ok /\ \E q \in Sent(u.session, u.faults, "release", n) : Ends(q, "raised")
        BY <3>8 DEF UndoSavepoint
      <4>2. /\ "release" \in Commands /\ "release" # "savepoint"
            /\ "rollback_to" \in Commands /\ "rollback_to" # "savepoint"
        BY DEF Commands
      <4>3. SessInv(u.session) /\ WorkInv(u.session) /\ u.faults \in 0 .. MaxFaults
        BY <3>5, <4>2, LastWork
      <4>4. CASE Ends(u, "raised")
        BY <4>3, <4>4 DEF Ends
      <4>5. CASE \E q \in Sent(u.session, u.faults, "release", n) : Ends(q, "raised")
        BY <4>2, <4>3, <4>5, LastWork
      <4> QED BY <4>1, <4>4, <4>5
    <3> QED BY <3>2, <3>6, <3>7, <3>8
  <2> QED BY <2>3, <2>4
<1> QED BY <1>3, <1>4

\* begin() outside every handle.
LEMMA StartKeepsWork ==
  ASSUME NextInv, WorkInv(session), BeginAdopts \/ BeginTop
  PROVE  WorkInv(session')
<1> DEFINE s == [session EXCEPT !.whole = TRUE]
<1>1. /\ s.saves = session.saves /\ s.work = session.work /\ s.txn = session.txn
      /\ SessInv(s) /\ faults \in 0 .. MaxFaults
  BY DEF NextInv, SessInv, Sessions, RestInv
<1>2. CASE BeginAdopts
  <2>1. session' = s
    BY <1>2 DEF BeginAdopts, Ends
  <2> HIDE DEF s
  <2> QED BY <1>1, <2>1 DEF WorkInv
<1>3. CASE BeginTop
  <2>1. PICK r \in Sent(s, faults, "begin", NoSave) :
          \/ ~r.ok /\ UndoStart(r)
          \/ /\ r.ok
             /\ \E o \in Observed(r) :
                  IF o.ok THEN Construct("tx", NoSave, NoSave) /\ Ends(o, "returned")
                  ELSE UndoStart(o)
    BY <1>3 DEF BeginTop
  <2> HIDE DEF s
  <2>2. WorkInv(s)
    BY <1>1 DEF WorkInv
  <2>3. "begin" \in Commands /\ "begin" # "savepoint"
    BY DEF Commands
  <2>4. SessInv(r.session) /\ WorkInv(r.session) /\ r.faults \in 0 .. MaxFaults
    BY <1>1, <2>2, <2>3, LastWork
  <2>5. ASSUME NEW e, UndoStart(e), e.session = r.session, e.faults \in 0 .. MaxFaults
        PROVE  WorkInv(session')
    <3>1. PICK q \in Sent(e.session, e.faults, "rollback", NoSave) : Ends(q, "raised")
      BY <2>5 DEF UndoStart
    <3>2. "rollback" \in Commands /\ "rollback" # "savepoint"
      BY DEF Commands
    <3>3. SessInv(e.session) /\ WorkInv(e.session)
      BY <2>4, <2>5
    <3> QED BY <2>5, <3>1, <3>2, <3>3, LastWork
  <2>6. CASE ~r.ok
    BY <2>1, <2>4, <2>5, <2>6
  <2>7. CASE r.ok
    <3>1. PICK o \in Observed(r) :
            IF o.ok THEN Construct("tx", NoSave, NoSave) /\ Ends(o, "returned")
            ELSE UndoStart(o)
      BY <2>1, <2>7
    <3>2. PICK b : b = Applied(s, "begin", NoSave)
      OBVIOUS
    <3>3. r = [session |-> b, faults |-> faults, ok |-> TRUE]
      BY <2>7, <3>2, SentRecord
    <3>4. o.session = b /\ o.faults \in 0 .. MaxFaults /\ r.session = b
      BY <1>1, <3>3, ObservedInv
    <3>5. CASE o.ok
      <4>1. session' = r.session
        BY <3>1, <3>4, <3>5 DEF Ends
      <4> QED BY <2>4, <4>1
    <3>6. CASE ~o.ok
      BY <2>5, <3>1, <3>4, <3>6
    <3> QED BY <3>5, <3>6
  <2> QED BY <2>6, <2>7
<1> QED BY <1>2, <1>3

\* Statements and the caller.
LEMMA StatementKeepsWork ==
  ASSUME NextInv, WorkInv(session), Execute \/ ExecuteFails \/ CallerBegins \/ CallerEnds
  PROVE  WorkInv(session')
<1>1. session \in Sessions /\ SessInv(session)
  BY DEF NextInv, SessInv
<1>2. CASE Execute
  <2>1. CASE session.txn # "none" \/ mode = "legacy"
    <3> DEFINE t == IF session.txn = "none" THEN "caller" ELSE session.txn
               v == session.work \union {written'}
    <3>1. session' = [session EXCEPT !.txn = t, !.work = v]
      BY <1>2, <2>1, ExecuteEnds DEF Wrote
    <3>2. t # "none" /\ session.work \subseteq v
      OBVIOUS
    <3> HIDE DEF t, v
    <3>3. session'.txn = t /\ session'.saves = session.saves /\ session'.work = v
      BY <1>1, <3>1 DEF Sessions
    <3> QED BY <3>2, <3>3 DEF WorkInv
  <2>2. CASE ~(session.txn # "none" \/ mode = "legacy")
    <3> DEFINE v == session.durable \union {written'}
    <3>1. session' = [session EXCEPT !.durable = v]
      BY <1>2, <2>2, ExecuteEnds DEF Wrote
    <3> HIDE DEF v
    <3>2. /\ session'.txn = session.txn /\ session'.saves = session.saves
          /\ session'.work = session.work
      BY <1>1, <3>1 DEF Sessions
    <3> QED BY <3>2 DEF WorkInv
  <2> QED BY <2>1, <2>2
<1>3. CASE ExecuteFails
  <2>1. session' = session \/ session' \in Spoiled(session)
    BY <1>3 DEF ExecuteFails
  <2> QED BY <1>1, <2>1, SpoiledWork, EmptyWork
<1>4. CASE CallerBegins
  <2>1. session' = [session EXCEPT !.txn = "caller"]
    BY <1>4 DEF CallerBegins
  <2>2. /\ session'.txn = "caller" /\ session'.saves = session.saves
        /\ session'.work = session.work
    BY <1>1, <2>1 DEF Sessions
  <2> QED BY <2>2 DEF WorkInv
<1>5. CASE CallerEnds
  <2>1. PICK c, d : c = Committed(session) /\ d = Dropped(session)
    OBVIOUS
  <2>2. session' = Reopened(c) \/ session' = Reopened(d)
    BY <1>5, <2>1 DEF CallerEnds
  <2>3. /\ c.work = {} /\ c.saves = <<>> /\ d.work = {} /\ d.saves = <<>>
        /\ SessInv(c) /\ SessInv(d)
    BY <1>1, <2>1, EndsWork, EndsInv
  <2>4. session'.work = {} /\ session'.saves = <<>>
    BY <2>2, <2>3, ReopenedWork
  <2> QED BY <2>4, EmptyWork
<1> QED BY <1>2, <1>3, <1>4, <1>5

-----------------------------------------------------------------------------
(* The theorem.                                                            *)

\* Nothing is pending, and nothing open, at first.
LEMMA InitWork ==
  ASSUME Init
  PROVE  WorkInv(session) /\ Scopes!Init
<1>1. PICK f : f = Fresh
  OBVIOUS
<1>2. SessInv(f) /\ f.work = {} /\ f.saves = <<>> /\ f.durable = {} /\ f.whole = TRUE
  <2>1. <<>> \in Seq(Savepoints)
    OBVIOUS
  <2> QED BY <1>1, <2>1 DEF Fresh, SessInv, Sessions
<1>3. /\ session.work = {} /\ session.saves = <<>> /\ session.durable = {}
      /\ session.whole = TRUE
  BY <1>1, <1>2, ReopenedWork, ReopenedInv DEF Init
<1>4. WorkInv(session)
  BY <1>3, EmptyWork
<1>5. made = 0 /\ open = {} /\ said = "returned"
  BY DEF Init, made
<1>6. Base = <<>>
  BY <1>5 DEF Base
<1> QED BY <1>3, <1>4, <1>5, <1>6 DEF Scopes!Init

\* Every step is one of WorkScopes, until the database ends the transaction by
\* itself.
LEMMA NextWork ==
  ASSUME NextInv, WorkInv(session), [Next]_vars
  PROVE  WorkInv(session') /\ [Scopes!Next \/ ~session'.whole]_(Scopes!vars)
<1>1. CASE BeginAdopts
  BY <1>1, StartKeepsWork, BeginAdoptsWork
<1>2. CASE BeginTop
  BY <1>2, StartKeepsWork, BeginTopWork
<1>3. CASE BeginNested
  BY <1>3, OpeningKeepsWork, BeginNestedWork
<1>4. ASSUME NEW h \in open, NEW n \in Name, Savepoint(h, n)
      PROVE  WorkInv(session') /\ (Scopes!Next \/ ~session'.whole)
  BY <1>4, OpeningKeepsWork, SavepointWork
<1>5. ASSUME NEW h \in open, Commit(h)
      PROVE  WorkInv(session') /\ (Scopes!Next \/ ~session'.whole)
  <2>1. WorkInv(session')
    BY <1>5, HandleKeepsWork
  <2>2. CASE info[h].save = NoSave
    <3>1. PICK do : do = Control("commit")
      OBVIOUS
    <3>2. do \in Keeping \union Giving
      BY <3>1 DEF Control, Keeping, Giving
    <3>3. PICK r \in Sent(session, faults, do, NoSave) :
            IF r.ok THEN Finish(h, r) ELSE Recover(h, r)
      BY <1>5, <2>2, <3>1 DEF Commit
    <3> QED BY <2>1, <2>2, <3>2, <3>3, ControlWork
  <2>3. CASE info[h].save # NoSave
    <3>1. PICK r \in Sent(session, faults, "release", info[h].save) :
            IF r.ok THEN Finish(h, r) ELSE Recover(h, r)
      BY <1>5, <2>3 DEF Commit
    <3> QED BY <2>1, <2>3, <3>1, ReleasedWork
  <2> QED BY <2>2, <2>3
<1>6. ASSUME NEW h \in open, RollbackTop(h)
      PROVE  WorkInv(session') /\ (Scopes!Next \/ ~session'.whole)
  <2>1. WorkInv(session')
    BY <1>6, HandleKeepsWork
  <2>2. PICK do : do = Control("rollback")
    OBVIOUS
  <2>3. do \in Keeping \union Giving
    BY <2>2 DEF Control, Keeping, Giving
  <2>4. info[h].save = NoSave
    BY <1>6 DEF RollbackTop
  <2>5. PICK r \in Sent(session, faults, do, NoSave) :
          IF r.ok THEN Finish(h, r) ELSE Recover(h, r)
    BY <1>6, <2>2 DEF RollbackTop
  <2> QED BY <2>1, <2>3, <2>4, <2>5, ControlWork
<1>7. ASSUME NEW h \in open, RollbackNested(h)
      PROVE  WorkInv(session') /\ (Scopes!Next \/ ~session'.whole)
  BY <1>7, HandleKeepsWork, NestedWork
<1>8. ASSUME NEW h \in open, Release(h)
      PROVE  WorkInv(session') /\ (Scopes!Next \/ ~session'.whole)
  <2>1. WorkInv(session')
    BY <1>8, HandleKeepsWork
  <2>2. info[h].save # NoSave
    BY <1>8, SavepointNamed DEF Release
  <2>3. PICK r \in Sent(session, faults, "release", info[h].save) :
          IF r.ok THEN Finish(h, r) ELSE Recover(h, r)
    BY <1>8 DEF Release
  <2> QED BY <2>1, <2>2, <2>3, ReleasedWork
<1>9. ASSUME NEW h \in open, RollbackTo(h)
      PROVE  WorkInv(session') /\ (Scopes!Next \/ ~session'.whole)
  BY <1>9, HandleKeepsWork, RolledBackWork
<1>10. CASE Execute
  BY <1>10, StatementKeepsWork, ExecuteWork
<1>11. CASE ExecuteFails
  BY <1>11, StatementKeepsWork, ExecuteFailsWork
<1>12. CASE CallerBegins \/ CallerEnds
  BY <1>12, StatementKeepsWork, CallerWork
<1>13. CASE UNCHANGED vars
  <2>1. info' = info /\ open' = open /\ said' = said /\ session' = session
    BY <1>13 DEF vars
  <2>2. made' = made /\ Base' = Base
    BY <2>1 DEF made, Base
  <2> QED BY <2>1, <2>2 DEF Scopes!vars
<1> QED BY <1>1, <1>2, <1>3, <1>4, <1>5, <1>6, <1>7, <1>8, <1>9, <1>10, <1>11,
           <1>12, <1>13 DEF Next

\* docs/execution.md, and commit, rollback, savepoint and recovery (560-722):
\* for any modes, names and faults, a commit that returns keeps, a rollback
\* that returns discards exactly what was written since its handle opened, and
\* only the outermost commit makes writes durable, all of them or none.
THEOREM WritesFollowScopesCorrect == Spec => WritesFollowScopes
<1>1. Init => WorkInv(session) /\ Scopes!Init
  BY InitWork
<1>2. NextInv /\ WorkInv(session) /\ [Next]_vars
        => WorkInv(session)' /\ [Scopes!Next \/ ~(session.whole)']_(Scopes!vars)
  <2> SUFFICES ASSUME NextInv, WorkInv(session), [Next]_vars
               PROVE  WorkInv(session)' /\ [Scopes!Next \/ ~(session.whole)']_(Scopes!vars)
    OBVIOUS
  <2>1. WorkInv(session') /\ [Scopes!Next \/ ~session'.whole]_(Scopes!vars)
    BY NextWork
  <2> QED BY <2>1 DEF WorkInv
<1> QED BY <1>1, <1>2, InvariantHolds, PTL DEF Spec, WritesFollowScopes, Scopes!Spec

=============================================================================
