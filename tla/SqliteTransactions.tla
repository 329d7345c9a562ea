-------------------------- MODULE SqliteTransactions --------------------------
(***************************************************************************)
(* Controlled transactions and savepoints of the sqlite3 executor          *)
(* (relq_sqlite) on ONE connection.  The executor is synchronous: an       *)
(* operation is one action, and what can fail inside it is the outcome of  *)
(* each command it sends.                                                  *)
(*                                                                         *)
(* A handle is a ControlledTransaction ("tx") or a _SQLiteSavepoint        *)
(* ("sp"), numbered in the order of registration: the `entries` of the     *)
(* connection's registry are its open handles in increasing order, and its *)
(* `stack` is the "tx" part.  A registry exists only while it has entries, *)
(* so there is one.  The session (external) is what SQLite and the sqlite3 *)
(* module keep of the connection.                                          *)
(***************************************************************************)
EXTENDS Integers, Sequences, FiniteSets

CONSTANTS
  Modes,       \* the connection's transaction control: "autocommit" (True),
               \* "pep249" (False), "legacy" and "manual" (legacy control with
               \* and without an isolation_level)
  Name,        \* names that callers give to savepoint(); a number up to
               \* MaxBegins is spelled like a generated __relq_controlled_<n>
  MaxHandles,  \* bound: handles ever constructed
  MaxBegins,   \* bound: generated savepoint names ever drawn
  MaxWrites,   \* bound: writes ever made
  MaxFaults    \* bound: failed or interrupted commands, interrupted observers

ASSUME ConstantsAssumption ==
  /\ Modes \subseteq {"autocommit", "pep249", "legacy", "manual"}
  /\ Name \subseteq Nat \ {0}
  /\ MaxHandles \in Nat /\ MaxBegins \in Nat
  /\ MaxWrites \in Nat /\ MaxFaults \in Nat

NoSave == 0                  \* "no generated savepoint name" (None)
Write  == 1 .. MaxWrites
Saves  == Name \union (1 .. MaxBegins)

VARIABLES
  mode,      \* transaction control of the connection
  info,      \* what the constructor stored in each handle, in that order
  open,      \* handles that are not closed, released or invalidated
  names,     \* savepoint_names
  minted,    \* _TRANSACTION_SEQUENCE
  session,   \* the database side of the connection
  written,   \* writes made so far
  faults,    \* faults spent
  said       \* whether the last operation returned or raised

vars == <<mode, info, open, names, minted, session, written, faults, said>>

made == Len(info)

-----------------------------------------------------------------------------
(* SQLite and sqlite3: the open transaction, its savepoints and its writes. *)

Fresh == [txn |-> "none", root |-> FALSE, saves |-> <<>>, work |-> {},
          durable |-> {}, whole |-> TRUE]

Savepoints == [name: Saves, work: SUBSET Write]

\* root: the transaction was opened by its first savepoint, whose release
\* commits it.  whole: SQLite has not ended the transaction by itself.
Sessions == [txn: {"none", "caller", "relq"}, root: BOOLEAN,
             saves: Seq(Savepoints), work: SUBSET Write,
             durable: SUBSET Write, whole: BOOLEAN]

\* The savepoint of that name that a command finds: the newest.
IsNewest(s, n, k) ==
  /\ k \in DOMAIN s.saves /\ s.saves[k].name = n
  /\ \A j \in DOMAIN s.saves : j > k => s.saves[j].name # n
Has(s, n) == \E k \in DOMAIN s.saves : IsNewest(s, n, k)
Newest(s, n) == CHOOSE k \in DOMAIN s.saves : IsNewest(s, n, k)

Dropped(s) == [s EXCEPT !.txn = "none", !.root = FALSE, !.saves = <<>>, !.work = {}]
Committed(s) == [Dropped(s) EXCEPT !.durable = @ \union s.work]

\* connection.commit() and rollback(): nothing without a transaction under
\* legacy control, and a new transaction at once under autocommit=False.
Reopened(s) == IF mode = "pep249" THEN [s EXCEPT !.txn = "caller"] ELSE s

Accepted(s, do, n) ==
  CASE do = "begin" -> s.txn = "none"
    [] do \in {"commit", "rollback"} -> s.txn # "none"
    [] do \in {"call_commit", "call_rollback"} -> mode = "pep249" => s.txn # "none"
    [] do = "savepoint" -> TRUE
    [] do \in {"release", "rollback_to"} -> Has(s, n)

Applied(s, do, n) ==
  CASE do = "begin" -> [s EXCEPT !.txn = "relq"]
    [] do = "commit" -> Committed(s)
    [] do = "rollback" -> Dropped(s)
    [] do = "call_commit" -> Reopened(Committed(s))
    [] do = "call_rollback" -> Reopened(Dropped(s))
    [] do = "savepoint" ->
         [s EXCEPT !.txn = IF @ = "none" THEN "relq" ELSE @,
                   !.root = @ \/ s.txn = "none",
                   !.saves = Append(@, [name |-> n, work |-> s.work])]
    [] do = "release" ->
         IF s.root /\ Newest(s, n) = 1 THEN Committed(s)
         ELSE [s EXCEPT !.saves = SubSeq(@, 1, Newest(s, n) - 1)]
    [] do = "rollback_to" ->
         [s EXCEPT !.saves = SubSeq(@, 1, Newest(s, n)),
                   !.work = s.saves[Newest(s, n)].work]

\* A command that raises was not applied, was applied before an interrupt, or
\* made SQLite roll the whole transaction back (disk full, I/O error).
Spoiled(s) == IF s.txn = "none" THEN {} ELSE {[Dropped(s) EXCEPT !.whole = FALSE]}

HalfDone(s, do) ==
  CASE do = "call_commit" -> {Committed(s)}
    [] do = "call_rollback" -> {Dropped(s)}
    [] OTHER -> {}

Raised(s, do, n) == {s, Applied(s, do, n)} \union Spoiled(s) \union HalfDone(s, do)

\* Every outcome of one command: the session, the faults spent, and success.
Sent(s, f, do, n) ==
  IF ~Accepted(s, do, n) THEN {[session |-> s, faults |-> f, ok |-> FALSE]}
  ELSE {[session |-> Applied(s, do, n), faults |-> f, ok |-> TRUE]}
       \union {[session |-> r, faults |-> f + 1, ok |-> FALSE] :
                 r \in IF f < MaxFaults THEN Raised(s, do, n) ELSE {}}

\* The observer runs after a command that went well; an interrupt may hit it,
\* and then what was applied is reported as an exception.
Observed(r) == {r} \union IF r.faults < MaxFaults
                          THEN {[r EXCEPT !.faults = @ + 1, !.ok = FALSE]} ELSE {}

Said(r) == IF r.ok THEN "returned" ELSE "raised"

-----------------------------------------------------------------------------
(* The registry.                                                           *)

IsTx(h) == info[h].kind = "tx"
Stack == {h \in open : IsTx(h)}

\* Mutant of After: savepoints only, so that nested transactions survive.
AfterSavepoints(h) == {e \in open : e > h /\ ~IsTx(e)}

After(h) == {e \in open : e > h}
NamesOf(S) == {info[e].save : e \in S}

\* Savepoint handles of h's owner are usable only while the owner is.
Usable(h) == h \in open /\ (~IsTx(h) => info[h].owner \in open)

\* Mutant of Shut: closing a handle frees its own name only.
ShutOwnName(S) ==
  /\ open' = open \ S
  /\ names' = names \ NamesOf({h \in S : ~IsTx(h)})

\* Closing a transaction closes the savepoints it owns: they are in S too.
Shut(S) == open' = open \ S /\ names' = names \ NamesOf(S)

\* Mutant of Construct: a transaction without a name reserves that, too.
ConstructNoName(kind, owner, save) ==
  /\ info' = Append(info, [kind |-> kind, owner |-> owner, save |-> save])
  /\ open' = open \union {made + 1}
  /\ names' = names \union {save}

Construct(kind, owner, save) ==
  /\ info' = Append(info, [kind |-> kind, owner |-> owner, save |-> save])
  /\ open' = open \union {made + 1}
  /\ names' = names \union ({save} \ {NoSave})

Registered == UNCHANGED <<info, open, names>>

Ends(r, how) ==
  /\ session' = r.session /\ faults' = r.faults
  /\ said' = how
  /\ UNCHANGED <<mode, written>>

\* Mutant of Recover: the handles around the failed one stay open.
RecoverInner(h, r) ==
  /\ Shut({h} \union After(h))
  /\ UNCHANGED <<info, minted>>
  /\ \E q \in Sent(r.session, r.faults, "rollback", NoSave) : Ends(q, "raised")

\* A control command of h raised: every handle is invalidated, and the whole
\* transaction rolled back; the failure of that, or of its observer, is raised
\* in its place.
Recover(h, r) ==
  /\ open' = {} /\ names' = {}
  /\ UNCHANGED <<info, minted>>
  /\ \E q \in Sent(r.session, r.faults, "rollback", NoSave) : Ends(q, "raised")

-----------------------------------------------------------------------------
(* begin()                                                                 *)

\* Outside every handle, in a transaction that is already open.
BeginAdopts ==
  /\ Stack = {} /\ made < MaxHandles
  /\ session.txn # "none"
  /\ Construct("tx", NoSave, NoSave)
  /\ Ends([session |-> [session EXCEPT !.whole = TRUE], faults |-> faults], "returned")
  /\ UNCHANGED minted

\* Mutant of UndoStart: a begin that failed is left to the database.
UndoStartNever(r) == Registered /\ Ends(r, "raised")

\* BEGIN or its observer failed: a raw ROLLBACK, whose failure is only logged.
UndoStart(r) ==
  /\ Registered
  /\ \E q \in Sent(r.session, r.faults, "rollback", NoSave) : Ends(q, "raised")

\* Outside every handle and every transaction.
BeginTop ==
  /\ Stack = {} /\ made < MaxHandles
  /\ session.txn = "none"
  /\ UNCHANGED minted
  /\ \E r \in Sent([session EXCEPT !.whole = TRUE], faults, "begin", NoSave) :
       \/ ~r.ok /\ UndoStart(r)
       \/ /\ r.ok
          /\ \E o \in Observed(r) :
               IF o.ok THEN Construct("tx", NoSave, NoSave) /\ Ends(o, "returned")
               ELSE UndoStart(o)

\* An interrupted observer: SAVEPOINT is taken back as far as that goes.
UndoSavepoint(r, n) ==
  /\ Registered
  /\ \E u \in Sent(r.session, r.faults, "rollback_to", n) :
       \/ ~u.ok /\ Ends(u, "raised")
       \/ u.ok /\ \E q \in Sent(u.session, u.faults, "release", n) : Ends(q, "raised")

\* A name that is taken is refused before anything is sent.
Refuse == Registered /\ Ends([session |-> session, faults |-> faults], "raised")

\* The name is reserved before SAVEPOINT is sent; a caller's savepoint may
\* have been given the same spelling.
BeginNested ==
  /\ Stack # {} /\ made < MaxHandles /\ minted < MaxBegins
  /\ minted' = minted + 1
  /\ \/ minted' \in names /\ Refuse
     \/ /\ minted' \notin names
        /\ \E r \in Sent(session, faults, "savepoint", minted') :
             \/ ~r.ok /\ Registered /\ Ends(r, "raised")
             \/ /\ r.ok
                /\ \E o \in Observed(r) :
                     IF o.ok THEN Construct("tx", NoSave, minted') /\ Ends(o, "returned")
                     ELSE UndoSavepoint(o, minted')

-----------------------------------------------------------------------------
(* commit(), rollback() of a controlled transaction                        *)

\* What _top_level_control sends for the outermost handle.
Control(do) == IF mode = "autocommit" THEN do
               ELSE IF do = "commit" THEN "call_commit" ELSE "call_rollback"

\* The handle is closed before the observer runs: an interrupted observer makes
\* an operation raise that has done its work.
Finish(h, r) ==
  /\ Shut({h} \union After(h))
  /\ UNCHANGED <<info, minted>>
  /\ \E o \in Observed(r) : Ends(o, Said(o))

\* Mutant of Commit: an error of the command is logged, not recovered from.
CommitLogged(h) ==
  /\ Usable(h) /\ IsTx(h)
  /\ LET n == info[h].save IN
     \E r \in IF n = NoSave THEN Sent(session, faults, Control("commit"), n)
              ELSE Sent(session, faults, "release", n) : Finish(h, [r EXCEPT !.ok = TRUE])

Commit(h) ==
  /\ Usable(h) /\ IsTx(h)
  /\ LET n == info[h].save IN
     \E r \in IF n = NoSave THEN Sent(session, faults, Control("commit"), n)
              ELSE Sent(session, faults, "release", n) :
       IF r.ok THEN Finish(h, r) ELSE Recover(h, r)

RollbackTop(h) ==
  /\ Usable(h) /\ IsTx(h) /\ info[h].save = NoSave
  /\ \E r \in Sent(session, faults, Control("rollback"), NoSave) :
       IF r.ok THEN Finish(h, r) ELSE Recover(h, r)

\* ROLLBACK TO keeps the savepoint, so it is released as well, also when the
\* observer of the first command was interrupted: that is raised at the end.
RollbackNested(h) ==
  /\ Usable(h) /\ IsTx(h) /\ info[h].save # NoSave
  /\ \E r \in Sent(session, faults, "rollback_to", info[h].save) :
       IF ~r.ok THEN Recover(h, r)
       ELSE \E o \in Observed(r) :
              \E q \in Sent(o.session, o.faults, "release", info[h].save) :
                IF q.ok THEN Finish(h, [q EXCEPT !.ok = o.ok]) ELSE Recover(h, q)

-----------------------------------------------------------------------------
(* savepoint(), release(), rollback() of a savepoint handle                *)

Savepoint(t, n) ==
  /\ Usable(t) /\ IsTx(t) /\ made < MaxHandles
  /\ UNCHANGED minted
  /\ \/ n \in names /\ Refuse
     \/ /\ n \notin names
        /\ \E r \in Sent(session, faults, "savepoint", n) :
             \/ ~r.ok /\ Registered /\ Ends(r, "raised")
             \/ /\ r.ok
                /\ \E o \in Observed(r) :
                     IF o.ok THEN Construct("sp", t, n) /\ Ends(o, "returned")
                     ELSE /\ Registered
                          /\ \E q \in Sent(o.session, o.faults, "release", n) : Ends(q, "raised")

Release(h) ==
  /\ Usable(h) /\ ~IsTx(h)
  /\ \E r \in Sent(session, faults, "release", info[h].save) :
       IF r.ok THEN Finish(h, r) ELSE Recover(h, r)

\* The savepoint itself stays.
RollbackTo(h) ==
  /\ Usable(h) /\ ~IsTx(h)
  /\ \E r \in Sent(session, faults, "rollback_to", info[h].save) :
       IF r.ok THEN /\ Shut(After(h)) /\ UNCHANGED <<info, minted>>
                    /\ \E o \in Observed(r) : Ends(o, Said(o))
       ELSE Recover(h, r)

-----------------------------------------------------------------------------
(* Statements, through a handle or through the database, and the caller.   *)

Silent == UNCHANGED <<info, open, names, minted, mode>>

\* Legacy control opens a transaction before a write; otherwise a write
\* outside a transaction is committed at once.
Wrote(s, w) ==
  IF s.txn # "none" \/ mode = "legacy"
  THEN [s EXCEPT !.txn = IF @ = "none" THEN "caller" ELSE @, !.work = @ \union {w}]
  ELSE [s EXCEPT !.durable = @ \union {w}]

\* The write is made; an interrupted observer makes execute() raise all the same.
Execute ==
  /\ written < MaxWrites
  /\ written' = written + 1
  /\ \E o \in Observed([session |-> Wrote(session, written'), faults |-> faults, ok |-> TRUE]) :
       session' = o.session /\ faults' = o.faults /\ said' = Said(o)
  /\ Silent

\* The statement fails and writes nothing; a RAISE(ROLLBACK), a full disk or an
\* I/O error ends the transaction with it.
ExecuteFails ==
  /\ faults < MaxFaults /\ faults' = faults + 1
  /\ session' \in {session} \union Spoiled(session)
  /\ said' = "raised"
  /\ Silent /\ UNCHANGED written

\* The caller opens or ends a transaction of its own, outside every handle.
CallerBegins ==
  /\ open = {} /\ session.txn = "none"
  /\ session' = [session EXCEPT !.txn = "caller"]
  /\ said' = "returned"
  /\ Silent /\ UNCHANGED <<written, faults>>

CallerEnds ==
  /\ open = {} /\ session.txn # "none"
  /\ session' \in {Reopened(Committed(session)), Reopened(Dropped(session))}
  /\ said' = "returned"
  /\ Silent /\ UNCHANGED <<written, faults>>

-----------------------------------------------------------------------------
Init ==
  /\ mode \in Modes
  /\ info = <<>> /\ open = {} /\ names = {}
  /\ minted = 0 /\ written = 0 /\ faults = 0 /\ said = "returned"
  /\ session = Reopened(Fresh)

Next ==
  \/ BeginAdopts \/ BeginTop \/ BeginNested
  \/ \E h \in open :
       \/ Commit(h) \/ RollbackTop(h) \/ RollbackNested(h)
       \/ Release(h) \/ RollbackTo(h)
       \/ \E n \in Name : Savepoint(h, n)
  \/ Execute \/ ExecuteFails \/ CallerBegins \/ CallerEnds

Spec == Init /\ [][Next]_vars

-----------------------------------------------------------------------------
(* Properties.                                                             *)

Infos == [kind: {"tx", "sp"}, owner: Nat, save: Saves \union {NoSave}]

\* Every variable keeps its type.
TypeOK ==
  /\ mode \in Modes
  /\ info \in Seq(Infos) /\ open \subseteq 1 .. made
  /\ names \subseteq Saves /\ minted \in 0 .. MaxBegins
  /\ session \in Sessions
  /\ written \in 0 .. MaxWrites /\ faults \in 0 .. MaxFaults
  /\ said \in {"returned", "raised"}

\* commit, rollback, savepoint and recovery (560-722): until SQLite ends the
\* transaction by itself, every open handle controls something that exists:
\* the transaction, and its own savepoint, nested as the handles are.
HandlesLive ==
  session.whole =>
    \A h \in open :
      /\ session.txn # "none"
      /\ info[h].save = NoSave => \A g \in open : h <= g
      /\ info[h].save # NoSave =>
           /\ Has(session, info[h].save)
           /\ \A g \in open : g > h => Newest(session, info[g].save) > Newest(session, info[h].save)

\* reserve_savepoint_name and its releases (206-220): a name is taken exactly
\* while a handle with that name is open.
NamesExact == names = NamesOf(open) \ {NoSave}

\* _cleanup_interrupted_transaction and _recover_after_control_failure
\* (480, 631): relq's transaction is left open without a handle only when a
\* second command fails inside the operation that had failed, as long as
\* SQLite had not ended the transaction by itself.
Stranded == open = {} /\ session.txn = "relq"
StrandedByTwoFaults ==
  [][session.whole /\ ~Stranded /\ Stranded' => faults' >= faults + 2]_vars

\* What was written before each open handle, as the database would restore it.
Base == [h \in open |->
           IF info[h].save = NoSave \/ ~Has(session, info[h].save) THEN {}
           ELSE session.saves[Newest(session, info[h].save)].work]

\* docs/execution.md, the scopes of nested handles and their writes: a commit
\* that returns keeps, a rollback that returns discards, only the outermost
\* commit makes durable, all or nothing, and one that raises has done all of
\* that (its observer was interrupted) or leaves no scope it did a part of.
Scopes == INSTANCE WorkScopes
            WITH base <- Base, pending <- session.work,
                 durable <- session.durable, whole <- session.whole
WritesFollowScopes == Scopes!Spec

\* The handles nest as ScopeStack says, also after SQLite ended the
\* transaction by itself.
Nesting == INSTANCE ScopeStack
HandlesNest == Nesting!Spec
=============================================================================
