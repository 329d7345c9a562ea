--------------------------- MODULE PgTransactions ---------------------------
(***************************************************************************)
(* Controlled transactions and savepoints of the asyncpg executor          *)
(* (relq_postgres) on ONE physical connection.                             *)
(*                                                                         *)
(* A handle is a ControlledTransaction ("tx") or a _PostgresSavepoint      *)
(* ("sp").  Handles are numbered in the order they are registered, so the  *)
(* ordered list `entries` of a registry is the set of its open handles in  *)
(* increasing order, and its `stack` is the "tx" part of that list: a      *)
(* handle is registered exactly while it is neither closed, released nor   *)
(* invalidated.                                                            *)
(*                                                                         *)
(* A task is an event-loop task running one operation.  It gives up the    *)
(* loop only where the code awaits the driver: the synchronous code        *)
(* between two awaits is one action.  The server (external) is the session *)
(* state PostgreSQL keeps: transaction status and the savepoint stack.     *)
(***************************************************************************)
EXTENDS Integers, Sequences, FiniteSets

CONSTANTS
  Task,        \* event-loop tasks that use the connection
  Name,        \* names that callers give to savepoint(); a number up to
               \* MaxBegins is spelled like a generated relq_savepoint_<n>
  MaxHandles,  \* bound: handles ever constructed
  MaxBegins,   \* bound: generated savepoint names ever drawn
  MaxFaults,   \* bound: cancellations, lost connections, observer interrupts
  Serial,      \* TRUE: one operation at a time on the connection
  Pool         \* TRUE: the database wraps a pool, FALSE: a direct connection

ASSUME ConstantsAssumption ==
  /\ Name \subseteq Nat \ {0}
  /\ MaxHandles \in Nat
  /\ MaxBegins \in Nat
  /\ MaxFaults \in Nat
  /\ Serial \in BOOLEAN
  /\ Pool \in BOOLEAN
  /\ Pool => Serial

NoSave == 0                       \* "no generated savepoint name" (None)
None   == 0                       \* no handle, no registry
Saves  == Name \union (0 .. MaxBegins)
Kinds  == {"tx", "sp"}
\* The awaited driver calls, named for the code that awaits them.
Labels == {"idle", "start", "undo", "undoRelease", "commit", "rollback",
           "rollbackRelease", "savepoint", "drop", "spRelease", "spRollback",
           "recover", "recoverTo", "recoverRelease", "query"}
Verbs  == {"none", "begin", "commit", "rollback", "savepoint", "release",
           "rollback to", "query"}
Replies == {"none", "waiting", "refused", "ok", "error"}

VARIABLES
  info,      \* what the constructor stored in each handle, in that order
  open,      \* handles that are registered, not closed, released, invalidated
  names,     \* savepoint_names: pairs of a registry and a name it reserves
  current,   \* the registry _TRANSACTION_STATES_BY_CONNECTION holds, or None
  regs,      \* registry objects created so far
  minted,    \* _SAVEPOINT_COUNTER
  pooled,    \* handles whose _pool_connection is still set
  leased,    \* the connection is checked out of the pool
  session,   \* the server side of the connection
  frame,     \* the operation each task is in
  faults,    \* faults spent
  acked,     \* outermost handles whose commit() returned normally
  durable    \* outermost handles whose COMMIT the server applied

registry == <<info, open, names, current, regs, minted>>
others == <<pooled, leased, session, faults, acked, durable>>
vars == <<registry, others, frame>>

made == Len(info)                 \* handles constructed so far

Records == [kind: Kinds, owner: Nat, save: Saves, reg: Nat]

-----------------------------------------------------------------------------
(* The server: transaction status and savepoint stack of one session.      *)

Fresh == [txn |-> "none", aborted |-> FALSE, saves |-> <<>>, up |-> TRUE]

Sessions == [txn: {"none", "caller", "relq"}, aborted: BOOLEAN,
             saves: Seq(Saves), up: BOOLEAN]

Has(s, n) == \E i \in DOMAIN s.saves : s.saves[i] = n

\* The newest savepoint of that name; PostgreSQL lets names repeat.
Newest(s, n) == CHOOSE i \in DOMAIN s.saves :
                  /\ s.saves[i] = n
                  /\ \A j \in DOMAIN s.saves : s.saves[j] = n => j <= i

Ended(s) == [s EXCEPT !.txn = "none", !.aborted = FALSE, !.saves = <<>>]

\* A command that fails inside a transaction block aborts the block.
Failed(s) == [s EXCEPT !.aborted = (s.txn # "none")]

Accepted(s, do, n) ==
  /\ s.up
  /\ do = "savepoint" => s.txn # "none" /\ ~s.aborted
  /\ do = "release" => s.txn # "none" /\ ~s.aborted /\ Has(s, n)
  /\ do = "rollback to" => s.txn # "none" /\ Has(s, n)
  /\ do \in {"begin", "query"} => ~s.aborted

Applied(s, do, n) ==
  CASE do = "begin" /\ s.txn = "none" -> [s EXCEPT !.txn = "relq"]
    [] do \in {"commit", "rollback"} -> Ended(s)
    [] do = "savepoint" -> [s EXCEPT !.saves = Append(@, n)]
    [] do = "release" -> [s EXCEPT !.saves = SubSeq(@, 1, Newest(s, n) - 1)]
    [] do = "rollback to" ->
         [s EXCEPT !.saves = SubSeq(@, 1, Newest(s, n)), !.aborted = FALSE]
    [] OTHER -> s

-----------------------------------------------------------------------------
(* Registry operations.                                                    *)

IsTx(h) == info[h].kind = "tx"
Entries(r) == {e \in open : info[e].reg = r}
Stack(r) == {e \in Entries(r) : IsTx(e)}
Top(r) == CHOOSE e \in Stack(r) : \A d \in Stack(r) : d <= e

\* A handle that is a savepoint inside a transaction.
Nested(h) == h # None /\ info[h].save # NoSave

Usable(h) == h \in open /\ (~IsTx(h) => info[h].owner \in open)

\* Mutant of After: savepoints only, so that nested transactions survive.
AfterSavepoints(h) == {e \in Entries(info[h].reg) : h \in open /\ e > h /\ ~IsTx(e)}

\* The entries after h in its registry; none when h is not registered.
After(h) == {e \in Entries(info[h].reg) : h \in open /\ e > h}

\* Closing a transaction also invalidates the savepoints it owns.
Fall(S) == {e \in open : e \in S \/ (~IsTx(e) /\ info[e].owner \in S)}

Reserved(r, n) == <<r, n>> \in names
NamesOf(S) == {<<info[e].reg, info[e].save>> : e \in S}

\* Mutant of Shut: the registry is dropped with its first transaction.
ShutDropsAlways(S, cleared) ==
  /\ open' = open \ Fall(S)
  /\ names' = {p \in names \ NamesOf(Fall(S)) : p[1] \notin cleared}
  /\ current' = IF \E e \in Fall(S) : IsTx(e) THEN None ELSE current
  /\ UNCHANGED <<info, regs, minted>>

\* Close or invalidate the handles of S: they leave the registry with their
\* names, and a registry that a closed transaction leaves empty is dropped.
Shut(S, cleared) ==
  /\ open' = open \ Fall(S)
  /\ names' = {p \in names \ NamesOf(Fall(S)) : p[1] \notin cleared}
  /\ current' = IF /\ Entries(current) \subseteq Fall(S)
                   /\ \E e \in Fall(S) : IsTx(e) /\ info[e].reg = current
                THEN None ELSE current
  /\ UNCHANGED <<info, regs, minted>>

\* Mutant of Construct: registered before anything is stored.
ConstructUnstored(kind, owner, save, reg) ==
  open' = open \union {made + 1} /\ UNCHANGED info

\* A constructed handle registers itself behind every earlier entry.
Construct(kind, owner, save, reg) ==
  /\ info' = Append(info, [kind |-> kind, owner |-> owner, save |-> save,
                           reg |-> reg])
  /\ open' = open \union {made + 1}

-----------------------------------------------------------------------------
(* Tasks, the driver and the event loop.                                   *)

NoFrame == [at |-> "idle", h |-> None, do |-> "none", save |-> NoSave,
            reg |-> None, edge |-> None, pool |-> FALSE, reply |-> "none"]

Frames == [at: Labels, h: Nat, do: Verbs,
           save: Saves, reg: Nat, edge: Nat,
           pool: BOOLEAN, reply: Replies]

Quiet == \A u \in Task : frame[u].at = "idle"

\* asyncpg refuses a command while another is in flight, without yielding, so
\* a refused task goes on at once.
Turn(t) == \A u \in Task \ {t} : frame[u].reply # "refused"
WireFree == \A u \in Task : frame[u].reply # "waiting"

Ready(t) == /\ frame[t].at = "idle"
            /\ Turn(t)
            /\ Serial => Quiet

Resumes(t, at, ok) ==
  /\ frame[t].at = at
  /\ Turn(t)
  /\ frame[t].reply \in (IF ok THEN {"ok"} ELSE {"error", "refused"})

\* Send a command and give up the loop until the reply.
Await(t, f, at, do, save) ==
  frame' = [frame EXCEPT ![t] =
    [f EXCEPT !.at = at, !.do = do, !.save = save,
              !.reply = IF \E u \in Task \ {t} : frame[u].reply = "waiting"
                        THEN "refused" ELSE "waiting"]]

Return(t) == frame' = [frame EXCEPT ![t] = NoFrame]

\* pool.release() resets the connection it takes back; the next acquire
\* wraps it in a new proxy object, which has no registry yet.
GiveBack(owner) ==
  IF owner THEN leased' = FALSE /\ session' = Fresh
           ELSE UNCHANGED <<leased, session>>

-----------------------------------------------------------------------------
(* _recover_connection: handles on the connection, plus `extra`.  `also`   *)
(* are handles the caller invalidates just before.                         *)

Snapshot(extra) == {h \in open : IsTx(h)} \union extra

RecoverBoundary(t, f, edge, closed) ==
  /\ Shut(closed, {})
  /\ Await(t, [f EXCEPT !.edge = edge], "recoverTo", "rollback to",
           info[edge].save)

RecoverAll(t, f, snapshot, also) ==
  LET touched == {info[h].reg : h \in snapshot}
  IN /\ Shut({e \in open : info[e].reg \in touched} \union also, touched)
     /\ Await(t, f, "recover", "rollback", NoSave)

\* Mutant of Recover: no test for caller-owned work.
RecoverAnyway(t, f, edge, extra, owns, also) ==
  IF Nested(edge)
  THEN RecoverBoundary(t, f, edge, After(edge) \union {edge} \union also)
  ELSE RecoverAll(t, f, Snapshot(extra), also)

\* Mutant of Recover: only the boundary itself is invalidated.
RecoverBoundaryOnly(t, f, edge, extra, owns, also) ==
  IF Snapshot(extra) = {} /\ ~owns THEN Return(t) /\ UNCHANGED registry
  ELSE IF Nested(edge) THEN RecoverBoundary(t, f, edge, {edge})
  ELSE RecoverAll(t, f, Snapshot(extra), also)

\* With no handle on the connection and a transaction that is not relq's,
\* nothing is done.  A nested boundary is rolled back to; otherwise the whole
\* transaction is rolled back and every registry involved is emptied.
Recover(t, f, edge, extra, owns, also) ==
  IF Snapshot(extra) = {} /\ ~owns THEN Return(t) /\ UNCHANGED registry
  ELSE IF Nested(edge)
  THEN RecoverBoundary(t, f, edge, After(edge) \union {edge} \union also)
  ELSE RecoverAll(t, f, Snapshot(extra), also)

\* Back to the boundary savepoint: rollback to, then release.
RecoverTo(t) ==
  /\ Resumes(t, "recoverTo", TRUE)
  /\ Await(t, frame[t], "recoverRelease", "release", frame[t].save)
  /\ UNCHANGED <<registry, others>>

RecoverToEnds(t) ==
  /\ \/ Resumes(t, "recoverTo", FALSE)
     \/ \E ok \in BOOLEAN : Resumes(t, "recoverRelease", ok)
  /\ Return(t)
  /\ UNCHANGED <<registry, others>>

\* After the raw rollback, successful or not, every pooled connection goes
\* back; a begin() that never built its handle returns the one it acquired.
RecoverEnds(t) ==
  /\ \E ok \in BOOLEAN : Resumes(t, "recover", ok)
  /\ GiveBack(pooled # {} \/ frame[t].pool)
  /\ pooled' = {}
  /\ Return(t)
  /\ UNCHANGED <<registry, faults, acked, durable>>

-----------------------------------------------------------------------------
(* begin(): on a database wrapper (h = None) or on a transaction handle.   *)

Begin(t, h) ==
  LET inside   == session.txn # "none"
      fromPool == Pool /\ h = None /\ ~leased
      save     == IF inside THEN minted + 1 ELSE NoSave
      reg      == IF h # None THEN info[h].reg
                  ELSE IF current # None /\ ~fromPool THEN current
                  ELSE regs + 1
  IN /\ Ready(t)
     /\ h # None => Usable(h) /\ IsTx(h)
     /\ made < MaxHandles
     /\ inside => minted < MaxBegins
     /\ minted' = IF inside THEN minted + 1 ELSE minted
     /\ regs' = IF reg > regs THEN reg ELSE regs
     /\ current' = IF h = None THEN reg ELSE current
     /\ leased' = (leased \/ fromPool)
     /\ Await(t, [NoFrame EXCEPT !.h = h, !.reg = reg, !.pool = fromPool,
                   !.edge = IF inside /\ Stack(reg) # {} THEN Top(reg) ELSE None],
              "start", IF inside THEN "savepoint" ELSE "begin", save)
     /\ UNCHANGED <<info, open, names, pooled, session, faults, acked,
                    durable>>

\* The constructor first looks the connection's registry up, which makes an
\* empty one if the registry was dropped meanwhile, then uses the one it was
\* given.
BeginOk(t) ==
  LET f == frame[t]
  IN /\ Resumes(t, "start", TRUE)
     /\ ~Reserved(f.reg, f.save)
     /\ Construct("tx", None, f.save, f.reg)
     /\ names' = IF f.save = NoSave THEN names ELSE names \union {<<f.reg, f.save>>}
     /\ regs' = IF current = None THEN regs + 1 ELSE regs
     /\ current' = IF current = None THEN regs + 1 ELSE current
     /\ pooled' = IF f.pool THEN pooled \union {made + 1} ELSE pooled
     /\ Return(t)
     /\ UNCHANGED <<minted, leased, session, faults, acked, durable>>

\* Mutant of BeginInterrupted: the new transaction is not rolled back.
BeginInterruptedLeaves(t) ==
  /\ Resumes(t, "start", TRUE)
  /\ faults < MaxFaults /\ faults' = faults + 1
  /\ Return(t)
  /\ UNCHANGED <<registry, pooled, leased, session, acked, durable>>

\* The start statement succeeded, then the observer was interrupted or the
\* generated name was already reserved.
BeginInterrupted(t) ==
  LET f == frame[t]
  IN /\ Resumes(t, "start", TRUE)
     /\ \/ faults < MaxFaults /\ faults' = faults + 1
        \/ Reserved(f.reg, f.save) /\ UNCHANGED faults
     /\ \/ /\ f.save = NoSave
           /\ Recover(t, f, None, {}, TRUE, {})
        \/ /\ f.save # NoSave
           /\ Await(t, f, "undo", "rollback to", f.save)
           /\ UNCHANGED registry
     /\ UNCHANGED <<pooled, leased, session, acked, durable>>

\* Mutant of BeginFailed: the BEGIN is never taken to be relq's own.
BeginFailedDisowns(t) ==
  LET f == frame[t]
  IN /\ Resumes(t, "start", FALSE)
     /\ Recover(t, f, f.edge, {}, FALSE, {})
     /\ UNCHANGED others

\* Mutant of BeginFailed: the acquired connection is not given back.
BeginFailedLeaks(t) ==
  LET f == frame[t]
  IN /\ Resumes(t, "start", FALSE)
     /\ \/ f.pool /\ Return(t) /\ UNCHANGED registry
        \/ ~f.pool /\ Recover(t, f, f.edge, {}, f.do = "begin", {})
     /\ UNCHANGED others

BeginFailed(t) ==
  LET f == frame[t]
  IN /\ Resumes(t, "start", FALSE)
     /\ \/ /\ f.pool
           /\ GiveBack(TRUE)
           /\ Return(t)
           /\ UNCHANGED registry
        \/ /\ ~f.pool
           /\ Recover(t, f, f.edge, {}, f.do = "begin", {})
           /\ UNCHANGED <<leased, session>>
     /\ UNCHANGED <<pooled, faults, acked, durable>>

\* _cleanup_savepoint
Undone(t) ==
  /\ Resumes(t, "undo", TRUE)
  /\ Await(t, frame[t], "undoRelease", "release", frame[t].save)
  /\ UNCHANGED <<registry, others>>

UndoEnds(t) ==
  LET f == frame[t]
  IN /\ \/ /\ Resumes(t, "undoRelease", TRUE)
           /\ Return(t)
           /\ UNCHANGED registry
        \/ /\ \E at \in {"undo", "undoRelease"} : Resumes(t, at, FALSE)
           /\ Recover(t, f, f.edge, {}, FALSE, {})
     /\ UNCHANGED others

-----------------------------------------------------------------------------
(* commit() and rollback() of a transaction handle.                        *)

\* Mutant of Finish: later entries stay open.
FinishKeepsLater(t, h, at, do) ==
  /\ Ready(t)
  /\ Usable(h) /\ IsTx(h)
  /\ Await(t, [NoFrame EXCEPT !.h = h, !.reg = info[h].reg, !.edge = h], at,
           do, info[h].save)
  /\ UNCHANGED <<registry, others>>

\* Later entries are invalidated before the command is sent.
Finish(t, h, at, do) ==
  /\ Ready(t)
  /\ Usable(h) /\ IsTx(h)
  /\ Shut(After(h), {})
  /\ Await(t, [NoFrame EXCEPT !.h = h, !.reg = info[h].reg, !.edge = h], at,
           do, info[h].save)
  /\ UNCHANGED others

Commit(t, h) ==
  Finish(t, h, "commit", IF info[h].save = NoSave THEN "commit" ELSE "release")

Rollback(t, h) ==
  Finish(t, h, "rollback",
         IF info[h].save = NoSave THEN "rollback" ELSE "rollback to")

Rolled(t) ==
  /\ Resumes(t, "rollback", TRUE)
  /\ frame[t].do = "rollback to"
  /\ Await(t, frame[t], "rollbackRelease", "release", frame[t].save)
  /\ UNCHANGED <<registry, others>>

FinishOk(t) ==
  LET f == frame[t]
  IN /\ \/ Resumes(t, "commit", TRUE)
        \/ Resumes(t, "rollback", TRUE) /\ f.do = "rollback"
        \/ Resumes(t, "rollbackRelease", TRUE)
     /\ Shut({f.h}, {})
     /\ GiveBack(f.h \in pooled)
     /\ pooled' = pooled \ {f.h}
     /\ acked' = IF f.do = "commit" THEN acked \union {f.h} ELSE acked
     /\ Return(t)
     /\ UNCHANGED <<faults, durable>>

\* Mutant of FinishFailed: the command is sent again until it succeeds.
FinishFailedRetries(t) ==
  LET f == frame[t]
  IN /\ \E at \in {"commit", "rollback", "rollbackRelease"} :
          Resumes(t, at, FALSE) /\ Await(t, f, at, f.do, f.save)
     /\ UNCHANGED <<registry, others>>

FinishFailed(t) ==
  LET f == frame[t]
  IN /\ \E at \in {"commit", "rollback", "rollbackRelease"} : Resumes(t, at, FALSE)
     /\ Recover(t, f, f.h, {f.h}, FALSE, {})
     /\ UNCHANGED others

-----------------------------------------------------------------------------
(* Savepoint handles.                                                      *)

Savepoint(t, h, n) ==
  /\ Ready(t)
  /\ Usable(h) /\ IsTx(h)
  /\ made < MaxHandles
  /\ ~Reserved(info[h].reg, n)
  /\ names' = names \union {<<info[h].reg, n>>}
  /\ Await(t, [NoFrame EXCEPT !.h = h, !.reg = info[h].reg], "savepoint",
           "savepoint", n)
  /\ UNCHANGED <<info, open, current, regs, minted, others>>

SavepointOk(t) ==
  /\ Resumes(t, "savepoint", TRUE)
  /\ Construct("sp", frame[t].h, frame[t].save, frame[t].reg)
  /\ Return(t)
  /\ UNCHANGED <<names, current, regs, minted, pooled, leased, session, faults,
                 acked, durable>>

\* The observer was interrupted: the new handle is invalidated and its
\* savepoint released, a failure of which is only logged.
SavepointInterrupted(t) ==
  /\ Resumes(t, "savepoint", TRUE)
  /\ faults < MaxFaults
  /\ faults' = faults + 1
  /\ names' = names \ {<<frame[t].reg, frame[t].save>>}
  /\ Await(t, frame[t], "drop", "release", frame[t].save)
  /\ UNCHANGED <<info, open, current, regs, minted, pooled, leased,
                 session, acked, durable>>

\* Mutant of SavepointFailed: the name stays reserved.
SavepointFailedKeepsName(t) ==
  /\ Resumes(t, "savepoint", FALSE)
  /\ Return(t)
  /\ UNCHANGED <<registry, others>>

SavepointFailed(t) ==
  /\ Resumes(t, "savepoint", FALSE)
  /\ names' = names \ {<<frame[t].reg, frame[t].save>>}
  /\ Return(t)
  /\ UNCHANGED <<info, open, current, regs, minted, others>>

Dropped(t) ==
  /\ \E ok \in BOOLEAN : Resumes(t, "drop", ok)
  /\ Return(t)
  /\ UNCHANGED <<registry, others>>

SpCall(t, s, at, do) ==
  /\ Ready(t)
  /\ Usable(s) /\ ~IsTx(s)
  /\ Await(t, [NoFrame EXCEPT !.h = s, !.reg = info[s].reg,
                !.edge = info[s].owner], at, do, info[s].save)
  /\ UNCHANGED <<registry, others>>

SpRelease(t, s)  == SpCall(t, s, "spRelease", "release")
SpRollback(t, s) == SpCall(t, s, "spRollback", "rollback to")

\* Later entries are invalidated after the command; release() then forgets
\* the savepoint and its name, rollback() keeps it.
SpReleaseOk(t) ==
  LET f == frame[t]
  IN /\ Resumes(t, "spRelease", TRUE)
     /\ Shut(After(f.h) \union {f.h}, {})
     /\ Return(t)
     /\ UNCHANGED others

SpRollbackOk(t) ==
  /\ Resumes(t, "spRollback", TRUE)
  /\ Shut(After(frame[t].h), {})
  /\ Return(t)
  /\ UNCHANGED others

SpFailed(t) ==
  LET f == frame[t]
  IN /\ \E at \in {"spRelease", "spRollback"} : Resumes(t, at, FALSE)
     /\ Recover(t, f, f.edge, {f.edge}, FALSE, After(f.h) \union {f.h})
     /\ UNCHANGED others

-----------------------------------------------------------------------------
(* execute() and the fetch methods of a transaction handle.                *)

Query(t, h) ==
  /\ Ready(t)
  /\ Usable(h) /\ IsTx(h)
  /\ Await(t, [NoFrame EXCEPT !.h = h, !.reg = info[h].reg], "query", "query",
           NoSave)
  /\ UNCHANGED <<registry, others>>

QueryEnds(t) ==
  /\ \E ok \in BOOLEAN : Resumes(t, "query", ok)
  /\ Return(t)
  /\ UNCHANGED <<registry, others>>

-----------------------------------------------------------------------------
(* The server and the network answer the command in flight.  The loop      *)
(* resumes a task that has its reply before it reads the next reply.       *)

Answered(t, s, ok) ==
  /\ session' = s
  /\ frame' = [frame EXCEPT ![t].reply = IF ok THEN "ok" ELSE "error"]
  /\ UNCHANGED <<registry, pooled, leased, acked>>

Waits(t) == /\ frame[t].reply = "waiting"
            /\ \A u \in Task \ {t} : frame[u].reply = "none"

Committed(t) ==
  IF frame[t].do = "commit" /\ session.txn # "none" /\ ~session.aborted
  THEN durable \union {frame[t].h} ELSE durable

Answer(t) ==
  LET f == frame[t]
  IN /\ Waits(t)
     /\ \/ /\ Accepted(session, f.do, f.save)
           /\ Answered(t, Applied(session, f.do, f.save), TRUE)
           /\ durable' = Committed(t)
        \/ /\ ~Accepted(session, f.do, f.save) \/ f.do = "query"
           /\ Answered(t, Failed(session), FALSE)
           /\ UNCHANGED durable
     /\ UNCHANGED faults

\* The task is cancelled or its observer interrupted while it waits: it sees
\* an error whether or not the server applied the command.
Cancel(t) ==
  LET f == frame[t]
  IN /\ Waits(t)
     /\ faults < MaxFaults
     /\ faults' = faults + 1
     /\ \/ /\ Accepted(session, f.do, f.save)
           /\ Answered(t, Applied(session, f.do, f.save), FALSE)
           /\ durable' = Committed(t)
        \/ /\ Answered(t, Failed(session), FALSE)
           /\ UNCHANGED durable

\* The connection is lost; the driver still reports the last known
\* transaction status.
Lose(t) ==
  /\ Waits(t)
  /\ session.up
  /\ faults < MaxFaults
  /\ faults' = faults + 1
  /\ Answered(t, [session EXCEPT !.up = FALSE], FALSE)
  /\ UNCHANGED durable

\* The application opens and closes its own transaction on a direct
\* connection, with raw SQL, while no handle exists.
CallerBegins ==
  /\ ~Pool /\ Quiet /\ open = {} /\ session.up
  /\ session.txn = "none"
  /\ session' = [session EXCEPT !.txn = "caller"]
  /\ UNCHANGED <<registry, pooled, leased, frame, faults, acked, durable>>

CallerEnds ==
  /\ ~Pool /\ Quiet /\ open = {} /\ session.up
  /\ session.txn = "caller"
  /\ session' = Ended(session)
  /\ UNCHANGED <<registry, pooled, leased, frame, faults, acked, durable>>

-----------------------------------------------------------------------------
Init ==
  /\ info = <<>>
  /\ open = {}
  /\ names = {}
  /\ current = None
  /\ regs = 0
  /\ minted = 0
  /\ pooled = {}
  /\ leased = FALSE
  /\ session = Fresh
  /\ frame = [t \in Task |-> NoFrame]
  /\ faults = 0
  /\ acked = {}
  /\ durable = {}

Starts(t) ==
  \/ Begin(t, None)
  \/ \E h \in open : \/ Begin(t, h) \/ Commit(t, h) \/ Rollback(t, h)
                     \/ SpRelease(t, h) \/ SpRollback(t, h) \/ Query(t, h)
                     \/ \E n \in Name : Savepoint(t, h, n)

Continues(t) ==
  \/ RecoverTo(t) \/ RecoverToEnds(t) \/ RecoverEnds(t)
  \/ BeginOk(t) \/ BeginInterrupted(t) \/ BeginFailed(t)
  \/ Undone(t) \/ UndoEnds(t)
  \/ Rolled(t) \/ FinishOk(t) \/ FinishFailed(t)
  \/ SavepointOk(t) \/ SavepointInterrupted(t) \/ SavepointFailed(t)
  \/ Dropped(t) \/ SpReleaseOk(t) \/ SpRollbackOk(t) \/ SpFailed(t)
  \/ QueryEnds(t)

Next ==
  \/ \E t \in Task : Starts(t) \/ Continues(t) \/ Answer(t) \/ Cancel(t) \/ Lose(t)
  \/ CallerBegins
  \/ CallerEnds

Spec == Init /\ [][Next]_vars

\* The event loop runs every task that can go on, and the server answers
\* every command it was sent.  A task whose calls are refused gives up the loop
\* only when the application does, so strong fairness says that no task keeps
\* the loop for ever.  Nothing makes the application call or a fault happen.
Fairness == \A t \in Task : SF_vars(Continues(t)) /\ SF_vars(Answer(t))

FairSpec == Spec /\ Fairness

-----------------------------------------------------------------------------
(* Properties.                                                             *)

\* Every variable keeps its type: the registry, the session and the frames of
\* the operations stay in the shapes the constructors give them.
TypeOK ==
  /\ info \in Seq(Records)
  /\ open \subseteq DOMAIN info
  /\ pooled \subseteq DOMAIN info
  /\ \A h \in DOMAIN info : info[h].owner <= made
  /\ names \subseteq Nat \X Saves
  /\ current \in Nat /\ regs \in Nat
  /\ minted \in 0 .. MaxBegins
  /\ leased \in BOOLEAN
  /\ session \in Sessions
  /\ frame \in [Task -> Frames]
  /\ \A t \in Task : frame[t].h <= made /\ frame[t].edge <= made
  /\ faults \in 0 .. MaxFaults
  /\ acked \subseteq Nat /\ durable \subseteq Nat

\* What a usable handle controls on the server.
Live(h) == IF info[h].save = NoSave THEN session.txn = "relq"
                                    ELSE Has(session, info[h].save)

\* Between operations the registry mirrors the server: what a usable handle
\* controls still exists there, and handles are stacked in the order of their
\* savepoints, so that invalidate_after() drops exactly what PostgreSQL does.
HandlesLive ==
  Quiet /\ session.up =>
    \A h \in open :
      /\ Usable(h) => Live(h)
      /\ \A g \in open :
           g < h /\ Usable(h) /\ Usable(g) =>
             IF info[h].save = NoSave THEN FALSE
             ELSE info[g].save # NoSave =>
                    Newest(session, info[g].save) < Newest(session, info[h].save)

\* Between operations the registry reserves the savepoint names of its open
\* entries and no others: whatever failed, no name stays blocked and no name
\* in use can be taken twice (reserve_savepoint_name, _forget_savepoint).
NamesExact ==
  Quiet => names = {p \in NamesOf(open) : p[2] # NoSave}

\* Every open handle is in the registry that a new wrapper of the connection
\* would find (_transaction_state_for_connection).
OneRegistry == \A h \in open : info[h].reg = current

\* relq's own transaction is open, no handle can end it, and no operation is
\* about to construct that handle or to end the transaction.
Stranded ==
  /\ session.up /\ session.txn = "relq"
  /\ \A h \in open : ~IsTx(h) \/ info[h].save # NoSave
  /\ \A t \in Task : frame[t].at # "recover" /\ frame[t].do # "begin"

\* Whatever fails, no operation leaves a transaction that relq opened without
\* a handle to end it, unless the raw ROLLBACK of _recover_connection, the
\* last resort, is itself interrupted.
StrandedOnlyByRecovery ==
  [][~Stranded /\ Stranded' =>
       \E t \in Task : frame[t].at = "recover" /\ frame[t].reply = "error"]_vars

\* relq never ends a transaction that the caller opened: only CallerEnds
\* does.  _recover_connection guards its raw ROLLBACK for this.
CallerWorkSafe ==
  [][session.txn = "caller" /\ session'.txn # "caller" => frame' = frame]_vars

\* Between operations a pooled connection is checked out exactly while an open
\* handle holds it: no path returns it early or leaks it.
ConnectionAccounted ==
  Quiet => (leased <=> pooled \cap open # {}) /\ pooled \subseteq open

\* Every operation ends, whatever fails and whatever the other tasks do.
OperationsEnd == \A t \in Task : frame[t].at # "idle" ~> frame[t].at = "idle"

\* Completing a transaction, or releasing a savepoint, closes the handles that
\* were opened inside it and nothing else; a closed handle stays closed.
Scopes == INSTANCE ScopeStack
ScopesNest == Scopes!Spec

-----------------------------------------------------------------------------
(* What the documentation says; the runs find the code does otherwise.     *)

\* docs/execution.md: completing a parent invalidates every child handle that
\* is still open.
ParentInvalidatesChildren ==
  Quiet /\ session.up => \A h \in open : Usable(h) => Live(h)

\* docs/execution.md: a parent commit keeps the writes.  commit() returned, so
\* the server committed.
CommitIsDurable == acked \subseteq durable
=============================================================================
