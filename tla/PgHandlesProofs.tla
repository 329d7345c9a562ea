--------------------------- MODULE PgHandlesProofs ---------------------------
(***************************************************************************)
(* Theorems about PgTransactions while one operation runs at a time: relq  *)
(* leaves no transaction of its own without a handle to end it, and the    *)
(* handles it keeps control what the server still has.  They rest on the   *)
(* nesting of PgTransactionsProofs and the names of PgRegistryProofs.      *)
(***************************************************************************)
EXTENDS PgRegistryProofs

-----------------------------------------------------------------------------
(* The transaction that relq opened, and the handle that ends it.          *)

\* The handle of a transaction that relq opened with BEGIN.
Outer(h) == IsTx(h) /\ info[h].save = NoSave

\* An operation that ends the whole transaction.
Ending == \E t \in Task : frame[t].do \in {"commit", "rollback"}

\* The commands an operation sends at each of its labels.
Sends(t) ==
  LET f == frame[t]
  IN /\ f.at = "idle" => f.do = "none" /\ f.reply = "none"
     /\ f.at # "idle" => f.reply \in {"waiting", "ok", "error"}
     /\ f.at = "start" => f.do = "begin" \/ (f.do = "savepoint" /\ f.save # NoSave)
     /\ f.at \in {"undo", "spRollback", "recoverTo"} => f.do = "rollback to"
     /\ f.at \in {"undoRelease", "rollbackRelease", "drop", "spRelease",
                  "recoverRelease"} => f.do = "release"
     /\ f.at \in {"savepoint", "query"} => f.do = f.at
     /\ f.at = "recover" => f.do = "rollback"
     /\ f.at = "commit" =>
          f.do = IF info[f.h].save = NoSave THEN "commit" ELSE "release"
     /\ f.at = "rollback" =>
          f.do = IF info[f.h].save = NoSave THEN "rollback" ELSE "rollback to"
     /\ f.at = "rollbackRelease" => info[f.h].save # NoSave

\* What an operation knows of the transaction status of the server.
Status(t) ==
  LET f == frame[t]
  IN /\ f.do = "begin" => /\ f.save = NoSave /\ f.edge = None /\ open = {}
                          /\ f.reply = "waiting" => session.txn = "none"
                          /\ f.reply = "ok" => session.txn = "relq"
     /\ f.do \in {"commit", "rollback"} /\ f.reply = "ok" => session.txn = "none"
     /\ f.at \in {"start", "undo", "undoRelease"} /\ f.do # "begin" =>
          session.txn # "none"

\* An outermost handle is the first of the open ones.
OuterFirst == \A g, h \in open : Outer(h) => h <= g

\* Handles are open only inside a transaction, and an outermost one only
\* inside relq's, until an operation ends it.
Controls ==
  Ending \/ \A h \in open : /\ session.txn # "none"
                            /\ Outer(h) => session.txn = "relq"

BlockInv == OuterFirst /\ Controls /\ \A t \in Task : Sends(t) /\ Status(t)

\* What every step has to establish.
BlockStep ==
  /\ BlockInv'
  /\ ~Stranded /\ Stranded' =>
       \E t \in Task : frame[t].at = "recover" /\ frame[t].reply = "error"

\* The tasks other than the busy one have sent nothing.
LEMMA Alone ==
  ASSUME NestInv, BlockInv, NEW t \in Task, frame[t].at # "idle"
  PROVE  /\ frame \in [Task -> Frames] /\ frame[t] \in Frames
         /\ FrameInv(t) /\ Sends(t) /\ Status(t)
         /\ \A u \in Task \ {t} : /\ frame[u].at = "idle" /\ frame[u].do = "none"
                                  /\ frame[u].reply = "none"
<1>1. \A u \in Task \ {t} : frame[u].at = "idle"
  BY Resumed
<1>2. \A u \in Task \ {t} : Sends(u)
  BY DEF BlockInv
<1>3. \A u \in Task \ {t} : frame[u].do = "none" /\ frame[u].reply = "none"
  BY <1>1, <1>2 DEF Sends
<1> QED BY <1>1, <1>3, Resumed, OpenType DEF NestInv, BlockInv

\* A command that is sent when no other is in flight waits for its reply.
LEMMA Sent ==
  ASSUME frame \in [Task -> Frames], NEW t \in Task,
         \A u \in Task \ {t} : frame[u].reply = "none",
         NEW f \in Frames, NEW at, NEW do, NEW save, Await(t, f, at, do, save)
  PROVE  /\ frame'[t].at = at /\ frame'[t].do = do /\ frame'[t].save = save
         /\ frame'[t].h = f.h /\ frame'[t].edge = f.edge
         /\ frame'[t].reply = "waiting"
         /\ \A u \in Task \ {t} : frame'[u] = frame[u]
<1> DEFINE g == [f EXCEPT !.at = at, !.do = do, !.save = save,
              !.reply = IF \E u \in Task \ {t} : frame[u].reply = "waiting"
                        THEN "refused" ELSE "waiting"]
<1>1. /\ g.at = at /\ g.do = do /\ g.save = save /\ g.h = f.h /\ g.edge = f.edge
      /\ g.reply = "waiting"
  BY DEF Frames
<1>2. frame' = [frame EXCEPT ![t] = g]
  BY DEF Await
<1> HIDE DEF g
<1> QED BY <1>1, <1>2

\* A task that has returned sends nothing.
LEMMA Done ==
  ASSUME frame \in [Task -> Frames], NEW t \in Task, Return(t)
  PROVE  /\ frame'[t].at = "idle" /\ frame'[t].do = "none" /\ frame'[t].reply = "none"
         /\ Sends(t)' /\ Status(t)'
         /\ \A u \in Task \ {t} : frame'[u] = frame[u]
<1>1. /\ frame'[t].at = "idle" /\ frame'[t].do = "none" /\ frame'[t].reply = "none"
      /\ \A u \in Task \ {t} : frame'[u] = frame[u]
  BY ReturnFields
<1> QED BY <1>1 DEF Sends, Status

\* A step that constructs nothing and does not reach the server: it keeps the
\* outermost handle, or something else still ends the transaction.
LEMMA BlockGoes ==
  ASSUME NestInv, BlockInv, NEW t \in Task,
         \A u \in Task \ {t} : /\ frame'[u] = frame[u] /\ frame[u].at = "idle"
                               /\ frame[u].do = "none" /\ frame[u].reply = "none",
         info' = info, open' \subseteq open, session' = session,
         Sends(t)', Status(t)',
         \/ open' = {}
         \/ frame'[t].do \in {"commit", "rollback"}
         \/ frame[t].do \notin {"commit", "rollback"},
         \/ session.txn # "relq"
         \/ frame'[t].do = "begin" \/ frame'[t].at = "recover"
         \/ frame[t].at = "recover" /\ frame[t].reply = "error"
         \/ /\ frame[t].do # "begin" /\ frame[t].at # "recover"
            /\ \A h \in open : Outer(h) => h \in open'
  PROVE  BlockStep
<1>1. OuterFirst'
  BY DEF BlockInv, OuterFirst, Outer, IsTx
<1>2. Controls'
  <2>1. CASE open' = {} \/ frame'[t].do \in {"commit", "rollback"}
    BY <2>1 DEF Controls, Ending
  <2>2. CASE frame[t].do \notin {"commit", "rollback"}
    <3>1. ~Ending
      BY <2>2 DEF Ending
    <3> QED BY <3>1 DEF BlockInv, Controls, Outer, IsTx
  <2> QED BY <2>1, <2>2
<1>3. ASSUME NEW u \in Task PROVE Sends(u)' /\ Status(u)'
  <2>1. CASE u # t
    <3>1. /\ frame'[u].at = "idle" /\ frame'[u].do = "none"
          /\ frame'[u].reply = "none"
      BY <2>1
    <3> QED BY <3>1 DEF Sends, Status
  <2> QED BY <2>1
<1>4. ASSUME ~Stranded, Stranded'
      PROVE  \E u \in Task : frame[u].at = "recover" /\ frame[u].reply = "error"
  <2>1. /\ session.up /\ session.txn = "relq"
        /\ frame'[t].do # "begin" /\ frame'[t].at # "recover"
        /\ \A h \in open' : ~Outer(h)
    BY <1>4 DEF Stranded, Outer, IsTx
  <2>2. ASSUME /\ frame[t].do # "begin" /\ frame[t].at # "recover"
               /\ \A h \in open : Outer(h) => h \in open'
        PROVE  Stranded
    BY <2>1, <2>2 DEF Stranded, Outer
  <2> QED BY <1>4, <2>1, <2>2
<1> QED BY <1>1, <1>2, <1>3, <1>4 DEF BlockInv, BlockStep

\* A step of an operation that keeps every handle open.
LEMMA BlockStays ==
  ASSUME NestInv, BlockInv, NEW t \in Task,
         \A u \in Task \ {t} : /\ frame'[u] = frame[u] /\ frame[u].at = "idle"
                               /\ frame[u].do = "none" /\ frame[u].reply = "none",
         info' = info, open' = open, session' = session,
         Sends(t)', Status(t)',
         frame[t].do \notin {"begin", "commit", "rollback"}, frame[t].at # "recover"
  PROVE  BlockStep
BY BlockGoes

\* Recovery closes the boundary and what is inside it, or everything before it
\* sends the raw rollback.
LEMMA BlockRecover ==
  ASSUME NestInv, NestInv', BlockInv, NEW t \in Task, frame[t].at # "idle",
         frame[t].at # "recover", session' = session,
         NEW edge \in open \union {None}, NEW extra, NEW owns, NEW also,
         Recover(t, frame[t], edge, extra, owns, also),
         \A e \in also : e > edge,
         frame[t].do \in {"begin", "commit", "rollback"} =>
            (owns \/ extra # {}) /\ ~Nested(edge)
  PROVE  BlockStep
<1> DEFINE f == frame[t]
<1>1. /\ frame \in [Task -> Frames] /\ f \in Frames /\ Sends(t) /\ Status(t)
      /\ \A u \in Task \ {t} : /\ frame[u].at = "idle" /\ frame[u].do = "none"
                               /\ frame[u].reply = "none"
  BY Alone
<1>2. edge \in Nat
  BY OpenType DEF NestInv, None
<1> HIDE DEF f
<1>3. CASE Return(t) /\ UNCHANGED registry /\ Snapshot(extra) = {} /\ ~owns
  <2>1. frame[t].do \notin {"begin", "commit", "rollback"}
    BY <1>3 DEF Snapshot
  <2> QED BY <1>1, <1>3, <2>1, Done, BlockStays DEF registry
<1>4. CASE /\ Nested(edge)
           /\ RecoverBoundary(t, frame[t], edge, After(edge) \union {edge} \union also)
  <2> DEFINE S == After(edge) \union {edge} \union also
             g == [f EXCEPT !.edge = edge]
             save == info[edge].save
             at == "recoverTo"
             do == "rollback to"
  <2>1. Shut(S, {}) /\ Await(t, g, at, do, save)
    BY <1>4 DEF RecoverBoundary, f
  <2>2. g \in Frames
    BY <1>1, <1>2 DEF Frames
  <2>3. edge \in open /\ ~Outer(edge)
    BY <1>4 DEF Nested, Outer
  <2>4. ASSUME NEW h \in open, Outer(h) PROVE h \notin Fall(S)
    <3>1. h <= edge /\ h # edge /\ IsTx(h)
      BY <2>3, <2>4 DEF BlockInv, OuterFirst, Outer
    <3>2. h \notin After(edge)
      BY <2>3, <3>1, OpenType, AfterLater DEF NestInv
    <3>3. h \notin also
      BY <1>2, <3>1, OpenType DEF NestInv
    <3> QED BY <3>1, <3>2, <3>3 DEF Fall
  <2>5. open' \subseteq open /\ info' = info /\ \A h \in open : Outer(h) => h \in open'
    BY <2>1, <2>4 DEF Shut
  <2> HIDE DEF g, save, at, do, S
  <2>6. /\ frame'[t].at = at /\ frame'[t].do = do /\ frame'[t].reply = "waiting"
        /\ \A u \in Task \ {t} : frame'[u] = frame[u]
    BY <1>1, <2>1, <2>2, Sent
  <2>7. Sends(t)' /\ Status(t)'
    BY <2>6 DEF Sends, Status, at, do
  <2>8. frame[t].do \notin {"begin", "commit", "rollback"}
    BY <1>4
  <2> QED BY <1>1, <2>5, <2>6, <2>7, <2>8, BlockGoes
<1>5. CASE ~Nested(edge) /\ RecoverAll(t, f, Snapshot(extra), also)
  <2>1. Await(t, f, "recover", "rollback", NoSave) /\ open' \subseteq open /\ info' = info
    BY <1>5 DEF RecoverAll, Shut
  <2>2. /\ frame'[t].at = "recover" /\ frame'[t].do = "rollback"
        /\ frame'[t].reply = "waiting"
        /\ \A u \in Task \ {t} : frame'[u] = frame[u]
    BY <1>1, <2>1, Sent
  <2>3. Sends(t)' /\ Status(t)'
    BY <2>2 DEF Sends, Status
  <2> QED BY <1>1, <2>1, <2>2, <2>3, BlockGoes
<1> QED BY <1>3, <1>4, <1>5 DEF Recover, f

\* When an operation may start, no other is running.
LEMMA Idle ==
  ASSUME Serial, NestInv, BlockInv, NEW t \in Task, Ready(t)
  PROVE  /\ frame \in [Task -> Frames] /\ ~Ending
         /\ \A u \in Task : /\ frame[u].at = "idle" /\ frame[u].do = "none"
                            /\ frame[u].reply = "none"
BY OpenType DEF NestInv, BlockInv, Ready, Quiet, Sends, Ending

\* The frames that the operations of a handle start with.
LEMMA CallFrames ==
  ASSUME NestInv, NEW h \in open
  PROVE  /\ [NoFrame EXCEPT !.h = h, !.reg = info[h].reg, !.edge = h] \in Frames
         /\ [NoFrame EXCEPT !.h = h, !.reg = info[h].reg] \in Frames
         /\ [NoFrame EXCEPT !.h = h, !.reg = info[h].reg,
                            !.edge = info[h].owner] \in Frames
<1>1. RegistryOK
  BY TypeParts DEF NestInv
<1>2. h \in Nat /\ info[h].reg \in Nat /\ info[h].owner \in Nat
  BY <1>1, InfoType DEF RegistryOK
<1> QED BY <1>2, NoFrameType DEF Frames

\* Starting an operation: begin() opens a transaction only when there is none,
\* and commit() or rollback() closes what is inside its handle.
LEMMA BlockStarts ==
  ASSUME Serial, NestInv, BlockInv, NEW t \in Task, Starts(t)
  PROVE  BlockStep
<1>1. /\ \A u \in Task : /\ frame[u].at = "idle" /\ frame[u].do = "none"
                         /\ frame[u].reply = "none"
      /\ frame \in [Task -> Frames] /\ ~Ending
  <2>1. Ready(t)
    BY DEF Starts, Begin, Commit, Rollback, Finish, Savepoint, SpRelease,
           SpRollback, SpCall, Query
  <2> QED BY <2>1, Idle
<1>2. ASSUME NEW h \in open \union {None}, Begin(t, h)
      PROVE  BlockStep
  <2> DEFINE inside   == session.txn # "none"
             fromPool == Pool /\ h = None /\ ~leased
             reg      == IF h # None THEN info[h].reg
                         ELSE IF current # None /\ ~fromPool THEN current
                         ELSE regs + 1
             edge     == IF inside /\ Stack(reg) # {} THEN Top(reg) ELSE None
             save     == IF inside THEN minted + 1 ELSE NoSave
             f        == [NoFrame EXCEPT !.h = h, !.reg = reg,
                                         !.pool = fromPool, !.edge = edge]
             do       == IF inside THEN "savepoint" ELSE "begin"
  <2>1. Await(t, f, "start", do, save) /\ UNCHANGED <<info, open, session>>
    BY <1>2 DEF Begin
  <2>2. IF inside THEN do = "savepoint" /\ save # NoSave
                  ELSE do = "begin" /\ save = NoSave /\ edge = None /\ open = {}
    <3>1. minted \in Nat
      BY TypeParts DEF NestInv, RegistryOK
    <3>2. ~inside => open = {}
      BY <1>1 DEF BlockInv, Controls
    <3> QED BY <3>1, <3>2 DEF NoSave
  <2> HIDE DEF do, edge, reg, save, fromPool
  <2>3. /\ frame'[t].at = "start" /\ frame'[t].do = do /\ frame'[t].save = save
        /\ frame'[t].edge = edge /\ frame'[t].reply = "waiting"
        /\ \A u \in Task \ {t} : frame'[u] = frame[u]
    BY <1>1, <2>1 DEF Await, f, NoFrame
  <2>4. Sends(t)' /\ Status(t)'
    BY <2>1, <2>2, <2>3 DEF Sends, Status
  <2> QED BY <1>1, <2>1, <2>3, <2>4, BlockStays
<1>3. ASSUME NEW h \in open, Commit(t, h) \/ Rollback(t, h)
      PROVE  BlockStep
  <2> DEFINE f == [NoFrame EXCEPT !.h = h, !.reg = info[h].reg, !.edge = h]
  <2>1. PICK at \in {"commit", "rollback"}, do \in Verbs :
               /\ Finish(t, h, at, do)
               /\ at = "commit" =>
                    do = IF info[h].save = NoSave THEN "commit" ELSE "release"
               /\ at = "rollback" =>
                    do = IF info[h].save = NoSave THEN "rollback" ELSE "rollback to"
    BY <1>3 DEF Commit, Rollback, Verbs
  <2>2. /\ Shut(After(h), {}) /\ Await(t, f, at, do, info[h].save) /\ f \in Frames
        /\ session' = session /\ f.h = h
    BY <2>1, CallFrames DEF Finish, others, NoFrame
  <2>3. open' = {e \in open : e <= h} /\ info' = info
    BY <2>2, ShutAfter DEF NestInv
  <2>4. \A e \in open : Outer(e) => e \in open'
    BY <2>3 DEF BlockInv, OuterFirst
  <2> HIDE DEF f
  <2>5. /\ frame'[t].at = at /\ frame'[t].do = do /\ frame'[t].reply = "waiting"
        /\ frame'[t].h = h
        /\ \A u \in Task \ {t} : frame'[u] = frame[u]
    BY <1>1, <2>2, Sent
  <2>6. Sends(t)' /\ Status(t)'
    BY <2>1, <2>3, <2>5 DEF Sends, Status
  <2> QED BY <1>1, <2>2, <2>3, <2>4, <2>5, <2>6, BlockGoes
<1>4. ASSUME NEW h \in open, SpRelease(t, h) \/ SpRollback(t, h)
      PROVE  BlockStep
  <2> DEFINE f == [NoFrame EXCEPT !.h = h, !.reg = info[h].reg,
                                  !.edge = info[h].owner]
  <2>1. PICK at \in {"spRelease", "spRollback"}, do \in Verbs :
               /\ SpCall(t, h, at, do)
               /\ do = IF at = "spRelease" THEN "release" ELSE "rollback to"
    BY <1>4 DEF SpRelease, SpRollback, Verbs
  <2>2. /\ Await(t, f, at, do, info[h].save) /\ f \in Frames
        /\ UNCHANGED <<info, open, session>>
    BY <2>1, CallFrames DEF SpCall, registry, others
  <2> HIDE DEF f
  <2>3. /\ frame'[t].at = at /\ frame'[t].do = do /\ frame'[t].reply = "waiting"
        /\ \A u \in Task \ {t} : frame'[u] = frame[u]
    BY <1>1, <2>2, Sent
  <2>4. Sends(t)' /\ Status(t)'
    BY <2>1, <2>3 DEF Sends, Status
  <2> QED BY <1>1, <2>2, <2>3, <2>4, BlockStays
<1>5. ASSUME NEW h \in open, Query(t, h) \/ \E n \in Name : Savepoint(t, h, n)
      PROVE  BlockStep
  <2> DEFINE f == [NoFrame EXCEPT !.h = h, !.reg = info[h].reg]
  <2>1. PICK at \in {"query", "savepoint"} : \E save : Await(t, f, at, at, save)
    BY <1>5 DEF Query, Savepoint
  <2>2. UNCHANGED <<info, open, session>> /\ f \in Frames
    BY <1>5, CallFrames DEF Query, Savepoint, registry, others
  <2> HIDE DEF f
  <2>3. /\ frame'[t].at = at /\ frame'[t].do = at /\ frame'[t].reply = "waiting"
        /\ \A u \in Task \ {t} : frame'[u] = frame[u]
    BY <1>1, <2>1, <2>2, Sent
  <2>4. Sends(t)' /\ Status(t)'
    BY <2>1, <2>3 DEF Sends, Status
  <2> QED BY <1>1, <2>2, <2>3, <2>4, BlockStays
<1> QED BY <1>2, <1>3, <1>4, <1>5 DEF Starts

\* Operations that end, or send their next command, with every handle open.
LEMMA BlockEnds ==
  ASSUME NestInv, BlockInv, NEW t \in Task,
         \/ RecoverTo(t) \/ RecoverToEnds(t) \/ Undone(t) \/ Rolled(t)
         \/ SavepointInterrupted(t) \/ SavepointFailed(t) \/ Dropped(t) \/ QueryEnds(t)
  PROVE  BlockStep
<1> DEFINE f == frame[t]
<1>1. f.at # "idle" /\ UNCHANGED <<info, open, session>>
  BY DEF RecoverTo, RecoverToEnds, Undone, Rolled, SavepointInterrupted,
     SavepointFailed, Dropped, QueryEnds, Resumes, registry, others
<1>2. /\ frame \in [Task -> Frames] /\ f \in Frames /\ Sends(t) /\ Status(t)
      /\ \A u \in Task \ {t} : /\ frame[u].at = "idle" /\ frame[u].do = "none"
                               /\ frame[u].reply = "none"
  BY <1>1, Alone
<1>3. f.do \notin {"begin", "commit", "rollback"} /\ f.at # "recover"
  <2>1. CASE RecoverTo(t) \/ RecoverToEnds(t) \/ Undone(t) \/ Rolled(t)
    BY <1>2, <2>1 DEF Sends, RecoverTo, RecoverToEnds, Undone, Rolled, Resumes
  <2>2. CASE SavepointInterrupted(t) \/ SavepointFailed(t) \/ Dropped(t) \/ QueryEnds(t)
    BY <1>2, <2>2 DEF Sends, SavepointInterrupted, SavepointFailed, Dropped,
       QueryEnds, Resumes
  <2> QED BY <2>1, <2>2
<1>4. CASE RecoverToEnds(t) \/ SavepointFailed(t) \/ Dropped(t) \/ QueryEnds(t)
  <2>1. Return(t)
    BY <1>4 DEF RecoverToEnds, SavepointFailed, Dropped, QueryEnds
  <2> QED BY <1>1, <1>2, <1>3, <2>1, Done, BlockStays
<1>5. CASE RecoverTo(t) \/ Undone(t) \/ Rolled(t) \/ SavepointInterrupted(t)
  <2>1. PICK at \in {"recoverRelease", "undoRelease", "rollbackRelease", "drop"} :
          /\ Await(t, f, at, "release", f.save)
          /\ at = "undoRelease" => session.txn # "none"
          /\ at = "rollbackRelease" => info[f.h].save # NoSave
    <3>1. CASE RecoverTo(t) \/ SavepointInterrupted(t)
      BY <3>1 DEF RecoverTo, SavepointInterrupted
    <3>2. CASE Undone(t)
      BY <1>2, <1>3, <3>2 DEF Undone, Resumes, Status
    <3>3. CASE Rolled(t)
      BY <1>2, <3>3 DEF Rolled, Resumes, Sends
    <3> QED BY <1>5, <3>1, <3>2, <3>3
  <2> HIDE DEF f
  <2>2. /\ frame'[t].at = at /\ frame'[t].do = "release" /\ frame'[t].h = f.h
        /\ frame'[t].reply = "waiting"
        /\ \A u \in Task \ {t} : frame'[u] = frame[u]
    BY <1>2, <2>1, Sent
  <2>3. Sends(t)' /\ Status(t)'
    BY <1>1, <2>1, <2>2 DEF Sends, Status
  <2> QED BY <1>1, <1>2, <1>3, <2>2, <2>3, BlockStays DEF f
<1> QED BY <1>4, <1>5

\* A handle is constructed: the transaction that begin() opened, or a handle
\* inside it.
LEMMA BlockConstruct ==
  ASSUME NestInv, BlockInv, NEW t \in Task, BeginOk(t) \/ SavepointOk(t)
  PROVE  BlockStep
<1> DEFINE f == frame[t]
<1>0. PICK new \in Nat : new = made + 1
  BY OpenType DEF NestInv
<1>1. f.at \in {"start", "savepoint"} /\ f.reply = "ok" /\ Return(t) /\ session' = session
  BY DEF BeginOk, SavepointOk, Resumes
<1>2. /\ frame \in [Task -> Frames] /\ f \in Frames /\ FrameInv(t) /\ Sends(t) /\ Status(t)
      /\ \A u \in Task \ {t} : /\ frame[u].at = "idle" /\ frame[u].do = "none"
                               /\ frame[u].reply = "none"
  BY <1>1, Alone
<1>3. PICK r \in Records :
         /\ info' = Append(info, r) /\ open' = open \union {new}
         /\ r.kind = "tx" => r.save = f.save /\ f.at = "start"
         /\ r.kind # "tx" => f.at = "savepoint" /\ f.h \in open
  <2>1. CASE BeginOk(t)
    <3>1. [kind |-> "tx", owner |-> None, save |-> f.save, reg |-> f.reg] \in Records
      BY <1>2 DEF Records, Frames, Kinds, None
    <3> QED BY <1>0, <2>1, <3>1 DEF BeginOk, Construct, Resumes
  <2>2. CASE SavepointOk(t)
    <3>1. [kind |-> "sp", owner |-> f.h, save |-> f.save, reg |-> f.reg] \in Records
      BY <1>2 DEF Records, Frames, Kinds
    <3>2. f.at = "savepoint" /\ f.h \in open
      BY <1>2, <2>2 DEF SavepointOk, Resumes, FrameInv
    <3> QED BY <1>0, <2>2, <3>1, <3>2 DEF SavepointOk, Construct
  <2> QED BY <2>1, <2>2
<1>4. /\ info \in Seq(Records) /\ made \in Nat /\ open \subseteq 1 .. made
      /\ made = Len(info)
  BY TypeParts, OpenType DEF NestInv, RegistryOK, made
<1>5. /\ \A h \in open : info'[h] = info[h] /\ h < new /\ h \in Nat
      /\ info'[new] = r /\ new \notin open
  BY <1>0, <1>3, <1>4
<1>6. /\ \A h \in open : Outer(h)' <=> Outer(h)
      /\ Outer(new)' => r.kind = "tx" /\ r.save = NoSave
  BY <1>5 DEF Outer, IsTx
<1>7. /\ frame'[t].at = "idle" /\ frame'[t].do = "none" /\ frame'[t].reply = "none"
      /\ \A u \in Task \ {t} : frame'[u] = frame[u]
  BY <1>1, <1>2, Done
<1>8. Outer(new)' => f.do = "begin" /\ open = {} /\ session.txn = "relq"
  BY <1>1, <1>2, <1>3, <1>6 DEF Sends, Status
<1>9. session.txn # "none"
  <2>1. CASE f.at = "start"
    BY <1>1, <1>2, <2>1 DEF Sends, Status
  <2>2. CASE f.at = "savepoint"
    <3>1. f.do = "savepoint" /\ f.h \in open
      BY <1>2, <2>2 DEF Sends, FrameInv
    <3>2. ~Ending
      BY <1>2, <3>1 DEF Ending
    <3> QED BY <3>1, <3>2 DEF BlockInv, Controls
  <2> QED BY <1>1, <2>1, <2>2
<1>10. ~Ending
  <2>1. f.do \notin {"commit", "rollback"}
    BY <1>1, <1>2 DEF Sends
  <2> QED BY <1>2, <2>1 DEF Ending
<1>11. OuterFirst'
  <2> SUFFICES ASSUME NEW g \in open', NEW h \in open', Outer(h)' PROVE h <= g
    BY DEF OuterFirst
  <2> HIDE DEF f
  <2>1. CASE h \in open /\ g \in open
    BY <1>6, <2>1 DEF BlockInv, OuterFirst
  <2>2. CASE h = new
    BY <1>3, <1>5, <1>8, <2>2
  <2>3. CASE h \in open /\ g = new
    BY <1>5, <2>3
  <2> QED BY <1>3, <2>1, <2>2, <2>3
<1>12. Controls'
  <2> HIDE DEF f
  <2> QED BY <1>1, <1>3, <1>6, <1>8, <1>9, <1>10 DEF BlockInv, Controls
<1>13. ASSUME NEW u \in Task PROVE Sends(u)' /\ Status(u)'
  <2>1. frame'[u].at = "idle" /\ frame'[u].do = "none" /\ frame'[u].reply = "none"
    BY <1>2, <1>7
  <2> QED BY <2>1 DEF Sends, Status
<1>14. ~Stranded /\ Stranded' => FALSE
  <2> SUFFICES ASSUME ~Stranded, Stranded' PROVE FALSE
    OBVIOUS
  <2>1. /\ session.up /\ session.txn = "relq" /\ ~Outer(new)'
        /\ \A h \in open : ~Outer(h)
    BY <1>1, <1>3, <1>6 DEF Stranded, Outer, IsTx
  <2>2. f.at # "recover" /\ f.do # "begin"
    <3>1. f.do # "begin"
      <4> SUFFICES ASSUME f.do = "begin" PROVE Outer(new)'
        BY <2>1
      <4>1. f.at = "start" /\ f.save = NoSave
        BY <1>1, <1>2 DEF Sends, Status
      <4>2. r.kind = "tx" /\ r.save = NoSave
        BY <1>3, <4>1
      <4> QED BY <1>5, <4>2 DEF Outer, IsTx
    <3> QED BY <1>1, <3>1
  <2> QED BY <1>2, <2>1, <2>2 DEF Stranded, Outer
<1> QED BY <1>11, <1>12, <1>13, <1>14 DEF BlockInv, BlockStep

\* A connection goes back to the pool when the last handle is closed, and no
\* transaction is left on it.
LEMMA BlockFresh ==
  ASSUME NestInv, BlockInv, NEW t \in Task, frame[t].at # "idle",
         session' = Fresh, open' = {}, Return(t)
  PROVE  BlockStep
<1>1. /\ frame \in [Task -> Frames]
      /\ \A u \in Task \ {t} : /\ frame[u].at = "idle" /\ frame[u].do = "none"
                               /\ frame[u].reply = "none"
  BY Alone
<1>2. \A u \in Task : /\ frame'[u].at = "idle" /\ frame'[u].do = "none"
                      /\ frame'[u].reply = "none"
  BY <1>1, Done
<1>3. \A u \in Task : Sends(u)' /\ Status(u)'
  BY <1>2 DEF Sends, Status
<1>4. OuterFirst' /\ Controls'
  BY DEF OuterFirst, Controls
<1>5. ~Stranded'
  BY DEF Stranded, Fresh
<1> QED BY <1>3, <1>4, <1>5 DEF BlockInv, BlockStep

\* begin() that fails or is interrupted after its BEGIN rolls everything back.
LEMMA BlockBegins ==
  ASSUME NestInv, NestInv', BlockInv, NEW t \in Task,
         BeginInterrupted(t) \/ BeginFailed(t) \/ UndoEnds(t)
  PROVE  BlockStep
<1> DEFINE f == frame[t]
<1>1. f.at \in {"start", "undo", "undoRelease"}
  BY DEF BeginInterrupted, BeginFailed, UndoEnds, Resumes
<1>2. /\ frame \in [Task -> Frames] /\ f \in Frames /\ FrameInv(t) /\ Sends(t) /\ Status(t)
      /\ \A u \in Task \ {t} : /\ frame[u].at = "idle" /\ frame[u].do = "none"
                               /\ frame[u].reply = "none"
  BY <1>1, Alone
<1>3. /\ f.edge \in open \union {None} /\ (f.pool => open = {})
      /\ f.do \in {"begin", "savepoint", "rollback to", "release"}
      /\ f.do = "begin" => f.edge = None
  BY <1>1, <1>2 DEF FrameInv, Sends, Status
<1>4. ASSUME NEW edge \in {f.edge, None}, NEW owns, f.do = "begin" => owns,
             Recover(t, f, edge, {}, owns, {}), session' = session
      PROVE  BlockStep
  <2>1. edge \in open \union {None} /\ (f.do = "begin" => ~Nested(edge))
    BY <1>3 DEF Nested
  <2> DEFINE none == {}
  <2>2. Recover(t, frame[t], edge, none, owns, none)
    BY <1>4
  <2>3. \A e \in none : e > edge
    OBVIOUS
  <2> HIDE DEF none
  <2> QED BY <1>1, <1>3, <1>4, <2>1, <2>2, <2>3, BlockRecover
<1>5. CASE BeginInterrupted(t) /\ f.save = NoSave
  BY <1>4, <1>5 DEF BeginInterrupted
<1>6. CASE BeginInterrupted(t) /\ f.save # NoSave
  <2>1. /\ Await(t, f, "undo", "rollback to", f.save) /\ f.at = "start"
        /\ UNCHANGED <<info, open, session>>
    BY <1>6 DEF BeginInterrupted, Resumes, registry
  <2>2. f.do # "begin" /\ session.txn # "none"
    BY <1>2, <1>6, <2>1 DEF Status
  <2> DEFINE at == "undo"
             do == "rollback to"
  <2>0. Await(t, f, at, do, f.save)
    BY <2>1
  <2> HIDE DEF f, at, do
  <2>3. /\ frame'[t].at = at /\ frame'[t].do = do /\ frame'[t].reply = "waiting"
        /\ \A u \in Task \ {t} : frame'[u] = frame[u]
    BY <1>2, <2>0, Sent
  <2>4. Sends(t)' /\ Status(t)'
    BY <2>1, <2>2, <2>3 DEF Sends, Status, at, do
  <2> QED BY <1>1, <1>2, <1>3, <2>1, <2>2, <2>3, <2>4, BlockStays DEF f
<1>7. CASE BeginFailed(t) /\ f.pool
  <2>1. session' = Fresh /\ Return(t) /\ open' = {}
    BY <1>3, <1>7 DEF BeginFailed, GiveBack, registry
  <2> QED BY <1>1, <2>1, BlockFresh
<1>8. CASE BeginFailed(t) /\ ~f.pool
  BY <1>4, <1>8 DEF BeginFailed
<1>9. CASE UndoEnds(t)
  <2>1. session' = session /\ f.at \in {"undo", "undoRelease"}
    BY <1>9 DEF UndoEnds, others, Resumes
  <2>2. f.do # "begin"
    BY <1>2, <2>1 DEF Sends
  <2>3. CASE Return(t) /\ UNCHANGED registry
    BY <1>1, <1>2, <1>3, <2>1, <2>2, <2>3, Done, BlockStays DEF registry
  <2>4. CASE Recover(t, f, f.edge, {}, FALSE, {})
    BY <1>4, <2>1, <2>2, <2>4
  <2> QED BY <1>9, <2>3, <2>4 DEF UndoEnds
<1> QED BY <1>5, <1>6, <1>7, <1>8, <1>9

\* commit() and rollback() close their handle; an outermost one is the last,
\* and the server has ended its transaction.
LEMMA BlockFinishes ==
  ASSUME NestInv, NestInv', BlockInv, NEW t \in Task, FinishOk(t) \/ FinishFailed(t)
  PROVE  BlockStep
<1> DEFINE f == frame[t]
<1>1. f.at \in {"commit", "rollback", "rollbackRelease"}
  BY DEF FinishOk, FinishFailed, Resumes
<1>2. /\ frame \in [Task -> Frames] /\ f \in Frames /\ FrameInv(t) /\ Sends(t) /\ Status(t)
      /\ \A u \in Task \ {t} : /\ frame[u].at = "idle" /\ frame[u].do = "none"
                               /\ frame[u].reply = "none"
  BY <1>1, Alone
<1>3. /\ f.h \in open /\ IsTx(f.h) /\ \A e \in open : e <= f.h
      /\ f.do \in {"commit", "rollback"} <=> Outer(f.h)
      /\ f.do # "begin"
  BY <1>1, <1>2 DEF FrameInv, Sends, Outer
<1>4. CASE FinishFailed(t)
  <2>1. Recover(t, f, f.h, {f.h}, FALSE, {}) /\ session' = session
    BY <1>4 DEF FinishFailed, others
  <2>2. f.do \in {"begin", "commit", "rollback"} => ~Nested(f.h)
    BY <1>3 DEF Nested, Outer
  <2> DEFINE extra == {f.h}
             none  == {}
             owns  == FALSE
  <2>3. Recover(t, frame[t], f.h, extra, owns, none)
    BY <2>1
  <2>4. extra # {} /\ f.h \in open \union {None} /\ \A e \in none : e > f.h
    BY <1>3
  <2> HIDE DEF extra, none, owns
  <2> QED BY <1>1, <2>1, <2>2, <2>3, <2>4, BlockRecover
<1>5. CASE FinishOk(t)
  <2>1. /\ open' = open \ Fall({f.h}) /\ info' = info /\ Return(t) /\ f.reply = "ok"
        /\ IF f.h \in pooled THEN session' = Fresh ELSE session' = session
    BY <1>5 DEF FinishOk, Shut, GiveBack, Resumes
  <2>2. ASSUME \A e \in open : f.h <= e PROVE open' = {}
    <3>1. \A e \in open : e = f.h
      BY <1>3, <2>2, OpenType DEF NestInv
    <3> QED BY <1>3, <2>1, <3>1 DEF Fall
  <2>3. CASE f.h \in pooled
    <3>1. open' = {}
      BY <2>2, <2>3 DEF NestInv, PoolHeld
    <3> QED BY <1>1, <2>1, <2>3, <3>1, BlockFresh
  <2>4. CASE f.h \notin pooled /\ Outer(f.h)
    <3>1. open' = {}
      BY <1>3, <2>2, <2>4 DEF BlockInv, OuterFirst
    <3>2. session.txn = "none"
      BY <1>2, <1>3, <2>1, <2>4 DEF Status
    <3> QED BY <1>2, <2>1, <2>4, <3>1, <3>2, Done, BlockGoes
  <2>5. CASE f.h \notin pooled /\ ~Outer(f.h)
    <3>1. \A h \in open : Outer(h) => h \in open'
      BY <2>1, <2>5 DEF Fall, Outer
    <3>2. f.at # "recover" /\ f.do \notin {"begin", "commit", "rollback"}
      BY <1>1, <1>3, <2>5
    <3> QED BY <1>2, <2>1, <2>5, <3>1, <3>2, Done, BlockGoes
  <2> QED BY <2>3, <2>4, <2>5
<1> QED BY <1>4, <1>5

\* Savepoint handles close only what was opened after them.
LEMMA BlockSavepoints ==
  ASSUME NestInv, NestInv', BlockInv, NEW t \in Task,
         SpReleaseOk(t) \/ SpRollbackOk(t) \/ SpFailed(t)
  PROVE  BlockStep
<1> DEFINE f == frame[t]
<1>1. f.at \in {"spRelease", "spRollback"} /\ session' = session
  BY DEF SpReleaseOk, SpRollbackOk, SpFailed, Resumes, others
<1>2. /\ frame \in [Task -> Frames] /\ f \in Frames /\ FrameInv(t) /\ Sends(t) /\ Status(t)
      /\ \A u \in Task \ {t} : /\ frame[u].at = "idle" /\ frame[u].do = "none"
                               /\ frame[u].reply = "none"
  BY <1>1, Alone
<1>3. /\ f.h \in open /\ ~IsTx(f.h) /\ f.edge = info[f.h].owner
      /\ f.do \notin {"begin", "commit", "rollback"}
  BY <1>1, <1>2 DEF FrameInv, Sends
<1>4. CASE SpReleaseOk(t) \/ SpRollbackOk(t)
  <2>1. PICK S \in {After(f.h), After(f.h) \union {f.h}} :
          open' = open \ Fall(S) /\ info' = info /\ Return(t)
    BY <1>4 DEF SpReleaseOk, SpRollbackOk, Shut
  <2>2. ASSUME NEW h \in open, Outer(h) PROVE h \in open'
    <3>1. h <= f.h /\ h # f.h /\ IsTx(h)
      BY <1>3, <2>2 DEF BlockInv, OuterFirst, Outer
    <3>2. h \notin After(f.h)
      BY <1>3, <3>1, OpenType, AfterLater DEF NestInv
    <3> QED BY <2>1, <3>1, <3>2 DEF Fall
  <2> QED BY <1>1, <1>2, <1>3, <2>1, <2>2, Done, BlockGoes
<1>5. CASE SpFailed(t)
  <2> DEFINE extra == {f.edge}
             also  == After(f.h) \union {f.h}
             owns  == FALSE
  <2>1. Recover(t, frame[t], f.edge, extra, owns, also)
    BY <1>5 DEF SpFailed
  <2>2. f.edge \in open /\ f.edge < f.h
    BY <1>3 DEF NestInv, WellNested
  <2>3. \A e \in also : e > f.edge
    <3>1. After(f.h) = {e \in open : e > f.h}
      BY <1>3, AfterLater DEF NestInv
    <3>2. f.edge \in Nat /\ f.h \in Nat /\ open \subseteq Nat
      BY <1>2, OpenType DEF NestInv, Frames
    <3> HIDE DEF f
    <3>3. \A e \in After(f.h) : e \in Nat /\ e > f.h
      BY <3>1, <3>2
    <3> QED BY <2>2, <3>2, <3>3
  <2> HIDE DEF also, extra, owns
  <2> QED BY <1>1, <1>3, <2>1, <2>2, <2>3, BlockRecover
<1> QED BY <1>4, <1>5

\* After the raw rollback nothing is open; a connection that was acquired goes
\* back, and a rollback that succeeded left no transaction.
LEMMA BlockRecovered ==
  ASSUME NestInv, BlockInv, NEW t \in Task, RecoverEnds(t)
  PROVE  BlockStep
<1> DEFINE f == frame[t]
<1>1. f.at = "recover" /\ Return(t) /\ UNCHANGED <<info, open>>
  BY DEF RecoverEnds, Resumes, registry
<1>2. /\ frame \in [Task -> Frames] /\ f \in Frames /\ FrameInv(t) /\ Sends(t) /\ Status(t)
      /\ \A u \in Task \ {t} : /\ frame[u].at = "idle" /\ frame[u].do = "none"
                               /\ frame[u].reply = "none"
  BY <1>1, Alone
<1>3. open = {} /\ f.do = "rollback" /\ f.reply \in {"ok", "error"}
  <2>1. f.reply # "waiting"
    BY DEF RecoverEnds, Resumes
  <2> QED BY <1>1, <1>2, <2>1 DEF FrameInv, Sends
<1>4. session' = Fresh \/ session' = session
  BY DEF RecoverEnds, GiveBack
<1>5. CASE session' = Fresh
  BY <1>1, <1>3, <1>5, BlockFresh
<1>6. CASE session' = session
  <2>1. session.txn # "relq" \/ f.reply = "error"
    BY <1>2, <1>3 DEF Status
  <2> QED BY <1>1, <1>2, <1>3, <1>6, <2>1, Done, BlockGoes
<1> QED BY <1>4, <1>5, <1>6

\* So every step of a running operation keeps a handle, or something that
\* ends the transaction.
LEMMA BlockContinues ==
  ASSUME NestInv, NestInv', BlockInv, NEW t \in Task, Continues(t)
  PROVE  BlockStep
BY BlockEnds, BlockConstruct, BlockBegins, BlockFinishes, BlockSavepoints,
   BlockRecovered DEF Continues

\* The server applies a command it accepts, or the task sees an error and the
\* savepoints and the transaction stay; only the reply of the frame changes.
LEMMA Replied ==
  ASSUME NestInv, NEW t \in Task, Answer(t) \/ Cancel(t) \/ Lose(t)
  PROVE  LET f == frame[t]
             g == frame'[t]
         IN /\ f.at # "idle" => f \in Frames
            /\ f.reply = "waiting" /\ g.reply \in {"ok", "error"}
            /\ g.at = f.at /\ g.do = f.do /\ g.save = f.save /\ g.h = f.h
            /\ g.edge = f.edge
            /\ \A u \in Task \ {t} : frame'[u] = frame[u]
            /\ UNCHANGED registry
            /\ \/ /\ Accepted(session, f.do, f.save)
                  /\ session' = Applied(session, f.do, f.save)
               \/ /\ g.reply = "error"
                  /\ session'.txn = session.txn /\ session'.saves = session.saves
                  /\ session'.up => session.up
<1> DEFINE f == frame[t]
<1>1. frame \in [Task -> Frames] /\ session \in Sessions
  BY OpenType DEF NestInv, TypeOK
<1>2. PICK r \in {"ok", "error"} :
        /\ frame' = [frame EXCEPT ![t].reply = r]
        /\ \/ /\ Accepted(session, f.do, f.save)
              /\ session' = Applied(session, f.do, f.save)
           \/ /\ r = "error"
              /\ session' \in {Failed(session), [session EXCEPT !.up = FALSE]}
  BY DEF Answer, Cancel, Lose, Answered
<1>3. f.reply = "waiting" /\ UNCHANGED registry
  BY DEF Answer, Cancel, Lose, Answered, Waits
<1>4. /\ frame'[t] = [f EXCEPT !.reply = r]
      /\ \A u \in Task \ {t} : frame'[u] = frame[u]
  BY <1>1, <1>2
<1>5. \A s \in {Failed(session), [session EXCEPT !.up = FALSE]} :
         s.txn = session.txn /\ s.saves = session.saves /\ (s.up => session.up)
  BY <1>1 DEF Failed, Sessions
<1>6. f \in Frames
  BY <1>1
<1> HIDE DEF f
<1>7. /\ frame'[t].reply = r /\ frame'[t].at = f.at /\ frame'[t].do = f.do
      /\ frame'[t].save = f.save /\ frame'[t].h = f.h /\ frame'[t].edge = f.edge
  BY <1>4, <1>6 DEF Frames
<1> QED BY <1>2, <1>3, <1>4, <1>5, <1>6, <1>7 DEF f

\* What a command does to the transaction status.
LEMMA AppliedTxn ==
  ASSUME session \in Sessions, NEW do, NEW n
  PROVE  LET s == Applied(session, do, n)
         IN /\ s.up = session.up
            /\ do \in {"commit", "rollback"} => s.txn = "none"
            /\ do \notin {"begin", "commit", "rollback"} => s.txn = session.txn
            /\ do = "begin" =>
                 s.txn = IF session.txn = "none" THEN "relq" ELSE session.txn
BY DEF Applied, Ended, Sessions

\* A reply of the server keeps the handles, and the operation in flight goes on
\* to construct one, to end the transaction or to recover.
LEMMA BlockReplies ==
  ASSUME NestInv, BlockInv, NEW t \in Task, Answer(t) \/ Cancel(t) \/ Lose(t)
  PROVE  BlockStep
<1> DEFINE f == frame[t]
           g == frame'[t]
<1>1. /\ f.reply = "waiting" /\ g.reply \in {"ok", "error"}
      /\ g.at = f.at /\ g.do = f.do /\ g.save = f.save /\ g.h = f.h
      /\ g.edge = f.edge
      /\ \A u \in Task \ {t} : frame'[u] = frame[u]
      /\ info' = info /\ open' = open
      /\ \/ session' = Applied(session, f.do, f.save)
         \/ /\ g.reply = "error"
            /\ session'.txn = session.txn
            /\ session'.up => session.up
  BY Replied DEF registry
<1>2. f.at # "idle" /\ session \in Sessions
  <2>1. Sends(t)
    BY DEF BlockInv
  <2> QED BY <1>1, <2>1 DEF Sends, NestInv, TypeOK
<1>3. /\ frame \in [Task -> Frames] /\ f \in Frames /\ Sends(t) /\ Status(t)
      /\ \A u \in Task \ {t} : /\ frame[u].at = "idle" /\ frame[u].do = "none"
                               /\ frame[u].reply = "none"
  BY <1>2, Alone
<1>4. /\ session'.up => session.up
      /\ f.do \in {"commit", "rollback"} => session'.txn = "none" \/ g.reply = "error"
      /\ f.do \notin {"begin", "commit", "rollback"} => session'.txn = session.txn
      /\ f.do = "begin" => session'.txn = "relq" \/ g.reply = "error"
      /\ f.do \in {"commit", "rollback"} => session'.txn \in {"none", session.txn}
  <2>1. CASE session' = Applied(session, f.do, f.save)
    <3>1. f.do = "begin" => session.txn = "none"
      BY <1>1, <1>3 DEF Status
    <3> QED BY <1>2, <2>1, <3>1, AppliedTxn
  <2> QED BY <1>1, <2>1
<1> HIDE DEF f, g
<1>5. Sends(t)'
  BY <1>1, <1>2, <1>3 DEF Sends, f, g
<1>6. Status(t)'
  <2>1. /\ g.do = "begin" => /\ g.save = NoSave /\ g.edge = None /\ open' = {}
                             /\ g.reply # "waiting"
                             /\ g.reply = "ok" => session'.txn = "relq"
    BY <1>1, <1>3, <1>4 DEF Status, f
  <2>2. g.do \in {"commit", "rollback"} /\ g.reply = "ok" => session'.txn = "none"
    BY <1>1, <1>4
  <2>3. g.at \in {"start", "undo", "undoRelease"} /\ g.do # "begin" => session'.txn # "none"
    BY <1>1, <1>3, <1>4 DEF Status, Sends, f
  <2> QED BY <2>1, <2>2, <2>3 DEF Status, g
<1>7. ASSUME NEW u \in Task PROVE Sends(u)' /\ Status(u)'
  <2>1. CASE u # t
    <3>1. /\ frame'[u].at = "idle" /\ frame'[u].do = "none"
          /\ frame'[u].reply = "none"
      BY <1>1, <1>3, <2>1
    <3> QED BY <3>1 DEF Sends, Status
  <2> QED BY <1>5, <1>6, <2>1
<1>8. OuterFirst'
  BY <1>1 DEF BlockInv, OuterFirst, Outer, IsTx
<1>9. Controls'
  <2>1. CASE f.do \in {"commit", "rollback"}
    BY <1>1, <2>1 DEF Controls, Ending, g
  <2>2. CASE f.do = "begin"
    BY <1>1, <1>3, <2>2 DEF Controls, Status, f
  <2>3. CASE f.do \notin {"begin", "commit", "rollback"}
    <3>1. ~Ending
      BY <1>3, <2>3 DEF Ending, f
    <3> QED BY <1>1, <1>4, <2>3, <3>1 DEF BlockInv, Controls, Outer, IsTx
  <2> QED BY <2>1, <2>2, <2>3
<1>10. ~Stranded /\ Stranded' => FALSE
  <2> SUFFICES ASSUME ~Stranded, Stranded' PROVE FALSE
    OBVIOUS
  <2>1. /\ session.up /\ session'.txn = "relq"
        /\ g.do # "begin" /\ g.at # "recover"
        /\ \A h \in open : ~IsTx(h) \/ info[h].save # NoSave
    BY <1>1, <1>4 DEF Stranded, IsTx, g
  <2>2. f.do # "begin" /\ f.at # "recover"
    BY <1>1, <2>1
  <2>3. session.txn = "relq"
    BY <1>1, <1>4, <2>1, <2>2
  <2> QED BY <1>3, <2>1, <2>2, <2>3 DEF Stranded, f
<1> QED BY <1>7, <1>8, <1>9, <1>10 DEF BlockInv, BlockStep

\* The caller opens and ends its own transaction while no handle is open.
LEMMA BlockOutside ==
  ASSUME NestInv, BlockInv, CallerBegins \/ CallerEnds \/ UNCHANGED vars
  PROVE  BlockStep
<1>1. CASE CallerBegins \/ CallerEnds
  <2>1. /\ open' = {} /\ frame' = frame /\ \A t \in Task : frame[t].at = "idle"
        /\ session'.txn # "relq"
    <3>1. session \in Sessions
      BY DEF NestInv, TypeOK
    <3>2. open' = {} /\ frame' = frame /\ \A t \in Task : frame[t].at = "idle"
      BY <1>1 DEF CallerBegins, CallerEnds, registry, Quiet
    <3>3. session'.txn # "relq"
      BY <1>1, <3>1 DEF CallerBegins, CallerEnds, Ended, Sessions
    <3> QED BY <3>2, <3>3
  <2>2. ASSUME NEW t \in Task PROVE Sends(t)' /\ Status(t)'
    <3>1. frame[t].do = "none" /\ frame[t].reply = "none"
      BY <2>1 DEF BlockInv, Sends
    <3> QED BY <2>1, <3>1 DEF Sends, Status
  <2>3. OuterFirst' /\ Controls' /\ ~Stranded'
    BY <2>1 DEF OuterFirst, Controls, Stranded
  <2> QED BY <2>2, <2>3 DEF BlockInv, BlockStep
<1>2. CASE UNCHANGED vars
  <2>1. UNCHANGED <<info, open, session, frame>>
    BY <1>2 DEF vars, registry, others
  <2>2. OuterFirst' /\ Controls'
    BY <2>1 DEF BlockInv, OuterFirst, Controls, Ending, Outer, IsTx
  <2>3. ASSUME NEW t \in Task PROVE Sends(t)' /\ Status(t)'
    <3>1. Sends(t) /\ Status(t)
      BY DEF BlockInv
    <3>2. Sends(t)'
      BY <2>1, <3>1 DEF Sends
    <3>3. Status(t)'
      BY <2>1, <3>1 DEF Status
    <3> QED BY <3>2, <3>3
  <2>4. Stranded' => Stranded
    BY <2>1 DEF Stranded, IsTx
  <2> QED BY <2>2, <2>3, <2>4 DEF BlockInv, BlockStep
<1> QED BY <1>1, <1>2

\* Every step keeps the invariant, and strands no transaction.
LEMMA BlockNext ==
  ASSUME Serial, NestInv, NestInv', BlockInv, [Next]_vars
  PROVE  BlockStep
BY BlockStarts, BlockContinues, BlockReplies, BlockOutside DEF Next

\* At first there are no handles and no operations.
LEMMA BlockInit == ASSUME Init PROVE BlockInv
<1>1. /\ open = {}
      /\ \A t \in Task : /\ frame[t].at = "idle" /\ frame[t].do = "none"
                         /\ frame[t].reply = "none"
  BY DEF Init, NoFrame
<1> QED BY <1>1 DEF BlockInv, OuterFirst, Controls, Sends, Status

\* With one operation at a time, for any callers, names, bounds and faults: no
\* failure, cancellation or lost connection leaves a transaction that relq
\* opened without a handle to end it.  Only the raw ROLLBACK of
\* _recover_connection, when it is itself interrupted, may leave one.
THEOREM StrandedOnlyByRecoveryCorrect ==
  ASSUME Serial PROVE Spec => StrandedOnlyByRecovery
<1> DEFINE Inv  == NestInv /\ BlockInv
           Kept == ~Stranded /\ Stranded' =>
                     \E t \in Task : frame[t].at = "recover" /\ frame[t].reply = "error"
<1>1. Init => Inv
  BY NestInit, BlockInit
<1>2. Inv /\ TypeOK' /\ [Next]_vars => Inv' /\ Kept
  <2> SUFFICES ASSUME Inv, TypeOK', [Next]_vars PROVE Inv' /\ Kept
    OBVIOUS
  <2>1. NestInv'
    BY NestNext DEF NestStep, NestInv
  <2>2. BlockStep
    BY <2>1, BlockNext
  <2> QED BY <2>1, <2>2 DEF BlockStep
<1>3. Spec => []TypeOK
  BY TypeCorrect
<1>4. Spec => [][Kept]_vars
  BY <1>1, <1>2, <1>3, PTL DEF Spec
<1> QED BY <1>4, PTL DEF StrandedOnlyByRecovery

-----------------------------------------------------------------------------
(* The savepoint stack of the server.                                      *)

\* The newest savepoint of a name has that name, and no later one has.
LEMMA NewestIs ==
  ASSUME NEW s \in Sessions, NEW n, Has(s, n)
  PROVE  /\ Newest(s, n) \in 1 .. Len(s.saves) /\ s.saves[Newest(s, n)] = n
         /\ \A j \in 1 .. Len(s.saves) : s.saves[j] = n => j <= Newest(s, n)
<1> DEFINE S == {i \in DOMAIN s.saves : s.saves[i] = n}
<1>1. DOMAIN s.saves = 1 .. Len(s.saves) /\ Len(s.saves) \in Nat
  BY DEF Sessions
<1>2. S # {} /\ S \in SUBSET (1 .. Len(s.saves))
  BY <1>1 DEF Has
<1>3. PICK m \in S : \A k \in S : k <= m
  BY <1>1, <1>2, MaxExists
<1>4. /\ m \in DOMAIN s.saves /\ s.saves[m] = n
      /\ \A j \in DOMAIN s.saves : s.saves[j] = n => j <= m
  BY <1>3
<1>5. /\ Newest(s, n) \in DOMAIN s.saves /\ s.saves[Newest(s, n)] = n
      /\ \A j \in DOMAIN s.saves : s.saves[j] = n => j <= Newest(s, n)
  BY <1>4 DEF Newest
<1> QED BY <1>1, <1>5

\* There is only one newest.
LEMMA NewestOne ==
  ASSUME NEW s \in Sessions, NEW n, NEW i \in 1 .. Len(s.saves), s.saves[i] = n,
         \A j \in 1 .. Len(s.saves) : s.saves[j] = n => j <= i
  PROVE  Has(s, n) /\ Newest(s, n) = i
<1>1. DOMAIN s.saves = 1 .. Len(s.saves) /\ Len(s.saves) \in Nat
  BY DEF Sessions
<1>2. Has(s, n)
  BY <1>1 DEF Has
<1>3. /\ Newest(s, n) \in 1 .. Len(s.saves) /\ s.saves[Newest(s, n)] = n
      /\ \A j \in 1 .. Len(s.saves) : s.saves[j] = n => j <= Newest(s, n)
  BY <1>2, NewestIs
<1>4. i <= Newest(s, n) /\ Newest(s, n) <= i
  BY <1>3
<1> QED BY <1>1, <1>2, <1>3, <1>4

\* Cutting the stack keeps the savepoints below the cut where they were.
LEMMA CutNewest ==
  ASSUME NEW s \in Sessions, NEW r \in Sessions, NEW k \in 0 .. Len(s.saves),
         r.saves = SubSeq(s.saves, 1, k), NEW n, Has(s, n), Newest(s, n) <= k
  PROVE  Has(r, n) /\ Newest(r, n) = Newest(s, n)
<1>1. s.saves \in Seq(Saves) /\ Len(s.saves) \in Nat
  BY DEF Sessions
<1>2. Len(r.saves) = k /\ \A j \in 1 .. k : r.saves[j] = s.saves[j]
  BY <1>1
<1>3. /\ Newest(s, n) \in 1 .. Len(s.saves) /\ s.saves[Newest(s, n)] = n
      /\ \A j \in 1 .. Len(s.saves) : s.saves[j] = n => j <= Newest(s, n)
  BY NewestIs
<1>4. /\ Newest(s, n) \in 1 .. Len(r.saves) /\ r.saves[Newest(s, n)] = n
      /\ \A j \in 1 .. Len(r.saves) : r.saves[j] = n => j <= Newest(s, n)
  BY <1>2, <1>3
<1> QED BY <1>4, NewestOne

\* A new savepoint hides only those of its own name.
LEMMA PushNewest ==
  ASSUME NEW s \in Sessions, NEW r \in Sessions, NEW m,
         r.saves = Append(s.saves, m)
  PROVE  /\ Has(r, m) /\ Newest(r, m) = Len(s.saves) + 1
         /\ \A n : n # m /\ Has(s, n) => Has(r, n) /\ Newest(r, n) = Newest(s, n)
<1>1. s.saves \in Seq(Saves) /\ Len(s.saves) \in Nat
  BY DEF Sessions
<1>2. /\ Len(r.saves) = Len(s.saves) + 1 /\ r.saves[Len(s.saves) + 1] = m
      /\ \A j \in 1 .. Len(s.saves) : r.saves[j] = s.saves[j]
  BY <1>1
<1>3. Has(r, m) /\ Newest(r, m) = Len(s.saves) + 1
  <2>1. /\ Len(s.saves) + 1 \in 1 .. Len(r.saves)
        /\ \A j \in 1 .. Len(r.saves) : j <= Len(s.saves) + 1
    BY <1>1, <1>2
  <2>2. PICK i : i = Len(s.saves) + 1
    OBVIOUS
  <2>3. /\ i \in 1 .. Len(r.saves) /\ r.saves[i] = m
        /\ \A j \in 1 .. Len(r.saves) : r.saves[j] = m => j <= i
    BY <1>2, <2>1, <2>2
  <2>4. Has(r, m) /\ Newest(r, m) = i
    BY <2>3, NewestOne
  <2> QED BY <2>2, <2>4
<1>4. ASSUME NEW n, n # m, Has(s, n)
      PROVE  Has(r, n) /\ Newest(r, n) = Newest(s, n)
  <2>1. /\ Newest(s, n) \in 1 .. Len(s.saves) /\ s.saves[Newest(s, n)] = n
        /\ \A j \in 1 .. Len(s.saves) : s.saves[j] = n => j <= Newest(s, n)
    BY <1>4, NewestIs
  <2>2. /\ Newest(s, n) \in 1 .. Len(r.saves) /\ r.saves[Newest(s, n)] = n
        /\ \A j \in 1 .. Len(r.saves) : r.saves[j] = n => j <= Newest(s, n)
    BY <1>1, <1>2, <1>4, <2>1
  <2> QED BY <2>2, NewestOne
<1> QED BY <1>3, <1>4

-----------------------------------------------------------------------------
(* What the open handles control.                                          *)

\* The reply to a command tells its task that h is gone, or may be: the task
\* closes h before it gives up the loop again.
Doomed(h) ==
  \E t \in Task :
    LET f == frame[t]
    IN /\ f.reply # "waiting"
       /\ \/ f.at \in {"commit", "rollbackRelease", "spRelease"} /\ h >= f.h
          \/ f.at = "rollback" /\ f.do = "rollback" /\ h >= f.h
          \/ f.at = "spRollback" /\ h > f.h

\* The open handles that control a savepoint.
Kept == {h \in open : info[h].save # NoSave /\ ~Doomed(h)}

\* The server has the savepoints of these handles, in the order of the handles.
Mirrored ==
  \A h \in Kept :
    /\ Has(session, info[h].save)
    /\ \A g \in Kept :
         g < h => Newest(session, info[g].save) < Newest(session, info[h].save)

\* Undoing or releasing n leaves the savepoint of every other handle alone.
Above(n) ==
  Has(session, n) =>
    \A h \in open : info[h].save \notin {NoSave, n} =>
                      Newest(session, info[h].save) < Newest(session, n)

Unused(n) == n # NoSave /\ \A h \in open : info[h].save # n

\* A generated name is on the server's stack at most once, and was drawn.
NameInv ==
  /\ \A i \in DOMAIN session.saves : session.saves[i] \in Name \union (1 .. minted)
  /\ \A i, j \in DOMAIN session.saves :
       session.saves[i] \notin Name /\ session.saves[i] = session.saves[j] => i = j
  /\ \A h \in open : info[h].save \in IF IsTx(h) THEN 0 .. minted ELSE Name

\* What a running operation knows of the savepoint it works on.
FrameLive(t) ==
  LET f == frame[t]
  IN /\ f.at = "start" /\ f.do = "savepoint" =>
          f.save \in 1 .. minted /\ (f.reply = "waiting" => ~Has(session, f.save))
     /\ f.at = "savepoint" => f.save \in Name
     /\ f.at \in {"undo", "undoRelease", "savepoint", "drop", "recoverTo",
                  "recoverRelease"} => Unused(f.save)
     /\ f.do = "savepoint" => Unused(f.save)
     /\ f.do = "savepoint" /\ f.reply = "ok" => Has(session, f.save) /\ Above(f.save)
     /\ f.at \in {"undo", "recoverTo"} => Above(f.save)
     /\ f.at \in {"undoRelease", "drop", "recoverRelease"} /\ f.reply = "waiting" =>
          Above(f.save)
     /\ f.at \in {"commit", "rollback", "rollbackRelease"} /\ f.save # NoSave =>
          Above(f.save)
     /\ f.at \in {"commit", "rollback", "rollbackRelease", "spRelease", "spRollback"} =>
          f.save = info[f.h].save

LiveInv == NameInv /\ Mirrored /\ \A t \in Task : FrameLive(t)

\* Everything the steps rely on.
HandleInv == NestInv /\ NamesInv /\ BlockInv /\ LiveInv

\* Only the running operation dooms handles: those it is completing, or those
\* inside the savepoint it went back to.
LEMMA DoomedBy ==
  ASSUME NEW t \in Task, \A u \in Task \ {t} : frame[u].at = "idle", NEW h
  PROVE  LET f == frame[t]
         IN Doomed(h) <=>
              /\ f.reply # "waiting"
              /\ \/ f.at \in {"commit", "rollbackRelease", "spRelease"} /\ h >= f.h
                 \/ f.at = "rollback" /\ f.do = "rollback" /\ h >= f.h
                 \/ f.at = "spRollback" /\ h > f.h
BY DEF Doomed

\* A step that does not reach the server and constructs nothing: it has closed
\* whatever was doomed.
LEMMA LiveGoes ==
  ASSUME HandleInv, NEW t \in Task,
         \A u \in Task \ {t} : /\ frame'[u] = frame[u] /\ frame[u].at = "idle"
                               /\ frame[u].do = "none" /\ frame[u].reply = "none",
         info' = info, session' = session, open' \subseteq open,
         minted' \in {minted, minted + 1},
         frame'[t].at = "idle" \/ frame'[t].reply = "waiting",
         \A h \in open' : ~Doomed(h), FrameLive(t)'
  PROVE  LiveInv'
<1>1. \A h : ~Doomed(h)'
  <2>1. \A u \in Task : frame'[u].at = "idle" \/ frame'[u].reply = "waiting"
    OBVIOUS
  <2> QED BY <2>1 DEF Doomed
<1>2. Mirrored'
  <2>1. Kept' \subseteq Kept
    BY <1>1 DEF Kept
  <2> QED BY <2>1 DEF HandleInv, LiveInv, Mirrored
<1>3. NameInv'
  <2>1. 1 .. minted \subseteq 1 .. minted' /\ 0 .. minted \subseteq 0 .. minted'
    <3>1. minted \in Nat
      BY TypeParts DEF HandleInv, NestInv, RegistryOK
    <3> QED BY <3>1
  <2>2. \A h \in open' : info'[h].save \in IF IsTx(h)' THEN 0 .. minted' ELSE Name
    BY <2>1 DEF HandleInv, LiveInv, NameInv, IsTx
  <2> QED BY <2>1, <2>2 DEF HandleInv, LiveInv, NameInv
<1>4. ASSUME NEW u \in Task PROVE FrameLive(u)'
  <2>1. CASE u # t
    <3>1. frame'[u].at = "idle" /\ frame'[u].do = "none"
      BY <2>1
    <3> QED BY <3>1 DEF FrameLive
  <2> QED BY <2>1
<1> QED BY <1>2, <1>3, <1>4 DEF LiveInv

\* An idle task knows of no savepoint.
LEMMA LiveIdle ==
  ASSUME NEW t \in Task, frame'[t].at = "idle", frame'[t].do = "none"
  PROVE  FrameLive(t)'
BY DEF FrameLive

\* When nothing is open any more there is nothing to mirror.
LEMMA LiveFresh ==
  ASSUME HandleInv, NEW t \in Task, frame[t].at # "idle",
         session' = Fresh, open' = {}, Return(t)
  PROVE  LiveInv'
<1>1. /\ frame \in [Task -> Frames]
      /\ \A u \in Task \ {t} : frame[u].at = "idle" /\ frame[u].do = "none"
  BY Alone DEF HandleInv
<1>2. \A u \in Task : frame'[u].at = "idle" /\ frame'[u].do = "none"
  BY <1>1, Done
<1>3. \A u \in Task : FrameLive(u)'
  BY <1>2 DEF FrameLive
<1>4. NameInv' /\ Mirrored'
  BY DEF NameInv, Mirrored, Kept, Fresh
<1> QED BY <1>3, <1>4 DEF LiveInv

\* The end of an operation that has closed what was doomed.
LEMMA LiveReturn ==
  ASSUME HandleInv, NEW t \in Task, frame[t].at # "idle", Return(t),
         info' = info, session' = session, open' \subseteq open, minted' = minted,
         \A h \in open' : ~Doomed(h)
  PROVE  LiveInv'
<1>1. /\ frame \in [Task -> Frames]
      /\ \A u \in Task \ {t} : /\ frame[u].at = "idle" /\ frame[u].do = "none"
                               /\ frame[u].reply = "none"
  BY Alone DEF HandleInv
<1>2. /\ frame'[t].at = "idle" /\ frame'[t].do = "none"
      /\ \A u \in Task \ {t} : frame'[u] = frame[u]
  BY <1>1, Done
<1> QED BY <1>1, <1>2, LiveIdle, LiveGoes

\* Below the boundary of a recovery nothing is doomed, and its savepoint is
\* above theirs.
LEMMA LiveRecover ==
  ASSUME HandleInv, NestInv', NEW t \in Task, frame[t].at # "idle",
         session' = session, minted' = minted,
         NEW edge \in open \union {None}, NEW extra, NEW owns, NEW also,
         Recover(t, frame[t], edge, extra, owns, also),
         extra # {} \/ \A h \in open : ~Doomed(h),
         Nested(edge) => \A h \in open : h < edge =>
           /\ ~Doomed(h)
           /\ Has(session, info[edge].save) /\ info[h].save # NoSave =>
                Newest(session, info[h].save) < Newest(session, info[edge].save)
  PROVE  LiveInv'
<1> DEFINE f == frame[t]
<1>1. /\ frame \in [Task -> Frames] /\ f \in Frames
      /\ \A u \in Task \ {t} : /\ frame[u].at = "idle" /\ frame[u].do = "none"
                               /\ frame[u].reply = "none"
  BY Alone DEF HandleInv
<1>2. edge \in Nat
  BY OpenType DEF HandleInv, NestInv, None
<1> HIDE DEF f
<1>3. CASE Return(t) /\ UNCHANGED registry /\ Snapshot(extra) = {} /\ ~owns
  <2>1. \A h \in open : ~Doomed(h)
    BY <1>3 DEF Snapshot
  <2> QED BY <1>3, <2>1, LiveReturn DEF registry
<1>4. CASE /\ Nested(edge)
           /\ RecoverBoundary(t, frame[t], edge, After(edge) \union {edge} \union also)
  <2> DEFINE S == After(edge) \union {edge} \union also
             g == [f EXCEPT !.edge = edge]
             at == "recoverTo"
             do == "rollback to"
  <2>0. PICK save : save = info[edge].save
    OBVIOUS
  <2>1. Shut(S, {}) /\ Await(t, g, at, do, save)
    BY <1>4, <2>0 DEF RecoverBoundary, f
  <2>2. g \in Frames
    BY <1>1, <1>2 DEF Frames
  <2>3. edge \in open /\ save # NoSave
    BY <1>4, <2>0 DEF Nested
  <2>4. open' \subseteq open /\ info' = info /\ \A h \in open' : h < edge
    <3>1. open' = open \ Fall(S) /\ info' = info
      BY <2>1 DEF Shut
    <3>2. \A h \in open' : h # edge /\ ~(h > edge)
      BY <2>3, <3>1, AfterLater DEF Fall, HandleInv, NestInv
    <3>3. open \subseteq Nat
      BY OpenType DEF HandleInv, NestInv
    <3>4. ASSUME NEW h \in open' PROVE h < edge
      <4>1. h \in Nat /\ h # edge /\ ~(h > edge)
        BY <3>1, <3>2, <3>3
      <4> QED BY ONLY <1>2, <4>1
    <3> QED BY <3>1, <3>4
  <2>5. \A h \in open' : ~Doomed(h)
    BY <1>4, <2>4
  <2> HIDE DEF g, at, do, S
  <2>6. /\ frame'[t].at = at /\ frame'[t].do = do /\ frame'[t].reply = "waiting"
        /\ frame'[t].save = save
        /\ \A u \in Task \ {t} : frame'[u] = frame[u]
    BY <1>1, <2>1, <2>2, Sent
  <2>7. \A h \in open' : h \in open /\ h # edge /\ info'[h].save = info[h].save
    BY <1>2, <2>4, OpenType DEF HandleInv, NestInv
  <2>8. Unused(save)'
    BY <2>0, <2>3, <2>7 DEF HandleInv, NamesInv, Unused
  <2>9. Above(save)'
    BY <1>4, <2>0, <2>4 DEF Above
  <2>10. FrameLive(t)'
    BY <2>6, <2>8, <2>9 DEF FrameLive, at, do
  <2> QED BY <1>1, <2>4, <2>5, <2>6, <2>10, LiveGoes DEF at
<1>5. CASE ~Nested(edge) /\ RecoverAll(t, f, Snapshot(extra), also)
  <2>1. Await(t, f, "recover", "rollback", NoSave) /\ open' \subseteq open /\ info' = info
    BY <1>5 DEF RecoverAll, Shut
  <2>2. /\ frame'[t].at = "recover" /\ frame'[t].do = "rollback"
        /\ frame'[t].reply = "waiting"
        /\ \A u \in Task \ {t} : frame'[u] = frame[u]
    BY <1>1, <2>1, Sent
  <2>3. open' = {} /\ FrameLive(t)'
    BY <2>2 DEF NestInv, FrameInv, FrameLive
  <2> QED BY <1>1, <2>1, <2>2, <2>3, LiveGoes
<1> QED BY <1>3, <1>4, <1>5 DEF Recover, f

\* What is above the handles stays above those that are left.
LEMMA AboveStays ==
  ASSUME NEW n, session' = session, info' = info, open' \subseteq open
  PROVE  /\ Above(n) => Above(n)'
         /\ Unused(n) => Unused(n)'
BY DEF Above, Unused

\* While nothing is doomed, the savepoint of a handle is above the others that
\* were opened before it.
LEMMA AboveKept ==
  ASSUME LiveInv, NEW h \in Kept, NEW g \in open, g < h, ~Doomed(g),
         info[g].save # NoSave
  PROVE  Newest(session, info[g].save) < Newest(session, info[h].save)
BY DEF LiveInv, Mirrored, Kept

\* Starting an operation: a generated name is new to the server, and a name
\* that a caller gives is new to the registry.
LEMMA LiveStarts ==
  ASSUME Serial, Name \cap (1 .. MaxBegins) = {}, HandleInv, TypeOK', NEW t \in Task, Starts(t)
  PROVE  LiveInv'
<1>1. /\ \A u \in Task : /\ frame[u].at = "idle" /\ frame[u].do = "none"
                         /\ frame[u].reply = "none"
      /\ frame \in [Task -> Frames] /\ Ready(t)
  <2>1. Ready(t)
    BY DEF Starts, Begin, Commit, Rollback, Finish, Savepoint, SpRelease,
           SpRollback, SpCall, Query
  <2> QED BY <2>1, Idle DEF HandleInv
<1>0. \A h : ~Doomed(h)
  BY <1>1 DEF Doomed
<1>2. ASSUME NEW h \in open \union {None}, Begin(t, h)
      PROVE  LiveInv'
  <2> DEFINE inside   == session.txn # "none"
             fromPool == Pool /\ h = None /\ ~leased
             reg      == IF h # None THEN info[h].reg
                         ELSE IF current # None /\ ~fromPool THEN current
                         ELSE regs + 1
             edge     == IF inside /\ Stack(reg) # {} THEN Top(reg) ELSE None
             f        == [NoFrame EXCEPT !.h = h, !.reg = reg,
                                         !.pool = fromPool, !.edge = edge]
             do       == IF inside THEN "savepoint" ELSE "begin"
  <2>0. PICK save : save = IF inside THEN minted + 1 ELSE NoSave
    OBVIOUS
  <2>1. /\ Await(t, f, "start", do, save) /\ UNCHANGED <<info, open, session>>
        /\ minted' = IF inside THEN minted + 1 ELSE minted
    BY <1>2, <2>0 DEF Begin
  <2>2. minted \in Nat /\ minted' \in 0 .. MaxBegins
    BY DEF HandleInv, NestInv, TypeOK
  <2>3. ASSUME inside
        PROVE  save \in 1 .. minted' /\ ~Has(session, save) /\ Unused(save)
    <3>1. save = minted + 1 /\ minted' = minted + 1
      BY <2>0, <2>1, <2>3
    <3>2. save \in 1 .. MaxBegins /\ save \notin Name /\ save \notin 0 .. minted
      BY <2>2, <3>1
    <3>3. save # NoSave
      BY <2>2, <3>1 DEF NoSave
    <3>4. 1 .. minted \subseteq 0 .. minted
      BY <2>2
    <3> QED BY <2>2, <3>1, <3>2, <3>3, <3>4
            DEF HandleInv, LiveInv, NameInv, Has, Unused
  <2> HIDE DEF edge, reg, fromPool
  <2>4. /\ frame'[t].at = "start" /\ frame'[t].do = do /\ frame'[t].save = save
        /\ frame'[t].reply = "waiting"
        /\ \A u \in Task \ {t} : frame'[u] = frame[u]
    <3> HIDE DEF do
    <3> QED BY <1>1, <2>1 DEF Await, f, NoFrame
  <2>5. FrameLive(t)'
    BY <2>1, <2>3, <2>4, AboveStays DEF FrameLive
  <2> QED BY <1>0, <1>1, <2>1, <2>4, <2>5, LiveGoes
<1>3. ASSUME NEW h \in open, Commit(t, h) \/ Rollback(t, h)
      PROVE  LiveInv'
  <2> DEFINE f == [NoFrame EXCEPT !.h = h, !.reg = info[h].reg, !.edge = h]
  <2>0. PICK save : save = info[h].save
    OBVIOUS
  <2>1. PICK at \in {"commit", "rollback"}, do \in Verbs \ {"savepoint"} :
          Finish(t, h, at, do)
    BY <1>3 DEF Commit, Rollback, Verbs
  <2>2. /\ Shut(After(h), {}) /\ Await(t, f, at, do, save) /\ f \in Frames
        /\ session' = session /\ minted' = minted /\ f.h = h
    BY <2>0, <2>1, CallFrames DEF Finish, Shut, others, NoFrame, HandleInv
  <2>3. open' = {e \in open : e <= h} /\ info' = info
    BY <2>2, ShutAfter DEF HandleInv, NestInv
  <2> HIDE DEF f
  <2>4. /\ frame'[t].at = at /\ frame'[t].do = do /\ frame'[t].reply = "waiting"
        /\ frame'[t].h = h /\ frame'[t].save = save
        /\ \A u \in Task \ {t} : frame'[u] = frame[u]
    BY <1>1, <2>2, Sent
  <2>5. ASSUME save # NoSave PROVE Above(save)'
    <3>1. h \in Kept
      BY <1>0, <2>0, <2>5 DEF Kept
    <3>2. ASSUME NEW g \in open', info[g].save \notin {NoSave, save}
          PROVE  Newest(session, info[g].save) < Newest(session, save)
      <4>1. g \in open /\ g < h
        <5>1. g \in open /\ g <= h /\ g # h /\ g \in Nat /\ h \in Nat
          BY <2>0, <2>3, <3>2, OpenType DEF HandleInv, NestInv
        <5> QED BY <5>1
      <4> QED BY <1>0, <2>0, <3>1, <3>2, <4>1, AboveKept DEF HandleInv
    <3> QED BY <2>2, <2>3, <3>2 DEF Above
  <2>6. FrameLive(t)'
    BY <2>0, <2>1, <2>3, <2>4, <2>5 DEF FrameLive
  <2> QED BY <1>0, <1>1, <2>2, <2>3, <2>4, <2>6, LiveGoes
<1>4. ASSUME NEW h \in open, SpRelease(t, h) \/ SpRollback(t, h)
      PROVE  LiveInv'
  <2> DEFINE f == [NoFrame EXCEPT !.h = h, !.reg = info[h].reg,
                                  !.edge = info[h].owner]
  <2>1. PICK at \in {"spRelease", "spRollback"}, do \in Verbs \ {"savepoint"} :
               SpCall(t, h, at, do)
    BY <1>4 DEF SpRelease, SpRollback, Verbs
  <2>2. /\ Await(t, f, at, do, info[h].save) /\ f \in Frames /\ f.h = h
        /\ UNCHANGED <<info, open, session, minted>>
    BY <2>1, CallFrames DEF SpCall, registry, others, HandleInv, NoFrame
  <2> HIDE DEF f
  <2>3. /\ frame'[t].at = at /\ frame'[t].do = do /\ frame'[t].reply = "waiting"
        /\ frame'[t].h = h /\ frame'[t].save = info[h].save
        /\ \A u \in Task \ {t} : frame'[u] = frame[u]
    BY <1>1, <2>2, Sent
  <2>4. FrameLive(t)'
    BY <2>1, <2>2, <2>3 DEF FrameLive
  <2> QED BY <1>0, <1>1, <2>2, <2>3, <2>4, LiveGoes
<1>5. ASSUME NEW h \in open, Query(t, h)
      PROVE  LiveInv'
  <2> DEFINE f == [NoFrame EXCEPT !.h = h, !.reg = info[h].reg]
  <2>1. /\ Await(t, f, "query", "query", NoSave) /\ f \in Frames
        /\ UNCHANGED <<info, open, session, minted>>
    BY <1>5, CallFrames DEF Query, registry, others, HandleInv
  <2> HIDE DEF f
  <2>2. /\ frame'[t].at = "query" /\ frame'[t].do = "query"
        /\ frame'[t].reply = "waiting"
        /\ \A u \in Task \ {t} : frame'[u] = frame[u]
    BY <1>1, <2>1, Sent
  <2>3. FrameLive(t)'
    BY <2>2 DEF FrameLive
  <2> QED BY <1>0, <1>1, <2>1, <2>2, <2>3, LiveGoes
<1>6. ASSUME NEW h \in open, NEW n \in Name, Savepoint(t, h, n)
      PROVE  LiveInv'
  <2> DEFINE f == [NoFrame EXCEPT !.h = h, !.reg = info[h].reg]
  <2>1. /\ Await(t, f, "savepoint", "savepoint", n) /\ f \in Frames
        /\ UNCHANGED <<info, open, session, minted>>
    BY <1>6, CallFrames DEF Savepoint, others, HandleInv
  <2>2. Unused(n)
    <3>1. n # NoSave
      BY ConstantsAssumption DEF ConstantsAssumption, NoSave
    <3>2. ASSUME NEW g \in open, info[g].save = n PROVE FALSE
      <4>1. info[g].reg = info[h].reg
        BY DEF HandleInv, NestInv, WellNested
      <4>2. <<info[h].reg, n>> \in Taken
        BY <3>1, <3>2, <4>1 DEF Taken, NamesOf
      <4> QED BY <1>6, <4>2 DEF Savepoint, Reserved, HandleInv, NamesInv
    <3> QED BY <3>1, <3>2 DEF Unused
  <2> HIDE DEF f
  <2>3. /\ frame'[t].at = "savepoint" /\ frame'[t].do = "savepoint"
        /\ frame'[t].reply = "waiting" /\ frame'[t].save = n
        /\ \A u \in Task \ {t} : frame'[u] = frame[u]
    BY <1>1, <2>1, Sent
  <2>4. FrameLive(t)'
    BY <2>1, <2>2, <2>3, AboveStays DEF FrameLive
  <2> QED BY <1>0, <1>1, <2>1, <2>3, <2>4, LiveGoes
<1> QED BY <1>2, <1>3, <1>4, <1>5, <1>6 DEF Starts

\* Operations that end, or send their next command, with every handle open.
LEMMA LiveEnds ==
  ASSUME HandleInv, NEW t \in Task,
         \/ RecoverTo(t) \/ RecoverToEnds(t) \/ Undone(t) \/ Rolled(t)
         \/ SavepointInterrupted(t) \/ SavepointFailed(t) \/ Dropped(t) \/ QueryEnds(t)
  PROVE  LiveInv'
<1> DEFINE f == frame[t]
<1>1. f.at # "idle" /\ UNCHANGED <<info, open, session, minted>>
  BY DEF RecoverTo, RecoverToEnds, Undone, Rolled, SavepointInterrupted,
     SavepointFailed, Dropped, QueryEnds, Resumes, registry, others
<1>2. /\ frame \in [Task -> Frames] /\ f \in Frames /\ Sends(t) /\ FrameLive(t)
      /\ \A u \in Task \ {t} : /\ frame[u].at = "idle" /\ frame[u].do = "none"
                               /\ frame[u].reply = "none"
  BY <1>1, Alone DEF HandleInv, LiveInv
<1>3. \A h : ~Doomed(h)
  <2>1. \/ f.at \notin {"commit", "rollback", "rollbackRelease", "spRelease", "spRollback"}
        \/ f.at = "rollback" /\ f.do = "rollback to"
    BY DEF RecoverTo, RecoverToEnds, Undone, Rolled, SavepointInterrupted,
       SavepointFailed, Dropped, QueryEnds, Resumes
  <2> QED BY <1>2, <2>1, DoomedBy
<1>4. CASE RecoverToEnds(t) \/ SavepointFailed(t) \/ Dropped(t) \/ QueryEnds(t)
  <2>1. Return(t)
    BY <1>4 DEF RecoverToEnds, SavepointFailed, Dropped, QueryEnds
  <2> QED BY <1>1, <1>3, <2>1, LiveReturn
<1>5. CASE RecoverTo(t) \/ Undone(t) \/ Rolled(t) \/ SavepointInterrupted(t)
  <2>0. PICK save : save = f.save
    OBVIOUS
  <2>1. PICK at \in {"recoverRelease", "undoRelease", "rollbackRelease", "drop"} :
          /\ Await(t, f, at, "release", save)
          /\ at # "rollbackRelease" => Above(save) /\ Unused(save)
          /\ at = "rollbackRelease" => /\ save = info[f.h].save
                                       /\ save # NoSave => Above(save)
    <3>1. CASE RecoverTo(t) \/ Undone(t)
      BY <1>2, <2>0, <3>1 DEF RecoverTo, Undone, Resumes, FrameLive
    <3>2. CASE SavepointInterrupted(t)
      BY <1>2, <2>0, <3>2 DEF SavepointInterrupted, Resumes, FrameLive, Sends
    <3>3. CASE Rolled(t)
      BY <1>2, <2>0, <3>3 DEF Rolled, Resumes, FrameLive
    <3> QED BY <1>5, <3>1, <3>2, <3>3
  <2> HIDE DEF f
  <2>2. /\ frame'[t].at = at /\ frame'[t].do = "release" /\ frame'[t].h = f.h
        /\ frame'[t].reply = "waiting" /\ frame'[t].save = save
        /\ \A u \in Task \ {t} : frame'[u] = frame[u]
    BY <1>2, <2>1, Sent
  <2>3. Above(save) => Above(save)'
    BY <1>1, AboveStays
  <2>4. Unused(save) => Unused(save)'
    BY <1>1, AboveStays
  <2>5. FrameLive(t)'
    BY <1>1, <2>1, <2>2, <2>3, <2>4 DEF FrameLive
  <2> QED BY <1>1, <1>2, <1>3, <2>2, <2>5, LiveGoes
<1> QED BY <1>4, <1>5

\* A new handle controls the newest savepoint, or the whole transaction.
LEMMA LiveConstruct ==
  ASSUME HandleInv, NEW t \in Task, BeginOk(t) \/ SavepointOk(t)
  PROVE  LiveInv'
<1> DEFINE f == frame[t]
<1>0. PICK new \in Nat : new = made + 1
  BY OpenType DEF HandleInv, NestInv
<1>1. /\ f.at \in {"start", "savepoint"} /\ f.reply = "ok" /\ Return(t)
      /\ session' = session /\ minted' = minted
  BY DEF BeginOk, SavepointOk, Resumes
<1>2. /\ frame \in [Task -> Frames] /\ f \in Frames /\ Sends(t) /\ Status(t) /\ FrameLive(t)
      /\ \A u \in Task \ {t} : /\ frame[u].at = "idle" /\ frame[u].do = "none"
                               /\ frame[u].reply = "none"
  BY <1>1, Alone DEF HandleInv, LiveInv
<1>3. PICK save : save = f.save
  OBVIOUS
<1>4. PICK r \in Records :
         /\ info' = Append(info, r) /\ open' = open \union {new} /\ r.save = save
         /\ save \in IF r.kind = "tx" THEN 0 .. minted ELSE Name
  <2>1. CASE BeginOk(t)
    <3>1. [kind |-> "tx", owner |-> None, save |-> f.save, reg |-> f.reg] \in Records
      BY <1>2 DEF Records, Frames, Kinds, None
    <3>2. f.at = "start" /\ minted \in Nat
      BY <2>1, TypeParts DEF BeginOk, Resumes, HandleInv, NestInv, RegistryOK
    <3>3. f.save \in 0 .. minted
      BY <1>2, <3>2 DEF Sends, Status, FrameLive, NoSave
    <3> QED BY <1>0, <1>3, <2>1, <3>1, <3>3 DEF BeginOk, Construct
  <2>2. CASE SavepointOk(t)
    <3>1. [kind |-> "sp", owner |-> f.h, save |-> f.save, reg |-> f.reg] \in Records
      BY <1>2 DEF Records, Frames, Kinds
    <3>2. f.save \in Name
      BY <1>2, <2>2 DEF SavepointOk, Resumes, FrameLive
    <3> QED BY <1>0, <1>3, <2>2, <3>1, <3>2 DEF SavepointOk, Construct
  <2> QED BY <2>1, <2>2
<1>5. /\ info \in Seq(Records) /\ made \in Nat /\ open \subseteq 1 .. made
      /\ made = Len(info)
  BY TypeParts, OpenType DEF HandleInv, NestInv, RegistryOK, made
<1>6. /\ \A h \in open : info'[h] = info[h] /\ h < new /\ h \in Nat
      /\ info'[new] = r /\ new \notin open
  BY <1>0, <1>4, <1>5
<1>7. save # NoSave => Has(session, save) /\ Above(save) /\ Unused(save)
  BY <1>1, <1>2, <1>3 DEF Sends, Status, FrameLive
<1>8. /\ frame'[t].at = "idle" /\ frame'[t].do = "none" /\ frame'[t].reply = "none"
      /\ \A u \in Task \ {t} : frame'[u] = frame[u]
  BY <1>1, <1>2, Done
<1> HIDE DEF f
<1>9. \A u \in Task : frame'[u].at = "idle" /\ frame'[u].do = "none"
  BY <1>2, <1>8
<1>10. /\ \A h : ~Doomed(h)'
       /\ \A u \in Task : FrameLive(u)'
  BY <1>9 DEF Doomed, FrameLive
<1>11. \A h : ~Doomed(h)
  BY <1>1, <1>2, DoomedBy DEF f
<1>12. NameInv'
  <2>1. \A h \in open' : info'[h].save \in IF IsTx(h)' THEN 0 .. minted' ELSE Name
    BY <1>1, <1>4, <1>6 DEF HandleInv, LiveInv, NameInv, IsTx
  <2> QED BY <1>1, <2>1 DEF HandleInv, LiveInv, NameInv
<1>13. Mirrored'
  <2> SUFFICES ASSUME NEW h \in Kept'
               PROVE  /\ Has(session, info'[h].save)
                      /\ \A g \in Kept' : g < h =>
                           Newest(session, info'[g].save) < Newest(session, info'[h].save)
    BY <1>1 DEF Mirrored
  <2>1. h \in open' /\ info'[h].save # NoSave
    BY DEF Kept
  <2>2. \A g \in Kept' : g # new => g \in Kept /\ info'[g] = info[g] /\ g < new
    BY <1>4, <1>6, <1>11 DEF Kept
  <2>3. CASE h # new
    <3>0. h \in open /\ h < new /\ h \in Nat
      BY <1>4, <1>6, <2>1, <2>3
    <3>1. \A g \in Kept' : g < h => g # new
      BY <1>0, <3>0
    <3> QED BY <2>2, <2>3, <3>1 DEF HandleInv, LiveInv, Mirrored
  <2>4. CASE h = new
    <3>1. info'[h].save = save /\ save # NoSave
      BY <1>4, <1>6, <2>1, <2>4
    <3>2. ASSUME NEW g \in Kept', g < h
          PROVE  Newest(session, info'[g].save) < Newest(session, save)
      <4>1. g \in Kept /\ info'[g] = info[g]
        BY <2>2, <2>4, <3>2
      <4>2. g \in open /\ info[g].save \notin {NoSave, save}
        BY <1>7, <3>1, <4>1 DEF Kept, Unused
      <4> QED BY <1>7, <3>1, <4>1, <4>2 DEF Above
    <3> QED BY <1>7, <3>1, <3>2
  <2> QED BY <2>3, <2>4
<1> QED BY <1>10, <1>12, <1>13 DEF LiveInv

\* begin() that fails or is interrupted goes back to the newest transaction
\* handle, which nothing has doomed.
LEMMA LiveBegins ==
  ASSUME HandleInv, NestInv', NEW t \in Task,
         BeginInterrupted(t) \/ BeginFailed(t) \/ UndoEnds(t)
  PROVE  LiveInv'
<1> DEFINE f == frame[t]
<1>1. f.at \in {"start", "undo", "undoRelease"}
  BY DEF BeginInterrupted, BeginFailed, UndoEnds, Resumes
<1>2. /\ frame \in [Task -> Frames] /\ f \in Frames /\ FrameInv(t) /\ Sends(t)
      /\ Status(t) /\ FrameLive(t)
      /\ \A u \in Task \ {t} : /\ frame[u].at = "idle" /\ frame[u].do = "none"
                               /\ frame[u].reply = "none"
  BY <1>1, Alone DEF HandleInv, LiveInv
<1>3. f.edge \in open \union {None} /\ (f.pool => open = {})
  BY <1>1, <1>2 DEF FrameInv
<1>4. \A h : ~Doomed(h)
  BY <1>1, <1>2, DoomedBy
<1>5. ASSUME NEW edge \in {f.edge, None}, NEW owns,
             Recover(t, f, edge, {}, owns, {}), session' = session
      PROVE  LiveInv'
  <2>1. edge \in open \union {None}
    BY <1>3
  <2>2. ASSUME Nested(edge), NEW h \in open, h < edge, info[h].save # NoSave
        PROVE  Newest(session, info[h].save) < Newest(session, info[edge].save)
    <3>1. edge \in Kept
      BY <1>4, <2>1, <2>2 DEF Nested, Kept
    <3> QED BY <1>4, <2>2, <3>1, AboveKept DEF HandleInv
  <2> DEFINE none == {}
  <2>3. Recover(t, frame[t], edge, none, owns, none)
    BY <1>5
  <2>4. minted' = minted
    BY <2>3 DEF Recover, RecoverBoundary, RecoverAll, Shut, registry
  <2> HIDE DEF none
  <2> QED BY <1>1, <1>4, <1>5, <2>1, <2>2, <2>3, <2>4, LiveRecover
<1>6. CASE BeginInterrupted(t) /\ f.save = NoSave
  BY <1>5, <1>6 DEF BeginInterrupted
<1>7. CASE BeginInterrupted(t) /\ f.save # NoSave
  <2>0. PICK save : save = f.save
    OBVIOUS
  <2> DEFINE at == "undo"
             do == "rollback to"
  <2>1. /\ Await(t, f, at, do, save) /\ f.at = "start" /\ f.reply = "ok"
        /\ UNCHANGED <<info, open, session, minted>>
    BY <1>7, <2>0 DEF BeginInterrupted, Resumes, registry
  <2>2. Above(save) /\ Unused(save)
    <3>1. f.do = "savepoint"
      BY <1>2, <1>7, <2>1 DEF Sends, Status
    <3> QED BY <1>2, <2>0, <2>1, <3>1 DEF FrameLive
  <2> HIDE DEF f, at, do
  <2>3. /\ frame'[t].at = at /\ frame'[t].do = do /\ frame'[t].save = save
        /\ frame'[t].reply = "waiting"
        /\ \A u \in Task \ {t} : frame'[u] = frame[u]
    BY <1>2, <2>1, Sent
  <2>4. Above(save)' /\ Unused(save)'
    BY <2>1, <2>2, AboveStays
  <2>5. FrameLive(t)'
    BY <2>3, <2>4 DEF FrameLive, at, do
  <2> QED BY <1>2, <1>4, <2>1, <2>3, <2>5, LiveGoes
<1>8. CASE BeginFailed(t) /\ f.pool
  <2>1. session' = Fresh /\ Return(t) /\ open' = {}
    BY <1>3, <1>8 DEF BeginFailed, GiveBack, registry
  <2> QED BY <1>1, <2>1, LiveFresh
<1>9. CASE BeginFailed(t) /\ ~f.pool
  BY <1>5, <1>9 DEF BeginFailed
<1>10. CASE UndoEnds(t)
  <2>1. session' = session
    BY <1>10 DEF UndoEnds, others
  <2>2. CASE Return(t) /\ UNCHANGED registry
    BY <1>1, <1>4, <2>1, <2>2, LiveReturn DEF registry
  <2>3. CASE Recover(t, f, f.edge, {}, FALSE, {})
    BY <1>5, <2>1, <2>3
  <2> QED BY <1>10, <2>2, <2>3 DEF UndoEnds
<1> QED BY <1>6, <1>7, <1>8, <1>9, <1>10

\* commit() and rollback() close their handle, or recover with it as the
\* boundary: its name, which was generated, is gone or is where it was.
LEMMA LiveFinishes ==
  ASSUME HandleInv, NestInv', NEW t \in Task, FinishOk(t) \/ FinishFailed(t)
  PROVE  LiveInv'
<1> DEFINE f == frame[t]
<1>1. f.at \in {"commit", "rollback", "rollbackRelease"}
  BY DEF FinishOk, FinishFailed, Resumes
<1>2. /\ frame \in [Task -> Frames] /\ f \in Frames /\ FrameInv(t) /\ FrameLive(t)
      /\ \A u \in Task \ {t} : /\ frame[u].at = "idle" /\ frame[u].do = "none"
                               /\ frame[u].reply = "none"
  BY <1>1, Alone DEF HandleInv, LiveInv
<1>3. /\ f.h \in open /\ IsTx(f.h) /\ \A e \in open : e <= f.h
      /\ open \subseteq Nat /\ f.h \in Nat
  <2>1. f.h \in open /\ IsTx(f.h) /\ \A e \in open : e <= f.h
    BY <1>1, <1>2 DEF FrameInv
  <2> QED BY <2>1, OpenType DEF HandleInv, NestInv
<1>4. \A h \in open : h # f.h => h < f.h /\ ~(h >= f.h) /\ ~(h > f.h)
  <2> HIDE DEF f
  <2>1. \A h \in open : h \in Nat /\ h <= f.h
    BY <1>3
  <2> QED BY <1>3, <2>1
<1>5. \A h \in open : h # f.h => ~Doomed(h)
  BY <1>2, <1>4, DoomedBy
<1>6. CASE FinishFailed(t)
  <2> DEFINE extra == {f.h}
             none  == {}
             owns  == FALSE
  <2>1. Recover(t, frame[t], f.h, extra, owns, none) /\ session' = session
    BY <1>6 DEF FinishFailed, others
  <2>2. minted' = minted
    BY <2>1 DEF Recover, RecoverBoundary, RecoverAll, Shut, registry
  <2>3. ASSUME Nested(f.h), NEW h \in open, h < f.h,
               Has(session, info[f.h].save), info[h].save # NoSave
        PROVE  Newest(session, info[h].save) < Newest(session, info[f.h].save)
    <3>1. f.save = info[f.h].save /\ f.save # NoSave
      BY <1>1, <1>2, <2>3 DEF FrameLive, Nested
    <3>2. h # f.h
      BY <1>3, <2>3
    <3>3. info[h].save # info[f.h].save
      BY <1>3, <2>3, <3>2 DEF HandleInv, NamesInv
    <3>4. Above(f.save)
      BY <1>1, <1>2, <3>1 DEF FrameLive
    <3> QED BY <2>3, <3>1, <3>3, <3>4 DEF Above
  <2>4. \A h \in open : h < f.h => ~Doomed(h)
    BY <1>3, <1>5
  <2>5. extra # {} /\ f.h \in open \union {None}
    BY <1>3
  <2> HIDE DEF extra, none, owns
  <2> QED BY <1>1, <2>1, <2>2, <2>3, <2>4, <2>5, LiveRecover
<1>7. CASE FinishOk(t)
  <2>1. /\ open' = open \ Fall({f.h}) /\ info' = info /\ Return(t) /\ minted' = minted
        /\ IF f.h \in pooled THEN session' = Fresh ELSE session' = session
    BY <1>7 DEF FinishOk, Shut, GiveBack
  <2>2. open' \subseteq open \ {f.h}
    BY <1>3, <2>1 DEF Fall
  <2>3. CASE f.h \in pooled
    <3>1. \A e \in open : f.h <= e
      BY <2>3 DEF HandleInv, NestInv, PoolHeld
    <3>2. open \subseteq {f.h}
      BY <1>3, <3>1
    <3> QED BY <1>1, <2>1, <2>2, <2>3, <3>2, LiveFresh
  <2>4. CASE f.h \notin pooled
    BY <1>1, <1>5, <2>1, <2>2, <2>4, LiveReturn
  <2> QED BY <2>3, <2>4
<1> QED BY <1>6, <1>7

\* Savepoint handles close what is inside them, or recover to their owner.
LEMMA LiveSavepoints ==
  ASSUME HandleInv, NestInv', NEW t \in Task,
         SpReleaseOk(t) \/ SpRollbackOk(t) \/ SpFailed(t)
  PROVE  LiveInv'
<1> DEFINE f == frame[t]
<1>1. f.at \in {"spRelease", "spRollback"} /\ session' = session
  BY DEF SpReleaseOk, SpRollbackOk, SpFailed, Resumes, others
<1>2. /\ frame \in [Task -> Frames] /\ f \in Frames /\ FrameInv(t)
      /\ \A u \in Task \ {t} : /\ frame[u].at = "idle" /\ frame[u].do = "none"
                               /\ frame[u].reply = "none"
  BY <1>1, Alone DEF HandleInv
<1>3. /\ f.h \in open /\ ~IsTx(f.h) /\ f.edge = info[f.h].owner
      /\ f.edge \in open /\ f.edge < f.h
      /\ open \subseteq Nat /\ f.h \in Nat /\ f.edge \in Nat
  <2>1. f.h \in open /\ ~IsTx(f.h) /\ f.edge = info[f.h].owner
    BY <1>1, <1>2 DEF FrameInv
  <2>2. f.edge \in open /\ f.edge < f.h
    BY <2>1 DEF HandleInv, NestInv, WellNested
  <2> QED BY <2>1, <2>2, OpenType DEF HandleInv, NestInv
<1>4. After(f.h) = {e \in open : e > f.h}
  BY <1>3, AfterLater DEF HandleInv, NestInv
<1>5. ASSUME NEW h \in open, ~(h > f.h), f.at = "spRelease" => h # f.h
      PROVE  ~Doomed(h)
  <2>1. f.at = "spRelease" => ~(h >= f.h)
    BY <1>3, <1>5
  <2> QED BY <1>1, <1>2, <1>5, <2>1, DoomedBy
<1>6. CASE SpReleaseOk(t) \/ SpRollbackOk(t)
  <2>1. PICK S \in {After(f.h), After(f.h) \union {f.h}} :
          /\ open' = open \ Fall(S) /\ info' = info /\ Return(t) /\ minted' = minted
          /\ f.at = "spRelease" => f.h \in S
    BY <1>6 DEF SpReleaseOk, SpRollbackOk, Shut, Resumes
  <2>2. ASSUME NEW h \in open' PROVE ~Doomed(h)
    <3>1. h \in open /\ h \notin S
      BY <2>1 DEF Fall
    <3>2. ~(h > f.h) /\ (f.at = "spRelease" => h # f.h)
      BY <1>4, <2>1, <3>1
    <3> QED BY <1>5, <3>1, <3>2
  <2>3. f.at # "idle" /\ open' \subseteq open
    BY <1>1, <2>1
  <2> QED BY <1>1, <2>1, <2>2, <2>3, LiveReturn
<1>7. CASE SpFailed(t)
  <2> DEFINE extra == {f.edge}
             also  == After(f.h) \union {f.h}
             owns  == FALSE
  <2>1. Recover(t, frame[t], f.edge, extra, owns, also)
    BY <1>7 DEF SpFailed
  <2>2. minted' = minted
    BY <2>1 DEF Recover, RecoverBoundary, RecoverAll, Shut, registry
  <2>3. ASSUME NEW h \in open, h <= f.edge PROVE ~Doomed(h)
    <3> HIDE DEF f
    <3>1. h \in Nat
      BY <1>3
    <3>2. ~(h > f.h) /\ h # f.h
      BY <1>3, <2>3, <3>1
    <3> QED BY <1>5, <3>2
  <2>4. ASSUME Nested(f.edge), NEW h \in open, h < f.edge, info[h].save # NoSave
        PROVE  Newest(session, info[h].save) < Newest(session, info[f.edge].save)
    <3>1. f.edge \in Kept /\ ~Doomed(h)
      BY <1>3, <2>3, <2>4 DEF Nested, Kept
    <3> QED BY <2>4, <3>1, AboveKept DEF HandleInv
  <2>5. /\ \A h \in open : h < f.edge => ~Doomed(h)
        /\ extra # {} /\ f.edge \in open \union {None} /\ f.at # "idle"
    BY <1>1, <1>3, <2>3
  <2> HIDE DEF also, extra, owns
  <2> QED BY <1>1, <2>1, <2>2, <2>4, <2>5, LiveRecover
<1> QED BY <1>6, <1>7

\* After the raw rollback nothing is open.
LEMMA LiveRecovered ==
  ASSUME HandleInv, NEW t \in Task, RecoverEnds(t)
  PROVE  LiveInv'
<1>1. /\ frame[t].at = "recover" /\ Return(t) /\ UNCHANGED <<info, open, minted>>
      /\ session' = Fresh \/ session' = session
  BY DEF RecoverEnds, Resumes, registry, GiveBack
<1>2. open = {}
  BY <1>1, Alone DEF HandleInv, FrameInv
<1> QED BY <1>1, <1>2, LiveFresh, LiveReturn

\* So every step of a running operation leaves handles that are live.
LEMMA LiveContinues ==
  ASSUME HandleInv, NestInv', NEW t \in Task, Continues(t)
  PROVE  LiveInv'
BY LiveEnds, LiveConstruct, LiveBegins, LiveFinishes, LiveSavepoints,
   LiveRecovered DEF Continues

-----------------------------------------------------------------------------
(* The server answers.                                                     *)

\* A reply changes no handle, and only its task may doom some.
LEMMA ReplyFrames ==
  ASSUME HandleInv, NEW t \in Task, Answer(t) \/ Cancel(t) \/ Lose(t)
  PROVE  /\ Kept = {h \in open : info[h].save # NoSave} /\ Kept' \subseteq Kept
         /\ \A h \in Kept' :
              /\ frame[t].at \in {"commit", "rollbackRelease", "spRelease"} =>
                   ~(h >= frame[t].h)
              /\ frame[t].at = "rollback" /\ frame[t].do = "rollback" =>
                   ~(h >= frame[t].h)
              /\ frame[t].at = "spRollback" => ~(h > frame[t].h)
         /\ \A u \in Task \ {t} : FrameLive(u)'
         /\ frame[t].at # "idle"
<1> DEFINE f == frame[t]
           g == frame'[t]
<1>1. /\ f.reply = "waiting" /\ g.reply \in {"ok", "error"}
      /\ g.at = f.at /\ g.do = f.do /\ g.h = f.h
      /\ \A u \in Task \ {t} : frame'[u] = frame[u]
      /\ info' = info /\ open' = open
  BY Replied DEF HandleInv, registry
<1>2. f.at # "idle"
  <2>1. Sends(t)
    BY DEF HandleInv, BlockInv
  <2> QED BY <1>1, <2>1 DEF Sends
<1>3. \A u \in Task \ {t} : frame[u].at = "idle" /\ frame[u].do = "none"
  BY <1>2, Alone DEF HandleInv
<1>4. \A h : ~Doomed(h)
  BY <1>1, <1>3, DoomedBy
<1>5. Kept = {h \in open : info[h].save # NoSave}
  BY <1>4 DEF Kept
<1>6. Kept' \subseteq Kept
  BY <1>1, <1>4 DEF Kept
<1>7. ASSUME NEW h \in Kept'
      PROVE  /\ f.at \in {"commit", "rollbackRelease", "spRelease"} => ~(h >= f.h)
             /\ f.at = "rollback" /\ f.do = "rollback" => ~(h >= f.h)
             /\ f.at = "spRollback" => ~(h > f.h)
  <2>1. ~Doomed(h)'
    BY DEF Kept
  <2>2. ~(/\ g.reply # "waiting"
          /\ \/ g.at \in {"commit", "rollbackRelease", "spRelease"} /\ h >= g.h
             \/ g.at = "rollback" /\ g.do = "rollback" /\ h >= g.h
             \/ g.at = "spRollback" /\ h > g.h)
    BY <2>1 DEF Doomed
  <2> HIDE DEF f, g
  <2> QED BY <1>1, <2>2
<1>8. ASSUME NEW u \in Task \ {t} PROVE FrameLive(u)'
  <2>1. frame'[u].at = "idle" /\ frame'[u].do = "none"
    BY <1>1, <1>3
  <2> QED BY <2>1, LiveIdle
<1> QED BY <1>2, <1>5, <1>6, <1>7, <1>8

\* Cutting the savepoint stack above everything that is kept.
LEMMA LiveCut ==
  ASSUME HandleInv, TypeOK', UNCHANGED <<info, open, minted>>,
         NEW k \in 0 .. Len(session.saves),
         session'.saves = SubSeq(session.saves, 1, k),
         Kept' \subseteq Kept,
         \A h \in Kept' : Newest(session, info[h].save) <= k
  PROVE  /\ NameInv' /\ Mirrored'
         /\ \A n : Has(session, n) /\ Newest(session, n) <= k =>
              Has(session', n) /\ Newest(session', n) = Newest(session, n)
<1>1. session \in Sessions /\ session' \in Sessions
  BY DEF HandleInv, NestInv, TypeOK
<1>2. session.saves \in Seq(Saves) /\ Len(session.saves) \in Nat
  BY <1>1 DEF Sessions
<1>3. /\ DOMAIN session'.saves = 1 .. k /\ 1 .. k \subseteq DOMAIN session.saves
      /\ \A j \in 1 .. k : session'.saves[j] = session.saves[j]
  BY <1>2
<1>4. NameInv'
  <2>1. \A h \in open' : info'[h].save \in IF IsTx(h)' THEN 0 .. minted' ELSE Name
    BY DEF HandleInv, LiveInv, NameInv, IsTx
  <2> QED BY <1>3, <2>1 DEF HandleInv, LiveInv, NameInv
<1>5. \A n : Has(session, n) /\ Newest(session, n) <= k =>
           Has(session', n) /\ Newest(session', n) = Newest(session, n)
  BY <1>1, CutNewest
<1>6. Mirrored'
  <2>1. \A h \in Kept' : /\ Has(session', info[h].save)
                         /\ Newest(session', info[h].save) = Newest(session, info[h].save)
    BY <1>5 DEF HandleInv, LiveInv, Mirrored
  <2> QED BY <2>1 DEF HandleInv, LiveInv, Mirrored
<1> QED BY <1>4, <1>5, <1>6

\* A reply that changes no savepoint.
LEMMA LiveSame ==
  ASSUME HandleInv, NEW t \in Task, Answer(t) \/ Cancel(t) \/ Lose(t),
         session'.saves = session.saves,
         frame[t].do # "savepoint" \/ frame'[t].reply = "error"
  PROVE  LiveInv'
<1> DEFINE f == frame[t]
           g == frame'[t]
<1>1. /\ f.reply = "waiting" /\ g.reply \in {"ok", "error"}
      /\ g.at = f.at /\ g.do = f.do /\ g.save = f.save /\ g.h = f.h
      /\ info' = info /\ open' = open /\ minted' = minted
  BY Replied DEF HandleInv, registry
<1>2. Kept' \subseteq Kept /\ \A u \in Task \ {t} : FrameLive(u)'
  BY ReplyFrames
<1>3. \A n : Has(session', n) = Has(session, n) /\ Newest(session', n) = Newest(session, n)
  BY DEF Has, Newest
<1>4. Mirrored'
  BY <1>1, <1>2, <1>3 DEF HandleInv, LiveInv, Mirrored
<1>5. NameInv'
  <2>1. \A h \in open' : info'[h].save \in IF IsTx(h)' THEN 0 .. minted' ELSE Name
    BY <1>1 DEF HandleInv, LiveInv, NameInv, IsTx
  <2> QED BY <1>1, <2>1 DEF HandleInv, LiveInv, NameInv
<1>6. PICK save : save = f.save
  OBVIOUS
<1>7. (Above(save) => Above(save)') /\ (Unused(save) => Unused(save)')
  BY <1>1, <1>3 DEF Above, Unused
<1>8. FrameLive(t)
  BY DEF HandleInv, LiveInv
<1> HIDE DEF f, g
<1>9. FrameLive(t)'
  BY <1>1, <1>6, <1>7, <1>8 DEF FrameLive, f, g
<1> QED BY <1>2, <1>4, <1>5, <1>9 DEF LiveInv

\* The whole transaction ends: every handle is doomed, or none is open.
LEMMA LiveEnded ==
  ASSUME HandleInv, NEW t \in Task, Answer(t) \/ Cancel(t) \/ Lose(t),
         session'.saves = <<>>, frame[t].do \in {"commit", "rollback"}
  PROVE  LiveInv'
<1> DEFINE f == frame[t]
           g == frame'[t]
<1>1. /\ g.at = f.at /\ g.do = f.do /\ g.save = f.save /\ g.h = f.h
      /\ g.reply # "waiting"
      /\ info' = info /\ open' = open /\ minted' = minted
  BY Replied DEF HandleInv, registry
<1>2. /\ \A h \in Kept' : /\ f.at = "commit" => ~(h >= f.h)
                          /\ f.at = "rollback" => ~(h >= f.h)
      /\ Kept' \subseteq open
      /\ \A u \in Task \ {t} : FrameLive(u)'
      /\ f.at # "idle"
  BY ReplyFrames, <1>1 DEF Kept, HandleInv, BlockInv, Sends
<1>3. FrameInv(t) /\ Sends(t) /\ FrameLive(t)
  BY <1>2, Alone DEF HandleInv, LiveInv
<1>4. Kept' = {}
  <2>1. CASE f.at \in {"commit", "rollback"}
    <3>1. Outer(f.h) /\ f.h \in open
      BY <1>3, <2>1 DEF Sends, FrameInv, Outer
    <3>2. \A e \in open : f.h <= e
      BY <3>1 DEF HandleInv, BlockInv, OuterFirst
    <3>3. f.h \in Nat /\ open \subseteq Nat
      BY <3>1, OpenType DEF HandleInv, NestInv
    <3>4. \A e \in open : e >= f.h
      <4> HIDE DEF f
      <4> QED BY <3>2, <3>3
    <3> QED BY <1>2, <2>1, <3>4
  <2>2. CASE f.at = "recover"
    BY <1>2, <1>3, <2>2 DEF FrameInv
  <2>3. f.at \in {"commit", "rollback", "recover"}
    <3>1. f \in Frames
      BY <1>2, Alone DEF HandleInv
    <3> QED BY <1>2, <1>3, <3>1 DEF Sends, Frames, Labels
  <2> QED BY <2>1, <2>2, <2>3
<1>5. \A n : ~Has(session', n)
  BY DEF Has
<1>6. NameInv'
  <2>1. \A h \in open' : info'[h].save \in IF IsTx(h)' THEN 0 .. minted' ELSE Name
    BY <1>1 DEF HandleInv, LiveInv, NameInv, IsTx
  <2> QED BY <2>1 DEF NameInv
<1>7. f.at \in {"commit", "rollback", "recover"}
  <2>1. f \in Frames
    BY <1>2, Alone DEF HandleInv
  <2> QED BY <1>2, <1>3, <2>1 DEF Sends, Frames, Labels
<1> HIDE DEF f, g
<1>8. FrameLive(t)'
  <2>1. \A n : Above(n)'
    BY <1>5 DEF Above
  <2> QED BY <1>1, <1>3, <1>7, <2>1 DEF FrameLive, f, g
<1> QED BY <1>2, <1>4, <1>6, <1>8 DEF LiveInv, Mirrored

\* A new savepoint is above every other, and hides none that a handle uses.
LEMMA LivePushed ==
  ASSUME HandleInv, TypeOK', NEW t \in Task, Answer(t) \/ Cancel(t) \/ Lose(t),
         session'.saves = Append(session.saves, frame[t].save),
         frame[t].do = "savepoint"
  PROVE  LiveInv'
<1> DEFINE f == frame[t]
           g == frame'[t]
<1>1. /\ f.reply = "waiting" /\ g.reply # "waiting"
      /\ g.at = f.at /\ g.do = f.do /\ g.save = f.save /\ g.h = f.h
      /\ info' = info /\ open' = open /\ minted' = minted
  BY Replied DEF HandleInv, registry
<1>2. /\ Kept = {h \in open : info[h].save # NoSave} /\ Kept' \subseteq Kept
      /\ \A u \in Task \ {t} : FrameLive(u)'
      /\ f.at # "idle"
  BY ReplyFrames
<1>3. Sends(t) /\ FrameLive(t) /\ f \in Frames
  BY <1>2, Alone DEF HandleInv, LiveInv
<1>4. f.at \in {"start", "savepoint"}
  BY <1>2, <1>3 DEF Sends, Frames, Labels
<1>5. PICK n : n = f.save
  OBVIOUS
<1>6. session \in Sessions /\ session' \in Sessions
  BY DEF HandleInv, NestInv, TypeOK
<1>7. session.saves \in Seq(Saves) /\ Len(session.saves) \in Nat
  BY <1>6 DEF Sessions
<1>8. Unused(n)
  BY <1>3, <1>5 DEF FrameLive
<1>9. /\ Has(session', n) /\ Newest(session', n) = Len(session.saves) + 1
      /\ \A m : m # n /\ Has(session, m) =>
           Has(session', m) /\ Newest(session', m) = Newest(session, m)
  <2>1. session'.saves = Append(session.saves, n)
    BY <1>5
  <2> HIDE DEF f, g
  <2> QED BY <1>6, <2>1, PushNewest
<1>10. \A h \in Kept : /\ Has(session', info[h].save)
                       /\ Newest(session', info[h].save) = Newest(session, info[h].save)
                       /\ Newest(session, info[h].save) \in 1 .. Len(session.saves)
  <2>1. \A h \in Kept : info[h].save # n /\ Has(session, info[h].save)
    BY <1>8 DEF Unused, Kept, HandleInv, LiveInv, Mirrored
  <2> QED BY <1>6, <1>9, <2>1, NewestIs
<1>11. Mirrored'
  BY <1>1, <1>2, <1>10 DEF HandleInv, LiveInv, Mirrored
<1>12. Above(n)'
  BY <1>1, <1>2, <1>7, <1>9, <1>10 DEF Above
<1>13. NameInv'
  <2>1. \A h \in open' : info'[h].save \in IF IsTx(h)' THEN 0 .. minted' ELSE Name
    BY <1>1 DEF HandleInv, LiveInv, NameInv, IsTx
  <2>2. n \in Name \union (1 .. minted) /\ (n \notin Name => ~Has(session, n))
    BY <1>1, <1>3, <1>4, <1>5 DEF FrameLive
  <2>3. /\ Len(session'.saves) = Len(session.saves) + 1
        /\ DOMAIN session'.saves = 1 .. Len(session.saves) + 1
        /\ session'.saves[Len(session.saves) + 1] = n
        /\ \A j \in 1 .. Len(session.saves) : session'.saves[j] = session.saves[j]
        /\ DOMAIN session.saves = 1 .. Len(session.saves)
    BY <1>5, <1>7
  <2>4. ASSUME NEW i \in DOMAIN session'.saves
        PROVE  session'.saves[i] \in Name \union (1 .. minted')
    <3>1. CASE i = Len(session.saves) + 1
      BY <1>1, <2>2, <2>3, <3>1
    <3>2. CASE i \in 1 .. Len(session.saves)
      BY <1>1, <2>3, <3>2 DEF HandleInv, LiveInv, NameInv
    <3> QED BY <1>7, <2>3, <3>1, <3>2
  <2>5. ASSUME NEW i \in DOMAIN session'.saves, NEW j \in DOMAIN session'.saves,
               session'.saves[i] \notin Name, session'.saves[i] = session'.saves[j]
        PROVE  i = j
    <3>1. ASSUME NEW k \in 1 .. Len(session.saves), n \notin Name
          PROVE  session.saves[k] # n
      BY <2>2, <2>3, <3>1 DEF Has
    <3>2. CASE i \in 1 .. Len(session.saves) /\ j \in 1 .. Len(session.saves)
      BY <2>3, <2>5, <3>2 DEF HandleInv, LiveInv, NameInv
    <3>3. CASE i = Len(session.saves) + 1 \/ j = Len(session.saves) + 1
      BY <1>7, <2>3, <2>5, <3>1, <3>3
    <3> QED BY <1>7, <2>3, <3>2, <3>3
  <2> QED BY <2>1, <2>4, <2>5 DEF NameInv
<1> HIDE DEF f, g
<1>14. FrameLive(t)'
  <2>1. Unused(n)'
    BY <1>1, <1>8 DEF Unused
  <2> QED BY <1>1, <1>3, <1>4, <1>5, <1>9, <1>12, <2>1 DEF FrameLive, f, g
<1> QED BY <1>2, <1>11, <1>13, <1>14 DEF LiveInv

\* What is left of a sequence of savepoints that is cut.
LEMMA CutSeq ==
  ASSUME NEW saves \in Seq(Saves), NEW k \in 0 .. Len(saves), NEW cut,
         cut = SubSeq(saves, 1, k)
  PROVE  /\ DOMAIN cut = 1 .. k /\ k \in Nat
         /\ \A j \in 1 .. k : cut[j] = saves[j]
OBVIOUS

\* A savepoint is released: what is kept was below it.
LEMMA LiveReleased ==
  ASSUME Name \cap (1 .. MaxBegins) = {}, HandleInv, TypeOK',
         NEW t \in Task, Answer(t) \/ Cancel(t) \/ Lose(t),
         Has(session, frame[t].save),
         session'.saves = SubSeq(session.saves, 1, Newest(session, frame[t].save) - 1),
         frame[t].do = "release"
  PROVE  LiveInv'
<1> DEFINE f == frame[t]
           g == frame'[t]
<1>1. /\ f.reply = "waiting" /\ g.reply # "waiting"
      /\ g.at = f.at /\ g.do = f.do /\ g.save = f.save /\ g.h = f.h
      /\ info' = info /\ open' = open /\ minted' = minted
  BY Replied DEF HandleInv, registry
<1>2. /\ Kept = {h \in open : info[h].save # NoSave} /\ Kept' \subseteq Kept
      /\ \A h \in Kept' : f.at \in {"commit", "rollbackRelease", "spRelease"} =>
                            ~(h >= f.h)
      /\ \A u \in Task \ {t} : FrameLive(u)'
      /\ f.at # "idle"
  BY ReplyFrames
<1>3. Sends(t) /\ FrameLive(t) /\ f \in Frames /\ FrameInv(t)
  BY <1>2, Alone DEF HandleInv, LiveInv
<1>4. f.at \in {"undoRelease", "drop", "recoverRelease", "commit", "rollbackRelease",
                "spRelease"}
  BY <1>2, <1>3 DEF Sends, Frames, Labels
<1>5. PICK n : n = f.save
  OBVIOUS
<1>6. session \in Sessions /\ session.saves \in Seq(Saves) /\ Len(session.saves) \in Nat
  BY DEF HandleInv, NestInv, TypeOK, Sessions
<1>7. PICK k : k = Newest(session, n) - 1
  OBVIOUS
<1>8. /\ Newest(session, n) \in 1 .. Len(session.saves)
      /\ session.saves[Newest(session, n)] = n
  BY <1>5, <1>6, NewestIs
<1>9. k \in 0 .. Len(session.saves) /\ session'.saves = SubSeq(session.saves, 1, k)
  BY <1>5, <1>6, <1>7, <1>8
<1>10. open \subseteq Nat
  BY OpenType DEF HandleInv, NestInv
<1>11. ASSUME NEW h \in Kept' PROVE Newest(session, info[h].save) < Newest(session, n)
  <2>1. h \in Kept /\ h \in open /\ info[h].save # NoSave
    BY <1>2
  <2>2. CASE f.at \in {"undoRelease", "drop", "recoverRelease"}
    BY <1>1, <1>3, <1>5, <2>1, <2>2 DEF FrameLive, Above, Unused
  <2>3. CASE f.at \in {"commit", "rollbackRelease", "spRelease"}
    <3>1. n = info[f.h].save /\ f.h \in open
      BY <1>3, <1>5, <2>3 DEF FrameLive, FrameInv
    <3>2. h \in Nat /\ f.h \in Nat /\ ~(h >= f.h)
      BY <1>2, <1>10, <2>1, <2>3, <3>1
    <3>3. h < f.h /\ h # f.h
      <4> HIDE DEF f
      <4> QED BY <3>2
    <3>4. CASE f.at \in {"commit", "rollbackRelease"}
      <4>1. n # NoSave
        BY <1>3, <3>1, <3>4 DEF Sends
      <4>2. Above(n)
        BY <1>3, <1>5, <3>4, <4>1 DEF FrameLive
      <4>3. info[h].save # n
        BY <2>1, <3>1, <3>3, <4>1 DEF HandleInv, NamesInv
      <4> QED BY <1>5, <2>1, <4>2, <4>3 DEF Above
    <3>5. CASE f.at = "spRelease"
      <4>1. ~IsTx(f.h)
        BY <1>3, <3>5 DEF FrameInv
      <4>2. n \in Name /\ n # NoSave
        BY <3>1, <4>1, ConstantsAssumption
           DEF HandleInv, LiveInv, NameInv, ConstantsAssumption, NoSave
      <4>3. f.h \in Kept
        BY <1>2, <3>1, <4>2
      <4> QED BY <2>1, <3>1, <3>3, <4>3 DEF HandleInv, LiveInv, Mirrored
    <3> QED BY <2>3, <3>4, <3>5
  <2> QED BY <1>4, <2>2, <2>3
<1>12. \A h \in Kept' : Newest(session, info[h].save) <= k
  <2>1. \A h \in Kept' : Newest(session, info[h].save) \in 1 .. Len(session.saves)
    BY <1>2, <1>6, NewestIs DEF HandleInv, LiveInv, Mirrored
  <2> QED BY <1>7, <1>8, <1>11, <2>1
<1>13. NameInv' /\ Mirrored'
  BY <1>1, <1>2, <1>9, <1>12, LiveCut
<1>14. f.at \in {"commit", "rollbackRelease"} => ~Has(session', n)
  <2> SUFFICES ASSUME f.at \in {"commit", "rollbackRelease"}, Has(session', n)
               PROVE  FALSE
    OBVIOUS
  <2>1. n = info[f.h].save /\ f.h \in open /\ IsTx(f.h) /\ n # NoSave
    BY <1>3, <1>5 DEF FrameLive, FrameInv, Sends
  <2>2. n \in 0 .. minted /\ minted \in 0 .. MaxBegins /\ MaxBegins \in Nat
    BY <2>1, ConstantsAssumption DEF HandleInv, LiveInv, NameInv, NestInv, TypeOK,
       ConstantsAssumption
  <2>3. n \notin Name
    BY <2>1, <2>2 DEF NoSave
  <2>0. /\ DOMAIN session'.saves = 1 .. k /\ k \in Nat
        /\ \A j \in 1 .. k : session'.saves[j] = session.saves[j]
    <3> HIDE DEF f, g
    <3>1. session.saves \in Seq(Saves) /\ k \in 0 .. Len(session.saves)
      BY <1>6, <1>9
    <3>2. session'.saves = SubSeq(session.saves, 1, k)
      BY <1>9
    <3> QED BY ONLY <3>1, <3>2, CutSeq
  <2>4. PICK i \in 1 .. k : session.saves[i] = n
    BY <2>0 DEF Has
  <2>5. /\ i \in DOMAIN session.saves /\ session.saves[i] = n
        /\ Newest(session, n) \in DOMAIN session.saves /\ i # Newest(session, n)
    <3>1. i \in Nat /\ i <= k /\ k \in Nat
      BY <2>0, <2>4
    <3>2. i # Newest(session, n)
      <4> HIDE DEF f
      <4> QED BY <1>7, <1>8, <3>1
    <3> QED BY <1>6, <1>8, <1>9, <2>4, <3>1, <3>2
  <2> QED BY <1>8, <2>3, <2>5 DEF HandleInv, LiveInv, NameInv
<1> HIDE DEF f, g
<1>15. FrameLive(t)'
  <2>1. Unused(n) => Unused(n)'
    BY <1>1 DEF Unused
  <2>2. ~Has(session', n) => Above(n)'
    BY DEF Above
  <2> QED BY <1>1, <1>3, <1>4, <1>5, <1>14, <2>1, <2>2 DEF FrameLive, f, g
<1> QED BY <1>2, <1>13, <1>15 DEF LiveInv

\* The server goes back to a savepoint, which stays: what is kept was not
\* above it.
LEMMA LiveRolled ==
  ASSUME HandleInv, TypeOK', NEW t \in Task, Answer(t) \/ Cancel(t) \/ Lose(t),
         Has(session, frame[t].save),
         session'.saves = SubSeq(session.saves, 1, Newest(session, frame[t].save)),
         frame[t].at \in {"undo", "recoverTo", "rollback", "spRollback"},
         frame[t].at = "rollback" => info[frame[t].h].save # NoSave,
         frame[t].do # "savepoint"
  PROVE  LiveInv'
<1> DEFINE f == frame[t]
           g == frame'[t]
<1>1. /\ f.reply = "waiting" /\ g.reply # "waiting"
      /\ g.at = f.at /\ g.do = f.do /\ g.save = f.save /\ g.h = f.h
      /\ info' = info /\ open' = open /\ minted' = minted
  BY Replied DEF HandleInv, registry
<1>2. /\ Kept = {h \in open : info[h].save # NoSave} /\ Kept' \subseteq Kept
      /\ \A h \in Kept' : f.at = "spRollback" => ~(h > f.h)
      /\ \A u \in Task \ {t} : FrameLive(u)'
      /\ f.at # "idle"
  BY ReplyFrames
<1>3. Sends(t) /\ FrameLive(t) /\ f \in Frames /\ FrameInv(t)
  BY <1>2, Alone DEF HandleInv, LiveInv
<1>4. f.at \in {"undo", "recoverTo", "rollback", "spRollback"}
  OBVIOUS
<1>5. PICK n : n = f.save
  OBVIOUS
<1>6. session \in Sessions /\ session.saves \in Seq(Saves) /\ Len(session.saves) \in Nat
  BY DEF HandleInv, NestInv, TypeOK, Sessions
<1>7. PICK k : k = Newest(session, n)
  OBVIOUS
<1>8. k \in 1 .. Len(session.saves) /\ k \in 0 .. Len(session.saves) /\ Has(session, n)
  <2>1. Newest(session, n) \in 1 .. Len(session.saves)
    BY <1>5, <1>6, NewestIs
  <2> QED BY <1>5, <1>6, <1>7, <2>1
<1>9. session'.saves = SubSeq(session.saves, 1, k)
  BY <1>5, <1>7
<1>10. open \subseteq Nat
  BY OpenType DEF HandleInv, NestInv
<1>11. \A h \in Kept : Newest(session, info[h].save) \in 1 .. Len(session.saves)
  BY <1>6, NewestIs DEF HandleInv, LiveInv, Mirrored
<1>12. f.at # "spRollback" => Above(n) /\ n # NoSave
  <2>1. CASE f.at \in {"undo", "recoverTo"}
    BY <1>3, <1>5, <2>1 DEF FrameLive, Unused
  <2>2. CASE f.at = "rollback"
    <3>1. n = info[f.h].save /\ n # NoSave
      BY <1>3, <1>5, <2>2 DEF FrameLive, Sends
    <3> QED BY <1>3, <1>5, <2>2, <3>1 DEF FrameLive
  <2> QED BY <1>4, <2>1, <2>2
<1>13. ASSUME NEW h \in Kept'
       PROVE  Newest(session, info[h].save) <= k
  <2>1. h \in Kept /\ h \in open /\ info[h].save # NoSave
    BY <1>2
  <2>2. CASE info[h].save = n
    BY <1>7, <1>8, <2>2
  <2>3. CASE info[h].save # n /\ f.at # "spRollback"
    <3>1. Newest(session, info[h].save) < Newest(session, n)
      BY <1>8, <1>12, <2>1, <2>3 DEF Above
    <3> QED BY <1>7, <1>8, <1>11, <2>1, <3>1
  <2>4. CASE info[h].save # n /\ f.at = "spRollback"
    <3>1. n = info[f.h].save /\ f.h \in open /\ ~IsTx(f.h)
      BY <1>3, <1>5, <2>4 DEF FrameLive, FrameInv
    <3>2. h \in Nat /\ f.h \in Nat /\ ~(h > f.h) /\ h # f.h
      BY <1>2, <1>10, <2>1, <2>4, <3>1
    <3>3. h < f.h
      <4> HIDE DEF f
      <4>1. \A a, b \in Nat : ~(a > b) /\ a # b => a < b
        OBVIOUS
      <4> QED BY <3>2, <4>1
    <3>4. n # NoSave
      BY <3>1, ConstantsAssumption
         DEF HandleInv, LiveInv, NameInv, ConstantsAssumption, NoSave
    <3>5. f.h \in Kept
      BY <1>2, <3>1, <3>4
    <3>6. Newest(session, info[h].save) < Newest(session, n)
      BY <2>1, <3>1, <3>3, <3>5 DEF HandleInv, LiveInv, Mirrored
    <3> QED BY <1>7, <1>8, <1>11, <2>1, <3>6
  <2> QED BY <2>2, <2>3, <2>4
<1>14. /\ NameInv' /\ Mirrored'
       /\ \A m : Has(session, m) /\ Newest(session, m) <= k =>
            Has(session', m) /\ Newest(session', m) = Newest(session, m)
  BY <1>1, <1>2, <1>8, <1>9, <1>13, LiveCut
<1>15. f.at # "spRollback" => Above(n)'
  <2> SUFFICES ASSUME f.at # "spRollback", NEW h \in open, info[h].save \notin {NoSave, n}
               PROVE  Newest(session', info[h].save) < Newest(session', n)
    BY <1>1 DEF Above
  <2>1. h \in Kept
    BY <1>2
  <2>2. Newest(session, info[h].save) < Newest(session, n)
    BY <1>8, <1>12 DEF Above
  <2>3. Newest(session, info[h].save) <= k /\ Newest(session, n) <= k
    BY <1>7, <1>8, <1>11, <2>1, <2>2
  <2>4. Has(session, info[h].save)
    BY <2>1 DEF HandleInv, LiveInv, Mirrored
  <2> QED BY <1>8, <1>14, <2>2, <2>3, <2>4
<1> HIDE DEF f, g
<1>16. FrameLive(t)'
  <2>1. Unused(n) => Unused(n)'
    BY <1>1 DEF Unused
  <2> QED BY <1>1, <1>3, <1>4, <1>5, <1>15, <2>1 DEF FrameLive, f, g
<1> QED BY <1>2, <1>14, <1>16 DEF LiveInv

\* What the reply to a command does to the savepoint stack.
LEMMA RepliedSaves ==
  ASSUME HandleInv, NEW t \in Task, Answer(t) \/ Cancel(t) \/ Lose(t)
  PROVE  LET f == frame[t]
             s == session'.saves
         IN \/ s = session.saves /\ (f.do # "savepoint" \/ frame'[t].reply = "error")
            \/ s = <<>> /\ f.do \in {"commit", "rollback"}
            \/ s = Append(session.saves, f.save) /\ f.do = "savepoint"
            \/ /\ Has(session, f.save) /\ f.do = "release"
               /\ s = SubSeq(session.saves, 1, Newest(session, f.save) - 1)
            \/ /\ Has(session, f.save) /\ f.do = "rollback to"
               /\ s = SubSeq(session.saves, 1, Newest(session, f.save))
<1> DEFINE f == frame[t]
<1>1. f.at # "idle"
  BY ReplyFrames
<1>2. /\ f \in Frames
      /\ \/ /\ Accepted(session, f.do, f.save)
            /\ session' = Applied(session, f.do, f.save)
         \/ frame'[t].reply = "error" /\ session'.saves = session.saves
  BY <1>1, Replied DEF HandleInv
<1>3. session \in Sessions /\ f.do \in Verbs
  BY <1>2 DEF HandleInv, NestInv, TypeOK, Frames
<1>4. PICK do \in Verbs : do = f.do
  BY <1>3
<1>5. PICK n : n = f.save
  OBVIOUS
<1>6. PICK r : r = session'
  OBVIOUS
<1>7. CASE Accepted(session, do, n) /\ r = Applied(session, do, n)
  <2>1. /\ do \in {"none", "begin", "query"} => r.saves = session.saves
        /\ do \in {"commit", "rollback"} => r.saves = <<>>
        /\ do = "savepoint" => r.saves = Append(session.saves, n)
        /\ do = "release" => r.saves = SubSeq(session.saves, 1, Newest(session, n) - 1)
        /\ do = "rollback to" => r.saves = SubSeq(session.saves, 1, Newest(session, n))
    <3> HIDE DEF f
    <3>1. CASE do \in {"none", "begin", "query"}
      BY <1>3, <1>7, <3>1 DEF Applied, Sessions
    <3>2. CASE do \in {"commit", "rollback"}
      BY <1>3, <1>7, <3>2 DEF Applied, Sessions, Ended
    <3>3. CASE do \in {"savepoint", "release", "rollback to"}
      BY <1>3, <1>7, <3>3 DEF Applied, Sessions
    <3> QED BY <1>4, <3>1, <3>2, <3>3 DEF Verbs
  <2>2. /\ do = "release" => Has(session, n)
        /\ do = "rollback to" => Has(session, n)
    BY <1>7 DEF Accepted
  <2>3. do \in {"none", "begin", "query", "commit", "rollback", "savepoint", "release",
                "rollback to"}
    BY <1>4 DEF Verbs
  <2> HIDE DEF f
  <2>4. do \in {"none", "begin", "query"} => do # "savepoint"
    OBVIOUS
  <2> QED BY ZenonT(60), <1>4, <1>5, <1>6, <2>1, <2>2, <2>3, <2>4 DEF f
<1>8. CASE frame'[t].reply = "error" /\ r.saves = session.saves
  BY <1>6, <1>8
<1> QED BY <1>2, <1>4, <1>5, <1>6, <1>7, <1>8

\* A reply keeps what the handles mirror, or dooms the handles it leaves behind.
LEMMA LiveReplies ==
  ASSUME Name \cap (1 .. MaxBegins) = {}, HandleInv, TypeOK',
         NEW t \in Task, Answer(t) \/ Cancel(t) \/ Lose(t)
  PROVE  LiveInv'
<1> DEFINE f == frame[t]
<1>1. CASE /\ session'.saves = session.saves
           /\ f.do # "savepoint" \/ frame'[t].reply = "error"
  BY <1>1, LiveSame
<1>2. CASE session'.saves = <<>> /\ f.do \in {"commit", "rollback"}
  BY <1>2, LiveEnded
<1>3. CASE session'.saves = Append(session.saves, f.save) /\ f.do = "savepoint"
  BY <1>3, LivePushed
<1>4. CASE /\ Has(session, f.save) /\ f.do = "release"
           /\ session'.saves = SubSeq(session.saves, 1, Newest(session, f.save) - 1)
  BY <1>4, LiveReleased
<1>5. CASE /\ Has(session, f.save) /\ f.do = "rollback to"
           /\ session'.saves = SubSeq(session.saves, 1, Newest(session, f.save))
  <2>1. f.at # "idle" /\ Sends(t) /\ f \in Frames
    BY ReplyFrames, Alone DEF HandleInv, BlockInv
  <2>2. f.do # "savepoint"
    BY <1>5
  <2>3. f.at \in {"undo", "recoverTo", "rollback", "spRollback"}
    BY <1>5, <2>1 DEF Sends, Frames, Labels
  <2>4. f.at = "rollback" => info[f.h].save # NoSave
    BY <1>5, <2>1 DEF Sends
  <2> HIDE DEF f
  <2> QED BY <1>5, <2>2, <2>3, <2>4, LiveRolled DEF f
<1> QED BY <1>1, <1>2, <1>3, <1>4, <1>5, RepliedSaves

\* The application's own transaction begins and ends without handles.
LEMMA LiveOutside ==
  ASSUME HandleInv, CallerBegins \/ CallerEnds \/ UNCHANGED vars
  PROVE  LiveInv'
<1>1. CASE CallerBegins \/ CallerEnds
  <2>1. /\ open' = {} /\ frame' = frame /\ minted' = minted
        /\ \A t \in Task : frame[t].at = "idle"
        /\ session'.saves \in {session.saves, <<>>}
    <3>1. session \in Sessions
      BY DEF HandleInv, NestInv, TypeOK
    <3>2. session'.saves \in {session.saves, <<>>}
      BY <1>1, <3>1 DEF CallerBegins, CallerEnds, Ended, Sessions
    <3> QED BY <1>1, <3>2 DEF CallerBegins, CallerEnds, registry, Quiet
  <2>2. ASSUME NEW t \in Task PROVE FrameLive(t)'
    <3>1. frame'[t].at = "idle" /\ frame'[t].do = "none"
      BY <2>1 DEF HandleInv, BlockInv, Sends
    <3> QED BY <3>1, LiveIdle
  <2>3. Mirrored'
    BY <2>1 DEF Mirrored, Kept
  <2>4. NameInv'
    BY <2>1 DEF HandleInv, LiveInv, NameInv
  <2> QED BY <2>2, <2>3, <2>4 DEF LiveInv
<1>2. CASE UNCHANGED vars
  <2>1. UNCHANGED <<info, open, minted, session, frame>>
    BY <1>2 DEF vars, registry, others
  <2>2. NameInv'
    BY <2>1 DEF HandleInv, LiveInv, NameInv, IsTx
  <2>3. Mirrored'
    BY <2>1 DEF HandleInv, LiveInv, Mirrored, Kept, Doomed, Has, Newest
  <2>4. \A n : Has(session, n)' = Has(session, n) /\ Above(n)' = Above(n)
               /\ Unused(n)' = Unused(n)
    BY <2>1 DEF Above, Unused, Has, Newest
  <2>5. \A t \in Task : FrameLive(t)'
    BY <2>1, <2>4 DEF HandleInv, LiveInv, FrameLive
  <2> QED BY <2>2, <2>3, <2>5 DEF LiveInv
<1> QED BY <1>1, <1>2

\* At first there is neither a handle nor a savepoint.
LEMMA LiveInit == ASSUME Init PROVE LiveInv
<1>1. /\ open = {} /\ session.saves = <<>>
      /\ \A t \in Task : frame[t].at = "idle" /\ frame[t].do = "none"
  BY DEF Init, NoFrame, Fresh
<1> QED BY <1>1 DEF LiveInv, NameInv, Mirrored, Kept, FrameLive

\* Between operations no handle is doomed, so that each controls its savepoint.
LEMMA HandlesMirrored ==
  ASSUME HandleInv PROVE HandlesLive
<1> SUFFICES ASSUME Quiet, NEW h \in open
             PROVE  /\ Usable(h) => Live(h)
                    /\ \A g \in open :
                         g < h /\ Usable(h) /\ Usable(g) =>
                           IF info[h].save = NoSave THEN FALSE
                           ELSE info[g].save # NoSave =>
                                  Newest(session, info[g].save)
                                    < Newest(session, info[h].save)
  BY DEF HandlesLive
<1>1. \A t \in Task : frame[t].at = "idle" /\ frame[t].do = "none"
  BY DEF Quiet, HandleInv, BlockInv, Sends
<1>2. Kept = {g \in open : info[g].save # NoSave}
  BY <1>1 DEF Kept, Doomed
<1>3. ~Ending
  BY <1>1 DEF Ending
<1>4. \A g \in open : info[g].save = NoSave => Outer(g)
  BY ConstantsAssumption
     DEF HandleInv, LiveInv, NameInv, Outer, NoSave, ConstantsAssumption
<1>5. Live(h)
  BY <1>2, <1>3, <1>4 DEF Live, HandleInv, LiveInv, Mirrored, BlockInv, Controls
<1>6. ASSUME NEW g \in open, g < h
      PROVE  /\ info[h].save # NoSave
             /\ info[g].save # NoSave =>
                  Newest(session, info[g].save) < Newest(session, info[h].save)
  <2>1. g \in Nat /\ h \in Nat
    BY OpenType DEF HandleInv, NestInv
  <2>2. info[h].save # NoSave
    BY <1>4, <1>6, <2>1 DEF HandleInv, BlockInv, OuterFirst
  <2> QED BY <1>2, <1>6, <2>2 DEF HandleInv, LiveInv, Mirrored
<1> QED BY <1>5, <1>6

\* With one operation at a time and for any callers, bounds and faults, as long
\* as they do not spell a name like the ones relq generates
\* (relq_savepoint_<n>, _generated_savepoint_name): between operations the
\* registry mirrors the server.  What a usable handle controls exists there,
\* and the handles are stacked in the order of their savepoints, so that
\* invalidate_after() drops exactly what PostgreSQL does.
THEOREM HandlesLiveCorrect ==
  ASSUME Serial, Name \cap (1 .. MaxBegins) = {}
  PROVE  Spec => []HandlesLive
<1>1. Init => HandleInv
  <2> SUFFICES ASSUME Init PROVE HandleInv
    OBVIOUS
  <2>1. names = {} /\ open = {} /\ \A t \in Task : frame[t].at = "idle"
    BY DEF Init, NoFrame
  <2>2. NamesInv
    BY <2>1 DEF NamesInv, Taken, NamesOf, Reserving, Waiting
  <2> QED BY <2>2, NestInit, BlockInit, LiveInit DEF HandleInv
<1>2. HandleInv /\ TypeOK' /\ [Next]_vars => HandleInv'
  <2> SUFFICES ASSUME HandleInv, TypeOK', [Next]_vars PROVE HandleInv'
    OBVIOUS
  <2>1. NestStep
    BY NestNext DEF HandleInv
  <2>2. NestInv'
    BY <2>1 DEF NestStep, NestInv
  <2>3. NamesInv'
    BY <2>1, NamesStarts, NamesContinues, NamesOutside DEF Next, HandleInv
  <2>4. BlockInv'
    BY <2>2, BlockNext DEF HandleInv, BlockStep
  <2>5. LiveInv'
    BY <2>2, LiveStarts, LiveContinues, LiveReplies, LiveOutside DEF Next
  <2> QED BY <2>2, <2>3, <2>4, <2>5 DEF HandleInv
<1>3. HandleInv => HandlesLive
  BY HandlesMirrored
<1>4. Spec => []TypeOK
  BY TypeCorrect
<1> QED BY <1>1, <1>2, <1>3, <1>4, PTL DEF Spec

=============================================================================
